------------------------- MODULE MCGovernedRequests -------------------------
(***************************************************************************)
(* Instances of GovernedRequests for TLC.                                  *)
(***************************************************************************)
EXTENDS GovernedRequests

CONSTANTS c1, c2, t1, t2, o1, o2, o3, o4

TwoCalls == { c1, c2 }
TwoTickets == { t1, t2 }
FourObjects == { o1, o2, o3, o4 }

\* A request of each provider, of each owner, and created in each status.
TwoStarts ==
    { [ status |-> "AWAITING_AUTHORITY_DECISION", provider |-> "entra", owner |-> "authority" ],
      [ status |-> "PENDING_APPROVAL", provider |-> "okta", owner |-> "opnory" ] }

=============================================================================
