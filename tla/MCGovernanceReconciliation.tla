--------------------- MODULE MCGovernanceReconciliation ---------------------
(***************************************************************************)
(* Instances of GovernanceReconciliation for TLC.                          *)
(***************************************************************************)
EXTENDS GovernanceReconciliation, TLC

CONSTANTS r1, w1, w2, p1, p2

OneRequest == { r1 }
OneWorker == { w1 }
TwoWorkers == { w1, w2 }
TwoPolls == { p1, p2 }
OwnerPerPoll == p1 :> w1 @@ p2 :> w2
OwnerOfChains == p1 :> w1 @@ p2 :> w1

AllEntra == [r \in Request |-> "entra"]
AllDoubles == [r \in Request |-> "double"]
OpnoryFulfills == [r \in Request |-> "opnory"]

AnyStart == { "AWAITING_AUTHORITY_DECISION", "FULFILLED" }
FulfilledStart == { "FULFILLED" }
OpenStart == { "open" }

=============================================================================
