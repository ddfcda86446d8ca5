--------------------------- MODULE MCAccessDecision ---------------------------
(***************************************************************************)
(* Instances of AccessDecision for TLC.                                    *)
(***************************************************************************)
EXTENDS AccessDecision, TLC

CONSTANTS r1, c1, c2, c3, c4, boss, deputy, user

OneRequest == { r1 }

ThreeCalls == { c1, c2, c3 }
FourCalls == { c1, c2, c3, c4 }

\* An approver and the requester, or two approvers.
ApproverAndRequester == { boss, user }
TwoApprovers == { boss, deputy }

CallSymmetry == Permutations(Call)

=============================================================================
