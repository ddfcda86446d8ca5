--------------------------- MODULE LiveCertification ---------------------------
(***************************************************************************)
(* The scripts of scripts/live-governance as an operator runs them on one  *)
(* tenant, in any order and any number of times up to MaxRuns: they share  *)
(* the tenant's resources, the environment file the bootstraps write, and  *)
(* what an earlier script that failed or died has left.                    *)
(***************************************************************************)
EXTENDS AdapterCertification, GovernanceCertification

vars == << sandbox, certification, validation >>

TypeOK == SandboxTypeOK /\ CertificationTypeOK /\ ValidationTypeOK

Init == SandboxInit /\ CertificationInit /\ ValidationInit

-----------------------------------------------------------------------------

\* The operator starts a script.
Operator ==
    \/ /\ BootstrapEntraPrimitives \/ BootstrapOktaPrimitives
          \/ BootstrapEntraGovernance \/ DestroyEntraPrimitives
       /\ UNCHANGED << certification, validation >>
    \/ /\ \E s \in { "certify", "fulfill", "destroy" } : StartAdapterScript(s)
       /\ UNCHANGED validation
    \/ StartValidation /\ UNCHANGED certification

\* The script that runs does what it does next.
Running ==
    \/ (BootstrapStep \/ \E n \in Name : Delete(n)) /\ UNCHANGED << certification, validation >>
    \/ AdapterStep /\ UNCHANGED validation
    \/ ValidationStep /\ UNCHANGED certification

\* The replicas follow or go back, a script dies.
Elsewhere ==
    \/ /\ \E t \in Name \X Copy : Replicate(t) \/ Waver(t)
       /\ UNCHANGED << certification, validation >>
    \/ /\ Crash /\ Idle /\ Forget
       /\ UNCHANGED << passed, erred, requests, stored >>

\* Between two scripts nothing has to happen.
Next == Operator \/ Running \/ Elsewhere

Spec == Init /\ [][Next]_vars

=============================================================================
