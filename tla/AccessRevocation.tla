--------------------------- MODULE AccessRevocation ---------------------------
(***************************************************************************)
(* What the expiration scheduler promises, without leases, polls, retries  *)
(* or idempotency keys: a granted request is taken for revocation, its     *)
(* membership is removed while it is taken, and it is settled with one     *)
(* outcome.  ExpirationScheduler implements this specification;            *)
(* GovernanceReconciliation composes it with the governance worker, which  *)
(* writes to the same rows.                                                *)
(*                                                                         *)
(* The processes that take a request can die, and a taken request can be   *)
(* lost to every process: then it stays REVOCATION_PENDING.                *)
(***************************************************************************)
EXTENDS AccessLifecycle

CONSTANT Request

VARIABLES
    status,       \* status
    again,        \* requests with an expiration_next_attempt_at
    revoking,     \* requests some process is revoking
    membership    \* the requester's team membership at GitHub

revocationVars == << status, again, revoking, membership >>

RevocationOutcome == { "REVOKED", "RETRY", "REVOCATION_FAILED", "SKIPPED" }

\* Requests S are claimed; they are lost at once when the claimer loses track.
Take(S, tracked) ==
    /\ S # {} /\ S \cap revoking = {}
    /\ \A r \in S : \/ status[r] = "FULFILLED"
                    \/ status[r] = "RETRY" /\ r \in again
    /\ status' = [r \in Request |->
          IF r \in S THEN "REVOCATION_PENDING" ELSE status[r]]
    /\ revoking' = IF tracked THEN revoking \cup S ELSE revoking
    /\ UNCHANGED << again, membership >>

\* The membership of a taken request is removed at GitHub.
Remove(r) ==
    /\ r \in revoking
    /\ membership' = [membership EXCEPT ![r] = "absent"]
    /\ UNCHANGED << status, again, revoking >>

\* A batch gets its outcomes, whatever the rows' statuses are by now.
Settle(outcome) ==
    LET S == DOMAIN outcome
    IN  /\ S # {} /\ S \subseteq revoking
        /\ status' = [r \in Request |->
              IF r \in S /\ outcome[r] # "SKIPPED" THEN outcome[r] ELSE status[r]]
        /\ again' = (again \cup { r \in S : outcome[r] = "RETRY" })
                        \ { r \in S : outcome[r] = "REVOCATION_FAILED" }
        /\ revoking' = revoking \ S
        /\ UNCHANGED membership

\* Requests are lost: a crash, or a finalize that is rolled back.
Lose(S) ==
    /\ S # {} /\ S \subseteq revoking
    /\ revoking' = revoking \ S
    /\ UNCHANGED << status, again, membership >>

\* An administrator removes the membership and closes the row.
Withdraw(r) ==
    /\ status[r] \in { "FULFILLED", "RETRY", "REVOCATION_PENDING" }
    /\ status' = [status EXCEPT ![r] = "REVOKED"]
    /\ membership' = [membership EXCEPT ![r] = "absent"]
    /\ UNCHANGED << again, revoking >>

\* The invited user accepts.
Accept(r) ==
    /\ membership[r] = "pending"
    /\ membership' = [membership EXCEPT ![r] = "active"]
    /\ UNCHANGED << status, again, revoking >>

RevocationInit ==
    /\ status = [r \in Request |-> "FULFILLED"]
    /\ again = {}
    /\ revoking = {}
    /\ membership \in [Request -> {"active", "pending"}]

RevocationNext ==
    \/ \E S \in SUBSET Request, tracked \in BOOLEAN : Take(S, tracked)
    \/ \E S \in SUBSET Request :
          \E outcome \in [S -> RevocationOutcome] : Settle(outcome)
    \/ \E S \in SUBSET Request : Lose(S)
    \/ \E r \in Request : Remove(r) \/ Withdraw(r) \/ Accept(r)

RevocationSpec == RevocationInit /\ [][RevocationNext]_revocationVars

=============================================================================
