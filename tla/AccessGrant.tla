----------------------------- MODULE AccessGrant -----------------------------
(***************************************************************************)
(* What deciding on a request promises, without calls, locks, versions or  *)
(* idempotency keys: a request is decided once, by somebody other than its *)
(* requester; the grant of it begins once, when it is approved and not     *)
(* closed; and its requester is put into the team once, in that grant.     *)
(* AccessDecision implements this specification.                           *)
(*                                                                         *)
(* A request that closes while its grant is under way can still be given   *)
(* the membership: nobody stops a grant that has begun.                    *)
(***************************************************************************)

CONSTANTS Request, Approver, Requester, Nobody

VARIABLES
    verdict,      \* what a request waits for, or was decided to be
    decider,      \* who decided
    closed,       \* requests that are cancelled
    begun,        \* requests whose grant has begun
    membership    \* the requester's team membership at GitHub

grantVars == << verdict, decider, closed, begun, membership >>

\* A request is created, to be decided here or by an external authority.
Submit(r, waits) ==
    /\ verdict[r] = "none"
    /\ verdict' = [verdict EXCEPT ![r] = waits]
    /\ UNCHANGED << decider, closed, begun, membership >>

\* Somebody decides, for the first and the last time.
Decide(r, a, outcome) ==
    /\ verdict[r] = "open" /\ r \notin closed
    /\ a # Requester
    /\ verdict' = [verdict EXCEPT ![r] = outcome]
    /\ decider' = [decider EXCEPT ![r] = a]
    /\ UNCHANGED << closed, begun, membership >>

\* A request is closed for good, whatever was decided.
Close(r) ==
    /\ verdict[r] # "none" /\ r \notin closed
    /\ closed' = closed \cup {r}
    /\ UNCHANGED << verdict, decider, begun, membership >>

\* The one grant of a request begins.
Begin(r) ==
    /\ verdict[r] = "approved" /\ r \notin closed /\ r \notin begun
    /\ begun' = begun \cup {r}
    /\ UNCHANGED << verdict, decider, closed, membership >>

\* The one grant puts the requester into the team, or invites them.
Give(r, state) ==
    /\ r \in begun /\ membership[r] = "absent"
    /\ membership' = [membership EXCEPT ![r] = state]
    /\ UNCHANGED << verdict, decider, closed, begun >>

\* The invited user accepts.
Accept(r) ==
    /\ membership[r] = "pending"
    /\ membership' = [membership EXCEPT ![r] = "active"]
    /\ UNCHANGED << verdict, decider, closed, begun >>

GrantInit ==
    /\ verdict = [r \in Request |-> "none"]
    /\ decider = [r \in Request |-> Nobody]
    /\ closed = {}
    /\ begun = {}
    /\ membership = [r \in Request |-> "absent"]

GrantNext ==
    \E r \in Request :
        \/ \E waits \in { "open", "elsewhere" } : Submit(r, waits)
        \/ \E a \in Approver, outcome \in { "approved", "denied" } : Decide(r, a, outcome)
        \/ Close(r) \/ Begin(r) \/ Accept(r)
        \/ \E state \in { "active", "pending" } : Give(r, state)

GrantSpec == GrantInit /\ [][GrantNext]_grantVars

=============================================================================
