--------------------- MODULE GovernanceReconciliationProofs ---------------------
(***************************************************************************)
(* The governance worker writes no decision that is not the authority's,   *)
(* for every number of workers, polls and requests, every assignment of    *)
(* providers, and whatever the expiration scheduler does to the same rows. *)
(*                                                                         *)
(* A decision passes from the portal to a provider's answer, to the memory *)
(* of a poll, to the row.  The invariant IInv follows it: what each of the *)
(* places shows is what the portal shows, which is final once it decided.  *)
(***************************************************************************)
EXTENDS GovernanceReconciliation, TLAPS

\* What a poll was told stays true until it acts on it.
AnswersAreTheAuthoritys ==
    \A p \in Poll, r \in Request :
        /\ stage[p][r] = "APPROVED" => portal[r] = "approved"
        /\ stage[p][r] = "DENIED" => portal[r] = "denied"

AskedHasProvider ==
    \A p \in Poll, r \in Request : stage[p][r] \in Asking => Provider[r] # "none"

RetryResultHasTime ==
    \A p \in Poll, r \in Request : stage[p][r] = "RETRY" => retryIn[p][r] # Null

\* The authority holds, or held, an assignment of what it approved.
AssignmentOfApproved ==
    \A r \in Request : external[r] = "none" <=> portal[r] # "approved"

Checking == { "finding", "findingById", "ACTIVE", "GONE" }

\* Only what the authority approved is looked up there.
CheckedIsApproved ==
    /\ \A r \in assigned : portal[r] = "approved"
    /\ \A p \in Poll, r \in Request :
          /\ InBatch(p, r) /\ seen[p][r] = "FULFILLED" => portal[r] = "approved"
          /\ stage[p][r] \in Checking => portal[r] = "approved"

\* An assignment that ended does not come back.
GoneIsLost ==
    \A p \in Poll, r \in Request :
        stage[p][r] = "GONE" /\ Provider[r] = "double" => external[r] = "lost"

ItemsSound ==
    /\ AnswersAreTheAuthoritys
    /\ AskedHasProvider
    /\ RetryResultHasTime
    /\ CheckedIsApproved
    /\ GoneIsLost

IInv ==
    /\ TypeOK
    /\ DecisionIsTheAuthoritys
    /\ RetryHasTaker
    /\ AssignmentOfApproved
    /\ ItemsSound

-----------------------------------------------------------------------------
(* What the providers can answer.                                           *)

LEMMA StatusAnswersAreTrue ==
  ASSUME NEW r \in Request, portal[r] \in PortalState, Provider[r] # "none"
  PROVE  /\ "APPROVED" \in StatusAnswers(r) => portal[r] = "approved"
         /\ "DENIED" \in StatusAnswers(r) => portal[r] = "denied"
<1>1. ASSUME NEW s \in EntraRequestStatuses(portal[r])
      PROVE  /\ MapEntraStatus(s) = "APPROVED" => portal[r] = "approved"
             /\ MapEntraStatus(s) = "DENIED" => portal[r] = "denied"
  BY DEF EntraRequestStatuses, MapEntraStatus, PortalState
<1>2. ASSUME NEW s \in OktaRequestStatuses(portal[r])
      PROVE  /\ MapOktaRequestStatus(s[1], s[2]) = "APPROVED" => portal[r] = "approved"
             /\ MapOktaRequestStatus(s[1], s[2]) = "DENIED" => portal[r] = "denied"
  BY DEF OktaRequestStatuses, MapOktaRequestStatus, PortalState
<1>3. Provider[r] \in { "entra", "okta", "double" }
  BY ReconciliationAssumption DEF ProviderKind
<1> QED BY <1>1, <1>2, <1>3
        DEF StatusAnswers, Available, EntraStatusAnswers, OktaStatusAnswers

\* A double takes an assignment for missing only when the authority has none.
LEMMA DoubleMissesNothing ==
  ASSUME NEW p \in Poll, NEW r \in Request, Provider[r] = "double",
         NEW answer \in AssignmentAnswers(p, r), answer # "ACTIVE"
  PROVE  external[r] # "active"
  BY DEF AssignmentAnswers

-----------------------------------------------------------------------------
(* The steps of one item.                                                   *)

Moves(p, r, next, t) ==
    /\ stage' = [stage EXCEPT ![p][r] = next]
    /\ retryIn' = [retryIn EXCEPT ![p][r] = t]
    /\ UNCHANGED << seen, tried >>

\* The item's next step is one its request's portal and provider allow.
MovesSoundly(p, r) ==
    \E next \in Stage \ {"none"}, t \in Time :
        /\ Moves(p, r, next, t)
        /\ next = "RETRY" => t # Null
        /\ next = "APPROVED" => portal[r] = "approved"
        /\ next = "DENIED" => portal[r] = "denied"
        /\ next \in Checking => portal[r] = "approved"
        /\ next \in Asking => Provider[r] # "none"
        /\ next = "GONE" /\ Provider[r] = "double" => external[r] = "lost"

LEMMA BecomeMoves ==
  ASSUME TypeOK, NEW p \in Poll, NEW r \in Request, NEW next, Become(p, r, next)
  PROVE  Moves(p, r, next, retryIn[p][r]) /\ retryIn[p][r] \in Time
  BY DEF TypeOK, Become, Moves

LEMMA FailMoves ==
  ASSUME TypeOK, NEW p \in Poll, NEW r \in Request, NEW retryable \in BOOLEAN,
         Fail(p, r, retryable)
  PROVE  MovesSoundly(p, r)
<1>1. CASE \/ Become(p, r, "RECONCILIATION_FAILED")
           \/ Become(p, r, "thrown")
  BY <1>1, BecomeMoves DEF MovesSoundly, Stage, Outcome, Checking, Asking
<1>2. ASSUME NEW d \in Int, retryIn' = [retryIn EXCEPT ![p][r] = d],
             stage' = [stage EXCEPT ![p][r] = "RETRY"], UNCHANGED << seen, tried >>
      PROVE  MovesSoundly(p, r)
  <2>1. d \in Time /\ d # Null
    BY ReconciliationAssumption DEF Time
  <2>2. "RETRY" \in Stage \ {"none"} /\ "RETRY" \notin Checking \cup Asking
    BY DEF Stage, Outcome, Checking, Asking
  <2> QED BY <1>2, <2>1, <2>2 DEF MovesSoundly, Moves
<1>3. CASE /\ \E d \in CappedDelay(tried[p][r]) .. CappedDelay(tried[p][r]) + Jitter :
                retryIn' = [retryIn EXCEPT ![p][r] = d]
           /\ stage' = [stage EXCEPT ![p][r] = "RETRY"]
           /\ UNCHANGED << seen, tried >>
  <2>1. PICK d \in CappedDelay(tried[p][r]) .. CappedDelay(tried[p][r]) + Jitter :
                retryIn' = [retryIn EXCEPT ![p][r] = d]
    BY <1>3
  <2>2. d \in Int
    BY <2>1
  <2> QED BY <1>2, <1>3, <2>1, <2>2
<1> QED BY <1>1, <1>3 DEF Fail

LEMMA QueryFailsMoves ==
  ASSUME TypeOK, NEW p \in Poll, NEW r \in Request, QueryFails(p, r)
  PROVE  MovesSoundly(p, r)
  BY FailMoves DEF QueryFails

LEMMA MovesItemsSound ==
  ASSUME TypeOK, ItemsSound, NEW p \in Poll, NEW r \in Request,
         InBatch(p, r), MovesSoundly(p, r),
         UNCHANGED authority,
         assigned' \subseteq Request, \A q \in assigned' : portal[q] = "approved"
  PROVE  /\ ItemsSound'
         /\ stage' \in [Poll -> [Request -> Stage]]
         /\ retryIn' \in [Poll -> [Request -> Time]]
         /\ UNCHANGED << seen, tried >>
<1> PICK next \in Stage \ {"none"}, t \in Time :
        /\ Moves(p, r, next, t)
        /\ next = "RETRY" => t # Null
        /\ next = "APPROVED" => portal[r] = "approved"
        /\ next = "DENIED" => portal[r] = "denied"
        /\ next \in Checking => portal[r] = "approved"
        /\ next \in Asking => Provider[r] # "none"
        /\ next = "GONE" /\ Provider[r] = "double" => external[r] = "lost"
  BY DEF MovesSoundly
<1>1. /\ stage' \in [Poll -> [Request -> Stage]]
      /\ retryIn' \in [Poll -> [Request -> Time]]
      /\ UNCHANGED << seen, tried, portal, external >>
  BY DEF Moves, TypeOK, authority
<1>2. \A q \in Poll, u \in Request :
          /\ stage'[q][u] = IF q = p /\ u = r THEN next ELSE stage[q][u]
          /\ retryIn'[q][u] = IF q = p /\ u = r THEN t ELSE retryIn[q][u]
  BY DEF Moves, TypeOK
<1>3. /\ AnswersAreTheAuthoritys'
      /\ AskedHasProvider'
      /\ RetryResultHasTime'
  <2>1. AnswersAreTheAuthoritys'
    BY <1>1, <1>2 DEF ItemsSound, AnswersAreTheAuthoritys
  <2>2. AskedHasProvider'
    BY <1>1, <1>2 DEF ItemsSound, AskedHasProvider
  <2>3. RetryResultHasTime'
    BY <1>1, <1>2 DEF ItemsSound, RetryResultHasTime
  <2> QED BY <2>1, <2>2, <2>3
<1>4. CheckedIsApproved'
  BY <1>1, <1>2 DEF ItemsSound, CheckedIsApproved, InBatch
<1>5. GoneIsLost'
  BY <1>1, <1>2 DEF ItemsSound, GoneIsLost
<1> QED BY <1>1, <1>3, <1>4, <1>5 DEF ItemsSound

LEMMA SilentStepPreserves ==
  ASSUME IInv, NEW p \in Poll, NEW r \in Request, InBatch(p, r), MovesSoundly(p, r),
         UNCHANGED << status, expiration, schedule, lease, authority, memory >>
  PROVE  IInv'
<1>1. UNCHANGED << status, again, revoking, nextCheck, nextTry, tries, assigned,
                   leaseOwner, leaseLeft, portal, external, alive, running, releasing >>
  BY DEF expiration, schedule, lease, authority, memory
<1>2. /\ ItemsSound'
      /\ stage' \in [Poll -> [Request -> Stage]]
      /\ retryIn' \in [Poll -> [Request -> Time]]
      /\ UNCHANGED << seen, tried >>
  BY <1>1, MovesItemsSound DEF IInv, TypeOK, ItemsSound, CheckedIsApproved
<1>3. TypeOK'
  BY <1>1, <1>2 DEF IInv, TypeOK
<1>4. DecisionIsTheAuthoritys' /\ RetryHasTaker' /\ AssignmentOfApproved'
  BY <1>1 DEF IInv, DecisionIsTheAuthoritys, RetryHasTaker, AssignmentOfApproved
<1> QED BY <1>2, <1>3, <1>4 DEF IInv

\* What is looked up at the authority, or was read as FULFILLED, it approved.
LEMMA RouteIsSound ==
  ASSUME IInv, NEW p \in Poll, NEW r \in Request, InBatch(p, r)
  PROVE  /\ Route(p, r) \in Asking
         /\ Route(p, r) \in Checking => portal[r] = "approved"
  BY DEF IInv, ItemsSound, CheckedIsApproved, DecisionIsTheAuthoritys, Route,
         Asking, Checking

LEMMA ProcessPreserves ==
  ASSUME IInv, NEW p \in Poll, NEW r \in Request, ProcessSingleReconciliation(p, r)
  PROVE  IInv'
<1>1. InBatch(p, r) /\ TypeOK
  BY DEF ProcessSingleReconciliation, InBatch, IInv
<1>2. ASSUME Become(p, r, "SKIPPED")
      PROVE  MovesSoundly(p, r)
  BY <1>1, <1>2, BecomeMoves DEF MovesSoundly, Stage, Outcome, Checking, Asking
<1>3. ASSUME Fail(p, r, FALSE) \/ QueryFails(p, r)
      PROVE  MovesSoundly(p, r)
  BY <1>1, <1>3, FailMoves, QueryFailsMoves
<1>4. ASSUME Provider[r] # "none", Become(p, r, Route(p, r))
      PROVE  MovesSoundly(p, r)
  <2>1. Route(p, r) \in Stage \ {"none", "RETRY", "APPROVED", "DENIED", "GONE"}
    BY <1>1, RouteIsSound DEF Asking, Stage, Active
  <2> QED BY <1>1, <1>4, <2>1, RouteIsSound, BecomeMoves DEF MovesSoundly
<1>5. MovesSoundly(p, r)
  BY <1>2, <1>3, <1>4 DEF ProcessSingleReconciliation
<1> QED BY <1>1, <1>5, SilentStepPreserves DEF ProcessSingleReconciliation

LEMMA GetRequestStatusPreserves ==
  ASSUME IInv, NEW p \in Poll, NEW r \in Request, GetRequestStatus(p, r)
  PROVE  IInv'
<1>1. InBatch(p, r) /\ TypeOK /\ portal[r] \in PortalState /\ Provider[r] # "none"
  BY DEF GetRequestStatus, InBatch, IInv, TypeOK, ItemsSound, AskedHasProvider, Asking
<1>2. ASSUME NEW answer \in StatusAnswers(r) \cap { "PENDING", "APPROVED", "DENIED" },
             Become(p, r, answer)
      PROVE  MovesSoundly(p, r)
  <2>1. /\ answer \in Stage \ {"none"} /\ answer \notin Checking \cup Asking
        /\ answer # "RETRY" /\ answer # "GONE"
    BY <1>2 DEF Stage, Active, Answer, Checking, Asking
  <2>2. /\ answer = "APPROVED" => portal[r] = "approved"
        /\ answer = "DENIED" => portal[r] = "denied"
    BY <1>1, <1>2, StatusAnswersAreTrue
  <2> QED BY <1>1, <1>2, <2>1, <2>2, BecomeMoves DEF MovesSoundly
<1>3. MovesSoundly(p, r)
  BY <1>1, <1>2, FailMoves DEF GetRequestStatus
<1> QED BY <1>1, <1>3, SilentStepPreserves DEF GetRequestStatus

LEMMA GetAssignmentPreserves ==
  ASSUME IInv, NEW p \in Poll, NEW r \in Request, GetAssignment(p, r)
  PROVE  IInv'
<1>1. /\ InBatch(p, r) /\ TypeOK /\ portal[r] = "approved"
      /\ external[r] \in { "active", "lost" }
  BY DEF GetAssignment, InBatch, IInv, ItemsSound, CheckedIsApproved, Checking,
         AssignmentOfApproved, TypeOK, AssignmentState
<1>2. ASSUME NEW answer \in AssignmentAnswers(p, r),
             \/ answer = "ACTIVE" /\ Become(p, r, "ACTIVE")
             \/ answer # "ACTIVE" /\ Become(p, r, "GONE")
      PROVE  MovesSoundly(p, r)
  <2>1. { "ACTIVE", "GONE" } \subseteq Stage \ {"none", "RETRY", "APPROVED", "DENIED"}
    BY DEF Stage, Active, Answer
  <2>2. { "ACTIVE", "GONE" } \cap Asking = {}
    BY DEF Asking
  <2>3. CASE Become(p, r, "ACTIVE")
    BY <1>1, <2>1, <2>2, <2>3, BecomeMoves DEF MovesSoundly
  <2>4. CASE answer # "ACTIVE" /\ Become(p, r, "GONE")
    <3>1. Provider[r] = "double" => external[r] = "lost"
      BY <1>1, <2>4, DoubleMissesNothing
    <3> QED BY <1>1, <2>1, <2>2, <2>4, <3>1, BecomeMoves DEF MovesSoundly
  <2> QED BY <1>2, <2>3, <2>4
<1>3. MovesSoundly(p, r)
  BY <1>1, <1>2, FailMoves, QueryFailsMoves DEF GetAssignment
<1> QED BY <1>1, <1>3, SilentStepPreserves DEF GetAssignment

\* The status an answer may lead to, and what the authority shows then.
LEMMA WritesTheAuthoritys ==
  ASSUME IInv, NEW p \in Poll, NEW r \in Request,
         TakeDecision(p, r) \/ CorrectDrift(p, r) \/ Confirm(p, r)
  PROVE  /\ status' \in [Request -> RowStatus]
         /\ nextCheck' \in [Request -> Time]
         /\ assigned' \subseteq Request
         /\ \A q \in assigned' : portal[q] = "approved"
         /\ \A q \in Request :
               \/ status'[q] = status[q]
               \/ status'[q] = "APPROVED" /\ portal[q] = "approved"
               \/ status'[q] = "DENIED" /\ portal[q] = "denied"
               \/ /\ status'[q] = "REVOCATION_PENDING" /\ portal[q] = "approved"
                  /\ Provider[q] = "double" => external[q] = "lost"
<1>1. { "APPROVED", "DENIED", "REVOCATION_PENDING" } \subseteq RowStatus
  BY DEF RowStatus, AccessRequestStatus
<1>2. PollInterval \in Time /\ Null \in Time
  BY ReconciliationAssumption DEF Time
<1>3. /\ status \in [Request -> RowStatus] /\ nextCheck \in [Request -> Time]
      /\ assigned \subseteq Request /\ \A q \in assigned : portal[q] = "approved"
  BY DEF IInv, TypeOK, ItemsSound, CheckedIsApproved
<1>4. /\ stage[p][r] = "APPROVED" => portal[r] = "approved"
      /\ stage[p][r] = "DENIED" => portal[r] = "denied"
      /\ stage[p][r] \in { "ACTIVE", "GONE" } => portal[r] = "approved"
      /\ stage[p][r] = "GONE" /\ Provider[r] = "double" => external[r] = "lost"
  BY DEF IInv, ItemsSound, AnswersAreTheAuthoritys, CheckedIsApproved, Checking, GoneIsLost
<1>5. CASE TakeDecision(p, r)
  BY <1>1, <1>2, <1>3, <1>4, <1>5 DEF TakeDecision, CheckAgain
<1>6. CASE CorrectDrift(p, r)
  BY <1>1, <1>2, <1>3, <1>4, <1>6 DEF CorrectDrift, CheckAgain
<1>7. CASE Confirm(p, r)
  BY <1>2, <1>3, <1>4, <1>7 DEF Confirm, CheckAgain
<1> QED BY <1>5, <1>6, <1>7

LEMMA ApplyAnswerPreserves ==
  ASSUME IInv, NEW p \in Poll, NEW r \in Request, ApplyAnswer(p, r)
  PROVE  IInv'
<1>1. InBatch(p, r) /\ TypeOK
  BY DEF ApplyAnswer, InBatch, IInv, Answer
<1>2. ASSUME Become(p, r, ResultOf(p, r))
      PROVE  MovesSoundly(p, r)
  <2>1. ResultOf(p, r) \in { "SKIPPED", "DRIFT_CORRECTED", "DRIFT_DETECTED", "RECONCILED" }
    BY DEF ResultOf
  <2>2. /\ ResultOf(p, r) \in Stage \ {"none"}
        /\ ResultOf(p, r) \notin Checking \cup Asking \cup {"RETRY", "APPROVED", "DENIED", "GONE"}
    BY <2>1 DEF Stage, Outcome, Checking, Asking
  <2> QED BY <1>1, <1>2, <2>2, BecomeMoves DEF MovesSoundly
<1>3. MovesSoundly(p, r)
  BY <1>1, <1>2, QueryFailsMoves DEF ApplyAnswer
<1>4. CASE TakeDecision(p, r) \/ CorrectDrift(p, r) \/ Confirm(p, r)
  <2>1. UNCHANGED << again, revoking, nextTry, tries, leaseOwner, leaseLeft, portal,
                     external, alive, running, releasing >>
    BY DEF ApplyAnswer, expiration, lease, authority, memory
  <2>2. /\ ItemsSound'
        /\ stage' \in [Poll -> [Request -> Stage]]
        /\ retryIn' \in [Poll -> [Request -> Time]]
        /\ UNCHANGED << seen, tried >>
    BY <1>1, <1>3, <1>4, MovesItemsSound, WritesTheAuthoritys DEF IInv, ApplyAnswer
  <2>3. TypeOK'
    BY <1>4, <2>1, <2>2, WritesTheAuthoritys DEF IInv, TypeOK
  <2>4. DecisionIsTheAuthoritys' /\ RetryHasTaker'
    BY <1>4, <2>1, WritesTheAuthoritys DEF IInv, DecisionIsTheAuthoritys, RetryHasTaker
  <2>5. AssignmentOfApproved'
    BY <2>1 DEF IInv, AssignmentOfApproved
  <2> QED BY <2>2, <2>3, <2>4, <2>5 DEF IInv
<1>5. CASE UNCHANGED << status, assigned, nextCheck >>
  <2>1. UNCHANGED << status, expiration, schedule, lease, authority, memory >>
    BY <1>5 DEF ApplyAnswer, schedule
  <2> QED BY <1>1, <1>3, <2>1, SilentStepPreserves
<1> QED BY <1>4, <1>5 DEF ApplyAnswer

-----------------------------------------------------------------------------
(* Batches begin and end.                                                   *)

\* The rows a poll has claimed are those it read.
LEMMA ClaimPreserves ==
  ASSUME IInv, NEW p \in Poll, NEW S \in SUBSET Request, ClaimDueReconciliations(p, S)
  PROVE  IInv'
<1>1. UNCHANGED << status, again, revoking, nextCheck, nextTry, tries, assigned,
                   portal, external, alive, running, releasing, retryIn >>
  BY DEF ClaimDueReconciliations, expiration, schedule, authority, memory
<1>2. Owner[p] \in Worker /\ LeaseDuration \in Time /\ Null \in Time
  BY ReconciliationAssumption DEF Time
<1>3. /\ leaseOwner' \in [Request -> Worker \cup {Null}]
      /\ leaseLeft' \in [Request -> Time]
  BY <1>2 DEF ClaimDueReconciliations, LeaseRows, IInv, TypeOK
<1>4. /\ stage' \in [Poll -> [Request -> Stage]]
      /\ seen' \in [Poll -> [Request -> RowStatus]]
      /\ tried' \in [Poll -> [Request -> Nat]]
  BY DEF ClaimDueReconciliations, IInv, TypeOK, Stage
<1>5. TypeOK'
  BY <1>1, <1>3, <1>4 DEF IInv, TypeOK
<1>6. \A q \in Poll, r \in Request :
          \/ q = p /\ r \in S /\ stage'[q][r] = "claimed" /\ seen'[q][r] = status[r]
          \/ stage'[q][r] = "none"
          \/ stage'[q][r] = stage[q][r] /\ seen'[q][r] = seen[q][r]
  BY DEF ClaimDueReconciliations, IInv, TypeOK
<1>7. DecisionIsTheAuthoritys' /\ RetryHasTaker' /\ AssignmentOfApproved'
  BY <1>1 DEF IInv, DecisionIsTheAuthoritys, RetryHasTaker, AssignmentOfApproved
<1>8. AnswersAreTheAuthoritys' /\ GoneIsLost'
  BY <1>1, <1>6 DEF IInv, ItemsSound, AnswersAreTheAuthoritys, GoneIsLost
<1>9. AskedHasProvider' /\ RetryResultHasTime'
  BY <1>1, <1>6 DEF IInv, ItemsSound, AskedHasProvider, RetryResultHasTime, Asking
<1>10. CheckedIsApproved'
  <2>1. \A r \in Request : status[r] = "FULFILLED" => portal[r] = "approved"
    BY DEF IInv, DecisionIsTheAuthoritys
  <2> QED BY <1>1, <1>6, <2>1 DEF IInv, ItemsSound, CheckedIsApproved, InBatch, Checking
<1> QED BY <1>5, <1>7, <1>8, <1>9, <1>10 DEF IInv, ItemsSound

\* Items that are gone make no claim.
LEMMA FewerItemsSound ==
  ASSUME ItemsSound, UNCHANGED << portal, external, assigned >>,
         \A p \in Poll, r \in Request :
            \/ stage'[p][r] = "none"
            \/ /\ stage'[p][r] = stage[p][r] /\ seen'[p][r] = seen[p][r]
               /\ retryIn'[p][r] = retryIn[p][r]
  PROVE  ItemsSound'
<1>1. AnswersAreTheAuthoritys' /\ GoneIsLost'
  BY DEF ItemsSound, AnswersAreTheAuthoritys, GoneIsLost
<1>2. AskedHasProvider' /\ RetryResultHasTime'
  BY DEF ItemsSound, AskedHasProvider, RetryResultHasTime, Asking
<1>3. CheckedIsApproved'
  BY DEF ItemsSound, CheckedIsApproved, InBatch, Checking
<1> QED BY <1>1, <1>2, <1>3 DEF ItemsSound

LEMMA ForgetItems ==
  ASSUME IInv, NEW p \in Poll, NEW S \in SUBSET Request, Forget(p, S),
         UNCHANGED << portal, external, assigned >>
  PROVE  /\ ItemsSound'
         /\ stage' \in [Poll -> [Request -> Stage]]
         /\ seen' \in [Poll -> [Request -> RowStatus]]
         /\ tried' \in [Poll -> [Request -> Nat]]
         /\ retryIn' \in [Poll -> [Request -> Time]]
<1>0. "none" \in Stage /\ "FULFILLED" \in RowStatus /\ Null \in Time /\ TypeOK
  BY DEF Stage, RowStatus, AccessRequestStatus, Time, IInv
<1>1. /\ stage' \in [Poll -> [Request -> Stage]]
      /\ seen' \in [Poll -> [Request -> RowStatus]]
  BY <1>0 DEF Forget, TypeOK
<1>2. /\ tried' \in [Poll -> [Request -> Nat]]
      /\ retryIn' \in [Poll -> [Request -> Time]]
  BY <1>0 DEF Forget, TypeOK
<1>3. \A q \in Poll, r \in Request :
          \/ stage'[q][r] = "none"
          \/ /\ stage'[q][r] = stage[q][r] /\ seen'[q][r] = seen[q][r]
             /\ retryIn'[q][r] = retryIn[q][r]
  BY <1>0 DEF Forget, TypeOK
<1> QED BY <1>1, <1>2, <1>3, FewerItemsSound DEF IInv

LEMMA FinalizeResultPreserves ==
  ASSUME IInv, NEW p \in Poll, NEW r \in Request, FinalizeResult(p, r)
  PROVE  IInv'
<1>1. UNCHANGED << again, revoking, nextCheck, assigned, portal, external, alive,
                   running, releasing >>
  BY DEF FinalizeResult, expiration, authority, memory
<1>2. /\ ItemsSound'
      /\ stage' \in [Poll -> [Request -> Stage]]
      /\ seen' \in [Poll -> [Request -> RowStatus]]
      /\ tried' \in [Poll -> [Request -> Nat]]
      /\ retryIn' \in [Poll -> [Request -> Time]]
  BY <1>1, ForgetItems DEF FinalizeResult
<1>3. /\ leaseOwner' \in [Request -> Worker \cup {Null}]
      /\ leaseLeft' \in [Request -> Time]
  BY DEF FinalizeResult, Unlease, lease, IInv, TypeOK, Time
<1>4. /\ status' \in [Request -> RowStatus]
      /\ tries' \in [Request -> Nat]
      /\ nextTry' \in [Request -> Time]
      /\ \A q \in Request :
            \/ status'[q] = status[q] /\ nextTry'[q] = nextTry[q]
            \/ status'[q] = "RETRY" /\ nextTry'[q] # Null
            \/ status'[q] = "RECONCILIATION_FAILED"
  <2>0. /\ "RETRY" \in RowStatus /\ "RECONCILIATION_FAILED" \in RowStatus /\ Null \in Time
        /\ retryIn[p][r] \in Time /\ tried[p][r] + 1 \in Nat /\ TypeOK
    BY DEF RowStatus, AccessRequestStatus, Time, IInv, TypeOK
  <2>1. CASE stage[p][r] = "RETRY"
    <3>1. retryIn[p][r] # Null
      BY <2>1 DEF IInv, ItemsSound, RetryResultHasTime
    <3>2. /\ status' = [status EXCEPT ![r] = "RETRY"]
          /\ tries' = [tries EXCEPT ![r] = tried[p][r] + 1]
          /\ nextTry' = [nextTry EXCEPT ![r] = retryIn[p][r]]
      BY <2>1 DEF FinalizeResult
    <3> QED BY <2>0, <3>1, <3>2 DEF TypeOK
  <2>2. CASE stage[p][r] = "RECONCILIATION_FAILED"
    <3>1. /\ status' = [status EXCEPT ![r] = "RECONCILIATION_FAILED"]
          /\ tries' = [tries EXCEPT ![r] = tried[p][r] + 1]
          /\ nextTry' = [nextTry EXCEPT ![r] = Null]
      BY <2>2 DEF FinalizeResult
    <3> QED BY <2>0, <3>1 DEF TypeOK
  <2>3. CASE stage[p][r] \notin { "RETRY", "RECONCILIATION_FAILED" }
    BY <2>0, <2>3 DEF FinalizeResult, TypeOK
  <2> QED BY <2>1, <2>2, <2>3
<1>5. TypeOK'
  BY <1>1, <1>2, <1>3, <1>4 DEF IInv, TypeOK
<1>6. DecisionIsTheAuthoritys' /\ RetryHasTaker' /\ AssignmentOfApproved'
  BY <1>1, <1>4 DEF IInv, DecisionIsTheAuthoritys, RetryHasTaker, AssignmentOfApproved
<1> QED BY <1>2, <1>5, <1>6 DEF IInv

\* A batch ends without a word: nothing but the memory of its poll changes.
LEMMA BatchGonePreserves ==
  ASSUME IInv, NEW p \in Poll, FinalizeFails(p) \/ BatchLost(p)
  PROVE  IInv'
<1>1. /\ UNCHANGED << status, again, revoking, nextCheck, nextTry, tries, assigned,
                      leaseOwner, leaseLeft, portal, external, alive, running, releasing >>
      /\ Forget(p, Request)
  BY DEF FinalizeFails, BatchLost, expiration, schedule, lease, authority, memory
<1>2. /\ ItemsSound'
      /\ stage' \in [Poll -> [Request -> Stage]]
      /\ seen' \in [Poll -> [Request -> RowStatus]]
      /\ tried' \in [Poll -> [Request -> Nat]]
      /\ retryIn' \in [Poll -> [Request -> Time]]
  BY <1>1, ForgetItems
<1>3. TypeOK'
  BY <1>1, <1>2 DEF IInv, TypeOK
<1>4. DecisionIsTheAuthoritys' /\ RetryHasTaker' /\ AssignmentOfApproved'
  BY <1>1 DEF IInv, DecisionIsTheAuthoritys, RetryHasTaker, AssignmentOfApproved
<1> QED BY <1>2, <1>3, <1>4 DEF IInv

LEMMA CrashPreserves ==
  ASSUME IInv, NEW w \in Worker, Crash(w)
  PROVE  IInv'
<1>1. UNCHANGED << status, again, revoking, nextCheck, nextTry, tries, assigned,
                   leaseOwner, leaseLeft, portal, external >>
  BY DEF Crash, expiration, schedule, lease, authority
<1>2. "none" \in Stage /\ "FULFILLED" \in RowStatus /\ Null \in Time /\ TypeOK
  BY DEF Stage, RowStatus, AccessRequestStatus, Time, IInv
<1>3. /\ stage' \in [Poll -> [Request -> Stage]]
      /\ seen' \in [Poll -> [Request -> RowStatus]]
  BY <1>2 DEF Crash, TypeOK
<1>4. /\ tried' \in [Poll -> [Request -> Nat]]
      /\ retryIn' \in [Poll -> [Request -> Time]]
  BY <1>2 DEF Crash, TypeOK
<1>5. /\ alive' \in [Worker -> BOOLEAN] /\ running' \in [Worker -> BOOLEAN]
      /\ releasing' \in [Worker -> BOOLEAN]
  BY <1>2 DEF Crash, TypeOK
<1>6. TypeOK'
  BY <1>1, <1>2, <1>3, <1>4, <1>5 DEF TypeOK
<1>7. \A q \in Poll, r \in Request :
          \/ stage'[q][r] = "none"
          \/ /\ stage'[q][r] = stage[q][r] /\ seen'[q][r] = seen[q][r]
             /\ retryIn'[q][r] = retryIn[q][r]
  BY <1>2 DEF Crash, TypeOK
<1>8. ItemsSound'
  BY <1>1, <1>7, FewerItemsSound DEF IInv
<1>9. DecisionIsTheAuthoritys' /\ RetryHasTaker' /\ AssignmentOfApproved'
  BY <1>1 DEF IInv, DecisionIsTheAuthoritys, RetryHasTaker, AssignmentOfApproved
<1> QED BY <1>6, <1>8, <1>9 DEF IInv

-----------------------------------------------------------------------------
(* The leases, the clock, and who else writes to the rows.                  *)

\* The decisions, the retries and the items do not depend on the leases.
LEMMA LeaseTimersPreserve ==
  ASSUME IInv, NEW w \in Worker,
         Start(w) \/ Stop(w) \/ ReleaseAllLeases(w) \/ RenewLeases(w)
  PROVE  IInv'
<1>1. UNCHANGED << status, again, revoking, nextCheck, nextTry, tries, assigned,
                   portal, external, alive, stage, seen, tried, retryIn >>
  BY DEF Start, Stop, ReleaseAllLeases, RenewLeases, expiration, schedule, authority,
         memory, items
<1>2. TypeOK /\ LeaseDuration \in Time /\ Null \in Time
  BY ReconciliationAssumption DEF IInv, Time
<1>3. /\ leaseOwner' \in [Request -> Worker \cup {Null}]
      /\ leaseLeft' \in [Request -> Time]
  <2>1. CASE UNCHANGED lease
    BY <1>2, <2>1 DEF lease, TypeOK
  <2>2. CASE Unlease({ r \in Request : leaseOwner[r] = w })
    BY <1>2, <2>2 DEF Unlease, TypeOK
  <2>3. CASE RenewLeases(w)
    BY <1>2, <2>3 DEF RenewLeases, TypeOK
  <2> QED BY <2>1, <2>2, <2>3 DEF Start, Stop, ReleaseAllLeases
<1>4. running' \in [Worker -> BOOLEAN] /\ releasing' \in [Worker -> BOOLEAN]
  BY <1>2 DEF Start, Stop, ReleaseAllLeases, RenewLeases, memory, TypeOK
<1>5. TypeOK'
  BY <1>1, <1>2, <1>3, <1>4 DEF TypeOK
<1>6. DecisionIsTheAuthoritys' /\ RetryHasTaker' /\ AssignmentOfApproved'
  BY <1>1 DEF IInv, DecisionIsTheAuthoritys, RetryHasTaker, AssignmentOfApproved
<1>7. ItemsSound'
  BY <1>1, FewerItemsSound DEF IInv
<1> QED BY <1>5, <1>6, <1>7 DEF IInv

LEMMA ClaimReplyLostPreserves ==
  ASSUME IInv, NEW p \in Poll, NEW S \in SUBSET Request, ClaimReplyLost(p, S)
  PROVE  IInv'
<1>1. UNCHANGED << status, again, revoking, nextCheck, nextTry, tries, assigned, portal,
                   external, alive, running, releasing, stage, seen, tried, retryIn >>
  BY DEF ClaimReplyLost, expiration, schedule, authority, memory, items
<1>2. TypeOK /\ LeaseDuration \in Time /\ Owner[p] \in Worker
  BY ReconciliationAssumption DEF IInv, Time
<1>3. /\ leaseOwner' \in [Request -> Worker \cup {Null}]
      /\ leaseLeft' \in [Request -> Time]
  BY <1>2 DEF ClaimReplyLost, LeaseRows, TypeOK
<1>4. TypeOK'
  BY <1>1, <1>2, <1>3 DEF TypeOK
<1>5. DecisionIsTheAuthoritys' /\ RetryHasTaker' /\ AssignmentOfApproved'
  BY <1>1 DEF IInv, DecisionIsTheAuthoritys, RetryHasTaker, AssignmentOfApproved
<1>6. ItemsSound'
  BY <1>1, FewerItemsSound DEF IInv
<1> QED BY <1>4, <1>5, <1>6 DEF IInv

\* A decision, once made, stands, and an assignment that ended stays ended.
LEMMA AuthorityPreserves ==
  ASSUME IInv, NEW r \in Request, Decide(r) \/ EndAssignment(r)
  PROVE  IInv'
<1>1. UNCHANGED << status, again, revoking, nextCheck, nextTry, tries, assigned, leaseOwner,
                   leaseLeft, alive, running, releasing, stage, seen, tried, retryIn >>
  BY DEF Decide, EndAssignment, expiration, schedule, lease, memory, items
<1>2. TypeOK /\ "active" \in AssignmentState /\ "none" \in AssignmentState
        /\ "lost" \in AssignmentState
  BY DEF IInv, AssignmentState
<1>3. /\ portal' \in [Request -> PortalState]
      /\ external' \in [Request -> AssignmentState]
  <2>1. CASE Decide(r)
    <3>1. PICK decision \in PortalState :
             /\ portal' = [portal EXCEPT ![r] = decision]
             /\ external' = [external EXCEPT ![r] =
                   IF decision = "approved" THEN "active" ELSE "none"]
      BY <2>1 DEF Decide
    <3> QED BY <1>2, <3>1 DEF TypeOK
  <2>2. CASE EndAssignment(r)
    BY <1>2, <2>2 DEF EndAssignment, TypeOK
  <2> QED BY <2>1, <2>2
<1>4. \A q \in Request :
          /\ portal[q] # "open" => portal'[q] = portal[q]
          /\ external[q] = "lost" => external'[q] = "lost"
          /\ external'[q] = "none" <=> portal'[q] # "approved"
  <2>1. CASE Decide(r)
    <3>1. portal[r] = "open" /\ external[r] = "none"
      BY <2>1 DEF Decide, IInv, AssignmentOfApproved
    <3> QED BY <1>2, <2>1, <3>1 DEF Decide, TypeOK, IInv, AssignmentOfApproved
  <2>2. CASE EndAssignment(r)
    BY <1>2, <2>2 DEF EndAssignment, TypeOK, IInv, AssignmentOfApproved
  <2> QED BY <2>1, <2>2
<1>5. TypeOK'
  BY <1>1, <1>2, <1>3 DEF TypeOK
<1>6. DecisionIsTheAuthoritys' /\ RetryHasTaker' /\ AssignmentOfApproved'
  BY <1>1, <1>4 DEF IInv, DecisionIsTheAuthoritys, RetryHasTaker, AssignmentOfApproved
<1>7. AnswersAreTheAuthoritys' /\ GoneIsLost'
  BY <1>1, <1>4 DEF IInv, ItemsSound, AnswersAreTheAuthoritys, GoneIsLost
<1>8. AskedHasProvider' /\ RetryResultHasTime'
  BY <1>1 DEF IInv, ItemsSound, AskedHasProvider, RetryResultHasTime
<1>9. CheckedIsApproved'
  BY <1>1, <1>2, <1>4 DEF IInv, ItemsSound, CheckedIsApproved, InBatch, TypeOK
<1> QED BY <1>5, <1>6, <1>7, <1>8, <1>9 DEF IInv, ItemsSound

\* What the access service and the expiration scheduler write to the rows.
WritesRows ==
    /\ status' \in [Request -> RowStatus]
    /\ again' \subseteq Request /\ revoking' \subseteq Request
    /\ \A q \in Request :
          \/ status'[q] = status[q] /\ (q \in again => q \in again')
          \/ status[q] = "APPROVED" /\ status'[q] = "FULFILLED"
          \/ status'[q] = "RETRY" /\ q \in again'
          \/ status'[q] \in { "REVOCATION_PENDING", "REVOKED", "REVOCATION_FAILED" }

LEMMA RowWritersPreserve ==
  ASSUME IInv, (\E r \in Request : Fulfill(r)) \/ ExpirationStep
  PROVE  IInv'
<1>1. UNCHANGED << nextCheck, nextTry, tries, assigned, leaseOwner, leaseLeft, portal,
                   external, alive, running, releasing, stage, seen, tried, retryIn >>
  BY DEF Fulfill, ExpirationStep, schedule, lease, authority, memory, items
<1>2. /\ TypeOK
      /\ { "FULFILLED", "REVOCATION_PENDING", "REVOKED", "RETRY", "REVOCATION_FAILED" }
            \subseteq RowStatus
  BY DEF IInv, RowStatus, AccessRequestStatus
<1>3. WritesRows
  <2>1. ASSUME NEW r \in Request, Fulfill(r)
        PROVE  WritesRows
    BY <1>2, <2>1 DEF Fulfill, expiration, TypeOK, WritesRows
  <2>2. ASSUME NEW r \in Request, NEW tracked \in BOOLEAN, Expiration!Take({r}, tracked)
        PROVE  WritesRows
    BY <1>2, <2>2 DEF Expiration!Take, TypeOK, WritesRows
  <2>3. ASSUME NEW r \in Request, NEW o \in Expiration!RevocationOutcome,
               Expiration!Settle([q \in {r} |-> o])
        PROVE  WritesRows
    BY <1>2, <2>3 DEF Expiration!Settle, Expiration!RevocationOutcome, TypeOK,
                         WritesRows
  <2>4. ASSUME NEW r \in Request, Expiration!Lose({r})
        PROVE  WritesRows
    BY <1>2, <2>4 DEF Expiration!Lose, TypeOK, WritesRows
  <2> QED BY <2>1, <2>2, <2>3, <2>4 DEF ExpirationStep
<1>4. TypeOK'
  BY <1>1, <1>2, <1>3 DEF TypeOK, WritesRows
<1>5. DecisionIsTheAuthoritys' /\ RetryHasTaker' /\ AssignmentOfApproved'
  BY <1>1, <1>3 DEF WritesRows, IInv, DecisionIsTheAuthoritys, RetryHasTaker,
                    AssignmentOfApproved
<1>6. ItemsSound'
  BY <1>1, FewerItemsSound DEF IInv
<1> QED BY <1>4, <1>5, <1>6 DEF IInv

\* Time takes no time stamp away.
LEMMA TickPreserves ==
  ASSUME IInv, Tick
  PROVE  IInv'
<1>1. ASSUME NEW t \in Time, NEW floor \in Int
      PROVE  CountDown(t, floor) \in Time /\ (t # Null => CountDown(t, floor) # Null)
  BY ReconciliationAssumption DEF CountDown, Time
<1>2. UNCHANGED << status, again, revoking, tries, assigned, leaseOwner, portal,
                   external, alive, running, releasing, stage, seen, tried >>
  BY DEF Tick, expiration, authority, memory
<1>3. TypeOK
  BY DEF IInv
<1>4. /\ nextCheck' \in [Request -> Time] /\ nextTry' \in [Request -> Time]
      /\ leaseLeft' \in [Request -> Time]
      /\ \A r \in Request : nextTry[r] # Null => nextTry'[r] # Null
  BY <1>1, <1>3 DEF Tick, TypeOK
<1>5. /\ retryIn' \in [Poll -> [Request -> Time]]
      /\ \A p \in Poll, r \in Request : retryIn[p][r] # Null => retryIn'[p][r] # Null
  BY <1>1, <1>3 DEF Tick, TypeOK
<1>6. TypeOK'
  BY <1>2, <1>3, <1>4, <1>5 DEF TypeOK
<1>7. DecisionIsTheAuthoritys' /\ RetryHasTaker' /\ AssignmentOfApproved'
  BY <1>2, <1>4 DEF IInv, DecisionIsTheAuthoritys, RetryHasTaker, AssignmentOfApproved
<1>8. AnswersAreTheAuthoritys' /\ GoneIsLost' /\ AskedHasProvider'
  BY <1>2 DEF IInv, ItemsSound, AnswersAreTheAuthoritys, GoneIsLost, AskedHasProvider
<1>9. RetryResultHasTime' /\ CheckedIsApproved'
  BY <1>2, <1>5 DEF IInv, ItemsSound, RetryResultHasTime, CheckedIsApproved, InBatch
<1> QED BY <1>6, <1>7, <1>8, <1>9 DEF IInv, ItemsSound

-----------------------------------------------------------------------------

LEMMA InitIInv == Init => IInv
<1> SUFFICES ASSUME Init PROVE IInv
  OBVIOUS
<1>1. /\ "none" \in Stage /\ "FULFILLED" \in RowStatus /\ Null \in Time /\ 0 \in Time
      /\ StartStatus \subseteq RowStatus /\ "active" \in AssignmentState
      /\ "none" \in AssignmentState
  BY ReconciliationAssumption
  DEF Stage, RowStatus, AccessRequestStatus, Time, AssignmentState
<1>2. \A r \in Request : /\ status[r] \in { "AWAITING_AUTHORITY_DECISION", "FULFILLED" }
                         /\ status[r] = "FULFILLED" => portal[r] = "approved"
  BY ReconciliationAssumption DEF Init
<1>3. /\ status \in [Request -> RowStatus] /\ again \subseteq Request
      /\ revoking \subseteq Request /\ assigned \subseteq Request
      /\ portal \in [Request -> PortalState] /\ external \in [Request -> AssignmentState]
  BY <1>1 DEF Init
<1>4. /\ nextCheck \in [Request -> Time] /\ nextTry \in [Request -> Time]
      /\ tries \in [Request -> Nat]
      /\ leaseOwner \in [Request -> Worker \cup {Null}] /\ leaseLeft \in [Request -> Time]
  BY <1>1 DEF Init
<1>5. /\ alive \in [Worker -> BOOLEAN] /\ running \in [Worker -> BOOLEAN]
      /\ releasing \in [Worker -> BOOLEAN]
  BY DEF Init
<1>6. /\ stage \in [Poll -> [Request -> Stage]] /\ seen \in [Poll -> [Request -> RowStatus]]
      /\ tried \in [Poll -> [Request -> Nat]] /\ retryIn \in [Poll -> [Request -> Time]]
  BY <1>1 DEF Init
<1>7. TypeOK
  BY <1>3, <1>4, <1>5, <1>6 DEF TypeOK
<1>8. DecisionIsTheAuthoritys /\ RetryHasTaker
  BY <1>2 DEF DecisionIsTheAuthoritys, RetryHasTaker
<1>9. AssignmentOfApproved
  BY DEF Init, AssignmentOfApproved
<1>10. \A p \in Poll, r \in Request : stage[p][r] = "none"
  BY DEF Init
<1>11. ItemsSound
  <2>1. \A r \in assigned : portal[r] = "approved"
    BY <1>2 DEF Init
  <2>2. CheckedIsApproved
    BY <1>10, <2>1 DEF CheckedIsApproved, InBatch, Checking
  <2>3. AnswersAreTheAuthoritys /\ AskedHasProvider /\ RetryResultHasTime /\ GoneIsLost
    BY <1>10 DEF AnswersAreTheAuthoritys, AskedHasProvider, Asking, RetryResultHasTime,
                 GoneIsLost
  <2> QED BY <2>2, <2>3 DEF ItemsSound
<1> QED BY <1>7, <1>8, <1>9, <1>11 DEF IInv

LEMMA NextIInv == IInv /\ [Next]_vars => IInv'
<1> SUFFICES ASSUME IInv, [Next]_vars PROVE IInv'
  OBVIOUS
<1>1. ASSUME NEW p \in Poll, NEW r \in Request, ItemStep(p, r)
      PROVE  IInv'
  BY <1>1, ProcessPreserves, GetRequestStatusPreserves, GetAssignmentPreserves,
     ApplyAnswerPreserves, FinalizeResultPreserves DEF ItemStep
<1>2. ASSUME NEW w \in Worker, WorkerStep(w)
      PROVE  IInv'
  BY <1>2, LeaseTimersPreserve, CrashPreserves DEF WorkerStep
<1>3. CASE UNCHANGED vars
  <2>1. UNCHANGED << status, again, revoking, nextCheck, nextTry, tries, assigned,
                     leaseOwner, leaseLeft, portal, external, alive, running, releasing,
                     stage, seen, tried, retryIn >>
    BY <1>3 DEF vars, expiration, schedule, lease, authority, memory, items
  <2>2. TypeOK' /\ DecisionIsTheAuthoritys' /\ RetryHasTaker' /\ AssignmentOfApproved'
    BY <2>1 DEF IInv, TypeOK, DecisionIsTheAuthoritys, RetryHasTaker, AssignmentOfApproved
  <2>3. ItemsSound'
    BY <2>1, FewerItemsSound DEF IInv
  <2> QED BY <2>2, <2>3 DEF IInv
<1> QED BY <1>1, <1>2, <1>3, ClaimPreserves, ClaimReplyLostPreserves, BatchGonePreserves,
           AuthorityPreserves, RowWritersPreserve, TickPreserves DEF Next

\* What a poll was told, and what it is about to write, is what the authority
\* shows, through every claim, answer, finalize, renewal, stop and crash of
\* governance-reconciliation-worker.ts.
THEOREM InductiveInvariant == Spec => []IInv
<1> QED BY InitIInv, NextIInv, PTL DEF Spec

\* The columns, the authority and the memory of the workers of
\* governance-reconciliation-worker.ts keep their types; in particular the
\* finalize writes no result that is not a status.
THEOREM TypeCorrect == Spec => []TypeOK
<1>1. IInv => TypeOK
  BY DEF IInv
<1> QED BY <1>1, InductiveInvariant, PTL

\* No retry, no lost lease, no late answer and no second worker makes a row show
\* a decision its authority did not make (processPendingDecision).
THEOREM DecisionsAreTrue == Spec => []DecisionIsTheAuthoritys
<1>1. IInv => DecisionIsTheAuthoritys
  BY DEF IInv
<1> QED BY <1>1, InductiveInvariant, PTL

\* A row both workers may leave in RETRY is due again for one of them.
THEOREM RetriesAreTaken == Spec => []RetryHasTaker
<1>1. IInv => RetryHasTaker
  BY DEF IInv
<1> QED BY <1>1, InductiveInvariant, PTL

\* An answer writes REVOCATION_PENDING only when the access is lost: the other
\* steps that move an item write no such status.
LEMMA CorrectionStep ==
  ASSUME IInv, [Next]_vars, NEW r \in Request,
         stage' # stage, Provider[r] = "double",
         status'[r] = "REVOCATION_PENDING", status[r] # status'[r]
  PROVE  external[r] = "lost"
<1>1. ASSUME NEW p \in Poll, NEW u \in Request, ApplyAnswer(p, u)
      PROVE  external[r] = "lost"
  BY <1>1, WritesTheAuthoritys DEF ApplyAnswer
<1>2. ASSUME NEW p \in Poll, NEW u \in Request, FinalizeResult(p, u)
      PROVE  FALSE
  BY <1>2 DEF FinalizeResult, IInv, TypeOK
<1>3. ASSUME NEW p \in Poll, NEW u \in Request, ItemStep(p, u),
             ~ApplyAnswer(p, u), ~FinalizeResult(p, u)
      PROVE  FALSE
  BY <1>3 DEF ItemStep, ProcessSingleReconciliation, GetRequestStatus, GetAssignment
<1>4. ASSUME \/ \E p \in Poll, S \in SUBSET Request :
                   ClaimDueReconciliations(p, S) \/ ClaimReplyLost(p, S)
             \/ \E p \in Poll : FinalizeFails(p) \/ BatchLost(p)
             \/ \E w \in Worker : WorkerStep(w)
             \/ \E u \in Request : Decide(u) \/ EndAssignment(u) \/ Fulfill(u)
             \/ ExpirationStep
             \/ Tick
             \/ UNCHANGED vars
      PROVE  FALSE
  BY <1>4 DEF ClaimDueReconciliations, ClaimReplyLost, FinalizeFails, BatchLost, WorkerStep,
              Start, Stop, ReleaseAllLeases, RenewLeases, Crash, Decide, EndAssignment,
              Fulfill, ExpirationStep, Tick, vars, items
<1> QED BY <1>1, <1>2, <1>3, <1>4 DEF Next

\* A provider that throws never makes the worker revoke access that is there:
\* where the provider tells an ended assignment from an error of its own, the
\* drift correction writes REVOCATION_PENDING only over an ended one.
THEOREM CorrectionsAreDue == Spec => CorrectionNeedsLoss
<1>1. IInv /\ [Next]_vars =>
        [ \A r \in Request :
            ( /\ stage' # stage /\ Provider[r] = "double"
              /\ status'[r] = "REVOCATION_PENDING" /\ status[r] # status'[r] )
            => external[r] = "lost" ]_vars
  BY CorrectionStep
<1> QED BY <1>1, InductiveInvariant, PTL DEF Spec, CorrectionNeedsLoss

=============================================================================
