---------------------- MODULE GovernanceReconciliation ----------------------
(***************************************************************************)
(* The governance reconciliation worker of packages/access-store-pg:       *)
(* workers poll access_requests for requests that an external authority    *)
(* decides or owns, lease the due ones, ask the authority's provider,      *)
(* write what it answered row by row, and write the outcomes after that.   *)
(*                                                                         *)
(* The expiration scheduler works on the same rows under leases of its     *)
(* own.  It appears here as its abstract specification, AccessRevocation,  *)
(* which ExpirationScheduler implements.                                   *)
(*                                                                         *)
(* Workers, polls and timestamps are those of ExpirationScheduler.  A poll *)
(* ends early when one of its items throws; the items still under way then *)
(* run on, and nothing of the batch is finalized.                          *)
(*                                                                         *)
(* An operator no other definition uses, placed before the definition it   *)
(* varies, is a slip the code could have made; README.md lists them.       *)
(***************************************************************************)
EXTENDS Integers, FiniteSets, AccessLifecycle, GovernanceProviders

CONSTANTS
    Request,             \* rows of access_requests
    Worker,              \* worker objects (worker ids)
    Poll,                \* poll cycles that can be under way
    Owner,               \* the worker each poll belongs to
    Null,                \* SQL NULL
    Provider,            \* what getProvider(governance_authority) answers
    FulfillmentOwner,    \* metadata.governance.fulfillmentOwner
    MaxRetries,          \* governance_max_retries
    BatchSize,           \* config.batchSize
    ProviderConcurrency, \* config.providerConcurrency
    LeaseDuration,       \* config.leaseDurationMs
    PollInterval,        \* config.pollIntervalMs
    BaseRetryDelay,      \* config.baseRetryDelayMs
    MaxRetryDelay,       \* config.maxRetryDelayMs
    Jitter,              \* largest jitter added to a backoff
    StartStatus,         \* statuses of the rows at the start
    StartPortal,         \* what the portal shows of undecided rows at the start
    Faults               \* subset of {"crash", "db", "outage"}

\* The authorities' own providers, the double that the tests hand to the
\* worker, which throws, or none.
ProviderKind == { "entra", "okta", "double", "none" }

ASSUME ReconciliationAssumption ==
    /\ Owner \in [Poll -> Worker]
    /\ Null \notin Int /\ Null \notin Worker
    /\ Provider \in [Request -> ProviderKind]
    /\ FulfillmentOwner \in [Request -> {"opnory", "authority"}]
    /\ StartStatus \subseteq { "AWAITING_AUTHORITY_DECISION", "FULFILLED" }
    /\ MaxRetries \in Nat /\ LeaseDuration \in Nat /\ PollInterval \in Nat
    /\ BaseRetryDelay \in Nat /\ MaxRetryDelay \in Nat /\ Jitter \in Nat

VARIABLES
    \* columns of access_requests
    status,       \* status
    nextCheck,    \* governance_next_check_at
    nextTry,      \* governance_next_attempt_at
    tries,        \* governance_attempt_count
    assigned,     \* requests with a governance_assignment_id
    leaseOwner,   \* governance_lease_owner
    leaseLeft,    \* governance_lease_until
    \* the authority
    portal,       \* the decision its portal shows
    external,     \* the assignment it holds
    \* a worker's memory
    alive,        \* its process runs
    running,      \* this.running
    releasing,    \* stop() has yet to release the leases
    \* a poll's memory, per claimed request
    stage,        \* how far the item is, or its ReconciliationResult.status
    seen,         \* the status read by the claim
    tried,        \* the governance_attempt_count read by the claim
    retryIn,      \* nextAttemptAt of a RETRY result
    \* the expiration scheduler
    again,        \* requests with an expiration_next_attempt_at
    revoking      \* requests it is revoking

\* The membership at GitHub, which it removes, plays no part here.
Expiration == INSTANCE AccessRevocation
                  WITH membership <- [r \in Request |-> "active"]

schedule  == << nextCheck, nextTry, tries, assigned >>
lease     == << leaseOwner, leaseLeft >>
authority == << portal, external >>
memory    == << alive, running, releasing >>
items     == << stage, seen, tried, retryIn >>
expiration == << again, revoking >>
vars      == << status, expiration, schedule, lease, authority, memory, items >>

Asking  == { "deciding", "finding", "findingById" }
Answer  == { "PENDING", "APPROVED", "DENIED", "ACTIVE", "GONE" }
Active  == Asking \cup Answer
Outcome == { "RECONCILED", "DRIFT_DETECTED", "DRIFT_CORRECTED", "RETRY",
             "RECONCILIATION_FAILED", "SKIPPED" }
Stage   == { "none", "claimed", "thrown" } \cup Active \cup Outcome

\* The worker writes a status the enumeration does not have.
RowStatus == AccessRequestStatus \cup { "RECONCILIATION_FAILED" }
Time == Int \cup {Null}

TypeOK ==
    /\ status \in [Request -> RowStatus]
    /\ again \subseteq Request /\ revoking \subseteq Request
    /\ nextCheck \in [Request -> Time] /\ nextTry \in [Request -> Time]
    /\ tries \in [Request -> Nat]
    /\ assigned \subseteq Request
    /\ leaseOwner \in [Request -> Worker \cup {Null}]
    /\ leaseLeft \in [Request -> Time]
    /\ portal \in [Request -> PortalState]
    /\ external \in [Request -> AssignmentState]
    /\ alive \in [Worker -> BOOLEAN]
    /\ running \in [Worker -> BOOLEAN]
    /\ releasing \in [Worker -> BOOLEAN]
    /\ stage \in [Poll -> [Request -> Stage]]
    /\ seen \in [Poll -> [Request -> RowStatus]]
    /\ tried \in [Poll -> [Request -> Nat]]
    /\ retryIn \in [Poll -> [Request -> Time]]

\* Rows wait for the authority's decision, or are granted and due for a check.
Init ==
    /\ status \in [Request -> StartStatus]
    /\ again = {} /\ revoking = {}
    /\ nextCheck = [r \in Request |-> 0]
    /\ nextTry = [r \in Request |-> Null]
    /\ tries = [r \in Request |-> 0]
    /\ assigned = { r \in Request : status[r] = "FULFILLED" }
    /\ leaseOwner = [r \in Request |-> Null]
    /\ leaseLeft = [r \in Request |-> Null]
    /\ portal \in [Request -> PortalState]
    /\ external = [r \in Request |->
          IF portal[r] = "approved" THEN "active" ELSE "none"]
    /\ \A r \in Request : IF status[r] = "FULFILLED" THEN portal[r] = "approved"
                                                    ELSE portal[r] \in StartPortal
    /\ alive = [w \in Worker |-> TRUE]
    /\ running = [w \in Worker |-> FALSE]
    /\ releasing = [w \in Worker |-> FALSE]
    /\ stage = [p \in Poll |-> [r \in Request |-> "none"]]
    /\ seen = [p \in Poll |-> [r \in Request |-> "FULFILLED"]]
    /\ tried = [p \in Poll |-> [r \in Request |-> 0]]
    /\ retryIn = [p \in Poll |-> [r \in Request |-> Null]]

-----------------------------------------------------------------------------
(* Reading the columns as the SQL does: a comparison with NULL is false.    *)

Passed(t) == t # Null /\ t <= 0
LeasedForGood(r) == leaseLeft[r] # Null
Leased(r) == leaseLeft[r] # Null /\ leaseLeft[r] >= 0

\* The WHERE clause of the claim query.
Claimable(r) ==
    /\ \/ status[r] \in { "AWAITING_AUTHORITY_DECISION", "FULFILLED" }
          /\ Passed(nextCheck[r])
       \/ status[r] \in { "RETRY", "RECONCILIATION_FAILED" }
          /\ Passed(nextTry[r])
    /\ ~Leased(r)

Eligible == { "AWAITING_AUTHORITY_DECISION", "FULFILLED", "RETRY",
              "RECONCILIATION_FAILED" }

PollIdle(p)   == \A r \in Request : stage[p][r] = "none"
InBatch(p, r) == stage[p][r] # "none"
Thrown(p)     == \E r \in Request : stage[p][r] = "thrown"

-----------------------------------------------------------------------------
(* The public operations of a worker.                                       *)

\* start(): from here on the timers run.
Start(w) ==
    /\ alive[w] /\ ~running[w]
    /\ running' = [running EXCEPT ![w] = TRUE]
    /\ UNCHANGED << status, expiration, schedule, lease, authority, alive,
                    releasing, items >>

\* stop(): clears the timers.  A poll that is under way is not awaited.
Stop(w) ==
    /\ alive[w] /\ running[w]
    /\ running' = [running EXCEPT ![w] = FALSE]
    /\ releasing' = [releasing EXCEPT ![w] = TRUE]
    /\ UNCHANGED << status, expiration, schedule, lease, authority, alive, items >>

Unlease(S) ==
    /\ leaseOwner' = [r \in Request |-> IF r \in S THEN Null ELSE leaseOwner[r]]
    /\ leaseLeft' = [r \in Request |-> IF r \in S THEN Null ELSE leaseLeft[r]]

\* releaseAllLeases(), the last statement of stop(), which its error leaves.
ReleaseAllLeases(w) ==
    /\ alive[w] /\ releasing[w]
    /\ releasing' = [releasing EXCEPT ![w] = FALSE]
    /\ \/ Unlease({ r \in Request : leaseOwner[r] = w })
       \/ "db" \in Faults /\ UNCHANGED lease
    /\ UNCHANGED << status, expiration, schedule, authority, alive, running, items >>

\* renewLeases(), on an interval: every lease this worker has, ended or not.
RenewLeases(w) ==
    /\ alive[w] /\ running[w]
    /\ \E r \in Request : leaseOwner[r] = w /\ leaseLeft[r] # LeaseDuration
    /\ leaseLeft' = [r \in Request |->
          IF leaseOwner[r] = w THEN LeaseDuration ELSE leaseLeft[r]]
    /\ UNCHANGED << status, expiration, schedule, leaseOwner, authority, memory, items >>

-----------------------------------------------------------------------------
(* Phase 1: the claim transaction.  The status stays what it is.            *)

LeaseRows(w, S) ==
    /\ leaseOwner' = [r \in Request |-> IF r \in S THEN w ELSE leaseOwner[r]]
    /\ leaseLeft' = [r \in Request |->
          IF r \in S THEN LeaseDuration ELSE leaseLeft[r]]

\* FOR UPDATE SKIP LOCKED takes any of the due rows, at most batchSize of them.
ClaimDueReconciliations(p, S) ==
    /\ alive[Owner[p]] /\ PollIdle(p)
    /\ S # {} /\ Cardinality(S) <= BatchSize
    /\ \A r \in S : Claimable(r)
    /\ LeaseRows(Owner[p], S)
    /\ stage' = [stage EXCEPT ![p] = [r \in Request |->
          IF r \in S THEN "claimed" ELSE "none"]]
    /\ seen' = [seen EXCEPT ![p] = [r \in Request |->
          IF r \in S THEN status[r] ELSE seen[p][r]]]
    /\ tried' = [tried EXCEPT ![p] = [r \in Request |->
          IF r \in S THEN tries[r] ELSE tried[p][r]]]
    /\ UNCHANGED << status, expiration, schedule, authority, memory, retryIn >>

\* The claim commits but its reply is lost: the poll ends with nothing.
ClaimReplyLost(p, S) ==
    /\ "db" \in Faults
    /\ alive[Owner[p]] /\ PollIdle(p)
    /\ S # {} /\ Cardinality(S) <= BatchSize
    /\ \A r \in S : Claimable(r)
    /\ LeaseRows(Owner[p], S)
    /\ UNCHANGED << status, expiration, schedule, authority, memory, items >>

-----------------------------------------------------------------------------
(* Phase 2: one item of the batch.                                          *)

Become(p, r, next) ==
    /\ stage' = [stage EXCEPT ![p][r] = next]
    /\ UNCHANGED << seen, tried, retryIn >>

CappedDelay(n) ==
    LET doubled == BaseRetryDelay * 2^n
    IN  IF doubled > MaxRetryDelay THEN MaxRetryDelay ELSE doubled

\* The catch of processSingleReconciliation: another attempt after a backoff
\* while the error is retryable and the budget lasts, otherwise the terminal
\* failure; its audit append can throw out of it.
Fail(p, r, retryable) ==
    \/ /\ retryable /\ tried[p][r] + 1 < MaxRetries
       /\ \E d \in CappedDelay(tried[p][r]) .. CappedDelay(tried[p][r]) + Jitter :
            retryIn' = [retryIn EXCEPT ![p][r] = d]
       /\ stage' = [stage EXCEPT ![p][r] = "RETRY"]
       /\ UNCHANGED << seen, tried >>
    \/ /\ ~retryable \/ tried[p][r] + 1 >= MaxRetries
       /\ Become(p, r, "RECONCILIATION_FAILED")
    \/ "db" \in Faults /\ Become(p, r, "thrown")

\* classifyError: a query's error is retryable or not by what its text says.
QueryFails(p, r) == "db" \in Faults /\ \E retryable \in BOOLEAN : Fail(p, r, retryable)

\* Which question the item asks: the claim's status decides, for a retry the
\* row that was read.
Route(p, r) ==
    IF \/ seen[p][r] = "AWAITING_AUTHORITY_DECISION"
       \/ /\ seen[p][r] # "FULFILLED"
          /\ status[r] # "FULFILLED" /\ r \notin assigned
    THEN "deciding"
    ELSE IF r \in assigned THEN "findingById" ELSE "finding"

ProcessEligibleOnly(p, r) ==
    /\ alive[Owner[p]] /\ stage[p][r] = "claimed"
    /\ \/ status[r] \in Eligible /\ Provider[r] = "none" /\ Fail(p, r, FALSE)
       \/ /\ status[r] \in Eligible /\ Provider[r] # "none"
          /\ Become(p, r, Route(p, r))
    /\ UNCHANGED << status, expiration, schedule, lease, authority, memory >>

\* processSingleReconciliation up to the call of the provider: the row is read
\* again.  An item starts while another chain of processNext still runs.
ProcessSingleReconciliation(p, r) ==
    /\ alive[Owner[p]] /\ stage[p][r] = "claimed"
    /\ Cardinality({ q \in Request : stage[p][q] \in Active \cup {"thrown"} })
          < ProviderConcurrency
    /\ \/ status[r] \notin Eligible /\ Become(p, r, "SKIPPED")
       \/ status[r] \in Eligible /\ Provider[r] = "none" /\ Fail(p, r, FALSE)
       \/ /\ status[r] \in Eligible /\ Provider[r] # "none"
          /\ Become(p, r, Route(p, r))
       \/ QueryFails(p, r)
    /\ UNCHANGED << status, expiration, schedule, lease, authority, memory >>

\* The answers an error-free call and a failing one can give.
Available(answers, error) ==
    IF "outage" \in Faults THEN answers ELSE answers \ { error }

StatusAnswers(r) ==
    CASE Provider[r] = "entra"  -> Available(EntraStatusAnswers(portal[r]), "FAILED")
      [] Provider[r] = "okta"   -> Available(OktaStatusAnswers(portal[r]), "FAILED")
      [] Provider[r] = "double" ->
            { MapEntraStatus(s) : s \in EntraRequestStatuses(portal[r]) }

AssignmentAnswers(p, r) ==
    CASE Provider[r] = "entra"  ->
            EntraAssignmentAnswers(external[r], stage[p][r] = "findingById")
      [] Provider[r] = "okta"   -> OktaAssignmentAnswers(portal[r])
      [] Provider[r] = "double" ->
            { IF external[r] = "active" THEN "ACTIVE" ELSE "MISSING" }

\* provider.getRequestStatus: the two answers that are no decision end in the
\* catch, with an error nobody retries.
GetRequestStatus(p, r) ==
    /\ alive[Owner[p]] /\ stage[p][r] = "deciding"
    /\ \/ \E answer \in StatusAnswers(r) :
            \/ answer \in { "PENDING", "APPROVED", "DENIED" } /\ Become(p, r, answer)
            \/ answer \in { "CANCELLED", "FAILED" } /\ Fail(p, r, FALSE)
       \/ /\ Provider[r] = "double" /\ "outage" \in Faults
          /\ \E retryable \in BOOLEAN : Fail(p, r, retryable)
    /\ UNCHANGED << status, expiration, schedule, lease, authority, memory >>

MissingOnError(p, r) ==
    /\ alive[Owner[p]] /\ stage[p][r] \in { "finding", "findingById" }
    /\ \/ \E answer \in AssignmentAnswers(p, r) :
            Become(p, r, IF answer = "ACTIVE" THEN "ACTIVE" ELSE "GONE")
       \/ "outage" \in Faults /\ Become(p, r, "GONE")
    /\ UNCHANGED << status, expiration, schedule, lease, authority, memory >>

\* provider.getAssignment, and the audit of a drift before it is acted on.
GetAssignment(p, r) ==
    /\ alive[Owner[p]] /\ stage[p][r] \in { "finding", "findingById" }
    /\ \/ \E answer \in AssignmentAnswers(p, r) :
            \/ answer = "ACTIVE" /\ Become(p, r, "ACTIVE")
            \/ answer # "ACTIVE" /\ (Become(p, r, "GONE") \/ QueryFails(p, r))
       \/ /\ Provider[r] = "double" /\ "outage" \in Faults
          /\ \E retryable \in BOOLEAN : Fail(p, r, retryable)
    /\ UNCHANGED << status, expiration, schedule, lease, authority, memory >>

CheckAgain(r) == nextCheck' = [nextCheck EXCEPT ![r] = PollInterval]

\* What a drift is corrected to depends on who owns the fulfilment.
CorrectDrift(p, r) ==
    /\ stage[p][r] = "GONE"
    /\ CheckAgain(r)
    /\ status' = IF FulfillmentOwner[r] = "opnory"
                 THEN [status EXCEPT ![r] = "REVOCATION_PENDING"] ELSE status
    /\ UNCHANGED assigned

TakeDecision(p, r) ==
    \/ /\ stage[p][r] = "APPROVED"
       /\ status' = [status EXCEPT ![r] = "APPROVED"]
       /\ assigned' \in { assigned \cup {r}, assigned \ {r} }
       /\ nextCheck' = [nextCheck EXCEPT ![r] = Null]
    \/ /\ stage[p][r] = "DENIED"
       /\ status' = [status EXCEPT ![r] = "DENIED"]
       /\ nextCheck' = [nextCheck EXCEPT ![r] = Null]
       /\ UNCHANGED assigned
    \/ /\ stage[p][r] = "PENDING"
       /\ CheckAgain(r)
       /\ UNCHANGED << status, assigned >>

Confirm(p, r) ==
    /\ stage[p][r] = "ACTIVE"
    /\ assigned' = assigned \cup {r}
    /\ CheckAgain(r)
    /\ UNCHANGED status

ResultOf(p, r) ==
    CASE stage[p][r] = "PENDING" -> "SKIPPED"
      [] stage[p][r] = "GONE"    ->
            (IF FulfillmentOwner[r] = "opnory" THEN "DRIFT_CORRECTED" ELSE "DRIFT_DETECTED")
      [] OTHER                   -> "RECONCILED"

\* The UPDATE an answer leads to, by id alone, and the audit after it: when
\* one of the two throws, the catch takes over with the row already written.
ApplyAnswer(p, r) ==
    /\ alive[Owner[p]] /\ stage[p][r] \in Answer
    /\ \/ /\ TakeDecision(p, r) \/ CorrectDrift(p, r) \/ Confirm(p, r)
          /\ Become(p, r, ResultOf(p, r)) \/ QueryFails(p, r)
       \/ QueryFails(p, r) /\ UNCHANGED << status, assigned, nextCheck >>
    /\ UNCHANGED << expiration, nextTry, tries, lease, authority, memory >>

-----------------------------------------------------------------------------
(* Phase 3: the results, each in a statement of its own.                    *)

Finalizing(p) ==
    /\ ~PollIdle(p)
    /\ \A r \in Request : stage[p][r] \in Outcome \cup {"none"}

Forget(p, S) ==
    /\ stage' = [stage EXCEPT ![p] = [r \in Request |->
          IF r \in S THEN "none" ELSE stage[p][r]]]
    /\ seen' = [seen EXCEPT ![p] = [r \in Request |->
          IF r \in S THEN "FULFILLED" ELSE seen[p][r]]]
    /\ tried' = [tried EXCEPT ![p] = [r \in Request |->
          IF r \in S THEN 0 ELSE tried[p][r]]]
    /\ retryIn' = [retryIn EXCEPT ![p] = [r \in Request |->
          IF r \in S THEN Null ELSE retryIn[p][r]]]

FinalizeUntimed(p, r) ==
    /\ alive[Owner[p]] /\ Finalizing(p) /\ InBatch(p, r)
    /\ \/ /\ stage[p][r] = "RETRY"
          /\ status' = [status EXCEPT ![r] = "RETRY"]
          /\ tries' = [tries EXCEPT ![r] = tried[p][r] + 1]
          /\ nextTry' = [nextTry EXCEPT ![r] = Null]
       \/ /\ stage[p][r] = "RECONCILIATION_FAILED"
          /\ status' = [status EXCEPT ![r] = "RECONCILIATION_FAILED"]
          /\ tries' = [tries EXCEPT ![r] = tried[p][r] + 1]
          /\ nextTry' = [nextTry EXCEPT ![r] = Null]
       \/ /\ stage[p][r] \notin { "RETRY", "RECONCILIATION_FAILED" }
          /\ UNCHANGED << status, tries, nextTry >>
    /\ IF stage[p][r] = "SKIPPED" THEN UNCHANGED lease ELSE Unlease({r})
    /\ Forget(p, {r})
    /\ UNCHANGED << expiration, nextCheck, assigned, authority, memory >>

FinalizeAnyResult(p, r) ==
    /\ alive[Owner[p]] /\ Finalizing(p) /\ InBatch(p, r)
    /\ status' = IF stage[p][r] = "SKIPPED" THEN status
                 ELSE [status EXCEPT ![r] = stage[p][r]]
    /\ Unlease({r})
    /\ Forget(p, {r})
    /\ UNCHANGED << expiration, schedule, authority, memory >>

\* One turn of finalizeBatch: a SKIPPED result keeps the lease, RECONCILED and
\* the drifts only give it up, the two failures write the row by id alone.
FinalizeResult(p, r) ==
    /\ alive[Owner[p]] /\ Finalizing(p) /\ InBatch(p, r)
    /\ \/ /\ stage[p][r] = "RETRY"
          /\ status' = [status EXCEPT ![r] = "RETRY"]
          /\ tries' = [tries EXCEPT ![r] = tried[p][r] + 1]
          /\ nextTry' = [nextTry EXCEPT ![r] = retryIn[p][r]]
       \/ /\ stage[p][r] = "RECONCILIATION_FAILED"
          /\ status' = [status EXCEPT ![r] = "RECONCILIATION_FAILED"]
          /\ tries' = [tries EXCEPT ![r] = tried[p][r] + 1]
          /\ nextTry' = [nextTry EXCEPT ![r] = Null]
       \/ /\ stage[p][r] \notin { "RETRY", "RECONCILIATION_FAILED" }
          /\ UNCHANGED << status, tries, nextTry >>
    /\ IF stage[p][r] = "SKIPPED" THEN UNCHANGED lease ELSE Unlease({r})
    /\ Forget(p, {r})
    /\ UNCHANGED << expiration, nextCheck, assigned, authority, memory >>

\* An UPDATE of finalizeBatch throws: the results after it are dropped.
FinalizeFails(p) ==
    /\ "db" \in Faults
    /\ alive[Owner[p]] /\ Finalizing(p)
    /\ Forget(p, Request)
    /\ UNCHANGED << status, expiration, schedule, lease, authority, memory >>

\* Promise.all rejected: once the other chains have come to rest, nothing of
\* the batch is left but its leases.
BatchLost(p) ==
    /\ alive[Owner[p]] /\ Thrown(p)
    /\ \A r \in Request : stage[p][r] \notin Active
    /\ Forget(p, Request)
    /\ UNCHANGED << status, expiration, schedule, lease, authority, memory >>

-----------------------------------------------------------------------------
(* The environment.                                                         *)

\* The process dies with its polls.
Crash(w) ==
    /\ "crash" \in Faults
    /\ alive[w]
    /\ alive' = [alive EXCEPT ![w] = FALSE]
    /\ running' = [running EXCEPT ![w] = FALSE]
    /\ releasing' = [releasing EXCEPT ![w] = FALSE]
    /\ stage' = [p \in Poll |->
          IF Owner[p] = w THEN [r \in Request |-> "none"] ELSE stage[p]]
    /\ seen' = [p \in Poll |->
          IF Owner[p] = w THEN [r \in Request |-> "FULFILLED"] ELSE seen[p]]
    /\ tried' = [p \in Poll |->
          IF Owner[p] = w THEN [r \in Request |-> 0] ELSE tried[p]]
    /\ retryIn' = [p \in Poll |->
          IF Owner[p] = w THEN [r \in Request |-> Null] ELSE retryIn[p]]
    /\ UNCHANGED << status, expiration, schedule, lease, authority >>

\* The authority decides; an approved request gets its assignment.
Decide(r) ==
    /\ portal[r] = "open"
    /\ \E decision \in PortalState \ {"open"} :
          /\ portal' = [portal EXCEPT ![r] = decision]
          /\ external' = [external EXCEPT ![r] =
                IF decision = "approved" THEN "active" ELSE "none"]
    /\ UNCHANGED << status, expiration, schedule, lease, memory, items >>

\* The assignment ends at the authority.
EndAssignment(r) ==
    /\ external[r] = "active"
    /\ external' = [external EXCEPT ![r] = "lost"]
    /\ UNCHANGED << status, expiration, schedule, lease, portal, memory, items >>

\* The access service fulfils an approved request (see AccessDecision).
Fulfill(r) ==
    /\ status[r] = "APPROVED"
    /\ status' = [status EXCEPT ![r] = "FULFILLED"]
    /\ UNCHANGED << expiration, schedule, lease, authority, memory, items >>

\* The expiration scheduler, as AccessRevocation has it.
ExpirationStep ==
    /\ \/ \E r \in Request, tracked \in BOOLEAN : Expiration!Take({r}, tracked)
       \/ \E r \in Request, o \in Expiration!RevocationOutcome :
            Expiration!Settle([q \in {r} |-> o])
       \/ \E r \in Request : Expiration!Lose({r})
    /\ UNCHANGED << schedule, lease, authority, memory, items >>

CountDown(t, floor) == IF t # Null /\ t > floor THEN t - 1 ELSE t

\* One unit of time passes.
Tick ==
    /\ nextCheck' = [r \in Request |-> CountDown(nextCheck[r], 0)]
    /\ nextTry' = [r \in Request |-> CountDown(nextTry[r], 0)]
    /\ leaseLeft' = [r \in Request |-> CountDown(leaseLeft[r], -1)]
    /\ retryIn' = [p \in Poll |-> [r \in Request |-> CountDown(retryIn[p][r], 0)]]
    /\ UNCHANGED << status, expiration, tries, assigned, leaseOwner, authority,
                    memory, stage, seen, tried >>

-----------------------------------------------------------------------------

ItemStep(p, r) ==
    \/ ProcessSingleReconciliation(p, r)
    \/ GetRequestStatus(p, r)
    \/ GetAssignment(p, r)
    \/ ApplyAnswer(p, r)
    \/ FinalizeResult(p, r)

WorkerStep(w) ==
    \/ Start(w)
    \/ Stop(w)
    \/ ReleaseAllLeases(w)
    \/ RenewLeases(w)
    \/ Crash(w)

Next ==
    \/ \E p \in Poll, S \in SUBSET Request :
          ClaimDueReconciliations(p, S) \/ ClaimReplyLost(p, S)
    \/ \E p \in Poll, r \in Request : ItemStep(p, r)
    \/ \E p \in Poll : FinalizeFails(p) \/ BatchLost(p)
    \/ \E w \in Worker : WorkerStep(w)
    \/ \E r \in Request : Decide(r) \/ EndAssignment(r) \/ Fulfill(r)
    \/ ExpirationStep
    \/ Tick

Spec == Init /\ [][Next]_vars

\* The timers of a running worker fire, the event loop of a live process runs
\* the continuations of its polls, and time passes.
TimedPoll(p) ==
    \/ /\ running[Owner[p]]
       /\ \E S \in SUBSET Request : ClaimDueReconciliations(p, S)
    \/ \E r \in Request : ItemStep(p, r)
    \/ BatchLost(p)

Fairness == /\ \A p \in Poll : WF_vars(TimedPoll(p))
            /\ \A w \in Worker : WF_vars(RenewLeases(w))
            /\ WF_vars(Tick)

FairSpec == Spec /\ Fairness

-----------------------------------------------------------------------------
(* What the worker promises.                                                *)

\* A request is approved, denied or granted here only if the authority decided
\* so: through retries, lost leases, late answers and a second worker.
DecisionIsTheAuthoritys ==
    \A r \in Request :
        /\ status[r] \in { "APPROVED", "FULFILLED" } => portal[r] = "approved"
        /\ status[r] = "DENIED" => portal[r] = "denied"

\* A row in RETRY has a time at which one of the two workers that use the
\* status takes it up again, whichever of them wrote to it last.
RetryHasTaker ==
    \A r \in Request : status[r] = "RETRY" => nextTry[r] # Null \/ r \in again

\* With a provider that throws its errors, this worker takes granted access for
\* lost only when it is: an outage, a retry or a late answer do not make it
\* REVOCATION_PENDING.
CorrectionNeedsLoss ==
    [][ \A r \in Request :
          ( /\ stage' # stage /\ Provider[r] = "double"
            /\ status'[r] = "REVOCATION_PENDING" /\ status[r] # status'[r] )
          => external[r] = "lost" ]_vars

\* A batch comes to its end in every process that lives.
BatchEnds == \A p \in Poll : ~PollIdle(p) ~> PollIdle(p)

SomeWorkerStays == \E w \in Worker : <>[]running[w]

\* While some worker stays up and running, access whose assignment has ended
\* at the authority does not stay FULFILLED: it is found, or found impossible.
LostAccessIsFound ==
    SomeWorkerStays =>
        \A r \in Request :
            status[r] = "FULFILLED" /\ external[r] = "lost" /\ nextCheck[r] # Null
                ~> status[r] # "FULFILLED"

=============================================================================
