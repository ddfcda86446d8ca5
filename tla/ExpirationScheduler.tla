------------------------- MODULE ExpirationScheduler -------------------------
(***************************************************************************)
(* The expiration scheduler of packages/access-store-pg: workers poll the  *)
(* access_requests table for access that has expired, claim rows under a   *)
(* lease in one short transaction, revoke the access at GitHub outside any *)
(* transaction, and write the outcomes in a second transaction.            *)
(*                                                                         *)
(* The revocation itself is GitHubAccessExecutor.revoke of                 *)
(* packages/access-executor: mark an idempotency key, read the membership, *)
(* delete it, read it again.                                               *)
(*                                                                         *)
(* A worker is one scheduler object in one process: a restarted process    *)
(* has a new worker id, so a worker that dies stays dead and another       *)
(* member of Worker stands for its successor.  A worker can have several   *)
(* polls under way: start() arms two timer chains (one in the finally of   *)
(* the startup scan, one itself), and runOnce() adds another.              *)
(*                                                                         *)
(* Timestamps are kept as the time left until them, so Tick counts them    *)
(* down; NULL columns are the value Null.                                  *)
(*                                                                         *)
(* An operator no other definition uses, placed before the definition it   *)
(* varies, is a slip the code could have made; README.md lists them.       *)
(***************************************************************************)
EXTENDS Integers, FiniteSets, AccessLifecycle

CONSTANTS
    Request,             \* rows of access_requests
    Worker,              \* scheduler objects (worker ids)
    Poll,                \* poll cycles that can be under way
    Owner,               \* the worker each poll belongs to
    Null,                \* SQL NULL
    MaxRetries,          \* expiration_max_retries
    BatchSize,           \* config.batchSize
    ProviderConcurrency, \* config.providerConcurrency
    LeaseDuration,       \* config.leaseDurationMs
    RenewalMargin,       \* config.leaseRenewalMarginMs
    BaseRetryDelay,      \* config.baseRetryDelayMs
    MaxRetryDelay,       \* config.maxRetryDelayMs
    Jitter,              \* largest jitter added to a backoff
    InitialExpiry,       \* access_expires_at of the rows at the start
    InitialAttempts,     \* expiration_attempt_count of the rows at the start
    Extension,           \* how far an extension moves access_expires_at
    Faults,              \* subset of {"crash", "db"}
    Admin                \* subset of {"extend", "revoke"}

ASSUME SchedulerAssumption ==
    /\ Owner \in [Poll -> Worker]
    /\ Null \notin Int
    /\ Null \notin Worker
    /\ MaxRetries \in Nat
    /\ LeaseDuration \in Nat
    /\ RenewalMargin \in Nat
    /\ MaxRetryDelay \in Nat
    /\ Jitter \in Nat
    /\ Extension \in Nat
    /\ InitialExpiry \subseteq Nat \cup {Null}
    /\ InitialAttempts \subseteq Nat

VARIABLES
    \* columns of access_requests
    status,       \* status
    expiresIn,    \* access_expires_at
    attempts,     \* expiration_attempt_count
    nextIn,       \* expiration_next_attempt_at
    leaseOwner,   \* lease_owner
    leaseLeft,    \* lease_until
    \* the provider
    membership,   \* the requester's team membership at GitHub
    \* a worker's memory
    alive,        \* its process runs
    running,      \* this.running
    releasing,    \* stop() has yet to release the leases
    marked,       \* keys in the executor's idempotency store
    \* a poll's memory, per claimed request
    stage,        \* how far the item is, or its ExpirationResult.status
    snapshot,     \* the attemptCount read by the claim
    retryIn       \* nextAttemptAt of a RETRY result

columns == << status, expiresIn, attempts, nextIn, leaseOwner, leaseLeft >>
memory  == << alive, running, releasing, marked >>
items   == << stage, snapshot, retryIn >>
vars    == << columns, membership, memory, items >>

Outcome == { "REVOKED", "RETRY", "REVOCATION_FAILED", "SKIPPED" }
Active  == { "called", "deleting", "verifying" }
Stage   == { "none", "claimed" } \cup Active \cup Outcome

Time == Int \cup {Null}

TypeOK ==
    /\ status \in [Request -> AccessRequestStatus]
    /\ expiresIn \in [Request -> Time]
    /\ attempts \in [Request -> Nat]
    /\ nextIn \in [Request -> Time]
    /\ leaseOwner \in [Request -> Worker \cup {Null}]
    /\ leaseLeft \in [Request -> Time]
    /\ membership \in [Request -> {"active", "pending", "absent"}]
    /\ alive \in [Worker -> BOOLEAN]
    /\ running \in [Worker -> BOOLEAN]
    /\ releasing \in [Worker -> BOOLEAN]
    /\ marked \in [Worker -> SUBSET Request]
    /\ stage \in [Poll -> [Request -> Stage]]
    /\ snapshot \in [Poll -> [Request -> Nat]]
    /\ retryIn \in [Poll -> [Request -> Time]]

Init ==
    /\ status = [r \in Request |-> "FULFILLED"]
    /\ expiresIn \in [Request -> InitialExpiry]
    /\ attempts \in [Request -> InitialAttempts]
    /\ nextIn = [r \in Request |-> Null]
    /\ leaseOwner = [r \in Request |-> Null]
    /\ leaseLeft = [r \in Request |-> Null]
    /\ membership \in [Request -> {"active", "pending"}]
    /\ alive = [w \in Worker |-> TRUE]
    /\ running = [w \in Worker |-> FALSE]
    /\ releasing = [w \in Worker |-> FALSE]
    /\ marked = [w \in Worker |-> {}]
    /\ stage = [p \in Poll |-> [r \in Request |-> "none"]]
    /\ snapshot = [p \in Poll |-> [r \in Request |-> 0]]
    /\ retryIn = [p \in Poll |-> [r \in Request |-> Null]]

-----------------------------------------------------------------------------
(* Reading the columns as the SQL does: a comparison with NULL is false.    *)

Passed(t) == t # Null /\ t <= 0          \* column <= now
Ahead(t)  == t # Null /\ t > 0           \* column > now

Leased(r) == leaseLeft[r] # Null /\ leaseLeft[r] >= 0

ClaimableStalePending(r) ==
    /\ \/ status[r] = "FULFILLED" /\ Passed(expiresIn[r])
       \/ status[r] = "RETRY" /\ Passed(nextIn[r])
       \/ status[r] = "REVOCATION_PENDING"
    /\ ~Leased(r)
ClaimableOnce(r) ==
    status[r] = "FULFILLED" /\ Passed(expiresIn[r]) /\ ~Leased(r)

\* The WHERE clause of the claim query.
Claimable(r) ==
    /\ \/ status[r] = "FULFILLED" /\ Passed(expiresIn[r])
       \/ status[r] = "RETRY" /\ Passed(nextIn[r])
    /\ ~Leased(r)

PollIdle(p)  == \A r \in Request : stage[p][r] = "none"
InFlight(p)  == { r \in Request : stage[p][r] # "none" }
InBatch(p, r) == stage[p][r] # "none"

-----------------------------------------------------------------------------
(* The public operations of a scheduler.                                    *)

\* start(): from here on the timers run.
Start(w) ==
    /\ alive[w] /\ ~running[w]
    /\ running' = [running EXCEPT ![w] = TRUE]
    /\ UNCHANGED << columns, membership, alive, releasing, marked, items >>

\* stop(): clears the timers.  A poll that is under way is not awaited.
Stop(w) ==
    /\ alive[w] /\ running[w]
    /\ running' = [running EXCEPT ![w] = FALSE]
    /\ releasing' = [releasing EXCEPT ![w] = TRUE]
    /\ UNCHANGED << columns, membership, alive, marked, items >>

ReleaseForOthers(w) ==
    /\ alive[w] /\ releasing[w]
    /\ releasing' = [releasing EXCEPT ![w] = FALSE]
    /\ status' = [r \in Request |->
          IF leaseOwner[r] = w THEN "FULFILLED" ELSE status[r]]
    /\ leaseOwner' = [r \in Request |->
          IF leaseOwner[r] = w THEN Null ELSE leaseOwner[r]]
    /\ leaseLeft' = [r \in Request |->
          IF leaseOwner[r] = w THEN Null ELSE leaseLeft[r]]
    /\ UNCHANGED << expiresIn, attempts, nextIn, membership,
                    alive, running, marked, items >>

\* releaseAllLeases(), the last statement of stop(); its error is swallowed.
ReleaseAllLeases(w) ==
    /\ alive[w] /\ releasing[w]
    /\ releasing' = [releasing EXCEPT ![w] = FALSE]
    /\ \/ /\ leaseOwner' = [r \in Request |->
                IF leaseOwner[r] = w THEN Null ELSE leaseOwner[r]]
          /\ leaseLeft' = [r \in Request |->
                IF leaseOwner[r] = w THEN Null ELSE leaseLeft[r]]
       \/ "db" \in Faults /\ UNCHANGED << leaseOwner, leaseLeft >>
    /\ UNCHANGED << status, expiresIn, attempts, nextIn, membership,
                    alive, running, marked, items >>

\* The renewal timer: leases of this worker that are about to end, not ended.
RenewLeases(w) ==
    LET due == { r \in Request : /\ leaseOwner[r] = w
                                 /\ Ahead(leaseLeft[r])
                                 /\ leaseLeft[r] < RenewalMargin }
    IN  /\ alive[w] /\ running[w]
        /\ due # {}
        /\ leaseLeft' = [r \in Request |->
              IF r \in due THEN LeaseDuration ELSE leaseLeft[r]]
        /\ UNCHANGED << status, expiresIn, attempts, nextIn, leaseOwner,
                        membership, memory, items >>

-----------------------------------------------------------------------------
(* Phase 1: the claim transaction.                                          *)

\* The UPDATE of the claim.
LeaseRows(w, S) ==
    /\ status' = [r \in Request |->
          IF r \in S THEN "REVOCATION_PENDING" ELSE status[r]]
    /\ leaseOwner' = [r \in Request |-> IF r \in S THEN w ELSE leaseOwner[r]]
    /\ leaseLeft' = [r \in Request |->
          IF r \in S THEN LeaseDuration ELSE leaseLeft[r]]
    /\ UNCHANGED << expiresIn, attempts, nextIn >>

\* FOR UPDATE SKIP LOCKED lets a claim take any of the due rows, at most
\* batchSize of them.
ClaimDueExpirations(p, S) ==
    /\ alive[Owner[p]] /\ PollIdle(p)
    /\ S # {} /\ Cardinality(S) <= BatchSize
    /\ \A r \in S : Claimable(r)
    /\ LeaseRows(Owner[p], S)
    /\ stage' = [stage EXCEPT ![p] = [r \in Request |->
          IF r \in S THEN "claimed" ELSE "none"]]
    /\ snapshot' = [snapshot EXCEPT ![p] = [r \in Request |->
          IF r \in S THEN attempts[r] ELSE 0]]
    /\ UNCHANGED << membership, memory, retryIn >>

\* The claim commits but its reply is lost: the poll ends with nothing.
ClaimReplyLost(p, S) ==
    /\ "db" \in Faults
    /\ alive[Owner[p]] /\ PollIdle(p)
    /\ S # {} /\ Cardinality(S) <= BatchSize
    /\ \A r \in S : Claimable(r)
    /\ LeaseRows(Owner[p], S)
    /\ UNCHANGED << membership, memory, items >>

-----------------------------------------------------------------------------
(* Phase 2: the provider calls, outside any transaction.                    *)

\* calculateBackoff: doubling, capped, and jittered either way.
CappedDelay(n) ==
    LET doubled == BaseRetryDelay * 2^(n - 1)
    IN  IF doubled > MaxRetryDelay THEN MaxRetryDelay ELSE doubled
BackoffDelays(n) ==
    { d \in 0 .. (MaxRetryDelay + Jitter) :
        /\ d >= CappedDelay(n) - Jitter
        /\ d <= CappedDelay(n) + Jitter }

\* The item ends with a result that carries no next attempt.
Conclude(p, r, outcome) ==
    /\ stage' = [stage EXCEPT ![p][r] = outcome]
    /\ UNCHANGED << snapshot, retryIn >>

Proceed(p, r, next) == Conclude(p, r, next)

FailLate(p, r, retryable) ==
    IF retryable /\ snapshot[p][r] < MaxRetries
    THEN \E d \in BackoffDelays(snapshot[p][r] + 1) :
            /\ stage' = [stage EXCEPT ![p][r] = "RETRY"]
            /\ retryIn' = [retryIn EXCEPT ![p][r] = d]
            /\ UNCHANGED snapshot
    ELSE Conclude(p, r, "REVOCATION_FAILED")

\* What follows a failed attempt: another one after a backoff while the error
\* is retryable and the budget lasts, otherwise the terminal failure.
Fail(p, r, retryable) ==
    IF retryable /\ snapshot[p][r] + 1 < MaxRetries
    THEN \E d \in BackoffDelays(snapshot[p][r] + 1) :
            /\ stage' = [stage EXCEPT ![p][r] = "RETRY"]
            /\ retryIn' = [retryIn EXCEPT ![p][r] = d]
            /\ UNCHANGED snapshot
    ELSE Conclude(p, r, "REVOCATION_FAILED")

\* classifyError: the text of an error speaks for another attempt or against it.
ClassifyError == BOOLEAN

\* The catch of revoke(), where an error of a check, a provider call or an audit
\* becomes a result that carries its text.
RevokeFails(p, r) == \E retryable \in ClassifyError : Fail(p, r, retryable)

\* A membership that is not active is refused, in words that classifyError does
\* not know.
UnexpectedMembershipState(p, r) == membership[r] = "pending" /\ Fail(p, r, TRUE)

\* executor.revoke up to its first provider call: checkAndMark answers that
\* the key is known, or records it.
CallRevoke(p, r) ==
    LET w == Owner[p]
    IN  \/ /\ r \in marked[w]
           /\ Conclude(p, r, "REVOKED")
           /\ UNCHANGED marked
        \/ /\ r \notin marked[w]
           /\ marked' = [marked EXCEPT ![w] = @ \cup {r}]
           /\ Proceed(p, r, "called")

\* The audit append of either branch of checkAndMark throws out of revoke().
CallRevokeThrows(p, r) ==
    /\ "db" \in Faults
    /\ marked' = [marked EXCEPT ![Owner[p]] = @ \cup {r}]
    /\ Fail(p, r, TRUE)

\* processSingleExpiration: the row is read again, and the decision taken on
\* what was read starts the provider calls.
ProcessSingleExpiration(p, r) ==
    /\ alive[Owner[p]] /\ stage[p][r] = "claimed"
    /\ Cardinality({ q \in Request : stage[p][q] \in Active }) < ProviderConcurrency
    /\ \/ /\ Ahead(expiresIn[r])
          /\ Conclude(p, r, "SKIPPED") /\ UNCHANGED marked
       \/ /\ ~Ahead(expiresIn[r]) /\ status[r] = "REVOKED"
          /\ Conclude(p, r, "SKIPPED") /\ UNCHANGED marked
       \/ /\ ~Ahead(expiresIn[r]) /\ status[r] # "REVOKED"
          /\ CallRevoke(p, r) \/ CallRevokeThrows(p, r)
       \/ "db" \in Faults /\ Fail(p, r, TRUE) /\ UNCHANGED marked
    /\ UNCHANGED << columns, membership, alive, running, releasing >>

\* revoke(): the pre-flight checks and the first GET.
GetTeamMembership(p, r) ==
    /\ alive[Owner[p]] /\ stage[p][r] = "called"
    /\ \/ membership[r] = "absent" /\ Conclude(p, r, "REVOKED")
       \/ membership[r] = "active" /\ Proceed(p, r, "deleting")
       \/ UnexpectedMembershipState(p, r)
       \/ RevokeFails(p, r)
    /\ UNCHANGED << columns, membership, memory >>

\* revoke(): the DELETE.  It can be refused, and it can succeed without its
\* reply arriving.
DeleteTeamMembership(p, r) ==
    /\ alive[Owner[p]] /\ stage[p][r] = "deleting"
    /\ \/ /\ membership' = [membership EXCEPT ![r] = "absent"]
          /\ \/ Proceed(p, r, "verifying")
             \/ RevokeFails(p, r)
       \/ /\ RevokeFails(p, r)
          /\ UNCHANGED membership
    /\ UNCHANGED << columns, memory >>

\* revoke(): the second GET.
VerifyAbsence(p, r) ==
    /\ alive[Owner[p]] /\ stage[p][r] = "verifying"
    /\ \/ membership[r] = "absent" /\ Conclude(p, r, "REVOKED")
       \/ RevokeFails(p, r)
    /\ UNCHANGED << columns, membership, memory >>

-----------------------------------------------------------------------------
(* Phase 3: the finalize transaction.                                       *)

BatchDone(p) ==
    /\ ~PollIdle(p)
    /\ \A r \in InFlight(p) : stage[p][r] \in Outcome

DropBatch(p) ==
    /\ stage' = [stage EXCEPT ![p] = [r \in Request |-> "none"]]
    /\ snapshot' = [snapshot EXCEPT ![p] = [r \in Request |-> 0]]
    /\ retryIn' = [retryIn EXCEPT ![p] = [r \in Request |-> Null]]

\* The rows whose outcome is written: a SKIPPED one only gives up its lease.
CountedSkipped(p) == InFlight(p)
CountedRetriable(p) == { r \in InFlight(p) : stage[p][r] \in { "REVOKED", "RETRY" } }
Counted(p) == { r \in InFlight(p) : stage[p][r] # "SKIPPED" }

\* The rows whose lease is given up.
ReleasedAtEnd(p) == { r \in InFlight(p) : stage[p][r] # "RETRY" }
Released(p) == InFlight(p)

\* Each result is written to its row by id alone: neither the version, nor the
\* lease owner, nor the status the row has by now is looked at.
FinalizeBatch(p) ==
    /\ alive[Owner[p]] /\ BatchDone(p)
    /\ status' = [r \in Request |->
          IF r \in Counted(p) THEN stage[p][r] ELSE status[r]]
    /\ attempts' = [r \in Request |->
          IF r \in Counted(p) THEN snapshot[p][r] + 1 ELSE attempts[r]]
    /\ nextIn' = [r \in Request |->
          IF stage[p][r] = "RETRY" THEN retryIn[p][r]
          ELSE IF stage[p][r] = "REVOCATION_FAILED" THEN Null
          ELSE nextIn[r]]
    /\ leaseOwner' = [r \in Request |->
          IF r \in Released(p) THEN Null ELSE leaseOwner[r]]
    /\ leaseLeft' = [r \in Request |->
          IF r \in Released(p) THEN Null ELSE leaseLeft[r]]
    /\ DropBatch(p)
    /\ UNCHANGED << expiresIn, membership, memory >>

\* ROLLBACK: the results are dropped and processDueExpirations logs the error.
FinalizeFails(p) ==
    /\ "db" \in Faults
    /\ alive[Owner[p]] /\ BatchDone(p)
    /\ DropBatch(p)
    /\ UNCHANGED << columns, membership, memory >>

-----------------------------------------------------------------------------
(* The environment.                                                         *)

\* The process dies: its polls and its idempotency store go with it.
Crash(w) ==
    /\ "crash" \in Faults
    /\ alive[w]
    /\ alive' = [alive EXCEPT ![w] = FALSE]
    /\ running' = [running EXCEPT ![w] = FALSE]
    /\ releasing' = [releasing EXCEPT ![w] = FALSE]
    /\ marked' = [marked EXCEPT ![w] = {}]
    /\ stage' = [p \in Poll |->
          IF Owner[p] = w THEN [r \in Request |-> "none"] ELSE stage[p]]
    /\ snapshot' = [p \in Poll |->
          IF Owner[p] = w THEN [r \in Request |-> 0] ELSE snapshot[p]]
    /\ retryIn' = [p \in Poll |->
          IF Owner[p] = w THEN [r \in Request |-> Null] ELSE retryIn[p]]
    /\ UNCHANGED << columns, membership >>

ExtendAfresh(r) ==
    /\ "extend" \in Admin
    /\ status[r] \in { "FULFILLED", "RETRY", "REVOCATION_PENDING" }
    /\ expiresIn' = [expiresIn EXCEPT ![r] = Extension]
    /\ attempts' = [attempts EXCEPT ![r] = 0]
    /\ UNCHANGED << status, nextIn, leaseOwner, leaseLeft,
                    membership, memory, items >>
ExtendReinstates(r) ==
    /\ "extend" \in Admin
    /\ status[r] \in { "FULFILLED", "RETRY", "REVOCATION_PENDING" }
    /\ expiresIn' = [expiresIn EXCEPT ![r] = Extension]
    /\ status' = [status EXCEPT ![r] = "FULFILLED"]
    /\ UNCHANGED << attempts, nextIn, leaseOwner, leaseLeft,
                    membership, memory, items >>

\* A user's access is extended: access_expires_at moves, the status does not.
Extend(r) ==
    /\ "extend" \in Admin
    /\ status[r] \in { "FULFILLED", "RETRY", "REVOCATION_PENDING" }
    /\ expiresIn' = [expiresIn EXCEPT ![r] = Extension]
    /\ UNCHANGED << status, attempts, nextIn, leaseOwner, leaseLeft,
                    membership, memory, items >>

\* An administrator removes the membership and sets the row to REVOKED.
ManualRevoke(r) ==
    /\ "revoke" \in Admin
    /\ status[r] \in { "FULFILLED", "RETRY", "REVOCATION_PENDING" }
    /\ status' = [status EXCEPT ![r] = "REVOKED"]
    /\ membership' = [membership EXCEPT ![r] = "absent"]
    /\ UNCHANGED << expiresIn, attempts, nextIn, leaseOwner, leaseLeft,
                    memory, items >>

\* The invited user accepts the team invitation.
AcceptInvitation(r) ==
    /\ membership[r] = "pending"
    /\ membership' = [membership EXCEPT ![r] = "active"]
    /\ UNCHANGED << columns, memory, items >>

CountDown(t, floor) == IF t # Null /\ t > floor THEN t - 1 ELSE t

\* One unit of time passes.
Tick ==
    /\ expiresIn' = [r \in Request |-> CountDown(expiresIn[r], 0)]
    /\ nextIn' = [r \in Request |-> CountDown(nextIn[r], 0)]
    /\ leaseLeft' = [r \in Request |-> CountDown(leaseLeft[r], -1)]
    /\ retryIn' = [p \in Poll |-> [r \in Request |-> CountDown(retryIn[p][r], 0)]]
    /\ UNCHANGED << status, attempts, leaseOwner, membership, memory,
                    stage, snapshot >>

-----------------------------------------------------------------------------

ProviderStep(p, r) ==
    \/ ProcessSingleExpiration(p, r)
    \/ GetTeamMembership(p, r)
    \/ DeleteTeamMembership(p, r)
    \/ VerifyAbsence(p, r)

PollStep(p) ==
    \/ \E S \in SUBSET Request : ClaimDueExpirations(p, S)
    \/ \E r \in Request : ProviderStep(p, r)
    \/ FinalizeBatch(p)

WorkerStep(w) ==
    \/ Start(w)
    \/ Stop(w)
    \/ ReleaseAllLeases(w)
    \/ RenewLeases(w)
    \/ Crash(w)

Next ==
    \/ \E p \in Poll : PollStep(p) \/ FinalizeFails(p)
    \/ \E p \in Poll, S \in SUBSET Request : ClaimReplyLost(p, S)
    \/ \E w \in Worker : WorkerStep(w)
    \/ \E r \in Request : Extend(r) \/ ManualRevoke(r) \/ AcceptInvitation(r)
    \/ Tick

Spec == Init /\ [][Next]_vars

\* The timer chain of a scheduler that runs fires, and the event loop of a
\* live process runs the continuations of a poll that is under way, whether
\* or not the scheduler was stopped meanwhile; and time passes.
TimedPoll(p) ==
    \/ /\ running[Owner[p]]
       /\ \E S \in SUBSET Request : ClaimDueExpirations(p, S)
    \/ \E r \in Request : ProviderStep(p, r)
    \/ FinalizeBatch(p)

Fairness == /\ \A p \in Poll : WF_vars(TimedPoll(p))
            /\ WF_vars(Tick)

FairSpec == Spec /\ Fairness

-----------------------------------------------------------------------------
(* AccessRevocation, which this scheduler implements: a request is being    *)
(* revoked while some poll has it, and is tried again while it has a time.  *)

Retried  == { r \in Request : nextIn[r] # Null }
Revoking == { r \in Request : \E p \in Poll : InBatch(p, r) }

Revocation == INSTANCE AccessRevocation WITH again <- Retried, revoking <- Revoking

\* Leases, overlapping polls, retries, lost replies and rollbacks add up to
\* this: one revocation at a time takes a granted or retried request, removes
\* its membership while it has it, and ends with one outcome or is lost.
ImplementsRevocation == Revocation!RevocationSpec

-----------------------------------------------------------------------------
(* What the scheduler promises.                                             *)

\* At most one poll, of all workers together, has a request in its batch: one
\* revocation at a time, whatever leases expire, whoever stops or crashes.
\* (CASE 25 and CASE 30 of expiration-scheduler.test.ts try one race of it.)
ExclusiveProcessing ==
    \A p, q \in Poll, r \in Request :
        InBatch(p, r) /\ InBatch(q, r) => p = q

\* A request in a batch is out of reach of every claim: it waits for its
\* outcome as REVOCATION_PENDING, unless an administrator revoked it meanwhile.
BatchIsPending ==
    \A p \in Poll, r \in Request :
        InBatch(p, r) => status[r] \in { "REVOCATION_PENDING", "REVOKED" }

\* The lease on a request in a batch is never another worker's: it is the
\* batch's worker's, or was given up by that worker's stop().
LeaseOfBatch ==
    \A p \in Poll, r \in Request :
        InBatch(p, r) => leaseOwner[r] \in { Owner[p], Null }

\* A lease outlives the claim's status only under a manual revocation: no row
\* that the claim query could want is locked away by a lease nobody ends.
NoLeaseOutsideRevocation ==
    \A r \in Request :
        leaseOwner[r] # Null =>
            status[r] \in { "REVOCATION_PENDING", "REVOKED" }

\* The attempt count a poll carries from its claim to its finalize, over every
\* await in between, is still the row's: no attempt is lost or counted twice.
NoLostAttempt ==
    \A p \in Poll, r \in Request :
        InBatch(p, r) => snapshot[p][r] = attempts[r]

\* A request waiting in RETRY has budget left and a time to be tried again, so
\* a failing revocation ends in REVOCATION_FAILED after MaxRetries attempts.
RetryHasBudget ==
    \A r \in Request :
        status[r] = "RETRY" => attempts[r] < MaxRetries /\ nextIn[r] # Null

\* The store never shows access as FULFILLED that was taken away at GitHub,
\* through crashes, lost replies, extensions and rollbacks.
FulfilledHasMembership ==
    \A r \in Request : status[r] = "FULFILLED" => membership[r] # "absent"

\* Membership is taken away only from a request that is being revoked or is
\* revoked: never one in RETRY, and never after the terminal failure.
RemovalOnlyWhileRevoking ==
    [][ \A r \in Request :
          membership'[r] = "absent" /\ membership[r] # "absent" =>
              status'[r] \in { "REVOCATION_PENDING", "REVOKED" } ]_vars

\* While some worker stays up and running, every row that is due is taken up
\* in the end, however many workers crash or stop, polls roll back or claims
\* get lost: no lease and no retry time keeps it away from the claim for good.
SomeWorkerStays == \E w \in Worker : <>[]running[w]
Due(r) == \/ status[r] = "FULFILLED" /\ Passed(expiresIn[r])
          \/ status[r] = "RETRY" /\ Passed(nextIn[r])
DueIsTakenUp == SomeWorkerStays => \A r \in Request : Due(r) ~> ~Due(r)

\* While some worker stays up and running, access that has expired does not
\* remain granted: it is revoked, or fails terminally, or is extended.
ExpiredAccessIsProcessed ==
    SomeWorkerStays =>
        \A r \in Request :
            status[r] = "FULFILLED" /\ Passed(expiresIn[r])
                ~> \/ status[r] \in { "REVOKED", "REVOCATION_FAILED" }
                   \/ Ahead(expiresIn[r])

\* While some worker stays up and running, a claimed request gets an outcome.
\* CASE 33 of expiration-scheduler.test.ts states it for a crashed worker, and
\* chaos-10k.test.ts counts every remaining REVOCATION_PENDING as stale.
PendingIsResolved ==
    SomeWorkerStays =>
        \A r \in Request :
            status[r] = "REVOCATION_PENDING" ~> status[r] # "REVOCATION_PENDING"

=============================================================================
