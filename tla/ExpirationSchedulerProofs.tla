---------------------- MODULE ExpirationSchedulerProofs ----------------------
(***************************************************************************)
(* Safety of the expiration scheduler for every number of workers, polls   *)
(* and requests, every retry budget and lease length, under crashes, lost  *)
(* replies, rollbacks, extensions and manual revocations.                  *)
(***************************************************************************)
EXTENDS ExpirationScheduler, TLAPS

USE SchedulerAssumption

\* A retry that a poll has decided on, and not yet written, has budget left.
RetryResultHasBudget ==
    \A p \in Poll, r \in Request :
        stage[p][r] = "RETRY" =>
            snapshot[p][r] + 1 < MaxRetries /\ retryIn[p][r] # Null

\* The inductive invariant.  BatchIsPending is what keeps a claim away from
\* the rows of every batch, and so carries the exclusion and the rest.
IInv ==
    /\ TypeOK
    /\ ExclusiveProcessing
    /\ BatchIsPending
    /\ LeaseOfBatch
    /\ NoLeaseOutsideRevocation
    /\ NoLostAttempt
    /\ RetryHasBudget
    /\ RetryResultHasBudget
    /\ FulfilledHasMembership

LEMMA InitIInv == Init => IInv
<1> SUFFICES ASSUME Init PROVE IInv
  OBVIOUS
<1>1. TypeOK
  <2>1. expiresIn \in [Request -> Time]
    <3>1. InitialExpiry \subseteq Time
      BY DEF Time
    <3> QED BY <3>1 DEF Init
  <2>2. attempts \in [Request -> Nat]
    BY DEF Init
  <2>3. membership \in [Request -> {"active", "pending", "absent"}]
    BY DEF Init
  <2> QED BY <2>1, <2>2, <2>3 DEF Init, TypeOK, Time, AccessRequestStatus, Stage
<1>2. ExclusiveProcessing /\ BatchIsPending /\ LeaseOfBatch /\ NoLostAttempt
  BY DEF Init, ExclusiveProcessing, BatchIsPending, LeaseOfBatch, NoLostAttempt, InBatch
<1>3. NoLeaseOutsideRevocation /\ RetryHasBudget /\ RetryResultHasBudget
        /\ FulfilledHasMembership
  BY DEF Init, NoLeaseOutsideRevocation, RetryHasBudget, RetryResultHasBudget,
         FulfilledHasMembership
<1> QED BY <1>1, <1>2, <1>3 DEF IInv

\* A claim takes rows that are in no batch.
LEMMA ClaimableIsFree ==
  ASSUME BatchIsPending, NEW r \in Request, Claimable(r), NEW q \in Poll
  PROVE  stage[q][r] = "none"
  BY DEF BatchIsPending, Claimable, InBatch

LEMMA LeaseRowsType ==
  ASSUME TypeOK, NEW w \in Worker, NEW S \in SUBSET Request, LeaseRows(w, S)
  PROVE  /\ status' \in [Request -> AccessRequestStatus]
         /\ leaseOwner' \in [Request -> Worker \cup {Null}]
         /\ leaseLeft' \in [Request -> Time]
  BY DEF LeaseRows, TypeOK, AccessRequestStatus, Time

LEMMA ClaimIInv ==
  ASSUME IInv, NEW p \in Poll, NEW S \in SUBSET Request, ClaimDueExpirations(p, S)
  PROVE  IInv'
<1> USE DEF IInv
<1>0. Owner[p] \in Worker /\ LeaseRows(Owner[p], S)
  BY DEF ClaimDueExpirations
<1>a. \A r \in S : \A q \in Poll : stage[q][r] = "none"
  BY ClaimableIsFree DEF ClaimDueExpirations
<1>1. TypeOK'
  <2>1. stage' \in [Poll -> [Request -> Stage]]
    BY DEF ClaimDueExpirations, TypeOK, Stage
  <2>2. snapshot' \in [Poll -> [Request -> Nat]]
    BY DEF ClaimDueExpirations, TypeOK
  <2> QED BY <1>0, <2>1, <2>2, LeaseRowsType
          DEF ClaimDueExpirations, LeaseRows, memory, TypeOK
<1>2. ASSUME NEW q \in Poll, NEW r \in Request
      PROVE  stage'[q][r] = IF q = p /\ r \in S THEN "claimed" ELSE stage[q][r]
  BY DEF ClaimDueExpirations, PollIdle, TypeOK
<1>3. ASSUME NEW q \in Poll, NEW r \in Request
      PROVE  snapshot'[q][r] = IF q # p THEN snapshot[q][r]
                               ELSE IF r \in S THEN attempts[r] ELSE 0
  BY DEF ClaimDueExpirations, TypeOK
<1>4. ExclusiveProcessing'
  BY <1>2, <1>a DEF ExclusiveProcessing, InBatch
<1>5. BatchIsPending' /\ LeaseOfBatch'
  BY <1>0, <1>2, <1>a DEF BatchIsPending, LeaseOfBatch, InBatch, LeaseRows
<1>6. NoLeaseOutsideRevocation' /\ RetryHasBudget' /\ FulfilledHasMembership'
  BY <1>0 DEF ClaimDueExpirations, NoLeaseOutsideRevocation, RetryHasBudget,
              FulfilledHasMembership, LeaseRows
<1>7. NoLostAttempt'
  BY <1>0, <1>2, <1>3, <1>a DEF NoLostAttempt, InBatch, LeaseRows, ClaimDueExpirations, PollIdle
<1>8. RetryResultHasBudget'
  BY <1>2, <1>3, <1>a DEF RetryResultHasBudget, ClaimDueExpirations, PollIdle
<1> QED BY <1>1, <1>4, <1>5, <1>6, <1>7, <1>8

LEMMA ClaimReplyLostIInv ==
  ASSUME IInv, NEW p \in Poll, NEW S \in SUBSET Request, ClaimReplyLost(p, S)
  PROVE  IInv'
<1> USE DEF IInv
<1>0. Owner[p] \in Worker /\ LeaseRows(Owner[p], S)
  BY DEF ClaimReplyLost
<1>a. \A r \in S : \A q \in Poll : stage[q][r] = "none"
  BY ClaimableIsFree DEF ClaimReplyLost
<1>1. TypeOK'
  BY <1>0, LeaseRowsType DEF ClaimReplyLost, LeaseRows, memory, items, TypeOK
<1>2. ExclusiveProcessing' /\ RetryResultHasBudget'
  BY DEF ClaimReplyLost, items, ExclusiveProcessing, RetryResultHasBudget, InBatch
<1>3. BatchIsPending' /\ LeaseOfBatch' /\ NoLostAttempt'
  BY <1>0, <1>a DEF ClaimReplyLost, items, BatchIsPending, LeaseOfBatch,
                    NoLostAttempt, InBatch, LeaseRows
<1>4. NoLeaseOutsideRevocation' /\ RetryHasBudget' /\ FulfilledHasMembership'
  BY <1>0 DEF ClaimReplyLost, NoLeaseOutsideRevocation, RetryHasBudget,
              FulfilledHasMembership, LeaseRows
<1> QED BY <1>1, <1>2, <1>3, <1>4

-----------------------------------------------------------------------------
(* The steps of one item change nothing of the row, and keep it in its batch. *)

ItemMoves(p, r) ==
    /\ InBatch(p, r)
    /\ \/ \E o \in Stage \ { "none", "RETRY" } : Conclude(p, r, o)
       \/ \E retryable \in BOOLEAN : Fail(p, r, retryable)

\* Either way the item stays in the batch, and a RETRY is within the budget.
LEMMA ItemMovesEffect ==
  ASSUME TypeOK, NEW p \in Poll, NEW r \in Request, ItemMoves(p, r)
  PROVE  /\ stage' \in [Poll -> [Request -> Stage]]
         /\ snapshot' = snapshot
         /\ retryIn' \in [Poll -> [Request -> Time]]
         /\ \A q \in Poll, u \in Request :
               (q # p \/ u # r) => /\ stage'[q][u] = stage[q][u]
                                   /\ retryIn'[q][u] = retryIn[q][u]
         /\ stage'[p][r] # "none"
         /\ stage'[p][r] = "RETRY" =>
               snapshot[p][r] + 1 < MaxRetries /\ retryIn'[p][r] # Null
<1>1. CASE \E o \in Stage \ { "none", "RETRY" } : Conclude(p, r, o)
  BY <1>1 DEF Conclude, TypeOK
<1>2. ASSUME NEW retryable \in BOOLEAN, Fail(p, r, retryable)
      PROVE  \/ Conclude(p, r, "REVOCATION_FAILED")
             \/ /\ snapshot[p][r] + 1 < MaxRetries
                /\ \E d \in Nat : /\ stage' = [stage EXCEPT ![p][r] = "RETRY"]
                                  /\ retryIn' = [retryIn EXCEPT ![p][r] = d]
                                  /\ UNCHANGED snapshot
  BY <1>2 DEF Fail, BackoffDelays
<1>3. CASE /\ snapshot[p][r] + 1 < MaxRetries
           /\ \E d \in Nat : /\ stage' = [stage EXCEPT ![p][r] = "RETRY"]
                             /\ retryIn' = [retryIn EXCEPT ![p][r] = d]
                             /\ UNCHANGED snapshot
  <2>1. PICK d \in Nat : /\ stage' = [stage EXCEPT ![p][r] = "RETRY"]
                         /\ retryIn' = [retryIn EXCEPT ![p][r] = d]
                         /\ UNCHANGED snapshot
    BY <1>3
  <2>2. d \in Time /\ d # Null /\ "RETRY" \in Stage
    BY DEF Time, Stage, Outcome
  <2> QED BY <1>3, <2>1, <2>2 DEF TypeOK
<1>4. CASE Conclude(p, r, "REVOCATION_FAILED")
  <2>1. "REVOCATION_FAILED" \in Stage \ { "none", "RETRY" }
    BY DEF Stage, Outcome
  <2> QED BY <1>1, <1>4, <2>1
<1> QED BY <1>1, <1>2, <1>3, <1>4 DEF ItemMoves

LEMMA ItemMovesIInv ==
  ASSUME IInv, NEW p \in Poll, NEW r \in Request, ItemMoves(p, r),
         UNCHANGED columns,
         UNCHANGED << alive, running, releasing >>,
         marked' \in [Worker -> SUBSET Request],
         \/ UNCHANGED membership
         \/ membership' = [membership EXCEPT ![r] = "absent"]
  PROVE  IInv'
<1> USE DEF IInv
<1>1. TypeOK'
  BY ItemMovesEffect DEF TypeOK, columns
<1>2. \A q \in Poll, u \in Request : InBatch(q, u)' <=> InBatch(q, u)
  BY ItemMovesEffect DEF InBatch, ItemMoves
<1>3. ExclusiveProcessing' /\ BatchIsPending' /\ LeaseOfBatch'
  BY <1>2 DEF ExclusiveProcessing, BatchIsPending, LeaseOfBatch, columns
<1>4. NoLostAttempt'
  BY <1>2, ItemMovesEffect DEF NoLostAttempt, columns
<1>5. NoLeaseOutsideRevocation' /\ RetryHasBudget'
  BY DEF NoLeaseOutsideRevocation, RetryHasBudget, columns
<1>6. RetryResultHasBudget'
  BY ItemMovesEffect DEF RetryResultHasBudget
<1>7. FulfilledHasMembership'
  BY DEF FulfilledHasMembership, BatchIsPending, ItemMoves, columns, TypeOK
<1> QED BY <1>1, <1>3, <1>4, <1>5, <1>6, <1>7

LEMMA ProviderStepIInv ==
  ASSUME IInv, NEW p \in Poll, NEW r \in Request, ProviderStep(p, r)
  PROVE  IInv'
<1>t. TypeOK
  BY DEF IInv
<1>s. "REVOKED" \in Stage \ { "none", "RETRY" } /\ "SKIPPED" \in Stage \ { "none", "RETRY" }
        /\ Active \subseteq Stage \ { "none", "RETRY" }
  BY DEF Stage, Active, Outcome
<1>1. CASE ProcessSingleExpiration(p, r)
  <2>0. InBatch(p, r) /\ "called" \in Active
    BY <1>1 DEF ProcessSingleExpiration, InBatch, Active
  <2>a. \/ \E o \in { "SKIPPED", "REVOKED", "called" } : Conclude(p, r, o)
        \/ Fail(p, r, TRUE)
    BY <1>1 DEF ProcessSingleExpiration, CallRevoke, CallRevokeThrows, Proceed
  <2>1. ItemMoves(p, r)
    BY <2>0, <2>a, <1>s DEF ItemMoves
  <2>2. marked' \in [Worker -> SUBSET Request]
    <3>1. \/ marked' = marked
          \/ marked' = [marked EXCEPT ![Owner[p]] = @ \cup {r}]
      BY <1>1 DEF ProcessSingleExpiration, CallRevoke, CallRevokeThrows
    <3> QED BY <3>1, <1>t DEF TypeOK
  <2> QED BY <1>1, <2>1, <2>2, ItemMovesIInv DEF ProcessSingleExpiration
<1>2. CASE GetTeamMembership(p, r)
  <2>1. ItemMoves(p, r)
    BY <1>2, <1>s DEF GetTeamMembership, ItemMoves, InBatch, Proceed, Active, RevokeFails,
                       ClassifyError, UnexpectedMembershipState
  <2> QED BY <1>2, <1>t, <2>1, ItemMovesIInv DEF GetTeamMembership, memory, TypeOK
<1>3. CASE DeleteTeamMembership(p, r)
  <2>1. ItemMoves(p, r)
    BY <1>3, <1>s DEF DeleteTeamMembership, ItemMoves, InBatch, Proceed, Active,
                       RevokeFails, ClassifyError
  <2> QED BY <1>3, <1>t, <2>1, ItemMovesIInv DEF DeleteTeamMembership, memory, TypeOK
<1>4. CASE VerifyAbsence(p, r)
  <2>1. ItemMoves(p, r)
    BY <1>4, <1>s DEF VerifyAbsence, ItemMoves, InBatch, RevokeFails, ClassifyError
  <2> QED BY <1>4, <1>t, <2>1, ItemMovesIInv DEF VerifyAbsence, memory, TypeOK
<1> QED BY <1>1, <1>2, <1>3, <1>4 DEF ProviderStep

-----------------------------------------------------------------------------

LEMMA DropBatchType ==
  ASSUME TypeOK, NEW p \in Poll, DropBatch(p)
  PROVE  /\ stage' \in [Poll -> [Request -> Stage]]
         /\ snapshot' \in [Poll -> [Request -> Nat]]
         /\ retryIn' \in [Poll -> [Request -> Time]]
         /\ \A q \in Poll, r \in Request :
               /\ stage'[q][r] = IF q = p THEN "none" ELSE stage[q][r]
               /\ q # p => /\ snapshot'[q][r] = snapshot[q][r]
                           /\ retryIn'[q][r] = retryIn[q][r]
  BY DEF DropBatch, TypeOK, Stage, Time

LEMMA DropBatchKeepsResults ==
  ASSUME TypeOK, RetryResultHasBudget, NEW p \in Poll, DropBatch(p)
  PROVE  RetryResultHasBudget'
<1>1. SUFFICES ASSUME NEW q \in Poll, NEW r \in Request, stage'[q][r] = "RETRY"
               PROVE  snapshot'[q][r] + 1 < MaxRetries /\ retryIn'[q][r] # Null
  BY DEF RetryResultHasBudget
<1>2. q # p /\ stage[q][r] = "RETRY"
  BY <1>1, DropBatchType
<1>3. snapshot'[q][r] = snapshot[q][r] /\ retryIn'[q][r] = retryIn[q][r]
  BY <1>2, DropBatchType
<1> QED BY <1>2, <1>3 DEF RetryResultHasBudget

LEMMA FinalizeIInv ==
  ASSUME IInv, NEW p \in Poll, FinalizeBatch(p)
  PROVE  IInv'
<1> USE DEF IInv
<1>0. DropBatch(p) /\ UNCHANGED << expiresIn, membership, memory >>
  BY DEF FinalizeBatch
<1>r. ASSUME NEW r \in Request
      PROVE  /\ status'[r] = IF InBatch(p, r) /\ stage[p][r] # "SKIPPED"
                             THEN stage[p][r] ELSE status[r]
             /\ attempts'[r] = IF InBatch(p, r) /\ stage[p][r] # "SKIPPED"
                               THEN snapshot[p][r] + 1 ELSE attempts[r]
             /\ nextIn'[r] = IF stage[p][r] = "RETRY" THEN retryIn[p][r]
                             ELSE IF stage[p][r] = "REVOCATION_FAILED" THEN Null
                             ELSE nextIn[r]
             /\ leaseOwner'[r] = IF InBatch(p, r) THEN Null ELSE leaseOwner[r]
             /\ InBatch(p, r) => stage[p][r] \in Outcome
  BY DEF FinalizeBatch, InFlight, InBatch, BatchDone, Counted, Released
<1>1. TypeOK'
  <2>1. status' \in [Request -> AccessRequestStatus]
    <3>1. DOMAIN status' = Request /\ status' = [r \in Request |-> status'[r]]
      BY DEF FinalizeBatch
    <3>2. ASSUME NEW r \in Request PROVE status'[r] \in AccessRequestStatus
      BY <1>r DEF TypeOK, Outcome, AccessRequestStatus
    <3> QED BY <3>1, <3>2
  <2>2. attempts' \in [Request -> Nat] /\ nextIn' \in [Request -> Time]
    BY DEF FinalizeBatch, TypeOK, Time
  <2>3. /\ leaseOwner' \in [Request -> Worker \cup {Null}]
        /\ leaseLeft' \in [Request -> Time]
    BY DEF FinalizeBatch, TypeOK, Time
  <2> QED BY <1>0, <2>1, <2>2, <2>3, DropBatchType DEF TypeOK, memory
<1>3. ASSUME NEW q \in Poll, NEW r \in Request, InBatch(q, r)'
      PROVE  q # p /\ InBatch(q, r) /\ ~InBatch(p, r)
  BY <1>0, <1>3, DropBatchType DEF InBatch, ExclusiveProcessing
<1>2. ExclusiveProcessing'
  BY <1>3 DEF ExclusiveProcessing
<1>4. BatchIsPending' /\ LeaseOfBatch'
  BY <1>r, <1>3 DEF BatchIsPending, LeaseOfBatch
<1>5. NoLostAttempt'
  BY <1>0, <1>r, <1>3, DropBatchType DEF NoLostAttempt
<1>6. NoLeaseOutsideRevocation'
  BY <1>r DEF NoLeaseOutsideRevocation
<1>7. RetryHasBudget'
  BY <1>r DEF RetryHasBudget, RetryResultHasBudget, Outcome, InBatch
<1>8. RetryResultHasBudget'
  BY <1>0, DropBatchKeepsResults
<1>9. FulfilledHasMembership'
  BY <1>0, <1>r DEF FulfilledHasMembership, Outcome
<1> QED BY <1>1, <1>2, <1>4, <1>5, <1>6, <1>7, <1>8, <1>9

LEMMA FinalizeFailsIInv ==
  ASSUME IInv, NEW p \in Poll, FinalizeFails(p)
  PROVE  IInv'
<1> USE DEF IInv
<1>0. DropBatch(p) /\ UNCHANGED << columns, membership, memory >>
  BY DEF FinalizeFails
<1>1. TypeOK'
  BY <1>0, DropBatchType DEF TypeOK, columns, memory
<1>2. ASSUME NEW q \in Poll, NEW r \in Request, InBatch(q, r)'
      PROVE  q # p /\ InBatch(q, r)
  BY <1>0, <1>2, DropBatchType DEF InBatch
<1>3. ExclusiveProcessing' /\ BatchIsPending' /\ LeaseOfBatch'
  BY <1>0, <1>2 DEF ExclusiveProcessing, BatchIsPending, LeaseOfBatch, columns
<1>4. NoLostAttempt'
  BY <1>0, <1>2, DropBatchType DEF NoLostAttempt, columns
<1>5. RetryResultHasBudget'
  BY <1>0, DropBatchKeepsResults
<1>6. NoLeaseOutsideRevocation' /\ RetryHasBudget' /\ FulfilledHasMembership'
  BY <1>0 DEF NoLeaseOutsideRevocation, RetryHasBudget, FulfilledHasMembership, columns
<1> QED BY <1>1, <1>3, <1>4, <1>5, <1>6

LEMMA CrashIInv ==
  ASSUME IInv, NEW w \in Worker, Crash(w)
  PROVE  IInv'
<1> USE DEF IInv
<1>1. TypeOK'
  <2>1. stage' \in [Poll -> [Request -> Stage]]
    BY DEF Crash, TypeOK, Stage
  <2>2. snapshot' \in [Poll -> [Request -> Nat]]
    BY DEF Crash, TypeOK
  <2>3. retryIn' \in [Poll -> [Request -> Time]]
    BY DEF Crash, TypeOK, Time
  <2> QED BY <2>1, <2>2, <2>3 DEF Crash, columns, TypeOK
<1>2. ASSUME NEW q \in Poll, NEW r \in Request, stage'[q][r] # "none"
      PROVE  /\ stage'[q][r] = stage[q][r]
             /\ snapshot'[q][r] = snapshot[q][r]
             /\ retryIn'[q][r] = retryIn[q][r]
  BY <1>2 DEF Crash
<1>3. ExclusiveProcessing' /\ BatchIsPending' /\ LeaseOfBatch' /\ NoLostAttempt'
  BY <1>2 DEF ExclusiveProcessing, BatchIsPending, LeaseOfBatch, NoLostAttempt,
              InBatch, Crash, columns
<1>4. RetryResultHasBudget'
  BY <1>2 DEF RetryResultHasBudget
<1>5. NoLeaseOutsideRevocation' /\ RetryHasBudget' /\ FulfilledHasMembership'
  BY DEF NoLeaseOutsideRevocation, RetryHasBudget, FulfilledHasMembership, Crash, columns
<1> QED BY <1>1, <1>3, <1>4, <1>5

\* start, stop, the release of the leases and their renewal leave every batch
\* and every status alone; a lease they change is ended or kept.
LEMMA LeaseTimersIInv ==
  ASSUME IInv, NEW w \in Worker,
         \/ Start(w) \/ Stop(w) \/ ReleaseAllLeases(w) \/ RenewLeases(w)
  PROVE  IInv'
<1> USE DEF IInv
<1>1. /\ UNCHANGED << status, expiresIn, attempts, nextIn, membership, items >>
      /\ \A r \in Request : leaseOwner'[r] \in { leaseOwner[r], Null }
  BY DEF Start, Stop, ReleaseAllLeases, RenewLeases, columns, TypeOK
<1>2. TypeOK'
  <2>1. leaseOwner' \in [Request -> Worker \cup {Null}]
    BY DEF Start, Stop, ReleaseAllLeases, RenewLeases, columns, TypeOK
  <2>2. leaseLeft' \in [Request -> Time]
    BY DEF Start, Stop, ReleaseAllLeases, RenewLeases, columns, TypeOK, Time
  <2>3. /\ alive' \in [Worker -> BOOLEAN] /\ running' \in [Worker -> BOOLEAN]
        /\ releasing' \in [Worker -> BOOLEAN] /\ marked' = marked
    BY DEF Start, Stop, ReleaseAllLeases, RenewLeases, memory, TypeOK
  <2> QED BY <1>1, <2>1, <2>2, <2>3 DEF TypeOK, items
<1>3. ExclusiveProcessing' /\ BatchIsPending' /\ LeaseOfBatch' /\ NoLostAttempt'
  BY <1>1 DEF ExclusiveProcessing, BatchIsPending, LeaseOfBatch, NoLostAttempt,
              InBatch, items
<1>4. RetryResultHasBudget' /\ RetryHasBudget' /\ NoLeaseOutsideRevocation'
        /\ FulfilledHasMembership'
  BY <1>1 DEF RetryResultHasBudget, RetryHasBudget, NoLeaseOutsideRevocation,
              FulfilledHasMembership, items
<1> QED BY <1>2, <1>3, <1>4

\* An extension, a manual revocation, an accepted invitation and the clock.
LEMMA EnvironmentIInv ==
  ASSUME IInv,
         \/ \E r \in Request : Extend(r) \/ ManualRevoke(r) \/ AcceptInvitation(r)
         \/ Tick
  PROVE  IInv'
<1> USE DEF IInv
<1>1. ASSUME NEW r \in Request, Extend(r)
      PROVE  IInv'
  BY <1>1 DEF Extend, TypeOK, Time, ExclusiveProcessing, BatchIsPending, LeaseOfBatch,
              NoLeaseOutsideRevocation, NoLostAttempt, RetryHasBudget,
              RetryResultHasBudget, FulfilledHasMembership, InBatch, memory, items
<1>2. ASSUME NEW r \in Request, ManualRevoke(r)
      PROVE  IInv'
  <2>1. TypeOK'
    BY <1>2 DEF ManualRevoke, TypeOK, AccessRequestStatus, memory, items
  <2>2. \A u \in Request : status'[u] = IF u = r THEN "REVOKED" ELSE status[u]
    BY <1>2 DEF ManualRevoke, TypeOK
  <2>3. ExclusiveProcessing' /\ BatchIsPending' /\ LeaseOfBatch' /\ NoLostAttempt'
          /\ RetryResultHasBudget'
    BY <1>2, <2>2 DEF ManualRevoke, items, ExclusiveProcessing, BatchIsPending,
                      LeaseOfBatch, NoLostAttempt, RetryResultHasBudget, InBatch
  <2>4. NoLeaseOutsideRevocation' /\ RetryHasBudget'
    BY <1>2, <2>2 DEF ManualRevoke, NoLeaseOutsideRevocation, RetryHasBudget
  <2>5. FulfilledHasMembership'
    BY <1>2, <2>2 DEF ManualRevoke, FulfilledHasMembership, TypeOK
  <2> QED BY <2>1, <2>3, <2>4, <2>5
<1>3. ASSUME NEW r \in Request, AcceptInvitation(r)
      PROVE  IInv'
  BY <1>3 DEF AcceptInvitation, TypeOK, ExclusiveProcessing, BatchIsPending,
              LeaseOfBatch, NoLeaseOutsideRevocation, NoLostAttempt, RetryHasBudget,
              RetryResultHasBudget, FulfilledHasMembership, InBatch, columns, memory, items
<1>4. CASE Tick
  <2>1. ASSUME NEW t \in Time, NEW floor \in Int
        PROVE  CountDown(t, floor) \in Time /\ (t # Null => CountDown(t, floor) # Null)
    BY DEF CountDown, Time
  <2>2. TypeOK'
    BY <1>4, <2>1 DEF Tick, TypeOK, memory
  <2>3. ExclusiveProcessing' /\ BatchIsPending' /\ LeaseOfBatch' /\ NoLostAttempt'
          /\ NoLeaseOutsideRevocation' /\ FulfilledHasMembership'
    BY <1>4 DEF Tick, ExclusiveProcessing, BatchIsPending, LeaseOfBatch, NoLostAttempt,
                NoLeaseOutsideRevocation, FulfilledHasMembership, InBatch
  <2>4. RetryHasBudget' /\ RetryResultHasBudget'
    BY <1>4, <2>1 DEF Tick, TypeOK, RetryHasBudget, RetryResultHasBudget
  <2> QED BY <2>2, <2>3, <2>4
<1> QED BY <1>1, <1>2, <1>3, <1>4

-----------------------------------------------------------------------------

LEMMA NextIInv == IInv /\ [Next]_vars => IInv'
<1> SUFFICES ASSUME IInv, [Next]_vars PROVE IInv'
  OBVIOUS
<1>1. ASSUME NEW p \in Poll, PollStep(p) \/ FinalizeFails(p)
      PROVE  IInv'
  BY <1>1, ClaimIInv, ProviderStepIInv, FinalizeIInv, FinalizeFailsIInv DEF PollStep
<1>2. ASSUME NEW p \in Poll, NEW S \in SUBSET Request, ClaimReplyLost(p, S)
      PROVE  IInv'
  BY <1>2, ClaimReplyLostIInv
<1>3. ASSUME NEW w \in Worker, WorkerStep(w)
      PROVE  IInv'
  BY <1>3, LeaseTimersIInv, CrashIInv DEF WorkerStep
<1>4. CASE UNCHANGED vars
  BY <1>4 DEF vars, columns, memory, items, IInv, TypeOK, ExclusiveProcessing,
              BatchIsPending, LeaseOfBatch, NoLeaseOutsideRevocation, NoLostAttempt,
              RetryHasBudget, RetryResultHasBudget, FulfilledHasMembership, InBatch
<1> QED BY <1>1, <1>2, <1>3, <1>4, EnvironmentIInv DEF Next

THEOREM InductiveInvariant == Spec => []IInv
<1> QED BY InitIInv, NextIInv, PTL DEF Spec

\* The columns and the workers' memory keep their types.
THEOREM TypeCorrect == Spec => []TypeOK
<1>1. IInv => TypeOK
  BY DEF IInv
<1> QED BY <1>1, InductiveInvariant, PTL

\* No two polls, of one worker or of several, ever process one request, though
\* leases run out, workers stop and crash, and nothing fences the finalize.
THEOREM Exclusion == Spec => []ExclusiveProcessing
<1>1. IInv => ExclusiveProcessing
  BY DEF IInv
<1> QED BY <1>1, InductiveInvariant, PTL

\* A request in a batch is REVOCATION_PENDING, or REVOKED by an administrator.
THEOREM BatchPending == Spec => []BatchIsPending
<1>1. IInv => BatchIsPending
  BY DEF IInv
<1> QED BY <1>1, InductiveInvariant, PTL

\* The lease on a request in a batch is never held by another worker.
THEOREM LeaseHeldByBatch == Spec => []LeaseOfBatch
<1>1. IInv => LeaseOfBatch
  BY DEF IInv
<1> QED BY <1>1, InductiveInvariant, PTL

\* No row outside a revocation is left under a lease.
THEOREM LeasesEndWithRevocation == Spec => []NoLeaseOutsideRevocation
<1>1. IInv => NoLeaseOutsideRevocation
  BY DEF IInv
<1> QED BY <1>1, InductiveInvariant, PTL

\* The attempt count read by a claim is the row's until the batch ends.
THEOREM AttemptsAreCounted == Spec => []NoLostAttempt
<1>1. IInv => NoLostAttempt
  BY DEF IInv
<1> QED BY <1>1, InductiveInvariant, PTL

\* A request waits in RETRY only with budget left and a time to try again.
THEOREM RetriesAreBounded == Spec => []RetryHasBudget
<1>1. IInv => RetryHasBudget
  BY DEF IInv
<1> QED BY <1>1, InductiveInvariant, PTL

\* Access that was taken away at GitHub is never shown as FULFILLED.
THEOREM GrantedIsReal == Spec => []FulfilledHasMembership
<1>1. IInv => FulfilledHasMembership
  BY DEF IInv
<1> QED BY <1>1, InductiveInvariant, PTL

\* A step that takes membership away belongs to a revocation: the DELETE of a
\* request that is still in its batch, or an administrator's.
LEMMA RemovalStep ==
  ASSUME IInv, [Next]_vars, NEW r \in Request,
         membership'[r] = "absent", membership[r] # "absent"
  PROVE  status'[r] \in { "REVOCATION_PENDING", "REVOKED" }
<1>1. ASSUME NEW p \in Poll, NEW u \in Request, DeleteTeamMembership(p, u)
      PROVE  status'[r] \in { "REVOCATION_PENDING", "REVOKED" }
  <2>1. status' = status /\ (membership' = membership
                               \/ membership' = [membership EXCEPT ![u] = "absent"])
    BY <1>1 DEF DeleteTeamMembership, columns
  <2>2. u = r
    BY <2>1 DEF IInv, TypeOK
  <2>3. InBatch(p, r)
    BY <1>1, <2>2 DEF DeleteTeamMembership, InBatch
  <2> QED BY <2>1, <2>3 DEF IInv, BatchIsPending
<1>2. ASSUME NEW u \in Request, ManualRevoke(u)
      PROVE  status'[r] \in { "REVOCATION_PENDING", "REVOKED" }
  BY <1>2 DEF ManualRevoke, IInv, TypeOK
<1>3. ASSUME NEW u \in Request, AcceptInvitation(u)
      PROVE  FALSE
  BY <1>3 DEF AcceptInvitation, IInv, TypeOK
<1>4. ASSUME NEW p \in Poll, PollStep(p) \/ FinalizeFails(p),
             ~\E u \in Request : DeleteTeamMembership(p, u)
      PROVE  FALSE
  BY <1>4 DEF PollStep, ProviderStep, ClaimDueExpirations, ProcessSingleExpiration,
              GetTeamMembership, VerifyAbsence, FinalizeBatch, FinalizeFails
<1>5. ASSUME NEW w \in Worker, WorkerStep(w)
      PROVE  FALSE
  BY <1>5 DEF WorkerStep, Start, Stop, ReleaseAllLeases, RenewLeases, Crash
<1>6. ASSUME \/ \E p \in Poll, S \in SUBSET Request : ClaimReplyLost(p, S)
             \/ \E u \in Request : Extend(u)
             \/ Tick
             \/ UNCHANGED vars
      PROVE  FALSE
  BY <1>6 DEF ClaimReplyLost, Extend, Tick, vars
<1> QED BY <1>1, <1>2, <1>3, <1>4, <1>5, <1>6 DEF Next

\* Membership is taken away only from a request that is being revoked.
THEOREM RemovalInRevocation == Spec => RemovalOnlyWhileRevoking
<1>1. IInv /\ [Next]_vars =>
        [ \A r \in Request :
            membership'[r] = "absent" /\ membership[r] # "absent" =>
                status'[r] \in { "REVOCATION_PENDING", "REVOKED" } ]_vars
  BY RemovalStep
<1> QED BY <1>1, InductiveInvariant, PTL DEF Spec, RemovalOnlyWhileRevoking

=============================================================================
