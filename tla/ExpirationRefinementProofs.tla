--------------------- MODULE ExpirationRefinementProofs ---------------------
(***************************************************************************)
(* ExpirationScheduler implements AccessRevocation, for every number of    *)
(* workers, polls and requests: each step of a scheduler is a step of the  *)
(* abstract specification on << status, Retried, Revoking, membership >>,  *)
(* or leaves those alone.                                                  *)
(***************************************************************************)
EXTENDS ExpirationSchedulerProofs

AbstractVars == << status, Retried, Revoking, membership >>

AbstractStep == Revocation!RevocationNext \/ UNCHANGED AbstractVars

LEMMA InitRefines == Init => Revocation!RevocationInit
  BY DEF Init, Revocation!RevocationInit, Retried, Revoking, InBatch

\* What a claim takes is in no batch, and waits with a time if it is a RETRY.
LEMMA ClaimedIsTakeable ==
  ASSUME IInv, NEW S \in SUBSET Request, \A r \in S : Claimable(r)
  PROVE  /\ S \cap Revoking = {}
         /\ \A r \in S : \/ status[r] = "FULFILLED"
                         \/ status[r] = "RETRY" /\ r \in Retried
<1>1. \A r \in S, q \in Poll : stage[q][r] = "none"
  BY ClaimableIsFree DEF IInv
<1> QED BY <1>1 DEF Revoking, Retried, InBatch, Claimable, Passed

LEMMA ClaimRefines ==
  ASSUME IInv, NEW p \in Poll, NEW S \in SUBSET Request, ClaimDueExpirations(p, S)
  PROVE  AbstractStep
<1>1. S # {} /\ (\A r \in S : Claimable(r)) /\ LeaseRows(Owner[p], S)
  BY DEF ClaimDueExpirations
<1>2. ASSUME NEW q \in Poll, NEW r \in Request
      PROVE  stage'[q][r] = IF q = p /\ r \in S THEN "claimed" ELSE stage[q][r]
  BY DEF ClaimDueExpirations, PollIdle, IInv, TypeOK
<1>3. Revoking' = Revoking \cup S
  BY <1>2 DEF Revoking, InBatch
<1>4. Retried' = Retried /\ membership' = membership
  BY <1>1 DEF Retried, LeaseRows, ClaimDueExpirations
<1>5. status' = [r \in Request |->
                    IF r \in S THEN "REVOCATION_PENDING" ELSE status[r]]
  BY <1>1 DEF LeaseRows
<1>6. Revocation!Take(S, TRUE)
  BY <1>1, <1>3, <1>4, <1>5, ClaimedIsTakeable DEF Revocation!Take
<1> QED BY <1>6 DEF AbstractStep, Revocation!RevocationNext

LEMMA ClaimReplyLostRefines ==
  ASSUME IInv, NEW p \in Poll, NEW S \in SUBSET Request, ClaimReplyLost(p, S)
  PROVE  AbstractStep
<1>1. S # {} /\ (\A r \in S : Claimable(r)) /\ LeaseRows(Owner[p], S)
  BY DEF ClaimReplyLost
<1>2. Revoking' = Revoking
  BY DEF ClaimReplyLost, items, Revoking, InBatch
<1>3. Retried' = Retried /\ membership' = membership
  BY <1>1 DEF Retried, LeaseRows, ClaimReplyLost
<1>4. status' = [r \in Request |->
                    IF r \in S THEN "REVOCATION_PENDING" ELSE status[r]]
  BY <1>1 DEF LeaseRows
<1>5. Revocation!Take(S, FALSE)
  BY <1>1, <1>2, <1>3, <1>4, ClaimedIsTakeable DEF Revocation!Take
<1> QED BY <1>5 DEF AbstractStep, Revocation!RevocationNext

\* A step of an item: nothing, or the removal of its request's membership.
LEMMA ItemMovesRefines ==
  ASSUME IInv, NEW p \in Poll, NEW r \in Request, ItemMoves(p, r),
         UNCHANGED columns,
         \/ UNCHANGED membership
         \/ membership' = [membership EXCEPT ![r] = "absent"]
  PROVE  AbstractStep
<1>1. \A q \in Poll, u \in Request : InBatch(q, u)' <=> InBatch(q, u)
  BY ItemMovesEffect DEF InBatch, ItemMoves, IInv
<1>2. Revoking' = Revoking /\ Retried' = Retried /\ status' = status
  BY <1>1 DEF Revoking, Retried, columns
<1>3. r \in Revoking
  BY DEF ItemMoves, Revoking
<1>4. CASE UNCHANGED membership
  BY <1>2, <1>4 DEF AbstractStep, AbstractVars
<1>5. CASE membership' = [membership EXCEPT ![r] = "absent"]
  <2>1. Revocation!Remove(r)
    BY <1>2, <1>3, <1>5 DEF Revocation!Remove
  <2> QED BY <2>1 DEF AbstractStep, Revocation!RevocationNext
<1> QED BY <1>4, <1>5

LEMMA ProviderStepRefines ==
  ASSUME IInv, NEW p \in Poll, NEW r \in Request, ProviderStep(p, r)
  PROVE  AbstractStep
<1>s. "REVOKED" \in Stage \ { "none", "RETRY" } /\ "SKIPPED" \in Stage \ { "none", "RETRY" }
        /\ Active \subseteq Stage \ { "none", "RETRY" }
  BY DEF Stage, Active, Outcome
<1>1. CASE ProcessSingleExpiration(p, r)
  <2>0. InBatch(p, r) /\ "called" \in Active
    BY <1>1 DEF ProcessSingleExpiration, InBatch, Active
  <2>a. \/ \E o \in { "SKIPPED", "REVOKED", "called" } : Conclude(p, r, o)
        \/ Fail(p, r, TRUE)
    BY <1>1 DEF ProcessSingleExpiration, CallRevoke, CallRevokeThrows, Proceed
  <2>1. ItemMoves(p, r)
    BY <2>0, <2>a, <1>s DEF ItemMoves
  <2> QED BY <1>1, <2>1, ItemMovesRefines DEF ProcessSingleExpiration
<1>2. CASE GetTeamMembership(p, r)
  <2>1. ItemMoves(p, r)
    BY <1>2, <1>s DEF GetTeamMembership, ItemMoves, InBatch, Proceed, Active, RevokeFails,
                       ClassifyError, UnexpectedMembershipState
  <2> QED BY <1>2, <2>1, ItemMovesRefines DEF GetTeamMembership
<1>3. CASE DeleteTeamMembership(p, r)
  <2>1. ItemMoves(p, r)
    BY <1>3, <1>s DEF DeleteTeamMembership, ItemMoves, InBatch, Proceed, Active,
                       RevokeFails, ClassifyError
  <2> QED BY <1>3, <2>1, ItemMovesRefines DEF DeleteTeamMembership
<1>4. CASE VerifyAbsence(p, r)
  <2>1. ItemMoves(p, r)
    BY <1>4, <1>s DEF VerifyAbsence, ItemMoves, InBatch, RevokeFails, ClassifyError
  <2> QED BY <1>4, <2>1, ItemMovesRefines DEF VerifyAbsence
<1> QED BY <1>1, <1>2, <1>3, <1>4 DEF ProviderStep

-----------------------------------------------------------------------------

\* Since no other poll has them, the requests of a batch that ends are free.
LEMMA DroppedBatchIsFree ==
  ASSUME IInv, NEW p \in Poll, DropBatch(p)
  PROVE  /\ Revoking' = Revoking \ InFlight(p)
         /\ InFlight(p) \subseteq Revoking
<1>1. \A q \in Poll, r \in Request :
          stage'[q][r] = IF q = p THEN "none" ELSE stage[q][r]
  BY DropBatchType DEF IInv
<1>2. \A q \in Poll, r \in Request : InBatch(q, r)' <=> q # p /\ InBatch(q, r)
  BY <1>1 DEF InBatch
<1>3. \A q \in Poll, r \in Request : InBatch(q, r) /\ InBatch(p, r) => q = p
  BY DEF IInv, ExclusiveProcessing
<1> QED BY <1>2, <1>3 DEF Revoking, InFlight, InBatch

LEMMA FinalizeRefines ==
  ASSUME IInv, NEW p \in Poll, FinalizeBatch(p)
  PROVE  AbstractStep
<1> DEFINE S == InFlight(p)
           outcome == [r \in S |-> stage[p][r]]
<1>1. S # {} /\ S \in SUBSET Request /\ outcome \in [S -> Outcome]
  BY DEF FinalizeBatch, BatchDone, PollIdle, InFlight
<1>2. DropBatch(p) /\ membership' = membership
  BY DEF FinalizeBatch
<1>3. S \subseteq Revoking /\ Revoking' = Revoking \ S
  BY <1>2, DroppedBatchIsFree
<1>4. status' = [r \in Request |->
                    IF r \in S /\ outcome[r] # "SKIPPED" THEN outcome[r] ELSE status[r]]
  BY DEF FinalizeBatch, Counted, InFlight
<1>5. ASSUME NEW r \in Request
      PROVE  nextIn'[r] # Null <=>
                \/ r \in S /\ outcome[r] = "RETRY"
                \/ nextIn[r] # Null /\ ~(r \in S /\ outcome[r] = "REVOCATION_FAILED")
  <2>1. nextIn'[r] = IF stage[p][r] = "RETRY" THEN retryIn[p][r]
                     ELSE IF stage[p][r] = "REVOCATION_FAILED" THEN Null ELSE nextIn[r]
    BY DEF FinalizeBatch
  <2>2. stage[p][r] = "RETRY" => retryIn[p][r] # Null
    BY DEF IInv, RetryResultHasBudget
  <2> QED BY <2>1, <2>2 DEF InFlight
<1>6. Retried' = (Retried \cup { r \in S : outcome[r] = "RETRY" })
                     \ { r \in S : outcome[r] = "REVOCATION_FAILED" }
  BY <1>1, <1>5 DEF Retried
<1>7. Revocation!Settle(outcome)
  BY <1>1, <1>2, <1>3, <1>4, <1>6 DEF Revocation!Settle
<1>8. outcome \in [S -> Revocation!RevocationOutcome]
  BY <1>1 DEF Outcome, Revocation!RevocationOutcome
<1> QED BY <1>1, <1>7, <1>8 DEF AbstractStep, Revocation!RevocationNext

LEMMA FinalizeFailsRefines ==
  ASSUME IInv, NEW p \in Poll, FinalizeFails(p)
  PROVE  AbstractStep
<1>1. InFlight(p) # {} /\ InFlight(p) \in SUBSET Request
  BY DEF FinalizeFails, BatchDone, PollIdle, InFlight
<1>2. DropBatch(p) /\ UNCHANGED << columns, membership >>
  BY DEF FinalizeFails
<1>3. Retried' = Retried /\ status' = status
  BY <1>2 DEF Retried, columns
<1>4. Revocation!Lose(InFlight(p))
  BY <1>1, <1>2, <1>3, DroppedBatchIsFree DEF Revocation!Lose
<1> QED BY <1>1, <1>4 DEF AbstractStep, Revocation!RevocationNext

LEMMA CrashRefines ==
  ASSUME IInv, NEW w \in Worker, Crash(w)
  PROVE  AbstractStep
<1> DEFINE S == { r \in Request : \E p \in Poll : Owner[p] = w /\ InBatch(p, r) }
<1>1. \A q \in Poll, r \in Request : InBatch(q, r)' <=> Owner[q] # w /\ InBatch(q, r)
  BY DEF Crash, InBatch, IInv, TypeOK
<1>2. \A p, q \in Poll, r \in Request : InBatch(p, r) /\ InBatch(q, r) => p = q
  BY DEF IInv, ExclusiveProcessing
<1>3. S \subseteq Revoking /\ Revoking' = Revoking \ S
  BY <1>1, <1>2 DEF Revoking
<1>4. status' = status /\ Retried' = Retried /\ membership' = membership
  BY DEF Crash, Retried, columns
<1>5. CASE S = {}
  BY <1>3, <1>4, <1>5 DEF AbstractStep, AbstractVars
<1>6. CASE S # {}
  <2>1. Revocation!Lose(S)
    BY <1>3, <1>4, <1>6 DEF Revocation!Lose
  <2> QED BY <2>1 DEF AbstractStep, Revocation!RevocationNext
<1> QED BY <1>5, <1>6

-----------------------------------------------------------------------------

LEMMA LeaseTimersRefine ==
  ASSUME IInv, NEW w \in Worker,
         \/ Start(w) \/ Stop(w) \/ ReleaseAllLeases(w) \/ RenewLeases(w)
  PROVE  AbstractStep
<1>1. UNCHANGED << status, nextIn, membership, stage >>
  BY DEF Start, Stop, ReleaseAllLeases, RenewLeases, columns, items
<1> QED BY <1>1 DEF AbstractStep, AbstractVars, Retried, Revoking, InBatch

LEMMA EnvironmentRefines ==
  ASSUME IInv,
         \/ \E r \in Request : Extend(r) \/ ManualRevoke(r) \/ AcceptInvitation(r)
         \/ Tick
  PROVE  AbstractStep
<1>1. ASSUME NEW r \in Request, Extend(r)
      PROVE  AbstractStep
  BY <1>1 DEF Extend, items, AbstractStep, AbstractVars, Retried, Revoking, InBatch
<1>2. ASSUME NEW r \in Request, ManualRevoke(r)
      PROVE  AbstractStep
  <2>1. Retried' = Retried /\ Revoking' = Revoking
    BY <1>2 DEF ManualRevoke, items, Retried, Revoking, InBatch
  <2>2. Revocation!Withdraw(r)
    BY <1>2, <2>1 DEF ManualRevoke, Revocation!Withdraw
  <2> QED BY <2>2 DEF AbstractStep, Revocation!RevocationNext
<1>3. ASSUME NEW r \in Request, AcceptInvitation(r)
      PROVE  AbstractStep
  <2>1. status' = status /\ Retried' = Retried /\ Revoking' = Revoking
    BY <1>3 DEF AcceptInvitation, columns, items, Retried, Revoking, InBatch
  <2>2. Revocation!Accept(r)
    BY <1>3, <2>1 DEF AcceptInvitation, Revocation!Accept
  <2> QED BY <2>2 DEF AbstractStep, Revocation!RevocationNext
<1>4. CASE Tick
  <2>1. ASSUME NEW t \in Time
        PROVE  CountDown(t, 0) # Null <=> t # Null
    BY SchedulerAssumption DEF CountDown, Time
  <2>2. Retried' = Retried
    BY <1>4, <2>1 DEF Tick, Retried, IInv, TypeOK
  <2>3. Revoking' = Revoking /\ status' = status /\ membership' = membership
    BY <1>4 DEF Tick, Revoking, InBatch
  <2> QED BY <2>2, <2>3 DEF AbstractStep, AbstractVars
<1> QED BY <1>1, <1>2, <1>3, <1>4

LEMMA NextRefines == IInv /\ [Next]_vars => AbstractStep
<1> SUFFICES ASSUME IInv, [Next]_vars PROVE AbstractStep
  OBVIOUS
<1>1. ASSUME NEW p \in Poll, PollStep(p) \/ FinalizeFails(p)
      PROVE  AbstractStep
  BY <1>1, ClaimRefines, ProviderStepRefines, FinalizeRefines, FinalizeFailsRefines
     DEF PollStep
<1>2. ASSUME NEW w \in Worker, WorkerStep(w)
      PROVE  AbstractStep
  BY <1>2, LeaseTimersRefine, CrashRefines DEF WorkerStep
<1>3. CASE UNCHANGED vars
  BY <1>3 DEF vars, columns, items, AbstractStep, AbstractVars, Retried, Revoking, InBatch
<1> QED BY <1>1, <1>2, <1>3, ClaimReplyLostRefines, EnvironmentRefines DEF Next

\* The scheduler with its leases, polls and retries implements the promise of
\* AccessRevocation: one revocation at a time takes a request and ends once.
THEOREM Refinement == Spec => ImplementsRevocation
<1>1. IInv /\ [Next]_vars => [Revocation!RevocationNext]_AbstractVars
  BY NextRefines DEF AbstractStep
<1> QED BY <1>1, InitRefines, InductiveInvariant, PTL
        DEF Spec, ImplementsRevocation, Revocation!RevocationSpec,
            Revocation!revocationVars, AbstractVars

=============================================================================
