--------------------- MODULE IntegrationLifecycleProofs ---------------------
(***************************************************************************)
(* What holds of an integration for every number of calls, workers and     *)
(* polls: its row keeps its type, and no call that read the row before a   *)
(* claim wipes the lease of that claim out.                                *)
(*                                                                         *)
(* The last one rests on config_version: a claim and a renewal raise it, a *)
(* release does not.  So the copy of a call that is still current has the  *)
(* lease of the row, or one its worker has given up since.                 *)
(***************************************************************************)
EXTENDS IntegrationLifecycle, TLAPS

WellLeased(r) == r.owner # Null => r.lease # Null

\* Leases are written, and read, as a whole.
LeasesHaveEnd ==
    /\ row # Null => WellLeased(row)
    /\ \A c \in Caller : WellLeased(copy[c])

\* While there is no row nobody has read one, and no step that writes its
\* status is under way.
RowExists ==
    row = Null =>
        /\ \A c \in Caller : /\ pc[c] \notin Installing \cup Uninstalling
                             /\ copy[c] = NoRow /\ c \notin current
        /\ \A p \in Poll : stage[p] = "none"

\* A call whose version is the row's knows the lease, if there still is one.
CurrentKnowsLease ==
    \A c \in current : row.owner # Null => copy[c].owner = row.owner

IInv ==
    /\ TypeOK
    /\ LeasesHaveEnd
    /\ RowExists
    /\ CurrentKnowsLease

-----------------------------------------------------------------------------
(* What happens to the row.                                                 *)

\* The row is there, and is left with the lease it has.
KeepsLease ==
    /\ row # Null
    /\ row' \in TenantIntegration
    /\ row'.owner = row.owner /\ row'.lease = row.lease

LEMMA NoRowIsARow == NoRow \in TenantIntegration /\ WellLeased(NoRow)
<1>1. HealthCheckInterval + 1 \in CheckAge
  BY LifecycleAssumption DEF CheckAge
<1> QED BY <1>1 DEF NoRow, TenantIntegration, WellLeased, IntegrationStatus

LEMMA WriteKeepsLease ==
  ASSUME TypeOK, row # Null,
         (\E status \in IntegrationStatus : WriteStatus(status)) \/ UNCHANGED row
  PROVE  KeepsLease
<1>1. row \in TenantIntegration
  BY DEF TypeOK
<1>2. 0 \in CheckAge
  BY LifecycleAssumption DEF CheckAge
<1>3. ASSUME NEW status \in IntegrationStatus, WriteStatus(status)
      PROVE  KeepsLease
  BY <1>1, <1>2, <1>3 DEF WriteStatus, TenantIntegration, KeepsLease
<1> QED BY <1>1, <1>3 DEF KeepsLease

\* Steps that keep the row's lease, and the version, keep what a current copy
\* knows of it.
LEMMA KeptLeaseIsKnown ==
  ASSUME IInv, KeepsLease, UNCHANGED << copy, current >>
  PROVE  LeasesHaveEnd' /\ RowExists' /\ CurrentKnowsLease'
<1>1. row' # Null
  BY StartAssumption DEF KeepsLease
<1> QED BY <1>1 DEF IInv, KeepsLease, LeasesHaveEnd, WellLeased, RowExists,
                    CurrentKnowsLease

-----------------------------------------------------------------------------
(* Calls.                                                                   *)

\* A step of a call that has got as far as writing to the row.
LEMMA WritingCallPreserves ==
  ASSUME IInv, NEW c \in Caller, NEW next \in CallState,
         pc[c] \in Installing \cup Uninstalling,
         (\E status \in IntegrationStatus : WriteStatus(status)) \/ UNCHANGED row,
         Goto(c, next), loaded' \in { loaded, FALSE },
         failed' \in [Caller -> 0 .. DisposeRetries],
         UNCHANGED << copy, current, memory, polls >>
  PROVE  IInv'
<1>1. TypeOK /\ KeepsLease
  BY WriteKeepsLease DEF IInv, RowExists
<1>2. TypeOK'
  BY <1>1 DEF TypeOK, KeepsLease, Goto, memory, polls
<1>3. LeasesHaveEnd' /\ RowExists' /\ CurrentKnowsLease'
  BY <1>1, KeptLeaseIsKnown
<1> QED BY <1>2, <1>3 DEF IInv

LEMMA InstallWritesPreserve ==
  ASSUME IInv, NEW c \in Caller,
         Configure(c) \/ Validate(c) \/ Probe(c) \/ Degrade(c)
  PROVE  IInv'
<1>1. /\ { "degrading", "validating", "probing", "done", "failed" } \subseteq CallState
      /\ { "configuring", "validating", "active", "degraded" } \subseteq IntegrationStatus
  BY DEF CallState, Installing, IntegrationStatus
<1>2. pc[c] \in Installing /\ failed' \in [Caller -> 0 .. DisposeRetries]
  BY DEF Configure, Validate, Probe, Degrade, Transition, Installing, IInv, TypeOK
<1>3. PICK next \in { "degrading", "validating", "probing", "done", "failed" } :
         Goto(c, next)
  BY DEF Configure, Validate, Probe, Degrade, Transition
<1>4. (\E status \in IntegrationStatus : WriteStatus(status)) \/ UNCHANGED row
  BY <1>1 DEF Configure, Validate, Probe, Degrade, Transition
<1>5. UNCHANGED << copy, current, memory, polls, loaded >>
  BY DEF Configure, Validate, Probe, Degrade
<1> QED BY <1>1, <1>2, <1>3, <1>4, <1>5, WritingCallPreserves

LEMMA UninstallWritesPreserve ==
  ASSUME IInv, NEW c \in Caller, Mark(c) \/ Close(c) \/ FailCleanup(c)
  PROVE  IInv'
<1>1. /\ { "disposing", "done", "failed" } \subseteq CallState
      /\ { "uninstalling", "inactive" } \subseteq IntegrationStatus
  BY DEF CallState, Uninstalling, IntegrationStatus
<1>2. pc[c] \in Uninstalling /\ failed' \in [Caller -> 0 .. DisposeRetries]
  BY DEF Mark, Close, FailCleanup, Uninstalling, IInv, TypeOK
<1>3. PICK next \in { "disposing", "done", "failed" } : Goto(c, next)
  BY DEF Mark, Close, FailCleanup
<1>4. (\E status \in IntegrationStatus : WriteStatus(status)) \/ UNCHANGED row
  BY <1>1 DEF Mark, Close, FailCleanup
<1>5. UNCHANGED << copy, current, memory, polls, loaded >>
  BY DEF Mark, Close, FailCleanup
<1> QED BY <1>1, <1>2, <1>3, <1>4, <1>5, WritingCallPreserves

\* The kernel has forgotten the plugin, whichever way the attempt went.
LEMMA DisposePreserves ==
  ASSUME IInv, NEW c \in Caller, Dispose(c)
  PROVE  IInv'
<1>1. TypeOK /\ row # Null /\ KeepsLease /\ loaded' = FALSE
  BY WriteKeepsLease DEF Dispose, Uninstalling, IInv, RowExists
<1>2. failed' \in [Caller -> 0 .. DisposeRetries]
  BY <1>1, LifecycleAssumption DEF Dispose, TypeOK
<1>3. pc' \in [Caller -> CallState]
  BY <1>1 DEF Dispose, Goto, CallState, Uninstalling, TypeOK
<1>4. TypeOK'
  BY <1>1, <1>2, <1>3 DEF Dispose, TypeOK, KeepsLease, memory, polls
<1>5. LeasesHaveEnd' /\ RowExists' /\ CurrentKnowsLease'
  BY <1>1, KeptLeaseIsKnown DEF Dispose
<1> QED BY <1>4, <1>5 DEF IInv

\* A call reads the row, or drops what it read.
LEMMA ReadingPreserves ==
  ASSUME IInv, NEW c \in Caller, Find(c) \/ StartOver(c) \/ CrashCall(c)
  PROVE  IInv'
<1>1. TypeOK
  BY DEF IInv
<1>2. UNCHANGED << row, alive, running, stage, keyed, loaded >>
  BY DEF Find, StartOver, CrashCall, memory, polls
<1>3. PICK next \in { "found", "failed", "done", "idle" } : Goto(c, next)
  BY DEF Find, StartOver, CrashCall
<1>4. \/ UNCHANGED << copy, current >>
      \/ Forget(c)
      \/ row # Null /\ copy' = [copy EXCEPT ![c] = row] /\ current' = current \cup {c}
  BY DEF Find, StartOver, CrashCall
<1>5. failed' \in [Caller -> 0 .. DisposeRetries]
  BY <1>1, LifecycleAssumption DEF Find, StartOver, CrashCall, TypeOK
<1>6. pc' \in [Caller -> CallState]
  BY <1>1, <1>3 DEF Goto, CallState, TypeOK
<1>7. copy' \in [Caller -> TenantIntegration] /\ current' \subseteq Caller
  BY <1>1, <1>4, NoRowIsARow DEF Forget, TypeOK
<1>8. TypeOK'
  BY <1>1, <1>2, <1>5, <1>6, <1>7 DEF TypeOK
<1>9. LeasesHaveEnd'
  BY <1>1, <1>2, <1>4, NoRowIsARow DEF IInv, LeasesHaveEnd, Forget, TypeOK
<1>10. CurrentKnowsLease'
  BY <1>1, <1>2, <1>4 DEF IInv, CurrentKnowsLease, Forget, TypeOK
<1>11. RowExists'
  <2>1. next \notin Installing \cup Uninstalling
    BY <1>3 DEF Installing, Uninstalling
  <2> QED BY <1>1, <1>2, <1>3, <1>4, <2>1 DEF IInv, RowExists, Goto, Forget, TypeOK
<1> QED BY <1>8, <1>9, <1>10, <1>11 DEF IInv

\* The row is created, or written whole out of a copy that is still current.
LEMMA WholeWritesPreserve ==
  ASSUME IInv, NEW c \in Caller, Create(c) \/ Reinstall(c) \/ Unwant(c)
  PROVE  IInv'
<1>1. TypeOK
  BY DEF IInv
<1>2. UNCHANGED << failed, alive, running, stage, keyed, loaded >>
  BY DEF Create, Reinstall, Unwant, memory, polls
<1>3. PICK next \in { "configuring", "marking", "failed" } : Goto(c, next)
  BY DEF Create, Reinstall, Unwant
<1>4. \/ /\ row = Null /\ row' = [NoRow EXCEPT !.credential = HasCredential[c]]
         /\ UNCHANGED << copy, current >>
      \/ row # Null /\ UNCHANGED << row, copy, current >>
      \/ row # Null /\ UNCHANGED row /\ Forget(c)
      \/ row # Null /\ \E changed :
            /\ \/ changed = [copy[c] EXCEPT !.desired = "active",
                                            !.credential = HasCredential[c]]
               \/ changed = [copy[c] EXCEPT !.desired = "inactive"]
            /\ Update(c, changed)
  <2>1. copy[c] # NoRow \/ c \in current => row # Null
    BY DEF IInv, RowExists
  <2>2. CASE Create(c)
    BY <2>2 DEF Create
  <2>3. CASE Reinstall(c)
    BY <2>1, <2>3 DEF Reinstall
  <2>4. CASE Unwant(c)
    BY <2>1, <2>4 DEF Unwant, Update, Conflict
  <2> QED BY <2>2, <2>3, <2>4
<1>5. /\ [NoRow EXCEPT !.credential = HasCredential[c]] \in TenantIntegration
      /\ WellLeased([NoRow EXCEPT !.credential = HasCredential[c]])
  BY NoRowIsARow, LifecycleAssumption DEF NoRow, TenantIntegration, WellLeased
<1>6. ASSUME NEW changed,
             \/ changed = [copy[c] EXCEPT !.desired = "active",
                                          !.credential = HasCredential[c]]
             \/ changed = [copy[c] EXCEPT !.desired = "inactive"]
      PROVE  /\ changed \in TenantIntegration /\ changed.owner = copy[c].owner
             /\ WellLeased(changed)
  <2>1. copy[c] \in TenantIntegration /\ WellLeased(copy[c]) /\ HasCredential[c] \in BOOLEAN
    BY <1>1, LifecycleAssumption DEF TypeOK, IInv, LeasesHaveEnd
  <2> QED BY <1>6, <2>1 DEF TenantIntegration, WellLeased
<1>7. row' \in TenantIntegration /\ row' # Null /\ WellLeased(row')
  BY <1>1, <1>4, <1>5, <1>6, StartAssumption DEF TypeOK, IInv, LeasesHaveEnd, Update
<1>8. /\ copy' \in [Caller -> TenantIntegration] /\ current' \subseteq Caller
      /\ \A d \in Caller : WellLeased(copy'[d])
  BY <1>1, <1>4, NoRowIsARow DEF Forget, Update, TypeOK, IInv, LeasesHaveEnd
<1>9. CurrentKnowsLease'
  <2>1. CASE row = Null /\ UNCHANGED current
    BY <2>1 DEF IInv, RowExists, CurrentKnowsLease, TypeOK
  <2>2. CASE UNCHANGED << row, copy, current >>
    BY <2>2 DEF IInv, CurrentKnowsLease
  <2>3. CASE UNCHANGED row /\ Forget(c)
    BY <1>1, <2>3 DEF IInv, CurrentKnowsLease, Forget, TypeOK
  <2>4. CASE current' = {}
    BY <2>4 DEF CurrentKnowsLease
  <2> QED BY <1>4, <2>1, <2>2, <2>3, <2>4 DEF Update
<1>10. TypeOK'
  BY <1>1, <1>2, <1>3, <1>7, <1>8
  DEF TypeOK, Goto, CallState, Installing, Uninstalling
<1>11. LeasesHaveEnd' /\ RowExists'
  BY <1>7, <1>8 DEF LeasesHaveEnd, RowExists
<1> QED BY <1>9, <1>10, <1>11 DEF IInv

-----------------------------------------------------------------------------
(* The workers and the clock.                                               *)

\* A step of a claimed integration writes its status, at most.
LEMMA ItemWritesPreserve ==
  ASSUME IInv, NEW p \in Poll, NEW next \in Work \cup {"none"},
         stage[p] # "none", Proceed(p, next),
         (\E status \in IntegrationStatus : WriteStatus(status)) \/ UNCHANGED row,
         UNCHANGED << calls, memory, loaded >>
  PROVE  IInv'
<1>1. TypeOK /\ KeepsLease
  BY WriteKeepsLease DEF IInv, RowExists
<1>2. UNCHANGED << pc, copy, current, failed, alive, running, loaded >>
  BY DEF calls, memory
<1>3. stage' \in [Poll -> Work \cup {"none"}] /\ keyed' \in [Poll -> BOOLEAN]
  BY <1>1 DEF Proceed, TypeOK
<1>4. TypeOK'
  BY <1>1, <1>2, <1>3 DEF TypeOK, KeepsLease
<1>5. LeasesHaveEnd' /\ RowExists' /\ CurrentKnowsLease'
  BY <1>1, <1>2, KeptLeaseIsKnown
<1> QED BY <1>4, <1>5 DEF IInv

LEMMA ItemPreserves ==
  ASSUME IInv, NEW p \in Poll, ItemStep(p)
  PROVE  IInv'
<1>1. /\ { "resolve", "degrade", "probe", "close", "fail", "none" }
            \subseteq Work \cup {"none"}
      /\ { "configuring", "validating", "active", "degraded", "suspended", "uninstalling",
           "inactive" } \subseteq IntegrationStatus
  BY DEF Work, IntegrationStatus
<1>2. stage[p] # "none" /\ UNCHANGED << calls, memory, loaded >>
  BY DEF ItemStep, At, ConfigureClaimed, ResolveClaimed, ProbeClaimed, DegradeClaimed,
         MarkClaimed, CloseClaimed, FailClaimed, RecoverClaimed, FinalizeUninstall,
         PerformHealthCheck
<1>3. \E next \in Work \cup {"none"} : Proceed(p, next)
  <2>1. CASE ConfigureClaimed(p) \/ ResolveClaimed(p) \/ ProbeClaimed(p)
    BY <1>1, <2>1 DEF ConfigureClaimed, ResolveClaimed, ProbeClaimed, Throws
  <2>2. CASE DegradeClaimed(p) \/ MarkClaimed(p) \/ CloseClaimed(p) \/ FailClaimed(p)
    BY <1>1, <2>2 DEF DegradeClaimed, MarkClaimed, CloseClaimed, FailClaimed, Throws
  <2>3. CASE RecoverClaimed(p) \/ FinalizeUninstall(p) \/ PerformHealthCheck(p)
    BY <1>1, <2>3 DEF RecoverClaimed, FinalizeUninstall, PerformHealthCheck
  <2> QED BY <2>1, <2>2, <2>3 DEF ItemStep
<1>4. (\E status \in IntegrationStatus : WriteStatus(status)) \/ UNCHANGED row
  <2>1. CASE ConfigureClaimed(p) \/ ResolveClaimed(p) \/ ProbeClaimed(p)
    BY <1>1, <2>1 DEF ConfigureClaimed, ResolveClaimed, ProbeClaimed, Throws
  <2>2. CASE DegradeClaimed(p) \/ MarkClaimed(p) \/ CloseClaimed(p) \/ FailClaimed(p)
    BY <1>1, <2>2 DEF DegradeClaimed, MarkClaimed, CloseClaimed, FailClaimed, Throws
  <2>3. CASE RecoverClaimed(p) \/ FinalizeUninstall(p) \/ PerformHealthCheck(p)
    BY <1>1, <2>3 DEF RecoverClaimed, FinalizeUninstall, PerformHealthCheck, Throws
  <2> QED BY <2>1, <2>2, <2>3 DEF ItemStep
<1> QED BY <1>2, <1>3, <1>4, ItemWritesPreserve

LEMMA ClaimPreserves ==
  ASSUME IInv, NEW p \in Poll, ClaimDueReconciliations(p)
  PROVE  IInv'
<1>1. TypeOK /\ row \in TenantIntegration /\ Owner[p] \in Worker
  BY LifecycleAssumption DEF IInv, TypeOK, ClaimDueReconciliations
<1>2. UNCHANGED << pc, copy, failed, alive, running, loaded >>
  BY DEF ClaimDueReconciliations, memory
<1>3. LeaseDuration \in LeaseTime /\ LeaseDuration # Null
  BY LifecycleAssumption DEF LeaseTime
<1>4. /\ row' \in TenantIntegration /\ WellLeased(row')
  BY <1>1, <1>3 DEF ClaimDueReconciliations, TenantIntegration, WellLeased
<1>5. row' # Null
  BY <1>4, StartAssumption
<1>6. Route(row) \in Work \cup {"none"}
  BY DEF Route, Work
<1>7. stage' \in [Poll -> Work \cup {"none"}] /\ keyed' \in [Poll -> BOOLEAN]
  <2>1. (Route(row) # "none" /\ row.credential) \in BOOLEAN
    OBVIOUS
  <2> QED BY <1>1, <1>6, <2>1 DEF ClaimDueReconciliations, TypeOK
<1>8. TypeOK'
  BY <1>1, <1>2, <1>4, <1>7 DEF TypeOK, ClaimDueReconciliations
<1>9. LeasesHaveEnd' /\ RowExists' /\ CurrentKnowsLease'
  BY <1>2, <1>4, <1>5
  DEF ClaimDueReconciliations, IInv, LeasesHaveEnd, RowExists, CurrentKnowsLease
<1> QED BY <1>8, <1>9 DEF IInv

\* Timers only touch the lease of the row: a release is not seen by the calls
\* that have read it, a renewal is.
LEMMA TimersPreserve ==
  ASSUME IInv, NEW w \in Worker, Start(w) \/ Stop(w) \/ RenewLeases(w)
  PROVE  IInv'
<1>1. TypeOK
  BY DEF IInv
<1>2. UNCHANGED << pc, copy, failed, alive, stage, keyed, loaded >>
  BY DEF Start, Stop, RenewLeases, calls, memory, polls
<1>3. running' \in [Worker -> BOOLEAN]
  BY <1>1 DEF Start, Stop, RenewLeases, memory, TypeOK
<1>4. LeaseDuration \in LeaseTime /\ LeaseDuration # Null
  BY LifecycleAssumption DEF LeaseTime
<1>5. \/ UNCHANGED << row, current >>
      \/ /\ row # Null /\ row' = [row EXCEPT !.owner = Null, !.lease = Null]
         /\ UNCHANGED current
      \/ row # Null /\ row' = [row EXCEPT !.lease = LeaseDuration] /\ current' = {}
  BY DEF Start, Stop, RenewLeases, calls
<1>6. row' \in TenantIntegration \cup {Null} /\ (row' = Null => row = Null)
  <2>1. row # Null => row \in TenantIntegration
    BY <1>1 DEF TypeOK
  <2>2. UNCHANGED row \/ row' \in TenantIntegration
    BY <1>4, <1>5, <2>1 DEF TenantIntegration
  <2> QED BY <1>1, <2>2, StartAssumption DEF TypeOK
<1>7. current' \subseteq Caller
  BY <1>1, <1>5 DEF TypeOK
<1>8. TypeOK'
  BY <1>1, <1>2, <1>3, <1>6, <1>7 DEF TypeOK
<1>9. LeasesHaveEnd' /\ CurrentKnowsLease'
  <2>1. row # Null => row \in TenantIntegration
    BY <1>1 DEF TypeOK
  <2> QED BY <1>2, <1>4, <1>5, <2>1
          DEF IInv, LeasesHaveEnd, WellLeased, CurrentKnowsLease, TenantIntegration
<1>10. RowExists'
  BY <1>2, <1>5, <1>6 DEF IInv, RowExists
<1> QED BY <1>8, <1>9, <1>10 DEF IInv

\* The host loads the plugin: nothing else changes.
LEMMA HostLoadPreserves ==
  ASSUME IInv, Load
  PROVE  IInv'
<1>1. /\ UNCHANGED << row, pc, copy, current, failed, alive, running, stage, keyed >>
      /\ loaded' = TRUE
  BY DEF Load, calls, memory, polls
<1>2. TypeOK'
  BY <1>1 DEF IInv, TypeOK
<1> QED BY <1>1, <1>2 DEF IInv, LeasesHaveEnd, RowExists, CurrentKnowsLease

LEMMA CrashPreserves ==
  ASSUME IInv, NEW w \in Worker, Crash(w)
  PROVE  IInv'
<1>1. UNCHANGED << row, pc, copy, current, failed, loaded >>
  BY DEF Crash, calls
<1>2. /\ alive' \in [Worker -> BOOLEAN] /\ running' \in [Worker -> BOOLEAN]
      /\ stage' \in [Poll -> Work \cup {"none"}]
  BY DEF Crash, IInv, TypeOK
<1>3. keyed' \in [Poll -> BOOLEAN]
  BY DEF Crash
<1>4. TypeOK'
  BY <1>1, <1>2, <1>3 DEF IInv, TypeOK
<1>5. LeasesHaveEnd' /\ CurrentKnowsLease'
  BY <1>1 DEF IInv, LeasesHaveEnd, CurrentKnowsLease
<1>6. RowExists'
  BY <1>1 DEF Crash, IInv, RowExists
<1> QED BY <1>4, <1>5, <1>6 DEF IInv

\* Time ends leases, it does not take them away.
LEMMA OlderIsARow ==
  ASSUME NEW r \in TenantIntegration
  PROVE  /\ Older(r) \in TenantIntegration
         /\ Older(r).owner = r.owner /\ (Older(r).lease = Null <=> r.lease = Null)
         /\ r = NoRow => Older(r) = NoRow
<1>1. /\ LeaseAge(r.lease) \in LeaseTime \cup {Null}
      /\ LeaseAge(r.lease) = Null <=> r.lease = Null
  <2>1. CASE r.lease = Null
    BY <2>1 DEF LeaseAge
  <2>2. CASE r.lease \in LeaseTime
    <3>1. r.lease # Null /\ r.lease - 1 # Null
      BY <2>2, LifecycleAssumption DEF LeaseTime
    <3> QED BY <2>2, <3>1, LifecycleAssumption DEF LeaseAge, LeaseTime
  <2> QED BY <2>1, <2>2 DEF TenantIntegration
<1>2. CheckedAge(r.checked) \in CheckAge
  BY LifecycleAssumption DEF TenantIntegration, CheckedAge, CheckAge
<1>3. /\ Older(r) \in TenantIntegration
      /\ Older(r).owner = r.owner /\ Older(r).lease = LeaseAge(r.lease)
  BY <1>1, <1>2 DEF Older, TenantIntegration
<1>4. r = NoRow => Older(r) = NoRow
  <2>1. /\ NoRow.lease = Null /\ NoRow.checked = HealthCheckInterval + 1
        /\ LeaseAge(Null) = Null
        /\ CheckedAge(HealthCheckInterval + 1) = HealthCheckInterval + 1
    BY LifecycleAssumption DEF NoRow, LeaseAge, CheckedAge
  <2>2. [NoRow EXCEPT !.lease = NoRow.lease, !.checked = NoRow.checked] = NoRow
    BY DEF NoRow
  <2> QED BY <2>1, <2>2 DEF Older
<1> QED BY <1>1, <1>3, <1>4

LEMMA TickPreserves ==
  ASSUME IInv, Tick
  PROVE  IInv'
<1>1. TypeOK
  BY DEF IInv
<1>2. UNCHANGED << pc, current, failed, alive, running, stage, keyed, loaded >>
  BY DEF Tick, memory, polls
<1>3. /\ row = Null => row' = Null
      /\ row # Null => /\ row' \in TenantIntegration /\ row'.owner = row.owner
                       /\ row'.lease = Null <=> row.lease = Null
  BY <1>1, OlderIsARow DEF Tick, TypeOK
<1>4. /\ copy' \in [Caller -> TenantIntegration]
      /\ \A c \in Caller : /\ copy'[c].owner = copy[c].owner
                           /\ copy'[c].lease = Null <=> copy[c].lease = Null
                           /\ copy[c] = NoRow => copy'[c] = NoRow
  BY <1>1, OlderIsARow DEF Tick, TypeOK
<1>5. row' = Null <=> row = Null
  BY <1>3, StartAssumption
<1>6. TypeOK'
  BY <1>1, <1>2, <1>3, <1>4 DEF TypeOK
<1>7. LeasesHaveEnd'
  BY <1>3, <1>4, <1>5 DEF IInv, LeasesHaveEnd, WellLeased
<1>8. RowExists'
  BY <1>2, <1>4, <1>5 DEF IInv, RowExists
<1>9. CurrentKnowsLease'
  BY <1>1, <1>2, <1>3, <1>4 DEF IInv, CurrentKnowsLease, RowExists, TypeOK
<1> QED BY <1>6, <1>7, <1>8, <1>9 DEF IInv

-----------------------------------------------------------------------------

LEMMA InitIInv == Init => IInv
<1> SUFFICES ASSUME Init PROVE IInv
  OBVIOUS
<1>1. row \in TenantIntegration \cup {Null} /\ (row # Null => WellLeased(row))
  BY StartAssumption DEF Init, WellLeased
<1>2. /\ copy \in [Caller -> TenantIntegration]
      /\ \A c \in Caller : WellLeased(copy[c]) /\ copy[c] = NoRow
  BY NoRowIsARow DEF Init
<1>3. TypeOK
  BY <1>1, <1>2, LifecycleAssumption DEF Init, TypeOK, CallState, Work
<1>4. LeasesHaveEnd
  BY <1>1, <1>2 DEF LeasesHaveEnd
<1>5. CurrentKnowsLease
  BY DEF Init, CurrentKnowsLease
<1>6. RowExists
  BY <1>2 DEF Init, RowExists, Installing, Uninstalling
<1> QED BY <1>3, <1>4, <1>5, <1>6 DEF IInv

LEMMA NextIInv == IInv /\ [Next]_vars => IInv'
<1> SUFFICES ASSUME IInv, [Next]_vars PROVE IInv'
  OBVIOUS
<1>1. ASSUME NEW c \in Caller, InstallStep(c) \/ UninstallStep(c) \/ CrashCall(c)
      PROVE  IInv'
  BY <1>1, ReadingPreserves, WholeWritesPreserve, InstallWritesPreserve,
     UninstallWritesPreserve, DisposePreserves DEF InstallStep, UninstallStep
<1>2. ASSUME NEW w \in Worker, WorkerStep(w)
      PROVE  IInv'
  BY <1>2, TimersPreserve, CrashPreserves DEF WorkerStep
<1>3. CASE UNCHANGED vars
  BY <1>3 DEF vars, calls, memory, polls, IInv, TypeOK, LeasesHaveEnd,
              RowExists, CurrentKnowsLease
<1> QED BY <1>1, <1>2, <1>3, ClaimPreserves, ItemPreserves, HostLoadPreserves, TickPreserves
        DEF Next

\* The copies that install and uninstall hold, and the row they write with a
\* version check, stay related: a copy that is current has the row's lease.
THEOREM InductiveInvariant == Spec => []IInv
<1> QED BY InitIInv, NextIInv, PTL DEF Spec

\* The row, the copies of integration-installer.ts and integration-uninstaller.ts
\* and the polls of integration-reconciliation-worker.ts keep their types.
THEOREM TypeCorrect == Spec => []TypeOK
<1>1. IInv => TypeOK
  BY DEF IInv
<1> QED BY <1>1, InductiveInvariant, PTL

-----------------------------------------------------------------------------
(* The lease is kept.                                                       *)

KeptOrEnded ==
    ( row # Null /\ row.owner # Null /\ row'.owner # row.owner )
        => row.lease < -HealthCheckInterval \/ Stop(row.owner)

\* Of the calls, only an update writes the lease, and it writes the row's.
LEMMA CallsKeepLease ==
  ASSUME IInv, NEW c \in Caller,
         InstallStep(c) \/ UninstallStep(c) \/ CrashCall(c),
         row # Null, row.owner # Null
  PROVE  row'.owner = row.owner
<1>1. row \in TenantIntegration /\ copy[c] \in TenantIntegration
  BY DEF IInv, TypeOK
<1>2. ASSUME NEW status, WriteStatus(status)
      PROVE  row'.owner = row.owner
  BY <1>1, <1>2 DEF WriteStatus, TenantIntegration
<1>3. ASSUME NEW changed, Update(c, changed), changed.owner = copy[c].owner
      PROVE  row'.owner = row.owner
  BY <1>3 DEF Update, Conflict, IInv, CurrentKnowsLease
<1>4. CASE Find(c) \/ Create(c) \/ Reinstall(c)
  BY <1>1, <1>3, <1>4 DEF Find, Create, Reinstall, TenantIntegration
<1>5. CASE Configure(c) \/ Validate(c) \/ Probe(c) \/ Degrade(c)
  BY <1>2, <1>5 DEF Configure, Validate, Probe, Degrade, Transition
<1>6. CASE Unwant(c) \/ StartOver(c) \/ CrashCall(c)
  BY <1>1, <1>3, <1>6 DEF Unwant, StartOver, CrashCall, TenantIntegration
<1>7. CASE Mark(c) \/ Dispose(c) \/ Close(c) \/ FailCleanup(c)
  BY <1>2, <1>7 DEF Mark, Dispose, Close, FailCleanup
<1> QED BY <1>4, <1>5, <1>6, <1>7 DEF InstallStep, UninstallStep

LEMMA LeaseStep ==
  ASSUME IInv, [Next]_vars
  PROVE  KeptOrEnded
<1> SUFFICES ASSUME row # Null, row.owner # Null, row'.owner # row.owner
             PROVE  row.lease < -HealthCheckInterval \/ Stop(row.owner)
  BY DEF KeptOrEnded
<1>1. row \in TenantIntegration
  BY DEF IInv, TypeOK
<1>2. ASSUME NEW p \in Poll, ClaimDueReconciliations(p)
      PROVE  row.lease < -HealthCheckInterval
  BY <1>2 DEF ClaimDueReconciliations, Due, LeaseLapsed, IInv, LeasesHaveEnd, WellLeased
<1>3. ASSUME NEW p \in Poll, ItemStep(p)
      PROVE  FALSE
  <2>1. ASSUME NEW status, WriteStatus(status)
        PROVE  row'.owner = row.owner
    BY <1>1, <2>1 DEF WriteStatus, TenantIntegration
  <2>2. CASE ConfigureClaimed(p) \/ ResolveClaimed(p) \/ ProbeClaimed(p)
    BY <2>1, <2>2 DEF ConfigureClaimed, ResolveClaimed, ProbeClaimed, Throws
  <2>3. CASE DegradeClaimed(p) \/ MarkClaimed(p) \/ CloseClaimed(p) \/ FailClaimed(p)
    BY <2>1, <2>3 DEF DegradeClaimed, MarkClaimed, CloseClaimed, FailClaimed, Throws
  <2>4. CASE RecoverClaimed(p) \/ FinalizeUninstall(p) \/ PerformHealthCheck(p)
    BY <2>1, <2>4 DEF RecoverClaimed, FinalizeUninstall, PerformHealthCheck, Throws
  <2> QED BY <1>3, <2>2, <2>3, <2>4 DEF ItemStep
<1>4. ASSUME NEW w \in Worker, WorkerStep(w)
      PROVE  Stop(row.owner)
  <2>1. CASE Stop(w)
    BY <2>1 DEF Stop
  <2>2. CASE RenewLeases(w)
    BY <1>1, <2>2 DEF RenewLeases, TenantIntegration
  <2>3. CASE Start(w) \/ Crash(w)
    BY <2>3 DEF Start, Crash
  <2> QED BY <1>4, <2>1, <2>2, <2>3 DEF WorkerStep
<1>5. CASE Tick
  BY <1>1, <1>5, OlderIsARow DEF Tick
<1>6. CASE Load
  BY <1>6 DEF Load
<1>7. CASE UNCHANGED vars
  BY <1>7 DEF vars
<1> QED BY <1>2, <1>3, <1>4, <1>5, <1>6, <1>7, CallsKeepLease DEF Next

\* A lease ends with its time, long after it, or by the hand of its worker: no
\* install or uninstall wipes it out with a row it read before.
THEOREM LeasesAreKept == Spec => LeaseIsKept
<1>1. IInv /\ [Next]_vars =>
        [ ( row # Null /\ row.owner # Null /\ row'.owner # row.owner )
            => row.lease < -HealthCheckInterval \/ Stop(row.owner) ]_vars
  BY LeaseStep DEF KeptOrEnded
<1> QED BY <1>1, InductiveInvariant, PTL DEF Spec, LeaseIsKept

=============================================================================
