------------------------ MODULE IntegrationLifecycle ------------------------
(***************************************************************************)
(* The life of one tenant's integration in packages/integration-runtime:   *)
(* calls of install and uninstall, and the reconciliation workers, write   *)
(* to one row of tenant_integrations; an uninstall also disposes the       *)
(* plugin in the runtime kernel (see RuntimeKernel).                       *)
(*                                                                         *)
(* One row is enough: a worker's rows only share the batch they were       *)
(* claimed in, and nothing is written when a batch ends.                   *)
(*                                                                         *)
(* config_version only goes up and is only compared for equality, so it is *)
(* kept as the set of calls whose copy of the row has the row's version.   *)
(* Two columns hold a time: `lease` is the time left until lease_until     *)
(* (negative after it), `checked` the time since last_health_check_at;     *)
(* both stop where the comparisons of the code no longer change.           *)
(*                                                                         *)
(* An operator no other definition uses, placed before the definition it   *)
(* varies, is a slip the code could have made; README.md lists them.       *)
(***************************************************************************)
EXTENDS Integers

CONSTANTS
    Caller,              \* calls of install and uninstall
    Task,                \* which of the two a call is
    HasCredential,       \* whether an install brings a credentialRef
    Worker,              \* worker objects (worker ids)
    Poll,                \* poll cycles that can be under way
    Owner,               \* the worker each poll belongs to
    Null,                \* SQL NULL, undefined
    StartRow,            \* the rows there can be at the start, or Null
    LeaseDuration,       \* config.leaseDurationMs
    HealthCheckInterval, \* config.healthCheckIntervalMs
    DisposeRetries,      \* maxRetries of the uninstaller
    Faults               \* subset of {"crash", "db", "trace", "plugin"}

IntegrationStatus == { "discovered", "configuring", "validating", "active",
                       "degraded", "suspended", "uninstalling", "inactive" }

ASSUME LifecycleAssumption ==
    /\ Task \in [Caller -> {"install", "uninstall"}]
    /\ HasCredential \in [Caller -> BOOLEAN]
    /\ Owner \in [Poll -> Worker]
    /\ Null \notin Int /\ Null \notin Worker
    /\ LeaseDuration \in Nat \ {0} /\ HealthCheckInterval \in Nat
    /\ DisposeRetries \in Nat

LeaseTime == -(HealthCheckInterval + 1) .. LeaseDuration
CheckAge  == 0 .. HealthCheckInterval + 1

\* TenantIntegration, with what the properties tell apart.
TenantIntegration ==
    [ desired    : {"active", "inactive"},
      actual     : IntegrationStatus,
      credential : BOOLEAN,                    \* credentialRef is set
      checked    : CheckAge,                   \* never: as if long ago
      owner      : Worker \cup {Null},
      lease      : LeaseTime \cup {Null} ]

NoRow == [ desired |-> "inactive", actual |-> "discovered", credential |-> FALSE,
           checked |-> HealthCheckInterval + 1, owner |-> Null, lease |-> Null ]

\* A claim writes the owner and the end of a lease, a release clears both.
ASSUME StartAssumption ==
    /\ Null \notin TenantIntegration
    /\ \A r \in StartRow \ {Null} :
          r \in TenantIntegration /\ (r.owner = Null <=> r.lease = Null)

VARIABLES
    row,          \* the row, Null while there is none
    \* a call's memory
    pc,           \* the await it is at, or how it ended
    copy,         \* the row it found, until it has been updated
    current,      \* calls whose copy has the row's config_version
    failed,       \* attempts at dispose that threw
    \* a worker's memory
    alive,        \* its process runs
    running,      \* this.running
    \* a poll's memory
    stage,        \* how far the claimed integration is
    keyed,        \* the claimed row has a credentialRef
    loaded        \* the runtime kernel has an entry for the plugin

calls   == << pc, copy, current, failed >>
memory  == << alive, running >>
polls   == << stage, keyed >>
vars    == << row, calls, memory, polls, loaded >>

Installing   == { "configuring", "validating", "probing", "degrading" }
Uninstalling == { "marking", "disposing", "closing", "failing" }
CallState == { "idle", "found", "done", "failed" } \cup Installing \cup Uninstalling
Work  == { "configure", "resolve", "probe", "degrade", "mark", "close", "fail",
           "recover", "finalize", "check" }

TypeOK ==
    /\ row \in TenantIntegration \cup {Null}
    /\ pc \in [Caller -> CallState]
    /\ copy \in [Caller -> TenantIntegration]
    /\ current \subseteq Caller
    /\ failed \in [Caller -> 0 .. DisposeRetries]
    /\ alive \in [Worker -> BOOLEAN]
    /\ running \in [Worker -> BOOLEAN]
    /\ stage \in [Poll -> Work \cup {"none"}]
    /\ keyed \in [Poll -> BOOLEAN]
    /\ loaded \in BOOLEAN

Init ==
    /\ row \in StartRow
    /\ pc = [c \in Caller |-> "idle"]
    /\ copy = [c \in Caller |-> NoRow]
    /\ current = {}
    /\ failed = [c \in Caller |-> 0]
    /\ alive = [w \in Worker |-> TRUE]
    /\ running = [w \in Worker |-> FALSE]
    /\ stage = [p \in Poll |-> "none"]
    /\ keyed = [p \in Poll |-> FALSE]
    /\ loaded = (row # Null)

-----------------------------------------------------------------------------
(* The repository.                                                          *)

\* updateActualStatus: by id alone, the version stays what it is.
WriteStatus(status) == row' = [row EXCEPT !.actual = status, !.checked = 0]

ConflictUnseen(c) == FALSE

\* update: another write has raised the version since the call read the row.
Conflict(c) == c \notin current

\* update writes every column of the caller's copy, its status and its lease
\* included, and raises the version.
Update(c, changed) ==
    /\ ~Conflict(c)
    /\ row' = changed
    /\ current' = {}
    /\ copy' = [copy EXCEPT ![c] = NoRow]

-----------------------------------------------------------------------------
(* install.                                                                 *)

Forget(c) == current' = current \ {c} /\ copy' = [copy EXCEPT ![c] = NoRow]

Goto(c, next) == pc' = [pc EXCEPT ![c] = next]

NoOp(c) ==
    Task[c] = "uninstall" /\ row.desired = "inactive" /\ row.actual = "inactive"

\* getByTenantAndPlugin.
Find(c) ==
    /\ pc[c] = "idle"
    /\ IF row = Null
       THEN /\ Goto(c, IF Task[c] = "install" THEN "found" ELSE "failed")
            /\ UNCHANGED << copy, current >>
       ELSE \/ /\ NoOp(c)
               /\ Goto(c, "done")
               /\ UNCHANGED << copy, current >>
            \/ /\ ~NoOp(c)
               /\ Goto(c, "found")
               /\ copy' = [copy EXCEPT ![c] = row]
               /\ current' = current \cup {c}
    /\ UNCHANGED << row, failed, memory, polls, loaded >>

Found(c, task) == pc[c] = "found" /\ Task[c] = task

\* No row was found: create, unless somebody else has by now.
Create(c) ==
    /\ Found(c, "install") /\ c \notin current /\ copy[c] = NoRow
    /\ \/ /\ row = Null
          /\ row' = [NoRow EXCEPT !.credential = HasCredential[c]]
          /\ Goto(c, "configuring")
       \/ /\ row # Null
          /\ Goto(c, "failed")
          /\ UNCHANGED row
    /\ UNCHANGED << copy, current, failed, memory, polls, loaded >>

\* A row was found: its desired status becomes active, if it is not so yet.
Reinstall(c) ==
    /\ Found(c, "install") /\ copy[c] # NoRow
    /\ \/ /\ copy[c].desired = "active"
          /\ Forget(c) /\ Goto(c, "configuring")
          /\ UNCHANGED row
       \/ /\ copy[c].desired = "inactive"
          /\ Update(c, [copy[c] EXCEPT !.desired = "active",
                                       !.credential = HasCredential[c]])
          /\ Goto(c, "configuring")
       \/ /\ copy[c].desired = "inactive" /\ Conflict(c)
          /\ Forget(c) /\ Goto(c, "failed")
          /\ UNCHANGED row
    /\ UNCHANGED << failed, memory, polls, loaded >>

Transition(c, from, status, next) ==
    /\ pc[c] = from
    /\ \/ WriteStatus(status) /\ Goto(c, next)
       \/ "db" \in Faults /\ Goto(c, "degrading") /\ UNCHANGED row

Configure(c) ==
    /\ Transition(c, "configuring", "configuring", "validating")
    /\ UNCHANGED << copy, current, failed, memory, polls, loaded >>

Validate(c) ==
    /\ Transition(c, "validating", "validating", "probing")
    /\ UNCHANGED << copy, current, failed, memory, polls, loaded >>

\* The credentials and the health check, skipped without a credentialRef;
\* then the integration is active.
Probe(c) ==
    /\ \/ Transition(c, "probing", "active", "done")
       \/ /\ pc[c] = "probing"
          /\ row.credential \/ "trace" \in Faults
          /\ Goto(c, "degrading")
          /\ UNCHANGED row
    /\ UNCHANGED << copy, current, failed, memory, polls, loaded >>

\* The catch of validateAndActivate.
Degrade(c) ==
    /\ pc[c] = "degrading"
    /\ \/ WriteStatus("degraded")
       \/ "db" \in Faults /\ UNCHANGED row
    /\ Goto(c, "failed")
    /\ UNCHANGED << copy, current, failed, memory, polls, loaded >>

-----------------------------------------------------------------------------
(* uninstall.                                                               *)

\* The desired status becomes inactive; when the update fails, for whatever
\* reason, uninstall starts over.
Unwant(c) ==
    /\ Found(c, "uninstall")
    /\ Update(c, [copy[c] EXCEPT !.desired = "inactive"])
    /\ Goto(c, "marking")
    /\ UNCHANGED << failed, memory, polls, loaded >>

StartOverUnread(c) ==
    /\ Found(c, "uninstall") /\ Conflict(c)
    /\ UNCHANGED vars

StartOver(c) ==
    /\ Found(c, "uninstall")
    /\ Conflict(c) \/ "db" \in Faults
    /\ Forget(c) /\ Goto(c, "idle")
    /\ UNCHANGED << row, failed, memory, polls, loaded >>

Mark(c) ==
    /\ pc[c] = "marking"
    /\ \/ WriteStatus("uninstalling") /\ Goto(c, "disposing")
       \/ "db" \in Faults /\ Goto(c, "failed") /\ UNCHANGED row
    /\ UNCHANGED << copy, current, failed, memory, polls, loaded >>

DisposeOnceMore(c) ==
    /\ pc[c] = "disposing"
    /\ loaded' = FALSE
    /\ \/ /\ failed' = [failed EXCEPT ![c] = 0]
          /\ Goto(c, "closing") \/ ("trace" \in Faults /\ Goto(c, "failing"))
       \/ /\ loaded /\ "plugin" \in Faults
          /\ \/ /\ failed[c] <= DisposeRetries
                /\ failed' = [failed EXCEPT ![c] = failed[c] + 1]
                /\ UNCHANGED pc
             \/ /\ failed[c] = DisposeRetries
                /\ failed' = [failed EXCEPT ![c] = 0]
                /\ Goto(c, "failing")
    /\ UNCHANGED << row, copy, current, memory, polls >>

\* One attempt at kernel.dispose.  The kernel forgets the plugin also when the
\* plugin throws; an attempt that finds nothing loaded succeeds, so the one
\* after a throw does unless the plugin has been loaded again.
Dispose(c) ==
    /\ pc[c] = "disposing"
    /\ loaded' = FALSE
    /\ \/ /\ failed' = [failed EXCEPT ![c] = 0]
          /\ Goto(c, "closing") \/ ("trace" \in Faults /\ Goto(c, "failing"))
       \/ /\ loaded /\ "plugin" \in Faults
          /\ \/ /\ failed[c] < DisposeRetries
                /\ failed' = [failed EXCEPT ![c] = failed[c] + 1]
                /\ UNCHANGED pc
             \/ /\ failed[c] = DisposeRetries
                /\ failed' = [failed EXCEPT ![c] = 0]
                /\ Goto(c, "failing")
    /\ UNCHANGED << row, copy, current, memory, polls >>

\* verifyCleanup only adds a warning: the integration is inactive.
Close(c) ==
    /\ pc[c] = "closing"
    /\ \/ WriteStatus("inactive") /\ Goto(c, "done")
       \/ "db" \in Faults /\ Goto(c, "failed") /\ UNCHANGED row
    /\ UNCHANGED << copy, current, failed, memory, polls, loaded >>

FailCleanup(c) ==
    /\ pc[c] = "failing"
    /\ \/ WriteStatus("uninstalling")
       \/ "db" \in Faults /\ UNCHANGED row
    /\ Goto(c, "failed")
    /\ UNCHANGED << copy, current, failed, memory, polls, loaded >>

\* loader.load, called by the process that hosts the plugins: neither install
\* nor a worker loads anything.
Load ==
    /\ row # Null /\ ~loaded
    /\ loaded' = TRUE
    /\ UNCHANGED << row, calls, memory, polls >>

-----------------------------------------------------------------------------
(* The worker: its timers and its claim.                                    *)

Start(w) ==
    /\ alive[w] /\ ~running[w]
    /\ running' = [running EXCEPT ![w] = TRUE]
    /\ UNCHANGED << row, calls, alive, polls, loaded >>

\* stop() clears the timers and releases the leases (releaseAllLeases), which
\* leaves the version alone.  A poll under way is not awaited and runs on.
Stop(w) ==
    /\ alive[w] /\ running[w]
    /\ running' = [running EXCEPT ![w] = FALSE]
    /\ row' = IF row # Null /\ row.owner = w
              THEN [row EXCEPT !.owner = Null, !.lease = Null] ELSE row
    /\ UNCHANGED << calls, alive, polls, loaded >>

\* renewLeases, on an interval: a lease that still holds, whether or not its
\* batch is still under way.
RenewLeases(w) ==
    /\ alive[w] /\ running[w]
    /\ row # Null /\ row.owner = w /\ row.lease > 0
    /\ row' = [row EXCEPT !.lease = LeaseDuration]
    /\ current' = {}
    /\ UNCHANGED << pc, copy, failed, memory, polls, loaded >>

\* `lease_until < $1`, where $1 is the cutoff of the health checks, not now.
LeaseLapsed == row.lease # Null /\ row.lease < -HealthCheckInterval

CheckOverdue(r) == r.checked > HealthCheckInterval


\* The WHERE clause of the claim query.
Due ==
    /\ \/ row.desired = "active" /\ row.actual # "active"
       \/ row.desired = "inactive" /\ row.actual = "active"
       \/ row.actual = "active" /\ CheckOverdue(row)
       \/ row.actual \in { "degraded", "suspended", "uninstalling" }
       \/ LeaseLapsed
    /\ row.lease = Null \/ LeaseLapsed

\* What processSingleReconciliation does with the row it was handed.
Route(r) ==
    CASE r.desired = "active" /\ r.actual # "active"   -> "configure"
      [] r.desired = "inactive" /\ r.actual = "active" -> "mark"
      [] r.desired = "inactive" /\ r.actual \in { "degraded", "suspended" } -> "recover"
      [] r.desired = "inactive" /\ r.actual = "uninstalling" -> "finalize"
      [] r.desired = "active" /\ r.actual = "active" /\ CheckOverdue(r) -> "check"
      [] OTHER -> "none"

\* The claim transaction; the version is raised, the status stays.
ClaimDueReconciliations(p) ==
    /\ alive[Owner[p]] /\ stage[p] = "none"
    /\ row # Null /\ Due
    /\ row' = [row EXCEPT !.owner = Owner[p], !.lease = LeaseDuration]
    /\ current' = {}
    /\ stage' = [stage EXCEPT ![p] = Route(row)]
    /\ keyed' = [keyed EXCEPT ![p] = Route(row) # "none" /\ row.credential]
    /\ UNCHANGED << pc, copy, failed, memory, loaded >>

-----------------------------------------------------------------------------
(* The worker: one claimed integration.                                     *)

\* The next step of the item; after the last one the poll is over.
Proceed(p, next) ==
    /\ stage' = [stage EXCEPT ![p] = next]
    /\ keyed' = [keyed EXCEPT ![p] = next # "none" /\ keyed[p]]

At(p, step) == alive[Owner[p]] /\ stage[p] = step

\* A write or a span throws outside of the catch of the step: the item ends as
\* RECONCILIATION_FAILED, and nothing is written.
Throws(p) ==
    /\ Faults \cap { "db", "trace" } # {}
    /\ Proceed(p, "none")
    /\ UNCHANGED row

\* activateIntegration.
ConfigureClaimed(p) ==
    /\ At(p, "configure")
    /\ \/ /\ WriteStatus("configuring")
          /\ Proceed(p, IF keyed[p] THEN "resolve" ELSE "degrade")
       \/ Throws(p)
       \/ Faults \cap { "db", "trace" } # {} /\ Proceed(p, "degrade") /\ UNCHANGED row
    /\ UNCHANGED << calls, memory, loaded >>

ResolveClaimed(p) ==
    /\ At(p, "resolve")
    /\ \/ WriteStatus("validating") /\ Proceed(p, "probe")
       \/ Proceed(p, "degrade") /\ UNCHANGED row
    /\ UNCHANGED << calls, memory, loaded >>

\* The spans after the write can throw, and then the catch degrades it again.
ProbeClaimed(p) ==
    /\ At(p, "probe")
    /\ \/ WriteStatus("active") /\ Proceed(p, "none")
       \/ "trace" \in Faults /\ WriteStatus("active") /\ Proceed(p, "degrade")
       \/ Proceed(p, "degrade") /\ UNCHANGED row
    /\ UNCHANGED << calls, memory, loaded >>

DegradeClaimed(p) ==
    /\ At(p, "degrade")
    /\ \/ WriteStatus("degraded") /\ Proceed(p, "none")
       \/ Throws(p)
    /\ UNCHANGED << calls, memory, loaded >>

\* deactivateIntegration, which does not call the kernel.
MarkClaimed(p) ==
    /\ At(p, "mark")
    /\ \/ WriteStatus("uninstalling") /\ Proceed(p, "close")
       \/ Throws(p)
       \/ "db" \in Faults /\ Proceed(p, "fail") /\ UNCHANGED row
    /\ UNCHANGED << calls, memory, loaded >>

CloseClaimed(p) ==
    /\ At(p, "close")
    /\ \/ WriteStatus("inactive") /\ Proceed(p, "none")
       \/ Faults \cap { "db", "trace" } # {} /\ Proceed(p, "fail") /\ UNCHANGED row
    /\ UNCHANGED << calls, memory, loaded >>

FailClaimed(p) ==
    /\ At(p, "fail")
    /\ \/ WriteStatus("uninstalling") /\ Proceed(p, "none")
       \/ Throws(p)
    /\ UNCHANGED << calls, memory, loaded >>

\* recoverIntegration.  The attempt count is the config version, so whether
\* the retries are used up is open.
RecoverClaimed(p) ==
    /\ At(p, "recover")
    /\ \/ /\ ~keyed[p]
          /\ WriteStatus("suspended")
       \/ /\ keyed[p]
          /\ \/ WriteStatus("active")
             \/ \E status \in { "suspended", "degraded" } : WriteStatus(status)
       \/ Throws(p)
    /\ Proceed(p, "none")
    /\ UNCHANGED << calls, memory, loaded >>

\* finalizeUninstall, which does not ask the kernel.
FinalizeUninstall(p) ==
    /\ At(p, "finalize")
    /\ WriteStatus("inactive") \/ Throws(p)
    /\ Proceed(p, "none")
    /\ UNCHANGED << calls, memory, loaded >>

PerformHealthCheck(p) ==
    /\ At(p, "check")
    /\ \/ keyed[p] /\ WriteStatus("active")
       \/ WriteStatus("degraded")
       \/ Throws(p)
    /\ Proceed(p, "none")
    /\ UNCHANGED << calls, memory, loaded >>

-----------------------------------------------------------------------------
(* The environment.                                                         *)

\* A worker's process dies with its polls.
Crash(w) ==
    /\ "crash" \in Faults
    /\ alive[w]
    /\ alive' = [alive EXCEPT ![w] = FALSE]
    /\ running' = [running EXCEPT ![w] = FALSE]
    /\ stage' = [p \in Poll |-> IF Owner[p] = w THEN "none" ELSE stage[p]]
    /\ keyed' = [p \in Poll |-> Owner[p] # w /\ keyed[p]]
    /\ UNCHANGED << row, calls, loaded >>

\* The process of a call dies; a call whose statements throw where nothing
\* catches it ends the same way.
CrashCall(c) ==
    /\ "crash" \in Faults
    /\ pc[c] \notin { "idle", "done", "failed" }
    /\ Forget(c) /\ Goto(c, "failed")
    /\ failed' = [failed EXCEPT ![c] = 0]
    /\ UNCHANGED << row, memory, polls, loaded >>

LeaseAge(t) == IF t # Null /\ t > -(HealthCheckInterval + 1) THEN t - 1 ELSE t
CheckedAge(t) == IF t <= HealthCheckInterval THEN t + 1 ELSE t
Older(r) == [r EXCEPT !.lease = LeaseAge(r.lease), !.checked = CheckedAge(r.checked)]

\* One unit of time passes, in the row and in what was read from it.
Tick ==
    /\ row' = IF row = Null THEN Null ELSE Older(row)
    /\ copy' = [c \in Caller |-> Older(copy[c])]
    /\ UNCHANGED << pc, current, failed, memory, polls, loaded >>

-----------------------------------------------------------------------------

InstallStep(c) ==
    Find(c) \/ Create(c) \/ Reinstall(c) \/ Configure(c) \/ Validate(c)
            \/ Probe(c) \/ Degrade(c)

UninstallStep(c) ==
    Unwant(c) \/ StartOver(c) \/ Mark(c) \/ Dispose(c) \/ Close(c) \/ FailCleanup(c)

ItemStep(p) ==
    \/ ConfigureClaimed(p) \/ ResolveClaimed(p) \/ ProbeClaimed(p) \/ DegradeClaimed(p)
    \/ MarkClaimed(p) \/ CloseClaimed(p) \/ FailClaimed(p)
    \/ RecoverClaimed(p) \/ FinalizeUninstall(p) \/ PerformHealthCheck(p)

WorkerStep(w) ==
    Start(w) \/ Stop(w) \/ RenewLeases(w) \/ Crash(w)

Next ==
    \/ \E c \in Caller : InstallStep(c) \/ UninstallStep(c) \/ CrashCall(c)
    \/ \E p \in Poll : ClaimDueReconciliations(p) \/ ItemStep(p)
    \/ \E w \in Worker : WorkerStep(w)
    \/ Load
    \/ Tick

Spec == Init /\ [][Next]_vars

\* A process that runs goes on with the calls it was given: of the two ways
\* the update of an uninstall can end, a failure cannot be the only one for
\* ever: the next renewal or claim is minutes away, and outages end.
Uninstalls == { c \in Caller : Task[c] = "uninstall" }

TimedPoll(p) == (running[Owner[p]] /\ ClaimDueReconciliations(p)) \/ ItemStep(p)

Fairness ==
    /\ \A c \in Uninstalls : WF_vars(Find(c) \/ UninstallStep(c)) /\ SF_vars(Unwant(c))
    /\ \A p \in Poll : WF_vars(TimedPoll(p))

FairSpec == Spec /\ Fairness

-----------------------------------------------------------------------------
(* What the lifecycle promises.                                             *)

\* A lease goes from one worker to another, or is wiped out, only long after
\* it has ended, or by its own worker: no update of a call that read the row
\* before the claim takes it away.
LeaseIsKept ==
    [][ ( row # Null /\ row.owner # Null /\ row'.owner # row.owner )
          => row.lease < -HealthCheckInterval \/ Stop(row.owner) ]_vars

\* Every uninstall ends, also when claims and renewals keep raising the
\* version of the row it is about to write.
UninstallEnds ==
    \A c \in Caller : Task[c] = "uninstall" => <>(pc[c] \in { "done", "failed" })

\* Nobody is at work on the row.
CallUnderWay == \E c \in Caller : pc[c] \notin { "idle", "done", "failed" }
Quiet == ~CallUnderWay /\ \A p \in Poll : stage[p] = "none"

\* An uninstall that was cut off after its first writes.
Leftover ==
    /\ row # Null /\ row.desired = "inactive"
    /\ row.actual \in { "active", "uninstalling" }
    /\ Quiet

Deactivated == row # Null /\ row.actual = "inactive"


=============================================================================
