---------------------------- MODULE AccessDecision ----------------------------
(***************************************************************************)
(* Deciding on an access request and fulfilling it: the orchestration of   *)
(* packages/access-service (createAccessRequest, decideAccessRequest with  *)
(* its per-request lock, fulfillRequest), the ApprovalService and its      *)
(* versioned in-memory store in packages/access-approval, and              *)
(* GitHubAccessExecutor.grant of packages/access-executor.                 *)
(*                                                                         *)
(* A Call is one invocation of decideAccessRequest, from a route of        *)
(* apps/api or a button of apps/slack; each app is a process with a store  *)
(* of its own.  Calls share one event loop: a call runs without            *)
(* interruption from one await to the next, and pc[c] names the await it   *)
(* is at.  The store returns the row object itself, which no one mutates,  *)
(* so what a call has read is a snapshot of the row.                       *)
(*                                                                         *)
(* An operator no other definition uses, placed before the definition it   *)
(* varies, is a slip the code could have made; README.md lists them.       *)
(***************************************************************************)
EXTENDS Integers, FiniteSets, AccessLifecycle

CONSTANTS
    Request,    \* ids of access requests
    Call,       \* invocations of decideAccessRequest
    Approver,   \* the people who decide
    Requester,  \* who asked for the access
    Manager,    \* MANAGER_MAP of the Slack app: the requester's manager
    Nobody,     \* approvedBy, deniedBy: undefined
    NoCall,     \* requestLocks has no entry
    Authority,  \* governance authorities requests are submitted to
    Faults      \* subset of {"audit", "provider"}

ASSUME DecisionAssumption ==
    /\ Nobody \notin Approver
    /\ Manager \in Approver
    /\ NoCall \notin Call

Decision == { "APPROVE", "DENY" }

VARIABLES
    row,        \* InMemoryApprovalStore.requests
    open,       \* the approval window (expiresAt) has not passed
    lock,       \* requestLocks: the call whose promise the map holds
    marked,     \* keys in the executor's idempotency store
    membership, \* the requester's team membership at GitHub
    pc,         \* the await a call is at
    args,       \* a call's requestId and decision
    waitsOn,    \* the call whose lock promise a waiting call awaits
    read,       \* the row a call has read, then the one it has written
    approved    \* status of the request approve() returned, to be fulfilled

callVars == << pc, args, waitsOn, read, approved >>
vars == << row, open, lock, marked, membership, callVars >>

Row == [status : AccessRequestStatus, version : Nat,
        approvedBy : Approver \cup {Nobody}, deniedBy : Approver \cup {Nobody},
        authority : Authority \cup {"local"}]

\* The request createAccessRequest builds.
NewRow == [status |-> "PENDING_APPROVAL", version |-> 0,
           approvedBy |-> Nobody, deniedBy |-> Nobody, authority |-> "local"]

\* What the handlers of the API and of Slack pass on.  The routes take the approver
\* from the body, the one to approve a denial too; a button does nothing for anybody
\* but the requester's manager, so that Slack's calls are among the API's.
ApproveRoute  == [request : Request, approver : Approver,  decision : Decision]
DenyRoute     == [request : Request, approver : Approver,  decision : {"DENY"}]
ApproveButton == [request : Request, approver : {Manager}, decision : {"APPROVE"}]
DenyButton    == [request : Request, approver : {Manager}, decision : {"DENY"}]
Args == ApproveRoute \cup DenyRoute \cup ApproveButton \cup DenyButton

Stage == { "idle", "waiting", "read", "audited", "current", "fulfilling",
           "preflight", "checking", "putting", "verifying", "succeeded",
           "failed", "leaving", "done" }

\* After the idempotency key is marked, up to the last provider call.
Granting == { "preflight", "checking", "putting", "verifying" }

TypeOK ==
    /\ DOMAIN row \subseteq Request
    /\ \A r \in DOMAIN row : row[r] \in Row
    /\ open \in [Request -> BOOLEAN]
    /\ lock \in [Request -> Call \cup {NoCall}]
    /\ marked \subseteq Request
    /\ membership \in [Request -> {"absent", "pending", "active"}]
    /\ pc \in [Call -> Stage]
    /\ args \in [Call -> Args]
    /\ waitsOn \in [Call -> Call \cup {NoCall}]
    /\ read \in [Call -> Row]
    /\ approved \in [Call -> { "APPROVED", "FULFILLING" }]

Init ==
    /\ row = [r \in {} |-> NewRow]
    /\ open = [r \in Request |-> TRUE]
    /\ lock = [r \in Request |-> NoCall]
    /\ marked = {}
    /\ membership = [r \in Request |-> "absent"]
    /\ pc = [c \in Call |-> "idle"]
    /\ args \in [Call -> Args]
    /\ waitsOn = [c \in Call |-> NoCall]
    /\ read = [c \in Call |-> NewRow]
    /\ approved = [c \in Call |-> "APPROVED"]

-----------------------------------------------------------------------------

target(c) == args[c].request
by(c) == args[c].approver

\* createAccessRequest, up to the store's create; a request that is governed
\* elsewhere is submitted to its authority before anyone here decides on it.
CreateAccessRequest(r) ==
    /\ r \notin DOMAIN row
    /\ \E a \in Authority \cup {"local"} :
         row' = [s \in DOMAIN row \cup {r} |->
                    IF s = r THEN [NewRow EXCEPT !.authority = a] ELSE row[s]]
    /\ UNCHANGED << open, lock, marked, membership, callVars >>

-----------------------------------------------------------------------------
(* withRequestLock.                                                         *)

\* What store.getById hands to a call that reads now.
RowFor(c) == row[target(c)]

\* The calls in C put their locks in the map, one after the other, and read the
\* row; the lock of the last one stays in the map.
Enter(C, r) ==
    /\ \E c \in C : lock' = [lock EXCEPT ![r] = c]
    /\ read' = [c \in Call |-> IF c \in C THEN RowFor(c) ELSE read[c]]

\* A call that finds no lock in the map goes on, another awaits the one there.
\* The request exists: its id came from createAccessRequest, and for an unknown
\* one approve() throws before it does anything.
DecideAccessRequest(c) ==
    /\ pc[c] = "idle" /\ target(c) \in DOMAIN row
    /\ \/ /\ lock[target(c)] = NoCall
          /\ Enter({c}, target(c))
          /\ pc' = [pc EXCEPT ![c] = "read"]
          /\ UNCHANGED waitsOn
       \/ /\ lock[target(c)] # NoCall
          /\ waitsOn' = [waitsOn EXCEPT ![c] = lock[target(c)]]
          /\ pc' = [pc EXCEPT ![c] = "waiting"]
          /\ UNCHANGED << lock, read >>
    /\ UNCHANGED << row, open, marked, membership, args, approved >>

Waiters(c) == { d \in Call : pc[d] = "waiting" /\ waitsOn[d] = c }

LeaveUnresolved(c) ==
    /\ pc[c] = "leaving"
    /\ pc' = [pc EXCEPT ![c] = "done"]
    /\ lock' = [lock EXCEPT ![target(c)] = NoCall]
    /\ UNCHANGED << row, open, marked, membership, args, waitsOn, read, approved >>

\* The finally of withRequestLock deletes the entry of the map, whosever it is
\* by now, and resolves the own promise.  Every call that awaited it goes on,
\* in one run of the microtask queue, without looking at the map again.
Leave(c) ==
    /\ pc[c] = "leaving"
    /\ pc' = [d \in Call |-> IF d = c THEN "done"
                             ELSE IF d \in Waiters(c) THEN "read" ELSE pc[d]]
    /\ \/ /\ Waiters(c) = {}
          /\ lock' = [lock EXCEPT ![target(c)] = NoCall]
          /\ UNCHANGED read
       \/ Waiters(c) # {} /\ Enter(Waiters(c), target(c))
    /\ UNCHANGED << row, open, marked, membership, args, waitsOn, approved >>

-----------------------------------------------------------------------------
(* ApprovalService.approve, which serves denials too.                       *)

Goto(c, stage) == pc' = [pc EXCEPT ![c] = stage]

WriteUnchecked(c, new, next) ==
    /\ row' = [row EXCEPT ![target(c)] = new]
    /\ read' = [read EXCEPT ![c] = new]
    /\ Goto(c, next)

\* store.update with an expected version; a conflict throws out of the call.
Write(c, new, next) ==
    IF row[target(c)].version = read[c].version
    THEN /\ row' = [row EXCEPT ![target(c)] = new]
         /\ read' = [read EXCEPT ![c] = new]
         /\ Goto(c, next)
    ELSE /\ Goto(c, "leaving")
         /\ UNCHANGED << row, read >>

Moved(c, status) == [read[c] EXCEPT !.status = status, !.version = @ + 1]

Quiet == UNCHANGED << open, lock, marked, membership, args, waitsOn >>

\* The window has passed.  Whoever asks and whatever was decided, the request
\* is cancelled if the table allows it.
Expires(c) ==
    /\ ~open[target(c)]
    /\ CanTransition(read[c].status, "CANCELLED")

AdmittedAnyone(c) ==
    open[target(c)] /\ read[c].authority = "local"

\* The checks a decision passes before the row's status is looked at.
Admitted(c) ==
    /\ open[target(c)]
    /\ by(c) # Requester
    /\ read[c].authority = "local"

RepeatsAny(c) ==
    /\ Admitted(c)
    /\ read[c].status \in { "APPROVED", "FULFILLED" }
    /\ read[c].approvedBy = by(c)

\* Any decision, by the approver, on a request that is APPROVED.
Repeats(c) ==
    /\ Admitted(c)
    /\ read[c].status = "APPROVED"
    /\ read[c].approvedBy = by(c)

Retries(c) ==
    /\ Admitted(c)
    /\ read[c].status = "FAILED"
    /\ args[c].decision = "APPROVE"

\* Statuses that approve() answers one by one before it consults the table.
Handled == { "APPROVED", "FAILED", "DENIED", "FULFILLED" }

Approves(c) ==
    /\ Admitted(c)
    /\ read[c].status \notin Handled
    /\ args[c].decision = "APPROVE"
    /\ CanTransition(read[c].status, "APPROVED")

Denies(c) ==
    /\ Admitted(c)
    /\ read[c].status \notin Handled
    /\ args[c].decision = "DENY"
    /\ CanTransition(read[c].status, "DENIED")

CancelExpired(c) ==
    /\ pc[c] = "read" /\ Expires(c)
    /\ Write(c, Moved(c, "CANCELLED"), "leaving")
    /\ UNCHANGED approved /\ Quiet

RepeatApproval(c) ==
    /\ pc[c] = "read" /\ Repeats(c)
    /\ approved' = [approved EXCEPT ![c] = read[c].status]
    /\ Goto(c, "audited")
    /\ UNCHANGED << row, read >> /\ Quiet

RetryFailed(c) ==
    /\ pc[c] = "read" /\ Retries(c)
    /\ approved' = [approved EXCEPT ![c] = "FULFILLING"]
    /\ Write(c, Moved(c, "FULFILLING"), "audited")
    /\ Quiet

Approve(c) ==
    /\ pc[c] = "read" /\ Approves(c)
    /\ approved' = [approved EXCEPT ![c] = "APPROVED"]
    /\ Write(c, [Moved(c, "APPROVED") EXCEPT !.approvedBy = by(c)], "audited")
    /\ Quiet

Deny(c) ==
    /\ pc[c] = "read" /\ Denies(c)
    /\ Write(c, [Moved(c, "DENIED") EXCEPT !.deniedBy = by(c)], "leaving")
    /\ UNCHANGED approved /\ Quiet

\* Every other decision changes nothing: it throws, or, for a repeated approval
\* of a FULFILLED request, returns the row.
Answer(c) ==
    /\ pc[c] = "read"
    /\ ~(Expires(c) \/ Repeats(c) \/ Retries(c) \/ Approves(c) \/ Denies(c))
    /\ Goto(c, "leaving")
    /\ UNCHANGED << row, read, approved >> /\ Quiet

\* The audit event that follows a decision is recorded, or its store throws.
\* After it fulfillRequest reads the row again.
Fulfill(c) ==
    /\ pc[c] = "audited"
    /\ \/ /\ read' = [read EXCEPT ![c] = RowFor(c)]
          /\ Goto(c, "current")
       \/ "audit" \in Faults /\ Goto(c, "leaving") /\ UNCHANGED read
    /\ UNCHANGED << row, approved >> /\ Quiet

-----------------------------------------------------------------------------
(* fulfillRequest.                                                          *)

\* A row that is FULFILLING is taken over as it is, another is moved there.
StartFulfillment(c) ==
    /\ pc[c] = "current"
    /\ \/ /\ read[c].status = "FULFILLING"
          /\ Goto(c, "fulfilling") /\ UNCHANGED << row, read >>
       \/ /\ read[c].status # "FULFILLING"
          /\ CanTransition(read[c].status, "FULFILLING")
          /\ Write(c, Moved(c, "FULFILLING"),
                   IF approved[c] = "APPROVED" THEN "fulfilling" ELSE "leaving")
       \/ /\ ~CanTransition(read[c].status, "FULFILLING")
          /\ read[c].status # "FULFILLING"
          /\ Goto(c, "leaving") /\ UNCHANGED << row, read >>
    /\ UNCHANGED approved /\ Quiet

GrantUnmarked(c) ==
    /\ pc[c] = "fulfilling"
    /\ Goto(c, "preflight")
    /\ marked' = marked \cup {target(c)}
    /\ UNCHANGED << row, open, lock, membership, args, waitsOn, read, approved >>

\* grant(): checkAndMark.  A key that is known counts as access granted.
Grant(c) ==
    /\ pc[c] = "fulfilling"
    /\ \/ Goto(c, IF target(c) \in marked THEN "succeeded" ELSE "preflight")
       \/ "audit" \in Faults /\ Goto(c, "leaving")
    /\ marked' = marked \cup {target(c)}
    /\ UNCHANGED << row, open, lock, membership, args, waitsOn, read, approved >>

\* The catch of grant(), for a provider call or an audit append that throws; the
\* audit append of its own can throw in turn.
GrantFails(c) ==
    /\ Faults # {}
    /\ Goto(c, "failed") \/ ("audit" \in Faults /\ Goto(c, "leaving"))

\* preflightChecks(): allow-list, verified identity and the GET of the app's
\* installation.  Each of them throws or lets the grant go on.
PreflightChecks(c) ==
    /\ pc[c] = "preflight"
    /\ Goto(c, "checking") \/ GrantFails(c)
    /\ UNCHANGED << row, read, approved >> /\ Quiet

\* getTeamMembership: a 404 is no error but a user who is not a member.
IsMember(c) == membership[target(c)] # "absent"

\* The first GET.
CheckMembership(c) ==
    /\ pc[c] = "checking"
    /\ \/ IsMember(c) /\ Goto(c, "succeeded")
       \/ ~IsMember(c) /\ Goto(c, "putting")
       \/ GrantFails(c)
    /\ UNCHANGED << row, read, approved >> /\ Quiet

\* The PUT.  It adds the member or invites the user, with or without its reply
\* arriving, or it is refused.
PutMembership(c) ==
    /\ pc[c] = "putting"
    /\ \/ \E state \in { "active", "pending" } :
             /\ membership' = [membership EXCEPT ![target(c)] = state]
             /\ Goto(c, "verifying") \/ GrantFails(c)
       \/ GrantFails(c) /\ UNCHANGED membership
    /\ UNCHANGED << row, open, lock, marked, args, waitsOn, read, approved >>

\* The second GET.  A pending invitation is a success with a status of its own,
\* AWAITING_EXTERNAL_ACCEPTANCE, which fulfillRequest does not look at.
VerifyMembership(c) ==
    /\ pc[c] = "verifying"
    /\ \/ IsMember(c) /\ Goto(c, "succeeded")
       \/ GrantFails(c)
    /\ UNCHANGED << row, read, approved >> /\ Quiet

FinishSucceeded(c) ==
    /\ pc[c] \in { "succeeded", "failed" }
    /\ IF pc[c] = "succeeded"
       THEN Write(c, [read[c] EXCEPT !.status = "FULFILLED"], "leaving")
       ELSE Goto(c, "leaving") /\ UNCHANGED << row, read >>
    /\ UNCHANGED approved /\ Quiet

\* The outcome goes into the row, whose version it keeps.
Finish(c) ==
    /\ pc[c] \in { "succeeded", "failed" }
    /\ Write(c, [read[c] EXCEPT !.status =
                   IF pc[c] = "succeeded" THEN "FULFILLED" ELSE "FAILED"], "leaving")
    /\ UNCHANGED approved /\ Quiet

-----------------------------------------------------------------------------
(* The environment.                                                         *)

\* expiresAt passes.
CloseWindow(r) ==
    /\ r \in DOMAIN row /\ open[r]
    /\ open' = [open EXCEPT ![r] = FALSE]
    /\ UNCHANGED << row, lock, marked, membership, callVars >>

\* The invited user accepts the team invitation.
AcceptInvitation(r) ==
    /\ membership[r] = "pending"
    /\ membership' = [membership EXCEPT ![r] = "active"]
    /\ UNCHANGED << row, open, lock, marked, callVars >>

-----------------------------------------------------------------------------

\* What a call does once it is under way.
Step(c) ==
    \/ CancelExpired(c) \/ RepeatApproval(c) \/ RetryFailed(c)
    \/ Approve(c) \/ Deny(c) \/ Answer(c)
    \/ Fulfill(c) \/ StartFulfillment(c) \/ Grant(c)
    \/ PreflightChecks(c) \/ CheckMembership(c) \/ PutMembership(c) \/ VerifyMembership(c)
    \/ Finish(c) \/ Leave(c)

Next ==
    \/ \E r \in Request : CreateAccessRequest(r) \/ CloseWindow(r) \/ AcceptInvitation(r)
    \/ \E c \in Call : DecideAccessRequest(c) \/ Step(c)

Spec == Init /\ [][Next]_vars

\* The event loop resumes every call whose await is over.
Fairness == \A c \in Call : WF_vars(Step(c))

FairSpec == Spec /\ Fairness

-----------------------------------------------------------------------------
(* What deciding promises.                                                  *)

\* Whoever overlaps with whom, one call at a time at most is between marking
\* the idempotency key and its last provider call: one grant per request.
SingleGrant ==
    \A c, d \in Call :
        /\ pc[c] \in Granting /\ pc[d] \in Granting
        /\ target(c) = target(d)
        => c = d

\* A denied request is never granted, through a decision that raced with the
\* denial, a retry or a stale write.  (CASE 3 of acceptance.test.ts.)
DeniedNeverGranted ==
    \A r \in DOMAIN row : row[r].status = "DENIED" => membership[r] = "absent"

\* Membership is given only to a request that is decided here, that somebody
\* other than its requester has approved, and that nobody has denied.
GrantNeedsApproval ==
    \A r \in Request :
        membership[r] # "absent" =>
            /\ r \in DOMAIN row
            /\ row[r].authority = "local"
            /\ row[r].approvedBy \notin { Nobody, Requester }
            /\ row[r].deniedBy = Nobody

\* Who approved or denied a request is never lost or replaced, although each
\* write replaces the whole row by a copy of what the call read before.
DecisionIsFinal ==
    [][ \A r \in DOMAIN row :
          /\ row[r].approvedBy # Nobody => row'[r].approvedBy = row[r].approvedBy
          /\ row[r].deniedBy # Nobody => row'[r].deniedBy = row[r].deniedBy ]_vars

\* A cancelled request stays cancelled and a denied one never comes back, even
\* for a call that read it before and is still fulfilling it.
ClosedStaysClosed ==
    [][ \A r \in DOMAIN row :
          /\ row[r].status = "CANCELLED" => row'[r].status = "CANCELLED"
          /\ row[r].status = "DENIED" => row'[r].status \in { "DENIED", "CANCELLED" } ]_vars

\* Every call comes back: no lock is left that a call waits for.
EveryCallEnds == \A c \in Call : pc[c] # "idle" ~> pc[c] = "done"

\* A request does not stay FULFILLING.
HasStatus(r, status) == r \in DOMAIN row /\ row[r].status = status
FulfillingIsResolved ==
    \A r \in Request : HasStatus(r, "FULFILLING") ~> ~HasStatus(r, "FULFILLING")

-----------------------------------------------------------------------------
(* The abstract specification these calls implement.                        *)

\* How far the row of a request is decided, and by whom.
VerdictOf(x) ==
    IF x.approvedBy # Nobody THEN "approved"
    ELSE IF x.deniedBy # Nobody THEN "denied"
    ELSE IF x.authority = "local" THEN "open" ELSE "elsewhere"

DeciderOf(x) == IF x.approvedBy # Nobody THEN x.approvedBy ELSE x.deniedBy

Verdict == [r \in Request |-> IF r \in DOMAIN row THEN VerdictOf(row[r]) ELSE "none"]
Decider == [r \in Request |-> IF r \in DOMAIN row THEN DeciderOf(row[r]) ELSE Nobody]
Closed == { r \in DOMAIN row : row[r].status = "CANCELLED" }

Access == INSTANCE AccessGrant
    WITH verdict <- Verdict, decider <- Decider, closed <- Closed, begun <- marked

\* Overlapping calls, each with a copy of the row and provider calls of its own,
\* decide a request once, begin its grant once, and only while it is not
\* cancelled, and put the requester into the team once.
ImplementsGrant == Access!GrantSpec

=============================================================================
