-------------------------- MODULE GovernedRequests --------------------------
(***************************************************************************)
(* The governance service and the in-process reconciler of                 *)
(* packages/access-governance, over the in-memory approval store.          *)
(*                                                                         *)
(* The store hands out the very objects it keeps, and an update without an *)
(* expected version replaces whatever is stored by the object it is given. *)
(* A call that holds an object over an await therefore shares it with the  *)
(* other calls, or, when somebody has stored a copy since, writes back an  *)
(* old one.  Objects of the request are kept on a small heap.              *)
(*                                                                         *)
(* One request is enough: requests share only the audit store.  The backoff *)
(* a scan leaves behind is left out, because no scan reads it.  The request *)
(* is under its authority from its creation, so that ApprovalService never *)
(* decides it; it cancels it all the same when its window has passed.      *)
(*                                                                         *)
(* An operator no other definition uses, placed before the definition it   *)
(* varies, is a slip the code could have made; README.md lists them.       *)
(***************************************************************************)
EXTENDS AccessLifecycle, GovernanceProviders

CONSTANTS
    Call,            \* calls of the service and scans of the reconciler
    Ticket,          \* requests that can be made at the authority
    Object,          \* objects of the request
    Null,
    Start,           \* requests it can be: status at creation, provider, duration owner
    Faults           \* subset of {"outage", "audit", "revocation"}

ASSUME GovernedAssumption ==
    /\ Start \subseteq
          [ status : { "PENDING_APPROVAL", "AWAITING_AUTHORITY_DECISION" },
            provider : { "entra", "okta" }, owner : { "opnory", "authority" } ]
    /\ Object # {} /\ Null \notin Ticket /\ Null \notin Object

VARIABLES
    stored,     \* the object the store keeps for the request
    object,     \* the contents of the objects
    sent,       \* tickets the authority has received
    portal,     \* its decision on each
    task,       \* what a call is doing, or "none"
    at,         \* the await it is at
    held,       \* the object it holds
    asked,      \* the ticket it has asked about, or been given
    expired,    \* the request's approval window has passed
    unanswered, \* history: an object was stored for want of an answer
    resubmitted \* history: it was submitted while it had a ticket, or was being submitted

authority == << sent, portal >>
callVars  == << task, at, held, asked >>
store     == << stored, object >>
history   == << unanswered, resubmitted >>
vars      == << store, authority, callVars, expired, history >>

AccessRequest ==
    [ status : AccessRequestStatus, ticket : Ticket \cup {Null}, assigned : BOOLEAN,
      provider : { "entra", "okta" }, owner : { "opnory", "authority" } ]

Blank == [ status |-> "PENDING_APPROVAL", ticket |-> Null, assigned |-> FALSE,
           provider |-> "entra", owner |-> "opnory" ]

Decided == { "APPROVED", "DENIED", "CANCELLED" }
Scan == { "pending", "assignments", "revocations" }
Task == Scan \cup { "none", "submit", "reconcile" }
Step == { "idle", "resolving", "submitting", "misnamed", "submitted",
          "listed", "asking", "drift", "corrected" }

TypeOK ==
    /\ stored \in Object
    /\ object \in [Object -> AccessRequest]
    /\ sent \subseteq Ticket
    /\ portal \in [Ticket -> PortalState]
    /\ task \in [Call -> Task]
    /\ at \in [Call -> Step]
    /\ held \in [Call -> Object \cup {Null}]
    /\ asked \in [Call -> Ticket \cup {Null}]
    /\ expired \in BOOLEAN
    /\ unanswered \in BOOLEAN
    /\ resubmitted \in BOOLEAN

Init ==
    /\ stored = CHOOSE o \in Object : TRUE
    /\ \E s \in Start :
          object = [[o \in Object |-> Blank] EXCEPT
              ![stored] = [Blank EXCEPT !.status = s.status, !.provider = s.provider,
                                        !.owner = s.owner]]
    /\ sent = {}
    /\ portal = [t \in Ticket |-> "open"]
    /\ task = [c \in Call |-> "none"]
    /\ at = [c \in Call |-> "idle"]
    /\ held = [c \in Call |-> Null]
    /\ asked = [c \in Call |-> Null]
    /\ expired = FALSE
    /\ unanswered = FALSE
    /\ resubmitted = FALSE

-----------------------------------------------------------------------------
(* The store, and a call's progress.                                        *)

Request == object[stored]

Provider(c) == object[held[c]].provider

Goto(c, what, step, o, t) ==
    /\ task' = [task EXCEPT ![c] = what]
    /\ at' = [at EXCEPT ![c] = step]
    /\ held' = [held EXCEPT ![c] = o]
    /\ asked' = [asked EXCEPT ![c] = t]

End(c) == Goto(c, "none", "idle", Null, Null)

At(c, what, step) == task[c] = what /\ at[c] = step

\* Objects nobody refers to any more are garbage.
Collect(contents, kept, holders) ==
    [o \in Object |-> IF o = kept \/ \E c \in holders : held[c] = o
                      THEN contents[o] ELSE Blank]

IsFree(o) == o # stored /\ \A c \in Call : held[c] # o

\* update without an expected version, and the end of the call: the object the
\* call holds, changed in place, is what the store keeps from here on.
UpdateAndEnd(c, changed) ==
    /\ stored' = held[c]
    /\ object' = Collect([object EXCEPT ![held[c]] = changed], held[c], Call \ {c})
    /\ End(c)

Leave(c) ==
    /\ object' = Collect(object, stored, Call \ {c})
    /\ UNCHANGED stored
    /\ End(c)

-----------------------------------------------------------------------------
(* submitGovernedRequest.                                                   *)

\* Nothing asks whether the request has been submitted before.  The bound: a
\* submission begins while there is a ticket left.
Submit(c) ==
    /\ at[c] = "idle" /\ sent # Ticket
    /\ Goto(c, "submit", "resolving", stored, Null)
    /\ resubmitted' = (\/ resubmitted \/ Request.ticket # Null
                       \/ \E d \in Call : task[d] = "submit")
    /\ UNCHANGED << store, authority, expired, unanswered >>

\* The source of the subject is known by the step that follows.
ResolveSubject(c) ==
    /\ At(c, "submit", "resolving")
    /\ \E source \in (IF Provider(c) = "entra" THEN EntraSubjects ELSE OktaSubjects) :
          Goto(c, "submit", IF source = "manual" THEN "misnamed" ELSE "submitting",
               held[c], Null)
    /\ UNCHANGED << store, authority, expired, history >>

Submissions(c) ==
    LET source == IF at[c] = "misnamed" THEN "manual" ELSE Provider(c)
    IN  IF Provider(c) = "entra" THEN EntraSubmissions(source) ELSE OktaSubmissions(source)

\* The authority's number for the next request it receives.
NextTicket == CHOOSE t \in Ticket : t \notin sent

\* provider.submitRequest: when the answer is lost, the request stays at the
\* authority with nobody to follow it.
SubmitRequest(c) ==
    /\ task[c] = "submit" /\ at[c] \in { "submitting", "misnamed" }
    /\ \E answer \in Submissions(c) :
          \/ answer = "REFUSED" /\ Leave(c) /\ UNCHANGED sent
          \/ /\ answer # "REFUSED"
             /\ sent # Ticket
             /\ sent' = sent \cup { NextTicket }
             /\ \/ answer = "LOST" /\ "outage" \in Faults /\ Leave(c)
                \/ /\ answer = "ACCEPTED"
                   /\ Goto(c, "submit", "submitted", held[c], NextTicket)
                   /\ UNCHANGED store
    /\ UNCHANGED << portal, expired, history >>

\* The ticket is noted on the object and stored.
Submitted(c) ==
    /\ At(c, "submit", "submitted")
    /\ UpdateAndEnd(c, [object[held[c]] EXCEPT !.ticket = asked[c]])
    /\ UNCHANGED << authority, expired, history >>

-----------------------------------------------------------------------------
(* Asking for the decision: reconcileGovernance, and reconcilePendingRequests *)
(* for each request it has listed.                                          *)

\* reconcileGovernance(request).
Reconcile(c) ==
    /\ at[c] = "idle" /\ Request.ticket # Null
    /\ Goto(c, "reconcile", "asking", stored, Request.ticket)
    /\ UNCHANGED << store, authority, expired, history >>

\* The filters of getPendingRequests, getActiveAssignments and
\* getPendingRevocations.
Listed(scan) ==
    /\ Request.ticket # Null
    /\ CASE scan = "pending"     -> Request.status = "AWAITING_AUTHORITY_DECISION"
         [] scan = "assignments" -> Request.status = "FULFILLED" /\ Request.assigned
         [] scan = "revocations" -> Request.status = "REVOCATION_PENDING" /\ Request.assigned

\* A scan lists the objects, and comes to this one after the ones before it.
List(c, scan) ==
    /\ at[c] = "idle" /\ Listed(scan)
    /\ Goto(c, scan, "listed", stored, Null)
    /\ UNCHANGED << store, authority, expired, history >>

Turn(c) ==
    /\ at[c] = "listed"
    /\ Goto(c, task[c], "asking", held[c], object[held[c]].ticket)
    /\ UNCHANGED << store, authority, expired, history >>

Available(answers, error) ==
    IF "outage" \in Faults THEN answers ELSE answers \ { error }

StatusAnswers(c) ==
    CASE Provider(c) = "entra" -> Available(EntraStatusAnswers(portal[asked[c]]), "FAILED")
      [] Provider(c) = "okta"  -> Available(OktaStatusAnswers(portal[asked[c]]), "FAILED")

AnyStatus(c) == TRUE

WaitingForApproval(c) == object[held[c]].status = "PENDING_APPROVAL"

\* A decision is taken over only by a request that still waits for one.
Waiting(c) ==
    object[held[c]].status =
        IF task[c] = "reconcile" THEN "PENDING_APPROVAL" ELSE "AWAITING_AUTHORITY_DECISION"

TakeAnyAnswer(c, answer) ==
    /\ UpdateAndEnd(c, [object[held[c]] EXCEPT !.status = answer])
    /\ UNCHANGED unanswered

\* The answer.  An approval brings the assignment with it.  FAILED makes a scan
\* count the attempt and store the object as it is.
Take(c, answer) ==
    \/ /\ answer \in Decided /\ Waiting(c)
       /\ UpdateAndEnd(c, [object[held[c]] EXCEPT
             !.status = answer, !.assigned = @ \/ answer = "APPROVED"])
       /\ UNCHANGED unanswered
    \/ /\ answer = "FAILED" /\ task[c] = "pending"
       /\ UpdateAndEnd(c, object[held[c]])
       /\ unanswered' = TRUE
    \/ /\ \/ answer = "PENDING"
          \/ answer \in Decided /\ ~Waiting(c)
          \/ answer = "FAILED" /\ task[c] = "reconcile"
       /\ Leave(c)
       /\ UNCHANGED unanswered

GetRequestStatus(c) ==
    /\ at[c] = "asking" /\ task[c] \in { "reconcile", "pending" }
    /\ \E answer \in StatusAnswers(c) : Take(c, answer)
    /\ UNCHANGED << authority, expired, resubmitted >>

-----------------------------------------------------------------------------
(* reconcileAssignments.                                                    *)

\* The callers pass the assignment's id as the entitlement's external id: what
\* has become of the assignment has no part in the answer, and is left out.
AssignmentAnswers(c) ==
    CASE Provider(c) = "entra" ->
            UNION { EntraAssignmentAnswers(external, TRUE) : external \in AssignmentState }
      [] Provider(c) = "okta"  -> OktaAssignmentAnswers(portal[asked[c]])

\* The object is stored again when the assignment is active, with nothing but
\* the time of the check changed.
GetAssignment(c) ==
    /\ At(c, "assignments", "asking")
    /\ \E answer \in AssignmentAnswers(c) :
          \/ answer = "ACTIVE" /\ UpdateAndEnd(c, object[held[c]])
          \/ /\ answer # "ACTIVE"
             /\ Goto(c, "assignments", "drift", held[c], asked[c])
             /\ UNCHANGED store
    /\ UNCHANGED << authority, expired, history >>

\* The drift has been audited: what follows depends on who owns the duration.
CorrectDrift(c) ==
    /\ At(c, "assignments", "drift")
    /\ \/ /\ object[held[c]].owner = "authority"
          /\ stored' = held[c]
          /\ object' = [object EXCEPT ![held[c]].status = "REVOKED"]
          /\ Goto(c, "assignments", "corrected", held[c], asked[c])
       \/ object[held[c]].owner = "opnory" /\ UpdateAndEnd(c, object[held[c]])
       \/ "audit" \in Faults /\ Leave(c)
    /\ UNCHANGED << authority, expired, history >>

\* After the audit of the correction the object is stored once more.
Corrected(c) ==
    /\ At(c, "assignments", "corrected")
    /\ \/ UpdateAndEnd(c, object[held[c]])
       \/ "audit" \in Faults /\ Leave(c)
    /\ UNCHANGED << authority, expired, history >>

-----------------------------------------------------------------------------
(* reconcileRevocations.                                                    *)

RevocationAnswers(c) ==
    CASE Provider(c) = "entra" -> Available(EntraRevocationAnswers, "ERROR")
      [] Provider(c) = "okta"  -> OktaRevocationAnswers

\* An observation counts as success.
RevokeAssignment(c) ==
    /\ At(c, "revocations", "asking")
    /\ \E answer \in RevocationAnswers(c) :
          IF answer = "ERROR" THEN Leave(c)
          ELSE UpdateAndEnd(c, [object[held[c]] EXCEPT !.status = "REVOKED"])
    /\ UNCHANGED << authority, expired, history >>

-----------------------------------------------------------------------------
(* The environment.                                                         *)

\* A service that stores a copy (see AccessDecision), which detaches the
\* object that calls still hold.
StoreCopy(from, to) ==
    /\ Request.status = from
    /\ \E o \in Object : IsFree(o)
    /\ LET copy == CHOOSE o \in Object : IsFree(o)
       IN  /\ stored' = copy
           /\ object' = Collect([object EXCEPT ![copy] = [Request EXCEPT !.status = to]],
                                copy, Call)
    /\ UNCHANGED << authority, callVars, expired, history >>

Fulfill == StoreCopy("APPROVED", "FULFILLED")

StartRevocation ==
    /\ "revocation" \in Faults
    /\ StoreCopy("FULFILLED", "REVOCATION_PENDING")

\* The approval window passes.
Expire ==
    /\ ~expired
    /\ expired' = TRUE
    /\ UNCHANGED << store, authority, callVars, history >>

\* ApprovalService.approve finds the window passed before it asks whose the
\* decision is.
CancelExpired ==
    /\ expired
    /\ CanTransition(Request.status, "CANCELLED")
    /\ StoreCopy(Request.status, "CANCELLED")

Decide(t) ==
    /\ t \in sent /\ portal[t] = "open"
    /\ \E decision \in PortalState \ {"open"} : portal' = [portal EXCEPT ![t] = decision]
    /\ UNCHANGED << store, sent, callVars, expired, history >>

-----------------------------------------------------------------------------

CallStep(c) ==
    \/ ResolveSubject(c) \/ SubmitRequest(c) \/ Submitted(c)
    \/ Turn(c) \/ GetRequestStatus(c)
    \/ GetAssignment(c) \/ CorrectDrift(c) \/ Corrected(c)
    \/ RevokeAssignment(c)

Next ==
    \/ \E c \in Call : Submit(c) \/ Reconcile(c) \/ CallStep(c)
    \/ \E c \in Call, scan \in Scan : List(c, scan)
    \/ Fulfill \/ StartRevocation \/ Expire \/ CancelExpired
    \/ \E t \in Ticket : Decide(t)

Spec == Init /\ [][Next]_vars

\* A call that has begun goes on, some caller keeps scanning for decisions, and
\* of the questions asked some get an answer: not every one meets an outage.
Answered(c) ==
    /\ at[c] = "asking" /\ task[c] = "pending"
    /\ \E answer \in StatusAnswers(c) \ { "FAILED" } : Take(c, answer)
    /\ UNCHANGED << authority, expired, resubmitted >>

Fairness ==
    /\ \A c \in Call : WF_vars(CallStep(c)) /\ SF_vars(Answered(c))
    /\ SF_vars(\E c \in Call : List(c, "pending"))

FairSpec == Spec /\ Fairness

-----------------------------------------------------------------------------
(* What the reconciler promises.                                            *)

\* The authority's decision on the request that Opnory follows there.
TheDecision == IF Request.ticket = Null THEN "open" ELSE portal[Request.ticket]

\* What Opnory holds for the authority's decision is its decision on the
\* request that Opnory follows there: not on one whose submission was given
\* up for lost, and not an answer it gave before.  Only a request whose window
\* has passed may be cancelled without it.  (Submitting again replaces the
\* ticket of a request that may have been decided by then.)
FollowsTheAuthority ==
    ~resubmitted =>
        /\ Request.status \in { "APPROVED", "FULFILLED" } => TheDecision = "approved"
        /\ Request.status = "DENIED" => TheDecision = "denied"
        /\ Request.status = "CANCELLED" => TheDecision = "withdrawn" \/ expired

\* A decision is taken over once: a second scan that asked before the first
\* one wrote does not decide the request again, fulfilled as it may be by now.
\* A window that passes may cancel the request in between, before an answer
\* that is under way or after it.  (Storing an old object for want of an
\* answer, or submitting again, can decide it twice.)
DecisionAppliesOnce ==
    [][ /\ ~unanswered' /\ ~resubmitted'
        /\ Request'.status \in Decided /\ Request'.status # Request.status
        => \/ Request.status \in { "PENDING_APPROVAL", "AWAITING_AUTHORITY_DECISION" }
           \/ expired /\ "CANCELLED" \in { Request.status, Request'.status } ]_vars

\* Once the authority has decided, the request does not go on waiting, unless
\* it is submitted again.
DecisionArrives ==
    Request.status = "AWAITING_AUTHORITY_DECISION" /\ TheDecision # "open"
        ~> Request.status # "AWAITING_AUTHORITY_DECISION" \/ TheDecision = "open"

=============================================================================
