------------------------ MODULE GovernedRequestsProofs ------------------------
(***************************************************************************)
(* The in-process reconciler follows the authority, for every number of    *)
(* overlapping calls, tickets and objects of the request, though the store *)
(* hands out its own objects and nothing stops a call from writing back an *)
(* old one.                                                                *)
(*                                                                         *)
(* As long as nobody submits the request a second time, every object that  *)
(* is stored or held tells the truth about the decision on its own ticket, *)
(* and a ticket is noted while nobody else is at work on the request: so a *)
(* call that overwrites a newer object still writes a true one.  That a    *)
(* decision is taken over once needs more: while an object waits for it,   *)
(* the request has no other object but copies cancelled by the window.     *)
(***************************************************************************)
EXTENDS GovernedRequests, TLAPS

\* What an object holds for the decision on its ticket is that decision, or
\* the end of the approval window.
DecisionTrue(q) ==
    LET decision == IF q.ticket = Null THEN "open" ELSE portal[q.ticket]
    IN  /\ q.status \in { "APPROVED", "FULFILLED" } => decision = "approved"
        /\ q.status = "DENIED" => decision = "denied"
        /\ q.status = "CANCELLED" => decision = "withdrawn" \/ expired

ObjectsTrue == \A o \in Object : DecisionTrue(object[o])

SubmitStep == { "resolving", "submitting", "misnamed", "submitted" }
AskStep    == { "asking", "drift", "corrected" }
Follow     == Scan \cup { "reconcile" }
Kinds      == Follow \cup { "submit" }

\* Whoever is under way holds an object, and whoever asks has a ticket.
CallsHold ==
    \A c \in Call :
        /\ task[c] = "none" => at[c] = "idle" /\ held[c] = Null
        /\ task[c] \in Kinds => held[c] \in Object
        /\ task[c] = "submit" => at[c] \in SubmitStep
        /\ task[c] \in Follow =>
              /\ at[c] \in AskStep \cup {"listed"}
              /\ object[held[c]].ticket # Null
              /\ at[c] \in AskStep => asked[c] \in Ticket
        /\ at[c] = "submitted" => asked[c] \in Ticket

\* A call that submits is alone with the request, which has no ticket yet; the
\* others ask about the ticket of the object they hold.
CallsFollow ==
    \A c \in Call :
        /\ task[c] = "submit" =>
              /\ object[held[c]].ticket = Null /\ Request.ticket = Null
              /\ \A d \in Call \ {c} : task[d] = "none"
        /\ task[c] \in Follow =>
              /\ Request.ticket # Null
              /\ at[c] \in AskStep => asked[c] = object[held[c]].ticket

FollowInv == ~resubmitted => ObjectsTrue /\ CallsFollow

Waits == { "PENDING_APPROVAL", "AWAITING_AUTHORITY_DECISION" }
Kept  == { "FULFILLED", "REVOCATION_PENDING", "REVOKED" }

IsHeld(o) == o = stored \/ \E c \in Call : held[c] = o

\* Beside an object that waits there are only copies that the window's end has
\* cancelled.
WaitingIsAlone ==
    \A o, p \in Object :
        IsHeld(o) /\ IsHeld(p) /\ o # p /\ object[o].status \in Waits =>
            object[p].status = "CANCELLED" /\ expired

\* What is looked at as an assignment has been decided long ago.
AssignmentsAreKept ==
    \A c \in Call : task[c] \in { "assignments", "revocations" } =>
        object[held[c]].status \in Kept

DecidedOnce == ~unanswered /\ ~resubmitted => WaitingIsAlone /\ AssignmentsAreKept

IInv == TypeOK /\ CallsHold /\ FollowInv /\ DecidedOnce

-----------------------------------------------------------------------------
(* What the objects and the answers are.                                    *)

LEMMA BlankIsTrue == Blank \in AccessRequest /\ DecisionTrue(Blank)
  BY DEF Blank, AccessRequest, AccessRequestStatus, DecisionTrue

LEMMA Distinct ==
  /\ "none" \notin Kinds /\ "submit" \notin Follow /\ Kinds = Follow \cup {"submit"}
  /\ Task = Kinds \cup {"none"}
  /\ SubmitStep \cap (AskStep \cup { "listed", "idle" }) = {}
  /\ "idle" \notin AskStep \cup {"listed"} /\ "listed" \notin AskStep
  /\ SubmitStep \cup AskStep \cup { "listed", "idle" } = Step
  /\ "submitted" \in SubmitStep
  BY DEF Kinds, Follow, Scan, Task, SubmitStep, AskStep, Step

\* Whoever is under way holds an object.
LEMMA BusyHolds ==
  ASSUME TypeOK, CallsHold, NEW c \in Call, task[c] # "none"
  PROVE  held[c] \in Object /\ held[c] # Null
<1>1. task[c] \in Kinds
  BY Distinct DEF TypeOK
<1> QED BY <1>1, GovernedAssumption DEF CallsHold

\* Who asks, asks about a ticket.
LEMMA Asking ==
  ASSUME TypeOK, CallsHold, NEW c \in Call, at[c] \in AskStep
  PROVE  /\ task[c] \in Follow /\ task[c] # "none" /\ held[c] \in Object /\ held[c] # Null
         /\ asked[c] \in Ticket /\ object[held[c]] \in AccessRequest
         /\ object[held[c]].ticket # Null
<1>1. task[c] \in Follow /\ task[c] # "none"
  BY Distinct DEF CallsHold, TypeOK
<1>2. held[c] \in Object /\ held[c] # Null
  BY <1>1, BusyHolds
<1>3. asked[c] \in Ticket /\ object[held[c]].ticket # Null
  BY <1>1 DEF CallsHold
<1> QED BY <1>1, <1>2, <1>3 DEF TypeOK

\* A decision that is answered is the one on the ticket that was asked about.
LEMMA AnswersAreTrue ==
  ASSUME TypeOK, NEW c \in Call, held[c] \in Object, asked[c] \in Ticket,
         NEW answer \in StatusAnswers(c)
  PROVE  /\ answer = "APPROVED" => portal[asked[c]] = "approved"
         /\ answer = "DENIED" => portal[asked[c]] = "denied"
         /\ answer = "CANCELLED" => portal[asked[c]] = "withdrawn"
<1> DEFINE shown == portal[asked[c]]
<1>1. shown \in PortalState /\ Provider(c) \in { "entra", "okta" }
  BY DEF TypeOK, Provider, AccessRequest
<1> HIDE DEF shown
<1>2. ASSUME NEW s \in EntraRequestStatuses(shown)
      PROVE  /\ MapEntraStatus(s) = "APPROVED" => shown = "approved"
             /\ MapEntraStatus(s) = "DENIED" => shown = "denied"
             /\ MapEntraStatus(s) = "CANCELLED" => shown = "withdrawn"
  BY <1>1 DEF EntraRequestStatuses, MapEntraStatus, PortalState
<1>3. ASSUME NEW s \in OktaRequestStatuses(shown)
      PROVE  /\ MapOktaRequestStatus(s[1], s[2]) = "APPROVED" => shown = "approved"
             /\ MapOktaRequestStatus(s[1], s[2]) = "DENIED" => shown = "denied"
             /\ MapOktaRequestStatus(s[1], s[2]) = "CANCELLED" => shown = "withdrawn"
  BY <1>1 DEF OktaRequestStatuses, MapOktaRequestStatus, PortalState
<1>4. answer \in EntraStatusAnswers(shown) \cup OktaStatusAnswers(shown)
  BY <1>1 DEF StatusAnswers, Available, shown
<1>5. /\ answer = "APPROVED" => shown = "approved"
      /\ answer = "DENIED" => shown = "denied"
      /\ answer = "CANCELLED" => shown = "withdrawn"
  BY <1>2, <1>3, <1>4 DEF EntraStatusAnswers, OktaStatusAnswers
<1> QED BY <1>5 DEF shown

-----------------------------------------------------------------------------
(* Steps that leave the objects alone.                                      *)

\* A call goes on, or begins with the object that is stored.
LEMMA GotoPreserves ==
  ASSUME IInv, NEW c \in Call, NEW what \in Task \ {"none"}, NEW step \in Step,
         NEW o \in Object, NEW t \in Ticket \cup {Null}, Goto(c, what, step, o, t),
         UNCHANGED << stored, object, portal, expired, unanswered >>, sent' \subseteq Ticket,
         resubmitted' \in BOOLEAN, resubmitted => resubmitted',
         step = "submitted" => t \in Ticket,
         what = "submit" =>
            /\ step \in SubmitStep
            /\ ~resubmitted' => /\ object[o].ticket = Null /\ Request.ticket = Null
                                /\ \A d \in Call \ {c} : task[d] = "none",
         what \in Follow =>
            /\ step \in AskStep \cup {"listed"} /\ object[o].ticket # Null
            /\ step \in AskStep => t \in Ticket
            /\ ~resubmitted' => /\ Request.ticket # Null
                                /\ step \in AskStep => t = object[o].ticket,
         o = stored \/ o = held[c],
         what \in { "assignments", "revocations" } =>
            object[o].status \in Kept \/ (task[c] = what /\ o = held[c])
  PROVE  IInv'
<1>1. TypeOK /\ CallsHold
  BY DEF IInv
<1>2. \A d \in Call : /\ task'[d] = IF d = c THEN what ELSE task[d]
                      /\ at'[d] = IF d = c THEN step ELSE at[d]
                      /\ held'[d] = IF d = c THEN o ELSE held[d]
                      /\ asked'[d] = IF d = c THEN t ELSE asked[d]
  BY <1>1 DEF Goto, TypeOK
<1>3. TypeOK'
  BY <1>1 DEF Goto, TypeOK
<1>4. what \in Kinds /\ what # "none" /\ (what = "submit" \/ what \in Follow)
  BY Distinct
<1>5. CallsHold'
  <2>1. what = "submit" => what \notin Follow
    BY Distinct
  <2> QED BY <1>1, <1>2, <1>4, <2>1 DEF CallsHold
<1>6. ASSUME ~resubmitted'
      PROVE  ObjectsTrue' /\ CallsFollow'
  <2>1. ObjectsTrue /\ CallsFollow
    BY <1>6 DEF IInv, FollowInv
  <2>2. ObjectsTrue'
    BY <2>1 DEF ObjectsTrue, DecisionTrue
  <2>3. Request' = Request
    BY DEF Request
  <2>4. what \in Follow => \A d \in Call : task[d] # "submit"
    BY <1>6, <2>1 DEF CallsFollow
  <2>5. CallsFollow'
    BY <1>2, <1>4, <1>6, <2>1, <2>3, <2>4, Distinct DEF CallsFollow
  <2> QED BY <2>2, <2>5
<1>7. ASSUME ~unanswered', ~resubmitted'
      PROVE  WaitingIsAlone' /\ AssignmentsAreKept'
  <2>1. WaitingIsAlone /\ AssignmentsAreKept
    BY <1>7 DEF IInv, DecidedOnce
  <2>2. \A p \in Object : IsHeld(p)' => IsHeld(p)
    BY <1>2 DEF IsHeld
  <2>3. WaitingIsAlone'
    BY <2>1, <2>2 DEF WaitingIsAlone
  <2>4. AssignmentsAreKept'
    BY <1>2, <2>1 DEF AssignmentsAreKept
  <2> QED BY <2>3, <2>4
<1> QED BY <1>3, <1>5, <1>6, <1>7 DEF IInv, FollowInv, DecidedOnce

LEMMA SubmitPreserves ==
  ASSUME IInv, NEW c \in Call, Submit(c)
  PROVE  IInv'
<1>1. /\ TypeOK /\ CallsHold /\ stored \in Object /\ at[c] = "idle"
      /\ UNCHANGED << stored, object, sent, portal, expired, unanswered >>
      /\ Goto(c, "submit", "resolving", stored, Null)
      /\ resubmitted' = (\/ resubmitted \/ Request.ticket # Null
                         \/ \E d \in Call : task[d] = "submit")
  BY DEF IInv, TypeOK, Submit, store, authority
<1>2. resubmitted' \in BOOLEAN /\ (resubmitted => resubmitted')
  BY <1>1 DEF TypeOK
<1>3. ~resubmitted' => /\ object[stored].ticket = Null /\ Request.ticket = Null
                       /\ \A d \in Call \ {c} : task[d] = "none"
  <2> SUFFICES ASSUME ~resubmitted'
               PROVE  Request.ticket = Null /\ \A d \in Call \ {c} : task[d] = "none"
    BY DEF Request
  <2>1. CallsFollow /\ Request.ticket = Null /\ \A d \in Call : task[d] # "submit"
    BY <1>1 DEF IInv, FollowInv
  <2>2. \A d \in Call : task[d] \notin Follow
    BY <2>1 DEF CallsFollow
  <2> QED BY <1>1, <2>1, <2>2, Distinct DEF TypeOK
<1>4. "submit" \in Task \ {"none"} /\ "resolving" \in SubmitStep /\ "resolving" \in Step
      /\ "resolving" # "submitted"
  BY DEF Task, SubmitStep, Step
<1>5. Null \in Ticket \cup {Null} /\ sent' \subseteq Ticket
  BY <1>1 DEF TypeOK
<1> QED BY <1>1, <1>2, <1>3, <1>4, <1>5, Distinct, GotoPreserves

LEMMA BeginPreserves ==
  ASSUME IInv, NEW c \in Call,
         Reconcile(c) \/ \E scan \in Scan : List(c, scan)
  PROVE  IInv'
<1>1. TypeOK /\ CallsHold /\ stored \in Object /\ Request \in AccessRequest
  BY DEF IInv, TypeOK, Request
<1>2. UNCHANGED << stored, object, sent, portal, expired, unanswered, resubmitted >>
  BY DEF Reconcile, List, store, authority, history
<1>3. /\ Null \in Ticket \cup {Null} /\ Request.ticket \in Ticket \cup {Null}
      /\ sent' \subseteq Ticket /\ resubmitted' \in BOOLEAN
  BY <1>1, <1>2 DEF AccessRequest, TypeOK
<1>4. Request = object[stored]
  BY DEF Request
<1>5. CASE Reconcile(c)
  <2>1. Goto(c, "reconcile", "asking", stored, Request.ticket) /\ Request.ticket # Null
    BY <1>5 DEF Reconcile
  <2>2. "reconcile" \in Task \ {"none"} /\ "asking" \in AskStep /\ "asking" \in Step
        /\ "asking" # "submitted" /\ "reconcile" \notin { "submit", "assignments", "revocations" }
    BY DEF Task, AskStep, Step
  <2>3. Request.ticket \in Ticket
    BY <1>3, <2>1
  <2> QED BY <1>1, <1>2, <1>3, <1>4, <2>1, <2>2, <2>3, GotoPreserves
<1>6. ASSUME NEW listing \in Scan, List(c, listing)
      PROVE  IInv'
  <2>1. /\ Goto(c, listing, "listed", stored, Null) /\ Request.ticket # Null
        /\ listing = "assignments" => Request.status = "FULFILLED"
        /\ listing = "revocations" => Request.status = "REVOCATION_PENDING"
    BY <1>6 DEF List, Listed
  <2>2. /\ listing \in Task \ {"none"} /\ listing # "submit" /\ "listed" \in Step
        /\ "listed" \notin AskStep /\ "listed" # "submitted"
    BY DEF Scan, Task, AskStep, Step
  <2>3. listing \in { "assignments", "revocations" } => object[stored].status \in Kept
    BY <1>4, <2>1 DEF Kept
  <2> QED BY <1>1, <1>2, <1>3, <1>4, <2>1, <2>2, <2>3, GotoPreserves
<1> QED BY <1>5, <1>6

LEMMA ResolveSubjectPreserves ==
  ASSUME IInv, NEW c \in Call, ResolveSubject(c)
  PROVE  IInv'
<1>1. /\ TypeOK /\ CallsHold /\ task[c] = "submit"
      /\ UNCHANGED << stored, object, sent, portal, expired, unanswered, resubmitted >>
  BY DEF IInv, ResolveSubject, At, store, authority, history
<1>2. PICK step \in { "misnamed", "submitting" } : Goto(c, "submit", step, held[c], Null)
  BY DEF ResolveSubject
<1>3. /\ held[c] \in Object
      /\ ~resubmitted' => /\ object[held[c]].ticket = Null /\ Request.ticket = Null
                          /\ \A d \in Call \ {c} : task[d] = "none"
  BY <1>1, Distinct, BusyHolds DEF IInv, FollowInv, CallsFollow
<1>4. step \in SubmitStep /\ step \in Step /\ "submit" \in Task \ {"none"} /\ step # "submitted"
  BY DEF SubmitStep, Step, Task
<1>5. sent' \subseteq Ticket /\ Null \in Ticket \cup {Null} /\ resubmitted' \in BOOLEAN
  BY <1>1 DEF TypeOK
<1> QED BY <1>1, <1>2, <1>3, <1>4, <1>5, Distinct, GotoPreserves

LEMMA TurnPreserves ==
  ASSUME IInv, NEW c \in Call, Turn(c)
  PROVE  IInv'
<1>1. /\ TypeOK /\ CallsHold /\ at[c] = "listed"
      /\ UNCHANGED << stored, object, sent, portal, expired, unanswered, resubmitted >>
      /\ Goto(c, task[c], "asking", held[c], object[held[c]].ticket)
  BY DEF IInv, Turn, store, authority, history
<1>2. task[c] \in Follow /\ task[c] # "submit" /\ task[c] \in Task \ {"none"}
  BY <1>1, Distinct DEF CallsHold, TypeOK
<1>3. /\ held[c] \in Object /\ object[held[c]].ticket # Null
      /\ ~resubmitted' => Request.ticket # Null
  BY <1>1, <1>2, BusyHolds DEF IInv, FollowInv, CallsFollow, CallsHold
<1>4. object[held[c]].ticket \in Ticket /\ sent' \subseteq Ticket /\ resubmitted' \in BOOLEAN
  BY <1>1, <1>3 DEF TypeOK, AccessRequest
<1>5. "asking" \in AskStep /\ "asking" \in Step /\ "asking" # "submitted"
  BY DEF AskStep, Step
<1> QED BY <1>1, <1>2, <1>3, <1>4, <1>5, GotoPreserves

-----------------------------------------------------------------------------
(* Steps that end with the object they hold in the store, or without.       *)

\* The store takes the object over, changed as it may be.
LEMMA UpdatePreserves ==
  ASSUME IInv, NEW c \in Call, task[c] \in Follow,
         NEW changed \in AccessRequest, UpdateAndEnd(c, changed),
         changed.ticket = object[held[c]].ticket,
         ~resubmitted => DecisionTrue(changed),
         UNCHANGED << sent, portal, expired, resubmitted >>,
         unanswered' \in BOOLEAN, unanswered => unanswered',
         ~unanswered' /\ ~resubmitted =>
            /\ changed.status \notin Waits /\ object[held[c]].status # "CANCELLED"
            /\ object[held[c]].status \in Kept => changed.status \in Kept
  PROVE  IInv'
<1>1. /\ TypeOK /\ CallsHold /\ held[c] \in Object /\ held[c] # Null
      /\ object[held[c]].ticket # Null /\ task[c] # "none"
  BY Distinct, BusyHolds DEF IInv, CallsHold
<1>2. /\ stored' = held[c]
      /\ \A o \in Object :
            object'[o] = IF o = held[c] THEN changed
                         ELSE IF \E d \in Call \ {c} : held[d] = o THEN object[o] ELSE Blank
      /\ \A d \in Call : /\ task'[d] = IF d = c THEN "none" ELSE task[d]
                         /\ at'[d] = IF d = c THEN "idle" ELSE at[d]
                         /\ held'[d] = IF d = c THEN Null ELSE held[d]
                         /\ d # c => asked'[d] = asked[d]
  BY <1>1 DEF UpdateAndEnd, Collect, End, Goto, TypeOK
<1>3. TypeOK'
  <2>1. object' \in [Object -> AccessRequest]
    BY <1>1, BlankIsTrue DEF UpdateAndEnd, Collect, TypeOK
  <2>2. /\ task' \in [Call -> Task] /\ at' \in [Call -> Step]
        /\ held' \in [Call -> Object \cup {Null}] /\ asked' \in [Call -> Ticket \cup {Null}]
    BY <1>1 DEF UpdateAndEnd, End, Goto, TypeOK, Task, Step
  <2> QED BY <1>1, <1>2, <2>1, <2>2 DEF TypeOK
<1>4. \A d \in Call \ {c} :
          held[d] \in Object =>
              /\ object'[held[d]] = IF held[d] = held[c] THEN changed ELSE object[held[d]]
              /\ object'[held[d]].ticket = object[held[d]].ticket
  BY <1>2
<1>5. CallsHold'
  BY <1>1, <1>2, <1>4, Distinct DEF CallsHold
<1>6. ASSUME ~resubmitted'
      PROVE  ObjectsTrue' /\ CallsFollow'
  <2>1. ObjectsTrue /\ CallsFollow /\ DecisionTrue(changed)
    BY <1>6 DEF IInv, FollowInv
  <2>2. \A o \in Object : DecisionTrue(object'[o])
    BY <1>2, <2>1, BlankIsTrue DEF ObjectsTrue
  <2>3. Request' = changed
    BY <1>1, <1>2 DEF Request
  <2>4. \A d \in Call \ {c} : task[d] # "submit"
    BY <1>1, <2>1 DEF CallsFollow
  <2>5. CallsFollow'
    <3> SUFFICES ASSUME NEW d \in Call, task'[d] \in Kinds
                 PROVE  /\ task'[d] \in Follow /\ Request'.ticket # Null
                        /\ at'[d] \in AskStep => asked'[d] = object'[held'[d]].ticket
      BY Distinct DEF CallsFollow
    <3>1. d # c /\ task'[d] = task[d] /\ task[d] \in Follow /\ held[d] \in Object
      BY <1>1, <1>2, <2>4, Distinct DEF CallsHold
    <3> QED BY <1>1, <1>2, <1>4, <2>1, <2>3, <3>1 DEF CallsFollow
  <2> QED BY <2>2, <2>5 DEF ObjectsTrue, DecisionTrue
<1>7. ASSUME ~unanswered', ~resubmitted'
      PROVE  WaitingIsAlone' /\ AssignmentsAreKept'
  <2>1. /\ WaitingIsAlone /\ AssignmentsAreKept
        /\ changed.status \notin Waits /\ object[held[c]].status # "CANCELLED"
        /\ object[held[c]].status \in Kept => changed.status \in Kept
    BY <1>7 DEF IInv, DecidedOnce, TypeOK
  <2>2. \A o \in Object : IsHeld(o)' =>
            /\ IsHeld(o)
            /\ object'[o] = IF o = held[c] THEN changed ELSE object[o]
    BY <1>1, <1>2, GovernedAssumption DEF IsHeld
  <2>3. WaitingIsAlone'
    <3> SUFFICES ASSUME NEW o \in Object, NEW p \in Object, IsHeld(o)', IsHeld(p)', o # p,
                        object'[o].status \in Waits
                 PROVE  object'[p].status = "CANCELLED" /\ expired'
      BY DEF WaitingIsAlone
    <3>1. o # held[c] /\ object[o].status \in Waits /\ IsHeld(o) /\ IsHeld(p)
      BY <2>1, <2>2
    <3>2. object[p].status = "CANCELLED" /\ expired
      BY <2>1, <3>1 DEF WaitingIsAlone
    <3> QED BY <2>1, <2>2, <3>2
  <2>4. AssignmentsAreKept'
    <3> SUFFICES ASSUME NEW d \in Call, task'[d] \in { "assignments", "revocations" }
                 PROVE  object'[held'[d]].status \in Kept
      BY DEF AssignmentsAreKept
    <3>1. /\ d # c /\ task[d] \in { "assignments", "revocations" }
          /\ held'[d] = held[d] /\ held[d] \in Object
      BY <1>1, <1>2, BusyHolds
    <3> QED BY <1>4, <2>1, <3>1 DEF AssignmentsAreKept
  <2> QED BY <2>3, <2>4
<1> QED BY <1>3, <1>5, <1>6, <1>7 DEF IInv, FollowInv, DecidedOnce

LEMMA LeavePreserves ==
  ASSUME IInv, NEW c \in Call, Leave(c),
         UNCHANGED << portal, expired, unanswered, resubmitted >>, sent' \subseteq Ticket
  PROVE  IInv'
<1>1. TypeOK /\ CallsHold
  BY DEF IInv
<1>2. /\ stored' = stored
      /\ \A o \in Object :
            object'[o] = IF o = stored \/ \E d \in Call \ {c} : held[d] = o
                         THEN object[o] ELSE Blank
      /\ \A d \in Call : /\ task'[d] = IF d = c THEN "none" ELSE task[d]
                         /\ at'[d] = IF d = c THEN "idle" ELSE at[d]
                         /\ held'[d] = IF d = c THEN Null ELSE held[d]
                         /\ d # c => asked'[d] = asked[d]
  BY <1>1 DEF Leave, Collect, End, Goto, TypeOK
<1>3. TypeOK'
  <2>1. object' \in [Object -> AccessRequest]
    BY <1>1, BlankIsTrue DEF Leave, Collect, TypeOK
  <2>2. /\ task' \in [Call -> Task] /\ at' \in [Call -> Step]
        /\ held' \in [Call -> Object \cup {Null}] /\ asked' \in [Call -> Ticket \cup {Null}]
    BY <1>1 DEF Leave, End, Goto, TypeOK, Task, Step
  <2> QED BY <1>1, <1>2, <2>1, <2>2 DEF TypeOK
<1>4. Request' = Request
  BY <1>1, <1>2 DEF Request, TypeOK
<1>5. \A d \in Call \ {c} : held[d] \in Object => object'[held[d]] = object[held[d]]
  BY <1>2
<1>6. CallsHold'
  BY <1>1, <1>2, <1>5, Distinct DEF CallsHold
<1>7. ASSUME ~resubmitted
      PROVE  ObjectsTrue' /\ CallsFollow'
  <2>1. ObjectsTrue /\ CallsFollow
    BY <1>7 DEF IInv, FollowInv
  <2>2. \A o \in Object : DecisionTrue(object'[o])
    BY <1>2, <2>1, BlankIsTrue DEF ObjectsTrue
  <2>3. \A d \in Call \ {c} : task[d] \in Kinds => held[d] \in Object
    BY <1>1 DEF CallsHold
  <2>4. CallsFollow'
    BY <1>2, <1>4, <1>5, <2>1, <2>3, Distinct DEF CallsFollow
  <2> QED BY <2>2, <2>4 DEF ObjectsTrue, DecisionTrue
<1>8. ASSUME ~unanswered, ~resubmitted
      PROVE  WaitingIsAlone' /\ AssignmentsAreKept'
  <2>1. WaitingIsAlone /\ AssignmentsAreKept
    BY <1>8 DEF IInv, DecidedOnce
  <2>2. \A o \in Object : IsHeld(o)' => IsHeld(o) /\ object'[o] = object[o]
    BY <1>1, <1>2, GovernedAssumption DEF IsHeld
  <2>3. WaitingIsAlone'
    BY <2>1, <2>2 DEF WaitingIsAlone
  <2>4. AssignmentsAreKept'
    BY <1>1, <1>2, <1>5, <2>1, BusyHolds DEF AssignmentsAreKept
  <2> QED BY <2>3, <2>4
<1> QED BY <1>3, <1>6, <1>7, <1>8 DEF IInv, FollowInv, DecidedOnce

-----------------------------------------------------------------------------
(* Submitting.                                                              *)

LEMMA SubmitRequestPreserves ==
  ASSUME IInv, NEW c \in Call, SubmitRequest(c)
  PROVE  IInv'
<1>1. /\ TypeOK /\ CallsHold /\ task[c] = "submit"
      /\ UNCHANGED << portal, expired, unanswered, resubmitted >>
  BY DEF IInv, SubmitRequest, history
<1>2. /\ held[c] \in Object
      /\ ~resubmitted' => /\ object[held[c]].ticket = Null /\ Request.ticket = Null
                          /\ \A d \in Call \ {c} : task[d] = "none"
  BY <1>1, Distinct, BusyHolds DEF IInv, FollowInv, CallsFollow
<1>3. CASE Leave(c) /\ UNCHANGED sent
  <2>1. sent' \subseteq Ticket
    BY <1>1, <1>3 DEF TypeOK
  <2> QED BY <1>1, <1>3, <2>1, LeavePreserves
<1>4. ASSUME NEW t \in Ticket \ sent, sent' = sent \cup {t}, Leave(c)
      PROVE  IInv'
  <2>1. sent' \subseteq Ticket
    BY <1>1, <1>4 DEF TypeOK
  <2> QED BY <1>1, <1>4, <2>1, LeavePreserves
<1>5. ASSUME NEW t \in Ticket \ sent, sent' = sent \cup {t},
             Goto(c, "submit", "submitted", held[c], t), UNCHANGED store
      PROVE  IInv'
  <2>1. sent' \subseteq Ticket /\ UNCHANGED << stored, object >> /\ resubmitted' \in BOOLEAN
    BY <1>1, <1>5 DEF TypeOK, store
  <2>2. "submit" \in Task \ {"none"} /\ "submitted" \in Step /\ "submitted" \in SubmitStep
    BY DEF Task, Step, SubmitStep
  <2> QED BY <1>1, <1>2, <1>5, <2>1, <2>2, Distinct, GotoPreserves
<1>6. sent # Ticket => NextTicket \in Ticket \ sent
  BY <1>1 DEF TypeOK, NextTicket
<1> QED BY <1>3, <1>4, <1>5, <1>6 DEF SubmitRequest

\* Unless the request is submitted twice, the ticket is noted while nobody else
\* is at work on it, and no decision has been taken over yet.
LEMMA SubmittedPreserves ==
  ASSUME IInv, NEW c \in Call, Submitted(c)
  PROVE  IInv'
<1> DEFINE changed == [object[held[c]] EXCEPT !.ticket = asked[c]]
<1>1. /\ TypeOK /\ CallsHold /\ task[c] = "submit" /\ at[c] = "submitted"
      /\ UpdateAndEnd(c, changed)
      /\ UNCHANGED << sent, portal, expired, unanswered, resubmitted >>
  BY DEF IInv, Submitted, At, authority, history
<1>2. held[c] \in Object /\ held[c] # Null /\ asked[c] \in Ticket /\ asked[c] # Null
  BY <1>1, Distinct, BusyHolds, GovernedAssumption DEF CallsHold
<1>3. /\ changed \in AccessRequest /\ changed.status = object[held[c]].status
      /\ changed.ticket = asked[c]
  BY <1>1, <1>2 DEF TypeOK, AccessRequest
<1> HIDE DEF changed
<1>4. /\ stored' = held[c]
      /\ \A o \in Object :
            object'[o] = IF o = held[c] THEN changed
                         ELSE IF \E d \in Call \ {c} : held[d] = o THEN object[o] ELSE Blank
      /\ \A d \in Call : /\ task'[d] = IF d = c THEN "none" ELSE task[d]
                         /\ at'[d] = IF d = c THEN "idle" ELSE at[d]
                         /\ held'[d] = IF d = c THEN Null ELSE held[d]
                         /\ d # c => asked'[d] = asked[d]
  BY <1>1, <1>2 DEF UpdateAndEnd, Collect, End, Goto, TypeOK
<1>5. TypeOK'
  <2>1. object' \in [Object -> AccessRequest]
    BY <1>1, <1>2, <1>3, BlankIsTrue DEF UpdateAndEnd, Collect, TypeOK
  <2>2. /\ task' \in [Call -> Task] /\ at' \in [Call -> Step]
        /\ held' \in [Call -> Object \cup {Null}] /\ asked' \in [Call -> Ticket \cup {Null}]
    BY <1>1 DEF UpdateAndEnd, End, Goto, TypeOK, Task, Step
  <2> QED BY <1>1, <1>2, <1>4, <2>1, <2>2 DEF TypeOK
<1>6. \A d \in Call \ {c} :
          held[d] \in Object =>
              object'[held[d]] = IF held[d] = held[c] THEN changed ELSE object[held[d]]
  BY <1>4
<1>7. CallsHold'
  BY <1>1, <1>2, <1>3, <1>4, <1>6, Distinct DEF CallsHold
<1>8. ASSUME ~resubmitted'
      PROVE  ObjectsTrue' /\ CallsFollow' /\ WaitingIsAlone' /\ AssignmentsAreKept'
  <2>1. /\ ObjectsTrue /\ object[held[c]].ticket = Null
        /\ \A d \in Call \ {c} : task[d] = "none" /\ held[d] = Null
    BY <1>1, <1>8 DEF IInv, FollowInv, CallsFollow, CallsHold
  <2>2. /\ \A o \in Object : object'[o] = IF o = held[c] THEN changed ELSE Blank
        /\ \A d \in Call : task'[d] = "none" /\ held'[d] = Null
    BY <1>4, <2>1, GovernedAssumption
  <2>3. DecisionTrue(changed)
    <3>1. DecisionTrue(object[held[c]])
      BY <1>2, <2>1 DEF ObjectsTrue
    <3>2. /\ changed.status \notin { "APPROVED", "FULFILLED", "DENIED" }
          /\ changed.status = "CANCELLED" => expired
      BY <1>3, <2>1, <3>1 DEF DecisionTrue
    <3> QED BY <3>2 DEF DecisionTrue
  <2>4. \A o \in Object : DecisionTrue(object'[o])
    BY <2>2, <2>3, BlankIsTrue
  <2>5. ObjectsTrue'
    BY <1>1, <2>4 DEF ObjectsTrue, DecisionTrue
  <2>6. \A o \in Object : IsHeld(o)' => o = held[c]
    BY <1>4, <2>2, GovernedAssumption DEF IsHeld
  <2> QED BY <2>2, <2>5, <2>6, Distinct DEF CallsFollow, WaitingIsAlone, AssignmentsAreKept
<1> QED BY <1>5, <1>7, <1>8 DEF IInv, FollowInv, DecidedOnce

-----------------------------------------------------------------------------
(* Asking.                                                                  *)

LEMMA GetRequestStatusPreserves ==
  ASSUME IInv, NEW c \in Call, GetRequestStatus(c)
  PROVE  IInv'
<1> DEFINE mine == object[held[c]]
<1>1. /\ TypeOK /\ CallsHold /\ at[c] = "asking" /\ UNCHANGED << sent, portal, expired,
         resubmitted >>
  BY DEF IInv, GetRequestStatus, authority
<1>2. /\ task[c] \in Follow /\ held[c] \in Object /\ asked[c] \in Ticket
      /\ mine \in AccessRequest /\ mine.ticket # Null
  BY <1>1, Asking DEF AskStep
<1>3. ~resubmitted => DecisionTrue(mine) /\ asked[c] = mine.ticket
  BY <1>1, <1>2 DEF IInv, FollowInv, ObjectsTrue, CallsFollow, AskStep
<1>4. PICK answer \in StatusAnswers(c) : Take(c, answer)
  BY DEF GetRequestStatus
<1>5. ASSUME answer \in Decided, Waiting(c), UNCHANGED unanswered,
             UpdateAndEnd(c, [mine EXCEPT !.status = answer,
             !.assigned = @ \/ answer = "APPROVED"])
      PROVE  IInv'
  <2> DEFINE changed == [mine EXCEPT !.status = answer, !.assigned = @ \/ answer = "APPROVED"]
  <2>1. /\ changed \in AccessRequest /\ changed.status = answer
        /\ changed.ticket = mine.ticket
    BY <1>2, <1>5 DEF AccessRequest, AccessRequestStatus, Decided
  <2>2. ~resubmitted => DecisionTrue(changed)
    BY <1>1, <1>2, <1>3, <1>5, <2>1, AnswersAreTrue DEF DecisionTrue, Decided
  <2>3. changed.status \notin Waits /\ mine.status \notin Kept /\ mine.status # "CANCELLED"
    BY <1>5, <2>1 DEF Decided, Waits, Kept, Waiting
  <2>4. UpdateAndEnd(c, changed)
    BY <1>5
  <2>5. unanswered' \in BOOLEAN /\ (unanswered => unanswered')
    BY <1>1, <1>5 DEF TypeOK
  <2> HIDE DEF changed
  <2> QED BY <1>1, <1>2, <2>1, <2>2, <2>3, <2>4, <2>5, UpdatePreserves
<1>6. ASSUME UpdateAndEnd(c, mine), unanswered' = TRUE
      PROVE  IInv'
  BY <1>1, <1>2, <1>3, <1>6, UpdatePreserves
<1>7. ASSUME Leave(c), UNCHANGED unanswered
      PROVE  IInv'
  <2>1. sent' \subseteq Ticket
    BY <1>1 DEF TypeOK
  <2> QED BY <1>1, <1>7, <2>1, LeavePreserves
<1> QED BY <1>4, <1>5, <1>6, <1>7 DEF Take

-----------------------------------------------------------------------------
(* Looking after the assignment.                                            *)

\* Who looks after an assignment holds a request that is decided for good.
LEMMA LookingAfter ==
  ASSUME IInv, NEW c \in Call, task[c] \in { "assignments", "revocations" }, at[c] \in AskStep
  PROVE  /\ ~resubmitted => DecisionTrue(object[held[c]])
         /\ ~unanswered /\ ~resubmitted =>
               /\ object[held[c]].status \in Kept
               /\ object[held[c]].status \notin Waits \cup {"CANCELLED"}
<1>1. held[c] \in Object
  BY Asking DEF IInv
<1>2. Kept \cap (Waits \cup {"CANCELLED"}) = {}
  BY DEF Kept, Waits
<1> QED BY <1>1, <1>2 DEF IInv, FollowInv, ObjectsTrue, DecidedOnce, AssignmentsAreKept

LEMMA GetAssignmentPreserves ==
  ASSUME IInv, NEW c \in Call, GetAssignment(c)
  PROVE  IInv'
<1> DEFINE mine == object[held[c]]
<1>1. /\ TypeOK /\ CallsHold /\ at[c] \in AskStep /\ task[c] = "assignments"
      /\ UNCHANGED << sent, portal, expired, unanswered, resubmitted >>
  BY DEF IInv, GetAssignment, At, authority, history, AskStep
<1>2. /\ task[c] \in Follow /\ held[c] \in Object /\ asked[c] \in Ticket
      /\ mine \in AccessRequest /\ mine.ticket # Null
  BY <1>1, Asking
<1>3. sent' \subseteq Ticket /\ unanswered' \in BOOLEAN /\ resubmitted' \in BOOLEAN
  BY <1>1 DEF TypeOK
<1>4. CASE UpdateAndEnd(c, mine)
  <2>1. /\ ~resubmitted => DecisionTrue(mine)
        /\ ~unanswered' /\ ~resubmitted => mine.status \notin Waits \cup {"CANCELLED"}
    BY <1>1, LookingAfter
  <2> HIDE DEF mine
  <2>2. object[held[c]] = mine
    BY DEF mine
  <2> QED BY <1>1, <1>2, <1>3, <1>4, <2>1, <2>2, UpdatePreserves
<1>5. CASE Goto(c, "assignments", "drift", held[c], asked[c]) /\ UNCHANGED store
  <2>1. "assignments" \in Task \ {"none"} /\ "drift" \in Step /\ "drift" \in AskStep
        /\ "drift" # "submitted" /\ "assignments" # "submit"
    BY DEF Task, Scan, Step, AskStep
  <2>2. UNCHANGED << stored, object >>
    BY <1>5 DEF store
  <2>3. ~resubmitted => Request.ticket # Null /\ asked[c] = mine.ticket
    BY <1>1, <1>2 DEF IInv, FollowInv, CallsFollow
  <2> QED BY <1>1, <1>2, <1>3, <1>5, <2>1, <2>2, <2>3, GotoPreserves
<1> QED BY <1>4, <1>5 DEF GetAssignment

\* The store has the object at once, and the call holds it on.
LEMMA RevokedInPlacePreserves ==
  ASSUME IInv, NEW c \in Call, task[c] = "assignments", at[c] \in AskStep,
         stored' = held[c], object' = [object EXCEPT ![held[c]].status = "REVOKED"],
         Goto(c, "assignments", "corrected", held[c], asked[c]),
         UNCHANGED << authority, expired, history >>
  PROVE  IInv'
<1>1. /\ TypeOK /\ CallsHold
      /\ UNCHANGED << sent, portal, expired, unanswered, resubmitted >>
  BY DEF IInv, authority, history
<1>2. /\ task[c] \in Follow /\ held[c] \in Object /\ asked[c] \in Ticket
      /\ object[held[c]] \in AccessRequest /\ object[held[c]].ticket # Null
  BY <1>1, Asking
<1>3. \A o \in Object :
          /\ object'[o] \in AccessRequest /\ object'[o].ticket = object[o].ticket
          /\ object'[o].status = IF o = held[c] THEN "REVOKED" ELSE object[o].status
  BY <1>1, <1>2 DEF TypeOK, AccessRequest, AccessRequestStatus
<1>4. \A d \in Call : /\ task'[d] = task[d] /\ held'[d] = held[d] /\ asked'[d] = asked[d]
                      /\ at'[d] = IF d = c THEN "corrected" ELSE at[d]
  BY <1>1 DEF Goto, TypeOK
<1>5. TypeOK'
  <2>1. object' \in [Object -> AccessRequest] /\ stored' \in Object
    BY <1>1, <1>2 DEF TypeOK, AccessRequest, AccessRequestStatus
  <2>2. /\ task' \in [Call -> Task] /\ at' \in [Call -> Step]
        /\ held' \in [Call -> Object \cup {Null}] /\ asked' \in [Call -> Ticket \cup {Null}]
    BY <1>1, <1>2 DEF Goto, TypeOK, Task, Scan, Step
  <2> QED BY <1>1, <2>1, <2>2 DEF TypeOK
<1>6. "corrected" \in AskStep /\ "corrected" # "submitted"
  BY DEF AskStep
<1>7. CallsHold'
  BY <1>1, <1>2, <1>3, <1>4, <1>6, Distinct DEF CallsHold
<1>8. ASSUME ~resubmitted'
      PROVE  ObjectsTrue' /\ CallsFollow'
  <2>1. ObjectsTrue /\ CallsFollow
    BY <1>1, <1>8 DEF IInv, FollowInv
  <2>2. \A o \in Object : DecisionTrue(object'[o])
    BY <1>3, <2>1 DEF ObjectsTrue, DecisionTrue
  <2>3. Request'.ticket # Null
    BY <1>2, <1>3 DEF Request
  <2>4. \A d \in Call : task[d] # "submit"
    BY <1>2, <2>1, Distinct DEF CallsFollow
  <2>5. CallsFollow'
    <3> SUFFICES ASSUME NEW d \in Call, task[d] \in Follow, at'[d] \in AskStep
                 PROVE  asked[d] = object'[held[d]].ticket
      BY <1>4, <2>3, <2>4 DEF CallsFollow
    <3>1. at[d] \in AskStep /\ held[d] \in Object
      BY <1>1, <1>4, Distinct DEF CallsHold
    <3> QED BY <1>3, <2>1, <3>1 DEF CallsFollow
  <2> QED BY <1>1, <2>2, <2>5 DEF ObjectsTrue, DecisionTrue
<1>9. ASSUME ~unanswered', ~resubmitted'
      PROVE  WaitingIsAlone' /\ AssignmentsAreKept'
  <2>1. WaitingIsAlone /\ AssignmentsAreKept
    BY <1>1, <1>9 DEF IInv, DecidedOnce
  <2>2. "REVOKED" \in Kept /\ "REVOKED" \notin Waits /\ "CANCELLED" \notin Kept
    BY DEF Kept, Waits
  <2>3. object[held[c]].status \in Kept
    BY <2>1 DEF AssignmentsAreKept
  <2>4. \A o \in Object : IsHeld(o)' => IsHeld(o)
    BY <1>4 DEF IsHeld
  <2>5. WaitingIsAlone'
    BY <1>1, <1>2, <1>3, <2>1, <2>2, <2>3, <2>4 DEF WaitingIsAlone, IsHeld
  <2>6. AssignmentsAreKept'
    BY <1>1, <1>3, <1>4, <2>1, <2>2, BusyHolds DEF AssignmentsAreKept
  <2> QED BY <2>5, <2>6
<1> QED BY <1>5, <1>7, <1>8, <1>9 DEF IInv, FollowInv, DecidedOnce

LEMMA CorrectDriftPreserves ==
  ASSUME IInv, NEW c \in Call, CorrectDrift(c) \/ Corrected(c)
  PROVE  IInv'
<1> DEFINE mine == object[held[c]]
<1>1. /\ TypeOK /\ CallsHold /\ at[c] \in AskStep /\ task[c] = "assignments"
      /\ UNCHANGED << sent, portal, expired, unanswered, resubmitted >>
  BY DEF IInv, CorrectDrift, Corrected, At, authority, history, AskStep
<1>2. /\ task[c] \in Follow /\ held[c] \in Object /\ mine \in AccessRequest
  BY <1>1, Asking
<1>3. sent' \subseteq Ticket /\ unanswered' \in BOOLEAN
  BY <1>1 DEF TypeOK
<1>4. CASE UpdateAndEnd(c, mine)
  <2>1. /\ ~resubmitted => DecisionTrue(mine)
        /\ ~unanswered' /\ ~resubmitted => mine.status \notin Waits \cup {"CANCELLED"}
    BY <1>1, LookingAfter
  <2> HIDE DEF mine
  <2>2. object[held[c]] = mine
    BY DEF mine
  <2> QED BY <1>1, <1>2, <1>3, <1>4, <2>1, <2>2, UpdatePreserves
<1>5. CASE /\ stored' = held[c] /\ object' = [object EXCEPT ![held[c]].status = "REVOKED"]
           /\ Goto(c, "assignments", "corrected", held[c], asked[c])
  BY <1>1, <1>5, RevokedInPlacePreserves DEF authority, history
<1>6. CASE Leave(c)
  BY <1>1, <1>3, <1>6, LeavePreserves
<1> QED BY <1>4, <1>5, <1>6 DEF CorrectDrift, Corrected

LEMMA RevokeAssignmentPreserves ==
  ASSUME IInv, NEW c \in Call, RevokeAssignment(c)
  PROVE  IInv'
<1> DEFINE mine    == object[held[c]]
           changed == [mine EXCEPT !.status = "REVOKED"]
<1>1. /\ TypeOK /\ CallsHold /\ at[c] \in AskStep /\ task[c] = "revocations"
      /\ UNCHANGED << sent, portal, expired, unanswered, resubmitted >>
  BY DEF IInv, RevokeAssignment, At, authority, history, AskStep
<1>2. /\ task[c] \in Follow /\ held[c] \in Object /\ mine \in AccessRequest
  BY <1>1, Asking
<1>3. sent' \subseteq Ticket /\ unanswered' \in BOOLEAN
  BY <1>1 DEF TypeOK
<1>4. CASE UpdateAndEnd(c, changed)
  <2>1. /\ changed \in AccessRequest /\ changed.ticket = mine.ticket
        /\ changed.status = "REVOKED"
    BY <1>2 DEF AccessRequest, AccessRequestStatus
  <2>2. DecisionTrue(changed) /\ changed.status \notin Waits /\ changed.status \in Kept
    BY <2>1 DEF DecisionTrue, Waits, Kept
  <2>3. ~unanswered' /\ ~resubmitted => mine.status # "CANCELLED"
    BY <1>1, LookingAfter
  <2> HIDE DEF changed
  <2> QED BY <1>1, <1>2, <1>3, <1>4, <2>1, <2>2, <2>3, UpdatePreserves
<1>5. CASE Leave(c)
  BY <1>1, <1>3, <1>5, LeavePreserves
<1> QED BY <1>4, <1>5 DEF RevokeAssignment

-----------------------------------------------------------------------------
(* The environment.                                                         *)

\* What a copy is made of: an approved request, one whose access ends, or, when
\* the window has passed, one that may be cancelled.
Copied(from, to) ==
    \/ from = "APPROVED" /\ to = "FULFILLED"
    \/ from = "FULFILLED" /\ to = "REVOCATION_PENDING"
    \/ from # "CANCELLED" /\ to = "CANCELLED" /\ expired

LEMMA CopiesAre ==
  ASSUME TypeOK, Fulfill \/ StartRevocation \/ CancelExpired
  PROVE  \E from \in AccessRequestStatus, to \in AccessRequestStatus :
            Copied(from, to) /\ StoreCopy(from, to)
<1>1. Request.status \in AccessRequestStatus
  BY DEF TypeOK, Request, AccessRequest
<1>2. "CANCELLED" \notin ValidTransitions["CANCELLED"]
  BY DEF ValidTransitions
<1>3. CASE Fulfill
  BY <1>3 DEF Fulfill, Copied, AccessRequestStatus
<1>4. CASE StartRevocation
  BY <1>4 DEF StartRevocation, Copied, AccessRequestStatus
<1>5. CASE CancelExpired
  <2>1. Request.status # "CANCELLED" /\ expired /\ StoreCopy(Request.status, "CANCELLED")
    BY <1>2, <1>5 DEF CancelExpired, CanTransition
  <2>2. "CANCELLED" \in AccessRequestStatus
    BY DEF AccessRequestStatus
  <2> QED BY <1>1, <2>1, <2>2 DEF Copied
<1> QED BY <1>3, <1>4, <1>5

\* A copy does not wait for a decision; one that is not cancelled replaces an
\* object that does not wait either.
LEMMA StoreCopyPreserves ==
  ASSUME IInv, NEW from \in AccessRequestStatus, NEW to \in AccessRequestStatus,
         Copied(from, to), StoreCopy(from, to)
  PROVE  IInv'
<1> DEFINE copy    == CHOOSE o \in Object : IsFree(o)
           changed == [Request EXCEPT !.status = to]
<1>1. /\ TypeOK /\ CallsHold /\ Request.status = from /\ stored' = copy
      /\ object' = Collect([object EXCEPT ![copy] = changed], copy, Call)
      /\ UNCHANGED << sent, portal, task, at, held, asked, expired, unanswered, resubmitted >>
      /\ to \notin Waits
  BY DEF IInv, StoreCopy, authority, callVars, history, Waits, Copied
<1>2. copy \in Object /\ copy # stored /\ \A c \in Call : held[c] # copy
  BY DEF StoreCopy, IsFree
<1>3. Request \in AccessRequest /\ stored \in Object /\ Request = object[stored]
  BY <1>1 DEF TypeOK, Request
<1>4. changed \in AccessRequest /\ changed.status = to /\ changed.ticket = Request.ticket
  BY <1>3 DEF AccessRequest
<1> HIDE DEF copy, changed
<1>5. \A o \in Object :
          object'[o] = IF o = copy THEN changed
                       ELSE IF \E d \in Call : held[d] = o THEN object[o] ELSE Blank
  BY <1>1, <1>2 DEF Collect, TypeOK
<1>6. \A d \in Call : held[d] \in Object => object'[held[d]] = object[held[d]]
  BY <1>2, <1>5
<1>7. TypeOK'
  <2>1. object' \in [Object -> AccessRequest]
    BY <1>1, <1>2, <1>4, BlankIsTrue DEF Collect, TypeOK
  <2> QED BY <1>1, <1>2, <2>1 DEF TypeOK
<1>8. CallsHold'
  BY <1>1, <1>6, Distinct DEF CallsHold
<1>9. ASSUME ~resubmitted'
      PROVE  ObjectsTrue' /\ CallsFollow'
  <2>1. ObjectsTrue /\ CallsFollow /\ DecisionTrue(Request)
    BY <1>1, <1>3, <1>9 DEF IInv, FollowInv, ObjectsTrue
  <2>2. DecisionTrue(changed)
    BY <1>1, <1>4, <2>1 DEF DecisionTrue, Copied
  <2>3. \A o \in Object : DecisionTrue(object'[o])
    BY <1>5, <2>1, <2>2, BlankIsTrue DEF ObjectsTrue
  <2>4. Request'.ticket = Request.ticket
    BY <1>1, <1>2, <1>4, <1>5 DEF Request
  <2>5. CallsFollow'
    BY <1>1, <1>6, <2>1, <2>4, Distinct DEF CallsFollow, CallsHold
  <2> QED BY <1>1, <2>3, <2>5 DEF ObjectsTrue, DecisionTrue
<1>10. ASSUME ~unanswered', ~resubmitted'
       PROVE  WaitingIsAlone' /\ AssignmentsAreKept'
  <2>1. WaitingIsAlone /\ AssignmentsAreKept
    BY <1>1, <1>10 DEF IInv, DecidedOnce
  <2>2. WaitingIsAlone'
    <3> SUFFICES ASSUME NEW o \in Object, NEW p \in Object, IsHeld(o)', IsHeld(p)', o # p,
                        object'[o].status \in Waits
                 PROVE  object'[p].status = "CANCELLED" /\ expired'
      BY DEF WaitingIsAlone
    <3>1. o # copy
      BY <1>1, <1>4, <1>5
    <3>2. /\ \E d \in Call : held[d] = o
          /\ object[o].status \in Waits /\ IsHeld(o)
      BY <1>1, <1>5, <3>1 DEF IsHeld
    <3>3. CASE p = copy
      <4>1. from \in Waits \cup {"CANCELLED"}
        BY <1>1, <1>3, <2>1, <3>2 DEF WaitingIsAlone, IsHeld
      <4>2. to = "CANCELLED" /\ expired
        BY <4>1 DEF Copied, Waits
      <4> QED BY <1>1, <1>4, <1>5, <3>3, <4>2
    <3>4. CASE p # copy
      <4>1. IsHeld(p) /\ object'[p] = object[p]
        BY <1>1, <1>5, <3>4 DEF IsHeld
      <4> QED BY <1>1, <2>1, <3>2, <4>1 DEF WaitingIsAlone
    <3> QED BY <3>3, <3>4
  <2>3. AssignmentsAreKept'
    BY <1>1, <1>6, <2>1, BusyHolds DEF AssignmentsAreKept
  <2> QED BY <2>2, <2>3
<1> QED BY <1>7, <1>8, <1>9, <1>10 DEF IInv, FollowInv, DecidedOnce

\* A decision falls on a request nobody knows a decision on, and a window stays
\* closed.
LEMMA AuthorityPreserves ==
  ASSUME IInv, Expire \/ \E t \in Ticket : Decide(t)
  PROVE  IInv'
<1>1. /\ TypeOK /\ CallsHold
      /\ UNCHANGED << stored, object, sent, task, at, held, asked, unanswered, resubmitted >>
  BY DEF IInv, Decide, Expire, store, authority, callVars, history
<1>2. /\ portal' \in [Ticket -> PortalState] /\ expired' \in BOOLEAN /\ (expired => expired')
      /\ \A u \in Ticket : portal[u] # "open" => portal'[u] = portal[u]
  BY <1>1 DEF TypeOK, Decide, Expire, authority, PortalState
<1>3. TypeOK'
  BY <1>1, <1>2 DEF TypeOK
<1>4. CallsHold'
  BY <1>1 DEF CallsHold
<1>5. ASSUME ~resubmitted
      PROVE  ObjectsTrue' /\ CallsFollow'
  <2>1. ObjectsTrue /\ CallsFollow
    BY <1>5 DEF IInv, FollowInv
  <2>2. \A o \in Object : object[o].ticket \in Ticket \cup {Null}
    BY <1>1 DEF TypeOK, AccessRequest
  <2>3. ObjectsTrue'
    BY <1>1, <1>2, <2>1, <2>2 DEF ObjectsTrue, DecisionTrue
  <2>4. CallsFollow'
    BY <1>1, <2>1 DEF CallsFollow, Request
  <2> QED BY <2>3, <2>4
<1>6. ASSUME WaitingIsAlone, AssignmentsAreKept
      PROVE  WaitingIsAlone' /\ AssignmentsAreKept'
  BY <1>1, <1>2, <1>6 DEF WaitingIsAlone, IsHeld, AssignmentsAreKept
<1> QED BY <1>1, <1>3, <1>4, <1>5, <1>6 DEF IInv, FollowInv, DecidedOnce

-----------------------------------------------------------------------------

LEMMA InitIInv ==
  ASSUME Init
  PROVE  IInv
<1>1. stored \in Object
  BY GovernedAssumption DEF Init
<1>2. PICK s \in Start :
          object = [[o \in Object |-> Blank] EXCEPT
              ![stored] = [Blank EXCEPT !.status = s.status, !.provider = s.provider,
                                        !.owner = s.owner]]
  BY DEF Init
<1> DEFINE first == [Blank EXCEPT !.status = s.status, !.provider = s.provider,
                                  !.owner = s.owner]
<1>3. first \in AccessRequest /\ DecisionTrue(first)
  BY GovernedAssumption DEF Blank, AccessRequest, AccessRequestStatus, DecisionTrue
<1> HIDE DEF first
<1>4. \A o \in Object : object[o] = IF o = stored THEN first ELSE Blank
  BY <1>1, <1>2 DEF first
<1>5. TypeOK
  <2>1. object \in [Object -> AccessRequest]
    BY <1>2, <1>3, BlankIsTrue DEF first
  <2> QED BY <1>1, <2>1 DEF Init, TypeOK, PortalState, Task, Step
<1>6. ObjectsTrue
  BY <1>3, <1>4, BlankIsTrue DEF ObjectsTrue
<1>7. CallsHold /\ CallsFollow /\ \A c \in Call : held[c] = Null
  BY Distinct DEF Init, CallsHold, CallsFollow
<1>8. WaitingIsAlone
  BY <1>7, GovernedAssumption DEF WaitingIsAlone, IsHeld
<1>9. AssignmentsAreKept
  BY DEF Init, AssignmentsAreKept
<1> QED BY <1>5, <1>6, <1>7, <1>8, <1>9 DEF IInv, FollowInv, DecidedOnce

LEMMA NextIInv ==
  ASSUME IInv, [Next]_vars
  PROVE  IInv'
<1>1. ASSUME NEW c \in Call, Submit(c) \/ Reconcile(c)
      PROVE  IInv'
  BY <1>1, SubmitPreserves, BeginPreserves
<1>2. ASSUME NEW c \in Call, CallStep(c)
      PROVE  IInv'
  BY <1>2, ResolveSubjectPreserves, SubmitRequestPreserves, SubmittedPreserves,
     TurnPreserves, GetRequestStatusPreserves, GetAssignmentPreserves,
     CorrectDriftPreserves, RevokeAssignmentPreserves DEF CallStep
<1>3. ASSUME NEW c \in Call, NEW scan \in Scan, List(c, scan)
      PROVE  IInv'
  BY <1>3, BeginPreserves
<1>4. CASE Fulfill \/ StartRevocation \/ CancelExpired
  BY <1>4, CopiesAre, StoreCopyPreserves DEF IInv
<1>5. CASE Expire \/ \E t \in Ticket : Decide(t)
  BY <1>5, AuthorityPreserves
<1>6. CASE UNCHANGED vars
  BY <1>6 DEF vars, store, authority, callVars, history, IInv, TypeOK, FollowInv, ObjectsTrue,
     DecisionTrue, CallsHold, CallsFollow, DecidedOnce, WaitingIsAlone, IsHeld,
     AssignmentsAreKept, Request
<1> QED BY <1>1, <1>2, <1>3, <1>4, <1>5, <1>6 DEF Next

-----------------------------------------------------------------------------
(* What the store holds after a step.                                       *)

LEMMA EndsStore ==
  ASSUME TypeOK, NEW c \in Call
  PROVE  /\ Leave(c) => Request' = Request
         /\ \A changed : UpdateAndEnd(c, changed) /\ held[c] \in Object => Request' = changed
<1>1. ASSUME Leave(c)
      PROVE  Request' = Request
  BY <1>1 DEF Leave, Collect, Request, TypeOK
<1>2. ASSUME NEW changed, UpdateAndEnd(c, changed), held[c] \in Object
      PROVE  Request' = changed
  BY <1>2 DEF UpdateAndEnd, Collect, Request, TypeOK
<1> QED BY <1>1, <1>2

LEMMA AnswerTaken ==
  ASSUME IInv, NEW c \in Call, GetRequestStatus(c), ~unanswered', ~resubmitted',
         Request'.status # Request.status
  PROVE  Request.status \in Waits \/ (Request.status = "CANCELLED" /\ expired)
<1>1. TypeOK /\ CallsHold /\ at[c] = "asking" /\ ~resubmitted
  BY DEF IInv, GetRequestStatus
<1>2. held[c] \in Object /\ held[c] # Null /\ stored \in Object
  BY <1>1, Asking DEF AskStep, TypeOK
<1>3. ~Leave(c)
  BY <1>1, EndsStore
<1>4. Waiting(c) /\ ~unanswered
  BY <1>1, <1>3 DEF GetRequestStatus, Take, TypeOK
<1>5. object[held[c]].status \in Waits
  BY <1>4 DEF Waiting, Waits
<1>6. WaitingIsAlone
  BY <1>1, <1>4 DEF IInv, DecidedOnce
<1> QED BY <1>2, <1>5, <1>6 DEF WaitingIsAlone, IsHeld, Request

LEMMA AssignmentStep ==
  ASSUME IInv, NEW c \in Call, ~unanswered', ~resubmitted',
         GetAssignment(c) \/ CorrectDrift(c) \/ Corrected(c) \/ RevokeAssignment(c)
  PROVE  Request' = Request \/ Request'.status \notin Decided
<1>1. /\ TypeOK /\ CallsHold /\ at[c] \in AskStep /\ ~unanswered /\ ~resubmitted
      /\ task[c] \in { "assignments", "revocations" }
  BY DEF IInv, GetAssignment, CorrectDrift, Corrected, RevokeAssignment, At, AskStep, history
<1>2. /\ held[c] \in Object /\ object[held[c]] \in AccessRequest
      /\ object[held[c]].status \in Kept
  BY <1>1, Asking, LookingAfter
<1>3. Kept \cap Decided = {} /\ "REVOKED" \notin Decided
  BY DEF Kept, Decided
<1>4. CASE Leave(c) \/ UNCHANGED store
  BY <1>1, <1>4, EndsStore DEF Request, store
<1>5. CASE UpdateAndEnd(c, [object[held[c]] EXCEPT !.status = "REVOKED"])
  <2>1. Request' = [object[held[c]] EXCEPT !.status = "REVOKED"]
    BY <1>1, <1>2, <1>5, EndsStore
  <2> QED BY <1>2, <1>3, <2>1 DEF AccessRequest
<1>6. CASE UpdateAndEnd(c, object[held[c]])
  <2>1. Request' = object[held[c]]
    BY <1>1, <1>2, <1>6, EndsStore
  <2> QED BY <1>2, <1>3, <2>1
<1>7. CASE stored' = held[c] /\ object' = [object EXCEPT ![held[c]].status = "REVOKED"]
  <2>1. Request'.status = "REVOKED"
    BY <1>1, <1>2, <1>7 DEF Request, TypeOK, AccessRequest
  <2> QED BY <1>3, <2>1
<1> QED BY <1>4, <1>5, <1>6, <1>7
    DEF GetAssignment, CorrectDrift, Corrected, RevokeAssignment, At

LEMMA OtherStep ==
  ASSUME IInv, [Next]_vars, \A c \in Call : ~GetRequestStatus(c), ~unanswered', ~resubmitted'
  PROVE  \/ Request'.status = Request.status \/ Request'.status \notin Decided
         \/ Request'.status = "CANCELLED" /\ expired
<1>1. TypeOK /\ CallsHold
  BY DEF IInv
<1>2. ASSUME NEW c \in Call,
             Submit(c) \/ Reconcile(c) \/ ResolveSubject(c) \/ Turn(c)
             \/ \E scan \in Scan : List(c, scan)
      PROVE  Request' = Request
  BY <1>2 DEF Submit, Reconcile, ResolveSubject, Turn, List, store, Request
<1>3. ASSUME NEW c \in Call, SubmitRequest(c)
      PROVE  Request' = Request
  <2>1. Leave(c) \/ UNCHANGED << stored, object >>
    BY <1>3 DEF SubmitRequest, store
  <2> QED BY <1>1, <2>1, EndsStore DEF Request
<1>4. ASSUME NEW c \in Call, Submitted(c)
      PROVE  \/ Request'.status \notin Decided
             \/ Request'.status = "CANCELLED" /\ expired
  <2>1. /\ held[c] \in Object /\ ~resubmitted /\ task[c] = "submit"
        /\ object[held[c]] \in AccessRequest
    BY <1>1, <1>4, Distinct, BusyHolds DEF TypeOK, Submitted, At, history
  <2>2. /\ object[held[c]].ticket = Null /\ DecisionTrue(object[held[c]])
    BY <2>1 DEF IInv, FollowInv, CallsFollow, ObjectsTrue
  <2>3. Request' = [object[held[c]] EXCEPT !.ticket = asked[c]]
    BY <1>1, <1>4, <2>1, EndsStore DEF Submitted
  <2>4. Request'.status = object[held[c]].status
    BY <2>1, <2>3 DEF AccessRequest
  <2> QED BY <2>2, <2>4 DEF DecisionTrue, Decided
<1>5. ASSUME NEW from \in AccessRequestStatus, NEW to \in AccessRequestStatus,
             Copied(from, to), StoreCopy(from, to)
      PROVE  Request'.status \notin Decided \/ (Request'.status = "CANCELLED" /\ expired)
  <2> DEFINE copy == CHOOSE o \in Object : IsFree(o)
  <2>1. copy \in Object /\ Request \in AccessRequest
    BY <1>1, <1>5 DEF StoreCopy, TypeOK, Request
  <2>2. Request' = [Request EXCEPT !.status = to]
    BY <1>1, <1>5, <2>1 DEF StoreCopy, Collect, TypeOK, Request
  <2>3. Request'.status = to
    BY <2>1, <2>2 DEF AccessRequest
  <2> QED BY <1>5, <2>3 DEF Copied, Decided
<1>6. ASSUME Fulfill \/ StartRevocation \/ CancelExpired
      PROVE  Request'.status \notin Decided \/ (Request'.status = "CANCELLED" /\ expired)
  BY <1>1, <1>5, <1>6, CopiesAre
<1>7. ASSUME Expire \/ \E t \in Ticket : Decide(t)
      PROVE  Request' = Request
  BY <1>7 DEF Decide, Expire, store, Request
<1>8. CASE UNCHANGED vars
  BY <1>8 DEF vars, store, Request
<1> QED BY <1>2, <1>3, <1>4, <1>6, <1>7, <1>8, AssignmentStep DEF Next, CallStep

-----------------------------------------------------------------------------

\* The inductive invariant holds: objects of the request are typed, whoever asks
\* has a ticket, and, unless the request is submitted again, what the objects
\* hold is true and what waits for a decision is alone.
THEOREM InductiveInvariant == Spec => []IInv
<1>1. Init => IInv
  BY InitIInv
<1>2. IInv /\ [Next]_vars => IInv'
  BY NextIInv
<1> QED BY <1>1, <1>2, PTL DEF Spec

\* submitGovernedRequest and the three reconcilers keep the shapes of the
\* store, the authority and their own progress.
THEOREM TypeCorrect == Spec => []TypeOK
<1>1. IInv => TypeOK
  BY DEF IInv
<1> QED BY <1>1, InductiveInvariant, PTL

\* reconcileGovernance, reconcilePendingRequests, the window's cancellation and
\* whatever overwrites their objects leave a request that is submitted once with
\* the authority's decision on its own ticket, or with the end of its window.
THEOREM AuthorityIsFollowed == Spec => []FollowsTheAuthority
<1>1. IInv => FollowsTheAuthority
  BY DEF IInv, FollowInv, TypeOK, ObjectsTrue, DecisionTrue, FollowsTheAuthority, TheDecision,
     Request
<1> QED BY <1>1, InductiveInvariant, PTL

\* A decision that reconcilePendingRequests or reconcileGovernance takes over
\* is taken over by a request that waits for one, or that the window's end has
\* cancelled since they asked, however many of them asked.
THEOREM DecisionsApplyOnce == Spec => DecisionAppliesOnce
<1> DEFINE A == /\ ~unanswered' /\ ~resubmitted'
                /\ Request'.status \in Decided /\ Request'.status # Request.status
                => \/ Request.status \in { "PENDING_APPROVAL", "AWAITING_AUTHORITY_DECISION" }
                   \/ expired /\ "CANCELLED" \in { Request.status, Request'.status }
<1>1. ASSUME IInv, [Next]_vars
      PROVE  A
  BY <1>1, AnswerTaken, OtherStep DEF Waits
<1>2. IInv /\ [Next]_vars => [A]_vars
  BY <1>1
<1> QED BY <1>2, InductiveInvariant, PTL DEF Spec, DecisionAppliesOnce

=============================================================================
