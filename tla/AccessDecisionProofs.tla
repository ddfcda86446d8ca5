------------------------- MODULE AccessDecisionProofs -------------------------
(***************************************************************************)
(* Safety of deciding on access requests for every number of requests,     *)
(* approvers and overlapping calls, and that these calls implement         *)
(* AccessGrant.  The lock lets calls that waited for it in together, so    *)
(* nothing here rests on it.  What holds, holds by the version check of    *)
(* the store and by the idempotency key.                                   *)
(***************************************************************************)
EXTENDS AccessDecision, TLAPS

USE DecisionAssumption

\* The statuses a decision or a fulfillment gives a row.
Reached == { "PENDING_APPROVAL", "APPROVED", "DENIED", "CANCELLED",
             "FULFILLING", "FULFILLED", "FAILED" }

\* The statuses that share a version: an outcome is written without a new one.
Outcomes == { "FULFILLING", "FULFILLED", "FAILED" }

\* Somebody entitled to has approved the row, and nobody has denied it.
Granted(x) ==
    /\ x.authority = "local"
    /\ x.approvedBy \notin { Nobody, Requester }
    /\ x.deniedBy = Nobody

\* What a row's status says of its decision.
Sound(x) ==
    /\ x.status \in Reached
    /\ x.status = "PENDING_APPROVAL" => x.approvedBy = Nobody /\ x.deniedBy = Nobody
    /\ x.status \in Outcomes \cup {"APPROVED"} => Granted(x)
    /\ x.status = "DENIED" => x.deniedBy # Nobody

\* y is x, or what later writes have made of it.  The version tells two rows
\* apart, except for the outcomes of one fulfillment.
Current(x, y) ==
    /\ x.version <= y.version
    /\ Granted(x) => Granted(y)
    /\ x.version = y.version =>
         /\ y.approvedBy = x.approvedBy
         /\ y.deniedBy = x.deniedBy
         /\ y.authority = x.authority
         /\ y.status = x.status \/ (x.status \in Outcomes /\ y.status \in Outcomes)

\* What DecisionIsFinal and ClosedStaysClosed say of one row.
Keeps(x, y) ==
    /\ x.approvedBy # Nobody => y.approvedBy = x.approvedBy
    /\ x.deniedBy # Nobody => y.deniedBy = x.deniedBy
    /\ x.status = "CANCELLED" => y.status = "CANCELLED"
    /\ x.status = "DENIED" => y.status \in { "DENIED", "CANCELLED" }

\* Whichever handler a call comes from.
LEMMA ArgsAreTyped == Args = [request : Request, approver : Approver, decision : Decision]
BY DEF Args, ApproveRoute, DenyRoute, ApproveButton, DenyButton, Decision

Outside == { "idle", "waiting" }
Executing == Granting \cup { "fulfilling", "succeeded", "failed" }
Committed == Executing \cup { "audited", "current" }

RowsSound == \A r \in DOMAIN row : Sound(row[r])
ReadsSound == \A c \in Call : Sound(read[c])

\* Who decides, or waits to, does so on a request that exists.
TargetsExist == \A c \in Call : pc[c] # "idle" => target(c) \in DOMAIN row

\* What a call has read is at most out of date.
ReadsCurrent ==
    \A c \in Call : pc[c] \notin Outside => Current(read[c], row[target(c)])

GrantsAreMarked == \A c \in Call : pc[c] \in Granting => target(c) \in marked

CommittedAreGranted ==
    \A c \in Call : pc[c] \in Committed => Granted(row[target(c)])

\* Finish never writes on the strength of anything but a FULFILLING row.
ExecutingIsFulfilling ==
    \A c \in Call : pc[c] \in Executing => read[c].status = "FULFILLING"

MembersAreGranted ==
    \A r \in Request : membership[r] # "absent" => r \in DOMAIN row /\ Granted(row[r])

\* The inductive invariant.
IInv ==
    /\ TypeOK
    /\ SingleGrant
    /\ GrantsAreMarked
    /\ RowsSound
    /\ ReadsSound
    /\ TargetsExist
    /\ ReadsCurrent
    /\ CommittedAreGranted
    /\ ExecutingIsFulfilling
    /\ MembersAreGranted

-----------------------------------------------------------------------------
(* Rows.                                                                    *)

LEMMA CurrentIsReflexive ==
  ASSUME NEW x \in Row
  PROVE  Current(x, x)
  BY DEF Current, Row

LEMMA CurrentIsTransitive ==
  ASSUME NEW x \in Row, NEW y \in Row, NEW z \in Row, Current(x, y), Current(y, z)
  PROVE  Current(x, z)
<1>1. x.version \in Nat /\ y.version \in Nat /\ z.version \in Nat
  BY DEF Row
<1>2. x.version <= z.version /\ (Granted(x) => Granted(z))
  BY <1>1 DEF Current
<1>3. x.version = z.version => x.version = y.version /\ y.version = z.version
  BY <1>1 DEF Current
<1> QED BY <1>2, <1>3 DEF Current

\* What a call writes over a row whose version it has follows that row, as it
\* follows what the call has read.
LEMMA WrittenIsCurrent ==
  ASSUME NEW x \in Row, NEW y \in Row, NEW z \in Row,
         Current(x, y), x.version = y.version, Current(x, z), Keeps(x, z)
  PROVE  Current(y, z) /\ Keeps(y, z)
<1>1. /\ y.approvedBy = x.approvedBy /\ y.deniedBy = x.deniedBy
      /\ y.authority = x.authority
      /\ y.status = x.status \/ (x.status \in Outcomes /\ y.status \in Outcomes)
  BY DEF Current
<1>2. Granted(y) => Granted(z)
  BY <1>1 DEF Current, Granted
<1>3. Keeps(y, z)
  BY <1>1 DEF Keeps, Outcomes
<1> QED BY <1>1, <1>2, <1>3 DEF Current

\* The rows of VALID_TRANSITIONS that approve() and fulfillRequest lean on.
LEMMA TableOfDecisions ==
  ASSUME NEW s \in Reached
  PROVE  /\ CanTransition(s, "APPROVED") => s = "PENDING_APPROVAL"
         /\ CanTransition(s, "DENIED") => s = "PENDING_APPROVAL"
         /\ CanTransition(s, "FULFILLING") => s \in { "APPROVED", "FAILED" }
         /\ CanTransition(s, "CANCELLED") => s \notin { "CANCELLED", "FULFILLING" }
  BY DEF CanTransition, ValidTransitions, Reached

\* A step of one call keeps the invariant and everything decided.
Preserved ==
    IInv' /\ \A r \in DOMAIN row : Keeps(row[r], row'[r])

-----------------------------------------------------------------------------
(* The steps that write a row.                                              *)

LEMMA WriteStep ==
  ASSUME IInv, NEW c \in Call, NEW new \in Row, NEW next \in Stage,
         pc[c] \notin Outside, Write(c, new, next), Quiet,
         approved' \in [Call -> { "APPROVED", "FULFILLING" }],
         Sound(new), Current(read[c], new), Keeps(read[c], new),
         next \notin Outside \cup Granting,
         next \in Committed => Granted(new),
         next \in Executing => new.status = "FULFILLING"
  PROVE  Preserved
<1> USE DEF IInv
<1>0. /\ read[c] \in Row /\ target(c) \in DOMAIN row /\ row[target(c)] \in Row
      /\ Current(read[c], row[target(c)]) /\ pc[c] # "idle"
  BY DEF TypeOK, TargetsExist, ReadsCurrent, Outside
<1>2. CASE row[target(c)].version # read[c].version
  <2>1. row' = row /\ read' = read /\ pc' = [pc EXCEPT ![c] = "leaving"]
    BY <1>2 DEF Write, Goto
  <2>2. /\ pc'[c] = "leaving"
        /\ \A d \in Call : d # c => pc'[d] = pc[d]
        /\ args' = args
    BY <2>1 DEF TypeOK, Quiet
  <2>3. TypeOK'
    BY <2>1 DEF TypeOK, Stage, Quiet
  <2>4. SingleGrant' /\ GrantsAreMarked' /\ TargetsExist' /\ ReadsCurrent'
    BY <1>0, <2>1, <2>2 DEF SingleGrant, GrantsAreMarked, TargetsExist, ReadsCurrent,
       Granting, Outside, Quiet, target
  <2>5. CommittedAreGranted' /\ ExecutingIsFulfilling'
    BY <2>1, <2>2 DEF CommittedAreGranted, ExecutingIsFulfilling, Committed, Executing,
       Granting, target
  <2>6. RowsSound' /\ ReadsSound' /\ MembersAreGranted'
    BY <2>1 DEF RowsSound, ReadsSound, MembersAreGranted, Quiet
  <2>7. \A r \in DOMAIN row : Keeps(row[r], row'[r])
    BY <2>1 DEF Keeps
  <2> QED BY <2>3, <2>4, <2>5, <2>6, <2>7 DEF Preserved
<1>3. CASE row[target(c)].version = read[c].version
  <2>1. /\ row' = [row EXCEPT ![target(c)] = new]
        /\ read' = [read EXCEPT ![c] = new]
        /\ pc' = [pc EXCEPT ![c] = next]
    BY <1>3 DEF Write, Goto
  <2>2. /\ pc'[c] = next /\ read'[c] = new
        /\ \A d \in Call : d # c => pc'[d] = pc[d] /\ read'[d] = read[d]
        /\ args' = args
    BY <2>1 DEF TypeOK, Quiet
  <2>3. /\ DOMAIN row' = DOMAIN row
        /\ \A r \in DOMAIN row : row'[r] = IF r = target(c) THEN new ELSE row[r]
    BY <2>1
  <2>4. TypeOK'
    <3>1. pc' \in [Call -> Stage] /\ read' \in [Call -> Row]
      BY <2>1 DEF TypeOK
    <3>2. DOMAIN row' \subseteq Request /\ \A r \in DOMAIN row' : row'[r] \in Row
      BY <2>3 DEF TypeOK
    <3> QED BY <3>1, <3>2 DEF TypeOK, Quiet
  <2>5. Current(row[target(c)], new) /\ Keeps(row[target(c)], new)
    BY <1>0, <1>3, WrittenIsCurrent
  <2>6. \A r \in DOMAIN row : Current(row[r], row'[r]) /\ Keeps(row[r], row'[r])
    BY <2>3, <2>5, CurrentIsReflexive DEF TypeOK, Keeps
  <2>7. \A r \in DOMAIN row : Granted(row[r]) => Granted(row'[r])
    BY <2>6 DEF Current
  <2>8. SingleGrant' /\ GrantsAreMarked' /\ TargetsExist'
    BY <1>0, <2>2, <2>3 DEF SingleGrant, GrantsAreMarked, TargetsExist, Granting,
       Outside, Quiet, target
  <2>9. RowsSound' /\ ReadsSound'
    BY <2>2, <2>3 DEF RowsSound, ReadsSound
  <2>10. ReadsCurrent'
    <3> SUFFICES ASSUME NEW d \in Call, pc'[d] \notin Outside
                 PROVE  Current(read'[d], row'[target(d)])
      BY <2>2 DEF ReadsCurrent, target
    <3>1. CASE d = c
      BY <1>0, <2>2, <2>3, <3>1, CurrentIsReflexive
    <3>2. CASE d # c
      <4>1. target(d) \in DOMAIN row /\ Current(read[d], row[target(d)])
        BY <2>2, <3>2 DEF TargetsExist, ReadsCurrent, Outside
      <4>2. /\ read[d] \in Row /\ row[target(d)] \in Row /\ row'[target(d)] \in Row
            /\ read'[d] = read[d]
        BY <2>2, <2>3, <2>4, <3>2, <4>1 DEF TypeOK
      <4> QED BY <4>1, <4>2, <2>6, CurrentIsTransitive
    <3> QED BY <3>1, <3>2
  <2>11. CommittedAreGranted'
    BY <1>0, <2>2, <2>3, <2>7 DEF CommittedAreGranted, TargetsExist, target,
       Committed, Executing, Granting
  <2>12. ExecutingIsFulfilling'
    BY <2>2 DEF ExecutingIsFulfilling
  <2>13. MembersAreGranted'
    BY <2>3, <2>7 DEF MembersAreGranted, Quiet
  <2> QED BY <2>4, <2>6, <2>8, <2>9, <2>10, <2>11, <2>12, <2>13 DEF Preserved
<1> QED BY <1>2, <1>3

\* The row a call writes is the one it has read, with a new status.
LEMMA MovedRow ==
  ASSUME IInv, NEW c \in Call, NEW s \in AccessRequestStatus
  PROVE  /\ Moved(c, s) \in Row
         /\ Moved(c, s).status = s
         /\ Moved(c, s).version = read[c].version + 1
         /\ Moved(c, s).approvedBy = read[c].approvedBy
         /\ Moved(c, s).deniedBy = read[c].deniedBy
         /\ Moved(c, s).authority = read[c].authority
         /\ Current(read[c], Moved(c, s))
<1>1. read[c] \in Row
  BY DEF IInv, TypeOK
<1>2. /\ Moved(c, s) \in Row
      /\ Moved(c, s).status = s
      /\ Moved(c, s).version = read[c].version + 1
      /\ Moved(c, s).approvedBy = read[c].approvedBy
      /\ Moved(c, s).deniedBy = read[c].deniedBy
      /\ Moved(c, s).authority = read[c].authority
  <2> DEFINE x == read[c]
  <2>1. Moved(c, s) = [status |-> s, version |-> x.version + 1,
                       approvedBy |-> x.approvedBy, deniedBy |-> x.deniedBy,
                       authority |-> x.authority]
    <3>1. x = [status |-> x.status, version |-> x.version,
               approvedBy |-> x.approvedBy, deniedBy |-> x.deniedBy,
               authority |-> x.authority]
      BY <1>1 DEF Row
    <3>2. Moved(c, s) = [x EXCEPT !.status = s, !.version = x.version + 1]
      BY DEF Moved
    <3> HIDE DEF x
    <3> QED BY <3>1, <3>2
  <2>2. /\ x.version + 1 \in Nat /\ x.approvedBy \in Approver \cup {Nobody}
        /\ x.deniedBy \in Approver \cup {Nobody} /\ x.authority \in Authority \cup {"local"}
    BY <1>1 DEF Row
  <2> QED BY <2>1, <2>2 DEF Row
<1>3. read[c].version \in Nat
  BY <1>1 DEF Row
<1>4. Current(read[c], Moved(c, s))
  BY <1>2, <1>3 DEF Current, Granted
<1> QED BY <1>2, <1>4

LEMMA CancelExpiredPreserves ==
  ASSUME IInv, NEW c \in Call, CancelExpired(c)
  PROVE  Preserved
<1> DEFINE new == Moved(c, "CANCELLED")
<1>1. read[c].status \in Reached /\ "CANCELLED" \in AccessRequestStatus
  BY DEF IInv, ReadsSound, Sound, AccessRequestStatus
<1>2. new \in Row /\ Current(read[c], new) /\ new.status = "CANCELLED"
  BY <1>1, MovedRow
<1>3. Sound(new)
  BY <1>2 DEF Sound, Reached, Outcomes
<1>4. Keeps(read[c], new)
  BY <1>1, MovedRow DEF Keeps
<1>5. /\ Write(c, new, "leaving") /\ Quiet /\ pc[c] \notin Outside
      /\ approved' \in [Call -> { "APPROVED", "FULFILLING" }]
  BY DEF CancelExpired, IInv, TypeOK, Outside
<1>6. "leaving" \in Stage /\ "leaving" \notin Outside \cup Granting \cup Committed \cup Executing
  BY DEF Stage, Outside, Granting, Committed, Executing
<1> HIDE DEF new
<1> QED BY <1>2, <1>3, <1>4, <1>5, <1>6, WriteStep

LEMMA RetryFailedPreserves ==
  ASSUME IInv, NEW c \in Call, RetryFailed(c)
  PROVE  Preserved
<1> DEFINE new == Moved(c, "FULFILLING")
<1>1. Sound(read[c]) /\ read[c].status = "FAILED"
  BY DEF IInv, ReadsSound, RetryFailed, Retries
<1>2. /\ new \in Row /\ Current(read[c], new) /\ new.status = "FULFILLING"
      /\ new.approvedBy = read[c].approvedBy /\ new.deniedBy = read[c].deniedBy
      /\ new.authority = read[c].authority
  BY MovedRow DEF AccessRequestStatus
<1>3. Granted(new)
  BY <1>1, <1>2 DEF Sound, Granted, Outcomes
<1>4. Sound(new) /\ Keeps(read[c], new)
  BY <1>1, <1>2, <1>3 DEF Sound, Keeps, Reached
<1>5. /\ Write(c, new, "audited") /\ Quiet /\ pc[c] \notin Outside
      /\ approved' \in [Call -> { "APPROVED", "FULFILLING" }]
  BY DEF RetryFailed, IInv, TypeOK, Outside
<1>6. "audited" \in Stage /\ "audited" \notin Outside \cup Granting \cup Executing
  BY DEF Stage, Outside, Granting, Executing
<1> HIDE DEF new
<1> QED BY <1>2, <1>3, <1>4, <1>5, <1>6, WriteStep

LEMMA ApprovePreserves ==
  ASSUME IInv, NEW c \in Call, Approve(c)
  PROVE  Preserved
<1> DEFINE new == [Moved(c, "APPROVED") EXCEPT !.approvedBy = by(c)]
<1>1. Sound(read[c]) /\ read[c].status = "PENDING_APPROVAL"
  BY TableOfDecisions DEF IInv, ReadsSound, Sound, Approve, Approves
<1>2. by(c) \in Approver \ {Requester} /\ read[c].authority = "local"
  BY ArgsAreTyped DEF Approve, Approves, Admitted, IInv, TypeOK, by
<1>3. read[c] \in Row /\ read[c].approvedBy = Nobody /\ read[c].deniedBy = Nobody
  BY <1>1 DEF IInv, TypeOK, Sound
<1>4. /\ new \in Row
      /\ new.status = "APPROVED" /\ new.version = read[c].version + 1
      /\ new.approvedBy = by(c) /\ new.deniedBy = Nobody /\ new.authority = "local"
  <2>1. /\ Moved(c, "APPROVED") \in Row
        /\ Moved(c, "APPROVED").status = "APPROVED"
        /\ Moved(c, "APPROVED").version = read[c].version + 1
        /\ Moved(c, "APPROVED").deniedBy = Nobody
        /\ Moved(c, "APPROVED").authority = "local"
    BY <1>2, <1>3, MovedRow DEF AccessRequestStatus
  <2> QED BY <1>2, <2>1 DEF Row
<1>5. Granted(new)
  BY <1>2, <1>4 DEF Granted
<1>6. Current(read[c], new)
  BY <1>3, <1>4, <1>5 DEF Current, Row
<1>7. Sound(new) /\ Keeps(read[c], new)
  BY <1>1, <1>3, <1>4, <1>5 DEF Sound, Keeps, Reached
<1>8. /\ Write(c, new, "audited") /\ Quiet /\ pc[c] \notin Outside
      /\ approved' \in [Call -> { "APPROVED", "FULFILLING" }]
  BY DEF Approve, IInv, TypeOK, Outside
<1>9. "audited" \in Stage /\ "audited" \notin Outside \cup Granting \cup Executing
  BY DEF Stage, Outside, Granting, Executing
<1> HIDE DEF new
<1> QED BY <1>4, <1>5, <1>6, <1>7, <1>8, <1>9, WriteStep

LEMMA DenyPreserves ==
  ASSUME IInv, NEW c \in Call, Deny(c)
  PROVE  Preserved
<1> DEFINE new == [Moved(c, "DENIED") EXCEPT !.deniedBy = by(c)]
<1>1. Sound(read[c]) /\ read[c].status = "PENDING_APPROVAL"
  BY TableOfDecisions DEF IInv, ReadsSound, Sound, Deny, Denies
<1>2. by(c) \in Approver
  BY ArgsAreTyped DEF IInv, TypeOK, by
<1>3. read[c] \in Row /\ read[c].approvedBy = Nobody /\ read[c].deniedBy = Nobody
  BY <1>1 DEF IInv, TypeOK, Sound
<1>4. /\ new \in Row
      /\ new.status = "DENIED" /\ new.version = read[c].version + 1
      /\ new.approvedBy = Nobody /\ new.deniedBy = by(c)
  <2>1. /\ Moved(c, "DENIED") \in Row
        /\ Moved(c, "DENIED").status = "DENIED"
        /\ Moved(c, "DENIED").version = read[c].version + 1
        /\ Moved(c, "DENIED").approvedBy = Nobody
    BY <1>3, MovedRow DEF AccessRequestStatus
  <2> QED BY <1>2, <2>1 DEF Row
<1>5. Current(read[c], new)
  BY <1>3, <1>4 DEF Current, Row, Granted
<1>6. Sound(new) /\ Keeps(read[c], new)
  BY <1>1, <1>2, <1>3, <1>4 DEF Sound, Keeps, Reached, Outcomes
<1>7. /\ Write(c, new, "leaving") /\ Quiet /\ pc[c] \notin Outside
      /\ approved' \in [Call -> { "APPROVED", "FULFILLING" }]
  BY DEF Deny, IInv, TypeOK, Outside
<1>8. "leaving" \in Stage /\ "leaving" \notin Outside \cup Granting \cup Committed \cup Executing
  BY DEF Stage, Outside, Granting, Committed, Executing
<1> HIDE DEF new
<1> QED BY <1>4, <1>5, <1>6, <1>7, <1>8, WriteStep

LEMMA FinishPreserves ==
  ASSUME IInv, NEW c \in Call, Finish(c)
  PROVE  Preserved
<1> DEFINE outcome == IF pc[c] = "succeeded" THEN "FULFILLED" ELSE "FAILED"
           new == [read[c] EXCEPT !.status = outcome]
<1>1. Sound(read[c]) /\ read[c].status = "FULFILLING" /\ read[c] \in Row
  BY DEF IInv, ReadsSound, ExecutingIsFulfilling, Finish, Executing, TypeOK
<1>2. /\ new \in Row /\ new.status \in { "FULFILLED", "FAILED" }
      /\ new.version = read[c].version /\ new.approvedBy = read[c].approvedBy
      /\ new.deniedBy = read[c].deniedBy /\ new.authority = read[c].authority
  BY <1>1 DEF Row, AccessRequestStatus
<1>3. Granted(new)
  BY <1>1, <1>2 DEF Sound, Granted, Outcomes
<1>4. Sound(new) /\ Keeps(read[c], new)
  BY <1>1, <1>2, <1>3 DEF Sound, Keeps, Reached
<1>5. Current(read[c], new)
  BY <1>1, <1>2, <1>3 DEF Current, Outcomes, Row
<1>6. /\ Write(c, new, "leaving") /\ Quiet /\ pc[c] \notin Outside
      /\ approved' \in [Call -> { "APPROVED", "FULFILLING" }]
  BY DEF Finish, IInv, TypeOK, Outside
<1>7. "leaving" \in Stage /\ "leaving" \notin Outside \cup Granting \cup Committed \cup Executing
  BY DEF Stage, Outside, Granting, Committed, Executing
<1> HIDE DEF new
<1> QED BY <1>2, <1>4, <1>5, <1>6, <1>7, WriteStep

-----------------------------------------------------------------------------
(* The steps that write no row.                                             *)

LEMMA MoveStep ==
  ASSUME IInv, NEW c \in Call, NEW next \in Stage \ Outside,
         pc[c] \notin Outside, Goto(c, next),
         UNCHANGED << row, open, lock, args, waitsOn >>,
         read' \in { read, [read EXCEPT ![c] = RowFor(c)] },
         approved' \in [Call -> { "APPROVED", "FULFILLING" }],
         marked \subseteq marked', marked' \subseteq Request,
         membership' \in [Request -> {"absent", "pending", "active"}],
         \A r \in Request : membership'[r] # membership[r] =>
                              r = target(c) /\ pc[c] \in Committed,
         next \in Committed =>
             pc[c] \in Committed \/ Granted(row[target(c)]),
         next \in Executing => read'[c].status = "FULFILLING",
         next \in Granting =>
             /\ pc[c] \in Granting \/ target(c) \notin marked
             /\ target(c) \in marked'
  PROVE  Preserved
<1> USE DEF IInv
<1>0. /\ read[c] \in Row /\ target(c) \in DOMAIN row /\ row[target(c)] \in Row
      /\ Current(read[c], row[target(c)]) /\ Sound(row[target(c)])
  BY DEF TypeOK, TargetsExist, ReadsCurrent, RowsSound, Outside
<1>1. /\ pc' \in [Call -> Stage] /\ pc'[c] = next
      /\ \A d \in Call : d # c => pc'[d] = pc[d]
  BY DEF TypeOK, Goto
<1>2. /\ read' \in [Call -> Row]
      /\ read'[c] = read[c] \/ read'[c] = row[target(c)]
      /\ \A d \in Call : d # c => read'[d] = read[d]
  BY <1>0 DEF TypeOK, RowFor
<1>3. TypeOK'
  BY <1>1, <1>2 DEF TypeOK
<1>4. SingleGrant'
  BY <1>1 DEF SingleGrant, GrantsAreMarked, Granting, target
<1>5. GrantsAreMarked'
  BY <1>1 DEF GrantsAreMarked, target
<1>6. RowsSound' /\ ReadsSound' /\ TargetsExist'
  BY <1>0, <1>1, <1>2 DEF RowsSound, ReadsSound, TargetsExist, Outside, target
<1>7. ReadsCurrent'
  BY <1>0, <1>1, <1>2, CurrentIsReflexive DEF ReadsCurrent, target
<1>8. CommittedAreGranted'
  BY <1>1 DEF CommittedAreGranted, target
<1>9. ExecutingIsFulfilling'
  BY <1>1, <1>2 DEF ExecutingIsFulfilling
<1>10. MembersAreGranted'
  BY <1>0 DEF MembersAreGranted, CommittedAreGranted
<1>11. \A r \in DOMAIN row : Keeps(row[r], row'[r])
  BY DEF Keeps
<1> QED BY <1>3, <1>4, <1>5, <1>6, <1>7, <1>8, <1>9, <1>10, <1>11 DEF Preserved

LEMMA RepeatApprovalPreserves ==
  ASSUME IInv, NEW c \in Call, RepeatApproval(c)
  PROVE  Preserved
<1> USE DEF IInv
<1>1. read[c].status = "APPROVED" /\ Sound(read[c]) /\ pc[c] \notin Outside
  BY DEF RepeatApproval, Repeats, ReadsSound, Outside
<1>2. Granted(row[target(c)])
  BY <1>1 DEF Sound, ReadsCurrent, Current
<1>3. approved' \in [Call -> { "APPROVED", "FULFILLING" }]
  BY <1>1 DEF RepeatApproval, TypeOK
<1>4. /\ UNCHANGED << row, open, lock, args, waitsOn, read, marked, membership >>
      /\ Goto(c, "audited")
  BY DEF RepeatApproval, Quiet
<1>5. "audited" \in Stage \ Outside /\ "audited" \notin Granting \cup Executing
  BY DEF Stage, Outside, Granting, Executing
<1> QED BY <1>1, <1>2, <1>3, <1>4, <1>5, MoveStep DEF TypeOK

\* A call that gives up.
LEMMA GiveUpPreserves ==
  ASSUME IInv, NEW c \in Call, pc[c] \notin Outside, Goto(c, "leaving"),
         UNCHANGED << row, open, lock, marked, membership, args, waitsOn, read, approved >>
  PROVE  Preserved
<1>1. "leaving" \in Stage \ Outside /\ "leaving" \notin Granting \cup Executing \cup Committed
  BY DEF Stage, Outside, Granting, Executing, Committed
<1> QED BY <1>1, MoveStep DEF IInv, TypeOK

LEMMA FulfillPreserves ==
  ASSUME IInv, NEW c \in Call, Fulfill(c)
  PROVE  Preserved
<1>1. pc[c] = "audited" /\ "audited" \in Committed /\ "audited" \notin Outside
  BY DEF Fulfill, Committed, Outside
<1>2. CASE Goto(c, "leaving") /\ UNCHANGED read
  BY <1>1, <1>2, GiveUpPreserves DEF Fulfill, Quiet
<1>3. CASE Goto(c, "current") /\ read' = [read EXCEPT ![c] = RowFor(c)]
  <2>1. "current" \in Stage \ Outside /\ "current" \notin Granting \cup Executing
    BY DEF Stage, Outside, Granting, Executing
  <2> QED BY <1>1, <1>3, <2>1, MoveStep DEF IInv, TypeOK, Fulfill, Quiet
<1> QED BY <1>2, <1>3 DEF Fulfill

LEMMA StartFulfillmentPreserves ==
  ASSUME IInv, NEW c \in Call, StartFulfillment(c)
  PROVE  Preserved
<1> DEFINE new == Moved(c, "FULFILLING")
           next == IF approved[c] = "APPROVED" THEN "fulfilling" ELSE "leaving"
<1>1. /\ pc[c] = "current" /\ "current" \in Committed /\ "current" \notin Outside
      /\ Quiet /\ approved' = approved
  BY DEF StartFulfillment, Committed, Outside
<1>2. CASE Goto(c, "leaving") /\ UNCHANGED << row, read >>
  BY <1>1, <1>2, GiveUpPreserves DEF Quiet
<1>3. CASE /\ read[c].status = "FULFILLING"
           /\ Goto(c, "fulfilling") /\ UNCHANGED << row, read >>
  <2>1. "fulfilling" \in Stage \ Outside /\ "fulfilling" \notin Granting
    BY DEF Stage, Outside, Granting
  <2> QED BY <1>1, <1>3, <2>1, MoveStep DEF IInv, TypeOK, Quiet
<1>4. CASE CanTransition(read[c].status, "FULFILLING") /\ Write(c, new, next)
  <2>1. Sound(read[c]) /\ read[c].status \in { "APPROVED", "FAILED" }
    BY <1>4, TableOfDecisions DEF IInv, ReadsSound, Sound
  <2>2. /\ new \in Row /\ Current(read[c], new) /\ new.status = "FULFILLING"
        /\ new.approvedBy = read[c].approvedBy /\ new.deniedBy = read[c].deniedBy
        /\ new.authority = read[c].authority
    BY MovedRow DEF AccessRequestStatus
  <2>3. Granted(new)
    BY <2>1, <2>2 DEF Sound, Granted, Outcomes
  <2>4. Sound(new) /\ Keeps(read[c], new)
    BY <2>1, <2>2, <2>3 DEF Sound, Keeps, Reached
  <2>5. next \in Stage /\ next \notin Outside \cup Granting
    BY DEF Stage, Outside, Granting
  <2>6. approved' \in [Call -> { "APPROVED", "FULFILLING" }]
    BY <1>1 DEF IInv, TypeOK
  <2> HIDE DEF new, next
  <2> QED BY <1>1, <1>4, <2>2, <2>3, <2>4, <2>5, <2>6, WriteStep
<1> QED BY <1>2, <1>3, <1>4 DEF StartFulfillment

LEMMA GrantPreserves ==
  ASSUME IInv, NEW c \in Call, Grant(c)
  PROVE  Preserved
<1>1. /\ pc[c] = "fulfilling" /\ pc[c] \in Committed \cap Executing /\ pc[c] \notin Outside
      /\ read[c].status = "FULFILLING" /\ target(c) \in Request
  BY ArgsAreTyped
  DEF Grant, Committed, Executing, Outside, IInv, ExecutingIsFulfilling, TypeOK, target
<1>2. /\ marked' = marked \cup {target(c)} /\ marked' \subseteq Request
      /\ UNCHANGED << row, open, lock, membership, args, waitsOn, read, approved >>
  BY <1>1 DEF Grant, IInv, TypeOK
<1>3. PICK next \in { "succeeded", "preflight", "leaving" } :
         /\ Goto(c, next)
         /\ next = "preflight" => target(c) \notin marked
  BY DEF Grant
<1>4. next \in Stage \ Outside /\ (next \in Granting => target(c) \notin marked)
  BY <1>3 DEF Stage, Outside, Granting
<1> QED BY <1>1, <1>2, <1>3, <1>4, MoveStep DEF IInv, TypeOK

\* A step of grant() from one provider call to the next.
LEMMA ProviderStepPreserves ==
  ASSUME IInv, NEW c \in Call, pc[c] \in Granting,
         NEW next \in Granting \cup { "succeeded", "failed", "leaving" }, Goto(c, next),
         UNCHANGED << row, open, lock, marked, args, waitsOn, read, approved >>,
         membership' \in [Request -> {"absent", "pending", "active"}],
         \A r \in Request : membership'[r] # membership[r] => r = target(c)
  PROVE  Preserved
<1>1. /\ pc[c] \in Committed \cap Executing /\ pc[c] \notin Outside
      /\ read[c].status = "FULFILLING" /\ target(c) \in marked
  BY DEF Granting, Committed, Executing, Outside, IInv, ExecutingIsFulfilling, GrantsAreMarked
<1>2. next \in Stage \ Outside
  BY DEF Stage, Outside, Granting
<1> QED BY <1>1, <1>2, MoveStep DEF IInv, TypeOK

LEMMA PreflightChecksPreserves ==
  ASSUME IInv, NEW c \in Call, PreflightChecks(c)
  PROVE  Preserved
<1>1. pc[c] \in Granting
  BY DEF PreflightChecks, Granting
<1>2. PICK next \in Granting \cup { "succeeded", "failed", "leaving" } : Goto(c, next)
  BY DEF PreflightChecks, GrantFails, Granting
<1> QED BY <1>1, <1>2, ProviderStepPreserves DEF PreflightChecks, Quiet, IInv, TypeOK

LEMMA CheckMembershipPreserves ==
  ASSUME IInv, NEW c \in Call, CheckMembership(c)
  PROVE  Preserved
<1>1. pc[c] \in Granting
  BY DEF CheckMembership, Granting
<1>2. PICK next \in Granting \cup { "succeeded", "failed", "leaving" } : Goto(c, next)
  BY DEF CheckMembership, GrantFails, Granting
<1> QED BY <1>1, <1>2, ProviderStepPreserves DEF CheckMembership, Quiet, IInv, TypeOK

LEMMA PutMembershipPreserves ==
  ASSUME IInv, NEW c \in Call, PutMembership(c)
  PROVE  Preserved
<1>1. pc[c] \in Granting
  BY DEF PutMembership, Granting
<1>2. PICK next \in Granting \cup { "succeeded", "failed", "leaving" } : Goto(c, next)
  BY DEF PutMembership, GrantFails, Granting
<1>3. /\ membership' \in [Request -> {"absent", "pending", "active"}]
      /\ \A r \in Request : membership'[r] # membership[r] => r = target(c)
  BY DEF PutMembership, IInv, TypeOK
<1> QED BY <1>1, <1>2, <1>3, ProviderStepPreserves DEF PutMembership

LEMMA VerifyMembershipPreserves ==
  ASSUME IInv, NEW c \in Call, VerifyMembership(c)
  PROVE  Preserved
<1>1. pc[c] \in Granting
  BY DEF VerifyMembership, Granting
<1>2. PICK next \in Granting \cup { "succeeded", "failed", "leaving" } : Goto(c, next)
  BY DEF VerifyMembership, GrantFails, Granting
<1> QED BY <1>1, <1>2, ProviderStepPreserves DEF VerifyMembership, Quiet, IInv, TypeOK

LEMMA AnswerPreserves ==
  ASSUME IInv, NEW c \in Call, Answer(c)
  PROVE  Preserved
  BY GiveUpPreserves DEF Answer, Outside, Quiet

-----------------------------------------------------------------------------
(* Entering and leaving the lock: calls begin, with the row as it is.       *)

LEMMA EnterStep ==
  ASSUME IInv, NEW C \in SUBSET Call,
         \A d \in C : pc[d] \in Outside /\ pc'[d] = "read" /\ target(d) \in DOMAIN row,
         \A d \in Call \ C : pc'[d] = pc[d] \/ (pc[d] = "leaving" /\ pc'[d] = "done"),
         pc' \in [Call -> Stage],
         read' = [d \in Call |-> IF d \in C THEN RowFor(d) ELSE read[d]],
         lock' \in [Request -> Call \cup {NoCall}],
         UNCHANGED << row, open, marked, membership, args, waitsOn, approved >>
  PROVE  Preserved
<1> USE DEF IInv
<1>1. \A d \in C : RowFor(d) = row[target(d)] /\ RowFor(d) \in Row /\ Sound(RowFor(d))
  BY DEF RowFor, RowsSound, TypeOK
<1>2. TypeOK'
  BY <1>1 DEF TypeOK
<1>3. SingleGrant' /\ GrantsAreMarked'
  BY DEF SingleGrant, GrantsAreMarked, Granting, target
<1>4. RowsSound' /\ ReadsSound' /\ TargetsExist'
  BY <1>1 DEF RowsSound, ReadsSound, TargetsExist, target
<1>5. ReadsCurrent'
  BY <1>1, CurrentIsReflexive DEF ReadsCurrent, Outside, target
<1>6. CommittedAreGranted' /\ ExecutingIsFulfilling'
  BY DEF CommittedAreGranted, ExecutingIsFulfilling, Committed, Executing, Granting, target
<1>7. MembersAreGranted' /\ \A r \in DOMAIN row : Keeps(row[r], row'[r])
  BY DEF MembersAreGranted, Keeps
<1> QED BY <1>2, <1>3, <1>4, <1>5, <1>6, <1>7 DEF Preserved

LEMMA DecideAccessRequestPreserves ==
  ASSUME IInv, NEW c \in Call, DecideAccessRequest(c)
  PROVE  Preserved
<1>0. /\ pc[c] = "idle" /\ target(c) \in DOMAIN row /\ target(c) \in Request
      /\ UNCHANGED << row, open, marked, membership, args, approved >>
  BY DEF DecideAccessRequest, IInv, TypeOK
<1>1. CASE Enter({c}, target(c)) /\ pc' = [pc EXCEPT ![c] = "read"] /\ UNCHANGED waitsOn
  <2>1. /\ pc' \in [Call -> Stage] /\ pc'[c] = "read"
        /\ \A d \in Call \ {c} : pc'[d] = pc[d]
    BY <1>1 DEF IInv, TypeOK, Stage
  <2>2. lock' \in [Request -> Call \cup {NoCall}]
    BY <1>0, <1>1 DEF Enter, IInv, TypeOK
  <2>4. read' = [d \in Call |-> IF d \in {c} THEN RowFor(d) ELSE read[d]]
    BY <1>1 DEF Enter
  <2>3. pc[c] \in Outside
    BY <1>0 DEF Outside
  <2> QED BY <1>0, <1>1, <2>1, <2>2, <2>3, <2>4, EnterStep
<1>2. CASE /\ waitsOn' = [waitsOn EXCEPT ![c] = lock[target(c)]]
           /\ pc' = [pc EXCEPT ![c] = "waiting"]
           /\ UNCHANGED << lock, read >>
  <2> USE DEF IInv
  <2>1. /\ pc' \in [Call -> Stage] /\ pc'[c] = "waiting"
        /\ \A d \in Call \ {c} : pc'[d] = pc[d]
    BY <1>2 DEF TypeOK, Stage
  <2>2. TypeOK'
    BY <1>0, <1>2, <2>1 DEF TypeOK
  <2>3. SingleGrant' /\ GrantsAreMarked' /\ TargetsExist'
    BY <1>0, <2>1 DEF SingleGrant, GrantsAreMarked, TargetsExist, Granting, target
  <2>4. RowsSound' /\ ReadsSound' /\ MembersAreGranted'
    BY <1>0, <1>2 DEF RowsSound, ReadsSound, MembersAreGranted
  <2>5. ReadsCurrent' /\ CommittedAreGranted' /\ ExecutingIsFulfilling'
    BY <1>0, <1>2, <2>1 DEF ReadsCurrent, CommittedAreGranted, ExecutingIsFulfilling,
       Outside, Committed, Executing, Granting, target
  <2>6. \A r \in DOMAIN row : Keeps(row[r], row'[r])
    BY <1>0 DEF Keeps
  <2> QED BY <2>2, <2>3, <2>4, <2>5, <2>6 DEF Preserved
<1> QED BY <1>1, <1>2 DEF DecideAccessRequest

LEMMA LeavePreserves ==
  ASSUME IInv, NEW c \in Call, Leave(c)
  PROVE  Preserved
<1> DEFINE C == Waiters(c)
<1>1. C \subseteq Call /\ c \notin C /\ target(c) \in Request
  BY ArgsAreTyped DEF Waiters, Leave, IInv, TypeOK, target
<1>2. pc' \in [Call -> Stage]
  BY DEF Leave, IInv, TypeOK, Stage
<1>3. \A d \in C : pc[d] \in Outside /\ pc'[d] = "read" /\ target(d) \in DOMAIN row
  BY <1>1 DEF Waiters, Leave, Outside, IInv, TargetsExist
<1>4. \A d \in Call \ C : pc'[d] = pc[d] \/ (pc[d] = "leaving" /\ pc'[d] = "done")
  BY DEF Leave
<1>5. lock' \in [Request -> Call \cup {NoCall}]
  BY <1>1 DEF Leave, Enter, IInv, TypeOK
<1>6. read' = [d \in Call |-> IF d \in C THEN RowFor(d) ELSE read[d]]
  <2>1. CASE C = {} /\ UNCHANGED read
    BY <2>1 DEF IInv, TypeOK
  <2>2. CASE Enter(C, target(c))
    BY <2>2 DEF Enter
  <2> QED BY <2>1, <2>2 DEF Leave
<1>7. UNCHANGED << row, open, marked, membership, args, waitsOn, approved >>
  BY DEF Leave
<1> HIDE DEF C
<1> QED BY <1>1, <1>2, <1>3, <1>4, <1>5, <1>6, <1>7, EnterStep

-----------------------------------------------------------------------------
(* The environment.                                                         *)

LEMMA CreateAccessRequestPreserves ==
  ASSUME IInv, NEW r \in Request, CreateAccessRequest(r)
  PROVE  Preserved
<1> USE DEF IInv
<1>1. PICK a \in Authority \cup {"local"} :
         row' = [s \in DOMAIN row \cup {r} |->
                   IF s = r THEN [NewRow EXCEPT !.authority = a] ELSE row[s]]
  BY DEF CreateAccessRequest
<1> DEFINE new == [NewRow EXCEPT !.authority = a]
<1>2. new \in Row /\ Sound(new)
  <2>1. new = [status |-> "PENDING_APPROVAL", version |-> 0, approvedBy |-> Nobody,
               deniedBy |-> Nobody, authority |-> a]
    BY DEF NewRow
  <2> QED BY <2>1 DEF Row, Sound, Reached, Outcomes, AccessRequestStatus
<1>3. /\ r \notin DOMAIN row /\ DOMAIN row' = DOMAIN row \cup {r} /\ row'[r] = new
      /\ \A s \in DOMAIN row : row'[s] = row[s]
      /\ UNCHANGED << open, lock, marked, membership, pc, args, waitsOn, read, approved >>
  BY <1>1 DEF CreateAccessRequest, callVars
<1> HIDE DEF new
<1>4. TypeOK'
  BY <1>2, <1>3 DEF TypeOK
<1>5. SingleGrant' /\ GrantsAreMarked' /\ ReadsSound' /\ ExecutingIsFulfilling'
  BY <1>3 DEF SingleGrant, GrantsAreMarked, ReadsSound, ExecutingIsFulfilling, target
<1>6. RowsSound' /\ TargetsExist' /\ MembersAreGranted'
  BY <1>2, <1>3 DEF RowsSound, TargetsExist, MembersAreGranted, target
<1>7. ReadsCurrent' /\ CommittedAreGranted'
  BY <1>3 DEF ReadsCurrent, CommittedAreGranted, TargetsExist, Outside, Committed,
     Executing, Granting, target
<1>8. \A s \in DOMAIN row : Keeps(row[s], row'[s])
  BY <1>3 DEF Keeps
<1> QED BY <1>4, <1>5, <1>6, <1>7, <1>8 DEF Preserved

\* A step that leaves the rows, the calls and the keys alone.
LEMMA OutsideStep ==
  ASSUME IInv, UNCHANGED << row, lock, marked, callVars >>,
         open' \in [Request -> BOOLEAN],
         membership' \in [Request -> {"absent", "pending", "active"}],
         \A r \in Request : membership'[r] # "absent" => membership[r] # "absent"
  PROVE  Preserved
<1> USE DEF IInv, callVars
<1>1. TypeOK'
  BY DEF TypeOK
<1>2. SingleGrant' /\ GrantsAreMarked' /\ RowsSound' /\ ReadsSound' /\ TargetsExist'
  BY DEF SingleGrant, GrantsAreMarked, RowsSound, ReadsSound, TargetsExist, target
<1>3. ReadsCurrent' /\ CommittedAreGranted' /\ ExecutingIsFulfilling'
  BY DEF ReadsCurrent, CommittedAreGranted, ExecutingIsFulfilling, target
<1>4. MembersAreGranted' /\ \A r \in DOMAIN row : Keeps(row[r], row'[r])
  BY DEF MembersAreGranted, Keeps
<1> QED BY <1>1, <1>2, <1>3, <1>4 DEF Preserved

LEMMA CloseWindowPreserves ==
  ASSUME IInv, NEW r \in Request, CloseWindow(r)
  PROVE  Preserved
<1>1. open' \in [Request -> BOOLEAN]
  BY DEF CloseWindow, IInv, TypeOK
<1> QED BY <1>1, OutsideStep DEF CloseWindow, IInv, TypeOK

LEMMA AcceptInvitationPreserves ==
  ASSUME IInv, NEW r \in Request, AcceptInvitation(r)
  PROVE  Preserved
<1>1. /\ membership' \in [Request -> {"absent", "pending", "active"}]
      /\ \A s \in Request : membership'[s] # "absent" => membership[s] # "absent"
  BY DEF AcceptInvitation, IInv, TypeOK
<1> QED BY <1>1, OutsideStep DEF AcceptInvitation, IInv, TypeOK

-----------------------------------------------------------------------------
(* The theorems.                                                            *)

LEMMA InitIInv == Init => IInv
<1> SUFFICES ASSUME Init PROVE IInv
  OBVIOUS
<1>1. /\ DOMAIN row = {} /\ pc = [c \in Call |-> "idle"]
      /\ membership = [r \in Request |-> "absent"]
  BY DEF Init
<1>2. NewRow \in Row /\ Sound(NewRow)
  BY DEF NewRow, Row, Sound, Reached, Outcomes, AccessRequestStatus
<1>3. TypeOK
  <2>1. open \in [Request -> BOOLEAN] /\ lock \in [Request -> Call \cup {NoCall}]
    BY DEF Init
  <2>2. pc \in [Call -> Stage] /\ read \in [Call -> Row]
    BY <1>2 DEF Init, Stage
  <2> QED BY <1>1, <2>1, <2>2 DEF Init, TypeOK
<1>4. SingleGrant /\ GrantsAreMarked /\ TargetsExist /\ RowsSound /\ MembersAreGranted
  BY <1>1 DEF SingleGrant, GrantsAreMarked, TargetsExist, RowsSound, MembersAreGranted,
     Granting
<1>5. ReadsSound
  BY <1>2 DEF Init, ReadsSound
<1>6. ReadsCurrent /\ CommittedAreGranted /\ ExecutingIsFulfilling
  BY <1>1 DEF ReadsCurrent, CommittedAreGranted, ExecutingIsFulfilling, Outside,
     Committed, Executing, Granting
<1> QED BY <1>3, <1>4, <1>5, <1>6 DEF IInv

LEMMA StepPreserves ==
  ASSUME IInv, NEW c \in Call, Step(c)
  PROVE  Preserved
<1>1. CASE CancelExpired(c) \/ RepeatApproval(c) \/ RetryFailed(c)
  BY <1>1, CancelExpiredPreserves, RepeatApprovalPreserves, RetryFailedPreserves
<1>2. CASE Approve(c) \/ Deny(c) \/ Answer(c)
  BY <1>2, ApprovePreserves, DenyPreserves, AnswerPreserves
<1>3. CASE Fulfill(c) \/ StartFulfillment(c) \/ Grant(c)
  BY <1>3, FulfillPreserves, StartFulfillmentPreserves, GrantPreserves
<1>4. CASE PreflightChecks(c) \/ CheckMembership(c) \/ PutMembership(c)
           \/ VerifyMembership(c)
  BY <1>4, PreflightChecksPreserves, CheckMembershipPreserves, PutMembershipPreserves,
     VerifyMembershipPreserves
<1>5. CASE Finish(c) \/ Leave(c)
  BY <1>5, FinishPreserves, LeavePreserves
<1> QED BY <1>1, <1>2, <1>3, <1>4, <1>5 DEF Step

LEMMA NextPreserves == IInv /\ [Next]_vars => Preserved
<1> SUFFICES ASSUME IInv, [Next]_vars PROVE Preserved
  OBVIOUS
<1>1. CASE UNCHANGED vars
  BY <1>1, OutsideStep DEF vars, IInv, TypeOK
<1>2. ASSUME NEW r \in Request,
             CreateAccessRequest(r) \/ CloseWindow(r) \/ AcceptInvitation(r)
      PROVE  Preserved
  BY <1>2, CreateAccessRequestPreserves, CloseWindowPreserves, AcceptInvitationPreserves
<1>3. ASSUME NEW c \in Call, DecideAccessRequest(c) \/ Step(c)
      PROVE  Preserved
  BY <1>3, DecideAccessRequestPreserves, StepPreserves
<1> QED BY <1>1, <1>2, <1>3 DEF Next

\* The inductive invariant holds throughout, for any number of calls that
\* decideAccessRequest lets overlap.
THEOREM InductiveInvariant == Spec => []IInv
<1>1. IInv /\ [Next]_vars => IInv'
  BY NextPreserves DEF Preserved
<1> QED BY InitIInv, <1>1, PTL DEF Spec

\* Every state the calls of decideAccessRequest reach is well typed.
THEOREM TypeCorrect == Spec => []TypeOK
<1>1. IInv => TypeOK
  BY DEF IInv
<1> QED BY InductiveInvariant, <1>1, PTL

\* One call at a time is between checkAndMark and the last provider call of
\* grant() for a request, although the lock of the service lets several in.
THEOREM OneGrant == Spec => []SingleGrant
<1>1. IInv => SingleGrant
  BY DEF IInv
<1> QED BY InductiveInvariant, <1>1, PTL

\* grant() changes the membership only for requests that decideAccessRequest
\* has approved in the name of somebody other than the requester.
THEOREM MembershipIsApproved == Spec => []GrantNeedsApproval
<1>1. IInv => GrantNeedsApproval
  BY DEF IInv, GrantNeedsApproval, MembersAreGranted, Granted
<1> QED BY InductiveInvariant, <1>1, PTL

\* A request that approve() has denied has no membership: no overlapping call
\* grants it before or after.
THEOREM DenialIsRespected == Spec => []DeniedNeverGranted
<1>1. IInv => DeniedNeverGranted
  BY DEF IInv, TypeOK, DeniedNeverGranted, MembersAreGranted, RowsSound, Sound, Granted
<1> QED BY InductiveInvariant, <1>1, PTL

\* No write of a row, each made from a copy read before, loses or replaces the
\* name of whoever approved or denied the request.
THEOREM DecisionsAreFinal == Spec => DecisionIsFinal
<1>1. IInv /\ [Next]_vars =>
        [ \A r \in DOMAIN row :
            /\ row[r].approvedBy # Nobody => row'[r].approvedBy = row[r].approvedBy
            /\ row[r].deniedBy # Nobody => row'[r].deniedBy = row[r].deniedBy ]_vars
  BY NextPreserves DEF Preserved, Keeps
<1> QED BY InductiveInvariant, <1>1, PTL DEF Spec, DecisionIsFinal

\* No write of a row brings a cancelled or denied request back.
THEOREM ClosedIsFinal == Spec => ClosedStaysClosed
<1>1. IInv /\ [Next]_vars =>
        [ \A r \in DOMAIN row :
            /\ row[r].status = "CANCELLED" => row'[r].status = "CANCELLED"
            /\ row[r].status = "DENIED" => row'[r].status \in { "DENIED", "CANCELLED" } ]_vars
  BY NextPreserves DEF Preserved, Keeps
<1> QED BY InductiveInvariant, <1>1, PTL DEF Spec, ClosedStaysClosed

-----------------------------------------------------------------------------
(* AccessDecision implements AccessGrant.                                   *)

AccessVars == << Verdict, Decider, Closed, marked, membership >>
AccessStep == Access!GrantNext \/ UNCHANGED AccessVars

Ended == { "FULFILLED", "FAILED" }

\* Before its key is set no fulfillment of a request has ended: from FULFILLING
\* it goes nowhere, and who has read that still finds it so.
UnmarkedIsStarting ==
    /\ \A r \in DOMAIN row : r \notin marked => row[r].status \notin Ended
    /\ \A c \in Call :
          pc[c] \notin Outside /\ target(c) \notin marked /\ read[c].status \in Outcomes
            => read[c].status = "FULFILLING" /\ row[target(c)].status = "FULFILLING"

EndedAreMarked ==
    \A c \in Call : pc[c] \in { "succeeded", "failed" } => target(c) \in marked

\* Between the GET that finds no member and the PUT nobody else is granting.
AbsentAtPut ==
    \A c \in Call : pc[c] = "putting" => membership[target(c)] = "absent"

\* What the refinement needs of the order of grants.
OneGiving == UnmarkedIsStarting /\ EndedAreMarked /\ AbsentAtPut

LEMMA AtAnAwait ==
  ASSUME IInv, NEW c \in Call, pc[c] \notin Outside
  PROVE  /\ target(c) \in DOMAIN row /\ target(c) \in Request
         /\ read[c] \in Row /\ row[target(c)] \in Row
         /\ Sound(read[c]) /\ Sound(row[target(c)])
         /\ Current(read[c], row[target(c)])
  BY DEF IInv, TypeOK, TargetsExist, ReadsSound, RowsSound, ReadsCurrent, Outside

\* A write of a row, or the conflict that stops it.
LEMMA WriteKeepsOrder ==
  ASSUME IInv, OneGiving, NEW c \in Call, NEW new \in Row, NEW next \in Stage,
         pc[c] \notin Outside, Write(c, new, next), Quiet,
         next \notin Outside \cup { "putting", "succeeded", "failed" },
         target(c) \notin marked =>
             new.status \notin Ended /\ read[c].status # "FULFILLING"
  PROVE  OneGiving'
<1> USE DEF OneGiving
<1>0. /\ target(c) \in DOMAIN row /\ Current(read[c], row[target(c)])
      /\ marked' = marked /\ membership' = membership /\ args' = args
  BY AtAnAwait DEF Quiet
<1>1. CASE row[target(c)].version # read[c].version
  <2>1. row' = row /\ read' = read /\ pc' = [pc EXCEPT ![c] = "leaving"]
    BY <1>1 DEF Write, Goto
  <2>2. pc'[c] = "leaving" /\ \A d \in Call : d # c => pc'[d] = pc[d]
    BY <2>1 DEF IInv, TypeOK
  <2>3. UnmarkedIsStarting'
    BY <1>0, <2>1, <2>2 DEF UnmarkedIsStarting, target
  <2>4. EndedAreMarked' /\ AbsentAtPut'
    BY <1>0, <2>2 DEF EndedAreMarked, AbsentAtPut, target
  <2> QED BY <2>3, <2>4
<1>2. CASE row[target(c)].version = read[c].version
  <2>1. /\ row' = [row EXCEPT ![target(c)] = new]
        /\ read' = [read EXCEPT ![c] = new]
        /\ pc' = [pc EXCEPT ![c] = next]
    BY <1>2 DEF Write, Goto
  <2>2. /\ pc'[c] = next /\ read'[c] = new
        /\ \A d \in Call : d # c => pc'[d] = pc[d] /\ read'[d] = read[d]
    BY <2>1 DEF IInv, TypeOK
  <2>3. /\ DOMAIN row' = DOMAIN row
        /\ \A r \in DOMAIN row : row'[r] = IF r = target(c) THEN new ELSE row[r]
    BY <2>1
  <2>4. EndedAreMarked' /\ AbsentAtPut'
    BY <1>0, <2>2 DEF EndedAreMarked, AbsentAtPut, target
  <2>5. \A r \in DOMAIN row' : r \notin marked' => row'[r].status \notin Ended
    BY <1>0, <2>3 DEF UnmarkedIsStarting
  <2>6. ASSUME NEW d \in Call, pc'[d] \notin Outside, target(d) \notin marked,
               read'[d].status \in Outcomes
        PROVE  read'[d].status = "FULFILLING" /\ row'[target(d)].status = "FULFILLING"
    <3>1. CASE d = c
      BY <1>0, <2>2, <2>3, <2>6, <3>1 DEF Outcomes, Ended
    <3>2. CASE d # c
      <4>1. /\ read'[d] = read[d] /\ read[d].status = "FULFILLING"
            /\ row[target(d)].status = "FULFILLING" /\ target(d) \in DOMAIN row
        BY <2>2, <2>6, <3>2, AtAnAwait DEF UnmarkedIsStarting
      <4>2. CASE target(d) # target(c)
        BY <2>3, <4>1, <4>2
      <4>3. CASE target(d) = target(c)
        <5>1. read[c].status \in Outcomes
          BY <1>0, <1>2, <4>1, <4>3 DEF Current, Outcomes
        <5>2. read[c].status = "FULFILLING"
          BY <2>6, <4>3, <5>1 DEF UnmarkedIsStarting
        <5> QED BY <2>6, <4>3, <5>2
      <4> QED BY <4>2, <4>3
    <3> QED BY <3>1, <3>2
  <2>7. UnmarkedIsStarting'
    BY <1>0, <2>5, <2>6 DEF UnmarkedIsStarting, target
  <2> QED BY <2>4, <2>7
<1> QED BY <1>1, <1>2

\* A step of one call that writes no row.
LEMMA MoveKeepsOrder ==
  ASSUME IInv, OneGiving, NEW c \in Call, NEW next \in Stage,
         pc[c] \notin Outside, Goto(c, next), UNCHANGED << row, args >>,
         read' \in { read, [read EXCEPT ![c] = RowFor(c)] },
         marked \subseteq marked',
         next \in { "succeeded", "failed" } => target(c) \in marked',
         next = "putting" => membership'[target(c)] = "absent",
         \A d \in Call : d # c /\ pc[d] = "putting" =>
                            membership'[target(d)] = membership[target(d)]
  PROVE  OneGiving'
<1> USE DEF OneGiving
<1>1. pc'[c] = next /\ \A d \in Call : d # c => pc'[d] = pc[d]
  BY DEF IInv, TypeOK, Goto
<1>2. /\ read'[c] = read[c] \/ read'[c] = row[target(c)]
      /\ \A d \in Call : d # c => read'[d] = read[d]
  BY DEF IInv, TypeOK, RowFor
<1>3. target(c) \in DOMAIN row
  BY AtAnAwait
<1>4. EndedAreMarked' /\ AbsentAtPut'
  BY <1>1 DEF EndedAreMarked, AbsentAtPut, target
<1>5. UnmarkedIsStarting'
  BY <1>1, <1>2, <1>3 DEF UnmarkedIsStarting, Outcomes, Ended, target
<1> QED BY <1>4, <1>5

\* Calls that enter the lock, wait for it or leave it.
LEMMA EnterKeepsOrder ==
  ASSUME IInv, OneGiving, UNCHANGED << row, args, marked, membership >>,
         \A d \in Call : \/ pc'[d] = pc[d] /\ read'[d] = read[d]
                         \/ pc'[d] = "waiting"
                         \/ pc'[d] = "read" /\ read'[d] = RowFor(d) /\ target(d) \in DOMAIN row
                         \/ pc[d] = "leaving" /\ pc'[d] = "done" /\ read'[d] = read[d]
  PROVE  OneGiving'
<1> USE DEF OneGiving
<1>1. EndedAreMarked' /\ AbsentAtPut'
  BY DEF EndedAreMarked, AbsentAtPut, target
<1>2. UnmarkedIsStarting'
  BY DEF UnmarkedIsStarting, Outcomes, Ended, Outside, RowFor, target
<1> QED BY <1>1, <1>2

\* A write that leaves the decision and the cancellation of its row as they are.
LEMMA OutcomeIsQuiet ==
  ASSUME IInv, NEW c \in Call, NEW new \in Row, NEW next \in Stage,
         pc[c] \notin Outside, Write(c, new, next), Quiet,
         new.approvedBy = read[c].approvedBy, new.deniedBy = read[c].deniedBy,
         new.authority = read[c].authority,
         new.status # "CANCELLED", read[c].status # "CANCELLED"
  PROVE  UNCHANGED AccessVars
<1>0. /\ target(c) \in DOMAIN row /\ Current(read[c], row[target(c)])
      /\ marked' = marked /\ membership' = membership
  BY AtAnAwait DEF Quiet
<1>1. CASE row[target(c)].version # read[c].version
  BY <1>0, <1>1 DEF Write, AccessVars, Verdict, Decider, Closed
<1>2. CASE row[target(c)].version = read[c].version
  <2>1. /\ DOMAIN row' = DOMAIN row
        /\ \A r \in DOMAIN row : row'[r] = IF r = target(c) THEN new ELSE row[r]
    BY <1>2 DEF Write
  <2> DEFINE x == row[target(c)]
  <2>2. /\ new.approvedBy = x.approvedBy /\ new.deniedBy = x.deniedBy
        /\ new.authority = x.authority /\ x.status # "CANCELLED"
    BY <1>0, <1>2 DEF Current, Outcomes
  <2>3. VerdictOf(new) = VerdictOf(x) /\ DeciderOf(new) = DeciderOf(x)
    BY <2>2 DEF VerdictOf, DeciderOf
  <2>4. Verdict' = Verdict /\ Decider' = Decider
    BY <2>1, <2>3 DEF Verdict, Decider
  <2>5. Closed' = Closed
    BY <2>1, <2>2 DEF Closed
  <2> QED BY <1>0, <2>4, <2>5 DEF AccessVars
<1> QED BY <1>1, <1>2

\* A step that writes no row, grants nothing and marks nothing.
LEMMA SameIsQuiet ==
  ASSUME UNCHANGED << row, marked, membership >>
  PROVE  UNCHANGED AccessVars
  BY DEF AccessVars, Verdict, Decider, Closed

\* What a step of the calls does to the request, and what it keeps.
Refined == OneGiving' /\ AccessStep

LEMMA CancelExpiredRefines ==
  ASSUME IInv, OneGiving, NEW c \in Call, CancelExpired(c)
  PROVE  Refined
<1> DEFINE new == Moved(c, "CANCELLED")
           r == target(c)
<1>0. /\ pc[c] \notin Outside /\ Quiet /\ Write(c, new, "leaving")
      /\ CanTransition(read[c].status, "CANCELLED")
  BY DEF CancelExpired, Expires, Outside
<1>1. /\ r \in DOMAIN row /\ r \in Request /\ read[c].status \in Reached
      /\ Current(read[c], row[r])
  BY <1>0, AtAnAwait DEF Sound
<1>2. read[c].status \notin { "CANCELLED", "FULFILLING" }
  BY <1>0, <1>1, TableOfDecisions
<1>3. /\ new \in Row /\ new.status = "CANCELLED"
      /\ new.approvedBy = read[c].approvedBy /\ new.deniedBy = read[c].deniedBy
      /\ new.authority = read[c].authority
  BY MovedRow DEF AccessRequestStatus
<1>4. "leaving" \in Stage /\ "leaving" \notin Outside \cup { "putting", "succeeded", "failed" }
  BY DEF Stage, Outside
<1> HIDE DEF new
<1>5. OneGiving'
  BY <1>0, <1>2, <1>3, <1>4, WriteKeepsOrder DEF Ended
<1>6. CASE row[r].version # read[c].version
  BY <1>0, <1>6, SameIsQuiet, <1>5 DEF Write, Quiet, Refined, AccessStep
<1>7. CASE row[r].version = read[c].version
  <2>1. /\ DOMAIN row' = DOMAIN row
        /\ \A s \in DOMAIN row : row'[s] = IF s = r THEN new ELSE row[s]
        /\ marked' = marked /\ membership' = membership
    BY <1>0, <1>7 DEF Write, Quiet
  <2>2. /\ new.approvedBy = row[r].approvedBy /\ new.deniedBy = row[r].deniedBy
        /\ new.authority = row[r].authority /\ row[r].status # "CANCELLED"
    BY <1>1, <1>2, <1>3, <1>7 DEF Current, Outcomes
  <2>3. VerdictOf(new) = VerdictOf(row[r]) /\ DeciderOf(new) = DeciderOf(row[r])
    BY <2>2 DEF VerdictOf, DeciderOf
  <2>4. Verdict' = Verdict /\ Decider' = Decider
    BY <2>1, <2>3 DEF Verdict, Decider
  <2>5. Closed' = Closed \cup {r} /\ r \notin Closed
    BY <1>1, <1>3, <2>1, <2>2 DEF Closed
  <2>6. Verdict[r] # "none"
    BY <1>1 DEF Verdict, VerdictOf
  <2>7. Access!Close(r)
    BY <2>1, <2>4, <2>5, <2>6 DEF Access!Close
  <2> QED BY <1>1, <1>5, <2>7 DEF Refined, AccessStep, Access!GrantNext
<1> QED BY <1>6, <1>7

LEMMA RetryFailedRefines ==
  ASSUME IInv, OneGiving, NEW c \in Call, RetryFailed(c)
  PROVE  Refined
<1> DEFINE new == Moved(c, "FULFILLING")
<1>1. /\ pc[c] \notin Outside /\ Quiet /\ Write(c, new, "audited")
      /\ read[c].status = "FAILED"
  BY DEF RetryFailed, Retries, Outside
<1>2. /\ new \in Row /\ new.status = "FULFILLING"
      /\ new.approvedBy = read[c].approvedBy /\ new.deniedBy = read[c].deniedBy
      /\ new.authority = read[c].authority
  BY MovedRow DEF AccessRequestStatus
<1>3. "audited" \in Stage /\ "audited" \notin Outside \cup { "putting", "succeeded", "failed" }
  BY DEF Stage, Outside
<1> HIDE DEF new
<1>4. OneGiving'
  BY <1>1, <1>2, <1>3, WriteKeepsOrder DEF Ended
<1> QED BY <1>1, <1>2, <1>3, <1>4, OutcomeIsQuiet DEF Refined, AccessStep

\* Approve and Deny: a row nobody has decided on gets its decision.
LEMMA DecidedRefines ==
  ASSUME IInv, OneGiving, NEW c \in Call, NEW new \in Row, NEW next \in Stage,
         NEW outcome \in { "approved", "denied" },
         pc[c] \notin Outside, Write(c, new, next), Quiet,
         next \notin Outside \cup { "putting", "succeeded", "failed" },
         read[c].status = "PENDING_APPROVAL", Admitted(c),
         new.status \in { "APPROVED", "DENIED" },
         VerdictOf(new) = outcome, DeciderOf(new) = by(c)
  PROVE  Refined
<1>1. /\ target(c) \in DOMAIN row /\ target(c) \in Request
      /\ Current(read[c], row[target(c)]) /\ Sound(row[target(c)])
  BY AtAnAwait
<1>2. OneGiving'
  BY WriteKeepsOrder DEF Ended
<1>3. CASE row[target(c)].version # read[c].version
  BY <1>2, <1>3, SameIsQuiet DEF Write, Quiet, Refined, AccessStep
<1>4. CASE row[target(c)].version = read[c].version
  <2>1. /\ DOMAIN row' = DOMAIN row
        /\ \A s \in DOMAIN row : row'[s] = IF s = target(c) THEN new ELSE row[s]
        /\ marked' = marked /\ membership' = membership
    BY <1>4 DEF Write, Quiet
  <2>2. /\ row[target(c)].status = "PENDING_APPROVAL"
        /\ row[target(c)].authority = "local"
        /\ row[target(c)].approvedBy = Nobody /\ row[target(c)].deniedBy = Nobody
    BY <1>1, <1>4 DEF Current, Outcomes, Sound, Admitted
  <2>3. /\ Verdict[target(c)] = "open" /\ target(c) \notin Closed
    BY <1>1, <2>2 DEF Verdict, VerdictOf, Closed
  <2>4. /\ Verdict' = [Verdict EXCEPT ![target(c)] = outcome]
        /\ Decider' = [Decider EXCEPT ![target(c)] = by(c)]
    BY <1>1, <2>1 DEF Verdict, Decider
  <2>5. Closed' = Closed
    BY <2>1, <2>2 DEF Closed
  <2>6. by(c) \in Approver /\ by(c) # Requester
    BY ArgsAreTyped DEF Admitted, IInv, TypeOK, by
  <2>7. Access!Decide(target(c), by(c), outcome)
    BY <2>1, <2>3, <2>4, <2>5, <2>6 DEF Access!Decide
  <2> QED BY <1>1, <1>2, <2>6, <2>7 DEF Refined, AccessStep, Access!GrantNext
<1> QED BY <1>3, <1>4

LEMMA ApproveRefines ==
  ASSUME IInv, OneGiving, NEW c \in Call, Approve(c)
  PROVE  Refined
<1> DEFINE m == Moved(c, "APPROVED")
           new == [m EXCEPT !.approvedBy = by(c)]
<1>1. /\ pc[c] \notin Outside /\ Quiet /\ Write(c, new, "audited") /\ Admitted(c)
      /\ CanTransition(read[c].status, "APPROVED")
  BY DEF Approve, Approves, Outside
<1>2. read[c].status = "PENDING_APPROVAL"
  BY <1>1, AtAnAwait, TableOfDecisions DEF Sound
<1>3. m \in Row /\ m.status = "APPROVED"
  BY MovedRow DEF AccessRequestStatus
<1>4. by(c) \in Approver /\ by(c) # Nobody
  BY ArgsAreTyped DEF IInv, TypeOK, by
<1> HIDE DEF m
<1>5. new \in Row /\ new.status = "APPROVED" /\ new.approvedBy = by(c)
  BY <1>3, <1>4 DEF Row
<1> HIDE DEF new
<1>6. VerdictOf(new) = "approved" /\ DeciderOf(new) = by(c)
  BY <1>4, <1>5 DEF VerdictOf, DeciderOf
<1>7. "audited" \in Stage /\ "audited" \notin Outside \cup { "putting", "succeeded", "failed" }
  BY DEF Stage, Outside
<1> QED BY <1>1, <1>2, <1>5, <1>6, <1>7, DecidedRefines

LEMMA DenyRefines ==
  ASSUME IInv, OneGiving, NEW c \in Call, Deny(c)
  PROVE  Refined
<1> DEFINE m == Moved(c, "DENIED")
           new == [m EXCEPT !.deniedBy = by(c)]
<1>1. /\ pc[c] \notin Outside /\ Quiet /\ Write(c, new, "leaving") /\ Admitted(c)
      /\ CanTransition(read[c].status, "DENIED")
  BY DEF Deny, Denies, Outside
<1>2. read[c].status = "PENDING_APPROVAL" /\ read[c].approvedBy = Nobody
  BY <1>1, AtAnAwait, TableOfDecisions DEF Sound
<1>3. m \in Row /\ m.status = "DENIED" /\ m.approvedBy = Nobody
  BY <1>2, MovedRow DEF AccessRequestStatus
<1>4. by(c) \in Approver /\ by(c) # Nobody
  BY ArgsAreTyped DEF IInv, TypeOK, by
<1> HIDE DEF m
<1>5. new \in Row /\ new.status = "DENIED" /\ new.deniedBy = by(c) /\ new.approvedBy = Nobody
  BY <1>3, <1>4 DEF Row
<1> HIDE DEF new
<1>6. VerdictOf(new) = "denied" /\ DeciderOf(new) = by(c)
  BY <1>4, <1>5 DEF VerdictOf, DeciderOf
<1>7. "leaving" \in Stage /\ "leaving" \notin Outside \cup { "putting", "succeeded", "failed" }
  BY DEF Stage, Outside
<1> QED BY <1>1, <1>2, <1>5, <1>6, <1>7, DecidedRefines

\* A step of one call that writes no row and changes no key and no membership.
LEMMA MoveRefines ==
  ASSUME IInv, OneGiving, NEW c \in Call, NEW next \in Stage \ { "putting" },
         pc[c] \notin Outside, Goto(c, next),
         UNCHANGED << row, args, marked, membership >>,
         read' \in { read, [read EXCEPT ![c] = RowFor(c)] },
         next \in { "succeeded", "failed" } => target(c) \in marked
  PROVE  Refined
<1>1. OneGiving'
  BY MoveKeepsOrder
<1> QED BY <1>1, SameIsQuiet DEF Refined, AccessStep

LEMMA RepeatApprovalRefines ==
  ASSUME IInv, OneGiving, NEW c \in Call, RepeatApproval(c)
  PROVE  Refined
<1>1. pc[c] \notin Outside /\ "audited" \in Stage \ { "putting" }
  BY DEF RepeatApproval, Outside, Stage
<1> QED BY <1>1, MoveRefines DEF RepeatApproval, Quiet

LEMMA AnswerRefines ==
  ASSUME IInv, OneGiving, NEW c \in Call, Answer(c)
  PROVE  Refined
<1>1. pc[c] \notin Outside /\ "leaving" \in Stage \ { "putting" }
  BY DEF Answer, Outside, Stage
<1> QED BY <1>1, MoveRefines DEF Answer, Quiet

LEMMA FulfillRefines ==
  ASSUME IInv, OneGiving, NEW c \in Call, Fulfill(c)
  PROVE  Refined
<1>1. pc[c] \notin Outside /\ "leaving" \in Stage \ { "putting" } /\ "current" \in Stage \ { "putting" }
  BY DEF Fulfill, Outside, Stage
<1> QED BY <1>1, MoveRefines DEF Fulfill, Quiet

LEMMA StartFulfillmentRefines ==
  ASSUME IInv, OneGiving, NEW c \in Call, StartFulfillment(c)
  PROVE  Refined
<1> DEFINE new == Moved(c, "FULFILLING")
           next == IF approved[c] = "APPROVED" THEN "fulfilling" ELSE "leaving"
<1>1. pc[c] \notin Outside /\ Quiet
  BY DEF StartFulfillment, Outside
<1>2. /\ { "fulfilling", "leaving" } \subseteq Stage \ { "putting", "succeeded", "failed" }
      /\ { "fulfilling", "leaving" } \cap Outside = {}
  BY DEF Stage, Outside
<1>3. CASE /\ Goto(c, "fulfilling") \/ Goto(c, "leaving")
           /\ UNCHANGED << row, read >>
  BY <1>1, <1>2, <1>3, MoveRefines DEF Quiet
<1>4. CASE CanTransition(read[c].status, "FULFILLING") /\ Write(c, new, next)
  <2>1. read[c].status \in { "APPROVED", "FAILED" }
    BY <1>1, <1>4, AtAnAwait, TableOfDecisions DEF Sound
  <2>2. /\ new \in Row /\ new.status = "FULFILLING"
        /\ new.approvedBy = read[c].approvedBy /\ new.deniedBy = read[c].deniedBy
        /\ new.authority = read[c].authority
    BY MovedRow DEF AccessRequestStatus
  <2>3. next \in Stage /\ next \notin Outside \cup { "putting", "succeeded", "failed" }
    BY <1>2
  <2> HIDE DEF new, next
  <2>4. OneGiving'
    BY <1>1, <1>4, <2>1, <2>2, <2>3, WriteKeepsOrder DEF Ended
  <2> QED BY <1>1, <1>4, <2>1, <2>2, <2>3, <2>4, OutcomeIsQuiet DEF Refined, AccessStep
<1> QED BY <1>3, <1>4 DEF StartFulfillment

\* The key of a request is set once, when its row is FULFILLING.
LEMMA GrantRefines ==
  ASSUME IInv, OneGiving, NEW c \in Call, Grant(c)
  PROVE  Refined
<1> DEFINE r == target(c)
<1>1. /\ pc[c] = "fulfilling" /\ pc[c] \notin Outside /\ read[c].status = "FULFILLING"
      /\ marked' = marked \cup {r}
      /\ UNCHANGED << row, args, membership, read >>
  BY DEF Grant, Outside, Executing, IInv, ExecutingIsFulfilling
<1>2. /\ r \in DOMAIN row /\ r \in Request /\ Granted(row[r])
  BY <1>1, AtAnAwait DEF IInv, CommittedAreGranted, Committed, Executing
<1>3. PICK next \in { "succeeded", "preflight", "leaving" } : Goto(c, next)
  BY DEF Grant
<1>4. next \in Stage \ { "putting" }
  BY DEF Stage
<1>5. OneGiving'
  BY <1>1, <1>3, <1>4, MoveKeepsOrder
<1>6. CASE r \in marked
  <2>1. marked' = marked
    BY <1>1, <1>6
  <2> QED BY <1>1, <1>5, <2>1, SameIsQuiet DEF Refined, AccessStep
<1>7. CASE r \notin marked
  <2>1. row[r].status = "FULFILLING"
    BY <1>1, <1>7 DEF OneGiving, UnmarkedIsStarting, Outcomes
  <2>2. r \notin Closed /\ Verdict[r] = "approved"
    BY <1>2, <2>1 DEF Closed, Verdict, VerdictOf, Granted
  <2>3. UNCHANGED << Verdict, Decider, Closed, membership >>
    BY <1>1 DEF Verdict, Decider, Closed
  <2>4. Access!Begin(r)
    BY <1>1, <1>7, <2>2, <2>3 DEF Access!Begin
  <2> QED BY <1>2, <1>5, <2>4 DEF Refined, AccessStep, Access!GrantNext
<1> QED BY <1>6, <1>7

\* preflightChecks and the two GETs.
LEMMA ReadingsRefine ==
  ASSUME IInv, OneGiving, NEW c \in Call,
         PreflightChecks(c) \/ CheckMembership(c) \/ VerifyMembership(c)
  PROVE  Refined
<1>1. /\ pc[c] \notin Outside /\ pc[c] \in Granting
      /\ UNCHANGED << row, args, marked, membership, read >>
  BY DEF PreflightChecks, CheckMembership, VerifyMembership, Outside, Granting, Quiet
<1>2. target(c) \in marked
  BY <1>1 DEF IInv, GrantsAreMarked
<1>3. { "checking", "putting", "succeeded", "failed", "leaving" } \subseteq Stage
  BY DEF Stage
<1>4. CASE \E next \in { "checking", "succeeded", "failed", "leaving" } : Goto(c, next)
  BY <1>1, <1>2, <1>3, <1>4, MoveRefines
<1>5. CASE ~IsMember(c) /\ Goto(c, "putting")
  <2>1. membership'[target(c)] = "absent"
    BY <1>1, <1>5 DEF IsMember
  <2>2. OneGiving'
    BY <1>1, <1>3, <1>5, <2>1, MoveKeepsOrder
  <2> QED BY <1>1, <2>2, SameIsQuiet DEF Refined, AccessStep
<1> QED BY <1>4, <1>5 DEF PreflightChecks, CheckMembership, VerifyMembership, GrantFails

\* The PUT: SingleGrant keeps every other call of the request from its own.
LEMMA PutMembershipRefines ==
  ASSUME IInv, OneGiving, NEW c \in Call, PutMembership(c)
  PROVE  Refined
<1> DEFINE r == target(c)
<1>1. /\ pc[c] = "putting" /\ pc[c] \notin Outside /\ pc[c] \in Granting
      /\ UNCHANGED << row, args, marked, read >>
  BY DEF PutMembership, Outside, Granting
<1>2. r \in Request /\ r \in marked /\ membership[r] = "absent"
  BY <1>1, AtAnAwait DEF IInv, GrantsAreMarked, OneGiving, AbsentAtPut
<1>3. PICK next \in { "verifying", "failed", "leaving" } : Goto(c, next)
  BY DEF PutMembership, GrantFails
<1>4. next \in Stage /\ next # "putting"
  BY DEF Stage
<1>5. \A s \in Request : s # r => membership'[s] = membership[s]
  BY DEF PutMembership, IInv, TypeOK
<1>6. \A d \in Call : d # c /\ pc[d] = "putting" => membership'[target(d)] = membership[target(d)]
  BY <1>1, <1>5, AtAnAwait DEF IInv, SingleGrant, Granting, Outside
<1>7. OneGiving'
  BY <1>1, <1>2, <1>3, <1>4, <1>6, MoveKeepsOrder
<1>8. UNCHANGED << Verdict, Decider, Closed, marked >>
  BY <1>1 DEF Verdict, Decider, Closed
<1>9. CASE UNCHANGED membership
  BY <1>1, <1>7, <1>9, SameIsQuiet DEF Refined, AccessStep
<1>10. CASE \E state \in { "active", "pending" } :
              membership' = [membership EXCEPT ![r] = state]
  <2>1. \E state \in { "active", "pending" } : Access!Give(r, state)
    BY <1>2, <1>8, <1>10 DEF Access!Give
  <2> QED BY <1>2, <1>7, <2>1 DEF Refined, AccessStep, Access!GrantNext
<1> QED BY <1>9, <1>10 DEF PutMembership

LEMMA FinishRefines ==
  ASSUME IInv, OneGiving, NEW c \in Call, Finish(c)
  PROVE  Refined
<1> DEFINE s == IF pc[c] = "succeeded" THEN "FULFILLED" ELSE "FAILED"
           new == [read[c] EXCEPT !.status = s]
<1>1. /\ pc[c] \in { "succeeded", "failed" } /\ pc[c] \notin Outside /\ Quiet
      /\ Write(c, new, "leaving")
  BY DEF Finish, Outside
<1>2. target(c) \in marked
  BY <1>1 DEF OneGiving, EndedAreMarked
<1>3. read[c] \in Row /\ read[c].status = "FULFILLING"
  BY <1>1, AtAnAwait DEF IInv, ExecutingIsFulfilling, Executing
<1>4. s \in AccessRequestStatus /\ s # "CANCELLED"
  BY DEF AccessRequestStatus
<1> HIDE DEF s
<1>5. /\ new \in Row /\ new.status = s
      /\ new.approvedBy = read[c].approvedBy /\ new.deniedBy = read[c].deniedBy
      /\ new.authority = read[c].authority
  BY <1>3, <1>4 DEF Row
<1>6. "leaving" \in Stage /\ "leaving" \notin Outside \cup { "putting", "succeeded", "failed" }
  BY DEF Stage, Outside
<1> HIDE DEF new
<1>7. OneGiving'
  BY <1>1, <1>2, <1>5, <1>6, WriteKeepsOrder
<1> QED BY <1>1, <1>3, <1>4, <1>5, <1>6, <1>7, OutcomeIsQuiet DEF Refined, AccessStep

\* Calls that take a lock, wait for one, or leave and let the waiters in.
LEMMA LockRefines ==
  ASSUME IInv, OneGiving, NEW c \in Call, DecideAccessRequest(c) \/ Leave(c)
  PROVE  Refined
<1>1. UNCHANGED << row, args, marked, membership >>
  BY DEF DecideAccessRequest, Leave
<1>2. CASE DecideAccessRequest(c)
  <2>1. target(c) \in DOMAIN row /\ \A d \in Call : d # c => pc'[d] = pc[d]
    BY <1>2 DEF DecideAccessRequest, IInv, TypeOK
  <2>2. CASE Enter({c}, target(c)) /\ pc' = [pc EXCEPT ![c] = "read"]
    <3>1. pc'[c] = "read" /\ read'[c] = RowFor(c) /\ \A d \in Call : d # c => read'[d] = read[d]
      BY <2>2 DEF Enter, IInv, TypeOK
    <3>2. OneGiving'
      BY <1>1, <2>1, <3>1, EnterKeepsOrder
    <3> QED BY <1>1, <3>2, SameIsQuiet DEF Refined, AccessStep
  <2>3. CASE pc' = [pc EXCEPT ![c] = "waiting"] /\ UNCHANGED read
    <3>1. pc'[c] = "waiting"
      BY <2>3 DEF IInv, TypeOK
    <3>2. OneGiving'
      BY <1>1, <2>1, <2>3, <3>1, EnterKeepsOrder
    <3> QED BY <1>1, <3>2, SameIsQuiet DEF Refined, AccessStep
  <2> QED BY <1>2, <2>2, <2>3 DEF DecideAccessRequest
<1>3. CASE Leave(c)
  <2>1. \A d \in Call :
           \/ pc'[d] = pc[d] /\ d # c /\ d \notin Waiters(c)
           \/ d = c /\ pc'[d] = "done"
           \/ d \in Waiters(c) /\ d # c /\ pc'[d] = "read"
    BY <1>3 DEF Leave
  <2>2. \A d \in Call : read'[d] = IF d \in Waiters(c) THEN RowFor(d) ELSE read[d]
    <3>1. CASE Waiters(c) = {} /\ UNCHANGED read
      BY <3>1
    <3>2. CASE Enter(Waiters(c), target(c))
      BY <3>2 DEF Enter
    <3> QED BY <1>3, <3>1, <3>2 DEF Leave
  <2>3. \A d \in Waiters(c) : target(d) \in DOMAIN row
    BY DEF Waiters, IInv, TargetsExist
  <2>4. pc[c] = "leaving" /\ c \notin Waiters(c)
    BY <1>3 DEF Leave, Waiters
  <2>5. OneGiving'
    BY <1>1, <2>1, <2>2, <2>3, <2>4, EnterKeepsOrder
  <2> QED BY <1>1, <2>5, SameIsQuiet DEF Refined, AccessStep
<1> QED BY <1>2, <1>3

LEMMA EnvironmentRefines ==
  ASSUME IInv, OneGiving, NEW r \in Request,
         CreateAccessRequest(r) \/ CloseWindow(r) \/ AcceptInvitation(r)
  PROVE  Refined
<1>1. UNCHANGED << marked, pc, args, read >>
  BY DEF CreateAccessRequest, CloseWindow, AcceptInvitation, callVars
<1>2. CASE CreateAccessRequest(r)
  <2>1. PICK a \in Authority \cup {"local"} :
           row' = [s \in DOMAIN row \cup {r} |->
                     IF s = r THEN [NewRow EXCEPT !.authority = a] ELSE row[s]]
    BY <1>2 DEF CreateAccessRequest
  <2> DEFINE new == [NewRow EXCEPT !.authority = a]
             waits == IF a = "local" THEN "open" ELSE "elsewhere"
  <2>2. /\ new.status = "PENDING_APPROVAL" /\ new.authority = a
        /\ new.approvedBy = Nobody /\ new.deniedBy = Nobody
    BY DEF NewRow
  <2>3. /\ r \notin DOMAIN row /\ DOMAIN row' = DOMAIN row \cup {r} /\ row'[r] = new
        /\ \A s \in DOMAIN row : row'[s] = row[s]
        /\ membership' = membership
    BY <1>2, <2>1 DEF CreateAccessRequest
  <2> HIDE DEF new
  <2>4. VerdictOf(new) = waits /\ DeciderOf(new) = Nobody
    BY <2>2 DEF VerdictOf, DeciderOf
  <2>5. /\ Verdict[r] = "none" /\ Verdict' = [Verdict EXCEPT ![r] = waits]
        /\ Decider' = Decider
    BY <2>3, <2>4 DEF Verdict, Decider
  <2>6. Closed' = Closed
    BY <2>2, <2>3 DEF Closed
  <2>7. Access!Submit(r, waits)
    BY <1>1, <2>3, <2>5, <2>6 DEF Access!Submit
  <2>8. OneGiving'
    <3>1. EndedAreMarked' /\ AbsentAtPut'
      BY <1>1, <2>3 DEF OneGiving, EndedAreMarked, AbsentAtPut, target
    <3>2. UnmarkedIsStarting'
      BY <1>1, <2>2, <2>3, AtAnAwait DEF OneGiving, UnmarkedIsStarting, Ended, target
    <3> QED BY <3>1, <3>2 DEF OneGiving
  <2>9. waits \in { "open", "elsewhere" }
    OBVIOUS
  <2> HIDE DEF waits
  <2> QED BY <2>7, <2>8, <2>9 DEF Refined, AccessStep, Access!GrantNext
<1>3. CASE CloseWindow(r)
  <2>1. UNCHANGED << row, membership >>
    BY <1>3 DEF CloseWindow
  <2>2. OneGiving'
    BY <1>1, <2>1 DEF OneGiving, EndedAreMarked, AbsentAtPut, UnmarkedIsStarting, target
  <2> QED BY <1>1, <2>1, <2>2, SameIsQuiet DEF Refined, AccessStep
<1>4. CASE AcceptInvitation(r)
  <2>1. row' = row /\ Access!Accept(r)
    BY <1>1, <1>4 DEF AcceptInvitation, Access!Accept, Verdict, Decider, Closed
  <2>2. \A s \in Request : membership[s] = "absent" => membership'[s] = "absent"
    BY <1>4 DEF AcceptInvitation, IInv, TypeOK
  <2>3. AbsentAtPut'
    BY <1>1, <2>2, AtAnAwait DEF OneGiving, AbsentAtPut, Outside, target
  <2>4. EndedAreMarked' /\ UnmarkedIsStarting'
    BY <1>1, <2>1 DEF OneGiving, EndedAreMarked, UnmarkedIsStarting, target
  <2> QED BY <2>1, <2>3, <2>4 DEF OneGiving, Refined, AccessStep, Access!GrantNext
<1> QED BY <1>2, <1>3, <1>4

LEMMA NextRefines ==
  ASSUME IInv, OneGiving, [Next]_vars
  PROVE  Refined
<1>1. CASE UNCHANGED vars
  <2>1. UNCHANGED << row, marked, membership, pc, args, read >>
    BY <1>1 DEF vars, callVars
  <2>2. OneGiving'
    BY <2>1 DEF OneGiving, EndedAreMarked, AbsentAtPut, UnmarkedIsStarting, target
  <2> QED BY <2>1, <2>2, SameIsQuiet DEF Refined, AccessStep
<1>2. ASSUME NEW r \in Request,
             CreateAccessRequest(r) \/ CloseWindow(r) \/ AcceptInvitation(r)
      PROVE  Refined
  BY <1>2, EnvironmentRefines
<1>3. ASSUME NEW c \in Call, DecideAccessRequest(c) \/ Step(c)
      PROVE  Refined
  <2>1. CASE CancelExpired(c) \/ RepeatApproval(c) \/ RetryFailed(c)
    BY <2>1, CancelExpiredRefines, RepeatApprovalRefines, RetryFailedRefines
  <2>2. CASE Approve(c) \/ Deny(c) \/ Answer(c)
    BY <2>2, ApproveRefines, DenyRefines, AnswerRefines
  <2>3. CASE Fulfill(c) \/ StartFulfillment(c) \/ Grant(c)
    BY <2>3, FulfillRefines, StartFulfillmentRefines, GrantRefines
  <2>4. CASE PreflightChecks(c) \/ CheckMembership(c) \/ PutMembership(c)
             \/ VerifyMembership(c)
    BY <2>4, ReadingsRefine, PutMembershipRefines
  <2>5. CASE Finish(c) \/ Leave(c) \/ DecideAccessRequest(c)
    BY <2>5, FinishRefines, LockRefines
  <2> QED BY <1>3, <2>1, <2>2, <2>3, <2>4, <2>5 DEF Step
<1> QED BY <1>1, <1>2, <1>3 DEF Next

LEMMA InitRefines == Init => OneGiving /\ Access!GrantInit
<1> SUFFICES ASSUME Init PROVE OneGiving /\ Access!GrantInit
  OBVIOUS
<1>1. /\ DOMAIN row = {} /\ pc = [c \in Call |-> "idle"] /\ marked = {}
      /\ membership = [r \in Request |-> "absent"]
  BY DEF Init
<1>2. OneGiving
  BY <1>1 DEF OneGiving, EndedAreMarked, AbsentAtPut, UnmarkedIsStarting, Outside
<1>3. Access!GrantInit
  BY <1>1 DEF Access!GrantInit, Verdict, Decider, Closed
<1> QED BY <1>2, <1>3

\* Whatever calls overlap, and whatever fails, decideAccessRequest does to a
\* request what AccessGrant promises: one decision, one grant, begun while the
\* row is FULFILLING, and one PUT that makes its requester a member.
THEOREM Refinement == Spec => ImplementsGrant
<1>1. Init => OneGiving /\ Access!GrantInit
  BY InitRefines
<1>2. IInv /\ OneGiving /\ [Next]_vars => OneGiving' /\ [Access!GrantNext]_AccessVars
  BY NextRefines DEF Refined, AccessStep
<1> QED BY InductiveInvariant, <1>1, <1>2, PTL
    DEF Spec, ImplementsGrant, Access!GrantSpec, Access!grantVars, AccessVars

=============================================================================
