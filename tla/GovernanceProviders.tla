-------------------------- MODULE GovernanceProviders --------------------------
(***************************************************************************)
(* The governance providers of packages/access-governance, as functions    *)
(* from what the authority's portal shows to the answers a caller can get. *)
(* An answer is a set: a provider turns its own errors into answers.       *)
(*                                                                         *)
(* A request is "open", "approved", "denied" or "withdrawn" at the portal, *)
(* an assignment "active", "lost" (ended, its record still there) or       *)
(* "none".                                                                 *)
(*                                                                         *)
(* An operator no other definition uses, placed before the definition it   *)
(* varies, is a slip the code could have made; README.md lists them.       *)
(***************************************************************************)

PortalState     == { "open", "approved", "denied", "withdrawn" }
AssignmentState == { "none", "active", "lost" }

\* GovernanceDecisionStatus.
Decision == { "PENDING", "APPROVED", "DENIED", "CANCELLED", "FAILED" }

\* The requestStatus values Graph shows for a request.
EntraRequestStatuses(portal) ==
    CASE portal = "open"      -> { "PendingApproval", "Submitted" }
      [] portal = "approved"  -> { "Delivering", "PartiallyDelivered", "Delivered" }
      [] portal = "denied"    -> { "Denied" }
      [] portal = "withdrawn" -> { "Expired", "Canceled" }

\* The status values Graph shows for an assignment.
EntraAssignmentStatuses(external) ==
    CASE external = "active" -> { "Delivered", "PartiallyDelivered" }
      [] external = "lost"   -> { "Expired", "Revoked" }
      [] external = "none"   -> {}

\* The << state, status >> pairs OIG shows for a request.
OktaRequestStatuses(portal) ==
    CASE portal = "open"      -> { "PENDING", "ACTIVE" } \X { "PENDING_APPROVAL" }
      [] portal = "approved"  -> { << "RESOLVED", "APPROVED" >> }
      [] portal = "denied"    -> { << "RESOLVED", "DENIED" >>, << "REJECTED", "DENIED" >> }
      [] portal = "withdrawn" -> { "EXPIRED", "CANCELLED" } \X { "PENDING_APPROVAL" }

OptimisticEntraStatus(requestStatus) ==
    CASE requestStatus = "Denied" -> "DENIED"
      [] requestStatus \in { "Expired", "Canceled" } -> "CANCELLED"
      [] requestStatus = "PendingApproval" -> "PENDING"
      [] OTHER -> "APPROVED"

\* mapEntraStatus: a status it does not know is PENDING.
MapEntraStatus(requestStatus) ==
    CASE requestStatus \in { "Delivering", "PartiallyDelivered", "Delivered" } -> "APPROVED"
      [] requestStatus = "Denied" -> "DENIED"
      [] requestStatus \in { "Expired", "Canceled" } -> "CANCELLED"
      [] OTHER -> "PENDING"

\* mapEntraAssignmentStatus: a status it does not know is ACTIVE.
MapEntraAssignmentStatus(entraStatus) ==
    IF entraStatus \in { "Expired", "Revoked" } THEN "REVOKED" ELSE "ACTIVE"

ResolvedIsApproved(state, verdict) ==
    CASE state = "RESOLVED" -> "APPROVED"
      [] state = "REJECTED" -> "DENIED"
      [] state \in { "EXPIRED", "CANCELLED" } -> "CANCELLED"
      [] OTHER -> "PENDING"

\* mapOktaRequestStatus: RESOLVED without APPROVED is a denial.
MapOktaRequestStatus(state, verdict) ==
    CASE state = "RESOLVED" -> (IF verdict = "APPROVED" THEN "APPROVED" ELSE "DENIED")
      [] state = "REJECTED" -> "DENIED"
      [] state \in { "EXPIRED", "CANCELLED" } -> "CANCELLED"
      [] OTHER -> "PENDING"

\* resolveSubject: the authority's user with the requester's mail address, or,
\* when there is none or the call fails, the requester as Opnory knows him.
EntraSubjects == { "entra", "manual" }
OktaSubjects  == { "okta", "manual" }

\* submitRequest, which throws unless the answer arrives.  The authority refuses
\* a subject that it does not know.
EntraSubmissions(source) ==
    { "REFUSED" } \cup (IF source = "entra" THEN { "ACCEPTED", "LOST" } ELSE {})
OktaSubmissions(source) ==
    { "REFUSED" } \cup (IF source = "okta" THEN { "ACCEPTED", "LOST" } ELSE {})

\* getRequestStatus of each provider.  It never throws: an error of the call,
\* or of the token it needs, is the answer FAILED, like every local answer.
EntraStatusAnswers(portal) ==
    { MapEntraStatus(s) : s \in EntraRequestStatuses(portal) } \cup { "FAILED" }
OktaStatusAnswers(portal) ==
    { MapOktaRequestStatus(s[1], s[2]) : s \in OktaRequestStatuses(portal) }
        \cup { "FAILED" }
LocalStatusAnswers == { "FAILED" }

\* Entra's getAssignment filters by target and access package.  Its callers
\* pass the assignment's id where the access package's is wanted, which finds
\* nothing; an error is the answer MISSING too.
EntraAssignmentAnswers(external, byAssignmentId) ==
    IF byAssignmentId THEN { "MISSING" }
    ELSE { "MISSING" } \cup
         { MapEntraAssignmentStatus(s) : s \in EntraAssignmentStatuses(external) }

\* Okta's getAssignment: its callers pass no groupId, so that only a resolved or
\* active request with a target counts, which an ended access does not change.
OktaAssignmentAnswers(portal) ==
    { "MISSING" } \cup
    { "ACTIVE" : s \in { q \in OktaRequestStatuses(portal) :
                            q[1] \in { "RESOLVED", "ACTIVE" } } }

\* revokeAssignment.  Entra asks for the removal or fails.  Okta's callers pass
\* no ORNs, so that it only observes; local revocation is the scheduler's.
EntraRevocationAnswers == { "REVOKED", "ERROR" }
OktaRevocationAnswers  == { "OBSERVE_ONLY" }
LocalRevocationAnswers == { "OBSERVE_ONLY" }

=============================================================================
