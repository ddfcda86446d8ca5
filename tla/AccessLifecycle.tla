--------------------------- MODULE AccessLifecycle ---------------------------
(***************************************************************************)
(* The life cycle of an access request, as packages/access-types declares  *)
(* it: the thirteen statuses and the table VALID_TRANSITIONS that          *)
(* transitionOrThrow consults.  The services that call it take             *)
(* CanTransition as a guard; the workers write statuses with raw SQL.      *)
(***************************************************************************)

\* AccessRequestStatusSchema.
AccessRequestStatus ==
    { "PENDING_APPROVAL", "APPROVED", "DENIED", "FULFILLING", "FULFILLED",
      "FAILED", "CANCELLED", "AWAITING_EXTERNAL_ACCEPTANCE",
      "REVOCATION_PENDING", "REVOKED", "RETRY", "REVOCATION_FAILED",
      "AWAITING_AUTHORITY_DECISION" }

\* VALID_TRANSITIONS: the statuses each status may be followed by.
ValidTransitions ==
    [ PENDING_APPROVAL |-> { "APPROVED", "DENIED", "CANCELLED",
                             "AWAITING_AUTHORITY_DECISION" },
      APPROVED |-> { "FULFILLING", "CANCELLED", "AWAITING_EXTERNAL_ACCEPTANCE" },
      DENIED |-> { "CANCELLED" },
      FULFILLING |-> { "FULFILLED", "FAILED" },
      FULFILLED |-> { "REVOCATION_PENDING", "CANCELLED", "RETRY",
                      "REVOCATION_FAILED" },
      FAILED |-> { "FULFILLING", "CANCELLED", "FULFILLED",
                   "AWAITING_EXTERNAL_ACCEPTANCE" },
      CANCELLED |-> {},
      AWAITING_EXTERNAL_ACCEPTANCE |-> { "FULFILLED", "FAILED", "CANCELLED",
                                         "REVOCATION_PENDING" },
      REVOCATION_PENDING |-> { "REVOKED", "FAILED" },
      REVOKED |-> {},
      RETRY |-> { "REVOCATION_PENDING", "RETRY", "REVOCATION_FAILED", "FULFILLED" },
      REVOCATION_FAILED |-> { "RETRY", "REVOCATION_PENDING" },
      AWAITING_AUTHORITY_DECISION |-> { "APPROVED", "DENIED", "CANCELLED" } ]

\* canTransition.
CanTransition(from, to) == to \in ValidTransitions[from]

=============================================================================
