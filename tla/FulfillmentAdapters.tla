-------------------------- MODULE FulfillmentAdapters --------------------------
(***************************************************************************)
(* The fulfillment adapters of packages/governance-core and the adapter    *)
(* that scripts/live-governance/model-b/certify-entra-fulfillment.ts has   *)
(* of its own.  A call is a walk through a table: at a request, what the   *)
(* provider answers leads to the next request or to the call's answer.     *)
(*                                                                         *)
(* A request is a read of the entitlement ("read" before a change, "after" *)
(* and "confirm" after one, "recheck" after a surprise) or a change of it  *)
(* ("add", "delete").  The provider answers "present" or "absent" to a     *)
(* read, "ok" or "duplicate" to a change, "gone" (404: the target is not   *)
(* there, or has no such member) or "error" to either.                     *)
(*                                                                         *)
(* An operator no other definition uses, placed before the definition it   *)
(* varies, is a slip the code could have made; README.md lists them.       *)
(***************************************************************************)
EXTENDS Naturals, FiniteSets

Request == { "read", "add", "delete", "after", "confirm", "recheck" }
Reading == { "read", "after", "confirm", "recheck" }

\* FulfillmentResult and VerificationResult: succeeded with mutated TRUE or
\* FALSE, verified, not-found, or failed, which a thrown error is too.
Answer    == { "changed", "unchanged", "verified", "not-found", "failed" }
Succeeded == { "changed", "unchanged" }

-----------------------------------------------------------------------------
(* A read has four answers, a change four.                                 *)

OnRead(present, absent, gone, error) ==
    [ present |-> present, absent |-> absent, gone |-> gone, error |-> error ]
OnChange(ok, duplicate, gone, error) ==
    [ ok |-> ok, duplicate |-> duplicate, gone |-> gone, error |-> error ]

ErrorIsAbsence ==
    [ read |-> OnRead("verified", "not-found", "not-found", "not-found") ]

\* verify of both adapters.
VerifyCall ==
    [ read |-> OnRead("verified", "not-found", "failed", "failed") ]

\* OktaAdapter.grant: looks first, and looks again until the change shows.
OktaGrantCall ==
    [ read    |-> OnRead("unchanged", "add", "failed", "failed"),
      add     |-> OnChange("confirm", "confirm", "failed", "failed"),
      confirm |-> OnRead("changed", "confirm", "confirm", "failed") ]

\* OktaAdapter.revoke: a 404 of the change is checked, not believed.
OktaRevokeCall ==
    [ read    |-> OnRead("delete", "unchanged", "failed", "failed"),
      delete  |-> OnChange("confirm", "confirm", "recheck", "failed"),
      confirm |-> OnRead("confirm", "changed", "confirm", "failed"),
      recheck |-> OnRead("failed", "unchanged", "failed", "failed") ]

\* EntraAdapter.grant: changes at once; a duplicate is a success.
EntraGrantCall ==
    [ add |-> OnChange("changed", "unchanged", "failed", "failed") ]

\* EntraAdapter.revoke of a group membership: what the reads show changes only
\* whether the success is called a change.
EntraLeaveGroupCall ==
    [ delete  |-> OnChange("after", "after", "recheck", "failed"),
      after   |-> OnRead("changed", "changed", "recheck", "failed"),
      recheck |-> OnRead("changed", "unchanged", "unchanged", "unchanged") ]

\* EntraAdapter.revoke of an app role: the assignment's id is looked up first.
EntraDropRoleCall ==
    [ read    |-> OnRead("delete", "recheck", "failed", "failed"),
      delete  |-> OnChange("after", "after", "recheck", "failed"),
      after   |-> OnRead("changed", "changed", "recheck", "failed"),
      recheck |-> OnRead("changed", "unchanged", "unchanged", "unchanged") ]

\* EntraFulfillmentAdapter.grant: a duplicate is a failure.
FulfillmentGrantCall ==
    [ add |-> OnChange("changed", "failed", "failed", "failed") ]

\* EntraFulfillmentAdapter.revoke.
FulfillmentLeaveGroupCall ==
    [ delete |-> OnChange("changed", "changed", "changed", "failed") ]
FulfillmentDropRoleCall ==
    [ read   |-> OnRead("delete", "changed", "failed", "failed"),
      delete |-> OnChange("changed", "changed", "changed", "failed") ]

\* EntraFulfillmentAdapter.verify: a read that fails is "no".
FulfillmentVerifyCall ==
    [ read |-> OnRead("verified", "not-found", "not-found", "not-found") ]

\* The request a call begins with: the one no other request leads to.
FirstRequest(table) ==
    CHOOSE q \in DOMAIN table :
        \A p \in DOMAIN table : \A a \in DOMAIN table[p] : table[p][a] = q => p = q

=============================================================================
