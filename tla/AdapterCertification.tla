------------------------- MODULE AdapterCertification -------------------------
(***************************************************************************)
(* The certification of model B on a LiveSandbox: the conformance harness  *)
(* of packages/governance-core, as certify-via-adapter.ts (Entra) and      *)
(* certify-okta-model-b.ts run it, certify-entra-fulfillment.ts with its   *)
(* own adapter, the check at the end of bootstrap-okta-primitives.ts, and  *)
(* destroy-okta-sandbox.ts, which revokes through the adapter.             *)
(*                                                                         *)
(* Each of them works through fixtures; a fixture is a plan of adapter     *)
(* calls, each with the answers it accepts and how often it is asked       *)
(* again.  A call makes its requests one at a time (FulfillmentAdapters).  *)
(*                                                                         *)
(* An operator no other definition uses, placed before the definition it   *)
(* varies, is a slip the code could have made; README.md lists them.       *)
(***************************************************************************)
EXTENDS FulfillmentAdapters, LiveSandbox

CONSTANTS
    Attempts,       \* bound: how often a wait asks before its last time
    Confirmations   \* how often Okta's adapter looks for its change

ASSUME WaitAssumption == Attempts \in Nat /\ Confirmations \in Nat \ {0}

VARIABLES
    step,    \* the step of the fixture's plan
    left,    \* how often the step may still ask again
    call,    \* the adapter call: the request it is at or its answer, looks left
    passed,  \* the targets that the last certification says have passed
    erred    \* history: the kinds of requests, "read" and "change", that failed
             \* in the last certify-entra-fulfillment.ts

certification == << step, left, call, passed, erred >>

NoCall == [at |-> "failed", looks |-> 0]

CertificationTypeOK ==
    /\ step \in 0 .. 9
    /\ left \in 0 .. Attempts
    /\ call \in [at : Request \cup Answer, looks : 0 .. Confirmations]
    /\ passed \subseteq Name \X (Copy \cup { Null })
    /\ erred \subseteq { "read", "change" }

CertificationInit ==
    /\ step = 0 /\ left = 0 /\ call = NoCall
    /\ passed = {}
    /\ erred = {}

-----------------------------------------------------------------------------
(* The plans.                                                              *)

Ask(op, accepted, again) == [op |-> op, accepted |-> accepted, again |-> again]
Do(op, accepted) == Ask(op, accepted, 0)

\* waitForVerification: as many attempts as the timing says, and a final one.
WaitFor(answer) == Ask("verify", { answer }, Attempts)

\* runFulfillmentAdapterCertification, for one fixture.
CertifyPlan ==
    << WaitFor("not-found"),
       Do("grant", Succeeded), WaitFor("verified"), Do("grant", { "unchanged" }),
       Do("revoke", Succeeded), WaitFor("not-found"), WaitFor("not-found"),
       Do("revoke", { "unchanged" }), WaitFor("not-found") >>

\* testGroupFulfillment and testAppRoleFulfillment: what revoke answers is not
\* looked at.
FulfillPlan ==
    << Do("grant", { "changed" }), WaitFor("verified"),
       Do("revoke", Answer), WaitFor("not-found") >>

\* bootstrap-okta-primitives.ts: only an entitlement that shows stops it.  The
\* permission has two mappings, and the adapter takes the first both times.
CleanPlan == << Do("verify", Answer \ { "verified" }), Do("verify", Answer \ { "verified" }) >>

\* destroy-okta-sandbox.ts: two revocations, whatever they answer, two checks.
DestroyPlan ==
    << Do("revoke", Answer), Do("revoke", Answer),
       Do("verify", { "not-found" }), Do("verify", { "not-found" }) >>

Plan ==
    CASE script = "certify"   -> CertifyPlan
      [] script = "fulfill"   -> FulfillPlan
      [] script = "bootstrap" -> CleanPlan
      [] OTHER                -> DestroyPlan

\* The fixtures: Entra's are groups and app roles; of Okta's, a group and an
\* application together, the adapter takes the group.
Fixtures == IF provider = "okta" THEN << "group" >> ELSE << "group", "app" >>

Fixture == Head(todo)
Target  == << Fixture, (IF script = "bootstrap" THEN ids ELSE env)[Fixture] >>

\* The adapter the script calls, and the walk of the call it makes.
Table(op) ==
    CASE op = "verify" -> (IF script = "fulfill" THEN FulfillmentVerifyCall ELSE VerifyCall)
      [] op = "grant"  -> (IF provider = "okta" THEN OktaGrantCall
                           ELSE IF script = "fulfill" THEN FulfillmentGrantCall
                           ELSE EntraGrantCall)
      [] op = "revoke" -> (CASE provider = "okta" -> OktaRevokeCall
                             [] provider = "entra" /\ script = "fulfill" ->
                                  (IF Fixture = "group" THEN FulfillmentLeaveGroupCall
                                   ELSE FulfillmentDropRoleCall)
                             [] OTHER -> (IF Fixture = "group" THEN EntraLeaveGroupCall
                                          ELSE EntraDropRoleCall))

-----------------------------------------------------------------------------
(* The scripts that call an adapter.                                       *)

BeginOnceMore(s, again) ==
    /\ step' = s
    /\ left' = again + 1
    /\ call' = [at |-> FirstRequest(Table(Plan[s].op)), looks |-> Confirmations]

\* A step's call begins.
Begin(s, again) ==
    /\ step' = s
    /\ left' = again
    /\ call' = [at |-> FirstRequest(Table(Plan[s].op)), looks |-> Confirmations]

\* No call is under way.
Idle == step' = 0 /\ left' = 0 /\ call' = NoCall

AdapterScript == { "certify", "fulfill", "destroy", "bootstrap" }
Calling == script \in AdapterScript /\ at = "call"

\* A script starts only with the ids it needs, an existing subject and, for the
\* app roles, an existing application.
Ready ==
    /\ exists["user"] # {}
    /\ \A i \in DOMAIN Fixtures : env[Fixtures[i]] # Null
    /\ provider = "entra" => env["app"] \in exists["app"]

StartAdapterScript(s) ==
    /\ Ready
    /\ s = "fulfill" => provider = "entra"
    /\ s = "destroy" => provider = "okta"
    /\ Start(s, "verify", Fixtures)
    /\ IF s \in { "certify", "fulfill" } THEN passed' = {} /\ wavered' = {}
       ELSE UNCHANGED << passed, wavered >>
    /\ erred' = {}
    /\ UNCHANGED << provider, resources, access, env, blind, halfway, step, left, call >>

\* The next fixture begins.
BeginFixture ==
    /\ script \in AdapterScript /\ at = "verify"
    /\ at' = "call"
    /\ Begin(1, Plan[1].again)
    /\ UNCHANGED << provider, resources, access, env, script, todo, ids, runs, history,
                    passed, erred >>

-----------------------------------------------------------------------------
(* A call's requests.                                                      *)

\* What a request's answer leads to; a look for a change that does not show yet
\* is repeated, and fails when no look is left.
Go(answer) ==
    LET next == Table(Plan[step].op)[call.at][answer]
    IN  call' = (IF next # "confirm" THEN [at |-> next, looks |-> 0]
                 ELSE IF call.at = "confirm" /\ call.looks = 1
                      THEN [at |-> "failed", looks |-> 0]
                 ELSE [at |-> "confirm",
                       looks |-> IF call.at = "confirm" THEN call.looks - 1
                                 ELSE Confirmations])

Outage == IF "outage" \in Faults THEN { "error" } ELSE {}

\* certify-entra-fulfillment.ts goes on after a request that failed.
Err(kind) == erred' = (IF script = "fulfill" THEN erred \cup { kind } ELSE erred)

Shown == IF ~TargetExists(Target) THEN "gone"
         ELSE IF Target \in seen THEN "present" ELSE "absent"

Read ==
    /\ Calling /\ call.at \in Reading
    /\ \E answer \in { Shown } \cup Outage :
          /\ Go(answer)
          /\ IF answer = "error" THEN Err("read") ELSE UNCHANGED erred
    /\ UNCHANGED << sandbox, step, left, passed >>

\* A change answers what it did, or fails, done or not.
Change(held, answer) ==
    /\ \/ Go(answer) /\ Hold(held) /\ UNCHANGED erred
       \/ /\ "outage" \in Faults
          /\ Go("error") /\ Err("change")
          /\ Hold(held) \/ UNCHANGED access
    /\ UNCHANGED << provider, resources, env, script, at, todo, ids, runs, history,
                    step, left, passed >>

AddMember ==
    /\ Calling /\ call.at = "add"
    /\ IF TargetExists(Target)
       THEN Change(member \cup { Target }, IF Target \in member THEN "duplicate" ELSE "ok")
       ELSE Change(member, "gone")

\* Okta removes a member that is not there, or says 404; Entra says 404.
RemoveMember ==
    /\ Calling /\ call.at = "delete"
    /\ IF Target \in member THEN Change(member \ { Target }, "ok")
       ELSE \/ Change(member, "gone")
            \/ provider = "okta" /\ Change(member, "duplicate")

-----------------------------------------------------------------------------
(* What the script makes of an answer.                                     *)

Answered == Calling /\ call.at \in Answer
Accepted == call.at \in Plan[step].accepted

\* The step is done; the next one begins.
Accept ==
    /\ Answered /\ Accepted
    /\ step < Len(Plan)
    /\ Begin(step + 1, Plan[step + 1].again)
    /\ UNCHANGED << sandbox, passed, erred >>

\* A wait asks again.
AskAgain ==
    /\ Answered /\ ~Accepted
    /\ left > 0
    /\ Begin(step, left - 1)
    /\ UNCHANGED << sandbox, passed, erred >>

\* What the script's evidence says of the fixture.
Record(verdict) ==
    passed' = (IF script \in { "certify", "fulfill" } /\ verdict = "passed"
               THEN passed \cup { Target } ELSE passed)

\* The fixture is over.  A failed one is left as it is; Okta's bootstrap writes
\* its file only when every fixture is clean.
EndFixture(verdict) ==
    /\ Record(verdict)
    /\ Idle
    /\ IF script = "bootstrap" /\ verdict = "failed" THEN Exit
       ELSE IF Len(todo) > 1
            THEN todo' = Tail(todo) /\ at' = "verify" /\ UNCHANGED << script, ids >>
       ELSE IF script = "bootstrap" THEN at' = "write" /\ UNCHANGED << script, todo, ids >>
       ELSE Exit
    /\ UNCHANGED << provider, resources, access, env, runs, history, erred >>

Pass == Answered /\ Accepted /\ step = Len(Plan) /\ EndFixture("passed")
Fail == Answered /\ ~Accepted /\ left = 0 /\ EndFixture("failed")

AdapterStep ==
    \/ BeginFixture
    \/ Read \/ AddMember \/ RemoveMember
    \/ Accept \/ AskAgain \/ Pass \/ Fail

-----------------------------------------------------------------------------
(* What a certification says is so, as far as the replicas let it be.      *)
(* While a fixture of the harness stands between its grant and its         *)
(* revocation, the subject holds the target; a fixture that passed has     *)
(* left nothing behind.  A read that went back to an older state takes     *)
(* this away only where the adapter looks before it changes anything, at   *)
(* every change of Okta's and the revocation of an Entra app role; and a   *)
(* fixture of certify-entra-fulfillment.ts that passed proves nothing      *)
(* after a read that failed, which its verify takes for an absence, and,   *)
(* when a read went back, after a revocation that failed, whose answer it  *)
(* does not look at (conformance.ts, okta-adapter.ts, entra-adapter.ts,    *)
(* certify-entra-fulfillment.ts).                                          *)

Holding == script = "certify" /\ Calling /\ step \in { 3, 4 }

GrantLooksFirst == provider = "okta"
RevokeLooksFirst(t) == provider = "okta" \/ t[1] = "app"

EvidenceIsTrue ==
    /\ Holding => Target \in member \/ (GrantLooksFirst /\ Target \in wavered)
    /\ \A t \in passed \cap member :
          \/ "read" \in erred
          \/ t \in wavered /\ (RevokeLooksFirst(t) \/ "change" \in erred)

=============================================================================
