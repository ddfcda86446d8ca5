------------------------ MODULE LiveCertificationProofs ------------------------
(***************************************************************************)
(* The live scripts keep what their evidence says, for any number of       *)
(* scripts, copies, attempts and looks, for replicas that follow the truth *)
(* as late as they like and for replicas that go back on what they showed. *)
(*                                                                         *)
(* Each fixture is a walk of known steps, and at each of them something is *)
(* known of what the subject holds and of what the replica can still show: *)
(* that is the inductive invariant.  An early "not found" matters, because *)
(* from then on the replica shows nothing the subject does not hold, until *)
(* a read goes back; what is still known then is what a change that was    *)
(* made without looking has left.                                          *)
(***************************************************************************)
EXTENDS LiveCertification, SequenceTheorems, TLAPS

-----------------------------------------------------------------------------
(* The bootstraps.                                                         *)

Working == { "find", "create", "new principal", "principal", "delete", "verify", "call" }

\* Who works on a name has one; who works on a service principal has its
\* application.
NameAtHand ==
    /\ at \in Working => todo # << >>
    /\ at \in { "principal", "new principal" } => Head(todo) = "app" /\ ids["app"] \in Copy
    /\ script = "bootstrap governance" => provider = "entra"

\* What is searched for and then created was not found, or was missed, or is an
\* application that got no service principal.
NotFound ==
    at = "create" /\ Head(todo) \in Searched =>
        \/ exists[Head(todo)] = {}
        \/ Head(todo) \in blind
        \/ Head(todo) = "app" /\ halfway

-----------------------------------------------------------------------------
(* The scripts that call an adapter.                                       *)

Certifying == { "certify", "fulfill" }

\* A fixture that has passed is not one of those to come.
FixturesAreLeft ==
    /\ script \in Certifying =>
          /\ at \in { "verify", "call" }
          /\ \/ todo \in { << "group", "app" >>, << "group" >> } /\ passed = {}
             \/ todo = << "app" >> /\ \A t \in passed : t[1] = "group"
    /\ at \in { "verify", "call" } => script \in AdapterScript
    /\ erred # {} \/ script = "fulfill" => provider = "entra"

\* A call is at a request of its table, or has its answer; only a wait asks again.
CallIsKnown ==
    at = "call" =>
        /\ step \in 1 .. Len(Plan)
        /\ call.at \in DOMAIN Table(Plan[step].op) \cup Answer
        /\ call.at = "confirm" => call.looks \in Nat \ {0}
        /\ left \in 0 .. Plan[step].again

\* A read of the target has gone back, and the change looks before it acts.
GrantMisled  == GrantLooksFirst /\ Target \in wavered
RevokeMisled == RevokeLooksFirst(Target) /\ Target \in wavered

\* What the subject holds, and what a replica can show, at the steps of the
\* harness.
CertifyTruth ==
    LET holds == Target \in member
        shows == Target \in seen
        wavers == Target \in wavered
        here  == call.at
    IN  /\ step = 1 /\ here = "not-found" => (shows => holds) \/ wavers
        /\ step = 2 => /\ (shows => holds) \/ wavers
                       /\ here \in Succeeded \cup { "confirm" } => holds \/ GrantMisled
        /\ step = 3 => /\ holds \/ GrantMisled
                       /\ here = "verified" => shows \/ wavers
        /\ step = 4 => (holds \/ GrantMisled) /\ (shows \/ wavers)
        /\ step = 5 => /\ here = "read" => (holds \/ GrantMisled) /\ (shows \/ wavers)
                       /\ here \in Succeeded \cup { "after", "confirm", "recheck" } =>
                             ~holds \/ RevokeMisled
        /\ step \in 6 .. 9 => ~holds \/ RevokeMisled

\* The same at the steps of certify-entra-fulfillment.ts.  Once its revocation
\* has answered, a group that is still held is one whose removal failed.
FulfillTruth ==
    LET holds == Target \in member
        shows == Target \in seen
        wavers == Target \in wavered
        revoked == ~holds \/ RevokeLooksFirst(Target) \/ "change" \in erred
    IN  /\ step = 1 /\ call.at = "changed" => holds /\ TargetExists(Target)
        /\ step = 2 => /\ holds /\ TargetExists(Target)
                       /\ call.at = "verified" => shows \/ wavers
        /\ step \in { 3, 4 } => TargetExists(Target) /\ (holds => shows \/ wavers)
        /\ step = 3 /\ call.at \in Answer => revoked
        /\ step = 4 => revoked
        /\ step = 4 /\ call.at = "not-found" /\ "read" \notin erred => ~holds \/ wavers

StepsAreTrue ==
    /\ script = "certify" /\ at = "call" => CertifyTruth
    /\ script = "fulfill" /\ at = "call" => FulfillTruth

PassedIsGone ==
    \A t \in passed \cap member :
        \/ "read" \in erred
        \/ t \in wavered /\ (RevokeLooksFirst(t) \/ "change" \in erred)

BootstrapInv == SandboxTypeOK /\ NameAtHand /\ NotFound /\ OneOfEach
AdapterInv   == /\ CertificationTypeOK
                /\ FixturesAreLeft /\ CallIsKnown /\ StepsAreTrue /\ PassedIsGone
RunnerInv    == ValidationTypeOK

IInv == BootstrapInv /\ AdapterInv /\ RunnerInv

\* What the history consists of is known throughout.
USE DEF history

-----------------------------------------------------------------------------
(* The tables and the plans.                                                *)

ReadAnswer   == { "present", "absent", "gone", "error" }
ChangeAnswer == { "ok", "duplicate", "gone", "error" }

\* Every answer of the provider leads to a later request of the table or to an
\* answer.
LeadsOn(table) ==
    /\ DOMAIN table \subseteq Request
    /\ \A q \in DOMAIN table :
          \A a \in (IF q \in Reading THEN ReadAnswer ELSE ChangeAnswer) :
              table[q][a] \in (DOMAIN table \ { "read" }) \cup Answer

LEMMA GrantTables ==
  /\ LeadsOn(OktaGrantCall) /\ FirstRequest(OktaGrantCall) = "read"
  /\ LeadsOn(EntraGrantCall) /\ FirstRequest(EntraGrantCall) = "add"
  /\ LeadsOn(FulfillmentGrantCall) /\ FirstRequest(FulfillmentGrantCall) = "add"
  /\ DOMAIN OktaGrantCall = { "read", "add", "confirm" }
  /\ DOMAIN EntraGrantCall = { "add" } /\ DOMAIN FulfillmentGrantCall = { "add" }
<1> USE DEF OnRead, OnChange
<1>1. /\ DOMAIN OktaGrantCall = { "read", "add", "confirm" }
      /\ DOMAIN EntraGrantCall = { "add" } /\ DOMAIN FulfillmentGrantCall = { "add" }
  BY DEF OktaGrantCall, EntraGrantCall, FulfillmentGrantCall
<1>2. LeadsOn(OktaGrantCall)
  BY DEF OktaGrantCall, LeadsOn, Request, Reading, ReadAnswer, ChangeAnswer, Answer
<1>3. LeadsOn(EntraGrantCall) /\ LeadsOn(FulfillmentGrantCall)
  BY DEF EntraGrantCall, FulfillmentGrantCall, LeadsOn, Request, Reading, ReadAnswer,
         ChangeAnswer, Answer
<1>4. FirstRequest(OktaGrantCall) = "read"
  BY DEF OktaGrantCall, FirstRequest
<1>5. FirstRequest(EntraGrantCall) = "add" /\ FirstRequest(FulfillmentGrantCall) = "add"
  BY DEF EntraGrantCall, FulfillmentGrantCall, FirstRequest
<1> QED BY <1>1, <1>2, <1>3, <1>4, <1>5

LEMMA VerifyTables ==
  /\ LeadsOn(VerifyCall) /\ FirstRequest(VerifyCall) = "read" /\ DOMAIN VerifyCall = { "read" }
  /\ LeadsOn(FulfillmentVerifyCall) /\ FirstRequest(FulfillmentVerifyCall) = "read"
  /\ DOMAIN FulfillmentVerifyCall = { "read" }
<1> USE DEF OnRead, OnChange
<1>1. LeadsOn(VerifyCall) /\ LeadsOn(FulfillmentVerifyCall)
  BY DEF VerifyCall, FulfillmentVerifyCall, LeadsOn, Request, Reading, ReadAnswer, Answer
<1>2. FirstRequest(VerifyCall) = "read" /\ FirstRequest(FulfillmentVerifyCall) = "read"
  BY DEF VerifyCall, FulfillmentVerifyCall, FirstRequest
<1>3. DOMAIN VerifyCall = { "read" } /\ DOMAIN FulfillmentVerifyCall = { "read" }
  BY DEF VerifyCall, FulfillmentVerifyCall
<1> QED BY <1>1, <1>2, <1>3

RevokeTables == { OktaRevokeCall, EntraLeaveGroupCall, EntraDropRoleCall,
                  FulfillmentLeaveGroupCall, FulfillmentDropRoleCall }

LEMMA RevokeTablesLead ==
  \A table \in RevokeTables :
      /\ LeadsOn(table) /\ "add" \notin DOMAIN table
      /\ FirstRequest(table) \in DOMAIN table /\ FirstRequest(table) \in { "read", "delete" }
      /\ "delete" \in DOMAIN table => table["delete"]["error"] = "failed"
      /\ "read" \in DOMAIN table => /\ table["read"]["present"] = "delete"
                                   /\ table["read"]["gone"] = "failed"
                                   /\ table["read"]["error"] = "failed"
<1> USE DEF OnRead, OnChange
<1>1. ASSUME NEW table \in RevokeTables
      PROVE  LeadsOn(table) /\ "add" \notin DOMAIN table
  BY <1>1 DEF RevokeTables, OktaRevokeCall, EntraLeaveGroupCall, EntraDropRoleCall,
         FulfillmentLeaveGroupCall, FulfillmentDropRoleCall,
         LeadsOn, Request, Reading, ReadAnswer, ChangeAnswer, Answer
<1>2. FirstRequest(OktaRevokeCall) = "read" /\ "read" \in DOMAIN OktaRevokeCall
  BY DEF OktaRevokeCall, FirstRequest
<1>3. FirstRequest(EntraLeaveGroupCall) = "delete" /\ "delete" \in DOMAIN EntraLeaveGroupCall
  BY DEF EntraLeaveGroupCall, FirstRequest
<1>4. FirstRequest(EntraDropRoleCall) = "read" /\ "read" \in DOMAIN EntraDropRoleCall
  BY DEF EntraDropRoleCall, FirstRequest
<1>5. /\ FirstRequest(FulfillmentLeaveGroupCall) = "delete"
      /\ "delete" \in DOMAIN FulfillmentLeaveGroupCall
  BY DEF FulfillmentLeaveGroupCall, FirstRequest
<1>6. /\ FirstRequest(FulfillmentDropRoleCall) = "read"
      /\ "read" \in DOMAIN FulfillmentDropRoleCall
  BY DEF FulfillmentDropRoleCall, FirstRequest
<1>7. ASSUME NEW table \in RevokeTables
      PROVE  /\ "delete" \in DOMAIN table => table["delete"]["error"] = "failed"
             /\ "read" \in DOMAIN table => /\ table["read"]["present"] = "delete"
                                          /\ table["read"]["gone"] = "failed"
                                          /\ table["read"]["error"] = "failed"
  BY <1>7 DEF RevokeTables, OktaRevokeCall, EntraLeaveGroupCall, EntraDropRoleCall,
         FulfillmentLeaveGroupCall, FulfillmentDropRoleCall
<1> QED BY <1>1, <1>2, <1>3, <1>4, <1>5, <1>6, <1>7 DEF RevokeTables

\* A group membership is removed without looking, but a look may follow.
LEMMA LeaveGroupTables ==
  /\ "read" \notin DOMAIN FulfillmentLeaveGroupCall
  /\ "read" \notin DOMAIN EntraLeaveGroupCall
  /\ DOMAIN FulfillmentLeaveGroupCall = { "delete" }
BY DEF FulfillmentLeaveGroupCall, EntraLeaveGroupCall

LEMMA TableShape ==
  ASSUME NEW op \in { "verify", "grant", "revoke" }
  PROVE  /\ LeadsOn(Table(op))
         /\ FirstRequest(Table(op)) \in DOMAIN Table(op)
         /\ FirstRequest(Table(op)) \in { "read", "add", "delete" }
         /\ "add" \in DOMAIN Table(op) => op = "grant"
         /\ "delete" \in DOMAIN Table(op) => op = "revoke"
<1>1. CASE op = "verify"
  <2>1. Table(op) \in { VerifyCall, FulfillmentVerifyCall }
    BY <1>1 DEF Table
  <2> QED BY <1>1, <2>1, VerifyTables
<1>2. CASE op = "grant"
  <2>1. Table(op) \in { OktaGrantCall, EntraGrantCall, FulfillmentGrantCall }
    BY <1>2 DEF Table
  <2> QED BY <1>2, <2>1, GrantTables
<1>3. CASE op = "revoke"
  <2>1. Table(op) \in RevokeTables
    BY <1>3 DEF Table, RevokeTables
  <2> QED BY <1>3, <2>1, RevokeTablesLead
<1> QED BY <1>1, <1>2, <1>3

LEMMA PlanShape ==
  /\ Len(Plan) \in 1 .. 9
  /\ \A s \in 1 .. Len(Plan) :
        /\ Plan[s].op \in { "verify", "grant", "revoke" }
        /\ Plan[s].again \in 0 .. Attempts
        /\ Plan[s].op = "grant" => script \in Certifying
<1> USE WaitAssumption DEF Ask, Do, WaitFor
<1>1. CASE script = "certify"
  <2>1. Plan = CertifyPlan
    BY <1>1 DEF Plan
  <2>2. Len(CertifyPlan) = 9
    BY DEF CertifyPlan
  <2>3. \A s \in 1 .. 9 : /\ CertifyPlan[s].op \in { "verify", "grant", "revoke" }
                          /\ CertifyPlan[s].again \in 0 .. Attempts
    BY DEF CertifyPlan
  <2> QED BY <1>1, <2>1, <2>2, <2>3 DEF Certifying
<1>2. CASE script = "fulfill"
  <2>1. Plan = FulfillPlan
    BY <1>2 DEF Plan
  <2>2. Len(FulfillPlan) = 4
    BY DEF FulfillPlan
  <2>3. \A s \in 1 .. 4 : /\ FulfillPlan[s].op \in { "verify", "grant", "revoke" }
                          /\ FulfillPlan[s].again \in 0 .. Attempts
    BY DEF FulfillPlan
  <2> QED BY <1>2, <2>1, <2>2, <2>3 DEF Certifying
<1>3. CASE script = "bootstrap"
  <2>1. Plan = CleanPlan
    BY <1>3 DEF Plan
  <2>2. Len(CleanPlan) = 2
    BY DEF CleanPlan
  <2>3. \A s \in 1 .. 2 : CleanPlan[s].op = "verify" /\ CleanPlan[s].again \in 0 .. Attempts
    BY DEF CleanPlan
  <2> QED BY <2>1, <2>2, <2>3
<1>4. CASE script \notin { "certify", "fulfill", "bootstrap" }
  <2>1. Plan = DestroyPlan
    BY <1>4 DEF Plan
  <2>2. Len(DestroyPlan) = 4
    BY DEF DestroyPlan
  <2>3. \A s \in 1 .. 4 : /\ DestroyPlan[s].op \in { "verify", "revoke" }
                          /\ DestroyPlan[s].again \in 0 .. Attempts
    BY DEF DestroyPlan
  <2> QED BY <2>1, <2>2, <2>3
<1> QED BY <1>1, <1>2, <1>3, <1>4

\* What the two certifying scripts do at each step, and what they want of it.
LEMMA CertifySteps ==
  ASSUME script = "certify"
  PROVE  /\ Len(Plan) = 9
         /\ Plan[1].op = "verify" /\ Plan[1].accepted = { "not-found" }
         /\ Plan[2].op = "grant"  /\ Plan[2].accepted = Succeeded /\ Plan[2].again = 0
         /\ Plan[3].op = "verify" /\ Plan[3].accepted = { "verified" }
         /\ Plan[4].op = "grant"
         /\ Plan[5].op = "revoke" /\ Plan[5].accepted = Succeeded /\ Plan[5].again = 0
         /\ \A s \in 6 .. 9 : Plan[s].op \in { "verify", "revoke" }
<1> USE DEF Ask, Do, WaitFor
<1>1. Plan = CertifyPlan
  BY DEF Plan
<1>2. \A s \in 6 .. 9 : CertifyPlan[s].op \in { "verify", "revoke" }
  BY DEF CertifyPlan
<1> QED BY <1>1, <1>2 DEF CertifyPlan

LEMMA FulfillSteps ==
  ASSUME script = "fulfill"
  PROVE  /\ Len(Plan) = 4
         /\ Plan[1].op = "grant"  /\ Plan[1].accepted = { "changed" } /\ Plan[1].again = 0
         /\ Plan[2].op = "verify" /\ Plan[2].accepted = { "verified" }
         /\ Plan[3].op = "revoke" /\ Plan[3].again = 0
         /\ Plan[4].op = "verify" /\ Plan[4].accepted = { "not-found" }
BY DEF Plan, FulfillPlan, Ask, Do, WaitFor

-----------------------------------------------------------------------------
(* What a step leaves alone keeps its invariant.                            *)

LEMMA RunnerFrame ==
  ASSUME RunnerInv, UNCHANGED validation
  PROVE  RunnerInv'
BY DEF RunnerInv, ValidationTypeOK, validation

LEMMA AdapterFrame ==
  ASSUME AdapterInv, UNCHANGED << certification, provider >>,
         passed \cap member' \subseteq member,
         wavered \subseteq wavered', script' \notin Certifying, at' # "call",
         at' = "verify" => script' \in AdapterScript
  PROVE  AdapterInv'
<1>1. CertificationTypeOK'
  BY DEF AdapterInv, CertificationTypeOK, certification
<1>2. FixturesAreLeft'
  BY DEF AdapterInv, FixturesAreLeft, certification, Certifying
<1>3. CallIsKnown' /\ StepsAreTrue'
  BY DEF CallIsKnown, StepsAreTrue
<1>4. PassedIsGone'
  BY DEF AdapterInv, PassedIsGone, certification, RevokeLooksFirst
<1> QED BY <1>1, <1>2, <1>3, <1>4 DEF AdapterInv

LEMMA BootstrapFrame ==
  ASSUME BootstrapInv, UNCHANGED << provider, exists, principal, made, env, blind, halfway >>,
         wavered' \subseteq Name \X Copy, member' \subseteq Name \X Copy,
         seen' \subseteq Name \X Copy,
         once' \subseteq Name \X Copy,
         script' \in Script \cup { "none" }, at' \in Place, todo' \in Seq(Name),
         ids' \in [Name -> Copy \cup { Null }], runs' \in 0 .. MaxRuns,
         \/ UNCHANGED << script, at, todo, ids >>
         \/ /\ at' \notin { "create", "principal", "new principal" }
            /\ at' \in Working => todo' # << >>
            /\ script' = "bootstrap governance" => provider = "entra"
  PROVE  BootstrapInv'
<1>1. SandboxTypeOK'
  BY DEF BootstrapInv, SandboxTypeOK
<1>2. NameAtHand'
  BY DEF BootstrapInv, NameAtHand
<1>3. NotFound' /\ OneOfEach'
  BY DEF BootstrapInv, NotFound, OneOfEach
<1> QED BY <1>1, <1>2, <1>3 DEF BootstrapInv

\* A script that ends.
LEMMA ExitBootstrap ==
  ASSUME BootstrapInv, Exit, UNCHANGED << provider, exists, principal, made, env, history,
         runs >>,
         member' \subseteq Name \X Copy, seen' \subseteq Name \X Copy,
         once' \subseteq Name \X Copy
  PROVE  BootstrapInv'
<1>1. runs' \in 0 .. MaxRuns /\ wavered' \subseteq Name \X Copy
  BY DEF BootstrapInv, SandboxTypeOK
<1>2. /\ script' = "none" /\ at' = "end" /\ todo' = << >> /\ todo' \in Seq(Name)
      /\ ids' \in [Name -> Copy \cup { Null }]
  BY DEF Exit, Nothing
<1> QED BY <1>1, <1>2, BootstrapFrame DEF Place, Working

LEMMA StartCounts ==
  ASSUME SandboxTypeOK, NEW s, NEW place, NEW names, Start(s, place, names)
  PROVE  runs' \in 0 .. MaxRuns
<1>1. runs \in 0 .. MaxRuns /\ MaxRuns \in Nat
  BY SandboxAssumption DEF SandboxTypeOK
<1>2. runs' = runs + 1 /\ runs < MaxRuns
  BY DEF Start
<1> QED BY <1>1, <1>2

\* A script that begins.
LEMMA StartBootstrap ==
  ASSUME BootstrapInv, NEW s \in Script, NEW place \in { "find", "delete", "gate", "verify" },
         NEW names \in Seq(Name), Start(s, place, names),
         place = "gate" \/ names # << >>, s = "bootstrap governance" => provider = "entra",
         UNCHANGED << provider, resources, access, env, blind, halfway >>,
         wavered' \in { wavered, {} }
  PROVE  BootstrapInv'
<1>1. /\ script' = s /\ at' = place /\ todo' = names
      /\ ids' \in [Name -> Copy \cup { Null }]
  BY DEF Start, Nothing
<1>2. runs' \in 0 .. MaxRuns
  BY StartCounts DEF BootstrapInv
<1>3. /\ member' \subseteq Name \X Copy /\ seen' \subseteq Name \X Copy
      /\ once' \subseteq Name \X Copy /\ wavered' \subseteq Name \X Copy
      /\ UNCHANGED << provider, exists, principal, made, env, blind, halfway >>
  BY DEF BootstrapInv, SandboxTypeOK, access, resources
<1> QED BY <1>1, <1>2, <1>3, BootstrapFrame DEF Place, Working

-----------------------------------------------------------------------------
(* The bootstraps.                                                          *)

LEMMA NameSequences ==
  /\ << "user", "group", "app" >> \in Seq(Name) /\ << "group", "app" >> \in Seq(Name)
  /\ << "user", "catalog", "package", "policy" >> \in Seq(Name) /\ << "group" >> \in Seq(Name)
  /\ << "app", "group", "user" >> \in Seq(Name) /\ << >> \in Seq(Name)
BY DEF Name

\* The queue has a next name, and what is created next needs no search.
LEMMA AdvanceIsTyped ==
  ASSUME todo \in Seq(Name), todo # << >>, provider \in { "entra", "okta" }, Advance
  PROVE  /\ todo' \in Seq(Name) /\ at' \in { "find", "create", "verify", "write" }
         /\ at' # "write" => todo' # << >>
         /\ at' = "create" => Head(todo') \notin Searched
         /\ at' = "verify" => provider = "okta"
<1>1. CASE Len(todo) = 1
  <2>1. at' = IF provider = "okta" THEN "verify" ELSE "write"
    BY <1>1 DEF Advance
  <2>2. todo' \in Seq(Name)
    BY NameSequences DEF Advance
  <2>3. provider = "okta" => todo' = << "group" >>
    BY <1>1 DEF Advance
  <2> QED BY <2>1, <2>2, <2>3
<1>2. CASE Len(todo) # 1
  <2>1. Len(todo) > 1
    <3> DEFINE length == Len(todo)
    <3>1. length \in Nat \ {0} /\ length # 1
      BY <1>2, EmptySeq
    <3> HIDE DEF length
    <3>2. length > 1
      BY <3>1
    <3> QED BY <3>2 DEF length
  <2>2. todo' = Tail(todo) /\ at' = PlaceFor(todo[2])
    BY <1>2, <2>1 DEF Advance
  <2>3. todo' \in Seq(Name) /\ Len(todo') = Len(todo) - 1 /\ todo'[1] = todo[2]
    BY <2>1, <2>2, HeadTailProperties
  <2>4. todo' # << >> /\ Head(todo') = todo[2]
    BY <2>1, <2>3, EmptySeq
  <2> QED BY <2>2, <2>3, <2>4 DEF PlaceFor
<1> QED BY <1>1, <1>2

\* The script that runs, if any, is none of the certifying ones, and calls no
\* adapter yet.
KeepsOff ==
    /\ script' \notin Certifying /\ at' # "call"
    /\ at' = "verify" => script' \in AdapterScript

\* What a bootstrap has at hand while it looks for a name or creates one.
LEMMA AtAName ==
  ASSUME BootstrapInv, NEW n \in Name, script \in Bootstrap,
         at \in { "find", "create" }, n = Head(todo)
  PROVE  /\ SandboxTypeOK /\ NameAtHand /\ NotFound /\ OneOfEach
         /\ todo \in Seq(Name) /\ todo # << >> /\ provider \in { "entra", "okta" }
BY SandboxAssumption DEF BootstrapInv, SandboxTypeOK, NameAtHand, Working

\* On to the next name, with what there is changed soundly.
LEMMA AdvanceStep ==
  ASSUME SandboxTypeOK, NameAtHand, script \in Bootstrap, todo # << >>, Advance,
         UNCHANGED << provider, member, seen, once, env, script, runs, history >>,
         exists' \in [Name -> SUBSET Copy], principal' \subseteq Copy,
         made' \in [Name -> 0 .. MaxCopies], ids' \in [Name -> Copy \cup { Null }],
         OneOfEach'
  PROVE  BootstrapInv' /\ KeepsOff
<1>1. /\ todo' \in Seq(Name) /\ at' \in { "find", "create", "verify", "write" }
      /\ at' # "write" => todo' # << >>
      /\ at' = "create" => Head(todo') \notin Searched
      /\ at' = "verify" => provider = "okta"
  BY AdvanceIsTyped, SandboxAssumption DEF SandboxTypeOK
<1>2. SandboxTypeOK'
  BY <1>1 DEF SandboxTypeOK, Place
<1>3. NameAtHand'
  BY <1>1 DEF NameAtHand, Working
<1>4. NotFound'
  BY <1>1 DEF NotFound
<1>5. KeepsOff
  BY <1>1 DEF KeepsOff, NameAtHand, Bootstrap, Certifying, AdapterScript
<1> QED BY <1>2, <1>3, <1>4, <1>5 DEF BootstrapInv

LEMMA ExitKeepsOff ==
  ASSUME Exit
  PROVE  KeepsOff
BY DEF Exit, KeepsOff, Certifying

LEMMA FindStep ==
  ASSUME BootstrapInv, NEW n \in Name, Find(n)
  PROVE  BootstrapInv' /\ KeepsOff
<1>1. /\ at = "find" /\ script \in Bootstrap /\ n = Head(todo)
      /\ UNCHANGED << provider, exists, principal, made, member, seen, once, env, script,
                      runs, history >>
  BY DEF Find, At, resources, access
<1>2. /\ SandboxTypeOK /\ NameAtHand /\ NotFound /\ OneOfEach
      /\ todo \in Seq(Name) /\ todo # << >>
  BY <1>1, AtAName
<1>3. PICK c \in exists[n] :
        /\ ids' = [ids EXCEPT ![n] = c]
        /\ \/ n = "app" /\ at' = "principal" /\ UNCHANGED todo
           \/ Advance
  BY DEF Find
<1>4. c \in Copy /\ ids' \in [Name -> Copy \cup { Null }] /\ ids'[n] = c
  BY <1>2, <1>3 DEF SandboxTypeOK
<1>5. OneOfEach'
  BY <1>1, <1>2 DEF OneOfEach
<1>6. CASE n = "app" /\ at' = "principal" /\ UNCHANGED todo
  <2>1. SandboxTypeOK'
    BY <1>1, <1>2, <1>4, <1>6 DEF SandboxTypeOK, Place
  <2>2. NameAtHand' /\ NotFound'
    BY <1>1, <1>2, <1>4, <1>6 DEF NameAtHand, NotFound
  <2>3. KeepsOff
    BY <1>1, <1>6 DEF KeepsOff, Certifying, Bootstrap
  <2> QED BY <1>5, <2>1, <2>2, <2>3 DEF BootstrapInv
<1>7. CASE Advance
  BY <1>1, <1>2, <1>4, <1>5, <1>7, AdvanceStep DEF SandboxTypeOK
<1> QED BY <1>3, <1>6, <1>7

\* The search that found nothing, or failed without ending the script.
LEMMA ToCreate ==
  ASSUME BootstrapInv, script \in Bootstrap, at \in { "find", "principal" }, at' = "create",
         UNCHANGED << provider, exists, made, member, seen, once, env, script, todo, ids, runs >>,
         principal' \subseteq Copy, blind \subseteq blind', blind' \subseteq Name,
         UNCHANGED wavered, halfway => halfway', halfway' \in BOOLEAN,
         \/ exists[Head(todo)] = {} \/ Head(todo) \in blind'
         \/ Head(todo) = "app" /\ halfway'
  PROVE  BootstrapInv' /\ KeepsOff
<1>1. SandboxTypeOK'
  BY DEF BootstrapInv, SandboxTypeOK, Place
<1>2. NameAtHand'
  BY DEF BootstrapInv, NameAtHand, Working
<1>3. NotFound' /\ OneOfEach'
  BY DEF BootstrapInv, NotFound, OneOfEach
<1>4. KeepsOff
  BY DEF KeepsOff, Certifying, Bootstrap
<1> QED BY <1>1, <1>2, <1>3, <1>4 DEF BootstrapInv

LEMMA FindNoneStep ==
  ASSUME BootstrapInv, NEW n \in Name, FindNone(n) \/ FindFails(n)
  PROVE  BootstrapInv' /\ KeepsOff
<1>1. /\ at = "find" /\ script \in Bootstrap /\ n = Head(todo)
      /\ UNCHANGED << provider, exists, principal, made, member, seen, once, env, runs, halfway,
                      wavered >>
  BY DEF FindNone, FindFails, At, resources, access
<1>2. SandboxTypeOK
  BY DEF BootstrapInv
<1>3. CASE Exit /\ UNCHANGED blind
  BY <1>1, <1>2, <1>3, ExitBootstrap, ExitKeepsOff DEF SandboxTypeOK
<1>4. CASE ~Exit
  <2>1. /\ at' = "create" /\ UNCHANGED << script, todo, ids >>
        /\ blind' = blind \cup { n } \/ (blind' = blind /\ exists[n] = {})
    BY <1>4 DEF FindNone, FindFails
  <2> QED BY <1>1, <1>2, <2>1, ToCreate DEF SandboxTypeOK
<1>5. Exit => UNCHANGED blind
  BY DEF FindNone, FindFails, Exit
<1> QED BY <1>3, <1>4, <1>5

LEMMA AddIsTyped ==
  ASSUME SandboxTypeOK, NEW n \in Name, Add(n)
  PROVE  /\ exists' \in [Name -> SUBSET Copy] /\ made' \in [Name -> 0 .. MaxCopies]
         /\ made[n] + 1 \in Copy
<1>1. made[n] \in 0 .. MaxCopies /\ made[n] < MaxCopies /\ MaxCopies \in Nat
  BY SandboxAssumption DEF SandboxTypeOK, Add
<1>2. made[n] + 1 \in 1 .. MaxCopies /\ made[n] + 1 \in 0 .. MaxCopies
  BY <1>1
<1> QED BY <1>2 DEF Add, SandboxTypeOK, Copy

\* A name is added where it was not found, or after a search that failed.
LEMMA AddIsOne ==
  ASSUME BootstrapInv, NEW n \in Name, at = "create", n = Head(todo), Add(n),
         UNCHANGED << blind, halfway >>
  PROVE  OneOfEach'
<1>1. /\ exists \in [Name -> SUBSET Copy]
      /\ exists' = [exists EXCEPT ![n] = @ \cup { made[n] + 1 }]
      /\ n \in Searched => exists[n] = {} \/ n \in blind \/ (n = "app" /\ halfway)
      /\ OneOfEach
  BY DEF BootstrapInv, SandboxTypeOK, NotFound, Add
<1>2. \A m \in Name : m # n => exists'[m] = exists[m]
  BY <1>1
<1>3. exists'[n] = exists[n] \cup { made[n] + 1 }
  BY <1>1
<1> QED BY <1>1, <1>2, <1>3 DEF OneOfEach, Searched, Name

LEMMA CreateStep ==
  ASSUME BootstrapInv, NEW n \in Name, Create(n)
  PROVE  BootstrapInv' /\ KeepsOff
<1>1. /\ at = "create" /\ script \in Bootstrap /\ n = Head(todo) /\ Add(n)
      /\ ids' = [ids EXCEPT ![n] = made[n] + 1]
      /\ UNCHANGED << provider, principal, member, seen, once, env, script, runs, history >>
  BY DEF Create, At, access
<1>2. /\ SandboxTypeOK /\ NameAtHand /\ todo \in Seq(Name) /\ todo # << >>
  BY <1>1, AtAName
<1>3. /\ exists' \in [Name -> SUBSET Copy] /\ made' \in [Name -> 0 .. MaxCopies]
      /\ made[n] + 1 \in Copy /\ OneOfEach'
  BY <1>1, <1>2, AddIsTyped, AddIsOne
<1>4. ids' \in [Name -> Copy \cup { Null }] /\ ids'[n] \in Copy /\ principal' \subseteq Copy
  BY <1>1, <1>2, <1>3 DEF SandboxTypeOK
<1>5. CASE n = "app" /\ at' = "new principal" /\ UNCHANGED todo
  <2>1. SandboxTypeOK'
    BY <1>1, <1>2, <1>3, <1>4, <1>5 DEF SandboxTypeOK, Place
  <2>2. NameAtHand' /\ NotFound'
    BY <1>1, <1>2, <1>4, <1>5 DEF NameAtHand, NotFound
  <2>3. KeepsOff
    BY <1>1, <1>5 DEF KeepsOff, Certifying, Bootstrap
  <2> QED BY <1>3, <2>1, <2>2, <2>3 DEF BootstrapInv
<1>6. CASE Advance
  BY <1>1, <1>2, <1>3, <1>4, <1>6, AdvanceStep
<1> QED BY <1>5, <1>6 DEF Create

LEMMA CreateFailsStep ==
  ASSUME BootstrapInv, NEW n \in Name, CreateFails(n)
  PROVE  BootstrapInv' /\ KeepsOff
<1>1. /\ at = "create" /\ n = Head(todo) /\ Exit /\ SandboxTypeOK
      /\ Add(n) \/ UNCHANGED << exists, made >>
      /\ UNCHANGED << provider, principal, member, seen, once, env, runs, history >>
  BY DEF CreateFails, At, access, BootstrapInv
<1>2. CASE UNCHANGED << exists, made >>
  BY <1>1, <1>2, ExitBootstrap, ExitKeepsOff DEF SandboxTypeOK
<1>3. CASE Add(n)
  <2>1. /\ exists' \in [Name -> SUBSET Copy] /\ made' \in [Name -> 0 .. MaxCopies] /\ OneOfEach'
    BY <1>1, <1>3, AddIsTyped, AddIsOne
  <2>2. /\ script' = "none" /\ at' = "end" /\ todo' \in Seq(Name)
        /\ ids' \in [Name -> Copy \cup { Null }]
    BY <1>1, NameSequences DEF Exit, Nothing
  <2>3. SandboxTypeOK'
    BY <1>1, <2>1, <2>2 DEF SandboxTypeOK, Place
  <2>4. NameAtHand' /\ NotFound'
    BY <2>2 DEF NameAtHand, NotFound, Working
  <2> QED BY <1>1, <2>1, <2>3, <2>4, ExitKeepsOff DEF BootstrapInv
<1> QED BY <1>1, <1>2, <1>3

LEMMA ServicePrincipalStep ==
  ASSUME BootstrapInv, CreateServicePrincipal \/ ServicePrincipalFails
  PROVE  BootstrapInv' /\ KeepsOff
<1>1. /\ at \in { "principal", "new principal" } /\ script \in Bootstrap
      /\ SandboxTypeOK /\ NameAtHand /\ OneOfEach /\ todo # << >>
      /\ ids["app"] \in Copy /\ Head(todo) = "app"
      /\ UNCHANGED << provider, exists, made, member, seen, once, env, runs, blind, wavered >>
  BY DEF CreateServicePrincipal, ServicePrincipalFails, access, BootstrapInv, NameAtHand, Working
<1>2. principal' \subseteq Copy
  BY <1>1 DEF CreateServicePrincipal, ServicePrincipalFails, SandboxTypeOK
<1>3. CASE CreateServicePrincipal
  <2>1. Advance /\ UNCHANGED << script, ids, history >>
    BY <1>3 DEF CreateServicePrincipal
  <2>2. OneOfEach'
    BY <1>1, <2>1 DEF OneOfEach
  <2> QED BY <1>1, <1>2, <2>1, <2>2, AdvanceStep DEF SandboxTypeOK
<1>4. CASE ServicePrincipalFails /\ at = "principal"
  <2>1. /\ at' = "create" /\ halfway' = TRUE /\ UNCHANGED << script, todo, ids >>
    BY <1>4 DEF ServicePrincipalFails
  <2>2. blind' \subseteq Name
    BY <1>1 DEF SandboxTypeOK
  <2> QED BY <1>1, <1>2, <1>4, <2>1, <2>2, ToCreate
<1>5. CASE ServicePrincipalFails /\ at # "principal"
  <2>1. Exit /\ UNCHANGED halfway
    BY <1>5 DEF ServicePrincipalFails
  <2>2. /\ script' = "none" /\ at' = "end" /\ todo' \in Seq(Name)
        /\ ids' \in [Name -> Copy \cup { Null }]
    BY <2>1, NameSequences DEF Exit, Nothing
  <2>3. SandboxTypeOK'
    BY <1>1, <1>2, <2>1, <2>2 DEF SandboxTypeOK, Place
  <2>4. NameAtHand' /\ NotFound' /\ OneOfEach'
    BY <1>1, <2>1, <2>2 DEF NameAtHand, NotFound, Working, OneOfEach
  <2> QED BY <2>1, <2>3, <2>4, ExitKeepsOff DEF BootstrapInv
<1> QED BY <1>3, <1>4, <1>5

LEMMA WriteEnvStep ==
  ASSUME BootstrapInv, WriteEnv
  PROVE  BootstrapInv' /\ KeepsOff
<1>1. /\ SandboxTypeOK /\ OneOfEach /\ Exit
      /\ env' = [n \in Name |-> IF n \in EnvFile THEN ids[n] ELSE Null]
      /\ UNCHANGED << provider, exists, principal, made, member, seen, once, runs, history >>
  BY DEF BootstrapInv, WriteEnv, resources, access
<1>2. env' \in [Name -> Copy \cup { Null }]
  BY <1>1 DEF SandboxTypeOK
<1>3. /\ script' = "none" /\ at' = "end" /\ todo' \in Seq(Name)
      /\ ids' \in [Name -> Copy \cup { Null }]
  BY <1>1, NameSequences DEF Exit, Nothing
<1>4. SandboxTypeOK'
  BY <1>1, <1>2, <1>3 DEF SandboxTypeOK, Place
<1>5. NameAtHand' /\ NotFound' /\ OneOfEach'
  BY <1>1, <1>3 DEF NameAtHand, NotFound, Working, OneOfEach
<1> QED BY <1>1, <1>4, <1>5, ExitKeepsOff DEF BootstrapInv

LEMMA DeleteStep ==
  ASSUME BootstrapInv, NEW n \in Name, Delete(n)
  PROVE  BootstrapInv' /\ KeepsOff /\ member' \subseteq member
<1>1. /\ SandboxTypeOK /\ OneOfEach /\ NameAtHand /\ at = "delete" /\ script = "destroy"
      /\ todo # << >> /\ UNCHANGED << provider, made, env, runs, history >> /\ NextName
  BY DEF BootstrapInv, Delete, At, NameAtHand, Working
<1>2. PICK gone \in { {}, Cleared(n) } : exists' = [exists EXCEPT ![n] = @ \ gone]
  BY DEF Delete
<1>3. exists' \in [Name -> SUBSET Copy] /\ \A m \in Name : exists'[m] \subseteq exists[m]
  BY <1>1, <1>2 DEF SandboxTypeOK
<1>4. principal' \subseteq principal
  BY DEF Delete
<1>5. /\ member' \subseteq member /\ seen' \subseteq Name \X Copy
      /\ once' \subseteq Name \X Copy
  BY <1>1 DEF Delete, Hold, SandboxTypeOK
<1>6. OneOfEach'
  BY <1>1, <1>3 DEF OneOfEach, Searched, Name
<1>7. CASE todo' = Tail(todo) /\ UNCHANGED << script, at, ids >> /\ Len(todo) > 1
  <2>1. todo' \in Seq(Name) /\ Len(todo') = Len(todo) - 1
    BY <1>1, <1>7, HeadTailProperties DEF SandboxTypeOK
  <2>2. todo' # << >>
    <3>1. todo' # << >> \/ Len(todo') = 0
      BY EmptySeq
    <3>2. todo \in Seq(Name)
      BY <1>1 DEF SandboxTypeOK
    <3>3. Len(todo) \in Nat
      BY <3>2, LenProperties
    <3> QED BY <1>7, <2>1, <3>1, <3>3
  <2>3. SandboxTypeOK'
    BY <1>1, <1>3, <1>4, <1>5, <1>7, <2>1 DEF SandboxTypeOK
  <2>4. NameAtHand' /\ NotFound' /\ KeepsOff
    BY <1>1, <1>7, <2>2 DEF NameAtHand, NotFound, KeepsOff, Certifying
  <2> QED BY <1>5, <1>6, <2>3, <2>4 DEF BootstrapInv
<1>8. CASE Exit
  <2>1. /\ script' = "none" /\ at' = "end" /\ todo' \in Seq(Name)
        /\ ids' \in [Name -> Copy \cup { Null }]
    BY <1>8, NameSequences DEF Exit, Nothing
  <2>2. SandboxTypeOK'
    BY <1>1, <1>3, <1>4, <1>5, <2>1 DEF SandboxTypeOK, Place
  <2>3. NameAtHand' /\ NotFound'
    BY <2>1 DEF NameAtHand, NotFound, Working
  <2> QED BY <1>5, <1>6, <1>8, <2>2, <2>3, ExitKeepsOff DEF BootstrapInv
<1> QED BY <1>1, <1>7, <1>8 DEF NextName

-----------------------------------------------------------------------------
(* Scripts that begin, the tenant that follows, a script that dies.         *)

LEMMA OperatorSandbox ==
  ASSUME BootstrapInv,
         \/ BootstrapEntraPrimitives \/ BootstrapOktaPrimitives
         \/ BootstrapEntraGovernance \/ DestroyEntraPrimitives
  PROVE  BootstrapInv' /\ KeepsOff /\ UNCHANGED << provider, member, wavered >>
<1>1. UNCHANGED << provider, resources, access, env, history, member, wavered >>
  BY DEF BootstrapEntraPrimitives, BootstrapOktaPrimitives, BootstrapEntraGovernance,
         DestroyEntraPrimitives, access
<1>2. CASE BootstrapEntraPrimitives
  <2>1. Start("bootstrap", "find", << "user", "group", "app" >>)
    BY <1>2 DEF BootstrapEntraPrimitives
  <2>2. /\ "bootstrap" \in Script /\ "bootstrap" # "bootstrap governance"
        /\ "find" \in { "find", "delete", "gate", "verify" }
        /\ << "user", "group", "app" >> # << >> /\ << "user", "group", "app" >> \in Seq(Name)
    BY NameSequences DEF Script, Bootstrap
  <2>3. BootstrapInv'
    BY <1>1, <2>1, <2>2, StartBootstrap
  <2> QED BY <1>1, <2>1, <2>3 DEF Start, KeepsOff, Certifying
<1>3. CASE BootstrapOktaPrimitives
  <2>1. Start("bootstrap", "find", << "group", "app" >>)
    BY <1>3 DEF BootstrapOktaPrimitives
  <2>2. /\ "bootstrap" \in Script /\ "bootstrap" # "bootstrap governance"
        /\ "find" \in { "find", "delete", "gate", "verify" }
        /\ << "group", "app" >> # << >> /\ << "group", "app" >> \in Seq(Name)
    BY NameSequences DEF Script, Bootstrap
  <2>3. BootstrapInv'
    BY <1>1, <2>1, <2>2, StartBootstrap
  <2> QED BY <1>1, <2>1, <2>3 DEF Start, KeepsOff, Certifying
<1>4. CASE BootstrapEntraGovernance
  <2>1. /\ Start("bootstrap governance", "find", << "user", "catalog", "package", "policy" >>)
        /\ provider = "entra"
    BY <1>4 DEF BootstrapEntraGovernance
  <2>2. BootstrapInv'
    BY <1>1, <2>1, NameSequences, StartBootstrap DEF Script, Bootstrap
  <2> QED BY <1>1, <2>1, <2>2 DEF Start, KeepsOff, Certifying
<1>5. CASE DestroyEntraPrimitives
  <2>1. Start("destroy", "delete", << "app", "group", "user" >>)
    BY <1>5 DEF DestroyEntraPrimitives
  <2>2. /\ "destroy" \in Script /\ "destroy" # "bootstrap governance"
        /\ "delete" \in { "find", "delete", "gate", "verify" }
        /\ << "app", "group", "user" >> # << >> /\ << "app", "group", "user" >> \in Seq(Name)
    BY NameSequences DEF Script, Bootstrap
  <2>3. BootstrapInv'
    BY <1>1, <2>1, <2>2, StartBootstrap
  <2> QED BY <1>1, <2>1, <2>3 DEF Start, KeepsOff, Certifying
<1> QED BY <1>2, <1>3, <1>4, <1>5

LEMMA OperatorPreserves ==
  ASSUME IInv, Operator
  PROVE  IInv'
<1>1. BootstrapInv /\ AdapterInv /\ RunnerInv
  BY DEF IInv
<1>2. CASE /\ \/ BootstrapEntraPrimitives \/ BootstrapOktaPrimitives
              \/ BootstrapEntraGovernance \/ DestroyEntraPrimitives
           /\ UNCHANGED << certification, validation >>
  <2>1. BootstrapInv' /\ KeepsOff /\ UNCHANGED << provider, member, wavered >>
    BY <1>1, <1>2, OperatorSandbox
  <2>2. AdapterInv'
    BY <1>1, <1>2, <2>1, AdapterFrame DEF KeepsOff
  <2>3. RunnerInv'
    BY <1>1, <1>2, RunnerFrame
  <2> QED BY <2>1, <2>2, <2>3 DEF IInv
<1>3. ASSUME NEW s \in { "certify", "fulfill", "destroy" }, StartAdapterScript(s),
             UNCHANGED validation
      PROVE  IInv'
  <2>1. /\ Start(s, "verify", Fixtures) /\ (s = "fulfill" => provider = "entra")
        /\ (s = "destroy" => provider = "okta")
        /\ IF s \in Certifying THEN passed' = {} /\ wavered' = {}
           ELSE UNCHANGED << passed, wavered >>
        /\ erred' = {}
        /\ UNCHANGED << provider, resources, access, env, blind, halfway, step, left, call >>
    BY <1>3 DEF StartAdapterScript, Certifying
  <2>2. /\ Fixtures \in { << "group", "app" >>, << "group" >> } /\ Fixtures \in Seq(Name)
        /\ Fixtures # << >>
    BY NameSequences DEF Fixtures
  <2>3. script' = s /\ at' = "verify" /\ todo' = Fixtures
    BY <2>1 DEF Start
  <2>4. s \in Script /\ "verify" \in { "find", "delete", "gate", "verify" }
        /\ s # "bootstrap governance"
    BY DEF Script
  <2>5. BootstrapInv'
    BY <1>1, <2>1, <2>2, <2>4, StartBootstrap
  <2>6. CertificationTypeOK'
    BY <1>1, <2>1 DEF AdapterInv, CertificationTypeOK
  <2>7. FixturesAreLeft'
    BY <2>1, <2>2, <2>3 DEF FixturesAreLeft, Certifying, AdapterScript
  <2>8. CallIsKnown' /\ StepsAreTrue'
    BY <2>3 DEF CallIsKnown, StepsAreTrue
  <2>9. PassedIsGone'
    <3>1. s \notin Certifying => provider = "okta"
      BY <2>1 DEF Certifying
    <3>2. provider = "okta" => erred = {}
      BY <1>1 DEF AdapterInv, FixturesAreLeft
    <3>3. CASE s \in Certifying
      BY <2>1, <3>3 DEF PassedIsGone
    <3>4. CASE s \notin Certifying
      BY <1>1, <2>1, <3>1, <3>2, <3>4 DEF AdapterInv, PassedIsGone, access, RevokeLooksFirst
    <3> QED BY <3>3, <3>4
  <2>10. RunnerInv'
    BY <1>1, <1>3, RunnerFrame
  <2> QED BY <2>5, <2>6, <2>7, <2>8, <2>9, <2>10 DEF IInv, AdapterInv
<1>4. CASE StartValidation /\ UNCHANGED certification
  <2>1. /\ Start("validate", "gate", << >>)
        /\ UNCHANGED << provider, resources, access, env, history, requests, stored >>
        /\ Forget
    BY <1>4 DEF StartValidation
  <2>2. script' = "validate" /\ at' = "gate"
    BY <2>1 DEF Start
  <2>3. BootstrapInv'
    BY <1>1, <2>1, NameSequences, StartBootstrap DEF Script
  <2>4. KeepsOff /\ UNCHANGED << provider, member, wavered >>
    BY <2>1, <2>2 DEF KeepsOff, Certifying, access
  <2>5. AdapterInv'
    BY <1>1, <1>4, <2>4, AdapterFrame DEF KeepsOff
  <2>6. RunnerInv'
    BY <1>1, <2>1 DEF RunnerInv, ValidationTypeOK, Forget
  <2> QED BY <2>3, <2>5, <2>6 DEF IInv
<1> QED BY <1>2, <1>3, <1>4 DEF Operator

LEMMA BootstrapPreserves ==
  ASSUME IInv, UNCHANGED << certification, validation >>,
         BootstrapStep \/ \E n \in Name : Delete(n)
  PROVE  IInv'
<1>1. BootstrapInv /\ AdapterInv /\ RunnerInv
  BY DEF IInv
<1>2. BootstrapInv' /\ KeepsOff
  BY <1>1, FindStep, FindNoneStep, CreateStep, CreateFailsStep, ServicePrincipalStep,
     WriteEnvStep, DeleteStep DEF BootstrapStep
<1>3. member' \subseteq member /\ UNCHANGED << provider, wavered >>
  <2>1. CASE BootstrapStep
    BY <2>1 DEF BootstrapStep, Find, FindNone, FindFails, Create, CreateFails,
       CreateServicePrincipal, ServicePrincipalFails, WriteEnv, access
  <2>2. ASSUME NEW n \in Name, Delete(n)
        PROVE  member' \subseteq member /\ UNCHANGED << provider, wavered >>
    BY <1>1, <2>2, DeleteStep DEF Delete
  <2> QED BY <2>1, <2>2
<1>4. AdapterInv'
  BY <1>1, <1>2, <1>3, AdapterFrame DEF KeepsOff
<1>5. RunnerInv'
  BY <1>1, RunnerFrame
<1> QED BY <1>2, <1>4, <1>5 DEF IInv

-----------------------------------------------------------------------------
(* The steps of a call.                                                     *)

CallType == [ at : Request \cup Answer, looks : 0 .. Confirmations ]

LEMMA SameScript ==
  ASSUME UNCHANGED << provider, script, todo, ids, env >>
  PROVE  Plan' = Plan /\ Target' = Target /\ \A op : Table(op)' = Table(op)
<1>1. Plan' = Plan
  BY DEF Plan
<1>2. Fixture' = Fixture
  BY DEF Fixture
<1>3. Target' = Target
  BY <1>2 DEF Target
<1>4. \A op : Table(op)' = Table(op)
  BY <1>2 DEF Table
<1> QED BY <1>1, <1>3, <1>4

LEMMA BeginCall ==
  ASSUME UNCHANGED << provider, script, todo, ids, env >>, at' = "call",
         NEW n \in 1 .. Len(Plan), NEW again \in 0 .. Plan[n].again, Begin(n, again)
  PROVE  /\ CallIsKnown' /\ call'.at \in { "read", "add", "delete" } /\ step' = n
         /\ step' \in 0 .. 9 /\ left' \in 0 .. Attempts /\ call' \in CallType
<1> DEFINE op == Plan[n].op
<1>1. /\ op \in { "verify", "grant", "revoke" } /\ n \in 0 .. 9
      /\ Plan[n].again \in 0 .. Attempts
  <2> DEFINE last == Len(Plan)
  <2>1. n \in 1 .. last /\ last \in 1 .. 9
    BY PlanShape
  <2> HIDE DEF last
  <2>2. n \in 0 .. 9
    BY <2>1
  <2> QED BY <2>2, PlanShape
<1>2. again \in 0 .. Attempts
  <2> DEFINE most == Plan[n].again
  <2>1. most \in 0 .. Attempts /\ Attempts \in Nat /\ again \in 0 .. most
    BY <1>1, WaitAssumption
  <2> HIDE DEF most
  <2> QED BY <2>1
<1>3. /\ FirstRequest(Table(op)) \in DOMAIN Table(op)
      /\ FirstRequest(Table(op)) \in { "read", "add", "delete" }
  BY <1>1, TableShape
<1>4. /\ step' = n /\ left' = again
      /\ call' = [ at |-> FirstRequest(Table(op)), looks |-> Confirmations ]
  BY DEF Begin
<1>5. call' \in CallType /\ call'.at = FirstRequest(Table(op))
  BY <1>3, <1>4, WaitAssumption DEF CallType, Request
<1>6. /\ step' \in 1 .. Len(Plan)' /\ left' \in 0 .. Plan'[step'].again
      /\ Table(Plan[step].op)' = Table(op)
  BY <1>4, SameScript
<1>7. CallIsKnown'
  BY <1>3, <1>5, <1>6 DEF CallIsKnown
<1> QED BY <1>1, <1>2, <1>3, <1>4, <1>5, <1>7

\* What is known of the call that a script is at.
LEMMA CallFacts ==
  ASSUME AdapterInv, at = "call"
  PROVE  /\ step \in 1 .. Len(Plan) /\ step \in 0 .. 9 /\ call \in CallType
         /\ Plan[step].op \in { "verify", "grant", "revoke" }
         /\ call.at \in DOMAIN Table(Plan[step].op) \cup Answer
         /\ LeadsOn(Table(Plan[step].op)) /\ Request \cap Answer = {}
         /\ "add" \in DOMAIN Table(Plan[step].op) => Plan[step].op = "grant"
         /\ "delete" \in DOMAIN Table(Plan[step].op) => Plan[step].op = "revoke"
         /\ Plan[step].op = "grant" => script \in Certifying
<1>1. step \in 1 .. Len(Plan) /\ call.at \in DOMAIN Table(Plan[step].op) \cup Answer
  BY DEF AdapterInv, CallIsKnown
<1>2. step \in 0 .. 9 /\ call \in CallType
  BY DEF AdapterInv, CertificationTypeOK, CallType
<1>3. Plan[step].op \in { "verify", "grant", "revoke" }
      /\ (Plan[step].op = "grant" => script \in Certifying)
  BY <1>1, PlanShape
<1>4. Request \cap Answer = {}
  BY DEF Request, Answer
<1> QED BY <1>1, <1>2, <1>3, <1>4, TableShape

\* A request's answer leads on within the call.
LEMMA GoLeads ==
  ASSUME AdapterInv, at = "call", call.at \in Request,
         UNCHANGED << provider, script, todo, ids, env, at, step, left >>,
         NEW answer \in (IF call.at \in Reading THEN ReadAnswer ELSE ChangeAnswer),
         Go(answer)
  PROVE  /\ CallIsKnown' /\ call' \in CallType
         /\ Table(Plan[step].op)[call.at][answer] # "confirm" =>
                call'.at = Table(Plan[step].op)[call.at][answer]
         /\ Table(Plan[step].op)[call.at][answer] = "confirm" =>
                call'.at \in { "confirm", "failed" }
         /\ call'.at # "read"
<1> DEFINE table == Table(Plan[step].op)
           next  == table[call.at][answer]
<1>1. /\ step \in 1 .. Len(Plan) /\ call \in CallType /\ call.at \in DOMAIN table
      /\ LeadsOn(table) /\ Request \cap Answer = {}
  BY CallFacts
<1>2. next \in (DOMAIN table \ { "read" }) \cup Answer /\ DOMAIN table \subseteq Request
  BY <1>1 DEF LeadsOn
<1>3. /\ call.looks \in 0 .. Confirmations /\ Confirmations \in Nat \ {0}
      /\ call.at = "confirm" => call.looks \in Nat \ {0}
  BY <1>1, WaitAssumption DEF CallType, AdapterInv, CallIsKnown
<1>4. call' = IF next # "confirm" THEN [ at |-> next, looks |-> 0 ]
              ELSE IF call.at = "confirm" /\ call.looks = 1
                   THEN [ at |-> "failed", looks |-> 0 ]
              ELSE [ at |-> "confirm",
                     looks |-> IF call.at = "confirm" THEN call.looks - 1 ELSE Confirmations ]
  BY DEF Go
<1> HIDE DEF table, next
<1>5. CASE next # "confirm"
  <2>1. call' = [ at |-> next, looks |-> 0 ]
    BY <1>4, <1>5
  <2>2. call' \in CallType /\ call'.at = next
    BY <1>2, <1>3, <2>1 DEF CallType
  <2>3. CallIsKnown'
    <3>1. /\ Plan' = Plan /\ Table(Plan[step].op)' = table /\ step' = step /\ left' = left
      BY SameScript DEF table
    <3> QED BY <1>1, <1>2, <1>5, <2>2, <3>1 DEF CallIsKnown, AdapterInv
  <2> QED BY <1>2, <1>5, <2>2, <2>3 DEF table, next, Answer
<1>6. CASE next = "confirm"
  <2>1. /\ call' \in CallType /\ call'.at \in { "confirm", "failed" }
        /\ call'.at = "confirm" => call'.looks \in Nat \ {0}
    <3>1. CASE call.at = "confirm" /\ call.looks = 1
      BY <1>3, <1>4, <1>6, <3>1 DEF CallType, Answer
    <3>2. CASE call.at = "confirm" /\ call.looks # 1
      <4>1. call.looks - 1 \in 0 .. Confirmations /\ call.looks - 1 \in Nat \ {0}
        BY <1>3, <3>2
      <4>2. call' = [ at |-> "confirm", looks |-> call.looks - 1 ]
        BY <1>4, <1>6, <3>2
      <4> QED BY <4>1, <4>2 DEF CallType, Request
    <3>3. CASE call.at # "confirm"
      <4>1. call' = [ at |-> "confirm", looks |-> Confirmations ]
        BY <1>4, <1>6, <3>3
      <4> QED BY <1>3, <4>1 DEF CallType, Request
    <3> QED BY <3>1, <3>2, <3>3
  <2>2. CallIsKnown'
    <3>1. /\ Plan' = Plan /\ Table(Plan[step].op)' = table /\ step' = step /\ left' = left
      BY SameScript DEF table
    <3>2. "confirm" \in DOMAIN table /\ "failed" \in Answer
      BY <1>2, <1>6 DEF Answer
    <3> QED BY <1>1, <2>1, <3>1, <3>2 DEF CallIsKnown, AdapterInv
  <2> QED BY <1>6, <2>1, <2>2 DEF table, next
<1> QED BY <1>5, <1>6

LEMMA WithinCall ==
  ASSUME AdapterInv, at = "call", UNCHANGED << provider, script, todo, ids, env, at, passed >>,
         CallIsKnown', call' \in CallType, step' \in 0 .. 9, left' \in 0 .. Attempts,
         erred' \subseteq { "read", "change" }, erred' = erred \/ script = "fulfill",
         StepsAreTrue', PassedIsGone'
  PROVE  AdapterInv'
<1>1. CertificationTypeOK'
  BY DEF AdapterInv, CertificationTypeOK, CallType
<1>2. FixturesAreLeft'
  BY DEF AdapterInv, FixturesAreLeft
<1> QED BY <1>1, <1>2 DEF AdapterInv

\* Only a revocation that looks first begins with a read.
LEMMA RevokeReads ==
  ASSUME AdapterInv, script \in Certifying, "read" \in DOMAIN Table("revoke")
  PROVE  RevokeLooksFirst(Target)
<1>1. Fixture \in { "group", "app" }
  BY DEF AdapterInv, FixturesAreLeft, Fixture
<1>2. CASE provider = "okta"
  BY <1>2 DEF RevokeLooksFirst
<1>3. CASE provider # "okta" /\ Fixture = "group"
  <2>1. Table("revoke") \in { FulfillmentLeaveGroupCall, EntraLeaveGroupCall }
    BY <1>3 DEF Table
  <2>2. "read" \notin DOMAIN Table("revoke")
    BY <2>1, LeaveGroupTables
  <2> QED BY <2>2
<1>4. CASE Fixture = "app"
  BY <1>4 DEF RevokeLooksFirst, Target
<1> QED BY <1>1, <1>2, <1>3, <1>4

\* What a read tells the harness.
LEMMA CertifyRead ==
  ASSUME AdapterInv, script = "certify", at = "call", Read
  PROVE  CertifyTruth'
<1>1. /\ call.at \in Reading /\ UNCHANGED << sandbox, step, left, passed >> /\ CertifyTruth
      /\ UNCHANGED << provider, script, todo, ids, env, at, step, left, member, seen, wavered >>
  BY DEF Read, sandbox, AdapterInv, StepsAreTrue
<1>2. PICK answer \in { Shown } \cup Outage : Go(answer)
  BY DEF Read
<1>3. /\ answer \in ReadAnswer /\ (answer = "present" => Target \in seen)
      /\ (answer = "absent" => Target \notin seen)
  BY DEF Shown, Outage, ReadAnswer
<1>4. /\ step \in 1 .. 9 /\ call.at \in DOMAIN Table(Plan[step].op) /\ call.at \in Request
      /\ Len(Plan) = 9
  BY <1>1, CallFacts, CertifySteps DEF Request, Reading, Answer
<1>5. /\ Target' = Target /\ (GrantMisled' <=> GrantMisled)
      /\ (RevokeMisled' <=> RevokeMisled)
  BY <1>1, SameScript DEF GrantMisled, RevokeMisled, GrantLooksFirst, RevokeLooksFirst
<1> DEFINE next == Table(Plan[step].op)[call.at][answer]
<1>6. /\ next # "confirm" => call'.at = next
      /\ next = "confirm" => call'.at \in { "confirm", "failed" }
      /\ call'.at # "read"
  BY <1>1, <1>2, <1>3, <1>4, GoLeads
<1>7. CASE step \in { 1, 3 }
  <2>1. Table(Plan[step].op) = VerifyCall
    BY <1>7, CertifySteps DEF Table
  <2>2. next = VerifyCall["read"][answer] /\ call.at = "read"
    BY <1>4, <2>1, VerifyTables
  <2>3. /\ next = "not-found" => answer = "absent"
        /\ next = "verified" => answer = "present"
        /\ next # "confirm"
    BY <1>3, <2>2 DEF VerifyCall, OnRead, ReadAnswer
  <2> QED BY <1>1, <1>3, <1>5, <1>6, <1>7, <2>3 DEF CertifyTruth
<1>8. CASE step = 2
  <2>1. Table(Plan[step].op) \in { OktaGrantCall, EntraGrantCall }
    BY <1>8, CertifySteps DEF Table
  <2>2. Table(Plan[step].op) = OktaGrantCall /\ call.at \in { "read", "confirm" }
    BY <1>1, <1>4, <2>1, GrantTables DEF Reading
  <2>3. /\ call.at = "confirm" => Target \in member \/ GrantMisled
        /\ Target \in seen => Target \in member \/ Target \in wavered
        /\ GrantLooksFirst
    <3>1. provider = "okta"
      BY <1>8, <2>2, GrantTables, CertifySteps DEF Table
    <3> QED BY <1>1, <1>8, <3>1 DEF CertifyTruth, GrantLooksFirst
  <2>4. call.at = "read" => next # "confirm" /\ (next \in Succeeded => answer = "present")
    BY <1>3, <2>2 DEF OktaGrantCall, OnRead, ReadAnswer, Succeeded
  <2>5. call'.at \in Succeeded \cup { "confirm" } => Target \in member \/ GrantMisled
    <3> HIDE DEF next
    <3>1. CASE call.at = "confirm"
      BY <2>3, <3>1
    <3>2. CASE call.at = "read"
      BY <1>3, <1>6, <2>3, <2>4, <3>2 DEF GrantMisled, Succeeded
    <3> QED BY <2>2, <3>1, <3>2
  <2> QED BY <1>1, <1>5, <1>8, <2>3, <2>5 DEF CertifyTruth
<1>9. CASE step = 4
  BY <1>1, <1>5, <1>9 DEF CertifyTruth
<1>10. CASE step = 5
  <2>1. Table(Plan[step].op) \in RevokeTables
    BY <1>10, CertifySteps DEF Table, RevokeTables
  <2>2. CASE call.at = "read" /\ Target \notin wavered
    <3>1. Target \in seen /\ answer # "absent"
      BY <1>1, <1>3, <1>10, <2>2 DEF CertifyTruth
    <3>2. next \in { "delete", "failed" }
      BY <1>3, <1>4, <2>1, <2>2, <3>1, RevokeTablesLead DEF ReadAnswer
    <3> QED BY <1>1, <1>5, <1>6, <1>10, <3>2 DEF CertifyTruth, Succeeded
  <2>3. CASE call.at = "read" /\ Target \in wavered
    <3>1. RevokeMisled
      BY <1>4, <1>10, <2>3, RevokeReads, CertifySteps DEF RevokeMisled, Certifying
    <3> QED BY <1>1, <1>5, <1>6, <1>10, <3>1 DEF CertifyTruth
  <2>4. CASE call.at # "read"
    <3>1. Target \notin member \/ RevokeMisled
      BY <1>1, <1>10, <2>4 DEF CertifyTruth, Reading
    <3> QED BY <1>1, <1>5, <1>6, <1>10, <3>1 DEF CertifyTruth
  <2> QED BY <2>2, <2>3, <2>4
<1>11. CASE step \in 6 .. 9
  BY <1>1, <1>5, <1>11 DEF CertifyTruth
<1> QED BY <1>4, <1>7, <1>8, <1>9, <1>10, <1>11

\* What a read tells certify-entra-fulfillment.ts, which takes errors for "no".
LEMMA FulfillRead ==
  ASSUME AdapterInv, script = "fulfill", at = "call", Read
  PROVE  FulfillTruth'
<1>1. /\ call.at \in Reading /\ FulfillTruth
      /\ UNCHANGED << provider, script, todo, ids, env, at, step, left, member, seen,
                      exists, principal, wavered >>
  BY DEF Read, sandbox, AdapterInv, StepsAreTrue
<1>2. PICK answer \in { Shown } \cup Outage :
          /\ Go(answer)
          /\ IF answer = "error" THEN erred' = erred \cup { "read" } ELSE UNCHANGED erred
  BY DEF Read, Err
<1>3. /\ answer \in ReadAnswer /\ (answer = "present" => Target \in seen)
      /\ (answer = "absent" => Target \notin seen)
      /\ (answer = "gone" => ~TargetExists(Target))
  BY DEF Shown, Outage, ReadAnswer
<1>4. /\ step \in 1 .. 4 /\ call.at \in DOMAIN Table(Plan[step].op) /\ call.at \in Request
      /\ Len(Plan) = 4 /\ provider = "entra"
  BY <1>1, CallFacts, FulfillSteps DEF Request, Reading, Answer, AdapterInv, FixturesAreLeft
<1>5. /\ Target' = Target /\ TargetExists(Target)' = TargetExists(Target)
      /\ (RevokeLooksFirst(Target)' <=> RevokeLooksFirst(Target))
      /\ ("change" \in erred' <=> "change" \in erred)
  BY <1>1, <1>2, SameScript DEF TargetExists, RevokeLooksFirst
<1> DEFINE next == Table(Plan[step].op)[call.at][answer]
<1>6. /\ next # "confirm" => call'.at = next
      /\ next = "confirm" => call'.at \in { "confirm", "failed" }
  BY <1>1, <1>2, <1>3, <1>4, GoLeads
<1>7. CASE step = 1
  <2>1. Table(Plan[step].op) = FulfillmentGrantCall
    BY <1>4, <1>7, FulfillSteps DEF Table
  <2> QED BY <1>1, <1>4, <2>1, GrantTables DEF Reading
<1>8. CASE step \in { 2, 4 }
  <2>1. Table(Plan[step].op) = FulfillmentVerifyCall
    BY <1>8, FulfillSteps DEF Table
  <2>2. next = FulfillmentVerifyCall["read"][answer] /\ call.at = "read"
    BY <1>4, <2>1, VerifyTables
  <2>3. /\ next = "not-found" => answer \in { "absent", "gone", "error" }
        /\ next = "verified" => answer = "present"
        /\ next # "confirm"
    BY <1>3, <2>2 DEF FulfillmentVerifyCall, OnRead, ReadAnswer
  <2> HIDE DEF next
  <2>4. CASE step = 2
    BY <1>1, <1>3, <1>5, <1>6, <2>3, <2>4 DEF FulfillTruth
  <2>5. CASE step = 4
    <3>1. TargetExists(Target) /\ (Target \in member => Target \in seen \/ Target \in wavered)
      BY <1>1, <2>5 DEF FulfillTruth
    <3>2. call'.at = "not-found" /\ "read" \notin erred'
          => Target \notin member \/ Target \in wavered
      BY <1>2, <1>3, <1>6, <2>3, <3>1
    <3> QED BY <1>1, <1>5, <2>5, <3>1, <3>2 DEF FulfillTruth
  <2> QED BY <1>8, <2>4, <2>5
<1>9. CASE step = 3
  <2>1. RevokeLooksFirst(Target)
    <3>1. Plan[step].op = "revoke" /\ call.at = "read"
      <4>1. Table(Plan[step].op) \in { FulfillmentLeaveGroupCall, FulfillmentDropRoleCall }
        BY <1>4, <1>9, FulfillSteps DEF Table
      <4>2. call.at # "after" /\ call.at # "confirm" /\ call.at # "recheck"
        BY <1>4, <4>1 DEF FulfillmentLeaveGroupCall, FulfillmentDropRoleCall
      <4> QED BY <1>1, <1>9, <4>2, FulfillSteps DEF Reading
    <3> QED BY <1>4, <3>1, RevokeReads DEF Certifying
  <2> QED BY <1>1, <1>5, <1>9, <2>1 DEF FulfillTruth
<1> QED BY <1>4, <1>7, <1>8, <1>9

LEMMA ReadPreserves ==
  ASSUME AdapterInv, Read
  PROVE  AdapterInv'
<1>1. /\ at = "call" /\ call.at \in Reading
      /\ UNCHANGED << provider, script, todo, ids, env, at, step, left, member, passed, wavered >>
  BY DEF Read, Calling, sandbox
<1>2. PICK answer \in { Shown } \cup Outage :
          Go(answer) /\ (IF answer = "error" THEN Err("read") ELSE UNCHANGED erred)
  BY DEF Read
<1>3. answer \in ReadAnswer /\ call.at \in Request
  BY <1>1 DEF Shown, Outage, ReadAnswer, Reading, Request
<1>4. CallIsKnown' /\ call' \in CallType
  BY <1>1, <1>2, <1>3, GoLeads
<1>5. /\ erred' \subseteq { "read", "change" } /\ erred \subseteq erred'
      /\ erred' = erred \/ script = "fulfill"
      /\ step' \in 0 .. 9 /\ left' \in 0 .. Attempts
  BY <1>1, <1>2 DEF AdapterInv, CertificationTypeOK, Err
<1>6. StepsAreTrue'
  BY <1>1, CertifyRead, FulfillRead DEF StepsAreTrue
<1>7. PassedIsGone'
  BY <1>1, <1>5 DEF AdapterInv, PassedIsGone, RevokeLooksFirst
<1> QED BY <1>1, <1>4, <1>5, <1>6, <1>7, WithinCall

\* What a change does to the subject's access, by what it answers.
LEMMA AddMemberDoes ==
  ASSUME AddMember
  PROVE  /\ at = "call" /\ call.at = "add"
         /\ UNCHANGED << provider, exists, principal, made, env, script, at, todo, ids, runs,
                         history, step, left, passed >>
         /\ UNCHANGED erred \/ (script = "fulfill" /\ erred' = erred \cup { "change" })
         /\ \E answer \in ChangeAnswer :
               /\ Go(answer)
               /\ answer \in { "ok", "duplicate" } =>
                      Target \in member' /\ TargetExists(Target)
         /\ member \subseteq member' /\ member' \subseteq member \cup { Target }
         /\ seen' = seen \/ seen' = member'
         /\ once \subseteq once' /\ once' \subseteq once \cup member'
<1>1. /\ at = "call" /\ call.at = "add"
  BY DEF AddMember, Calling
<1>2. CASE TargetExists(Target)
  <2>1. PICK answer \in { "ok", "duplicate" } : Change(member \cup { Target }, answer)
    BY <1>2 DEF AddMember
  <2> QED BY <1>1, <1>2, <2>1 DEF Change, Hold, Err, ChangeAnswer, resources, access
<1>3. CASE ~TargetExists(Target)
  <2>1. Change(member, "gone")
    BY <1>3 DEF AddMember
  <2> QED BY <1>1, <2>1 DEF Change, Hold, Err, ChangeAnswer, resources, access
<1> QED BY <1>2, <1>3

LEMMA RemoveMemberDoes ==
  ASSUME RemoveMember
  PROVE  /\ at = "call" /\ call.at = "delete"
         /\ UNCHANGED << provider, exists, principal, made, env, script, at, todo, ids, runs,
                         history, step, left, passed >>
         /\ UNCHANGED erred \/ (script = "fulfill" /\ erred' = erred \cup { "change" })
         /\ \E answer \in ChangeAnswer :
               /\ Go(answer)
               /\ answer # "error" => Target \notin member'
               /\ answer = "error" /\ script = "fulfill" => "change" \in erred'
         /\ member' \subseteq member /\ (Target \notin member => member' = member)
         /\ seen' = seen \/ seen' = member'
         /\ once \subseteq once' /\ once' \subseteq once \cup member'
<1>1. /\ at = "call" /\ call.at = "delete"
  BY DEF RemoveMember, Calling
<1>2. CASE Target \in member
  <2>1. Change(member \ { Target }, "ok")
    BY <1>2 DEF RemoveMember
  <2> QED BY <1>1, <1>2, <2>1 DEF Change, Hold, Err, ChangeAnswer, resources, access
<1>3. CASE Target \notin member
  <2>1. PICK answer \in { "gone", "duplicate" } : Change(member, answer)
    BY <1>3 DEF RemoveMember
  <2> QED BY <1>1, <1>3, <2>1 DEF Change, Hold, Err, ChangeAnswer, resources, access
<1> QED BY <1>2, <1>3

LEMMA AddMemberPreserves ==
  ASSUME AdapterInv, AddMember
  PROVE  AdapterInv'
<1> DEFINE table == Table(Plan[step].op)
<1>1. /\ at = "call" /\ call.at = "add"
      /\ UNCHANGED << provider, exists, principal, env, script, at, todo, ids,
                      step, left, passed, wavered >>
      /\ UNCHANGED erred \/ (script = "fulfill" /\ erred' = erred \cup { "change" })
      /\ member \subseteq member' /\ member' \subseteq member \cup { Target }
      /\ seen' = seen \/ seen' = member'
  BY AddMemberDoes
<1>2. PICK answer \in ChangeAnswer :
          /\ Go(answer)
          /\ answer \in { "ok", "duplicate" } => Target \in member' /\ TargetExists(Target)
  BY AddMemberDoes
<1>3. /\ "add" \in DOMAIN table /\ Plan[step].op = "grant" /\ script \in Certifying
      /\ step \in 1 .. Len(Plan) /\ step \in 0 .. 9
  BY <1>1, CallFacts DEF Answer
<1>4. /\ CallIsKnown' /\ call' \in CallType
      /\ table["add"][answer] # "confirm" => call'.at = table["add"][answer]
      /\ table["add"][answer] = "confirm" => call'.at \in { "confirm", "failed" }
  BY <1>1, <1>2, GoLeads DEF Request, Reading
<1>5. /\ Target' = Target /\ TargetExists(Target)' = TargetExists(Target)
      /\ (GrantMisled' <=> GrantMisled)
  BY <1>1, SameScript DEF TargetExists, GrantMisled, GrantLooksFirst
<1>6. ASSUME script = "certify"
      PROVE  CertifyTruth'
  <2>1. /\ step \in { 2, 4 } /\ CertifyTruth
        /\ table \in { OktaGrantCall, EntraGrantCall }
    BY <1>1, <1>3, <1>6, CertifySteps DEF Table, AdapterInv, StepsAreTrue
  <2>2. table["add"][answer] \in Succeeded \cup { "confirm" } => answer \in { "ok", "duplicate" }
    BY <1>2, <2>1 DEF OktaGrantCall, EntraGrantCall, OnChange, ChangeAnswer, Succeeded
  <2>3. ASSUME step = 2
        PROVE  CertifyTruth'
    <3>1. Target \in seen' => Target \in member' \/ Target \in wavered'
      BY <1>1, <2>1, <2>3 DEF CertifyTruth
    <3>2. call'.at \in Succeeded \cup { "confirm" } => Target \in member'
      BY <1>2, <1>4, <2>2
    <3>3. step' = 2
      BY <1>1, <2>3
    <3> QED BY <1>5, <3>1, <3>2, <3>3 DEF CertifyTruth
  <2>4. CASE step = 4
    <3>1. /\ Target \in member' \/ GrantMisled
          /\ Target \in seen' \/ Target \in wavered
      BY <1>1, <2>1, <2>4 DEF CertifyTruth, GrantMisled
    <3> QED BY <1>1, <1>5, <2>4, <3>1 DEF CertifyTruth
  <2> QED BY <2>1, <2>3, <2>4
<1>7. ASSUME script = "fulfill"
      PROVE  FulfillTruth'
  <2>9. Len(Plan) = 4 /\ provider = "entra"
    BY <1>7, FulfillSteps DEF AdapterInv, FixturesAreLeft
  <2>1. step = 1 /\ table = FulfillmentGrantCall
    <3>1. step \in 1 .. 4
      BY <1>3, <2>9
    <3>2. step = 1
      BY <1>3, <1>7, <3>1, FulfillSteps
    <3> QED BY <1>3, <1>7, <2>9, <3>2 DEF Table
  <2>2. table["add"][answer] # "confirm" /\ (table["add"][answer] = "changed" => answer = "ok")
    BY <1>2, <2>1 DEF FulfillmentGrantCall, OnChange, ChangeAnswer
  <2> HIDE DEF table
  <2>3. step' = 1 /\ (call'.at = "changed" => Target \in member' /\ TargetExists(Target))
    BY <1>1, <1>2, <1>4, <2>1, <2>2
  <2> QED BY <1>5, <2>3 DEF FulfillTruth
<1>8. StepsAreTrue'
  BY <1>1, <1>6, <1>7 DEF StepsAreTrue
<1>9. Target \notin passed
  <2>1. Target[1] = Head(todo)
    BY DEF Target, Fixture
  <2>2. CASE passed = {}
    BY <2>2
  <2>3. CASE todo = << "app" >> /\ \A t \in passed : t[1] = "group"
    BY <2>1, <2>3
  <2> QED BY <1>3, <2>2, <2>3 DEF AdapterInv, FixturesAreLeft
<1>10. PassedIsGone'
  BY <1>1, <1>9 DEF AdapterInv, PassedIsGone, RevokeLooksFirst
<1>11. /\ erred' \subseteq { "read", "change" } /\ step' \in 0 .. 9 /\ left' \in 0 .. Attempts
  BY <1>1 DEF AdapterInv, CertificationTypeOK
<1> QED BY <1>1, <1>4, <1>8, <1>10, <1>11, WithinCall

LEMMA RemoveMemberPreserves ==
  ASSUME AdapterInv, RemoveMember
  PROVE  AdapterInv'
<1> DEFINE table == Table(Plan[step].op)
<1>1. /\ at = "call" /\ call.at = "delete"
      /\ UNCHANGED << provider, exists, principal, env, script, at, todo, ids,
                      step, left, passed, wavered >>
      /\ UNCHANGED erred \/ (script = "fulfill" /\ erred' = erred \cup { "change" })
      /\ member' \subseteq member /\ (Target \notin member => member' = member)
      /\ seen' = seen \/ seen' = member'
  BY RemoveMemberDoes
<1>2. PICK answer \in ChangeAnswer :
          /\ Go(answer)
          /\ answer # "error" => Target \notin member'
          /\ answer = "error" /\ script = "fulfill" => "change" \in erred'
  BY RemoveMemberDoes
<1>3. /\ "delete" \in DOMAIN table /\ Plan[step].op = "revoke"
      /\ step \in 1 .. Len(Plan) /\ step \in 0 .. 9
  BY <1>1, CallFacts DEF Answer
<1>4. /\ CallIsKnown' /\ call' \in CallType /\ call'.at # "read"
      /\ table["delete"][answer] # "confirm" => call'.at = table["delete"][answer]
      /\ table["delete"][answer] = "confirm" => call'.at \in { "confirm", "failed" }
  BY <1>1, <1>2, GoLeads DEF Request, Reading
<1>5. /\ Target' = Target /\ TargetExists(Target)' = TargetExists(Target)
      /\ (RevokeMisled' <=> RevokeMisled)
  BY <1>1, SameScript DEF TargetExists, RevokeMisled, RevokeLooksFirst
<1>6. ASSUME script = "certify"
      PROVE  CertifyTruth'
  <2>1. step \in 5 .. 9 /\ CertifyTruth
    BY <1>1, <1>3, <1>6, CertifySteps DEF AdapterInv, StepsAreTrue
  <2>2. CASE step = 5
    <3>1. table \in RevokeTables
      BY <1>3 DEF Table, RevokeTables
    <3>2. answer = "error" => call'.at = "failed"
      BY <1>3, <1>4, <3>1, RevokeTablesLead
    <3>3. call'.at \in Succeeded \cup { "after", "confirm", "recheck" } => Target \notin member'
      BY <1>2, <3>2 DEF Succeeded
    <3> QED BY <1>1, <1>4, <1>5, <2>2, <3>3 DEF CertifyTruth
  <2>3. CASE step \in 6 .. 9
    BY <1>1, <1>5, <2>1, <2>3 DEF CertifyTruth
  <2> QED BY <2>1, <2>2, <2>3
<1>7. ASSUME script = "fulfill"
      PROVE  FulfillTruth'
  <2>1. step = 3 /\ FulfillTruth
    <3>1. Len(Plan) = 4 /\ FulfillTruth
      BY <1>1, <1>7, FulfillSteps DEF AdapterInv, StepsAreTrue
    <3>2. step \in 1 .. 4
      BY <1>3, <3>1
    <3> QED BY <1>3, <1>7, <3>1, <3>2, FulfillSteps
  <2>2. Target \in member' => Target \in seen' \/ Target \in wavered'
    BY <1>1, <2>1 DEF FulfillTruth
  <2>3. Target \notin member' \/ "change" \in erred'
    BY <1>2, <1>7
  <2> QED BY <1>1, <1>5, <2>1, <2>2, <2>3 DEF FulfillTruth
<1>8. StepsAreTrue'
  BY <1>1, <1>6, <1>7 DEF StepsAreTrue
<1>9. PassedIsGone'
  BY <1>1 DEF AdapterInv, PassedIsGone, RevokeLooksFirst
<1>10. /\ erred' \subseteq { "read", "change" } /\ step' \in 0 .. 9 /\ left' \in 0 .. Attempts
  BY <1>1 DEF AdapterInv, CertificationTypeOK
<1> QED BY <1>1, <1>4, <1>8, <1>9, <1>10, WithinCall


-----------------------------------------------------------------------------
(* The steps of a fixture.                                                  *)

\* A call that begins, with what is known of its step.
LEMMA BeginPreserves ==
  ASSUME AdapterInv, at \in { "verify", "call" }, at' = "call",
         UNCHANGED << provider, script, todo, ids, env, member, passed, erred, wavered >>,
         NEW n \in 1 .. Len(Plan), NEW again \in 0 .. Plan[n].again, Begin(n, again),
         StepsAreTrue'
  PROVE  AdapterInv'
<1>1. /\ CallIsKnown' /\ step' \in 0 .. 9 /\ left' \in 0 .. Attempts /\ call' \in CallType
  BY BeginCall
<1>2. CertificationTypeOK'
  BY <1>1 DEF AdapterInv, CertificationTypeOK, CallType
<1>3. FixturesAreLeft'
  BY DEF AdapterInv, FixturesAreLeft
<1>4. PassedIsGone'
  BY DEF AdapterInv, PassedIsGone, RevokeLooksFirst
<1> QED BY <1>1, <1>2, <1>3, <1>4 DEF AdapterInv

LEMMA BeginFixturePreserves ==
  ASSUME AdapterInv, BeginFixture
  PROVE  AdapterInv'
<1>1. /\ at = "verify" /\ at' = "call" /\ Begin(1, Plan[1].again)
      /\ UNCHANGED << provider, script, todo, ids, env, member, passed, erred, wavered >>
  BY DEF BeginFixture, access
<1>2. 1 \in 1 .. Len(Plan) /\ Plan[1].again \in 0 .. Plan[1].again
  <2> DEFINE last == Len(Plan)
  <2>1. last \in 1 .. 9
    BY PlanShape
  <2> HIDE DEF last
  <2>2. 1 \in 1 .. last
    BY <2>1
  <2>3. Plan[1].again \in 0 .. Attempts /\ Attempts \in Nat
    BY <2>2, PlanShape, WaitAssumption DEF last
  <2> DEFINE again == Plan[1].again
  <2> HIDE DEF again
  <2>4. again \in 0 .. again
    BY <2>3 DEF again
  <2> QED BY <2>2, <2>4 DEF last, again
<1>3. call'.at \in { "read", "add", "delete" } /\ step' = 1
  BY <1>1, <1>2, BeginCall
<1>4. StepsAreTrue'
  BY <1>3 DEF StepsAreTrue, CertifyTruth, FulfillTruth, Succeeded, Answer
<1> QED BY <1>1, <1>2, <1>4, BeginPreserves

\* What the harness accepts at a step is what the next one needs.
LEMMA AcceptTruth ==
  ASSUME AdapterInv, Accept
  PROVE  StepsAreTrue'
<1>1. /\ at = "call" /\ at' = "call" /\ call.at \in Plan[step].accepted /\ call.at \in Answer
      /\ step < Len(Plan) /\ Begin(step + 1, Plan[step + 1].again)
      /\ UNCHANGED << provider, script, todo, ids, env, member, seen, exists, principal, passed,
                      erred, wavered >>
  BY DEF Accept, Answered, Accepted, Calling, sandbox
<1>2. call'.at \in { "read", "add", "delete" } /\ step' = step + 1
  <2> DEFINE last == Len(Plan)
  <2>1. step \in 1 .. last /\ last \in 1 .. 9 /\ step < last
    BY <1>1, CallFacts, PlanShape
  <2> HIDE DEF last
  <2>2. step + 1 \in 1 .. last
    BY <2>1
  <2>3. Plan[step + 1].again \in 0 .. Attempts /\ Attempts \in Nat
    BY <2>2, PlanShape, WaitAssumption DEF last
  <2> DEFINE again == Plan[step + 1].again
  <2> HIDE DEF again
  <2>4. again \in 0 .. again
    BY <2>3 DEF again
  <2> QED BY <1>1, <2>2, <2>4, BeginCall DEF last, again
<1>3. /\ Target' = Target /\ TargetExists(Target)' = TargetExists(Target)
      /\ (GrantMisled' <=> GrantMisled) /\ (RevokeMisled' <=> RevokeMisled)
      /\ (RevokeLooksFirst(Target)' <=> RevokeLooksFirst(Target))
  BY <1>1, SameScript DEF TargetExists, GrantMisled, RevokeMisled, GrantLooksFirst,
     RevokeLooksFirst
<1>4. ASSUME script = "certify"
      PROVE  CertifyTruth'
  <2>1. CertifyTruth /\ step \in 1 .. 8
    <3>1. Len(Plan) = 9 /\ step \in 1 .. Len(Plan)
      BY <1>1, <1>4, CertifySteps, CallFacts
    <3>2. step \in 1 .. 8
      BY <1>1, <3>1
    <3> QED BY <1>1, <1>4, <3>2 DEF AdapterInv, StepsAreTrue
  <2>2. /\ step = 1 => call.at = "not-found"
        /\ step = 2 => call.at \in Succeeded
        /\ step = 3 => call.at = "verified"
        /\ step = 5 => call.at \in Succeeded
    BY <1>1, <1>4, CertifySteps
  <2>3. CASE step = 1
    BY <1>1, <1>2, <1>3, <2>1, <2>2, <2>3 DEF CertifyTruth, Succeeded
  <2>4. CASE step = 2
    BY <1>1, <1>2, <1>3, <2>1, <2>2, <2>4 DEF CertifyTruth
  <2>5. CASE step = 3
    BY <1>1, <1>2, <1>3, <2>1, <2>2, <2>5 DEF CertifyTruth
  <2>6. CASE step = 4
    BY <1>1, <1>2, <1>3, <2>1, <2>6 DEF CertifyTruth, Succeeded
  <2>7. CASE step = 5
    BY <1>1, <1>2, <1>3, <2>1, <2>2, <2>7 DEF CertifyTruth
  <2>8. CASE step \in 6 .. 8
    <3>1. step' \in 6 .. 9 /\ step \in 6 .. 9
      BY <1>2, <2>8
    <3> QED BY <1>1, <1>3, <2>1, <3>1 DEF CertifyTruth
  <2> QED BY <2>1, <2>3, <2>4, <2>5, <2>6, <2>7, <2>8
<1>5. ASSUME script = "fulfill"
      PROVE  FulfillTruth'
  <2>1. FulfillTruth /\ step \in 1 .. 3
    <3>1. Len(Plan) = 4 /\ step \in 1 .. Len(Plan)
      BY <1>1, <1>5, FulfillSteps, CallFacts
    <3>2. step \in 1 .. 3
      BY <1>1, <3>1
    <3> QED BY <1>1, <1>5, <3>2 DEF AdapterInv, StepsAreTrue
  <2>2. /\ step = 1 => call.at = "changed"
        /\ step = 2 => call.at = "verified"
    BY <1>1, <1>5, FulfillSteps
  <2>3. CASE step = 1
    BY <1>1, <1>2, <1>3, <2>1, <2>2, <2>3 DEF FulfillTruth
  <2>4. CASE step = 2
    BY <1>1, <1>2, <1>3, <2>1, <2>2, <2>4 DEF FulfillTruth, Answer
  <2>5. CASE step = 3
    BY <1>1, <1>2, <1>3, <2>1, <2>5 DEF FulfillTruth
  <2> QED BY <2>1, <2>3, <2>4, <2>5
<1> QED BY <1>1, <1>4, <1>5 DEF StepsAreTrue

LEMMA AcceptPreserves ==
  ASSUME AdapterInv, Accept
  PROVE  AdapterInv'
<1>1. /\ at = "call" /\ at' = "call"
      /\ step < Len(Plan) /\ Begin(step + 1, Plan[step + 1].again)
      /\ UNCHANGED << provider, script, todo, ids, env, member, passed, erred, wavered >>
  BY DEF Accept, Answered, Calling, sandbox
<1>2. step + 1 \in 1 .. Len(Plan) /\ Plan[step + 1].again \in 0 .. Plan[step + 1].again
  <2> DEFINE last == Len(Plan)
  <2>1. step \in 1 .. last /\ last \in 1 .. 9 /\ step < last
    BY <1>1, CallFacts, PlanShape
  <2> HIDE DEF last
  <2>2. step + 1 \in 1 .. last
    BY <2>1
  <2>3. Plan[step + 1].again \in 0 .. Attempts /\ Attempts \in Nat
    BY <2>2, PlanShape, WaitAssumption DEF last
  <2> DEFINE again == Plan[step + 1].again
  <2> HIDE DEF again
  <2>4. again \in 0 .. again
    BY <2>3 DEF again
  <2> QED BY <2>2, <2>4 DEF last, again
<1> QED BY <1>1, <1>2, AcceptTruth, BeginPreserves

\* Only a wait asks again, and its next call knows what the wait has known.
LEMMA AskAgainPreserves ==
  ASSUME AdapterInv, AskAgain
  PROVE  AdapterInv'
<1>1. /\ at = "call" /\ at' = "call" /\ left > 0 /\ Begin(step, left - 1)
      /\ UNCHANGED << provider, script, todo, ids, env, member, seen, exists, principal, passed,
                      erred, wavered >>
  BY DEF AskAgain, Answered, Calling, sandbox
<1>2. step \in 1 .. Len(Plan) /\ left \in 0 .. Plan[step].again
  BY <1>1 DEF AdapterInv, CallIsKnown
<1>3. left - 1 \in 0 .. Plan[step].again /\ Plan[step].again # 0
  <2> DEFINE again == Plan[step].again
  <2>1. again \in 0 .. Attempts /\ Attempts \in Nat
    BY <1>2, PlanShape, WaitAssumption
  <2> HIDE DEF again
  <2>2. left \in 0 .. again /\ left > 0
    BY <1>1, <1>2 DEF again
  <2>3. left - 1 \in 0 .. again /\ again # 0
    BY <2>1, <2>2
  <2> QED BY <2>3 DEF again
<1>4. call'.at \in { "read", "add", "delete" } /\ step' = step
  BY <1>1, <1>2, <1>3, BeginCall
<1>5. /\ Target' = Target /\ TargetExists(Target)' = TargetExists(Target)
      /\ (GrantMisled' <=> GrantMisled) /\ (RevokeMisled' <=> RevokeMisled)
      /\ (RevokeLooksFirst(Target)' <=> RevokeLooksFirst(Target))
  BY <1>1, SameScript DEF TargetExists, GrantMisled, RevokeMisled, GrantLooksFirst,
     RevokeLooksFirst
<1>6. ASSUME script = "certify"
      PROVE  CertifyTruth'
  <2>1. CertifyTruth /\ step # 2 /\ step # 5
    BY <1>1, <1>3, <1>6, CertifySteps DEF AdapterInv, StepsAreTrue
  <2> QED BY <1>1, <1>4, <1>5, <2>1 DEF CertifyTruth
<1>7. ASSUME script = "fulfill"
      PROVE  FulfillTruth'
  <2>1. FulfillTruth /\ step # 1 /\ step # 3
    BY <1>1, <1>3, <1>7, FulfillSteps DEF AdapterInv, StepsAreTrue
  <2> QED BY <1>1, <1>4, <1>5, <2>1 DEF FulfillTruth
<1>8. StepsAreTrue'
  BY <1>1, <1>6, <1>7 DEF StepsAreTrue
<1> QED BY <1>1, <1>2, <1>3, <1>8, BeginPreserves

\* The fixture that is over was one of the subject's groups or applications.
LEMMA TargetIsTyped ==
  ASSUME BootstrapInv, at = "call"
  PROVE  Target \in Name \X (Copy \cup { Null })
<1>1. /\ todo \in Seq(Name) /\ todo # << >> /\ env \in [Name -> Copy \cup { Null }]
      /\ ids \in [Name -> Copy \cup { Null }]
  BY DEF BootstrapInv, SandboxTypeOK, NameAtHand, Working
<1>2. Fixture \in Name
  BY <1>1, HeadTailProperties DEF Fixture
<1> QED BY <1>1, <1>2 DEF Target

\* Passing the last step of a plan is the evidence that nothing was left, as far
\* as the reads and the changes allow.
LEMMA PassIsTrue ==
  ASSUME AdapterInv, Pass, script \in Certifying, Target \in member
  PROVE  \/ "read" \in erred
         \/ Target \in wavered /\ (RevokeLooksFirst(Target) \/ "change" \in erred)
<1>1. /\ at = "call" /\ call.at \in Plan[step].accepted /\ step = Len(Plan)
  BY DEF Pass, Answered, Accepted, Calling
<1>2. CASE script = "certify"
  <2>1. step = 9
    BY <1>1, <1>2, CertifySteps
  <2> QED BY <1>1, <1>2, <2>1 DEF AdapterInv, StepsAreTrue, CertifyTruth, RevokeMisled
<1>3. CASE script = "fulfill"
  <2>1. step = 4 /\ call.at = "not-found"
    BY <1>1, <1>3, FulfillSteps
  <2> QED BY <1>1, <1>3, <2>1 DEF AdapterInv, StepsAreTrue, FulfillTruth
<1> QED BY <1>2, <1>3 DEF Certifying

\* A fixture that is over leaves the next one, or ends the script.
LEMMA EndFixtureGoes ==
  ASSUME BootstrapInv, at = "call", NEW verdict, EndFixture(verdict)
  PROVE  /\ UNCHANGED << provider, exists, principal, made, member, seen, once, env, runs,
                         history, erred >>
         /\ step' = 0 /\ left' = 0 /\ call' = NoCall
         /\ \/ Exit
            \/ /\ todo' = Tail(todo) /\ at' = "verify" /\ UNCHANGED << script, ids >>
               /\ Len(todo) > 1 /\ todo' \in Seq(Name) /\ todo' # << >>
            \/ at' = "write" /\ script = "bootstrap" /\ UNCHANGED << script, todo, ids >>
<1>1. /\ UNCHANGED << provider, exists, principal, made, member, seen, once, env, runs,
                      history, erred >>
      /\ step' = 0 /\ left' = 0 /\ call' = NoCall
  BY DEF EndFixture, Idle, resources, access
<1>2. todo \in Seq(Name) /\ todo # << >>
  BY DEF BootstrapInv, SandboxTypeOK, NameAtHand, Working
<1>3. CASE Len(todo) > 1 /\ todo' = Tail(todo) /\ at' = "verify" /\ UNCHANGED << script, ids >>
  <2>1. todo' \in Seq(Name) /\ Len(todo') = Len(todo) - 1
    BY <1>2, <1>3, HeadTailProperties
  <2>2. todo' # << >>
    <3>1. todo' # << >> \/ Len(todo') = 0
      BY EmptySeq
    <3>2. Len(todo) \in Nat
      BY <1>2, LenProperties
    <3> QED BY <1>3, <2>1, <3>1, <3>2
  <2> QED BY <1>1, <1>3, <2>1, <2>2
<1>4. \/ Exit
      \/ Len(todo) > 1 /\ todo' = Tail(todo) /\ at' = "verify" /\ UNCHANGED << script, ids >>
      \/ at' = "write" /\ script = "bootstrap" /\ UNCHANGED << script, todo, ids >>
  BY DEF EndFixture
<1> QED BY <1>1, <1>3, <1>4

LEMMA EndFixturePreserves ==
  ASSUME BootstrapInv, AdapterInv, Pass \/ Fail
  PROVE  BootstrapInv' /\ AdapterInv'
<1>1. at = "call" /\ script \in AdapterScript
  BY DEF Pass, Fail, Answered, Calling
<1>2. PICK verdict \in { "passed", "failed" } :
          /\ EndFixture(verdict) /\ Record(verdict)
          /\ verdict = "passed" => Pass
  BY DEF Pass, Fail, EndFixture
<1>3. /\ UNCHANGED << provider, exists, principal, made, member, seen, once, env, runs,
                      history, erred >>
      /\ step' = 0 /\ left' = 0 /\ call' = NoCall
      /\ \/ Exit
         \/ /\ todo' = Tail(todo) /\ at' = "verify" /\ UNCHANGED << script, ids >>
            /\ Len(todo) > 1 /\ todo' \in Seq(Name) /\ todo' # << >>
         \/ at' = "write" /\ script = "bootstrap" /\ UNCHANGED << script, todo, ids >>
  BY <1>1, <1>2, EndFixtureGoes
<1>4. \/ passed' = passed
      \/ passed' = passed \cup { Target } /\ script \in Certifying /\ verdict = "passed"
  BY <1>2 DEF Record, Certifying
<1>5. at' # "call" /\ script' \in { script, "none" }
  BY <1>3 DEF Exit
<1>6. BootstrapInv'
  <2>1. SandboxTypeOK /\ NameAtHand
    BY DEF BootstrapInv
  <2>2. CASE Exit
    BY <1>3, <2>1, <2>2, ExitBootstrap DEF SandboxTypeOK
  <2>3. CASE ~Exit
    BY <1>3, <2>1, <2>3, BootstrapFrame DEF SandboxTypeOK, NameAtHand, Place, Working
  <2> QED BY <2>2, <2>3
<1>7. CertificationTypeOK'
  <2>1. passed' \subseteq Name \X (Copy \cup { Null })
    BY <1>1, <1>4, TargetIsTyped DEF AdapterInv, CertificationTypeOK
  <2>2. NoCall \in CallType /\ 0 \in 0 .. Attempts
    BY WaitAssumption DEF NoCall, CallType, Answer
  <2> QED BY <1>3, <2>1, <2>2 DEF AdapterInv, CertificationTypeOK, CallType
<1>8. FixturesAreLeft'
  <2>1. FixturesAreLeft
    BY DEF AdapterInv
  <2>2. CASE script' \in Certifying
    <3>1. /\ script = script' /\ at' = "verify" /\ todo' = Tail(todo) /\ Len(todo) > 1
      BY <1>3, <2>2 DEF Exit, Certifying
    <3>2. todo = << "group", "app" >> /\ passed = {}
      BY <2>1, <2>2, <3>1 DEF FixturesAreLeft
    <3>3. todo' = << "app" >> /\ Target[1] = "group"
      BY <3>1, <3>2 DEF Target, Fixture
    <3>4. \A t \in passed' : t[1] = "group"
      BY <1>4, <3>2, <3>3
    <3> QED BY <1>1, <1>3, <2>1, <3>1, <3>3, <3>4 DEF FixturesAreLeft
  <2>3. CASE script' \notin Certifying
    BY <1>1, <1>3, <2>1, <2>3 DEF FixturesAreLeft, Certifying, Exit
  <2> QED BY <2>2, <2>3
<1>9. CallIsKnown' /\ StepsAreTrue'
  BY <1>5 DEF CallIsKnown, StepsAreTrue
<1>10. PassedIsGone'
  <2>1. ASSUME NEW t \in passed', t \in member
        PROVE  \/ "read" \in erred
               \/ t \in wavered /\ (RevokeLooksFirst(t) \/ "change" \in erred)
    <3>1. CASE t \in passed
      BY <2>1, <3>1 DEF AdapterInv, PassedIsGone
    <3>2. CASE t \notin passed
      BY <1>2, <1>4, <2>1, <3>2, PassIsTrue
    <3> QED BY <3>1, <3>2
  <2> QED BY <1>3, <2>1 DEF PassedIsGone, RevokeLooksFirst
<1> QED BY <1>6, <1>7, <1>8, <1>9, <1>10 DEF AdapterInv

\* The subject holds only what there is.
LEMMA AddsWhatExists ==
  ASSUME BootstrapInv, AddMember
  PROVE  member' \subseteq Name \X Copy
<1>1. member \subseteq Name \X Copy /\ exists \in [Name -> SUBSET Copy] /\ at = "call"
  BY DEF BootstrapInv, SandboxTypeOK, AddMember, Calling
<1>2. CASE TargetExists(Target)
  <2>1. Target \in Name \X (Copy \cup { Null })
    BY <1>1, TargetIsTyped
  <2>2. Target \in Name \X Copy
    BY <1>1, <1>2, <2>1 DEF TargetExists
  <2>3. member' \in { member, member \cup { Target } }
    BY <1>2 DEF AddMember, Change, Hold, access
  <2> QED BY <1>1, <2>2, <2>3
<1>3. CASE ~TargetExists(Target)
  BY <1>1, <1>3 DEF AddMember, Change, Hold, access
<1> QED BY <1>2, <1>3

\* A step within a call leaves the bootstraps' state alone.
LEMMA CallLeavesBootstrap ==
  ASSUME BootstrapInv, UNCHANGED << provider, exists, principal, made, env, script, todo, ids,
                                    runs, history >>,
         at' = at \/ (at' = "call" /\ at = "verify"), member' \subseteq Name \X Copy,
         seen' = seen \/ seen' = member', once' \subseteq once \cup member'
  PROVE  BootstrapInv'
<1>1. SandboxTypeOK /\ NameAtHand
  BY DEF BootstrapInv
<1>2. /\ seen' \subseteq Name \X Copy /\ at' \in Place
      /\ once' \subseteq Name \X Copy /\ wavered' \subseteq Name \X Copy
  BY <1>1 DEF SandboxTypeOK, Place
<1> QED BY <1>1, <1>2, BootstrapFrame DEF SandboxTypeOK, NameAtHand, Working

LEMMA AdapterPreserves ==
  ASSUME IInv, AdapterStep, UNCHANGED validation
  PROVE  IInv'
<1>1. BootstrapInv /\ AdapterInv /\ RunnerInv
  BY DEF IInv
<1>2. AdapterInv'
  BY <1>1, BeginFixturePreserves, ReadPreserves, AddMemberPreserves, RemoveMemberPreserves,
     AcceptPreserves, AskAgainPreserves, EndFixturePreserves DEF AdapterStep
<1>3. member \subseteq Name \X Copy
  BY <1>1 DEF BootstrapInv, SandboxTypeOK
<1>4. BootstrapInv'
  <2>1. CASE BeginFixture
    BY <1>1, <1>3, <2>1, CallLeavesBootstrap DEF BeginFixture, resources, access
  <2>2. CASE Read \/ Accept \/ AskAgain
    <3>1. UNCHANGED sandbox
      BY <2>2 DEF Read, Accept, AskAgain
    <3> QED BY <1>1, <1>3, <3>1, CallLeavesBootstrap DEF sandbox
  <2>3. CASE AddMember
    <3>1. /\ UNCHANGED << provider, exists, principal, made, env, script, at, todo, ids, runs,
                         history >>
          /\ seen' = seen \/ seen' = member'
          /\ once' \subseteq once \cup member'
      BY <2>3, AddMemberDoes
    <3>2. member' \subseteq Name \X Copy
      BY <1>1, <2>3, AddsWhatExists
    <3> QED BY <1>1, <3>1, <3>2, CallLeavesBootstrap
  <2>4. CASE RemoveMember
    <3>1. /\ UNCHANGED << provider, exists, principal, made, env, script, at, todo, ids, runs,
                         history >>
          /\ seen' = seen \/ seen' = member'
          /\ once' \subseteq once \cup member'
          /\ member' \subseteq member
      BY <2>4, RemoveMemberDoes
    <3>2. member' \subseteq Name \X Copy
      BY <1>3, <3>1
    <3> QED BY <1>1, <3>1, <3>2, CallLeavesBootstrap
  <2>5. CASE Pass \/ Fail
    BY <1>1, <2>5, EndFixturePreserves
  <2> QED BY <2>1, <2>2, <2>3, <2>4, <2>5 DEF AdapterStep
<1>5. RunnerInv'
  BY <1>1, RunnerFrame
<1> QED BY <1>2, <1>4, <1>5 DEF IInv

-----------------------------------------------------------------------------
(* The certification of model A.                                            *)

LEMMA ValidationPreserves ==
  ASSUME IInv, ValidationStep, UNCHANGED certification
  PROVE  IInv'
<1>1. BootstrapInv /\ AdapterInv /\ RunnerInv /\ SandboxTypeOK
  BY DEF IInv, BootstrapInv
<1>2. script = "validate" /\ (UNCHANGED sandbox \/ Throw)
  BY DEF ValidationStep, ResolveSubject, SubmitRequest, SubmissionRefused, Persist, Enter, AtGate
<1>3. RunnerInv'
  <2>1. requests \in Nat /\ stored \in Nat /\ gate \in { "subject", "submit", "persist" }
    BY <1>1 DEF RunnerInv, ValidationTypeOK
  <2>2. requests' \in { requests, requests + 1 } /\ stored' \in { stored, stored + 1 }
    BY DEF ValidationStep, ResolveSubject, SubmitRequest, SubmissionRefused, Persist
  <2>3. gate' \in { "subject", "submit", "persist" }
    BY DEF ValidationStep, ResolveSubject, SubmitRequest, SubmissionRefused, Persist, Enter,
           Throw, Forget
  <2> QED BY <2>1, <2>2, <2>3 DEF RunnerInv, ValidationTypeOK
<1>4. UNCHANGED << provider, exists, principal, made, member, seen, once, env, runs, history >>
  BY <1>2 DEF sandbox, Throw, resources, access
<1>5. BootstrapInv'
  <2>1. CASE UNCHANGED sandbox
    BY <1>1, <2>1, BootstrapFrame DEF sandbox, SandboxTypeOK
  <2>2. CASE Throw
    BY <1>1, <1>4, <2>2, ExitBootstrap DEF Throw, SandboxTypeOK
  <2> QED BY <1>2, <2>1, <2>2
<1>6. AdapterInv'
  <2>1. at \notin { "verify", "call" }
    BY <1>1, <1>2 DEF AdapterInv, FixturesAreLeft, AdapterScript
  <2>2. script' \notin Certifying /\ at' \notin { "verify", "call" }
    BY <1>2, <2>1 DEF sandbox, Throw, Exit, Certifying
  <2> QED BY <1>1, <1>4, <2>2, AdapterFrame
<1> QED BY <1>3, <1>5, <1>6 DEF IInv

-----------------------------------------------------------------------------
(* The replicas that follow and go back, and a script that dies.            *)

\* A replica that follows the truth about one target shows then what is so; one
\* that goes back about a target leaves what is known without its reads.
LEMMA ReplicaPreserves ==
  ASSUME IInv, NEW t \in Name \X Copy, Replicate(t) \/ Waver(t),
         UNCHANGED << certification, validation >>
  PROVE  IInv'
<1>1. BootstrapInv /\ AdapterInv /\ RunnerInv /\ SandboxTypeOK
  BY DEF IInv, BootstrapInv
<1>2. /\ UNCHANGED << provider, exists, principal, made, member, once, env, script, at, todo, ids,
                      runs, blind, halfway, step, left, call, passed, erred >>
      /\ seen' \in { seen \cup { t }, seen \ { t } }
      /\ wavered' \in { wavered, wavered \cup { t } }
  BY DEF Replicate, Waver, resources, certification
<1>3. BootstrapInv'
  <2>1. seen' \subseteq Name \X Copy /\ wavered' \subseteq Name \X Copy
    BY <1>1, <1>2 DEF SandboxTypeOK
  <2> QED BY <1>1, <1>2, <2>1, BootstrapFrame DEF SandboxTypeOK
<1>4. /\ Target' = Target /\ TargetExists(Target)' = TargetExists(Target) /\ Plan' = Plan
      /\ \A op : Table(op)' = Table(op)
  BY <1>2, SameScript DEF TargetExists
<1>5. /\ (Target \in seen') # (Target \in seen) =>
            (Target \in seen' <=> Target \in member) \/ Target \in wavered'
      /\ member' = member /\ wavered \subseteq wavered'
  <2>1. CASE Replicate(t)
    BY <2>1 DEF Replicate
  <2>2. CASE Waver(t)
    BY <1>2, <2>2 DEF Waver
  <2> QED BY <2>1, <2>2, <1>2
<1>6. /\ GrantMisled => GrantMisled'
      /\ RevokeMisled => RevokeMisled'
      /\ RevokeLooksFirst(Target)' <=> RevokeLooksFirst(Target)
  BY <1>2, <1>4, <1>5 DEF GrantMisled, RevokeMisled, GrantLooksFirst, RevokeLooksFirst
<1>7. StepsAreTrue'
  <2>1. ASSUME script = "certify", at = "call"
        PROVE  CertifyTruth'
    <3>1. CertifyTruth
      BY <1>1, <2>1 DEF AdapterInv, StepsAreTrue
    <3>2. /\ step' = step /\ call' = call /\ Target' = Target /\ member' = member
          /\ Target \in wavered => Target \in wavered'
          /\ (Target \in seen') # (Target \in seen) =>
                (Target \in seen' <=> Target \in member) \/ Target \in wavered'
      BY <1>2, <1>4, <1>5
    <3>3. CASE step \in { 1, 2 }
      BY <3>1, <3>2, <3>3, <1>6 DEF CertifyTruth
    <3>4. CASE step \in { 3, 4 }
      BY <3>1, <3>2, <3>4, <1>6 DEF CertifyTruth, GrantMisled
    <3>5. CASE step = 5
      BY <3>1, <3>2, <3>5, <1>6 DEF CertifyTruth, GrantMisled
    <3>6. CASE step \notin 1 .. 5
      BY <3>1, <3>2, <3>6, <1>6 DEF CertifyTruth
    <3> QED BY <3>3, <3>4, <3>5, <3>6
  <2>2. script = "fulfill" /\ at = "call" => FulfillTruth'
    BY <1>1, <1>2, <1>4, <1>5, <1>6 DEF AdapterInv, StepsAreTrue, FulfillTruth
  <2> QED BY <1>2, <2>1, <2>2 DEF StepsAreTrue
<1>8. CertificationTypeOK' /\ FixturesAreLeft'
  BY <1>1, <1>2 DEF AdapterInv, CertificationTypeOK, FixturesAreLeft
<1>9. PassedIsGone'
  BY <1>1, <1>2, <1>5 DEF AdapterInv, PassedIsGone, RevokeLooksFirst
<1>10. CallIsKnown'
  BY <1>1, <1>2, <1>4 DEF AdapterInv, CallIsKnown
<1>11. RunnerInv'
  BY <1>1, RunnerFrame
<1> QED BY <1>3, <1>7, <1>8, <1>9, <1>10, <1>11 DEF IInv, AdapterInv

LEMMA ScriptsStand ==
  ASSUME BootstrapInv, AdapterInv, UNCHANGED << sandbox, certification >>
  PROVE  BootstrapInv' /\ AdapterInv'
<1>1. /\ UNCHANGED << provider, exists, principal, made, member, seen, once, env, script, at,
                      todo, ids,
                      runs, history, step, left, call, passed, erred >>
  BY DEF sandbox, certification
<1>2. BootstrapInv'
  BY <1>1, BootstrapFrame DEF BootstrapInv, SandboxTypeOK
<1>3. /\ Target' = Target /\ TargetExists(Target)' = TargetExists(Target) /\ Plan' = Plan
      /\ \A op : Table(op)' = Table(op)
  BY <1>1, SameScript DEF TargetExists
<1>4. CertificationTypeOK' /\ FixturesAreLeft' /\ PassedIsGone'
  BY <1>1 DEF AdapterInv, CertificationTypeOK, FixturesAreLeft, PassedIsGone, RevokeLooksFirst
<1>5. CallIsKnown' /\ StepsAreTrue'
  BY <1>1, <1>3 DEF AdapterInv, CallIsKnown, StepsAreTrue, CertifyTruth, FulfillTruth,
     GrantMisled, RevokeMisled, GrantLooksFirst, RevokeLooksFirst
<1> QED BY <1>2, <1>4, <1>5 DEF AdapterInv

LEMMA CrashPreserves ==
  ASSUME IInv, Crash, Idle, Forget, UNCHANGED << passed, erred, requests, stored >>
  PROVE  IInv'
<1>1. BootstrapInv /\ AdapterInv /\ RunnerInv /\ SandboxTypeOK
  BY DEF IInv, BootstrapInv
<1>2. /\ UNCHANGED << provider, exists, principal, made, member, seen, once, env, runs, history >>
      /\ Exit /\ script' = "none" /\ at' = "end"
  BY DEF Crash, Exit, resources, access
<1>3. BootstrapInv'
  BY <1>1, <1>2, ExitBootstrap DEF SandboxTypeOK
<1>4. CertificationTypeOK'
  <2>1. NoCall \in CallType /\ 0 \in 0 .. Attempts
    BY WaitAssumption DEF NoCall, CallType, Answer
  <2> QED BY <1>1, <2>1 DEF AdapterInv, CertificationTypeOK, CallType, Idle
<1>5. FixturesAreLeft' /\ CallIsKnown' /\ StepsAreTrue' /\ PassedIsGone'
  BY <1>1, <1>2 DEF AdapterInv, FixturesAreLeft, CallIsKnown, StepsAreTrue, PassedIsGone,
     Certifying,
     RevokeLooksFirst
<1>6. RunnerInv'
  BY <1>1 DEF RunnerInv, ValidationTypeOK, Forget
<1> QED BY <1>3, <1>4, <1>5, <1>6 DEF IInv, AdapterInv

-----------------------------------------------------------------------------
(* The invariant, and what it says of the scripts.                          *)

LEMMA InitIInv == Init => IInv
<1> SUFFICES ASSUME Init PROVE IInv
  OBVIOUS
<1>1. /\ script = "none" /\ at = "end" /\ todo = << >> /\ passed = {} /\ erred = {}
  BY DEF Init, SandboxInit, CertificationInit, ValidationInit
<1>2. SandboxTypeOK
  <2>1. 1 \in Copy /\ 0 \in 0 .. MaxCopies /\ 1 \in 0 .. MaxCopies /\ 0 \in 0 .. MaxRuns
    BY SandboxAssumption DEF Copy
  <2>2. /\ exists \in [Name -> SUBSET Copy] /\ made \in [Name -> 0 .. MaxCopies]
        /\ env \in [Name -> Copy \cup { Null }] /\ ids \in [Name -> Copy \cup { Null }]
    BY <2>1 DEF Init, SandboxInit, Nothing
  <2> QED BY <2>1, <2>2, NameSequences DEF Init, SandboxInit, SandboxTypeOK, Place
<1>3. NameAtHand /\ NotFound
  BY <1>1 DEF NameAtHand, NotFound, Working
<1>4. OneOfEach
  BY DEF Init, SandboxInit, OneOfEach, Searched, Name
<1>5. CertificationTypeOK
  <2>1. NoCall \in CallType /\ 0 \in 0 .. Attempts
    BY WaitAssumption DEF NoCall, CallType, Answer
  <2>2. step = 0 /\ left = 0 /\ call = NoCall
    BY DEF Init, CertificationInit
  <2>3. step \in 0 .. 9 /\ left \in 0 .. Attempts
    BY <2>1, <2>2
  <2>4. call \in CallType
    BY <2>1, <2>2
  <2>5. passed \subseteq Name \X (Copy \cup { Null }) /\ erred \subseteq { "read", "change" }
    BY <1>1
  <2> QED BY <2>3, <2>4, <2>5 DEF CertificationTypeOK, CallType
<1>6. FixturesAreLeft /\ CallIsKnown /\ StepsAreTrue /\ PassedIsGone
  BY <1>1 DEF FixturesAreLeft, CallIsKnown, StepsAreTrue, PassedIsGone, Certifying
<1>7. ValidationTypeOK
  BY DEF Init, ValidationInit, ValidationTypeOK
<1> QED BY <1>2, <1>3, <1>4, <1>5, <1>6, <1>7 DEF IInv, BootstrapInv, AdapterInv, RunnerInv

LEMMA NextIInv == IInv /\ [Next]_vars => IInv'
<1> SUFFICES ASSUME IInv, [Next]_vars PROVE IInv'
  OBVIOUS
<1>1. CASE Operator
  BY <1>1, OperatorPreserves
<1>2. CASE Running
  BY <1>2, BootstrapPreserves, AdapterPreserves, ValidationPreserves DEF Running
<1>3. CASE Elsewhere
  BY <1>3, ReplicaPreserves, CrashPreserves DEF Elsewhere
<1>4. CASE UNCHANGED vars
  <2>1. UNCHANGED << sandbox, certification >> /\ UNCHANGED validation
    BY <1>4 DEF vars
  <2> QED BY <2>1, ScriptsStand, RunnerFrame DEF IInv
<1> QED BY <1>1, <1>2, <1>3, <1>4 DEF Next

\* What every script relies on, whichever ran before it and wherever that one
\* died (scripts/live-governance).
THEOREM InductiveInvariant == Spec => []IInv
BY InitIInv, NextIInv, PTL DEF Spec

\* The tenant, the harness and the runners keep their types: the queues of
\* names, the step and its attempts, the gate and its polls stay in bounds.
THEOREM TypeCorrect == Spec => []TypeOK
<1>1. IInv => TypeOK
  BY DEF IInv, BootstrapInv, AdapterInv, RunnerInv, TypeOK
<1> QED BY <1>1, InductiveInvariant, PTL

\* While a fixture stands between its grant and its revocation the subject
\* holds the target, unless a read went back before a grant of Okta's adapter,
\* which looks first; and a fixture that passed has left nothing behind, unless
\* a read of certify-entra-fulfillment.ts failed, or a read went back and the
\* revocation looked first or, in that script, failed: whatever scripts ran
\* before, and however late the replica follows (conformance.ts
\* runFulfillmentAdapterCertification, okta-adapter.ts, entra-adapter.ts).
THEOREM EvidenceHolds == Spec => []EvidenceIsTrue
<1>1. IInv => EvidenceIsTrue
  <2> SUFFICES ASSUME IInv PROVE EvidenceIsTrue
    OBVIOUS
  <2>1. Holding => Target \in member \/ (GrantLooksFirst /\ Target \in wavered)
    BY DEF IInv, AdapterInv, StepsAreTrue, CertifyTruth, GrantMisled, Holding, Calling
  <2> QED BY <2>1 DEF IInv, AdapterInv, PassedIsGone, EvidenceIsTrue
<1> QED BY <1>1, InductiveInvariant, PTL

\* A resource the bootstraps search for exists once, as long as no search for
\* it failed or missed a copy, and for an application also as long as none that
\* was found failed to get its service principal: also after bootstraps that
\* died, lost a reply, or lost their file to the other model's
\* (bootstrap-entra-primitives.ts, bootstrap-okta-primitives.ts,
\* bootstrap-entra-governance.ts).
THEOREM NoSecondCopy == Spec => []OneOfEach
<1>1. IInv => OneOfEach
  BY DEF IInv, BootstrapInv
<1> QED BY <1>1, InductiveInvariant, PTL

=============================================================================
