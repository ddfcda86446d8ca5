----------------------------- MODULE LiveSandbox -----------------------------
(***************************************************************************)
(* The tenant that the scripts of scripts/live-governance work on, and the *)
(* scripts that set it up and clear it away: the bootstraps of model B     *)
(* (groups and an application, for Entra or Okta) and of model A (an       *)
(* access package, for Entra), and destroy-entra-primitives.ts.  An        *)
(* operator starts one script after the other; a script may die anywhere.  *)
(*                                                                         *)
(* One group stands for the two or three of a sandbox, one application or  *)
(* app role for its three.  A resource is known by its name and its copy,  *)
(* the id it got when it was created.  Both Entra bootstraps write the     *)
(* same environment file.                                                  *)
(*                                                                         *)
(* An operator no other definition uses, placed before the definition it   *)
(* varies, is a slip the code could have made; README.md lists them.       *)
(***************************************************************************)
EXTENDS Naturals, Sequences

CONSTANTS
    Provider,    \* the providers a tenant may be of: "entra", "okta"
    MaxCopies,   \* bound: how often a resource of one name is created
    MaxRuns,     \* bound: how many scripts the operator starts
    Faults,      \* what may go wrong: "outage", "lag", "waver", "crash"
    Null

ASSUME SandboxAssumption ==
    /\ Provider \subseteq { "entra", "okta" }
    /\ MaxCopies \in Nat \ {0}
    /\ MaxRuns \in Nat
    /\ Faults \subseteq { "outage", "lag", "waver", "crash" }

VARIABLES
    provider,   \* the provider the tenant is of
    exists,     \* name -> the copies the tenant has
    principal,  \* the copies of the application that have a service principal
    made,       \* name -> how many copies were ever created
    member,     \* the << name, copy >> targets the test subject holds
    seen,       \* the same, as the replica that answers reads shows it
    once,       \* the targets it holds or has held
    env,        \* name -> the copy the environment file names, or Null
    script,     \* the script that runs, or "none"
    at,         \* what it does next
    todo,       \* the names it has still to work on, in order
    ids,        \* name -> the copy it found or created
    runs,       \* how many scripts were started
    blind,      \* history: names whose search failed or missed a copy
    halfway,    \* history: an application was found, its service principal failed
    wavered     \* history: targets a read went back on in the last certification

resources == << exists, principal, made >>
access    == << member, seen, once >>
history   == << blind, halfway, wavered >>
sandbox   == << provider, exists, principal, made, member, seen, once, env, script,
                at, todo, ids, runs, blind, halfway, wavered >>

Name == { "user", "group", "app", "catalog", "package", "policy" }
Copy == 1 .. MaxCopies

Bootstrap == { "bootstrap", "bootstrap governance" }
Script    == Bootstrap \cup { "destroy", "certify", "fulfill", "validate" }
Place     == { "find", "create", "new principal", "principal", "verify", "write",
               "delete", "call", "gate", "end" }

SandboxTypeOK ==
    /\ provider \in Provider
    /\ exists \in [Name -> SUBSET Copy]
    /\ principal \subseteq Copy
    /\ made \in [Name -> 0 .. MaxCopies]
    /\ member \subseteq Name \X Copy
    /\ seen \subseteq Name \X Copy
    /\ once \subseteq Name \X Copy
    /\ env \in [Name -> Copy \cup { Null }]
    /\ script \in Script \cup { "none" }
    /\ at \in Place
    /\ todo \in Seq(Name)
    /\ ids \in [Name -> Copy \cup { Null }]
    /\ runs \in 0 .. MaxRuns
    /\ blind \subseteq Name
    /\ halfway \in BOOLEAN
    /\ wavered \subseteq Name \X Copy

Nothing == [n \in Name |-> Null]

\* An Okta tenant has the test user; an Entra bootstrap creates him.
SandboxInit ==
    /\ provider \in Provider
    /\ exists = [n \in Name |-> IF n = "user" /\ provider = "okta" THEN { 1 } ELSE {}]
    /\ principal = {}
    /\ made = [n \in Name |-> IF n = "user" /\ provider = "okta" THEN 1 ELSE 0]
    /\ member = {} /\ seen = {} /\ once = {}
    /\ env = Nothing
    /\ script = "none" /\ at = "end" /\ todo = << >> /\ ids = Nothing
    /\ runs = 0
    /\ blind = {} /\ halfway = FALSE /\ wavered = {}

-----------------------------------------------------------------------------
(* What the provider shows.                                                *)

\* An app role is assigned on the application's service principal.
TargetExists(t) ==
    /\ t[2] \in exists[t[1]]
    /\ t[1] = "app" => t[2] \in principal

\* Reads may be behind the truth.
Behind == { "lag", "waver" } \cap Faults # {}

\* Reads come from replicas, which follow the truth in their own time.
Replicate(t) ==
    /\ Behind
    /\ (t \in seen) # (t \in member)
    /\ seen' = IF t \in member THEN seen \cup { t } ELSE seen \ { t }
    /\ UNCHANGED << provider, resources, member, once, env, script, at, todo, ids,
                    runs, history >>

\* What was shown may give way to what was before: a replica that is behind
\* answers the next read ("non-monotonic eventual consistency").
Waver(t) ==
    /\ "waver" \in Faults
    /\ t \in once
    /\ (t \in seen) = (t \in member)
    /\ seen' = IF t \in member THEN seen \ { t } ELSE seen \cup { t }
    /\ wavered' = wavered \cup { t }
    /\ UNCHANGED << provider, resources, member, once, env, script, at, todo, ids,
                    runs, blind, halfway >>

\* The targets the subject holds become held; without lag the replica follows.
Hold(held) ==
    /\ member' = held
    /\ once' = once \cup held
    /\ seen' = IF "lag" \in Faults THEN seen ELSE held

-----------------------------------------------------------------------------
(* A script's beginning and end.                                           *)

Start(s, place, names) ==
    /\ script = "none"
    /\ runs < MaxRuns
    /\ runs' = runs + 1
    /\ script' = s
    /\ at' = place
    /\ todo' = names
    /\ ids' = Nothing

Exit == script' = "none" /\ at' = "end" /\ todo' = << >> /\ ids' = Nothing

\* The process dies, or the operator stops it.
Crash ==
    /\ "crash" \in Faults
    /\ script # "none"
    /\ Exit
    /\ UNCHANGED << provider, resources, access, env, runs, history >>

-----------------------------------------------------------------------------
(* The bootstraps.                                                         *)

\* The packages and policies of model A are created anew, everything else is
\* searched for first.
Searched == { "user", "group", "app", "catalog" }
CreateAlways(n) == "create"
PlaceFor(n) == IF n \in Searched THEN "find" ELSE "create"

BootstrapEntraPrimitives ==
    /\ provider = "entra"
    /\ Start("bootstrap", "find", << "user", "group", "app" >>)
    /\ UNCHANGED << provider, resources, access, env, history >>

BootstrapOktaPrimitives ==
    /\ provider = "okta"
    /\ exists["user"] # {}
    /\ Start("bootstrap", "find", << "group", "app" >>)
    /\ UNCHANGED << provider, resources, access, env, history >>

BootstrapEntraGovernance ==
    /\ provider = "entra"
    /\ Start("bootstrap governance", "find", << "user", "catalog", "package", "policy" >>)
    /\ UNCHANGED << provider, resources, access, env, history >>

\* On to the next name; Okta's bootstrap then checks that the sandbox is clean.
Advance ==
    /\ todo' = (IF Len(todo) = 1 /\ provider = "okta" THEN << "group" >> ELSE Tail(todo))
    /\ at' = (IF Len(todo) > 1 THEN PlaceFor(todo[2])
              ELSE IF provider = "okta" THEN "verify" ELSE "write")

At(s, place) == script \in s /\ at = place

\* The search finds a copy.  An application gets its service principal before
\* its copy is taken, when a second search does not show it or fails.
Find(n) ==
    /\ At(Bootstrap, "find") /\ n = Head(todo)
    /\ \E c \in exists[n] :
          /\ ids' = [ids EXCEPT ![n] = c]
          /\ \/ /\ n = "app" /\ provider = "entra" => c \in principal
                /\ Advance
             \/ /\ n = "app" /\ provider = "entra"
                /\ c \in principal => Behind \/ "outage" \in Faults
                /\ at' = "principal" /\ UNCHANGED todo
    /\ UNCHANGED << provider, resources, access, env, script, runs, history >>

\* The search finds nothing: there is no copy, or none it shows yet.
FindNone(n) ==
    /\ At(Bootstrap, "find") /\ n = Head(todo)
    /\ exists[n] = {} \/ Behind
    /\ at' = "create"
    /\ blind' = IF exists[n] = {} THEN blind ELSE blind \cup { n }
    /\ UNCHANGED << provider, resources, access, env, script, todo, ids, runs,
                    halfway, wavered >>

\* The search fails.  Only the catalog's ends the script, every other one falls
\* through to the creation.
FindFails(n) ==
    /\ At(Bootstrap, "find") /\ n = Head(todo)
    /\ "outage" \in Faults
    /\ IF n = "catalog" THEN Exit /\ UNCHANGED blind
       ELSE at' = "create" /\ blind' = blind \cup { n } /\ UNCHANGED << script, todo, ids >>
    /\ UNCHANGED << provider, resources, access, env, runs, halfway, wavered >>

\* A name is created.  The authority refuses a second user of the same name.
Add(n) ==
    /\ made[n] < MaxCopies
    /\ n = "user" => exists[n] = {}
    /\ made' = [made EXCEPT ![n] = @ + 1]
    /\ exists' = [exists EXCEPT ![n] = @ \cup { made[n] + 1 }]

Create(n) ==
    /\ At(Bootstrap, "create") /\ n = Head(todo)
    /\ Add(n)
    /\ ids' = [ids EXCEPT ![n] = made[n] + 1]
    /\ IF n = "app" /\ provider = "entra"
       THEN at' = "new principal" /\ UNCHANGED todo
       ELSE Advance
    /\ UNCHANGED << provider, principal, access, env, script, runs, history >>

\* The creation fails, its reply is lost, or MaxCopies is reached: the script ends.
CreateFails(n) ==
    /\ At(Bootstrap, "create") /\ n = Head(todo)
    /\ \/ "outage" \in Faults /\ (Add(n) \/ UNCHANGED << exists, made >>)
       \/ n = "user" /\ exists[n] # {} /\ UNCHANGED << exists, made >>
       \/ made[n] = MaxCopies /\ UNCHANGED << exists, made >>
    /\ Exit
    /\ UNCHANGED << provider, principal, access, env, runs, history >>

\* The application shows, and its service principal is created and shows.
CreateServicePrincipal ==
    /\ script \in Bootstrap /\ at \in { "principal", "new principal" }
    /\ ids["app"] \notin principal
    /\ principal' = principal \cup { ids["app"] }
    /\ Advance
    /\ UNCHANGED << provider, exists, made, access, env, script, ids, runs, history >>

\* One of the waits ends without success, the search failed, or the authority
\* refuses a second service principal.  The application that was there falls
\* through to the creation of another one; the new one ends the script.
ServicePrincipalFails ==
    /\ script \in Bootstrap /\ at \in { "principal", "new principal" }
    /\ Behind \/ "outage" \in Faults
    /\ principal' \in { principal, principal \cup { ids["app"] } }
    /\ IF at = "principal"
       THEN at' = "create" /\ halfway' = TRUE /\ UNCHANGED << script, todo, ids >>
       ELSE Exit /\ UNCHANGED halfway
    /\ UNCHANGED << provider, exists, made, access, env, runs, blind, wavered >>

\* The names whose ids each bootstrap writes.  The file is written whole: it
\* names nothing else that was in it.
PrimitivesFile == { "user", "group", "app" }
GovernanceFile == { "user", "catalog", "package", "policy" }
OktaFile       == { "group", "app" }
EnvFile == IF provider = "okta" THEN OktaFile
           ELSE IF script = "bootstrap" THEN PrimitivesFile ELSE GovernanceFile

WriteEnv ==
    /\ At(Bootstrap, "write")
    /\ env' = [n \in Name |-> IF n \in EnvFile THEN ids[n] ELSE Null]
    /\ Exit
    /\ UNCHANGED << provider, resources, access, runs, history >>

BootstrapStep ==
    \/ \E n \in Name : \/ Find(n) \/ FindNone(n) \/ FindFails(n)
                       \/ Create(n) \/ CreateFails(n)
    \/ CreateServicePrincipal \/ ServicePrincipalFails
    \/ WriteEnv

-----------------------------------------------------------------------------
(* destroy-entra-primitives.ts.                                            *)

DestroyEntraPrimitives ==
    /\ provider = "entra"
    /\ Start("destroy", "delete", << "app", "group", "user" >>)
    /\ UNCHANGED << provider, resources, access, env, history >>

\* What goes when a name is cleared: the copy the file names, if it names one,
\* and every user of the test user's name.
Cleared(n) == IF n = "user" THEN exists[n] ELSE exists[n] \cap { env[n] }

NextName ==
    IF Len(todo) > 1 THEN todo' = Tail(todo) /\ UNCHANGED << script, at, ids >> ELSE Exit

\* A deletion that fails is reported and passed over.
Delete(n) ==
    /\ At({ "destroy" }, "delete") /\ n = Head(todo)
    /\ \E gone \in (IF "outage" \in Faults THEN { {}, Cleared(n) } ELSE { Cleared(n) }) :
          /\ exists' = [exists EXCEPT ![n] = @ \ gone]
          /\ IF n # "app" THEN UNCHANGED principal
             ELSE principal' \in (IF "outage" \in Faults
                                  THEN { principal \ gone, principal \ Cleared(n) }
                                  ELSE { principal \ Cleared(n) })
    /\ Hold({ t \in member : /\ exists'["user"] # {}
                             /\ t[2] \in exists'[t[1]]
                             /\ t[1] = "app" => t[2] \in principal' })
    /\ NextName
    /\ UNCHANGED << provider, made, env, runs, history >>

-----------------------------------------------------------------------------
(* A second copy of a resource the bootstraps search for needs a search    *)
(* that failed or missed the first, or an application that was found       *)
(* without its service principal and could not be given one: a bootstrap   *)
(* that died anywhere, lost a reply, or lost its file to the other         *)
(* model's, is taken up by the next one (bootstrap-entra-primitives.ts,    *)
(* bootstrap-okta-primitives.ts, bootstrap-entra-governance.ts).           *)

OneOfEach ==
    \A n \in Searched :
        \/ \A c, d \in exists[n] : c = d
        \/ n \in blind
        \/ n = "app" /\ halfway

=============================================================================
