------------------------ MODULE GovernanceCertification ------------------------
(***************************************************************************)
(* The certification of model A on a LiveSandbox: the live runners         *)
(* certify-entra-access-packages.ts and okta.ts of scripts/live-governance *)
(* send one request through a governance provider and are to walk it       *)
(* through sixteen (Entra) or fifteen (Okta) gates.  A gate that is not    *)
(* met throws, which ends the run without evidence.                        *)
(*                                                                         *)
(* As the code stands every run ends at the fifth gate: the row that it    *)
(* inserts lacks columns that may not be null.  What comes after, from E6  *)
(* and O6 on, is never reached and not modelled.                           *)
(***************************************************************************)
EXTENDS LiveSandbox

VARIABLES
    gate,      \* the gate the runner is at
    requests,  \* how many requests the runners have sent that the authority took
    stored     \* how many of them are rows of access_requests

validation == << gate, requests, stored >>

ValidationTypeOK ==
    /\ gate \in { "subject", "submit", "persist" }
    /\ requests \in Nat
    /\ stored \in Nat

ValidationInit == gate = "subject" /\ requests = 0 /\ stored = 0

-----------------------------------------------------------------------------

Forget == gate' = "subject"

\* loadEntraConfig and loadOktaConfig ask for the ids the bootstrap wrote.
StartValidation ==
    /\ provider = "entra" => \A n \in { "user", "package", "policy" } : env[n] # Null
    /\ Start("validate", "gate", << >>)
    /\ Forget
    /\ UNCHANGED << provider, resources, access, env, history, requests, stored >>

AtGate(g) == script = "validate" /\ gate = g

\* The gate is met, and the run goes on to another.
Enter(g) == gate' = g /\ UNCHANGED sandbox

\* The gate is not met.
Throw ==
    /\ Exit /\ Forget
    /\ UNCHANGED << provider, resources, access, env, runs, history >>

\* E1 to E3, O1 to O3: the authority's subject must be the one the configuration
\* names.  An error of the call gives the manual subject, which never is.
ResolveSubject ==
    /\ AtGate("subject")
    /\ \/ (provider = "entra" => env["user"] \in exists["user"]) /\ Enter("submit")
       \/ Throw
    /\ UNCHANGED << requests, stored >>

\* E4, O4: the answer may be lost, and the request is then nobody's.
SubmitRequest ==
    /\ AtGate("submit")
    /\ requests' = requests + 1
    /\ Enter("persist") \/ ("outage" \in Faults /\ Throw)
    /\ UNCHANGED stored

SubmissionRefused ==
    /\ AtGate("submit")
    /\ Throw
    /\ UNCHANGED << requests, stored >>

\* What the runners store as the request's entitlement: the GovernedEntitlement
\* that resolveEntitlement gives.
GovernedEntitlement ==
    { "entitlementId", "authority", "externalId", "externalName", "metadata" }

\* PgAccessRequestStore.create fills three columns from the entitlement.  What it
\* does not have is bound as NULL, and the columns are NOT NULL.
EntitlementColumns == { "id", "name", "system" }
Creates(entitlement) == EntitlementColumns \subseteq entitlement

\* E5, O5: the row is created.
Persist ==
    /\ AtGate("persist")
    /\ stored' = (IF Creates(GovernedEntitlement) THEN stored + 1 ELSE stored)
    /\ Throw
    /\ UNCHANGED requests

ValidationStep ==
    ResolveSubject \/ SubmitRequest \/ SubmissionRefused \/ Persist

=============================================================================
