---------------------------- MODULE RuntimeKernel ----------------------------
(***************************************************************************)
(* The plugin runtime of packages/integration-runtime: the kernel keeps an *)
(* entry per tenant and plugin, the loader registers the capabilities of a *)
(* plugin it has activated, and the registry keeps one registration per    *)
(* capability name, with an instance per tenant.                           *)
(*                                                                         *)
(* One plugin per tenant.  A call runs from one await to the next; it      *)
(* holds on to the entry it found, also after the map has forgotten it, so *)
(* entries are objects of a small heap.                                    *)
(*                                                                         *)
(* An operator no other definition uses, placed before the definition it   *)
(* varies, is a slip the code could have made; README.md lists them.       *)
(***************************************************************************)
EXTENDS Integers, FiniteSets

CONSTANTS
    Tenant,       \* tenants; each loads one plugin
    Capability,   \* capability names
    Provides,     \* the capability sets each tenant's plugin may activate with
    Call,         \* calls that can be under way
    Entry,        \* objects of the kernel's map
    Null,
    Faults        \* what a plugin can throw in: subset of PluginCall

PluginCall == { "activate", "suspend", "dispose" }

\* A degraded and a suspended instance are both "weakened": nothing asks which.
InstanceState == { "activating", "active", "weakened", "disposed" }

ASSUME KernelAssumption ==
    /\ Provides \in [Tenant -> SUBSET SUBSET Capability]
    /\ Faults \subseteq PluginCall
    /\ Null \notin Entry /\ Null \notin Tenant /\ Null \notin Capability
    /\ Null \notin InstanceState

VARIABLES
    loadedPlugins,  \* the kernel's map: the entry of each tenant's plugin, or Null
    suspended,      \* entries in state "suspended", the one that is asked for
    capabilities,   \* capabilities of an entry
    registered,     \* names in the registry
    instance,       \* state of each tenant's instance of a registered name, or Null
    left,           \* history: names that were left behind (see RegisteredHasPlugin)
    op,             \* per call: what is awaited, or "none"
    tenant,         \* whom it is for
    held,           \* the entry it holds
    name            \* the registered capability it holds; Null once that is gone

kernel   == << loadedPlugins, suspended, capabilities >>
registry == << registered, instance, left >>
callVars == << op, tenant, held, name >>
vars     == << kernel, registry, callVars >>

KernelOp   == { "load", "degrade", "suspend", "reactivate", "dispose" }
RegistryOp == { "instantiate", "retire" }

TypeOK ==
    /\ loadedPlugins \in [Tenant -> Entry \cup {Null}]
    /\ suspended \subseteq Entry
    /\ capabilities \in [Entry -> SUBSET Capability]
    /\ registered \subseteq Capability
    /\ instance \in [Capability -> [Tenant -> InstanceState \cup {Null}]]
    /\ left \subseteq registered
    /\ op \in [Call -> KernelOp \cup RegistryOp \cup {"none"}]
    /\ tenant \in [Call -> Tenant \cup {Null}]
    /\ held \in [Call -> Entry \cup {Null}]
    /\ name \in [Call -> registered \cup {Null}]

Init ==
    /\ loadedPlugins = [t \in Tenant |-> Null]
    /\ suspended = {}
    /\ capabilities = [e \in Entry |-> {}]
    /\ registered = {}
    /\ instance = [k \in Capability |-> [t \in Tenant |-> Null]]
    /\ left = {}
    /\ op = [c \in Call |-> "none"]
    /\ tenant = [c \in Call |-> Null]
    /\ held = [c \in Call |-> Null]
    /\ name = [c \in Call |-> Null]

-----------------------------------------------------------------------------

Free(e) == /\ \A t \in Tenant : loadedPlugins[t] # e
           /\ \A c \in Call : held[c] # e

\* An entry nobody refers to any more is garbage.
Garbage(S) ==
    /\ suspended' = suspended \ S
    /\ capabilities' = [e \in Entry |-> IF e \in S THEN {} ELSE capabilities[e]]

Begin(c, what, t, e, k) ==
    /\ op' = [op EXCEPT ![c] = what]
    /\ tenant' = [tenant EXCEPT ![c] = t]
    /\ held' = [held EXCEPT ![c] = e]
    /\ name' = [name EXCEPT ![c] = k]

End(c) == Begin(c, "none", Null, Null, Null)

-----------------------------------------------------------------------------
(* load: kernel.activate, then the registrations.                           *)

\* The entry is in the map before the plugin is awaited; a key that is
\* present throws, and nothing changes.
Load(c, t) ==
    /\ op[c] = "none"
    /\ loadedPlugins[t] = Null
    /\ \E e \in Entry :
          /\ Free(e)
          /\ loadedPlugins' = [loadedPlugins EXCEPT ![t] = e]
          /\ suspended' = suspended \ {e}
          /\ capabilities' = [capabilities EXCEPT ![e] = {}]
          /\ Begin(c, "load", t, e, Null)
    /\ UNCHANGED registry

\* register: one after the other, until a name is taken already; the rest is
\* not registered then, and the plugin stays active.
Register(names) ==
    /\ \/ names \cap registered = {} /\ registered' = registered \cup names
       \/ /\ names \cap registered # {}
          /\ \E S \in SUBSET (names \ registered) : registered' = registered \cup S
    /\ UNCHANGED instance

\* An activation has answered: the entry has these capabilities from now on,
\* also when the map has forgotten the entry.
Activate(e, names) ==
    /\ suspended' = suspended \ {e}
    /\ capabilities' = [capabilities EXCEPT ![e] = names]

\* Names of the registry that the entry does not have any more.
Dropped(e, names) == (capabilities[e] \ names) \cap registered

\* The loader does not ask whether the kernel still has the entry.
Loaded(c) ==
    LET e == held[c]
        t == tenant[c]
    IN  /\ op[c] = "load"
        /\ \E names \in Provides[t] :
              /\ Activate(e, names)
              /\ Register(names)
              /\ left' = left \cup Dropped(e, names)
                             \cup IF loadedPlugins[t] = e THEN {}
                                  ELSE registered' \ registered
        /\ End(c)
        /\ UNCHANGED loadedPlugins

ActivateFailsDropping(c) ==
    /\ op[c] \in { "load", "reactivate" } /\ "activate" \in Faults
    /\ loadedPlugins' = [loadedPlugins EXCEPT ![tenant[c]] = Null]
    /\ Garbage({held[c]})
    /\ End(c)
    /\ UNCHANGED registry

\* plugin.activate throws: the entry stays, in error; load and reactivate.
ActivateFails(c) ==
    /\ op[c] \in { "load", "reactivate" } /\ "activate" \in Faults
    /\ suspended' = suspended \ {held[c]}
    /\ End(c)
    /\ UNCHANGED << loadedPlugins, capabilities, registry >>

-----------------------------------------------------------------------------
(* degrade, suspend, reactivate.                                            *)

\* The entry has another state as long as the plugin is awaited.
Await(c, what, t) ==
    /\ op[c] = "none"
    /\ loadedPlugins[t] # Null
    /\ suspended' = suspended \ {loadedPlugins[t]}
    /\ Begin(c, what, t, loadedPlugins[t], Null)
    /\ UNCHANGED << loadedPlugins, capabilities, registry >>

Degrade(c, t) == Await(c, "degrade", t)

Suspend(c, t) == Await(c, "suspend", t)

Reactivate(c, t) ==
    /\ loadedPlugins[t] # Null /\ loadedPlugins[t] \in suspended
    /\ Await(c, "reactivate", t)

Degraded(c) ==
    /\ op[c] = "degrade"
    /\ End(c)
    /\ UNCHANGED << kernel, registry >>

Suspended(c) ==
    /\ op[c] = "suspend"
    /\ suspended' = suspended \cup {held[c]}
    /\ End(c)
    /\ UNCHANGED << loadedPlugins, capabilities, registry >>

\* plugin.suspend throws: the entry stays "suspending".
SuspendFails(c) ==
    /\ op[c] = "suspend" /\ "suspend" \in Faults
    /\ End(c)
    /\ UNCHANGED << kernel, registry >>

\* The new capabilities replace the old ones in the entry; the registry is
\* told neither of the ones that are gone nor of the ones that are new.
Reactivated(c) ==
    /\ op[c] = "reactivate"
    /\ \E names \in Provides[tenant[c]] :
          /\ Activate(held[c], names)
          /\ left' = left \cup Dropped(held[c], names)
    /\ End(c)
    /\ UNCHANGED << loadedPlugins, registered, instance >>

-----------------------------------------------------------------------------
(* unload: kernel.dispose.                                                  *)

Dispose(c, t) == Await(c, "dispose", t)

\* The names of an entry that another call has put in the map meanwhile.
Strays(c) ==
    IF loadedPlugins[tenant[c]] \in { held[c], Null } THEN {}
    ELSE capabilities[loadedPlugins[tenant[c]]] \cap registered

UnregisterHeld(c, names) ==
    /\ registered' = registered \ names
    /\ left' = (left \cup Strays(c)) \ names
    /\ instance' = [k \in Capability |->
          IF k \in names THEN [t \in Tenant |-> Null] ELSE instance[k]]
    /\ op' = [op EXCEPT ![c] = "none"]
    /\ tenant' = [tenant EXCEPT ![c] = Null]
    /\ held' = [held EXCEPT ![c] = Null]
    /\ name' = [d \in Call |-> IF d = c THEN Null ELSE name[d]]

\* unregister: by name, whoever registered it, with the instances of every
\* tenant; calls that still hold a registration go on with a forgotten one.
Unregister(c, names) ==
    /\ registered' = registered \ names
    /\ left' = (left \cup Strays(c)) \ names
    /\ instance' = [k \in Capability |->
          IF k \in names THEN [t \in Tenant |-> Null] ELSE instance[k]]
    /\ op' = [op EXCEPT ![c] = "none"]
    /\ tenant' = [tenant EXCEPT ![c] = Null]
    /\ held' = [held EXCEPT ![c] = Null]
    /\ name' = [d \in Call |-> IF name[d] \in names THEN Null ELSE name[d]]

Delete(c) ==
    /\ loadedPlugins' = [loadedPlugins EXCEPT ![tenant[c]] = Null]
    /\ Garbage({ e \in Entry : e \in { held[c], loadedPlugins[tenant[c]] }
                               /\ \A d \in Call \ {c} : held[d] # e })

\* The plugin has disposed itself: its capabilities are unregistered and the
\* key is deleted, whichever entry it has by now.
Disposed(c) ==
    /\ op[c] = "dispose"
    /\ Unregister(c, capabilities[held[c]])
    /\ Delete(c)

\* plugin.dispose throws: the key is deleted all the same, the names stay.
DisposeFails(c) ==
    /\ op[c] = "dispose" /\ "dispose" \in Faults
    /\ Delete(c)
    /\ left' = left \cup (capabilities[held[c]] \cap registered) \cup Strays(c)
    /\ End(c)
    /\ UNCHANGED << registered, instance >>

-----------------------------------------------------------------------------
(* Instances of registered capabilities.                                    *)

SetInstance(k, t, s) == instance' = [instance EXCEPT ![k][t] = s]

\* registry.activate: an instance that lives throws.
Instantiate(c, k, t) ==
    /\ op[c] = "none"
    /\ k \in registered /\ instance[k][t] \in { Null, "disposed" }
    /\ SetInstance(k, t, "activating")
    /\ Begin(c, "instantiate", t, Null, k)
    /\ UNCHANGED << kernel, registered, left >>

\* registry.dispose and cleanup: one instance at a time.
Retire(c, k, t) ==
    /\ op[c] = "none"
    /\ k \in registered /\ instance[k][t] # Null
    /\ Begin(c, "retire", t, Null, k)
    /\ UNCHANGED << kernel, registry >>

\* After the await the new state is written over whatever is there; when the
\* registration is gone, to an instance nobody can find.
Concluded(c) ==
    /\ op[c] \in RegistryOp
    /\ IF name[c] = Null THEN UNCHANGED instance
       ELSE SetInstance(name[c], tenant[c],
                        IF op[c] = "instantiate" THEN "active" ELSE "disposed")
    /\ End(c)
    /\ UNCHANGED << kernel, registered, left >>

\* registry.degrade and registry.suspend, which await nothing.
Weaken(k, t) ==
    /\ k \in registered /\ instance[k][t] \notin { Null, "disposed" }
    /\ SetInstance(k, t, "weakened")
    /\ UNCHANGED << kernel, registered, left, callVars >>

-----------------------------------------------------------------------------

Answered(c) ==
    \/ Loaded(c) \/ ActivateFails(c)
    \/ Degraded(c) \/ Suspended(c) \/ SuspendFails(c) \/ Reactivated(c)
    \/ Disposed(c) \/ DisposeFails(c)
    \/ Concluded(c)

Next ==
    \/ \E c \in Call, t \in Tenant :
          \/ Load(c, t) \/ Degrade(c, t) \/ Suspend(c, t) \/ Reactivate(c, t)
          \/ Dispose(c, t)
          \/ \E k \in Capability : Instantiate(c, k, t) \/ Retire(c, k, t)
    \/ \E c \in Call : Answered(c)
    \/ \E k \in Capability, t \in Tenant : Weaken(k, t)

Spec == Init /\ [][Next]_vars

-----------------------------------------------------------------------------
(* What the runtime promises.                                               *)

\* A name in the registry belongs to a plugin in the kernel, however the calls
\* for a tenant overlap and also when a load broke off in the middle.  Names are
\* left behind in four ways only: the plugin's dispose threw; the plugin came
\* back from a suspension without the name; it was unloaded while it was still
\* being activated, and load registered its names all the same; a second
\* unload, under way since before it was loaded anew, deleted its key.
RegisteredHasPlugin ==
    \A k \in registered \ left :
        \E t \in Tenant : loadedPlugins[t] # Null
                          /\ k \in capabilities[loadedPlugins[t]]

\* The answer to an activation does not bring an instance to life under a
\* registration that it was never asked for: when the name was unregistered
\* meanwhile, and registered anew, the answer is lost.  (An instance that was
\* disposed meanwhile does become active again.)
InstanceStartsAfresh ==
    [][ \A k \in Capability, t \in Tenant :
          instance'[k][t] = "active" => instance[k][t] # Null ]_vars

=============================================================================
