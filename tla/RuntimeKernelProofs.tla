------------------------- MODULE RuntimeKernelProofs -------------------------
(***************************************************************************)
(* What the runtime promises holds for every number of tenants, plugins    *)
(* and calls, whichever capabilities the plugins share and come back with, *)
(* and however the calls overlap, for one tenant as well.                  *)
(***************************************************************************)
EXTENDS RuntimeKernel, TLAPS

\* A call that waits for a plugin has a tenant and an entry; one that waits
\* for an instance has a tenant.
CallsHold ==
    \A c \in Call :
        /\ op[c] \in KernelOp => held[c] \in Entry
        /\ op[c] # "none" => tenant[c] \in Tenant

\* An entry is one tenant's, in the map and in the hands of the calls: the
\* object is not used again as long as a call holds it.
EntriesAreOwn ==
    /\ \A t, u \in Tenant :
          loadedPlugins[t] = loadedPlugins[u] /\ loadedPlugins[t] # Null => t = u
    /\ \A c \in Call, t \in Tenant :
          held[c] # Null /\ held[c] = loadedPlugins[t] => t = tenant[c]
    /\ \A c, d \in Call : held[c] # Null /\ held[c] = held[d] => tenant[c] = tenant[d]

\* The instance a call will write over is there, or the call has lost its
\* registration.
AwaitedIsThere ==
    \A c \in Call :
        op[c] = "instantiate" /\ name[c] # Null => instance[name[c]][tenant[c]] # Null

IInv == TypeOK /\ CallsHold /\ EntriesAreOwn /\ AwaitedIsThere /\ RegisteredHasPlugin

-----------------------------------------------------------------------------
(* The memory of the calls.                                                 *)

LEMMA CallTypes ==
  ASSUME TypeOK, CallsHold, registered \subseteq registered',
         NEW c \in Call, NEW what \in KernelOp \cup RegistryOp \cup {"none"},
         NEW t \in Tenant \cup {Null}, NEW e \in Entry \cup {Null},
         NEW k \in registered' \cup {Null},
         Begin(c, what, t, e, k),
         what \in KernelOp => e \in Entry, what # "none" => t \in Tenant
  PROVE  /\ op' \in [Call -> KernelOp \cup RegistryOp \cup {"none"}]
         /\ tenant' \in [Call -> Tenant \cup {Null}]
         /\ held' \in [Call -> Entry \cup {Null}]
         /\ name' \in [Call -> registered' \cup {Null}]
         /\ CallsHold'
<1>1. /\ op' \in [Call -> KernelOp \cup RegistryOp \cup {"none"}]
      /\ tenant' \in [Call -> Tenant \cup {Null}]
      /\ held' \in [Call -> Entry \cup {Null}]
  BY DEF Begin, TypeOK
<1>2. name' \in [Call -> registered' \cup {Null}]
  BY DEF Begin, TypeOK
<1>3. CallsHold'
  BY DEF Begin, TypeOK, CallsHold
<1> QED BY <1>1, <1>2, <1>3

LEMMA EndTypes ==
  ASSUME TypeOK, CallsHold, registered \subseteq registered', NEW c \in Call, End(c)
  PROVE  /\ op' \in [Call -> KernelOp \cup RegistryOp \cup {"none"}]
         /\ tenant' \in [Call -> Tenant \cup {Null}]
         /\ held' \in [Call -> Entry \cup {Null}]
         /\ name' \in [Call -> registered' \cup {Null}]
         /\ CallsHold'
<1>1. "none" \notin KernelOp
  BY DEF KernelOp
<1> QED BY <1>1, CallTypes DEF End

\* A call that begins with an entry of its tenant, or without one.
LEMMA BeginOwn ==
  ASSUME TypeOK, EntriesAreOwn,
         NEW c \in Call, NEW what, NEW t \in Tenant, NEW k, NEW e,
         Begin(c, what, t, e, k),
         e # Null => loadedPlugins[t] = e,
         UNCHANGED loadedPlugins
  PROVE  EntriesAreOwn'
<1>1. \A d \in Call : /\ tenant'[d] = IF d = c THEN t ELSE tenant[d]
                      /\ held'[d] = IF d = c THEN e ELSE held[d]
  BY DEF Begin, TypeOK
<1> QED BY <1>1 DEF EntriesAreOwn

\* A call that ends forgets its entry; the map has the same entries, or fewer.
LEMMA EndOwn ==
  ASSUME TypeOK, EntriesAreOwn, NEW c \in Call,
         tenant' = [tenant EXCEPT ![c] = Null], held' = [held EXCEPT ![c] = Null],
         \A t \in Tenant : loadedPlugins'[t] \in { loadedPlugins[t], Null }
  PROVE  EntriesAreOwn'
<1>1. \A d \in Call : /\ tenant'[d] = IF d = c THEN Null ELSE tenant[d]
                      /\ held'[d] = IF d = c THEN Null ELSE held[d]
  BY DEF TypeOK
<1> QED BY <1>1 DEF EntriesAreOwn

\* Instances that are awaited stay there while no instance changes.
LEMMA AwaitedStays ==
  ASSUME TypeOK, AwaitedIsThere, UNCHANGED instance,
         NEW c \in Call, NEW what, NEW t, NEW e, NEW k,
         Begin(c, what, t, e, k), what # "instantiate"
  PROVE  AwaitedIsThere'
  BY DEF AwaitedIsThere, Begin, TypeOK

\* Names keep their plugins while the kernel keeps its entries.
LEMMA NamesKeepPlugins ==
  ASSUME RegisteredHasPlugin, registered' \ left' \subseteq registered \ left,
         \A t \in Tenant :
            loadedPlugins[t] # Null =>
                /\ loadedPlugins'[t] = loadedPlugins[t]
                /\ capabilities[loadedPlugins[t]] \subseteq capabilities'[loadedPlugins[t]]
  PROVE  RegisteredHasPlugin'
  BY DEF RegisteredHasPlugin

-----------------------------------------------------------------------------
(* The steps of the kernel.                                                 *)

LEMMA LoadPreserves ==
  ASSUME IInv, NEW c \in Call, NEW t \in Tenant, Load(c, t)
  PROVE  IInv'
<1>1. /\ TypeOK /\ CallsHold /\ EntriesAreOwn /\ AwaitedIsThere /\ RegisteredHasPlugin
      /\ loadedPlugins[t] = Null
  BY DEF IInv, Load
<1>2. UNCHANGED << registered, instance, left >>
  BY DEF Load, registry
<1>3. PICK e \in Entry : /\ Free(e)
                         /\ loadedPlugins' = [loadedPlugins EXCEPT ![t] = e]
                         /\ suspended' = suspended \ {e}
                         /\ capabilities' = [capabilities EXCEPT ![e] = {}]
                         /\ Begin(c, "load", t, e, Null)
  BY DEF Load
<1>4. "load" \in KernelOp /\ e # Null
  BY KernelAssumption DEF KernelOp
<1>5. /\ loadedPlugins' \in [Tenant -> Entry \cup {Null}]
      /\ suspended' \subseteq Entry
      /\ capabilities' \in [Entry -> SUBSET Capability]
  BY <1>1, <1>3 DEF TypeOK
<1>6. TypeOK' /\ CallsHold'
  <2>1. /\ op' \in [Call -> KernelOp \cup RegistryOp \cup {"none"}]
        /\ tenant' \in [Call -> Tenant \cup {Null}]
        /\ held' \in [Call -> Entry \cup {Null}]
        /\ name' \in [Call -> registered' \cup {Null}]
        /\ CallsHold'
    BY <1>1, <1>2, <1>3, <1>4, CallTypes
  <2> QED BY <1>1, <1>2, <1>5, <2>1 DEF TypeOK
<1>7. EntriesAreOwn'
  <2>1. /\ \A u \in Tenant : loadedPlugins'[u] = IF u = t THEN e ELSE loadedPlugins[u]
        /\ \A d \in Call : /\ tenant'[d] = IF d = c THEN t ELSE tenant[d]
                           /\ held'[d] = IF d = c THEN e ELSE held[d]
    BY <1>1, <1>3 DEF Begin, TypeOK
  <2>2. /\ \A u \in Tenant : loadedPlugins[u] # e
        /\ \A d \in Call : held[d] # e
    BY <1>3 DEF Free
  <2> QED BY <1>1, <2>1, <2>2 DEF EntriesAreOwn
<1>8. AwaitedIsThere'
  BY <1>1, <1>2, <1>3, AwaitedStays
<1>9. RegisteredHasPlugin'
  BY <1>1, <1>2, <1>3, NamesKeepPlugins DEF Free, TypeOK
<1> QED BY <1>6, <1>7, <1>8, <1>9 DEF IInv

\* An activation that answers gives its entry new capabilities: what the entry
\* drops is left behind, and what is registered has been given to an entry of
\* the map, or is left behind as well.
LEMMA ActivateNames ==
  ASSUME TypeOK, RegisteredHasPlugin, EntriesAreOwn,
         NEW c \in Call, held[c] \in Entry, tenant[c] \in Tenant,
         NEW names \in SUBSET Capability, Activate(held[c], names),
         UNCHANGED loadedPlugins,
         registered' \subseteq registered \cup names,
         left \cup Dropped(held[c], names) \subseteq left',
         loadedPlugins[tenant[c]] # held[c] => registered' \ registered \subseteq left'
  PROVE  RegisteredHasPlugin'
<1> SUFFICES ASSUME NEW k \in registered' \ left'
             PROVE  \E t \in Tenant : /\ loadedPlugins[t] # Null
                                      /\ k \in capabilities'[loadedPlugins[t]]
  BY DEF RegisteredHasPlugin
<1>1. /\ held[c] # Null
      /\ \A e \in Entry : capabilities'[e] = IF e = held[c] THEN names ELSE capabilities[e]
  BY KernelAssumption DEF Activate, TypeOK
<1>2. CASE k \in registered
  <2>1. PICK t \in Tenant : loadedPlugins[t] # Null /\ k \in capabilities[loadedPlugins[t]]
    BY <1>2 DEF RegisteredHasPlugin
  <2>2. loadedPlugins[t] \in Entry
    BY <2>1 DEF TypeOK
  <2>3. loadedPlugins[t] = held[c] => k \in names
    BY <1>2, <2>1 DEF Dropped
  <2> QED BY <1>1, <2>1, <2>2, <2>3
<1>3. CASE k \notin registered
  BY <1>1, <1>3
<1> QED BY <1>2, <1>3

LEMMA LoadedPreserves ==
  ASSUME IInv, NEW c \in Call, Loaded(c)
  PROVE  IInv'
<1>1. /\ TypeOK /\ CallsHold /\ EntriesAreOwn /\ AwaitedIsThere /\ RegisteredHasPlugin
      /\ op[c] = "load" /\ End(c) /\ UNCHANGED loadedPlugins
  BY DEF IInv, Loaded
<1>2. held[c] \in Entry /\ tenant[c] \in Tenant
  BY <1>1 DEF CallsHold, KernelOp
<1>3. PICK names \in Provides[tenant[c]] :
         /\ Activate(held[c], names) /\ Register(names)
         /\ left' = left \cup Dropped(held[c], names)
                        \cup IF loadedPlugins[tenant[c]] = held[c] THEN {}
                             ELSE registered' \ registered
  BY DEF Loaded
<1>4. names \in SUBSET Capability
  BY <1>2, KernelAssumption
<1>5. /\ registered \subseteq registered' /\ registered' \subseteq registered \cup names
      /\ UNCHANGED instance
  BY <1>3 DEF Register
<1>6. suspended' \subseteq Entry /\ capabilities' \in [Entry -> SUBSET Capability]
  BY <1>1, <1>2, <1>3, <1>4 DEF Activate, TypeOK
<1>7. left' \subseteq registered'
  BY <1>1, <1>3, <1>5 DEF Dropped, TypeOK
<1>8. TypeOK' /\ CallsHold'
  <2>1. /\ op' \in [Call -> KernelOp \cup RegistryOp \cup {"none"}]
        /\ tenant' \in [Call -> Tenant \cup {Null}]
        /\ held' \in [Call -> Entry \cup {Null}]
        /\ name' \in [Call -> registered' \cup {Null}]
        /\ CallsHold'
    BY <1>1, <1>5, EndTypes
  <2> QED BY <1>1, <1>4, <1>5, <1>6, <1>7, <2>1 DEF TypeOK
<1>9. EntriesAreOwn'
  BY <1>1, EndOwn DEF End, Begin
<1>10. AwaitedIsThere'
  BY <1>1, <1>5, AwaitedStays DEF End
<1>11. RegisteredHasPlugin'
  BY <1>1, <1>2, <1>3, <1>4, <1>5, ActivateNames
<1> QED BY <1>8, <1>9, <1>10, <1>11 DEF IInv

LEMMA ReactivatedPreserves ==
  ASSUME IInv, NEW c \in Call, Reactivated(c)
  PROVE  IInv'
<1>1. /\ TypeOK /\ CallsHold /\ EntriesAreOwn /\ AwaitedIsThere /\ RegisteredHasPlugin
      /\ op[c] = "reactivate" /\ End(c) /\ UNCHANGED << loadedPlugins, registered, instance >>
  BY DEF IInv, Reactivated
<1>2. held[c] \in Entry /\ tenant[c] \in Tenant
  BY <1>1 DEF CallsHold, KernelOp
<1>3. PICK names \in Provides[tenant[c]] :
         Activate(held[c], names) /\ left' = left \cup Dropped(held[c], names)
  BY DEF Reactivated
<1>4. names \in SUBSET Capability
  BY <1>2, KernelAssumption
<1>5. suspended' \subseteq Entry /\ capabilities' \in [Entry -> SUBSET Capability]
  BY <1>1, <1>2, <1>3, <1>4 DEF Activate, TypeOK
<1>6. left' \subseteq registered'
  BY <1>1, <1>3 DEF Dropped, TypeOK
<1>7. TypeOK' /\ CallsHold'
  <2>1. /\ op' \in [Call -> KernelOp \cup RegistryOp \cup {"none"}]
        /\ tenant' \in [Call -> Tenant \cup {Null}]
        /\ held' \in [Call -> Entry \cup {Null}]
        /\ name' \in [Call -> registered' \cup {Null}]
        /\ CallsHold'
    BY <1>1, EndTypes
  <2> QED BY <1>1, <1>5, <1>6, <2>1 DEF TypeOK
<1>8. EntriesAreOwn'
  BY <1>1, EndOwn DEF End, Begin
<1>9. AwaitedIsThere'
  BY <1>1, AwaitedStays DEF End
<1>10. RegisteredHasPlugin'
  BY <1>1, <1>2, <1>3, <1>4, ActivateNames
<1> QED BY <1>7, <1>8, <1>9, <1>10 DEF IInv

\* An answer that changes nothing but the state of an entry.
LEMMA AnswerPreserves ==
  ASSUME IInv, NEW c \in Call,
         ActivateFails(c) \/ Degraded(c) \/ Suspended(c) \/ SuspendFails(c)
  PROVE  IInv'
<1>1. /\ TypeOK /\ CallsHold /\ EntriesAreOwn /\ AwaitedIsThere /\ RegisteredHasPlugin
      /\ End(c) /\ op[c] \in KernelOp
      /\ UNCHANGED << loadedPlugins, capabilities, registered, instance, left >>
  BY DEF IInv, ActivateFails, Degraded, Suspended, SuspendFails, KernelOp, kernel, registry
<1>2. held[c] \in Entry
  BY <1>1 DEF CallsHold
<1>3. suspended' \subseteq Entry
  BY <1>1, <1>2 DEF ActivateFails, Degraded, Suspended, SuspendFails, kernel, TypeOK
<1>4. TypeOK' /\ CallsHold'
  <2>1. /\ op' \in [Call -> KernelOp \cup RegistryOp \cup {"none"}]
        /\ tenant' \in [Call -> Tenant \cup {Null}]
        /\ held' \in [Call -> Entry \cup {Null}]
        /\ name' \in [Call -> registered' \cup {Null}]
        /\ CallsHold'
    BY <1>1, EndTypes
  <2> QED BY <1>1, <1>3, <2>1 DEF TypeOK
<1>5. EntriesAreOwn'
  BY <1>1, EndOwn DEF End, Begin
<1>6. AwaitedIsThere'
  BY <1>1, AwaitedStays DEF End
<1>7. RegisteredHasPlugin'
  BY <1>1 DEF RegisteredHasPlugin
<1> QED BY <1>4, <1>5, <1>6, <1>7 DEF IInv

LEMMA AwaitPreserves ==
  ASSUME IInv, NEW c \in Call, NEW t \in Tenant,
         Degrade(c, t) \/ Suspend(c, t) \/ Reactivate(c, t) \/ Dispose(c, t)
  PROVE  IInv'
<1>1. PICK what \in KernelOp : Await(c, what, t)
  BY DEF Degrade, Suspend, Reactivate, Dispose, KernelOp
<1>2. /\ TypeOK /\ CallsHold /\ EntriesAreOwn /\ AwaitedIsThere /\ RegisteredHasPlugin
      /\ loadedPlugins[t] \in Entry
      /\ Begin(c, what, t, loadedPlugins[t], Null)
      /\ UNCHANGED << loadedPlugins, capabilities, registered, instance, left >>
  BY <1>1 DEF IInv, Await, registry, TypeOK
<1>3. suspended' \subseteq Entry
  BY <1>1, <1>2 DEF Await, TypeOK
<1>4. TypeOK' /\ CallsHold'
  <2>1. /\ op' \in [Call -> KernelOp \cup RegistryOp \cup {"none"}]
        /\ tenant' \in [Call -> Tenant \cup {Null}]
        /\ held' \in [Call -> Entry \cup {Null}]
        /\ name' \in [Call -> registered' \cup {Null}]
        /\ CallsHold'
    BY <1>2, CallTypes
  <2> QED BY <1>2, <1>3, <2>1 DEF TypeOK
<1>5. EntriesAreOwn'
  BY <1>2, BeginOwn
<1>6. AwaitedIsThere'
  <2>1. what # "instantiate"
    BY DEF KernelOp
  <2> QED BY <1>2, <2>1, AwaitedStays
<1>7. RegisteredHasPlugin'
  BY <1>2 DEF RegisteredHasPlugin
<1> QED BY <1>4, <1>5, <1>6, <1>7 DEF IInv

-----------------------------------------------------------------------------
(* Unloading.                                                               *)

\* The key is deleted, and the entries nobody holds any more.
LEMMA DeleteTypes ==
  ASSUME TypeOK, NEW c \in Call, Delete(c)
  PROVE  /\ loadedPlugins' \in [Tenant -> Entry \cup {Null}]
         /\ suspended' \subseteq Entry
         /\ capabilities' \in [Entry -> SUBSET Capability]
  BY DEF Delete, Garbage, TypeOK

\* The entries of the other tenants are not touched, and what the entry of the
\* call's own tenant has is unregistered or left behind.
LEMMA DeleteNames ==
  ASSUME TypeOK, EntriesAreOwn, RegisteredHasPlugin,
         NEW c \in Call, held[c] \in Entry, tenant[c] \in Tenant, Delete(c),
         registered' \subseteq registered,
         registered' \cap (left \cup capabilities[held[c]] \cup Strays(c)) \subseteq left'
  PROVE  RegisteredHasPlugin'
<1> SUFFICES ASSUME NEW k \in registered' \ left'
             PROVE  \E t \in Tenant : /\ loadedPlugins'[t] # Null
                                      /\ k \in capabilities'[loadedPlugins'[t]]
  BY DEF RegisteredHasPlugin
<1>1. /\ k \in registered \ left
      /\ k \notin capabilities[held[c]] /\ k \notin Strays(c)
  OBVIOUS
<1>2. PICK t \in Tenant : loadedPlugins[t] # Null /\ k \in capabilities[loadedPlugins[t]]
  BY <1>1 DEF RegisteredHasPlugin
<1>3. t # tenant[c]
  BY <1>1, <1>2 DEF Strays
<1>4. loadedPlugins'[t] = loadedPlugins[t]
  BY <1>3 DEF Delete, TypeOK
<1>5. /\ loadedPlugins[t] \in Entry
      /\ loadedPlugins[t] # held[c] /\ loadedPlugins[t] # loadedPlugins[tenant[c]]
  BY <1>2, <1>3, KernelAssumption DEF EntriesAreOwn, TypeOK
<1>6. capabilities'[loadedPlugins[t]] = capabilities[loadedPlugins[t]]
  BY <1>5 DEF Delete, Garbage
<1> QED BY <1>2, <1>4, <1>6

LEMMA DisposedPreserves ==
  ASSUME IInv, NEW c \in Call, Disposed(c)
  PROVE  IInv'
<1>1. /\ TypeOK /\ CallsHold /\ EntriesAreOwn /\ AwaitedIsThere /\ RegisteredHasPlugin
      /\ op[c] \in KernelOp /\ Delete(c)
  BY DEF IInv, Disposed, KernelOp
<1> DEFINE names == capabilities[held[c]]
<1>2. /\ registered' = registered \ names /\ left' = (left \cup Strays(c)) \ names
      /\ instance' = [k \in Capability |->
            IF k \in names THEN [t \in Tenant |-> Null] ELSE instance[k]]
      /\ op' = [op EXCEPT ![c] = "none"] /\ tenant' = [tenant EXCEPT ![c] = Null]
      /\ held' = [held EXCEPT ![c] = Null]
      /\ name' = [d \in Call |-> IF name[d] \in names THEN Null ELSE name[d]]
  BY DEF Disposed, Unregister
<1>3. held[c] \in Entry /\ tenant[c] \in Tenant
  <2>1. "none" \notin KernelOp
    BY DEF KernelOp
  <2> QED BY <1>1, <2>1 DEF CallsHold
<1>4. RegisteredHasPlugin'
  BY <1>1, <1>2, <1>3, DeleteNames
<1> HIDE DEF names
<1>5. /\ op' \in [Call -> KernelOp \cup RegistryOp \cup {"none"}]
      /\ tenant' \in [Call -> Tenant \cup {Null}]
      /\ held' \in [Call -> Entry \cup {Null}]
  BY <1>1, <1>2 DEF TypeOK
<1>6. name' \in [Call -> registered' \cup {Null}]
  BY <1>1, <1>2 DEF TypeOK
<1>7. /\ registered' \subseteq Capability /\ left' \subseteq registered'
      /\ instance' \in [Capability -> [Tenant -> InstanceState \cup {Null}]]
  <2>1. Strays(c) \subseteq registered
    BY DEF Strays
  <2> QED BY <1>1, <1>2, <2>1 DEF TypeOK
<1>8. TypeOK'
  BY <1>1, <1>5, <1>6, <1>7, DeleteTypes DEF TypeOK
<1>9. CallsHold'
  <2>1. "none" \notin KernelOp
    BY DEF KernelOp
  <2> QED BY <1>1, <1>2, <2>1 DEF CallsHold, TypeOK
<1>10. EntriesAreOwn'
  <2>1. \A t \in Tenant : loadedPlugins'[t] \in { loadedPlugins[t], Null }
    BY <1>1 DEF Delete, TypeOK
  <2> QED BY <1>1, <1>2, <2>1, EndOwn
<1>11. AwaitedIsThere'
  <2> SUFFICES ASSUME NEW d \in Call, op'[d] = "instantiate", name'[d] # Null
               PROVE  instance'[name'[d]][tenant'[d]] # Null
    BY DEF AwaitedIsThere
  <2>1. d # c
    BY <1>1, <1>2 DEF TypeOK
  <2>2. /\ op'[d] = op[d] /\ tenant'[d] = tenant[d] /\ name'[d] = name[d]
        /\ name[d] \in Capability /\ name[d] \notin names
    BY <1>1, <1>2, <2>1 DEF TypeOK
  <2>3. instance'[name[d]] = instance[name[d]]
    BY <1>2, <2>2
  <2> QED BY <1>1, <2>2, <2>3 DEF AwaitedIsThere
<1> QED BY <1>4, <1>8, <1>9, <1>10, <1>11 DEF IInv

\* What a plugin that throws leaves behind is set apart.
LEMMA DisposeFailsPreserves ==
  ASSUME IInv, NEW c \in Call, DisposeFails(c)
  PROVE  IInv'
<1>1. /\ TypeOK /\ CallsHold /\ EntriesAreOwn /\ AwaitedIsThere /\ RegisteredHasPlugin
      /\ op[c] \in KernelOp /\ Delete(c) /\ End(c)
      /\ left' = left \cup (capabilities[held[c]] \cap registered) \cup Strays(c)
      /\ UNCHANGED << registered, instance >>
  BY DEF IInv, DisposeFails, KernelOp
<1>2. held[c] \in Entry /\ tenant[c] \in Tenant
  <2>1. "none" \notin KernelOp
    BY DEF KernelOp
  <2> QED BY <1>1, <2>1 DEF CallsHold
<1>3. TypeOK' /\ CallsHold'
  <2>1. /\ op' \in [Call -> KernelOp \cup RegistryOp \cup {"none"}]
        /\ tenant' \in [Call -> Tenant \cup {Null}]
        /\ held' \in [Call -> Entry \cup {Null}]
        /\ name' \in [Call -> registered' \cup {Null}]
        /\ CallsHold'
    BY <1>1, EndTypes
  <2>2. left' \subseteq registered' /\ registered' \subseteq Capability
    BY <1>1 DEF Strays, TypeOK
  <2> QED BY <1>1, <2>1, <2>2, DeleteTypes DEF TypeOK
<1>4. EntriesAreOwn'
  <2>1. \A t \in Tenant : loadedPlugins'[t] \in { loadedPlugins[t], Null }
    BY <1>1 DEF Delete, TypeOK
  <2> QED BY <1>1, <2>1, EndOwn DEF End, Begin
<1>5. AwaitedIsThere'
  BY <1>1, AwaitedStays DEF End
<1>6. RegisteredHasPlugin'
  BY <1>1, <1>2, DeleteNames
<1> QED BY <1>3, <1>4, <1>5, <1>6 DEF IInv

-----------------------------------------------------------------------------
(* The steps of the registry.                                               *)

\* A call that asks for an instance has it put where its answer goes.
LEMMA AskPreserves ==
  ASSUME IInv, NEW c \in Call, NEW k \in Capability, NEW t \in Tenant,
         Instantiate(c, k, t) \/ Retire(c, k, t)
  PROVE  IInv'
<1>1. PICK what \in RegistryOp :
         /\ Begin(c, what, t, Null, k)
         /\ \/ what = "instantiate" /\ SetInstance(k, t, "activating")
            \/ what = "retire" /\ UNCHANGED instance
  BY DEF Instantiate, Retire, RegistryOp, registry
<1>2. /\ TypeOK /\ CallsHold /\ EntriesAreOwn /\ AwaitedIsThere /\ RegisteredHasPlugin
      /\ k \in registered
      /\ UNCHANGED << loadedPlugins, suspended, capabilities, registered, left >>
  BY DEF IInv, Instantiate, Retire, kernel, registry
<1>3. what \notin KernelOp
  BY <1>1 DEF KernelOp
<1>4. /\ instance' \in [Capability -> [Tenant -> InstanceState \cup {Null}]]
      /\ \A j \in Capability, u \in Tenant :
            \/ instance'[j][u] = instance[j][u]
            \/ what = "instantiate" /\ j = k /\ u = t /\ instance'[j][u] = "activating"
  <2>1. instance \in [Capability -> [Tenant -> InstanceState \cup {Null}]]
    BY <1>2 DEF TypeOK
  <2>2. CASE what = "instantiate" /\ SetInstance(k, t, "activating")
    BY <2>1, <2>2 DEF SetInstance, InstanceState
  <2>3. CASE UNCHANGED instance
    BY <2>1, <2>3
  <2> QED BY <1>1, <2>2, <2>3
<1>5. TypeOK' /\ CallsHold'
  <2>1. /\ op' \in [Call -> KernelOp \cup RegistryOp \cup {"none"}]
        /\ tenant' \in [Call -> Tenant \cup {Null}]
        /\ held' \in [Call -> Entry \cup {Null}]
        /\ name' \in [Call -> registered' \cup {Null}]
        /\ CallsHold'
    BY <1>1, <1>2, <1>3, CallTypes
  <2> QED BY <1>2, <1>4, <2>1 DEF TypeOK
<1>6. EntriesAreOwn'
  BY <1>1, <1>2, BeginOwn
<1>7. AwaitedIsThere'
  <2> SUFFICES ASSUME NEW d \in Call, op'[d] = "instantiate", name'[d] # Null
               PROVE  instance'[name'[d]][tenant'[d]] # Null
    BY DEF AwaitedIsThere
  <2>1. "activating" # Null
    BY KernelAssumption DEF InstanceState
  <2>2. CASE d = c
    <3>1. what = "instantiate" /\ name'[d] = k /\ tenant'[d] = t
      BY <1>1, <1>2, <2>2 DEF Begin, TypeOK
    <3>2. instance'[k][t] = "activating"
      BY <1>1, <1>2, <3>1 DEF SetInstance, TypeOK
    <3> QED BY <2>1, <3>1, <3>2
  <2>3. CASE d # c
    <3>1. op'[d] = op[d] /\ name'[d] = name[d] /\ tenant'[d] = tenant[d]
      BY <1>1, <1>2, <2>3 DEF Begin, TypeOK
    <3>2. name[d] \in Capability /\ tenant[d] \in Tenant
      BY <1>2, <3>1 DEF TypeOK, CallsHold
    <3> QED BY <1>2, <1>4, <2>1, <3>1, <3>2 DEF AwaitedIsThere
  <2> QED BY <2>2, <2>3
<1>8. RegisteredHasPlugin'
  BY <1>2 DEF RegisteredHasPlugin
<1> QED BY <1>5, <1>6, <1>7, <1>8 DEF IInv

\* What an answer writes is an instance again.
LEMMA ConcludedPreserves ==
  ASSUME IInv, NEW c \in Call, Concluded(c)
  PROVE  IInv'
<1>1. /\ TypeOK /\ CallsHold /\ EntriesAreOwn /\ AwaitedIsThere /\ RegisteredHasPlugin
      /\ op[c] \in RegistryOp /\ End(c)
      /\ UNCHANGED << loadedPlugins, suspended, capabilities, registered, left >>
  BY DEF IInv, Concluded, kernel
<1>2. tenant[c] \in Tenant /\ (name[c] # Null => name[c] \in Capability)
  BY <1>1 DEF CallsHold, RegistryOp, TypeOK
<1>3. /\ instance' \in [Capability -> [Tenant -> InstanceState \cup {Null}]]
      /\ \A j \in Capability, u \in Tenant :
            instance'[j][u] = instance[j][u] \/ instance'[j][u] # Null
  <2>1. ASSUME NEW s \in InstanceState, name[c] # Null, SetInstance(name[c], tenant[c], s)
        PROVE  /\ instance' \in [Capability -> [Tenant -> InstanceState \cup {Null}]]
               /\ \A j \in Capability, u \in Tenant :
                     instance'[j][u] = instance[j][u] \/ instance'[j][u] = s
    BY <1>1, <1>2, <2>1 DEF SetInstance, TypeOK
  <2>2. (IF op[c] = "instantiate" THEN "active" ELSE "disposed") \in InstanceState
    BY DEF InstanceState
  <2>3. CASE UNCHANGED instance
    BY <1>1, <2>3 DEF TypeOK
  <2>4. CASE name[c] # Null
    BY <2>1, <2>2, <2>4, KernelAssumption DEF Concluded
  <2> QED BY <2>3, <2>4 DEF Concluded
<1>4. TypeOK' /\ CallsHold'
  <2>1. /\ op' \in [Call -> KernelOp \cup RegistryOp \cup {"none"}]
        /\ tenant' \in [Call -> Tenant \cup {Null}]
        /\ held' \in [Call -> Entry \cup {Null}]
        /\ name' \in [Call -> registered' \cup {Null}]
        /\ CallsHold'
    BY <1>1, EndTypes
  <2> QED BY <1>1, <1>3, <2>1 DEF TypeOK
<1>5. EntriesAreOwn'
  BY <1>1, EndOwn DEF End, Begin
<1>6. AwaitedIsThere'
  <2> SUFFICES ASSUME NEW d \in Call, op'[d] = "instantiate", name'[d] # Null
               PROVE  instance'[name'[d]][tenant'[d]] # Null
    BY DEF AwaitedIsThere
  <2>1. d # c /\ op'[d] = op[d] /\ name'[d] = name[d] /\ tenant'[d] = tenant[d]
    BY <1>1 DEF End, Begin, TypeOK
  <2>2. name[d] \in Capability /\ tenant[d] \in Tenant
    BY <1>1, <2>1 DEF TypeOK, CallsHold
  <2> QED BY <1>1, <1>3, <2>1, <2>2 DEF AwaitedIsThere
<1>7. RegisteredHasPlugin'
  BY <1>1 DEF RegisteredHasPlugin
<1> QED BY <1>4, <1>5, <1>6, <1>7 DEF IInv

LEMMA WeakenPreserves ==
  ASSUME IInv, NEW k \in Capability, NEW t \in Tenant, Weaken(k, t)
  PROVE  IInv'
<1>1. /\ TypeOK /\ CallsHold /\ EntriesAreOwn /\ AwaitedIsThere /\ RegisteredHasPlugin
      /\ UNCHANGED << loadedPlugins, suspended, capabilities, registered, left, op, tenant,
                      held, name >>
  BY DEF IInv, Weaken, kernel, callVars
<1>2. /\ instance' \in [Capability -> [Tenant -> InstanceState \cup {Null}]]
      /\ \A j \in Capability, u \in Tenant :
            instance'[j][u] = instance[j][u] \/ instance'[j][u] = "weakened"
  BY <1>1 DEF Weaken, SetInstance, TypeOK, InstanceState
<1>3. TypeOK' /\ CallsHold'
  BY <1>1, <1>2 DEF TypeOK, CallsHold
<1>4. EntriesAreOwn' /\ RegisteredHasPlugin'
  BY <1>1 DEF EntriesAreOwn, RegisteredHasPlugin
<1>5. AwaitedIsThere'
  <2> SUFFICES ASSUME NEW c \in Call, op[c] = "instantiate", name[c] # Null
               PROVE  instance'[name[c]][tenant[c]] # Null
    BY <1>1 DEF AwaitedIsThere
  <2>1. name[c] \in Capability /\ tenant[c] \in Tenant
    BY <1>1 DEF TypeOK, CallsHold
  <2>2. "weakened" # Null
    BY KernelAssumption DEF InstanceState
  <2> QED BY <1>1, <1>2, <2>1, <2>2 DEF AwaitedIsThere
<1> QED BY <1>3, <1>4, <1>5 DEF IInv

-----------------------------------------------------------------------------

LEMMA InitIInv == Init => IInv
<1> SUFFICES ASSUME Init PROVE IInv
  OBVIOUS
<1>1. TypeOK
  BY DEF Init, TypeOK
<1>2. CallsHold /\ EntriesAreOwn /\ AwaitedIsThere /\ RegisteredHasPlugin
  BY DEF Init, CallsHold, EntriesAreOwn, AwaitedIsThere, RegisteredHasPlugin, KernelOp
<1> QED BY <1>1, <1>2 DEF IInv

LEMMA NextIInv == IInv /\ [Next]_vars => IInv'
<1> SUFFICES ASSUME IInv, [Next]_vars PROVE IInv'
  OBVIOUS
<1>1. ASSUME NEW c \in Call, Answered(c)
      PROVE  IInv'
  BY <1>1, LoadedPreserves, ReactivatedPreserves, AnswerPreserves, DisposedPreserves,
     DisposeFailsPreserves, ConcludedPreserves DEF Answered
<1>2. CASE UNCHANGED vars
  BY <1>2 DEF vars, kernel, registry, callVars, IInv, TypeOK, CallsHold, EntriesAreOwn,
              AwaitedIsThere, RegisteredHasPlugin
<1> QED BY <1>1, <1>2, LoadPreserves, AwaitPreserves, AskPreserves, WeakenPreserves
        DEF Next

\* What the calls of kernel.ts and registry.ts hold on to across their awaits
\* belongs to one tenant and one registration, however the calls overlap.
THEOREM InductiveInvariant == Spec => []IInv
<1> QED BY InitIInv, NextIInv, PTL DEF Spec

\* The kernel, the registry and the calls keep their types.
THEOREM TypeCorrect == Spec => []TypeOK
<1>1. IInv => TypeOK
  BY DEF IInv
<1> QED BY <1>1, InductiveInvariant, PTL

\* A registered name belongs to a loaded plugin, or was left behind in one of
\* the four ways the property names, however the plugins share names, whatever
\* throws, and however the calls for a tenant overlap.
THEOREM NamesHavePlugins == Spec => []RegisteredHasPlugin
<1>1. IInv => RegisteredHasPlugin
  BY DEF IInv
<1> QED BY <1>1, InductiveInvariant, PTL

-----------------------------------------------------------------------------
(* An answer goes to the registration that was asked.                       *)

LEMMA ActivationStep ==
  ASSUME IInv, [Next]_vars,
         NEW k \in Capability, NEW t \in Tenant, instance'[k][t] = "active"
  PROVE  instance[k][t] # Null
<1>1. TypeOK /\ CallsHold /\ AwaitedIsThere
  BY DEF IInv
<1>2. "active" # Null
  BY KernelAssumption DEF InstanceState
<1>3. ASSUME NEW c \in Call, Concluded(c)
      PROVE  instance[k][t] # Null
  <2>1. CASE UNCHANGED instance
    BY <1>2, <2>1
  <2>2. CASE name[c] # Null /\ op[c] = "instantiate"
    <3>1. instance[name[c]][tenant[c]] # Null
      BY <1>1, <2>2 DEF AwaitedIsThere
    <3>2. \/ k = name[c] /\ t = tenant[c]
          \/ instance'[k][t] = instance[k][t]
      BY <1>1, <1>3, <2>2 DEF Concluded, SetInstance, TypeOK
    <3> QED BY <1>2, <3>1, <3>2
  <2>3. CASE name[c] # Null /\ op[c] # "instantiate"
    <3>1. instance'[k][t] = instance[k][t] \/ instance'[k][t] = "disposed"
      BY <1>1, <1>3, <2>3 DEF Concluded, SetInstance, TypeOK
    <3> QED BY <1>2, <3>1
  <2> QED BY <1>3, <2>1, <2>2, <2>3 DEF Concluded
<1>4. ASSUME NEW c \in Call, Disposed(c)
      PROVE  instance[k][t] # Null
  <2>1. instance'[k][t] = instance[k][t] \/ instance'[k][t] = Null
    BY <1>4 DEF Disposed, Unregister
  <2> QED BY <1>2, <2>1
<1>5. ASSUME NEW c \in Call, NEW u \in Tenant, NEW j \in Capability, Instantiate(c, j, u)
      PROVE  instance[k][t] # Null
  <2>1. instance'[k][t] = instance[k][t] \/ instance'[k][t] = "activating"
    BY <1>1, <1>5 DEF Instantiate, SetInstance, TypeOK
  <2> QED BY <1>2, <2>1
<1>6. ASSUME NEW u \in Tenant, NEW j \in Capability, Weaken(j, u)
      PROVE  instance[k][t] # Null
  <2>1. instance'[k][t] = instance[k][t] \/ instance'[k][t] = "weakened"
    BY <1>1, <1>6 DEF Weaken, SetInstance, TypeOK
  <2> QED BY <1>2, <2>1
<1>7. CASE UNCHANGED instance
  BY <1>2, <1>7
<1>8. ASSUME NEW c \in Call, Answered(c), ~Concluded(c), ~Disposed(c)
      PROVE  UNCHANGED instance
  BY <1>8 DEF Answered, Loaded, Register, ActivateFails, Degraded, Suspended, SuspendFails,
              Reactivated, DisposeFails, registry
<1>9. ASSUME NEW c \in Call, NEW u \in Tenant,
             \/ Load(c, u) \/ Degrade(c, u) \/ Suspend(c, u) \/ Reactivate(c, u)
             \/ Dispose(c, u)
             \/ \E j \in Capability : Retire(c, j, u)
      PROVE  UNCHANGED instance
  BY <1>9 DEF Load, Degrade, Suspend, Reactivate, Dispose, Await, Retire, registry
<1>10. CASE UNCHANGED vars
  BY <1>7, <1>10 DEF vars, registry
<1> QED BY <1>3, <1>4, <1>5, <1>6, <1>7, <1>8, <1>9, <1>10 DEF Next

\* However late an activation answers, and whatever was unregistered and
\* registered anew meanwhile, it brings no instance to life that was not there.
THEOREM ActivationsAreAfresh == Spec => InstanceStartsAfresh
<1>1. IInv /\ [Next]_vars =>
        [ \A k \in Capability, t \in Tenant :
            instance'[k][t] = "active" => instance[k][t] # Null ]_vars
  BY ActivationStep
<1> QED BY <1>1, InductiveInvariant, PTL DEF Spec, InstanceStartsAfresh

=============================================================================
