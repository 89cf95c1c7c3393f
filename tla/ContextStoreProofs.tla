------------------------- MODULE ContextStoreProofs -------------------------
(***************************************************************************)
(* What ContextStore promises of the store and of the credentials, for any   *)
(* number of commands, contexts and faults.                                 *)
(*                                                                          *)
(* Only the holder of the lock writes the store, and what it checked when   *)
(* it took the lock is still so when it writes: StoreInv says both.  From   *)
(* it each kind of change turns a store into a store.  CredentialInv says   *)
(* where the value is that a command wrote, while others write and undo.    *)
(***************************************************************************)
EXTENDS ContextStore, TLAPS

\* What a call holds: its kind, and contexts with names of their own.
LEMMA CallFacts ==
  ASSUME request \in Calls, NEW c \in Commands
  PROVE  /\ request[c].kind \in CommandKinds
         /\ Targets(c) # {} /\ Target(c) \in Targets(c)
         /\ \A n \in Targets(c) : request[c].items[n] \in Item /\ n # NoName
         /\ PutsMatch(request[c]) /\ Targets(c) \subseteq Names
BY CallAssumption, StoreAssumption DEF Targets, Target

\* A replacement keeps the names there are and the current one.
LEMMA ReplacedFields ==
  ASSUME NEW cfg, cfg = [contexts |-> cfg.contexts, current |-> cfg.current], NEW items
  PROVE  /\ Replaced(cfg, items) =
              [contexts |-> [n \in DOMAIN cfg.contexts \cup DOMAIN items |->
                               IF n \in DOMAIN items THEN items[n] ELSE cfg.contexts[n]],
               current |-> cfg.current]
         /\ Replaced(cfg, items).current = cfg.current
         /\ DOMAIN Replaced(cfg, items).contexts = DOMAIN cfg.contexts \cup DOMAIN items
         /\ \A n \in DOMAIN cfg.contexts \cup DOMAIN items :
              Replaced(cfg, items).contexts[n] =
                IF n \in DOMAIN items THEN items[n] ELSE cfg.contexts[n]
<1> DEFINE X == [n \in DOMAIN cfg.contexts \cup DOMAIN items |->
                   IF n \in DOMAIN items THEN items[n] ELSE cfg.contexts[n]]
<1>1. Replaced(cfg, items) = [contexts |-> X, current |-> cfg.current]
  BY DEF Replaced
<1> HIDE DEF X
<1>2. /\ Replaced(cfg, items).contexts = X
      /\ Replaced(cfg, items).current = cfg.current
  BY <1>1
<1> QED
  BY <1>1, <1>2 DEF X

\* A replacement with items of contexts, found to share no slot, is a store.
LEMMA ReplacedIsStore ==
  ASSUME NEW cfg, IsStore(cfg), NEW items,
         \A n \in DOMAIN items : items[n] \in Item,
         Unshared(Replaced(cfg, items))
  PROVE  IsStore(Replaced(cfg, items))
<1>0. cfg = [contexts |-> cfg.contexts, current |-> cfg.current]
  BY DEF IsStore
<1>1. /\ Replaced(cfg, items).current = cfg.current
      /\ DOMAIN Replaced(cfg, items).contexts = DOMAIN cfg.contexts \cup DOMAIN items
      /\ \A n \in DOMAIN cfg.contexts \cup DOMAIN items :
           Replaced(cfg, items).contexts[n] =
             IF n \in DOMAIN items THEN items[n] ELSE cfg.contexts[n]
  BY <1>0, ReplacedFields
<1>2. Replaced(cfg, items) = [contexts |-> Replaced(cfg, items).contexts,
                              current |-> Replaced(cfg, items).current]
  <2> DEFINE X == [n \in DOMAIN cfg.contexts \cup DOMAIN items |->
                     IF n \in DOMAIN items THEN items[n] ELSE cfg.contexts[n]]
  <2>1. Replaced(cfg, items) = [contexts |-> X, current |-> cfg.current]
    BY <1>0, ReplacedFields
  <2> HIDE DEF X
  <2> QED
    BY <2>1
<1>3. \A n \in DOMAIN Replaced(cfg, items).contexts :
        Replaced(cfg, items).contexts[n] \in Item
  BY <1>1 DEF IsStore
<1>4. \/ Replaced(cfg, items).current = NoName
      \/ Known(Replaced(cfg, items), Replaced(cfg, items).current)
  BY <1>1 DEF IsStore, Known
<1> QED
  BY <1>2, <1>3, <1>4 DEF IsStore

\* Without one of its contexts a store is a store.
LEMMA DeletedIsStore ==
  ASSUME NEW cfg, IsStore(cfg), NEW n
  PROVE  IsStore(Deleted(cfg, n))
<1> DEFINE X == [m \in DOMAIN cfg.contexts \ {n} |-> cfg.contexts[m]]
           y == IF cfg.current = n THEN NoName ELSE cfg.current
           new == Deleted(cfg, n)
<1>1. new = [contexts |-> X, current |-> y]
  BY DEF Deleted
<1>2. /\ DOMAIN X = DOMAIN cfg.contexts \ {n}
      /\ \A m \in DOMAIN X : X[m] = cfg.contexts[m]
  OBVIOUS
<1>3. y = NoName \/ y \in DOMAIN X
  BY DEF IsStore, Known
<1> HIDE DEF X, y, new
<1>4. new.contexts = X /\ new.current = y
  BY <1>1
<1>5. \A m \in DOMAIN new.contexts : new.contexts[m] \in Item
  BY <1>2, <1>4 DEF IsStore
<1>6. Unshared(new)
  <2>1. \A s \in Slots : Owners(new, s) \subseteq Owners(cfg, s)
    BY <1>2, <1>4 DEF Owners
  <2> QED
    BY <2>1 DEF IsStore, Unshared
<1>7. IsStore(new)
  BY <1>1, <1>3, <1>4, <1>5, <1>6 DEF IsStore, Known
<1> QED
  BY <1>7 DEF new

\* Another policy of one context leaves a store, with the same owners.
LEMMA RepolicedIsStore ==
  ASSUME NEW cfg, IsStore(cfg), NEW n \in DOMAIN cfg.contexts, NEW p \in Policies
  PROVE  IsStore([cfg EXCEPT !.contexts[n].policy = p])
<1> DEFINE new == [cfg EXCEPT !.contexts[n].policy = p]
           X == [cfg.contexts EXCEPT ![n].policy = p]
<1>1. new = [contexts |-> X, current |-> cfg.current]
  BY DEF IsStore
<1>2. DOMAIN X = DOMAIN cfg.contexts
  OBVIOUS
<1>3. \A m \in DOMAIN X : X[m] \in Item /\ X[m].ref = cfg.contexts[m].ref
  BY DEF IsStore, Item
<1> HIDE DEF X, new
<1>4. new.contexts = X /\ new.current = cfg.current
  BY <1>1
<1>5. Unshared(new)
  <2>1. \A s \in Slots : Owners(new, s) = Owners(cfg, s)
    BY <1>2, <1>3, <1>4 DEF Owners
  <2> QED
    BY <2>1 DEF IsStore, Unshared
<1>6. IsStore(new)
  BY <1>1, <1>2, <1>3, <1>4, <1>5 DEF IsStore, Known
<1> QED
  BY <1>6 DEF new

-----------------------------------------------------------------------------
\* What the pre-change policy records of a context.
LEMMA PreChangeFields ==
  ASSUME NEW c, NEW cfg, NEW n
  PROVE  PreChange(c, cfg, n).exists = Known(cfg, n)
BY DEF PreChange, PolicyOf

\* Under the policy that was found before, the targets are there or not as before.
LEMMA SameTargetsKnown ==
  ASSUME NEW c, SamePolicy(c), NEW n \in Targets(c)
  PROVE  Known(config, n) = Known(seen[c], n)
<1>1. PreChange(c, config, n) = PreChange(c, seen[c], n)
  BY DEF SamePolicy
<1>2. PreChange(c, config, n).exists = PreChange(c, seen[c], n).exists
  BY <1>1
<1>3. /\ PreChange(c, config, n).exists = Known(config, n)
      /\ PreChange(c, seen[c], n).exists = Known(seen[c], n)
  BY PreChangeFields
<1> QED
  BY <1>2, <1>3, Zenon

\* Under the policy that was found before, who was authorized is.
LEMMA SameAuthorized ==
  ASSUME NEW c, SamePolicy(c), Authorized(c, seen[c])
  PROVE  Authorized(c, config)
BY Zenon DEF SamePolicy, Authorized

\* What a valid command writes holds contexts.
LEMMA WantedItems ==
  ASSUME request \in Calls, NEW c \in Commands, Transactional(c),
         IsStore(config), Possible(c, seen[c]), StillValid(c)
  PROVE  DOMAIN Wanted(c) = Targets(c) /\ \A n \in Targets(c) : Wanted(c)[n] \in Item
<1>1. DOMAIN Wanted(c) = Targets(c)
  BY DEF Wanted
<1>2. ASSUME NEW n \in Targets(c), request[c].kind # "migrate"
      PROVE  Wanted(c)[n] \in Item
  <2>1. Wanted(c)[n] = request[c].items[n]
    BY <1>2 DEF Wanted
  <2> QED
    BY <2>1, CallFacts
<1>3. ASSUME NEW n \in Targets(c), request[c].kind = "migrate"
      PROVE  Wanted(c)[n] \in Item
  <2>1. Known(seen[c], n)
    BY <1>3 DEF Possible
  <2>2. Known(config, n)
    BY <2>1, SameTargetsKnown DEF StillValid
  <2>3. seen[c].contexts[n] = config.contexts[n]
    BY <1>3 DEF StillValid
  <2> DEFINE it == config.contexts[n]
             new == request[c].items[n]
             ref == [k \in Kinds |-> IF it.ref[k] = "literal" THEN new.ref[k] ELSE it.ref[k]]
  <2>4. it \in Item /\ new \in Item
    BY <2>2, CallFacts DEF IsStore, Known
  <2>5. ref \in [Kinds -> Slots \cup {"none", "literal"}]
    BY <2>4 DEF Item
  <2>6. Wanted(c)[n] = [it EXCEPT !.ref = ref]
    BY <1>3, <2>3 DEF Wanted
  <2> HIDE DEF it, new, ref
  <2>7. [it EXCEPT !.ref = ref] \in Item
    BY <2>4, <2>5 DEF Item
  <2> QED
    BY <2>6, <2>7
<1> QED
  BY <1>1, <1>2, <1>3

\* Whatever a valid command makes of a store is a store.
LEMMA ChangedIsStore ==
  ASSUME request \in Calls, NEW c \in Commands,
         IsStore(config), Possible(c, seen[c]), StillValid(c)
  PROVE  IsStore(Changed(c))
<1>0. /\ request[c].kind \in CommandKinds
      /\ Target(c) \in Targets(c)
      /\ \A n \in Targets(c) : request[c].items[n] \in Item /\ n # NoName
  BY CallFacts
<1>1. CASE Transactional(c)
  <2>1. \A n \in DOMAIN Wanted(c) : Wanted(c)[n] \in Item
    BY <1>1, WantedItems
  <2>2. Unshared(Replaced(config, Wanted(c)))
    BY <1>1 DEF StillValid
  <2>3. IsStore(Replaced(config, Wanted(c)))
    BY <2>1, <2>2, ReplacedIsStore
  <2>4. Changed(c) = Replaced(config, Wanted(c))
    BY <1>1 DEF Changed, Transactional
  <2> QED
    BY <2>3, <2>4
<1>2. CASE request[c].kind = "use"
  <2>1. Changed(c) = [config EXCEPT !.current = Target(c)]
    BY <1>2 DEF Changed, Transactional
  <2>2. Changed(c) = [contexts |-> config.contexts, current |-> Target(c)]
    BY <2>1 DEF IsStore
  <2>3. Changed(c).contexts = config.contexts /\ Changed(c).current = Target(c)
    BY <2>2
  <2>4. Known(config, Target(c))
    BY <1>2 DEF StillValid, PolicyFound
  <2>5. Unshared(Changed(c))
    <3>1. \A s \in Slots : Owners(Changed(c), s) = Owners(config, s)
      BY <2>3 DEF Owners
    <3> QED
      BY <3>1 DEF IsStore, Unshared
  <2> QED
    BY <2>2, <2>3, <2>4, <2>5 DEF IsStore, Known
<1>3. CASE request[c].kind = "delete"
  <2>1. Changed(c) = Deleted(config, Target(c))
    BY <1>3 DEF Changed, Transactional
  <2> QED
    BY <2>1, DeletedIsStore
<1>4. CASE request[c].kind = "role"
  <2> DEFINE p == request[c].items[Target(c)].policy
  <2>1. Changed(c) = [config EXCEPT !.contexts[Target(c)].policy = p]
    BY <1>4 DEF Changed, Transactional
  <2>2. p \in Policies
    BY <1>0 DEF Item
  <2>3. Target(c) \in DOMAIN config.contexts
    BY <1>4 DEF StillValid, Known
  <2> HIDE DEF p
  <2> QED
    BY <2>1, <2>2, <2>3, RepolicedIsStore
<1> QED
  BY <1>0, <1>1, <1>2, <1>3, <1>4 DEF CommandKinds, Transactional

-----------------------------------------------------------------------------
\* The checks of a command look at the store, at what it was called with and at
\* what it had loaded.
LEMMA ChecksStay ==
  ASSUME NEW d, request' = request, seen'[d] = seen[d]
  PROVE  /\ Possible(d, seen[d])' <=> Possible(d, seen[d])
         /\ Authorized(d, seen[d])' <=> Authorized(d, seen[d])
         /\ config' = config => (StillValid(d)' <=> StillValid(d))
<1>1. /\ Targets(d)' = Targets(d) /\ Target(d)' = Target(d)
      /\ Transactional(d)' <=> Transactional(d)
      /\ Wanted(d)' = Wanted(d)
  BY DEF Targets, Target, Transactional, Wanted
<1>2. Possible(d, seen[d])' <=> Possible(d, seen[d])
  BY <1>1 DEF Possible, PolicyFound, Known
<1>3. Authorized(d, seen[d])' <=> Authorized(d, seen[d])
  BY <1>1 DEF Authorized, PreChange, PolicyOf, Known
<1>4. ASSUME config' = config
      PROVE  StillValid(d)' <=> StillValid(d)
  <2>1. PolicyFound(d, config)' <=> PolicyFound(d, config)
    BY <1>1, <1>4 DEF PolicyFound, Known
  <2>2. SamePolicy(d)' <=> SamePolicy(d)
    BY <1>1, <1>4 DEF SamePolicy, PreChange, PolicyOf, Known
  <2>3. Unshared(Replaced(config, Wanted(d)))' <=> Unshared(Replaced(config, Wanted(d)))
    BY <1>1, <1>4 DEF Unshared, Owners, Replaced
  <2> QED
    BY <1>1, <1>4, <2>1, <2>2, <2>3 DEF StillValid, Known
<1> QED
  BY <1>2, <1>3, <1>4

\* Init establishes the invariant.
LEMMA StoreInvInit == Init => StoreInv
<1> SUFFICES ASSUME Init PROVE StoreInv
  OBVIOUS
<1>1. request \in Calls /\ pc \in [Commands -> Labels] /\ DOMAIN seen = Commands
  BY DEF Init, Labels
<1>2. IsStore(config)
  BY CallAssumption DEF Init
<1>3. \A c \in Commands : pc[c] = "start"
  BY DEF Init
<1> QED
  BY <1>1, <1>2, <1>3 DEF StoreInv, LockHeld, LoadedWell, ValidUnderLock

Critical == {"store", "plan", "undo", "undoBroken"}

\* A step of one command: it leaves the places of the others, it touches the
\* lock only when nobody or itself has it, and it writes the store only at the
\* end of its own Update.
LEMMA StepOfOne ==
  ASSUME NEW c \in Commands, Step(c) \/ Crash(c) \/ Reclaim(c), StoreInv
  PROVE  /\ request' = request
         /\ pc' \in [Commands -> Labels] /\ DOMAIN seen' = Commands
         /\ \A d \in Commands \ {c} : pc'[d] = pc[d] /\ seen'[d] = seen[d]
         /\ lock # NoOne /\ lock # c => lock' = lock
         /\ pc'[c] \in Critical => lock' = c
         /\ config' # config => pc[c] = "store" /\ config' = Changed(c)
         /\ pc'[c] = "store" => (pc[c] = "store" \/ (lock = NoOne /\ StillValid(c)))
                                  /\ config' = config /\ seen'[c] = seen[c]
         /\ pc'[c] = "store" => pc[c] \in {"ready", "store"}
         /\ pc'[c] = "ready" => Possible(c, config) /\ Authorized(c, config)
                                  /\ seen'[c] = config /\ pc[c] = "start"
<1> USE DEF Goto, Judge, Critical, Labels
<1>0. /\ pc \in [Commands -> Labels] /\ DOMAIN seen = Commands
      /\ pc[c] \in Critical => lock = c
  BY DEF StoreInv, LockHeld
<1>1. CASE LoadAndAuthorize(c)
  <2>1. /\ UNCHANGED <<config, lock, request>>
        /\ pc[c] = "start" /\ pc' \in {[pc EXCEPT ![c] = "ready"], [pc EXCEPT ![c] = "done"]}
        /\ pc'[c] = "ready" => Possible(c, config) /\ Authorized(c, config)
        /\ seen' = [seen EXCEPT ![c] = config]
    BY <1>0, <1>1 DEF LoadAndAuthorize
  <2>2. pc'[c] = "ready" => seen'[c] = config
    BY <1>0, <2>1, <1>1 DEF LoadAndAuthorize, StoreInv
  <2> QED
    BY <1>0, <2>1, <2>2
<1>2. CASE LockUnavailable(c)
  BY <1>0, <1>2, StoreAssumption DEF LockUnavailable
<1>3. CASE Enter(c)
  BY <1>0, <1>3, StoreAssumption DEF Enter
<1>4. CASE EnterRefused(c)
  BY <1>0, <1>4, StoreAssumption DEF EnterRefused
<1>5. CASE PutCredential(c)
  BY <1>0, <1>5, StoreAssumption DEF PutCredential
<1>6. CASE PutFails(c)
  BY <1>0, <1>6, StoreAssumption DEF PutFails
<1>7. CASE Commit(c)
  BY <1>0, <1>7, StoreAssumption DEF Commit, ReadyToCommit
<1>8. CASE CommitFails(c)
  BY <1>0, <1>8, StoreAssumption DEF CommitFails, ReadyToCommit
<1>9. CASE Reconcile(c)
  BY <1>0, <1>9, StoreAssumption DEF Reconcile
<1>10. CASE ReconcileFails(c)
  BY <1>0, <1>10, StoreAssumption DEF ReconcileFails
<1>11. CASE PlanUndo(c)
  BY <1>0, <1>11, StoreAssumption DEF PlanUndo
<1>12. CASE PlanRefused(c)
  BY <1>0, <1>12, StoreAssumption DEF PlanRefused, Released
<1>13. CASE Restore(c)
  BY <1>0, <1>13, StoreAssumption DEF Restore
<1>14. CASE RestoreFails(c)
  BY <1>0, <1>14, StoreAssumption DEF RestoreFails
<1>15. CASE FinishUndo(c)
  BY <1>0, <1>15, StoreAssumption DEF FinishUndo, Released
<1>16. CASE Crash(c)
  BY <1>0, <1>16, StoreAssumption DEF Crash
<1>17. CASE Reclaim(c)
  BY <1>0, <1>17, StoreAssumption DEF Reclaim, locals
<1> QED
  BY <1>1, <1>2, <1>3, <1>4, <1>5, <1>6, <1>7, <1>8, <1>9, <1>10, <1>11, <1>12,
     <1>13, <1>14, <1>15, <1>16, <1>17 DEF Step

\* A step of one command keeps the invariant.
LEMMA StoreInvStep ==
  ASSUME NEW c \in Commands, Step(c) \/ Crash(c) \/ Reclaim(c), StoreInv
  PROVE  StoreInv'
<1>0. /\ request' = request
      /\ pc' \in [Commands -> Labels] /\ DOMAIN seen' = Commands
      /\ \A d \in Commands \ {c} : pc'[d] = pc[d] /\ seen'[d] = seen[d]
      /\ lock # NoOne /\ lock # c => lock' = lock
      /\ pc'[c] \in Critical => lock' = c
      /\ config' # config => pc[c] = "store" /\ config' = Changed(c)
      /\ pc'[c] = "store" => (pc[c] = "store" \/ (lock = NoOne /\ StillValid(c)))
                               /\ config' = config /\ seen'[c] = seen[c]
      /\ pc'[c] = "store" => pc[c] \in {"ready", "store"}
      /\ pc'[c] = "ready" => Possible(c, config) /\ Authorized(c, config)
                               /\ seen'[c] = config /\ pc[c] = "start"
  BY StepOfOne, Zenon
<1>1. /\ request \in Calls /\ IsStore(config) /\ LockHeld /\ LoadedWell /\ ValidUnderLock
  BY DEF StoreInv
<1>2. request' \in Calls
  BY <1>0, <1>1
<1>3. IsStore(config)'
  <2>1. CASE config' = config
    BY <1>1, <2>1 DEF IsStore, Known, Unshared, Owners
  <2>2. CASE config' # config
    <3>1. pc[c] = "store" /\ config' = Changed(c)
      BY <1>0, <2>2
    <3>2. Possible(c, seen[c]) /\ StillValid(c)
      BY <1>1, <3>1 DEF LoadedWell, ValidUnderLock
    <3>3. IsStore(Changed(c))
      BY <1>1, <3>2, ChangedIsStore
    <3> QED
      BY <3>1, <3>3
  <2> QED
    BY <2>1, <2>2
<1>4. LockHeld'
  <2> SUFFICES ASSUME NEW d \in Commands, pc'[d] \in Critical
               PROVE  lock' = d
    BY DEF LockHeld, Critical
  <2>1. CASE d = c
    BY <1>0, <2>1
  <2>2. CASE d # c
    <3>1. pc[d] \in Critical
      BY <1>0, <2>2
    <3>2. lock = d
      BY <1>1, <3>1 DEF LockHeld, Critical
    <3> QED
      BY <1>0, <2>2, <3>2, StoreAssumption
  <2> QED
    BY <2>1, <2>2
<1>5. LoadedWell'
  <2> SUFFICES ASSUME NEW d \in Commands, pc'[d] \in {"ready", "store"}
               PROVE  Possible(d, seen[d])' /\ Authorized(d, seen[d])'
    BY DEF LoadedWell
  <2>1. CASE seen'[d] = seen[d] /\ pc[d] \in {"ready", "store"}
    BY <1>0, <1>1, <2>1, ChecksStay DEF LoadedWell
  <2>2. CASE d # c
    BY <1>0, <2>1, <2>2
  <2>3. CASE d = c /\ pc'[c] = "store"
    BY <1>0, <2>1, <2>3
  <2>4. CASE d = c /\ pc'[c] = "ready"
    <3>1. Possible(c, config) /\ Authorized(c, config) /\ seen'[c] = config
      BY <1>0, <2>4
    <3>2. /\ Possible(c, config) => Possible(c, seen[c])'
          /\ Authorized(c, config) => Authorized(c, seen[c])'
      BY <1>0, <3>1 DEF Possible, PolicyFound, Known, Authorized, PreChange, PolicyOf,
                        Targets, Target
    <3> QED
      BY <2>4, <3>1, <3>2
  <2> QED
    BY <2>2, <2>3, <2>4
<1>6. ValidUnderLock'
  <2> SUFFICES ASSUME NEW d \in Commands, pc'[d] = "store"
               PROVE  StillValid(d)'
    BY DEF ValidUnderLock
  <2>1. seen'[d] = seen[d]
    BY <1>0
  <2>2. config' = config
    <3>1. CASE d = c
      BY <1>0, <3>1
    <3>2. CASE d # c
      <4>1. pc[d] = "store"
        BY <1>0, <3>2
      <4>2. lock = d
        BY <1>1, <4>1 DEF LockHeld
      <4>3. pc[c] = "store" => lock = c
        BY <1>1 DEF LockHeld
      <4> QED
        BY <1>0, <3>2, <4>2, <4>3
    <3> QED
      BY <3>1, <3>2
  <2>3. StillValid(d)
    BY <1>0, <1>1 DEF ValidUnderLock
  <2> QED
    BY <1>0, <2>1, <2>2, <2>3, ChecksStay
<1> QED
  BY <1>0, <1>2, <1>3, <1>4, <1>5, <1>6 DEF StoreInv

\* Every step keeps the invariant.
LEMMA StoreInvNext == StoreInv /\ [Next]_vars => StoreInv'
<1> SUFFICES ASSUME StoreInv, [Next]_vars
             PROVE  StoreInv'
  OBVIOUS
<1>1. ASSUME NEW c \in Commands, Step(c) \/ Crash(c) \/ Reclaim(c)
      PROVE  StoreInv'
  BY <1>1, StoreInvStep
<1>2. CASE UNCHANGED vars
  <2>1. /\ request' = request /\ pc' = pc /\ seen' = seen /\ config' = config /\ lock' = lock
    BY <1>2 DEF vars, locals
  <2>2. \A d \in Commands :
          /\ Possible(d, seen[d])' <=> Possible(d, seen[d])
          /\ Authorized(d, seen[d])' <=> Authorized(d, seen[d])
          /\ StillValid(d)' <=> StillValid(d)
    BY <2>1, ChecksStay
  <2>3. IsStore(config)' <=> IsStore(config)
    BY <2>1 DEF IsStore, Known, Unshared, Owners
  <2> QED
    BY <2>1, <2>2, <2>3 DEF StoreInv, LockHeld, LoadedWell, ValidUnderLock
<1> QED
  BY <1>1, <1>2 DEF Next, Halt

-----------------------------------------------------------------------------
\* The lock holder's checks stay true until it has written the store
\* (mqgovctx.Update around the actions of cmd/context.go).
THEOREM StoreInvariant == Spec => []StoreInv
BY StoreInvInit, StoreInvNext, PTL DEF Spec

\* The current context exists and no two contexts share a credential slot,
\* whatever the commands, the order of their steps and their faults
\* (context.go:1407-1453, contextCredentialSlotOwners).
THEOREM StoreStaysSound == Spec => []StoreSound
<1>1. StoreInv => StoreSound
  BY DEF StoreInv, IsStore, StoreSound, CurrentExists, SlotsUnshared
<1> QED
  BY <1>1, StoreInvariant, PTL

\* Every change of the store is made under a policy its approvals satisfy at
\* that instant (context.go:500-560: the policy is compared under the lock).
THEOREM ApprovedAtTheWrite == Spec => ApprovedWhenMade
<1>1. StoreInv => \A c \in Commands : Changes(c) => Authorized(c, config)
  <2> SUFFICES ASSUME StoreInv, NEW c \in Commands, pc[c] = "store"
               PROVE  Authorized(c, config)
    BY DEF Changes
  <2>1. Authorized(c, seen[c]) /\ SamePolicy(c)
    BY DEF StoreInv, LoadedWell, ValidUnderLock, StillValid
  <2> QED
    BY <2>1, SameAuthorized
<1>2. StoreInv => [\A c \in Commands : Changes(c) => Authorized(c, config)]_vars
  BY <1>1
<1> QED
  BY <1>2, StoreInvariant, PTL DEF ApprovedWhenMade

\* The store is written by the command that changes it, with what it wants.
LEMMA WrittenByHolder ==
  ASSUME StoreInv, [Next]_vars, NEW c \in Commands, Changes(c)
  PROVE  config' = Changed(c) /\ StillValid(c) /\ Possible(c, seen[c])
<1>1. pc[c] = "store" /\ config' # config
  BY DEF Changes
<1>2. StillValid(c) /\ Possible(c, seen[c]) /\ lock = c
  BY <1>1 DEF StoreInv, LockHeld, LoadedWell, ValidUnderLock
<1>3. PICK d \in Commands : Step(d) \/ Crash(d) \/ Reclaim(d)
  BY <1>1 DEF Next, Halt, vars
<1>4. pc[d] = "store" /\ config' = Changed(d)
  BY <1>1, <1>3, StepOfOne
<1>5. lock = d
  BY <1>4 DEF StoreInv, LockHeld
<1> QED
  BY <1>2, <1>4, <1>5

\* A migration writes the contexts it found, with other references.
LEMMA MigrationKeeps ==
  ASSUME NEW c \in Commands, IsStore(config), request[c].kind = "migrate",
         Possible(c, seen[c]), StillValid(c), config' = Changed(c)
  PROVE  KeepsItems(c)
<1>1. config' = Replaced(config, Wanted(c))
  BY DEF Changed, Transactional
<1>2. config = [contexts |-> config.contexts, current |-> config.current]
  BY DEF IsStore
<1> SUFFICES ASSUME NEW n \in Targets(c)
             PROVE  /\ config'.contexts[n].body = config.contexts[n].body
                    /\ config'.contexts[n].policy = config.contexts[n].policy
  BY DEF KeepsItems
<1>3. DOMAIN Wanted(c) = Targets(c)
  BY DEF Wanted
<1>4. Replaced(config, Wanted(c)).contexts[n] = Wanted(c)[n]
  BY <1>2, <1>3, ReplacedFields
<1>5. seen[c].contexts[n] = config.contexts[n]
  BY DEF StillValid
<1>6. /\ Wanted(c)[n].body = seen[c].contexts[n].body
      /\ Wanted(c)[n].policy = seen[c].contexts[n].policy
  <2>1. Known(config, n)
    BY SameTargetsKnown DEF Possible, StillValid
  <2>2. seen[c].contexts[n] \in Item
    BY <1>5, <2>1 DEF IsStore, Known
  <2> QED
    BY <2>2 DEF Wanted, Item
<1> QED
  BY <1>1, <1>4, <1>5, <1>6

\* Neither an import nor a migration loses what another command wrote between
\* its look and its write (context.go:1407-1453, 1800-1849).
THEOREM NothingIsClobbered == Spec => NothingClobbered
<1> DEFINE Safe(c) == /\ request[c].kind = "import" /\ ~request[c].force => AddsOnly(c)
                      /\ request[c].kind = "migrate" => KeepsItems(c)
<1>1. ASSUME StoreInv, [Next]_vars, NEW c \in Commands, Changes(c)
      PROVE  Safe(c)
  <2>1. config' = Changed(c) /\ StillValid(c) /\ Possible(c, seen[c])
    BY <1>1, WrittenByHolder
  <2>2. ASSUME request[c].kind = "import", ~request[c].force
        PROVE  AddsOnly(c)
    <3>1. \A n \in Targets(c) : ~Known(seen[c], n)
      BY <2>1, <2>2 DEF Possible
    <3>2. \A n \in Targets(c) : ~Known(config, n)
      BY <2>1, <3>1, SameTargetsKnown DEF StillValid
    <3> QED
      BY <3>2 DEF AddsOnly, Known
  <2>3. ASSUME request[c].kind = "migrate"
        PROVE  KeepsItems(c)
    BY <1>1, <2>1, <2>3, MigrationKeeps DEF StoreInv
  <2> QED
    BY <2>2, <2>3
<1>2. StoreInv /\ [Next]_vars => [\A c \in Commands : Changes(c) => Safe(c)]_vars
  BY <1>1
<1> QED
  BY <1>2, StoreInvariant, PTL DEF NothingClobbered, Spec

-----------------------------------------------------------------------------
(***************************************************************************)
(* Types.                                                                   *)
(***************************************************************************)

\* A change adds no names but those of its targets.
LEMMA ChangedNames ==
  ASSUME request \in Calls, NEW c \in Commands,
         IsStore(config), Possible(c, seen[c]), StillValid(c)
  PROVE  DOMAIN Changed(c).contexts \subseteq (DOMAIN config.contexts) \cup Targets(c)
<1>0. config = [contexts |-> config.contexts, current |-> config.current]
  BY DEF IsStore
<1>1. CASE Transactional(c)
  <2>1. Changed(c) = Replaced(config, Wanted(c)) /\ DOMAIN Wanted(c) = Targets(c)
    BY <1>1 DEF Changed, Transactional, Wanted
  <2>2. DOMAIN Replaced(config, Wanted(c)).contexts = (DOMAIN config.contexts) \cup DOMAIN Wanted(c)
    BY <1>0, ReplacedFields
  <2> QED
    BY <2>1, <2>2
<1>2. CASE request[c].kind = "use"
  <2>1. Changed(c) = [config EXCEPT !.current = Target(c)]
    BY <1>2 DEF Changed, Transactional
  <2>2. Changed(c) = [contexts |-> config.contexts, current |-> Target(c)]
    BY <1>0, <2>1
  <2> QED
    BY <2>2
<1>3. CASE request[c].kind = "delete"
  <2>1. Changed(c) = Deleted(config, Target(c))
    BY <1>3 DEF Changed, Transactional
  <2> DEFINE X == [m \in DOMAIN config.contexts \ {Target(c)} |-> config.contexts[m]]
             y == IF config.current = Target(c) THEN NoName ELSE config.current
  <2>2. Changed(c) = [contexts |-> X, current |-> y]
    BY <2>1 DEF Deleted
  <2>3. DOMAIN X \subseteq DOMAIN config.contexts
    OBVIOUS
  <2> HIDE DEF X, y
  <2> QED
    BY <2>2, <2>3
<1>4. CASE request[c].kind = "role"
  <2> DEFINE p == request[c].items[Target(c)].policy
             X == [config.contexts EXCEPT ![Target(c)].policy = p]
  <2>1. Changed(c) = [config EXCEPT !.contexts[Target(c)].policy = p]
    BY <1>4 DEF Changed, Transactional
  <2>2. Changed(c) = [contexts |-> X, current |-> config.current]
    BY <1>0, <2>1
  <2>3. DOMAIN X = DOMAIN config.contexts
    OBVIOUS
  <2> HIDE DEF X, p
  <2> QED
    BY <2>2, <2>3
<1>5. request[c].kind \in CommandKinds
  BY CallFacts
<1> QED
  BY <1>1, <1>2, <1>3, <1>4, <1>5 DEF CommandKinds, Transactional

LEMMA TypesInit == Init => TypeOK
<1> SUFFICES ASSUME Init PROVE TypeOK
  OBVIOUS
<1>1. IsStore(config) /\ DOMAIN config.contexts \subseteq Names
  BY CallAssumption DEF Init
<1>2. [secret |-> OldSecret, by |-> NoOne] \in Credential
  BY StoreAssumption DEF Credential
<1>3. creds \in [Slots -> Credential \cup {Absent}]
  BY <1>2 DEF Init
<1>4. \A c \in Commands : DOMAIN writes[c] = {} /\ undo[c] = {}
  <2>1. DOMAIN << >> = {}
    OBVIOUS
  <2>2. \A c \in Commands : writes[c] = << >> /\ undo[c] = {}
    BY DEF Init
  <2> QED
    BY <2>1, <2>2, Zenon
<1>5. /\ lock = NoOne /\ pc \in [Commands -> Labels] /\ verdict \in [Commands -> Verdicts]
      /\ DOMAIN writes = Commands /\ DOMAIN undo = Commands
  BY DEF Init, Labels, Verdicts
<1> QED
  BY <1>1, <1>3, <1>4, <1>5 DEF TypeOK, IsStore, Known

\* The record of writes after one more.
LEMMA RecordedTyped ==
  ASSUME TypeOK, request \in Calls, NEW c \in Commands, NEW i \in Left(c), NEW ok \in BOOLEAN,
         Recorded(c, i, ok)
  PROVE  /\ DOMAIN writes' = Commands
         /\ \A d \in Commands : \A j \in DOMAIN writes'[d] : writes'[d][j] \in Write
         /\ \A d \in Commands : DOMAIN writes[d] \subseteq DOMAIN writes'[d]
         /\ Stored(c, i) \in [Slots -> Credential \cup {Absent}]
<1> DEFINE w == request[c].puts[i]
           f == [j \in DOMAIN writes[c] \cup {i} |->
                   IF j = i THEN Tried(c, i, ok) ELSE writes[c][j]]
<1>1. /\ w.slot \in Slots /\ w.secret \in Secrets /\ w.owner \in Targets(c) \X Kinds
      /\ Targets(c) \subseteq Names
  BY CallFacts DEF PutsMatch, Left, Puts, Targets
<1>2. w.owner \in Names \X Kinds /\ creds[w.slot] \in Credential \cup {Absent}
  BY <1>1 DEF TypeOK
<1>3. Tried(c, i, ok) \in Write
  BY <1>1, <1>2 DEF Tried, Write
<1>4. writes' = [writes EXCEPT ![c] = f]
  BY DEF Recorded
<1>5. /\ DOMAIN f = DOMAIN writes[c] \cup {i}
      /\ \A j \in DOMAIN f : f[j] \in Write
  BY <1>3 DEF TypeOK
<1>6. [secret |-> w.secret, by |-> c] \in Credential
  BY <1>1 DEF Credential
<1>7. Stored(c, i) \in [Slots -> Credential \cup {Absent}]
  BY <1>1, <1>6 DEF Stored, TypeOK
<1> HIDE DEF f, w
<1> QED
  BY <1>4, <1>5, <1>7 DEF TypeOK

\* What is put back is what was there.
LEMMA RestoredTyped ==
  ASSUME TypeOK, NEW c \in Commands, NEW i \in undo[c]
  PROVE  Restored(c, i) \in [Slots -> Credential \cup {Absent}]
<1>1. writes[c][i] \in Write
  BY DEF TypeOK
<1>2. writes[c][i].slot \in Slots /\ writes[c][i].previous \in Credential \cup {Absent}
  BY <1>1 DEF Write
<1> QED
  BY <1>2 DEF Restored, TypeOK

LEMMA TypesStep ==
  ASSUME StoreInv, TypeOK, NEW c \in Commands, Step(c) \/ Crash(c) \/ Reclaim(c)
  PROVE  TypeOK'
<1> USE DEF Goto, Judge
<1>0. /\ request \in Calls /\ creds \in [Slots -> Credential \cup {Absent}]
      /\ lock \in Commands \cup {NoOne} /\ pc \in [Commands -> Labels]
      /\ verdict \in [Commands -> Verdicts]
      /\ DOMAIN writes = Commands /\ DOMAIN undo = Commands
      /\ \A d \in Commands : \A i \in DOMAIN writes[d] : writes[d][i] \in Write
      /\ \A d \in Commands : undo[d] \subseteq DOMAIN writes[d]
  BY DEF StoreInv, TypeOK
<1>1. /\ DOMAIN config'.contexts \subseteq Names
      /\ \A n \in DOMAIN config'.contexts : config'.contexts[n] \in Item
      /\ config'.current \in Names \cup {NoName}
  <2>1. IsStore(config)'
    BY StoreInvStep DEF StoreInv
  <2>2. DOMAIN config'.contexts \subseteq Names
    <3>1. CASE config' = config
      BY <3>1 DEF TypeOK
    <3>2. CASE config' # config
      <4>1. pc[c] = "store" /\ config' = Changed(c)
        BY <3>2, StepOfOne
      <4>2. Possible(c, seen[c]) /\ StillValid(c) /\ IsStore(config)
        BY <4>1 DEF StoreInv, LoadedWell, ValidUnderLock
      <4>3. DOMAIN Changed(c).contexts \subseteq (DOMAIN config.contexts) \cup Targets(c)
        BY <1>0, <4>2, ChangedNames
      <4>4. Targets(c) \subseteq Names
        BY <1>0, CallFacts
      <4> QED
        BY <4>1, <4>3, <4>4 DEF TypeOK
    <3> QED
      BY <3>1, <3>2
  <2> QED
    BY <2>1, <2>2 DEF IsStore, Known
<1>2. pc' \in [Commands -> Labels]
  BY StepOfOne, Zenon
<1> DEFINE Rest ==
             /\ creds' \in [Slots -> Credential \cup {Absent}]
             /\ lock' \in Commands \cup {NoOne}
             /\ verdict' \in [Commands -> Verdicts]
             /\ DOMAIN writes' = Commands /\ DOMAIN undo' = Commands
             /\ \A d \in Commands : \A i \in DOMAIN writes'[d] : writes'[d][i] \in Write
             /\ \A d \in Commands : undo'[d] \subseteq DOMAIN writes'[d]
<1>3. CASE \/ LoadAndAuthorize(c) \/ LockUnavailable(c) \/ Enter(c) \/ EnterRefused(c)
           \/ Crash(c) \/ Reclaim(c)
  <2>1. Rest
    BY <1>0, <1>3
       DEF LoadAndAuthorize, LockUnavailable, Enter, EnterRefused, Crash, Reclaim, locals,
           Verdicts
  <2> QED
    BY <1>1, <1>2, <2>1 DEF TypeOK
<1>4. CASE Commit(c) \/ CommitFails(c) \/ Reconcile(c) \/ ReconcileFails(c)
  <2>1. Rest
    BY <1>0, <1>4 DEF Commit, CommitFails, Reconcile, ReconcileFails, Verdicts
  <2> QED
    BY <1>1, <1>2, <2>1 DEF TypeOK
<1>5. CASE PlanUndo(c) \/ PlanRefused(c) \/ FinishUndo(c)
  <2>1. Rest
    BY <1>0, <1>5 DEF PlanUndo, PlanRefused, FinishUndo, Released, Verdicts
  <2> QED
    BY <1>1, <1>2, <2>1 DEF TypeOK
<1>6. CASE PutCredential(c) \/ PutFails(c)
  <2>1. CASE \E i \in Left(c), ok \in BOOLEAN :
               creds' \in {creds, Stored(c, i)} /\ Recorded(c, i, ok)
    <3>1. PICK i \in Left(c), ok \in BOOLEAN :
                 creds' \in {creds, Stored(c, i)} /\ Recorded(c, i, ok)
      BY <2>1
    <3>2. undo' = undo /\ lock' = lock /\ verdict' = verdict
      BY <1>6 DEF PutCredential, PutFails
    <3>3. Rest
      BY <1>0, <3>1, <3>2, RecordedTyped
    <3> QED
      BY <1>1, <1>2, <3>3 DEF TypeOK
  <2>2. CASE creds' = creds /\ writes' = writes
    <3>1. Rest
      BY <1>0, <1>6, <2>2 DEF PutCredential, PutFails
    <3> QED
      BY <1>1, <1>2, <3>1 DEF TypeOK
  <2> QED
    BY <1>6, <2>1, <2>2 DEF PutCredential, PutFails
<1>7. CASE Restore(c) \/ RestoreFails(c)
  <2>1. PICK i \in undo[c] : creds' \in {creds, Restored(c, i)} /\ Undone(c, i)
    BY <1>7 DEF Restore, RestoreFails
  <2>2. lock' = lock /\ verdict' = verdict /\ writes' = writes
    BY <1>7 DEF Restore, RestoreFails
  <2>3. Rest
    BY <1>0, <2>1, <2>2, RestoredTyped DEF Undone
  <2> QED
    BY <1>1, <1>2, <2>3 DEF TypeOK
<1> QED
  BY <1>3, <1>4, <1>5, <1>6, <1>7 DEF Step

\* The variables keep their types: a store, credentials with an author, and writes
\* with what they replaced.
THEOREM StoreTypeCorrect == Spec => []TypeOK
<1>1. StoreInv /\ TypeOK /\ [Next]_vars => TypeOK'
  <2> SUFFICES ASSUME StoreInv, TypeOK, [Next]_vars PROVE TypeOK'
    OBVIOUS
  <2>1. ASSUME NEW c \in Commands, Step(c) \/ Crash(c) \/ Reclaim(c) PROVE TypeOK'
    BY <2>1, TypesStep
  <2>2. CASE UNCHANGED vars
    BY <2>2 DEF vars, locals, TypeOK
  <2> QED
    BY <2>1, <2>2 DEF Next, Halt
<1> QED
  BY <1>1, TypesInit, StoreInvariant, PTL DEF Spec

-----------------------------------------------------------------------------
(***************************************************************************)
(* Credentials.  A value that a command wrote can be found in one place      *)
(* only, its slot or the record of the one write that replaced it; so a      *)
(* command that finds its values where it wrote them and takes them away     *)
(* leaves none.  That rests on values of one's own, on slots with one owner  *)
(* and on the lock.                                                         *)
(***************************************************************************)

\* What a command is called to put names slots of its own: two puts into one slot
\* would give it two owners, which the check under the lock excludes.
LEMMA OwnSlots ==
  ASSUME request \in Calls, NEW c \in Commands,
         IsStore(config), Possible(c, seen[c]), StillValid(c),
         NEW i \in Puts(c), NEW j \in Puts(c),
         request[c].puts[i].slot = request[c].puts[j].slot
  PROVE  i = j
<1>1. PutsMatch(request[c])
  BY CallFacts
<1>2. Transactional(c)
  BY <1>1 DEF PutsMatch, Transactional, Puts
<1> DEFINE new == Replaced(config, Wanted(c))
           s == request[c].puts[i].slot
<1>3. Unshared(new)
  BY <1>2 DEF StillValid
<1>4. DOMAIN Wanted(c) = Targets(c) /\ \A n \in Targets(c) : Wanted(c)[n] \in Item
  BY <1>2, WantedItems
<1>5. /\ DOMAIN new.contexts = DOMAIN config.contexts \cup Targets(c)
      /\ \A n \in Targets(c) : new.contexts[n] = Wanted(c)[n]
  <2>1. config = [contexts |-> config.contexts, current |-> config.current]
    BY DEF IsStore
  <2> QED
    BY <1>4, <2>1, ReplacedFields
<1>6. ASSUME NEW k \in Puts(c), request[c].puts[k].slot = s
      PROVE  request[c].puts[k].owner \in Owners(new, s)
  <2> DEFINE o == request[c].puts[k].owner
  <2>1. /\ o \in Targets(c) \X Kinds /\ request[c].items[o[1]].ref[o[2]] = s
    BY <1>1, <1>6 DEF PutsMatch, Puts, Targets
  <2>2. o[1] \in Targets(c) /\ o[2] \in Kinds /\ o = <<o[1], o[2]>>
    <3> HIDE DEF o
    <3> QED
      BY <2>1
  <2>3. Wanted(c)[o[1]].ref[o[2]] = s
    <3>1. CASE request[c].kind # "migrate"
      BY <2>1, <2>2, <3>1 DEF Wanted
    <3>2. CASE request[c].kind = "migrate"
      <4> DEFINE n == o[1]
                 it == seen[c].contexts[n]
                 ref == [k2 \in Kinds |-> IF it.ref[k2] = "literal"
                                            THEN request[c].items[n].ref[k2] ELSE it.ref[k2]]
      <4>1. it.ref[o[2]] = "literal"
        BY <1>6, <3>2 DEF Puts
      <4>2. ref[o[2]] = s
        BY <2>1, <2>2, <4>1
      <4>3. Wanted(c)[n] = [it EXCEPT !.ref = ref]
        BY <2>2, <3>2 DEF Wanted
      <4>4. it \in Item
        <5>1. Known(seen[c], n)
          BY <2>2, <3>2 DEF Possible
        <5>2. Known(config, n)
          BY <2>2, <5>1, SameTargetsKnown DEF StillValid
        <5>3. it = config.contexts[n]
          BY <2>2, <3>2 DEF StillValid
        <5> QED
          BY <5>2, <5>3 DEF IsStore, Known
      <4> HIDE DEF it, ref
      <4>5. Wanted(c)[n].ref = ref
        BY <4>3, <4>4 DEF Item
      <4> QED
        BY <4>2, <4>5
    <3> QED
      BY <3>1, <3>2
  <2> HIDE DEF new, o, s
  <2>4. new.contexts[o[1]].ref[o[2]] = s /\ o[1] \in DOMAIN new.contexts
    BY <1>5, <2>2, <2>3
  <2>5. o \in Owners(new, s)
    BY <2>2, <2>4 DEF Owners
  <2> QED
    BY <2>5 DEF o
<1>7. s \in Slots
  BY <1>1 DEF PutsMatch, Puts
<1>8. request[c].puts[i].owner = request[c].puts[j].owner
  <2> HIDE DEF new
  <2> QED
    BY <1>3, <1>6, <1>7 DEF Unshared
<1> QED
  BY <1>1, <1>8 DEF PutsMatch, Puts

\* A value that is in its slot as a command wrote it was written by the command.
LEMMA Identified ==
  ASSUME OwnValues, request \in Calls, WritesRecorded,
         NEW c \in Commands, NEW i \in DOMAIN writes[c],
         Accounted(creds[writes[c][i].slot], writes[c][i].slot),
         Restorable(writes[c][i])
  PROVE  Wrote(creds[writes[c][i].slot], c)
<1> DEFINE x == creds[writes[c][i].slot]
<1>1. x # Absent /\ x.secret = writes[c][i].written
  BY DEF Restorable
<1>2. i \in DOMAIN request[c].puts /\ writes[c][i].written = request[c].puts[i].secret
  BY DEF WritesRecorded, Puts
<1>3. request[c].puts[i].secret # OldSecret
  BY <1>2 DEF OwnValues
<1>4. /\ x \in Credential /\ (x.by = NoOne => x.secret = OldSecret)
      /\ x.by # NoOne => \E j \in DOMAIN writes[x.by] : writes[x.by][j].written = x.secret
  BY <1>1 DEF Accounted
<1> HIDE DEF x
<1>5. x.by \in Commands
  BY <1>1, <1>2, <1>3, <1>4 DEF Credential
<1>6. PICK j \in DOMAIN writes[x.by] : writes[x.by][j].written = x.secret
  BY <1>4, <1>5, StoreAssumption
<1>7. j \in DOMAIN request[x.by].puts /\ request[x.by].puts[j].secret = x.secret
  <2>1. j \in Puts(x.by) /\ writes[x.by][j].written = request[x.by].puts[j].secret
    BY <1>5, <1>6 DEF WritesRecorded
  <2> QED
    BY <1>6, <2>1 DEF Puts
<1>8. x.by = c
  BY <1>1, <1>2, <1>5, <1>7 DEF OwnValues
<1> QED
  BY <1>1, <1>8 DEF Wrote, x

\* A command's value is in a slot, or kept to be restored to it, only where the
\* command has a write on record.
LEMMA WroteThere ==
  ASSUME NEW x, NEW s, NEW c \in Commands, Accounted(x, s), Wrote(x, c)
  PROVE  \E i \in DOMAIN writes[c] : writes[c][i].slot = s /\ writes[c][i].written = x.secret
BY StoreAssumption DEF Accounted, Wrote

\* Who holds the lock is alone between the checks and the end.
LEMMA Alone ==
  ASSUME LockHeld, NEW c \in Commands, NEW d \in Commands,
         pc[c] \in Critical, pc[d] \in Critical
  PROVE  c = d
BY DEF LockHeld, Critical

\* The parts of the invariant that say of what type a variable is.
CredentialTypes ==
  /\ creds \in [Slots -> Credential \cup {Absent}]
  /\ DOMAIN writes = Commands /\ DOMAIN undo = Commands /\ DOMAIN verdict = Commands

-----------------------------------------------------------------------------
(***************************************************************************)
(* A write, which may have failed.                                          *)
(***************************************************************************)
PutMade(c, i, ok) ==
  LET s == request[c].puts[i].slot
      x == [secret |-> request[c].puts[i].secret, by |-> c]
  IN /\ pc[c] = "store" /\ lock = c /\ ok \in BOOLEAN
     /\ i \in Puts(c) /\ s \in Slots /\ x \in Credential
     /\ i \notin DOMAIN writes[c] /\ \A j \in DOMAIN writes[c] : writes[c][j].slot # s
     /\ request' = request /\ seen' = seen /\ undo' = undo /\ verdict' = verdict
     /\ DOMAIN writes' = Commands
     /\ \A d \in Commands \ {c} : writes'[d] = writes[d] /\ pc'[d] = pc[d]
     /\ DOMAIN writes'[c] = DOMAIN writes[c] \cup {i}
     /\ \A j \in DOMAIN writes[c] : writes'[c][j] = writes[c][j]
     /\ writes'[c][i] = Tried(c, i, ok)
     /\ creds' \in [Slots -> Credential \cup {Absent}]
     /\ \A t \in Slots \ {s} : creds'[t] = creds[t]
     /\ creds'[s] = x \/ (~ok /\ creds'[s] = creds[s])
     /\ pc'[c] = IF ok THEN "store" ELSE "plan"

LEMMA PutIsMade ==
  ASSUME StoreInv, CredentialInv, NEW c \in Commands,
         PutCredential(c) \/ (PutFails(c) /\ writes' # writes)
  PROVE  \E i \in Puts(c), ok \in BOOLEAN : PutMade(c, i, ok)
<1>1. /\ pc[c] = "store" /\ lock = c /\ request \in Calls /\ IsStore(config)
      /\ Possible(c, seen[c]) /\ StillValid(c) /\ pc \in [Commands -> Labels]
  <2>1. pc[c] = "store"
    BY DEF PutCredential, PutFails
  <2> QED
    BY <2>1 DEF StoreInv, LockHeld, LoadedWell, ValidUnderLock
<1>2. PICK i \in Left(c), ok \in BOOLEAN :
        /\ creds' = Stored(c, i) \/ (~ok /\ creds' = creds)
        /\ Recorded(c, i, ok)
        /\ pc' = [pc EXCEPT ![c] = IF ok THEN "store" ELSE "plan"]
        /\ request' = request /\ seen' = seen /\ undo' = undo /\ verdict' = verdict
  <2>1. CASE PutCredential(c)
    <3>1. pc' = [pc EXCEPT ![c] = "store"]
      BY <1>1, <2>1 DEF PutCredential
    <3> QED
      BY <2>1, <3>1 DEF PutCredential
  <2>2. CASE PutFails(c) /\ writes' # writes
    BY <2>2 DEF PutFails, Goto
  <2> QED
    BY <2>1, <2>2
<1>3. /\ i \in Puts(c) /\ i \in DOMAIN request[c].puts /\ i \notin DOMAIN writes[c]
  BY DEF Left, Puts
<1> DEFINE w == request[c].puts[i]
           s == w.slot
           x == [secret |-> w.secret, by |-> c]
<1>4. s \in Slots /\ w.secret \in Secrets
  BY <1>1, <1>3, CallFacts DEF PutsMatch
<1>5. x \in Credential
  BY <1>4 DEF Credential
<1>6. \A j \in DOMAIN writes[c] : writes[c][j].slot # s
  <2> SUFFICES ASSUME NEW j \in DOMAIN writes[c], writes[c][j].slot = s PROVE FALSE
    OBVIOUS
  <2>1. /\ j \in DOMAIN request[c].puts /\ request[c].puts[j].slot = s
        /\ j \in Puts(c)
    BY DEF CredentialInv, WritesRecorded, Puts
  <2>2. j = i
    BY <1>1, <1>3, <2>1, OwnSlots
  <2> QED
    BY <1>3, <2>2
<1>7. /\ DOMAIN writes' = Commands
      /\ \A d \in Commands \ {c} : writes'[d] = writes[d]
      /\ DOMAIN writes'[c] = DOMAIN writes[c] \cup {i}
      /\ \A j \in DOMAIN writes[c] : writes'[c][j] = writes[c][j]
      /\ writes'[c][i] = Tried(c, i, ok)
  <2>0. DOMAIN writes = Commands
    BY DEF CredentialInv
  <2> DEFINE f == [j \in DOMAIN writes[c] \cup {i} |->
                     IF j = i THEN Tried(c, i, ok) ELSE writes[c][j]]
  <2>1. writes' = [writes EXCEPT ![c] = f]
    BY <1>2 DEF Recorded
  <2>2. /\ DOMAIN f = DOMAIN writes[c] \cup {i} /\ f[i] = Tried(c, i, ok)
        /\ \A j \in DOMAIN writes[c] : f[j] = writes[c][j]
    BY <1>3
  <2> HIDE DEF f
  <2> QED
    BY <2>0, <2>1, <2>2
<1>8. /\ creds' \in [Slots -> Credential \cup {Absent}]
      /\ \A t \in Slots \ {s} : creds'[t] = creds[t]
      /\ creds'[s] = x \/ (~ok /\ creds'[s] = creds[s])
  <2>0. creds \in [Slots -> Credential \cup {Absent}]
    BY DEF CredentialInv
  <2>1. creds' = [creds EXCEPT ![s] = x] \/ (~ok /\ creds' = creds)
    BY <1>2 DEF Stored
  <2> HIDE DEF s, x, w
  <2> QED
    BY <1>4, <1>5, <2>0, <2>1 DEF s
<1>9. /\ pc'[c] = IF ok THEN "store" ELSE "plan"
      /\ \A d \in Commands \ {c} : pc'[d] = pc[d]
  BY <1>1, <1>2
<1>10. PutMade(c, i, ok)
  BY <1>1, <1>2, <1>3, <1>4, <1>5, <1>6, <1>7, <1>8, <1>9 DEF PutMade
<1> QED
  BY <1>3, <1>10

\* The record of writes grows, so who is accounted for stays so.
LEMMA StaysAccounted ==
  ASSUME NEW x, NEW s, Accounted(x, s), DOMAIN writes = Commands,
         \A d \in Commands :
           /\ DOMAIN writes[d] \subseteq DOMAIN writes'[d]
           /\ \A j \in DOMAIN writes[d] : writes'[d][j] = writes[d][j]
  PROVE  \/ x = Absent
         \/ /\ x \in Credential
            /\ x.by = NoOne => x.secret = OldSecret
            /\ x.by # NoOne => \E i \in DOMAIN writes'[x.by] :
                 writes'[x.by][i].slot = s /\ writes'[x.by][i].written = x.secret
<1> SUFFICES ASSUME x # Absent, x \in Credential, x.by # NoOne
             PROVE  \E i \in DOMAIN writes'[x.by] :
                      writes'[x.by][i].slot = s /\ writes'[x.by][i].written = x.secret
  BY DEF Accounted
<1>1. x.by \in Commands
  BY DEF Credential
<1>2. PICK i \in DOMAIN writes[x.by] :
        writes[x.by][i].slot = s /\ writes[x.by][i].written = x.secret
  BY DEF Accounted
<1> QED
  BY <1>1, <1>2

\* Before its write a command has no value at the slot, in it or kept for it.
LEMMA NoneBefore ==
  ASSUME AllAccounted, NEW c \in Commands, NEW i, NEW ok, PutMade(c, i, ok)
  PROVE  /\ ~Wrote(creds[request[c].puts[i].slot], c)
         /\ \A d \in Commands : \A j \in DOMAIN writes[d] :
              writes[d][j].slot = request[c].puts[i].slot => ~Wrote(writes[d][j].previous, c)
<1> DEFINE s == request[c].puts[i].slot
<1>1. s \in Slots /\ \A j \in DOMAIN writes[c] : writes[c][j].slot # s
  BY DEF PutMade
<1> HIDE DEF s
<1>2. ASSUME NEW x, Accounted(x, s) PROVE ~Wrote(x, c)
  BY <1>1, <1>2, WroteThere
<1>3. ~Wrote(creds[s], c)
  BY <1>1, <1>2 DEF AllAccounted
<1>4. ASSUME NEW d \in Commands, NEW j \in DOMAIN writes[d], writes[d][j].slot = s
      PROVE  ~Wrote(writes[d][j].previous, c)
  BY <1>2, <1>4 DEF AllAccounted
<1> QED
  BY <1>3, <1>4 DEF s

LEMMA PutRecorded ==
  ASSUME CredentialTypes, WritesRecorded, AllAccounted,
         NEW c \in Commands, NEW i, NEW ok, PutMade(c, i, ok)
  PROVE  WritesRecorded'
<1> SUFFICES ASSUME NEW d \in Commands
             PROVE  /\ pc'[d] \in {"start", "ready"} => DOMAIN writes'[d] = {}
                    /\ undo'[d] \subseteq DOMAIN writes'[d]
                    /\ \A j \in DOMAIN writes'[d] :
                         /\ j \in Puts(d)'
                         /\ writes'[d][j].slot \in Slots /\ writes'[d][j].put \in BOOLEAN
                         /\ writes'[d][j].slot = request'[d].puts[j].slot
                         /\ writes'[d][j].written = request'[d].puts[j].secret
                         /\ ~Wrote(writes'[d][j].previous, d)
                         /\ ~writes'[d][j].put => pc'[d] \notin {"store", "reconcile"}
                         /\ \A k \in DOMAIN writes'[d] :
                              writes'[d][k].slot = writes'[d][j].slot => k = j
  BY DEF WritesRecorded, Wrote
<1>0. /\ request' = request /\ seen' = seen /\ undo' = undo
      /\ Puts(d)' = Puts(d)
  BY DEF PutMade, Puts
<1>1. CASE d # c
  <2>1. pc'[d] = pc[d] /\ writes'[d] = writes[d]
    BY <1>1 DEF PutMade
  <2> QED
    BY <1>0, <2>1 DEF WritesRecorded
<1>2. CASE d = c
  <2>0. ~Wrote(creds[request[c].puts[i].slot], c)
    BY NoneBefore
  <2>1. /\ pc[c] = "store" /\ i \in Puts(c) /\ ok \in BOOLEAN
        /\ request[c].puts[i].slot \in Slots
        /\ DOMAIN writes'[c] = DOMAIN writes[c] \cup {i}
        /\ \A j \in DOMAIN writes[c] : writes'[c][j] = writes[c][j]
        /\ writes'[c][i] = Tried(c, i, ok)
        /\ \A j \in DOMAIN writes[c] : writes[c][j].slot # request[c].puts[i].slot
        /\ pc'[c] = IF ok THEN "store" ELSE "plan"
    BY DEF PutMade
  <2>2. /\ writes'[c][i].slot = request[c].puts[i].slot
        /\ writes'[c][i].written = request[c].puts[i].secret
        /\ writes'[c][i].put = ok
        /\ writes'[c][i].previous = creds[request[c].puts[i].slot]
    BY <2>1 DEF Tried
  <2>3. /\ pc'[c] \notin {"start", "ready"}
        /\ undo'[c] \subseteq DOMAIN writes'[c]
    BY <1>0, <2>1 DEF WritesRecorded
  <2>4. ASSUME NEW j \in DOMAIN writes'[c]
        PROVE  /\ j \in Puts(c)
               /\ writes'[c][j].slot \in Slots /\ writes'[c][j].put \in BOOLEAN
               /\ writes'[c][j].slot = request[c].puts[j].slot
               /\ writes'[c][j].written = request[c].puts[j].secret
               /\ ~Wrote(writes'[c][j].previous, c)
               /\ ~writes'[c][j].put => pc'[c] \notin {"store", "reconcile"}
               /\ \A k \in DOMAIN writes'[c] :
                    writes'[c][k].slot = writes'[c][j].slot => k = j
    <3>1. CASE j = i
      BY <2>0, <2>1, <2>2, <3>1
    <3>2. CASE j \in DOMAIN writes[c]
      BY <2>1, <2>2, <3>2 DEF WritesRecorded
    <3> QED
      BY <2>1, <3>1, <3>2
  <2> QED
    BY <1>0, <1>2, <2>3, <2>4
<1> QED
  BY <1>1, <1>2

LEMMA PutAccounted ==
  ASSUME CredentialTypes, WritesRecorded, AllAccounted,
         NEW c \in Commands, NEW i, NEW ok, PutMade(c, i, ok)
  PROVE  AllAccounted'
<1> DEFINE s == request[c].puts[i].slot
           x == [secret |-> request[c].puts[i].secret, by |-> c]
           Acc(y, t) == \/ y = Absent
                        \/ /\ y \in Credential
                           /\ y.by = NoOne => y.secret = OldSecret
                           /\ y.by # NoOne => \E j \in DOMAIN writes'[y.by] :
                                writes'[y.by][j].slot = t /\ writes'[y.by][j].written = y.secret
<1>1. /\ s \in Slots /\ x \in Credential
      /\ \A t \in Slots \ {s} : creds'[t] = creds[t]
      /\ creds'[s] = x \/ creds'[s] = creds[s]
      /\ DOMAIN writes'[c] = DOMAIN writes[c] \cup {i}
      /\ \A j \in DOMAIN writes[c] : writes'[c][j] = writes[c][j]
      /\ writes'[c][i] = Tried(c, i, ok)
      /\ \A d \in Commands \ {c} : writes'[d] = writes[d]
  BY DEF PutMade
<1>2. /\ writes'[c][i].slot = s /\ writes'[c][i].written = x.secret
      /\ writes'[c][i].previous = creds[s]
  BY <1>1 DEF Tried
<1>3. \A d \in Commands :
        /\ DOMAIN writes[d] \subseteq DOMAIN writes'[d]
        /\ \A j \in DOMAIN writes[d] : writes'[d][j] = writes[d][j]
  BY <1>1
<1>4. ASSUME NEW y, NEW t, Accounted(y, t) PROVE Acc(y, t)
  BY <1>3, <1>4, StaysAccounted DEF CredentialTypes
<1>5. Acc(x, s)
  <2>1. x.by = c /\ i \in DOMAIN writes'[c]
    BY <1>1
  <2> HIDE DEF x, s
  <2> QED
    BY <1>1, <1>2, <2>1, StoreAssumption
<1>6. ASSUME NEW t \in Slots PROVE Acc(creds'[t], t)
  <2>1. Acc(creds[t], t)
    BY <1>4 DEF AllAccounted
  <2> HIDE DEF Acc, x, s
  <2> QED
    BY <1>1, <1>5, <2>1
<1>7. ASSUME NEW d \in Commands, NEW j \in DOMAIN writes'[d]
      PROVE  Acc(writes'[d][j].previous, writes'[d][j].slot)
  <2>1. CASE d = c /\ j = i
    <3>1. Acc(creds[s], s)
      <4>1. Accounted(creds[s], s)
        BY <1>1 DEF AllAccounted
      <4> QED
        BY <4>1, <1>4, ZenonT(30)
    <3> HIDE DEF Acc, x, s
    <3> QED
      BY <1>2, <2>1, <3>1
  <2>2. CASE ~(d = c /\ j = i)
    <3>1. j \in DOMAIN writes[d] /\ writes'[d][j] = writes[d][j]
      BY <1>1, <2>2
    <3>2. Acc(writes[d][j].previous, writes[d][j].slot)
      BY <1>4, <3>1 DEF AllAccounted
    <3> HIDE DEF Acc, x, s
    <3> QED
      BY <3>1, <3>2
  <2> QED
    BY <2>1, <2>2
<1> QED
  BY <1>6, <1>7 DEF AllAccounted, Accounted

\* What may still be undone after a write: what could be before, and the write.
LEMMA PutPending ==
  ASSUME CredentialTypes, NEW c \in Commands, NEW i, NEW ok, PutMade(c, i, ok)
  PROVE  /\ \A d \in Commands \ {c} : Pending(d)' = Pending(d)
         /\ Pending(c) = DOMAIN writes[c] /\ Pending(c)' = DOMAIN writes[c] \cup {i}
<1>1. \A d \in Commands \ {c} : Pending(d)' = Pending(d)
  BY DEF PutMade, Pending
<1>2. Pending(c) = DOMAIN writes[c]
  BY DEF PutMade, Pending
<1>3. Pending(c)' = DOMAIN writes[c] \cup {i}
  BY DEF PutMade, Pending
<1> QED
  BY <1>1, <1>2, <1>3

LEMMA PutOnePlace ==
  ASSUME CredentialTypes, LockHeld, WritesRecorded, AllAccounted, OnePlaceEach,
         NEW c \in Commands, NEW i, NEW ok, PutMade(c, i, ok)
  PROVE  OnePlaceEach'
<1> DEFINE s == request[c].puts[i].slot
           New(d, j) == d = c /\ j = i
<1>0. /\ pc[c] = "store" /\ lock = c /\ ok \in BOOLEAN /\ i \notin DOMAIN writes[c]
      /\ \A j \in DOMAIN writes[c] : writes[c][j].slot # s
      /\ \A t \in Slots \ {s} : creds'[t] = creds[t]
      /\ creds'[s] = [secret |-> request[c].puts[i].secret, by |-> c]
           \/ (~ok /\ creds'[s] = creds[s])
      /\ writes'[c][i].slot = s /\ writes'[c][i].previous = creds[s]
      /\ writes'[c][i].put = ok
      /\ \A d \in Commands : \A j \in DOMAIN writes[d] : writes'[d][j] = writes[d][j]
      /\ \A d \in Commands \ {c} : pc'[d] = pc[d]
      /\ pc'[c] = IF ok THEN "store" ELSE "plan"
  BY DEF PutMade, Tried
<1>1. ~Wrote(creds[s], c)
  BY NoneBefore
<1>2. \A d \in Commands : \A j \in DOMAIN writes[d] :
        writes[d][j].slot = s => ~Wrote(writes[d][j].previous, c)
  BY NoneBefore
<1>3. \A d \in Commands : \A j \in Pending(d)' :
        New(d, j) \/ (~New(d, j) /\ j \in Pending(d) /\ j \in DOMAIN writes[d])
  <2>1. \A d \in Commands : Pending(d) \subseteq DOMAIN writes[d]
    BY DEF Pending, WritesRecorded
  <2> QED
    BY <1>0, <2>1, PutPending
<1> HIDE DEF s
<1>4. ASSUME NEW d \in Commands, NEW j \in Pending(d), NEW cc \in Commands,
             writes[d][j].slot = s, Wrote(writes[d][j].previous, cc),
             j \in DOMAIN writes[d]
      PROVE  ~Wrote(creds[s], cc)
  <2> SUFFICES ASSUME Wrote(creds[s], cc) PROVE FALSE
    OBVIOUS
  <2>1. pc[d] = "plan"
    BY <1>4 DEF OnePlaceEach
  <2>2. lock = d /\ d # c
    BY <1>0, <2>1 DEF LockHeld
  <2> QED
    BY <1>0, <2>2
<1>5. ASSUME NEW d \in Commands, NEW j \in Pending(d)', NEW cc \in Commands,
             Wrote(writes'[d][j].previous, cc), Wrote(creds'[writes'[d][j].slot], cc)
      PROVE  pc'[d] = "plan" /\ ~writes'[d][j].put
  <2>1. CASE New(d, j)
    <3>1. cc # c
      BY <1>0, <1>1, <1>5, <2>1
    <3>2. creds'[s] = creds[s] /\ ~ok
      BY <1>0, <1>5, <2>1, <3>1 DEF Wrote
    <3> QED
      BY <1>0, <2>1, <3>2
  <2>2. CASE ~New(d, j)
    <3>1. j \in Pending(d) /\ j \in DOMAIN writes[d] /\ writes'[d][j] = writes[d][j]
      BY <1>0, <1>3, <2>2
    <3>2. writes[d][j].slot \in Slots
      BY <3>1 DEF WritesRecorded
    <3>3. CASE creds'[writes[d][j].slot] = creds[writes[d][j].slot]
      <4>1. pc[d] = "plan" /\ ~writes[d][j].put
        BY <1>5, <3>1, <3>3 DEF OnePlaceEach
      <4>2. d # c
        BY <1>0, <4>1
      <4> QED
        BY <1>0, <3>1, <4>1, <4>2
    <3>4. CASE creds'[writes[d][j].slot] # creds[writes[d][j].slot]
      <4>1. writes[d][j].slot = s /\ creds'[s].by = c
        BY <1>0, <3>2, <3>4
      <4>2. cc = c
        BY <1>5, <3>1, <4>1 DEF Wrote
      <4> QED
        BY <1>2, <1>5, <3>1, <4>1, <4>2
    <3> QED
      BY <3>3, <3>4
  <2> QED
    BY <2>1, <2>2
<1>6. ASSUME NEW d \in Commands, NEW j \in Pending(d)', NEW cc \in Commands,
             Wrote(writes'[d][j].previous, cc),
             NEW e \in Commands, NEW k \in Pending(e)',
             writes'[e][k].slot = writes'[d][j].slot, Wrote(writes'[e][k].previous, cc)
      PROVE  e = d /\ k = j
  <2>1. CASE New(d, j) /\ New(e, k)
    BY <2>1
  <2>2. CASE New(d, j) /\ ~New(e, k)
    BY <1>0, <1>3, <1>4, <1>6, <2>2
  <2>3. CASE ~New(d, j) /\ New(e, k)
    BY <1>0, <1>3, <1>4, <1>6, <2>3
  <2>4. CASE ~New(d, j) /\ ~New(e, k)
    <3>1. /\ j \in Pending(d) /\ writes'[d][j] = writes[d][j]
          /\ k \in Pending(e) /\ writes'[e][k] = writes[e][k]
      BY <1>0, <1>3, <2>4
    <3> QED
      BY <1>6, <3>1 DEF OnePlaceEach
  <2> QED
    BY <2>1, <2>2, <2>3, <2>4
<1>7. \A d \in Commands : \A j \in Pending(d)' : \A cc \in Commands :
        Wrote(writes'[d][j].previous, cc) =>
          /\ Wrote(creds'[writes'[d][j].slot], cc) => pc'[d] = "plan" /\ ~writes'[d][j].put
          /\ \A e \in Commands : \A k \in Pending(e)' :
               writes'[e][k].slot = writes'[d][j].slot /\ Wrote(writes'[e][k].previous, cc)
                 => e = d /\ k = j
  BY <1>5, <1>6
<1> QED
  BY <1>7 DEF OnePlaceEach, Wrote

LEMMA PutUnseen ==
  ASSUME CredentialTypes, LockHeld, WritesRecorded, AllAccounted,
         UndoExact, FailedUnseen, FailedGone,
         NEW c \in Commands, NEW i, NEW ok, PutMade(c, i, ok)
  PROVE  FailedUnseen' /\ UndoExact' /\ FailedGone'
<1> DEFINE s == request[c].puts[i].slot
<1>0. /\ pc[c] = "store" /\ lock = c /\ ok \in BOOLEAN /\ i \notin DOMAIN writes[c]
      /\ \A t \in Slots \ {s} : creds'[t] = creds[t]
      /\ creds'[s] = [secret |-> request[c].puts[i].secret, by |-> c]
           \/ (~ok /\ creds'[s] = creds[s])
      /\ s \in Slots
      /\ writes'[c][i].slot = s /\ writes'[c][i].previous = creds[s]
      /\ \A d \in Commands : \A j \in DOMAIN writes[d] : writes'[d][j] = writes[d][j]
      /\ \A d \in Commands \ {c} : pc'[d] = pc[d] /\ writes'[d] = writes[d]
      /\ DOMAIN writes'[c] = DOMAIN writes[c] \cup {i}
      /\ pc'[c] = IF ok THEN "store" ELSE "plan"
      /\ request' = request /\ verdict' = verdict
  BY DEF PutMade, Tried
<1>1. ~Wrote(creds[s], c)
  BY NoneBefore
<1>2. \A d \in Commands : \A j \in DOMAIN writes[d] :
        writes[d][j].slot = s => ~Wrote(writes[d][j].previous, c)
  BY NoneBefore
<1>3. \A d \in Commands : \A j \in Pending(d)' :
        (d = c /\ j = i) \/ (j \in Pending(d) /\ j \in DOMAIN writes[d])
  <2>1. \A d \in Commands : Pending(d) \subseteq DOMAIN writes[d]
    BY DEF Pending, WritesRecorded
  <2> QED
    BY <1>0, <2>1, PutPending
<1>4. \A d \in Commands : pc'[d] \in {"plan", "undo", "undoBroken"} => d = c /\ pc'[c] = "plan"
  BY <1>0 DEF LockHeld
<1> HIDE DEF s
<1>5. FailedUnseen'
  <2> SUFFICES ASSUME NEW d \in Commands, pc'[d] = "plan",
                      NEW j \in DOMAIN writes'[d], ~writes'[d][j].put,
                      NEW e \in Commands, NEW k \in Pending(e)',
                      writes'[e][k].slot = writes'[d][j].slot
               PROVE  ~Wrote(writes'[e][k].previous, d)
    BY DEF FailedUnseen, NotKept, Wrote
  <2>1. d = c
    BY <1>4
  <2>2. j = i
    <3>1. ASSUME j \in DOMAIN writes[c] PROVE FALSE
      <4>1. writes[c][j].put
        BY <1>0, <3>1 DEF WritesRecorded
      <4> QED
        BY <1>0, <2>1, <3>1, <4>1
    <3> QED
      BY <1>0, <2>1, <3>1
  <2> QED
    BY <1>0, <1>1, <1>2, <1>3, <2>1, <2>2
<1>6. UndoExact'
  BY <1>4 DEF UndoExact
<1>7. FailedGone'
  <2> SUFFICES ASSUME NEW d \in Commands
               PROVE  /\ verdict'[d] # "none" => pc'[d] = "done"
                      /\ Transactional(d)' /\ verdict'[d] = "failed" =>
                           \A t \in Slots : ~Wrote(creds'[t], d) /\ NotKept(d, t)'
    BY DEF FailedGone, Wrote
  <2>1. verdict'[d] # "none" => d # c /\ pc'[d] = "done"
    BY <1>0 DEF FailedGone
  <2>2. ASSUME Transactional(d)', verdict'[d] = "failed", NEW t \in Slots
        PROVE  ~Wrote(creds'[t], d) /\ NotKept(d, t)'
    <3>1. d # c /\ ~Wrote(creds[t], d) /\ NotKept(d, t) /\ ~Wrote(creds[s], d)
      BY <1>0, <2>1, <2>2 DEF FailedGone, Transactional
    <3>2. ~Wrote(creds'[t], d)
      BY <1>0, <3>1 DEF Wrote
    <3>3. \A e \in Commands : \A k \in Pending(e)' :
            writes'[e][k].slot = t => ~Wrote(writes'[e][k].previous, d)
      BY <1>0, <1>3, <3>1 DEF NotKept
    <3> QED
      BY <3>2, <3>3 DEF NotKept, Wrote
  <2> QED
    BY <2>1, <2>2
<1> QED
  BY <1>5, <1>6, <1>7

\* A write keeps the invariant.
LEMMA PutKeeps ==
  ASSUME StoreInv, CredentialInv, NEW c \in Commands, NEW i, NEW ok, PutMade(c, i, ok)
  PROVE  CredentialInv'
<1>1. /\ CredentialTypes /\ LockHeld /\ WritesRecorded /\ AllAccounted /\ OnePlaceEach
      /\ FailedUnseen /\ UndoExact /\ FailedGone
  BY DEF CredentialInv, CredentialTypes, StoreInv
<1>2. WritesRecorded'
  BY <1>1, PutRecorded
<1>3. AllAccounted'
  BY <1>1, PutAccounted
<1>4. OnePlaceEach'
  BY <1>1, PutOnePlace
<1>5. FailedUnseen' /\ UndoExact' /\ FailedGone'
  BY <1>1, PutUnseen
<1>6. /\ creds' \in [Slots -> Credential \cup {Absent}]
      /\ DOMAIN writes' = Commands /\ DOMAIN undo' = Commands /\ DOMAIN verdict' = Commands
  BY <1>1 DEF PutMade, CredentialTypes
<1> QED
  BY <1>2, <1>3, <1>4, <1>5, <1>6 DEF CredentialInv

-----------------------------------------------------------------------------
(***************************************************************************)
(* The plan of a compensation.                                              *)
(***************************************************************************)

\* A value of a command that finds all it wrote undoable is kept by nobody.
LEMMA PlannedAlone ==
  ASSUME OwnValues, StoreInv, CredentialInv, NEW c \in Commands, pc[c] = "plan",
         Undoable(c), NEW s \in Slots
  PROVE  NotKept(c, s)
<1> SUFFICES ASSUME NEW d \in Commands, NEW j \in Pending(d), writes[d][j].slot = s,
                    Wrote(writes[d][j].previous, c)
             PROVE  FALSE
  BY DEF NotKept
<1>1. j \in DOMAIN writes[d]
  BY DEF Pending, CredentialInv, WritesRecorded
<1>2. Accounted(writes[d][j].previous, s)
  BY <1>1 DEF CredentialInv, AllAccounted
<1>3. PICK i \in DOMAIN writes[c] : writes[c][i].slot = s
  BY <1>2, WroteThere
<1>4. d # c
  BY <1>1 DEF CredentialInv, WritesRecorded
<1>5. Restorable(writes[c][i]) \/ Untouched(writes[c][i])
  BY <1>3 DEF Undoable
<1>6. CASE Restorable(writes[c][i])
  <2>1. Accounted(creds[s], s) /\ WritesRecorded /\ request \in Calls
    BY DEF CredentialInv, AllAccounted, StoreInv
  <2>2. Wrote(creds[s], c)
    BY <1>3, <1>6, <2>1, Identified
  <2>3. pc[d] = "plan"
    BY <2>2 DEF CredentialInv, OnePlaceEach
  <2> QED
    BY <1>4, <2>3, Alone DEF StoreInv, Critical
<1>7. CASE Untouched(writes[c][i])
  <2>1. ~writes[c][i].put
    BY <1>7 DEF Untouched
  <2> QED
    BY <1>3, <2>1 DEF CredentialInv, FailedUnseen, NotKept
<1> QED
  BY <1>5, <1>6, <1>7

LEMMA PlanKeeps ==
  ASSUME OwnValues, StoreInv, CredentialInv, NEW c \in Commands, PlanUndo(c)
  PROVE  CredentialInv'
<1>0. /\ pc[c] = "plan" /\ Undoable(c) /\ request' = request /\ seen' = seen
      /\ creds' = creds /\ writes' = writes /\ verdict' = verdict
      /\ pc'[c] = "undo" /\ \A d \in Commands \ {c} : pc'[d] = pc[d] /\ undo'[d] = undo[d]
      /\ DOMAIN undo' = Commands
      /\ undo'[c] = {i \in DOMAIN writes[c] : Restorable(writes[c][i])}
  BY DEF PlanUndo, Goto, StoreInv, CredentialInv
<1>1. /\ WritesRecorded /\ AllAccounted /\ OnePlaceEach /\ FailedUnseen /\ UndoExact
      /\ FailedGone /\ LockHeld /\ request \in Calls
  BY DEF CredentialInv, StoreInv
<1>2. \A d \in Commands : Puts(d)' = Puts(d) /\ (Transactional(d)' <=> Transactional(d))
  BY <1>0 DEF Puts, Transactional
<1>3. \A d \in Commands : Pending(d)' \subseteq Pending(d)
  <2>1. Pending(c) = DOMAIN writes[c] /\ Pending(c)' = undo'[c]
    BY <1>0 DEF Pending
  <2>2. \A d \in Commands \ {c} : Pending(d)' = Pending(d)
    BY <1>0 DEF Pending
  <2> QED
    BY <1>0, <2>1, <2>2
<1>4. \A d \in Commands, s \in Slots : NotKept(d, s) => NotKept(d, s)'
  BY <1>0, <1>3 DEF NotKept, Wrote
<1>5. \A d \in Commands \ {c} : pc[d] \notin Critical
  BY <1>0, <1>1, Alone DEF Critical
<1>6. ASSUME NEW i \in DOMAIN writes[c]
      PROVE  i \in undo'[c] <=> Wrote(creds[writes[c][i].slot], c)
  <2> DEFINE s == writes[c][i].slot
  <2>1. Accounted(creds[s], s)
    BY <1>1 DEF WritesRecorded, AllAccounted
  <2>2. i \in undo'[c] => Wrote(creds[s], c)
    BY <1>0, <1>1, <2>1, Identified
  <2>3. ASSUME Wrote(creds[s], c) PROVE i \in undo'[c]
    <3>1. PICK j \in DOMAIN writes[c] :
            writes[c][j].slot = s /\ writes[c][j].written = creds[s].secret
      BY <2>1, <2>3, WroteThere
    <3>2. j = i
      BY <1>1, <3>1 DEF WritesRecorded
    <3>3. Restorable(writes[c][i])
      BY <2>3, <3>1, <3>2 DEF Restorable, Wrote
    <3> QED
      BY <1>0, <3>3
  <2> QED
    BY <2>2, <2>3
<1>7. WritesRecorded'
  BY <1>0, <1>1, <1>2 DEF WritesRecorded, Wrote
<1>8. AllAccounted'
  BY <1>0, <1>1 DEF AllAccounted, Accounted
<1>9. OnePlaceEach'
  <2> SUFFICES ASSUME NEW d \in Commands, NEW i \in Pending(d)', NEW cc \in Commands,
                      Wrote(writes[d][i].previous, cc)
               PROVE  /\ Wrote(creds[writes[d][i].slot], cc) =>
                           pc'[d] = "plan" /\ ~writes[d][i].put
                      /\ \A e \in Commands : \A j \in Pending(e)' :
                           writes[e][j].slot = writes[d][i].slot
                             /\ Wrote(writes[e][j].previous, cc) => e = d /\ j = i
    BY <1>0 DEF OnePlaceEach, Wrote
  <2>1. ASSUME Wrote(creds[writes[d][i].slot], cc)
        PROVE  pc'[d] = "plan" /\ ~writes[d][i].put
    <3>1. CASE d = c
      <4>1. i \in DOMAIN writes[c] /\ i \in undo'[c]
        BY <1>0, <3>1 DEF Pending
      <4>2. cc = c
        BY <1>6, <2>1, <3>1, <4>1 DEF Wrote
      <4> QED
        BY <1>1, <3>1, <4>1, <4>2 DEF WritesRecorded
    <3>2. CASE d # c
      BY <1>0, <1>1, <1>3, <2>1, <3>2 DEF OnePlaceEach
    <3> QED
      BY <3>1, <3>2
  <2>2. \A e \in Commands : \A j \in Pending(e)' :
          writes[e][j].slot = writes[d][i].slot
            /\ Wrote(writes[e][j].previous, cc) => e = d /\ j = i
    BY <1>1, <1>3 DEF OnePlaceEach
  <2> QED
    BY <2>1, <2>2
<1>10. FailedUnseen'
  BY <1>0, <1>5 DEF FailedUnseen, Critical
<1>11. UndoExact'
  <2> SUFFICES ASSUME NEW d \in Commands, pc'[d] \in {"undo", "undoBroken"}
               PROVE  /\ \A i \in undo'[d] : Wrote(creds'[writes'[d][i].slot], d)
                      /\ pc'[d] = "undo" =>
                           /\ \A i \in DOMAIN writes'[d] \ undo'[d] :
                                ~Wrote(creds'[writes'[d][i].slot], d)
                           /\ \A s \in Slots : NotKept(d, s)'
    BY DEF UndoExact, Wrote
  <2>1. d = c
    BY <1>0, <1>5 DEF Critical
  <2>2. \A s \in Slots : NotKept(c, s)'
    BY <1>0, <1>4, PlannedAlone
  <2> QED
    BY <1>0, <1>6, <2>1, <2>2
<1>12. FailedGone'
  BY <1>0, <1>1, <1>2, <1>4 DEF FailedGone, Wrote
<1> QED
  BY <1>0, <1>7, <1>8, <1>9, <1>10, <1>11, <1>12 DEF CredentialInv

-----------------------------------------------------------------------------
(***************************************************************************)
(* One write is undone, or could not be.                                    *)
(***************************************************************************)
LEMMA RestoreKeeps ==
  ASSUME StoreInv, CredentialInv, NEW c \in Commands, Restore(c) \/ RestoreFails(c)
  PROVE  CredentialInv'
<1>1. /\ WritesRecorded /\ AllAccounted /\ OnePlaceEach /\ FailedUnseen /\ UndoExact
      /\ FailedGone /\ LockHeld
      /\ creds \in [Slots -> Credential \cup {Absent}]
      /\ DOMAIN writes = Commands /\ DOMAIN undo = Commands /\ DOMAIN verdict = Commands
      /\ pc \in [Commands -> Labels] /\ pc[c] \in {"undo", "undoBroken"}
  BY DEF CredentialInv, StoreInv, Restore, RestoreFails
<1>2. PICK i \in undo[c] :
        /\ creds' = Restored(c, i) \/ (creds' = creds /\ pc'[c] = "undoBroken")
        /\ undo' = [undo EXCEPT ![c] = @ \ {i}]
        /\ pc'[c] = pc[c] \/ pc'[c] = "undoBroken"
  BY <1>1 DEF Restore, RestoreFails, Undone, Goto
<1> DEFINE s == writes[c][i].slot
           x == writes[c][i].previous
<1>3. /\ i \in DOMAIN writes[c] /\ s \in Slots /\ Accounted(x, s) /\ ~Wrote(x, c)
      /\ i \in Pending(c)
  BY <1>1 DEF WritesRecorded, AllAccounted, Pending
<1>4. x \in Credential \cup {Absent}
  BY <1>3 DEF Accounted
<1>5. /\ creds' \in [Slots -> Credential \cup {Absent}]
      /\ \A t \in Slots \ {s} : creds'[t] = creds[t]
      /\ creds'[s] = x \/ (creds'[s] = creds[s] /\ pc'[c] = "undoBroken")
  <2>1. creds' = [creds EXCEPT ![s] = x] \/ (creds' = creds /\ pc'[c] = "undoBroken")
    BY <1>2 DEF Restored
  <2> HIDE DEF s, x
  <2> QED
    BY <1>1, <1>3, <1>4, <2>1
<1>6. /\ request' = request /\ seen' = seen /\ writes' = writes /\ verdict' = verdict
      /\ \A d \in Commands \ {c} : pc'[d] = pc[d] /\ undo'[d] = undo[d]
      /\ undo'[c] = undo[c] \ {i} /\ DOMAIN undo' = Commands
      /\ pc'[c] \in {"undo", "undoBroken"}
      /\ pc'[c] = "undo" => pc[c] = "undo"
  BY <1>1, <1>2 DEF Restore, RestoreFails, Goto
<1>7. \A d \in Commands : Puts(d)' = Puts(d) /\ (Transactional(d)' <=> Transactional(d))
  BY <1>6 DEF Puts, Transactional
<1>8. /\ \A d \in Commands : Pending(d)' \subseteq Pending(d)
      /\ Pending(c)' = Pending(c) \ {i}
  BY <1>1, <1>6 DEF Pending
<1>9. \A d \in Commands, t \in Slots : NotKept(d, t) => NotKept(d, t)'
  BY <1>6, <1>8 DEF NotKept, Wrote
<1>10. \A d \in Commands \ {c} : pc[d] \notin Critical
  BY <1>1, Alone DEF Critical
<1>11. \A j \in DOMAIN writes[c] : j # i => writes[c][j].slot \in Slots \ {s}
  BY <1>1, <1>3 DEF WritesRecorded
<1> HIDE DEF s, x
<1>12. WritesRecorded'
  BY <1>1, <1>6, <1>7 DEF WritesRecorded, Wrote
<1>13. AllAccounted'
  <2>1. \A t \in Slots : Accounted(creds'[t], t)
    BY <1>1, <1>3, <1>5 DEF AllAccounted
  <2> QED
    BY <1>1, <1>6, <2>1 DEF AllAccounted, Accounted
<1>14. OnePlaceEach'
  <2> SUFFICES ASSUME NEW d \in Commands, NEW j \in Pending(d)', NEW cc \in Commands,
                      Wrote(writes[d][j].previous, cc)
               PROVE  /\ Wrote(creds'[writes[d][j].slot], cc) =>
                           pc'[d] = "plan" /\ ~writes[d][j].put
                      /\ \A e \in Commands : \A k \in Pending(e)' :
                           writes[e][k].slot = writes[d][j].slot
                             /\ Wrote(writes[e][k].previous, cc) => e = d /\ k = j
    BY <1>6 DEF OnePlaceEach, Wrote
  <2>0. j \in Pending(d) /\ j \in DOMAIN writes[d]
    BY <1>1, <1>8 DEF Pending, WritesRecorded
  <2>1. ASSUME Wrote(creds'[writes[d][j].slot], cc)
        PROVE  pc'[d] = "plan" /\ ~writes[d][j].put
    <3>1. CASE creds'[writes[d][j].slot] = creds[writes[d][j].slot]
      <4>1. pc[d] = "plan" /\ ~writes[d][j].put
        BY <1>1, <2>0, <2>1, <3>1 DEF OnePlaceEach
      <4>2. d # c
        BY <1>1, <4>1
      <4> QED
        BY <1>6, <4>1, <4>2
    <3>2. CASE creds'[writes[d][j].slot] # creds[writes[d][j].slot]
      <4>1. writes[d][j].slot = s /\ creds'[s] = x
        BY <1>1, <1>5, <2>0, <3>2 DEF WritesRecorded
      <4>2. Wrote(x, cc)
        BY <2>1, <4>1
      <4>3. d = c /\ j = i
        BY <1>1, <1>3, <2>0, <4>1, <4>2 DEF OnePlaceEach, s, x
      <4> QED
        BY <1>8, <4>3
    <3> QED
      BY <3>1, <3>2
  <2>2. \A e \in Commands : \A k \in Pending(e)' :
          writes[e][k].slot = writes[d][j].slot
            /\ Wrote(writes[e][k].previous, cc) => e = d /\ k = j
    BY <1>1, <1>8 DEF OnePlaceEach
  <2> QED
    BY <2>1, <2>2
<1>15. FailedUnseen'
  BY <1>6, <1>10 DEF FailedUnseen, Critical
<1>16. UndoExact'
  <2> SUFFICES ASSUME NEW d \in Commands, pc'[d] \in {"undo", "undoBroken"}
               PROVE  /\ \A j \in undo'[d] : Wrote(creds'[writes[d][j].slot], d)
                      /\ pc'[d] = "undo" =>
                           /\ \A j \in DOMAIN writes[d] \ undo'[d] :
                                ~Wrote(creds'[writes[d][j].slot], d)
                           /\ \A t \in Slots : NotKept(d, t)'
    BY <1>6 DEF UndoExact, Wrote
  <2>1. d = c
    BY <1>6, <1>10 DEF Critical
  <2>2. ASSUME NEW j \in undo'[c] PROVE Wrote(creds'[writes[c][j].slot], c)
    <3>1. j \in undo[c] /\ j # i /\ j \in DOMAIN writes[c]
      BY <1>1, <1>6 DEF WritesRecorded
    <3>2. creds'[writes[c][j].slot] = creds[writes[c][j].slot]
      BY <1>5, <1>11, <3>1
    <3> QED
      BY <1>1, <3>1, <3>2 DEF UndoExact
  <2>3. ASSUME pc'[c] = "undo", NEW j \in DOMAIN writes[c] \ undo'[c]
        PROVE  ~Wrote(creds'[writes[c][j].slot], c)
    <3>1. CASE j = i
      BY <1>3, <1>5, <2>3, <3>1 DEF s, x
    <3>2. CASE j # i
      <4>1. creds'[writes[c][j].slot] = creds[writes[c][j].slot]
        BY <1>5, <1>11, <2>3, <3>2
      <4> QED
        BY <1>1, <1>6, <2>3, <3>2, <4>1 DEF UndoExact
    <3> QED
      BY <3>1, <3>2
  <2>4. pc'[c] = "undo" => \A t \in Slots : NotKept(c, t)'
    BY <1>1, <1>6, <1>9 DEF UndoExact
  <2> QED
    BY <2>1, <2>2, <2>3, <2>4
<1>17. FailedGone'
  <2> SUFFICES ASSUME NEW d \in Commands
               PROVE  /\ verdict'[d] # "none" => pc'[d] = "done"
                      /\ Transactional(d)' /\ verdict'[d] = "failed" =>
                           \A t \in Slots : ~Wrote(creds'[t], d) /\ NotKept(d, t)'
    BY DEF FailedGone, Wrote
  <2>1. verdict'[d] # "none" => pc'[d] = "done"
    BY <1>1, <1>6 DEF FailedGone
  <2>2. ASSUME Transactional(d)', verdict'[d] = "failed", NEW t \in Slots
        PROVE  ~Wrote(creds'[t], d) /\ NotKept(d, t)'
    <3>1. ~Wrote(creds[t], d) /\ NotKept(d, t) /\ NotKept(d, s)
      BY <1>1, <1>3, <1>6, <1>7, <2>2 DEF FailedGone
    <3>2. ~Wrote(x, d)
      BY <1>3, <3>1 DEF NotKept, s, x
    <3> QED
      BY <1>5, <1>9, <3>1, <3>2
  <2> QED
    BY <2>1, <2>2
<1> QED
  BY <1>1, <1>5, <1>6, <1>12, <1>13, <1>14, <1>15, <1>16, <1>17 DEF CredentialInv

-----------------------------------------------------------------------------
(***************************************************************************)
(* Steps that leave credentials and writes alone.                           *)
(***************************************************************************)
LEMMA QuietKeeps ==
  ASSUME StoreInv, CredentialInv, NEW c \in Commands,
         request' = request, creds' = creds, writes' = writes, undo' = undo,
         DOMAIN verdict' = Commands,
         \A d \in Commands \ {c} :
           pc'[d] = pc[d] /\ verdict'[d] = verdict[d] /\ seen'[d] = seen[d],
         seen'[c] = seen[c] \/ pc[c] = "start",
         \/ pc'[c] = pc[c]
         \/ pc[c] \in {"start", "ready"} /\ pc'[c] \in {"ready", "store"}
         \/ pc[c] \in {"store", "reconcile"} /\ pc'[c] \in {"reconcile", "plan"}
         \/ pc'[c] \in {"done", "crashed"},
         pc'[c] # "done" => verdict'[c] = verdict[c] /\ pc[c] # "done",
         Transactional(c) /\ verdict'[c] = "failed" =>
           \/ verdict[c] = "failed"
           \/ DOMAIN writes[c] = {}
           \/ pc[c] = "undo" /\ undo[c] = {}
  PROVE  CredentialInv'
<1>1. /\ WritesRecorded /\ AllAccounted /\ OnePlaceEach /\ FailedUnseen /\ UndoExact
      /\ FailedGone /\ LockHeld /\ pc \in [Commands -> Labels]
  BY DEF CredentialInv, StoreInv
<1>2. \A d \in Commands : Puts(d)' = Puts(d) \/ DOMAIN writes[d] = {}
  <2>1. ASSUME NEW d \in Commands, seen'[d] = seen[d] PROVE Puts(d)' = Puts(d)
    BY <2>1 DEF Puts
  <2>2. pc[c] = "start" => DOMAIN writes[c] = {}
    BY <1>1 DEF WritesRecorded
  <2> QED
    BY <2>1, <2>2
<1>3. \A d \in Commands : Pending(d)' \subseteq Pending(d)
  <2>1. \A d \in Commands \ {c} : Pending(d)' = Pending(d)
    BY DEF Pending
  <2>2. Pending(c)' \subseteq Pending(c)
    BY <1>1 DEF Pending, WritesRecorded
  <2> QED
    BY <2>1, <2>2
<1>4. \A d \in Commands, t \in Slots : NotKept(d, t) => NotKept(d, t)'
  BY <1>3 DEF NotKept, Wrote
<1>5. \A d \in Commands : Transactional(d)' <=> Transactional(d)
  BY DEF Transactional
<1>6. WritesRecorded'
  <2> SUFFICES ASSUME NEW d \in Commands
               PROVE  /\ pc'[d] \in {"start", "ready"} => DOMAIN writes[d] = {}
                      /\ \A i \in DOMAIN writes[d] :
                           /\ i \in Puts(d)'
                           /\ ~writes[d][i].put => pc'[d] \notin {"store", "reconcile"}
    BY <1>1 DEF WritesRecorded, Wrote
  <2> QED
    BY <1>1, <1>2 DEF WritesRecorded
<1>7. AllAccounted'
  BY <1>1 DEF AllAccounted, Accounted
<1>8. OnePlaceEach'
  <2> SUFFICES ASSUME NEW d \in Commands, NEW j \in Pending(d)', NEW cc \in Commands,
                      Wrote(writes[d][j].previous, cc)
               PROVE  /\ Wrote(creds[writes[d][j].slot], cc) =>
                           pc'[d] = "plan" /\ ~writes[d][j].put
                      /\ \A e \in Commands : \A k \in Pending(e)' :
                           writes[e][k].slot = writes[d][j].slot
                             /\ Wrote(writes[e][k].previous, cc) => e = d /\ k = j
    BY DEF OnePlaceEach, Wrote
  <2>1. ASSUME Wrote(creds[writes[d][j].slot], cc)
        PROVE  pc'[d] = "plan" /\ ~writes[d][j].put
    <3>1. pc[d] = "plan" /\ ~writes[d][j].put
      BY <1>1, <1>3, <2>1 DEF OnePlaceEach
    <3>2. pc'[d] \notin {"done", "crashed"}
      BY DEF Pending
    <3> QED
      BY <3>1, <3>2
  <2> QED
    BY <1>1, <1>3, <2>1 DEF OnePlaceEach
<1>9. FailedUnseen'
  <2> SUFFICES ASSUME NEW d \in Commands, pc'[d] = "plan",
                      NEW i \in DOMAIN writes[d], ~writes[d][i].put
               PROVE  NotKept(d, writes[d][i].slot)'
    BY DEF FailedUnseen, NotKept, Wrote
  <2>1. pc[d] = "plan"
    BY <1>1 DEF WritesRecorded
  <2> QED
    BY <1>1, <1>4, <2>1 DEF FailedUnseen, WritesRecorded
<1>10. UndoExact'
  <2> SUFFICES ASSUME NEW d \in Commands, pc'[d] \in {"undo", "undoBroken"}
               PROVE  /\ \A i \in undo[d] : Wrote(creds[writes[d][i].slot], d)
                      /\ pc'[d] = "undo" =>
                           /\ \A i \in DOMAIN writes[d] \ undo[d] :
                                ~Wrote(creds[writes[d][i].slot], d)
                           /\ \A s \in Slots : NotKept(d, s)'
    BY DEF UndoExact, Wrote
  <2>1. pc'[d] = pc[d]
    OBVIOUS
  <2> QED
    BY <1>1, <1>4, <2>1 DEF UndoExact
<1>11. FailedGone'
  <2> SUFFICES ASSUME NEW d \in Commands
               PROVE  /\ verdict'[d] # "none" => pc'[d] = "done"
                      /\ Transactional(d) /\ verdict'[d] = "failed" =>
                           \A t \in Slots : ~Wrote(creds[t], d) /\ NotKept(d, t)'
    BY <1>5 DEF FailedGone, Wrote
  <2>1. verdict'[d] # "none" => pc'[d] = "done"
    BY <1>1 DEF FailedGone
  <2>2. ASSUME Transactional(d), verdict'[d] = "failed", NEW t \in Slots
        PROVE  ~Wrote(creds[t], d) /\ NotKept(d, t)
    <3>1. CASE verdict[d] = "failed"
      BY <1>1, <2>2, <3>1 DEF FailedGone
    <3>2. CASE d = c /\ DOMAIN writes[c] = {}
      <4>1. \A x : Accounted(x, t) => ~Wrote(x, c)
        BY <3>2, WroteThere
      <4>2. ~Wrote(creds[t], c)
        BY <1>1, <4>1 DEF AllAccounted
      <4>3. ASSUME NEW e \in Commands, NEW j \in Pending(e), writes[e][j].slot = t
            PROVE  ~Wrote(writes[e][j].previous, c)
        <5>1. j \in DOMAIN writes[e]
          BY <1>1 DEF Pending, WritesRecorded
        <5> QED
          BY <1>1, <4>1, <4>3, <5>1 DEF AllAccounted
      <4> QED
        BY <3>2, <4>2, <4>3 DEF NotKept
    <3>3. CASE d = c /\ pc[c] = "undo" /\ undo[c] = {}
      <4>1. NotKept(c, t)
        BY <1>1, <3>3 DEF UndoExact
      <4>2. ~Wrote(creds[t], c)
        <5> SUFFICES ASSUME Wrote(creds[t], c) PROVE FALSE
          OBVIOUS
        <5>1. Accounted(creds[t], t)
          BY <1>1 DEF AllAccounted
        <5>2. PICK i \in DOMAIN writes[c] : writes[c][i].slot = t
          BY <5>1, WroteThere
        <5> QED
          BY <1>1, <3>3, <5>2 DEF UndoExact
      <4> QED
        BY <3>3, <4>1, <4>2
    <3> QED
      BY <2>2, <3>1, <3>2, <3>3
  <2> QED
    BY <1>4, <2>1, <2>2
<1> QED
  BY <1>6, <1>7, <1>8, <1>9, <1>10, <1>11 DEF CredentialInv

-----------------------------------------------------------------------------
LEMMA CredentialInit == Init => CredentialInv
<1> SUFFICES ASSUME Init PROVE CredentialInv
  OBVIOUS
<1>1. /\ \A c \in Commands : /\ pc[c] = "start" /\ writes[c] = << >> /\ undo[c] = {}
                             /\ verdict[c] = "none"
      /\ DOMAIN writes = Commands /\ DOMAIN undo = Commands /\ DOMAIN verdict = Commands
  BY DEF Init
<1>2. \A c \in Commands : DOMAIN writes[c] = {}
  <2>1. DOMAIN << >> = {}
    OBVIOUS
  <2> QED
    BY <1>1, <2>1, Zenon
<1>3. \A s \in Slots :
        creds[s] = Absent \/ creds[s] = [secret |-> OldSecret, by |-> NoOne]
  BY DEF Init
<1>4. [secret |-> OldSecret, by |-> NoOne] \in Credential
  BY StoreAssumption DEF Credential
<1>5. creds \in [Slots -> Credential \cup {Absent}]
  BY <1>4 DEF Init
<1>6. \A s \in Slots : Accounted(creds[s], s)
  BY <1>3, <1>4 DEF Accounted
<1>7. WritesRecorded
  BY <1>1, <1>2 DEF WritesRecorded
<1>8. AllAccounted
  BY <1>2, <1>6 DEF AllAccounted
<1>9. \A c \in Commands : Pending(c) = {}
  BY <1>1 DEF Pending
<1>10. OnePlaceEach /\ FailedUnseen /\ UndoExact /\ FailedGone
  BY <1>1, <1>9 DEF OnePlaceEach, FailedUnseen, UndoExact, FailedGone
<1> QED
  BY <1>1, <1>5, <1>7, <1>8, <1>10 DEF CredentialInv

\* The steps before the first write, at the end and in between.
LEMMA OthersKeep ==
  ASSUME StoreInv, CredentialInv, NEW c \in Commands,
         \/ LoadAndAuthorize(c) \/ LockUnavailable(c) \/ Enter(c) \/ EnterRefused(c)
         \/ (PutFails(c) /\ writes' = writes)
         \/ Commit(c) \/ CommitFails(c) \/ Reconcile(c) \/ ReconcileFails(c)
         \/ PlanRefused(c) \/ FinishUndo(c) \/ Crash(c) \/ Reclaim(c)
  PROVE  CredentialInv'
<1> USE DEF Goto, Judge
<1>0. /\ pc \in [Commands -> Labels] /\ DOMAIN verdict = Commands /\ DOMAIN seen = Commands
      /\ DOMAIN writes = Commands /\ creds \in [Slots -> Credential \cup {Absent}]
  BY DEF StoreInv, CredentialInv
<1> DEFINE Rest ==
             /\ request' = request /\ creds' = creds /\ writes' = writes /\ undo' = undo
             /\ DOMAIN verdict' = Commands
             /\ \A d \in Commands \ {c} :
                  pc'[d] = pc[d] /\ verdict'[d] = verdict[d] /\ seen'[d] = seen[d]
             /\ seen'[c] = seen[c] \/ pc[c] = "start"
           Moves ==
             \/ pc'[c] = pc[c]
             \/ pc[c] \in {"start", "ready"} /\ pc'[c] \in {"ready", "store"}
             \/ pc[c] \in {"store", "reconcile"} /\ pc'[c] \in {"reconcile", "plan"}
             \/ pc'[c] \in {"done", "crashed"}
           Judged ==
             /\ pc'[c] # "done" => verdict'[c] = verdict[c] /\ pc[c] # "done"
             /\ Transactional(c) /\ verdict'[c] = "failed" =>
                  \/ verdict[c] = "failed"
                  \/ DOMAIN writes[c] = {}
                  \/ pc[c] = "undo" /\ undo[c] = {}
<1>1. CASE LoadAndAuthorize(c)
  <2>1. Rest /\ Moves /\ Judged
    BY <1>0, <1>1 DEF LoadAndAuthorize
  <2> QED
    BY <2>1, QuietKeeps
<1>2. CASE LockUnavailable(c)
  <2>1. Rest /\ Moves /\ Judged
    BY <1>0, <1>2 DEF LockUnavailable
  <2> QED
    BY <2>1, QuietKeeps
<1>3. CASE Enter(c)
  <2>1. Rest /\ Moves /\ Judged
    BY <1>0, <1>3 DEF Enter
  <2> QED
    BY <2>1, QuietKeeps
<1>4. CASE EnterRefused(c)
  <2>1. Rest /\ Moves /\ Judged
    BY <1>0, <1>4 DEF EnterRefused
  <2> QED
    BY <2>1, QuietKeeps
<1>5. CASE PutFails(c) /\ writes' = writes
  <2>0. creds' = creds
    <3> SUFFICES ASSUME NEW i \in Left(c), Recorded(c, i, FALSE) PROVE FALSE
      BY <1>5 DEF PutFails
    <3> DEFINE f == [j \in DOMAIN writes[c] \cup {i} |->
                       IF j = i THEN Tried(c, i, FALSE) ELSE writes[c][j]]
    <3>1. writes' = [writes EXCEPT ![c] = f] /\ i \in DOMAIN f /\ i \notin DOMAIN writes[c]
      BY DEF Recorded, Left
    <3> HIDE DEF f
    <3> QED
      BY <1>0, <1>5, <3>1
  <2>1. Rest /\ Moves /\ Judged
    BY <1>0, <1>5, <2>0 DEF PutFails
  <2> QED
    BY <2>1, QuietKeeps
<1>6. CASE Commit(c)
  <2>1. Rest /\ Moves /\ Judged
    BY <1>0, <1>6 DEF Commit, ReadyToCommit
  <2> QED
    BY <2>1, QuietKeeps
<1>7. CASE CommitFails(c)
  <2>1. Rest /\ Moves /\ Judged
    BY <1>0, <1>7 DEF CommitFails, ReadyToCommit
  <2> QED
    BY <2>1, QuietKeeps
<1>8. CASE Reconcile(c)
  <2>1. Rest /\ Moves /\ Judged
    BY <1>0, <1>8 DEF Reconcile
  <2> QED
    BY <2>1, QuietKeeps
<1>9. CASE ReconcileFails(c)
  <2>1. Rest /\ Moves /\ Judged
    BY <1>0, <1>9 DEF ReconcileFails
  <2> QED
    BY <2>1, QuietKeeps
<1>10. CASE PlanRefused(c)
  <2>1. Rest /\ Moves /\ Judged
    BY <1>0, <1>10 DEF PlanRefused
  <2> QED
    BY <2>1, QuietKeeps
<1>11. CASE FinishUndo(c)
  <2>1. Rest /\ Moves /\ Judged
    BY <1>0, <1>11 DEF FinishUndo
  <2> QED
    BY <2>1, QuietKeeps
<1>12. CASE Crash(c)
  <2>1. Rest /\ Moves /\ Judged
    BY <1>0, <1>12 DEF Crash, CredentialInv, FailedGone
  <2> QED
    BY <2>1, QuietKeeps
<1>13. CASE Reclaim(c)
  <2>1. Rest /\ Moves /\ Judged
    BY <1>0, <1>13 DEF Reclaim, locals
  <2> QED
    BY <2>1, QuietKeeps
<1> QED
  BY <1>1, <1>2, <1>3, <1>4, <1>5, <1>6, <1>7, <1>8, <1>9, <1>10, <1>11, <1>12, <1>13

LEMMA CredentialSteps ==
  ASSUME OwnValues
  PROVE  StoreInv /\ CredentialInv /\ [Next]_vars => CredentialInv'
<1> SUFFICES ASSUME StoreInv, CredentialInv, [Next]_vars PROVE CredentialInv'
  OBVIOUS
<1>1. ASSUME NEW c \in Commands, PutCredential(c) \/ (PutFails(c) /\ writes' # writes)
      PROVE  CredentialInv'
  BY <1>1, PutIsMade, PutKeeps
<1>2. ASSUME NEW c \in Commands, PlanUndo(c) PROVE CredentialInv'
  BY <1>2, PlanKeeps
<1>3. ASSUME NEW c \in Commands, Restore(c) \/ RestoreFails(c) PROVE CredentialInv'
  BY <1>3, RestoreKeeps
<1>4. ASSUME NEW c \in Commands,
             \/ LoadAndAuthorize(c) \/ LockUnavailable(c) \/ Enter(c) \/ EnterRefused(c)
             \/ (PutFails(c) /\ writes' = writes)
             \/ Commit(c) \/ CommitFails(c) \/ Reconcile(c) \/ ReconcileFails(c)
             \/ PlanRefused(c) \/ FinishUndo(c) \/ Crash(c) \/ Reclaim(c)
      PROVE  CredentialInv'
  BY <1>4, OthersKeep
<1>5. CASE UNCHANGED vars
  <2>1. UNCHANGED <<creds, request, pc, seen, writes, undo, verdict>>
    BY <1>5 DEF vars, locals
  <2>2. \A c \in Commands : /\ Puts(c)' = Puts(c) /\ Pending(c)' = Pending(c)
                            /\ Transactional(c)' <=> Transactional(c)
    BY <2>1 DEF Puts, Pending, Transactional
  <2> QED
    BY <2>1, <2>2
       DEF CredentialInv, WritesRecorded, AllAccounted, Accounted, OnePlaceEach,
           FailedUnseen, UndoExact, FailedGone, NotKept, Wrote
<1> QED
  BY <1>1, <1>2, <1>3, <1>4, <1>5 DEF Next, Step, Halt

\* Where commands write values of their own, each value has one place and an
\* author (context_import_credentials.go:384-461).
THEOREM CredentialsHaveAuthors ==
  ASSUME OwnValues
  PROVE  Spec => []CredentialInv
<1>1. StoreInv /\ CredentialInv /\ [Next]_vars => CredentialInv'
  BY CredentialSteps
<1> QED
  BY <1>1, CredentialInit, StoreInvariant, PTL DEF Spec

\* A set, import or migration that says it failed has left none of its
\* credentials, in a slot then or later, although others wrote over them and
\* undid that again (compensateContextImportCredentialsLocked).
THEOREM FailureLeavesNothing ==
  ASSUME OwnValues
  PROVE  Spec => []FailedLeavesNothing
<1>1. CredentialInv => FailedLeavesNothing
  BY DEF CredentialInv, FailedGone, FailedLeavesNothing, Wrote
<1> QED
  BY <1>1, CredentialsHaveAuthors, PTL

\* A compensation takes back only what its command wrote
\* (credentialWriteNeedsRestore, context_import_credentials.go:531-559).
THEOREM RestoresOnlyOwn ==
  ASSUME OwnValues
  PROVE  Spec => RestoresOwnWrites
<1> DEFINE Own == \A c \in Commands, s \in Slots : Undoes(c, s) => creds[s].by = c
<1>1. ASSUME StoreInv, CredentialInv, [Next]_vars,
             NEW c \in Commands, NEW s \in Slots, Undoes(c, s)
      PROVE  creds[s].by = c
  <2>1. /\ pc[c] \in {"undo", "undoBroken"} /\ undo'[c] # undo[c] /\ creds'[s] # creds[s]
        /\ creds \in [Slots -> Credential \cup {Absent}] /\ DOMAIN undo = Commands
    BY <1>1 DEF Undoes, CredentialInv
  <2>2. PICK d \in Commands : Step(d) \/ Crash(d) \/ Reclaim(d)
    BY <1>1, <2>1 DEF Next, Halt, vars, locals
  <2>3. PICK i \in undo[d] : creds' \in {creds, Restored(d, i)} /\ Undone(d, i)
    BY <2>1, <2>2
       DEF Step, LoadAndAuthorize, LockUnavailable, Enter, EnterRefused, PutCredential,
           PutFails, Commit, CommitFails, Reconcile, ReconcileFails, PlanUndo, PlanRefused,
           Restore, RestoreFails, FinishUndo, Crash, Reclaim, locals
  <2>4. d = c
    BY <2>1, <2>3 DEF Undone
  <2>5. writes[c][i].slot = s
    BY <2>1, <2>3, <2>4 DEF Restored
  <2> QED
    BY <1>1, <2>1, <2>3, <2>4, <2>5 DEF CredentialInv, UndoExact, Wrote
<1>2. StoreInv /\ CredentialInv /\ [Next]_vars => [Own]_vars
  BY <1>1
<1> QED
  BY <1>2, StoreInvariant, CredentialsHaveAuthors, PTL DEF Spec, RestoresOwnWrites
=============================================================================
