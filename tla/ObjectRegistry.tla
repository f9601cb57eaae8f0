------------------------------ MODULE ObjectRegistry ----------------------------
(***************************************************************************)
(* utl::ObjectRegistry (ucc/ObjectRegistry): one shared, reference-counted *)
(* object for all that are equal.  add() hands out the registered object or*)
(* registers its argument; remove() gives a reference back, and the last   *)
(* one deletes the object.  Most calls need the read lock only; a call that*)
(* must change the tree releases it, takes the write lock and looks again: *)
(* whatever happens in between, the counts must tell the truth then.       *)
(*                                                                         *)
(* The lock is the abstract RWlockSpec; the tree (RBtree) is a function    *)
(* from the keys inside.  Objects are addresses: a deleted one may be the  *)
(* next that a caller creates.                                             *)
(***************************************************************************)
EXTENDS Threads, Naturals, FiniteSets

CONSTANTS Keys,             \* what makes objects equal
          Objects,          \* the addresses of objects: numbers
          NoObject, NoKey,
          MaxRefs           \* bound on the references that one thread collects

VARIABLES lockReaders, lockWriter,   \* _lock
          registry,         \* _objects: key -> object and _refCount
          alive,            \* the objects that exist
          refs,             \* refs[t][k]: references that t holds on key k
          held,             \* held[t][k]: the pointer that t was given for them
          rPc, rKey, mine   \* where t is, the key of its call, add()'s argument

lockVars     == <<lockReaders, lockWriter>>
registryVars == <<lockReaders, lockWriter, registry, alive, refs, held, rPc, rKey, mine>>

Lock == INSTANCE RWlockSpec WITH readers <- lockReaders, writer <- lockWriter, nested <- 0

RegistryInit ==
  /\ lockReaders = {} /\ lockWriter = NoThread
  /\ registry = [k \in {} |-> 0]
  /\ alive = {}
  /\ refs = [t \in Threads |-> [k \in Keys |-> 0]]
  /\ held = [t \in Threads |-> [k \in Keys |-> NoObject]]
  /\ rPc = [t \in Threads |-> "idle"]
  /\ rKey = [t \in Threads |-> NoKey]
  /\ mine = [t \in Threads |-> NoObject]

Registered(k) == k \in DOMAIN registry

\* addRef(), removeRef()
CountRef(k, n) == registry' = [registry EXCEPT ![k].refCount = n]

\* the reference that the caller gets, with the pointer that add() returns
Give(t, k, o) ==
  /\ refs' = [refs EXCEPT ![t][k] = @ + 1]
  /\ held' = [held EXCEPT ![t][k] = o]

-------------------------------------------------------------------------------
(* add(object) *)

\* the least of the addresses that are free
NewObject == CHOOSE o \in Objects \ alive : \A p \in Objects \ alive : o <= p

\* the caller makes an object and add() takes the read lock
AddCall(t, k) ==
  /\ Step(rPc, t, "idle", "find")
  /\ refs[t][k] < MaxRefs
  /\ Lock!AcquireRead(t)
  /\ alive # Objects
  /\ alive' = alive \union {NewObject} /\ mine' = [mine EXCEPT ![t] = NewObject]
  /\ rKey' = [rKey EXCEPT ![t] = k]
  /\ UNCHANGED <<registry, refs, held>>

Find(t) ==
  /\ Step(rPc, t, "find", IF Registered(rKey[t]) THEN "share" ELSE "upgrade")
  /\ UNCHANGED <<lockVars, registry, alive, refs, held, rKey, mine>>

\* RWlockGuard::wrlock() releases the read lock before it waits
Upgrade(t) ==
  /\ \/ Step(rPc, t, "upgrade", "wrlock")
     \/ Step(rPc, t, "upgradeDrop", "wrlockDrop")
  /\ Lock!ReleaseRead(t)
  /\ UNCHANGED <<registry, alive, refs, held, rKey, mine>>

Wrlock(t) ==
  /\ \/ Step(rPc, t, "wrlock", "findAgain")
     \/ Step(rPc, t, "wrlockDrop", "dropAgain")
  /\ Lock!AcquireWrite(t)
  /\ UNCHANGED <<registry, alive, refs, held, rKey, mine>>

\* mutant: what was not found under the read lock is not looked for again
FindAgainNever(t) ==
  /\ Step(rPc, t, "findAgain", "register")
  /\ UNCHANGED <<lockVars, registry, alive, refs, held, rKey, mine>>

FindAgain(t) ==
  /\ Step(rPc, t, "findAgain", IF Registered(rKey[t]) THEN "share" ELSE "register")
  /\ UNCHANGED <<lockVars, registry, alive, refs, held, rKey, mine>>

\* delete object, addRef() and return ro->get(); the guard's destructor unlocks
Share(t) ==
  LET k == rKey[t]
  IN /\ Step(rPc, t, "share", "return")
     /\ alive' = alive \ {mine[t]}
     /\ mine' = [mine EXCEPT ![t] = NoObject]
     /\ CountRef(k, registry[k].refCount + 1)
     /\ Give(t, k, registry[k].object)
     /\ UNCHANGED <<lockVars, rKey>>

\* new RegisteredObject(object), and into the tree
Register(t) ==
  LET k == rKey[t]
  IN /\ Step(rPc, t, "register", "return")
     /\ registry' = [j \in DOMAIN registry \union {k} |->
          IF j = k THEN [object |-> mine[t], refCount |-> 1] ELSE registry[j]]
     /\ Give(t, k, mine[t])
     /\ mine' = [mine EXCEPT ![t] = NoObject]
     /\ UNCHANGED <<lockVars, alive, rKey>>

Return(t) ==
  /\ Step(rPc, t, "return", "idle")
  /\ rKey' = [rKey EXCEPT ![t] = NoKey]
  /\ IF lockWriter = t THEN Lock!ReleaseWrite(t) ELSE Lock!ReleaseRead(t)
  /\ UNCHANGED <<registry, alive, refs, held, mine>>

-------------------------------------------------------------------------------
(* remove(object) *)

\* the caller gives a reference up: its pointer is gone with the last one
RemoveCall(t, k) ==
  /\ Step(rPc, t, "idle", "drop")
  /\ refs[t][k] > 0
  /\ Lock!AcquireRead(t)
  /\ refs' = [refs EXCEPT ![t][k] = @ - 1]
  /\ held' = IF refs[t][k] = 1 THEN [held EXCEPT ![t][k] = NoObject] ELSE held
  /\ rKey' = [rKey EXCEPT ![t] = k]
  /\ UNCHANGED <<registry, alive, mine>>

\* if (ro->removeRef() > 0) return
Drop(t) ==
  LET n == registry[rKey[t]].refCount - 1
  IN /\ Step(rPc, t, "drop", IF n > 0 THEN "return" ELSE "restore")
     /\ CountRef(rKey[t], n)
     /\ UNCHANGED <<lockVars, alive, refs, held, rKey, mine>>

\* mutant: the reference is not added back while the lock is given up
RestoreNothing(t) ==
  /\ Step(rPc, t, "restore", "upgradeDrop")
  /\ UNCHANGED <<lockVars, registry, alive, refs, held, rKey, mine>>

\* "add the reference back..."
Restore(t) ==
  /\ Step(rPc, t, "restore", "upgradeDrop")
  /\ CountRef(rKey[t], registry[rKey[t]].refCount + 1)
  /\ UNCHANGED <<lockVars, alive, refs, held, rKey, mine>>

\* removeRef() under the write lock, and removeIt(it) when it was the last
DropAgain(t) ==
  LET k == rKey[t]
      n == registry[k].refCount - 1
  IN /\ Step(rPc, t, "dropAgain", "return")
     /\ IF n = 0
        THEN /\ alive' = alive \ {registry[k].object}
             /\ registry' = [j \in DOMAIN registry \ {k} |-> registry[j]]
        ELSE CountRef(k, n) /\ UNCHANGED alive
     /\ UNCHANGED <<lockVars, refs, held, rKey, mine>>

-------------------------------------------------------------------------------

Statement(t) ==
  \/ \E k \in Keys : AddCall(t, k) \/ RemoveCall(t, k)
  \/ Find(t) \/ Upgrade(t) \/ Wrlock(t) \/ FindAgain(t) \/ Share(t) \/ Register(t)
  \/ Drop(t) \/ Restore(t) \/ DropAgain(t) \/ Return(t)

RegistryNext == \E t \in Threads : Statement(t)

RegistrySpec == RegistryInit /\ [][RegistryNext]_registryVars

-------------------------------------------------------------------------------
(* Properties *)

Giving(t, k) == rKey[t] = k /\ rPc[t] \in {"drop", "upgradeDrop", "wrlockDrop", "dropAgain"}

\* the references to k: those that callers hold, by their number, and the one that each
\* may be giving back, as number 0
References(k) ==
  {r \in Threads \X (0..MaxRefs) :
     IF r[2] = 0 THEN Giving(r[1], k) ELSE r[2] <= refs[r[1]][k]}

Restoring(k) == \E t \in lockReaders : rKey[t] = k /\ rPc[t] = "restore"

KeyCounted(k) ==
  IF Registered(k)
  THEN /\ registry[k].refCount = Cardinality(References(k))
       /\ registry[k].refCount = 0 => Restoring(k)
  ELSE References(k) = {}

\* The count of a registered object, through zero and back, is exactly the
\* references that callers hold or are about to give back: it is registered
\* once, no reference is lost or counted twice by calls that change it under
\* the read lock, and no object stays behind that nobody refers to.
RefCountExact == \A k \in Keys : KeyCounted(k)

RegisteredObjects == {registry[k].object : k \in DOMAIN registry}
Arguments == {mine[t] : t \in Threads} \ {NoObject}

HoldersAgree ==
  \A t \in Threads, k \in Keys :
    refs[t][k] > 0 => Registered(k) /\ held[t][k] = registry[k].object

ObjectsKnown ==
  /\ alive = RegisteredObjects \union Arguments
  /\ RegisteredObjects \cap Arguments = {}

\* All who hold equal objects hold the same one, it exists, and no object
\* exists that is neither registered nor on its way into add(): whoever deletes
\* the last reference's object, or the duplicate, deletes the right one.
HeldIsRegistered ==
  /\ HoldersAgree /\ ObjectsKnown
  /\ Cardinality(RegisteredObjects) = Cardinality(DOMAIN registry)

\* the two together
RegistryExact == RefCountExact /\ HeldIsRegistered

-------------------------------------------------------------------------------
(* What is proved, for any threads, keys and objects *)

RegistryAssumption ==
  /\ IsFiniteSet(Threads) /\ NoThread \notin Threads
  /\ IsFiniteSet(Keys) /\ NoKey \notin Keys
  /\ Objects \subseteq Nat /\ NoObject \notin Objects
  /\ MaxRefs \in Nat

Adding == {"find", "upgrade", "wrlock", "findAgain", "share", "register"}
Removing == {"drop", "restore", "upgradeDrop", "wrlockDrop", "dropAgain"}

RegistryTypes ==
  /\ lockReaders \subseteq Threads /\ lockWriter \in Threads \union {NoThread}
  /\ DOMAIN registry \subseteq Keys
  /\ registry \in [DOMAIN registry -> [object : Objects, refCount : Nat]]
  /\ alive \subseteq Objects
  /\ refs \in [Threads -> [Keys -> 0..MaxRefs]]
  /\ held \in [Threads -> [Keys -> Objects \union {NoObject}]]
  /\ rPc \in [Threads -> {"idle", "return"} \union Adding \union Removing]
  /\ rKey \in [Threads -> Keys \union {NoKey}]
  /\ mine \in [Threads -> Objects \union {NoObject}]
  /\ \A t \in Threads : rPc[t] # "idle" => rKey[t] \in Keys

\* who holds the lock is known from where he is, but for the ends of add() and remove()
LocksFit ==
  /\ lockWriter # NoThread => lockReaders = {}
  /\ \A t \in Threads :
       /\ rPc[t] \in {"find", "upgrade", "drop", "restore", "upgradeDrop"} => t \in lockReaders
       /\ rPc[t] \in {"findAgain", "register", "dropAgain"} => lockWriter = t
       /\ rPc[t] \in {"share", "return"} => t \in lockReaders \/ lockWriter = t
       /\ rPc[t] \in {"idle", "wrlock", "wrlockDrop"} => t \notin lockReaders /\ lockWriter # t

\* what a call has seen under the lock that it still has
LookupsHold ==
  \A t \in Threads :
    /\ rPc[t] \in {"share", "restore"} => Registered(rKey[t])
    /\ rPc[t] = "register" => ~Registered(rKey[t])
    /\ rPc[t] \in Adding => refs[t][rKey[t]] < MaxRefs

\* an argument of add() is one call's, and the registered objects are different ones
ArgumentsApart ==
  /\ \A t \in Threads : mine[t] # NoObject <=> rPc[t] \in Adding
  /\ \A t, u \in Threads : mine[t] = mine[u] /\ mine[t] # NoObject => t = u
  /\ \A j, k \in DOMAIN registry : registry[j].object = registry[k].object => j = k

RegistryInv ==
  /\ RegistryTypes /\ LocksFit /\ LookupsHold /\ ArgumentsApart
  /\ RefCountExact /\ HoldersAgree /\ ObjectsKnown

===============================================================================
