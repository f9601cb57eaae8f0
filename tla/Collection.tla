-------------------------------- MODULE Collection -------------------------------
(***************************************************************************)
(* Who owns an object that is in a collection (ucc/Collection): two        *)
(* collections and a caller, who may each be the one to delete it.  A      *)
(* collection is a set of pointers and two flags; what is in it, in which  *)
(* order, and how a key is found, are the other modules'.                  *)
(*                                                                         *)
(* An object is <<key, copy>>; a clone is another copy of its key.  A      *)
(* caller gives an owner what it owns itself, and does not ask a           *)
(* collection that does not own its objects for deleted ones.              *)
(***************************************************************************)
EXTENDS Naturals, FiniteSetTheorems, TLAPS

CONSTANTS NumKeys, Copies

VARIABLES memory,     \* the state of every object's memory
          holds,      \* the pointers in every collection
          isOwner,    \* isOwner()
          isMultiSet, \* isMultiSet()
          callers,    \* the objects that the caller has to delete
          forgotten   \* those that were stolen and refused: a history variable

ownershipVars == <<memory, holds, isOwner, isMultiSet, callers, forgotten>>

Collections == {1, 2}
Instances   == (1..NumKeys) \X (1..Copies)

Live == {o \in Instances : memory[o] = "live"}

\* the memory that new may return: the copies of a key are alike, so any of them will do
Free(m, h) ==
  {o \in Instances : m[o] = "free" /\ \A c \in Collections : o \notin h[c]}
Least(S) == CHOOSE o \in S : \A p \in S : o[2] <= p[2]

OwnershipInit ==
  /\ memory = [o \in Instances |-> "free"]
  /\ holds = [c \in Collections |-> {}]
  /\ isOwner \in [Collections -> BOOLEAN]
  /\ isMultiSet \in [Collections -> BOOLEAN]
  /\ callers = {} /\ forgotten = {}

-------------------------------------------------------------------------------
(* What the calls share *)

\* an object that is freed once more shows it
Deleted(m, S) ==
  [o \in Instances |-> IF o \notin S THEN m[o] ELSE IF m[o] = "live" THEN "free" ELSE "freed twice"]
Made(m, S) == [o \in Instances |-> IF o \in S THEN "live" ELSE m[o]]

\* the objects that an owner deletes, and those that only leave it
Owned(c, S) == IF isOwner[c] THEN S ELSE {}

Matching(S, key) == {o \in S : o[1] = key}
Refuses(c, o)    == ~isMultiSet[c] /\ Matching(holds[c], o[1]) # {}

\* its pointers may be followed
Sound(c) == \A o \in holds[c] : memory[o] = "live"

\* what the caller may put in: its own objects in an owner, any in another
MayPut(c, o) ==
  /\ o \notin holds[c] /\ o \in (IF isOwner[c] THEN callers ELSE Live)
  /\ Sound(c)

\* as many clones as S has objects, key by key, in the first free memory
CanClone(S, free) ==
  \A k \in 1..NumKeys : Cardinality(Matching(S, k)) <= Cardinality(Matching(free, k))
ClonesOf(S, free) ==
  {o \in free : Cardinality({p \in Matching(free, o[1]) : p[2] < o[2]})
                  < Cardinality(Matching(S, o[1]))}

Keep == UNCHANGED <<isMultiSet, forgotten>>

-------------------------------------------------------------------------------
(* Operations *)

\* the caller makes an object, and deletes one that is in no collection
New(o) ==
  /\ o \in Free(memory, holds) /\ o = Least(Matching(Free(memory, holds), o[1]))
  /\ memory' = Made(memory, {o}) /\ callers' = callers \cup {o}
  /\ UNCHANGED <<holds, isOwner>> /\ Keep

DeleteMine(o) ==
  /\ o \in callers
  /\ memory' = Deleted(memory, {o}) /\ callers' = callers \ {o}
  /\ UNCHANGED <<holds, isOwner>> /\ Keep

\* add(object); an owner deletes what it refuses
Add(c, o) ==
  /\ MayPut(c, o)
  /\ IF Refuses(c, o)
     THEN memory' = Deleted(memory, Owned(c, {o})) /\ UNCHANGED holds
     ELSE holds' = [holds EXCEPT ![c] = @ \cup {o}] /\ UNCHANGED memory
  /\ callers' = callers \ Owned(c, {o})
  /\ UNCHANGED isOwner /\ Keep

\* add(const Object&) of an owner: a clone is added; one that is refused is deleted again
AddClone(c, o) ==
  /\ isOwner[c] /\ Sound(c) /\ o \in Live
  /\ CanClone({o}, Free(memory, holds)) /\ ~Refuses(c, o)
  /\ LET clone == ClonesOf({o}, Free(memory, holds))
     IN memory' = Made(memory, clone) /\ holds' = [holds EXCEPT ![c] = @ \cup clone]
  /\ UNCHANGED <<isOwner, callers>> /\ Keep

\* addOrFind(object)
AddOrFind(c, o) ==
  /\ MayPut(c, o)
  /\ IF Matching(holds[c], o[1]) # {}
     THEN memory' = Deleted(memory, Owned(c, {o})) /\ UNCHANGED holds
     ELSE holds' = [holds EXCEPT ![c] = @ \cup {o}] /\ UNCHANGED memory
  /\ callers' = callers \ Owned(c, {o})
  /\ UNCHANGED isOwner /\ Keep

\* it.set(object): the object that the iterator is on makes way
SetAt(c, old, o) ==
  /\ memory' = Deleted(memory, Owned(c, {old}))
  /\ holds' = [holds EXCEPT ![c] = (@ \ {old}) \cup {o}]

\* addOrUpdate(object)
AddOrUpdate(c, o) ==
  /\ MayPut(c, o)
  /\ IF Matching(holds[c], o[1]) = {}
     THEN holds' = [holds EXCEPT ![c] = @ \cup {o}] /\ UNCHANGED memory
     ELSE \E old \in Matching(holds[c], o[1]) : SetAt(c, old, o)
  /\ callers' = callers \ Owned(c, {o})
  /\ UNCHANGED isOwner /\ Keep

\* update(object)
Update(c, o) ==
  /\ MayPut(c, o)
  /\ IF Matching(holds[c], o[1]) = {}
     THEN memory' = Deleted(memory, Owned(c, {o})) /\ UNCHANGED holds
     ELSE \E old \in Matching(holds[c], o[1]) : SetAt(c, old, o)
  /\ callers' = callers \ Owned(c, {o})
  /\ UNCHANGED isOwner /\ Keep

\* what copyItems() of S adds to kept: one of each new key to a set
Accepted(c, kept, S) ==
  IF isMultiSet[c] THEN {S \ kept}
  ELSE {T \in SUBSET S : \A k \in 1..NumKeys :
          Cardinality(Matching(T, k)) =
            IF Matching(S, k) # {} /\ Matching(kept, k) = {} THEN 1 ELSE 0}

\* an owner copies clones, and deletes those it refuses; kept is what it held before
CopyItems(c, d, m, kept) ==
  IF isOwner[c]
  THEN \E T \in Accepted(c, kept, holds[d]) :
         LET free == Free(m, [holds EXCEPT ![c] = kept])
         IN /\ CanClone(T, free)
            /\ memory' = Made(m, ClonesOf(T, free))
            /\ holds' = [holds EXCEPT ![c] = kept \cup ClonesOf(T, free)]
  ELSE \E T \in Accepted(c, kept, holds[d]) :
         memory' = m /\ holds' = [holds EXCEPT ![c] = kept \cup T]

\* copyItems(col), add(col)
CopyItemsCall(c, d) ==
  /\ c # d /\ Sound(c) /\ Sound(d)
  /\ CopyItems(c, d, memory, holds[c])
  /\ UNCHANGED <<isOwner, callers>> /\ Keep

\* copy(): clear() and copyItems(); the other one's objects may be those that clear()
\* deletes, if it only refers to them
Copy(c, d) ==
  /\ c # d /\ Sound(c) /\ Sound(d)
  /\ (isOwner[c] /\ ~isOwner[d]) => holds[c] \cap holds[d] = {}
  /\ CopyItems(c, d, Deleted(memory, Owned(c, holds[c])), {})
  /\ UNCHANGED <<isOwner, callers>> /\ Keep

\* mutant: the objects are stolen out of the hands of d, which goes on deleting them
StealKeeping(c, d) ==
  /\ c # d /\ isOwner[c] /\ isOwner[d]
  /\ \E T \in Accepted(c, holds[c], holds[d]) :
       /\ holds' = [holds EXCEPT ![c] = @ \cup T]
       /\ forgotten' = forgotten \cup (holds[d] \ T)
  /\ UNCHANGED <<memory, isOwner, isMultiSet, callers>>

\* stealItems(): between owners, neither of which is one while the objects change hands:
\* those that a set refuses are then deleted by nobody, and d is cleared all the same
StealItems(c, d) ==
  /\ c # d /\ isOwner[c] /\ isOwner[d]
  /\ \E T \in Accepted(c, holds[c], holds[d]) :
       /\ holds' = [holds EXCEPT ![c] = @ \cup T, ![d] = {}]
       /\ forgotten' = forgotten \cup (holds[d] \ T)
  /\ UNCHANGED <<memory, isOwner, isMultiSet, callers>>

\* mutant: the flag is set before the objects are replaced
AssertOwnerFirst(c) ==
  /\ ~isOwner[c] /\ Sound(c)
  /\ CanClone(holds[c], Free(memory, holds))
  /\ LET clones == ClonesOf(holds[c], Free(memory, holds))
     IN /\ memory' = Deleted(Made(memory, clones), holds[c])
        /\ holds' = [holds EXCEPT ![c] = clones]
  /\ isOwner' = [isOwner EXCEPT ![c] = TRUE]
  /\ UNCHANGED callers /\ Keep

\* assertOwner(): a clone replaces every object, which is nobody's to delete
AssertOwner(c) ==
  /\ ~isOwner[c] /\ Sound(c)
  /\ CanClone(holds[c], Free(memory, holds))
  /\ LET clones == ClonesOf(holds[c], Free(memory, holds))
     IN memory' = Made(memory, clones) /\ holds' = [holds EXCEPT ![c] = clones]
  /\ isOwner' = [isOwner EXCEPT ![c] = TRUE]
  /\ UNCHANGED callers /\ Keep

\* setOwner(): the caller hands over, or takes back, what is in the collection
ChangeOwner(c) ==
  /\ ~isOwner[c] => holds[c] \subseteq callers
  /\ callers' = IF isOwner[c] THEN callers \cup holds[c] ELSE callers \ holds[c]
  /\ isOwner' = [isOwner EXCEPT ![c] = ~@]
  /\ UNCHANGED <<memory, holds>> /\ Keep

\* take(it): removeIt() while the flag is off
Take(c, o) ==
  /\ o \in holds[c]
  /\ holds' = [holds EXCEPT ![c] = @ \ {o}]
  /\ callers' = callers \cup Owned(c, {o})
  /\ UNCHANGED <<memory, isOwner>> /\ Keep

\* removeIt(), remove(key)
Remove(c, o) ==
  /\ o \in holds[c]
  /\ memory' = Deleted(memory, Owned(c, {o}))
  /\ holds' = [holds EXCEPT ![c] = @ \ {o}]
  /\ UNCHANGED <<isOwner, callers>> /\ Keep

Clear(c) ==
  /\ memory' = Deleted(memory, Owned(c, holds[c]))
  /\ holds' = [holds EXCEPT ![c] = {}]
  /\ UNCHANGED <<isOwner, callers>> /\ Keep

OwnershipNext ==
  \/ \E o \in Instances : New(o) \/ DeleteMine(o)
  \/ \E c \in Collections, o \in Instances :
       \/ Add(c, o) \/ AddClone(c, o) \/ AddOrFind(c, o) \/ AddOrUpdate(c, o) \/ Update(c, o)
       \/ Take(c, o) \/ Remove(c, o)
  \/ \E c, d \in Collections : CopyItemsCall(c, d) \/ Copy(c, d) \/ StealItems(c, d)
  \/ \E c \in Collections : AssertOwner(c) \/ ChangeOwner(c) \/ Clear(c)

OwnershipSpec == OwnershipInit /\ [][OwnershipNext]_ownershipVars

-------------------------------------------------------------------------------
(* Properties *)

\* those who will delete o: collections that own it, and 0 for the caller
Owners(o) ==
  {c \in Collections : isOwner[c] /\ o \in holds[c]} \cup (IF o \in callers THEN {0} ELSE {})

\* However objects are added, refused, replaced, copied, stolen and taken, each one
\* that lives has exactly one who will delete it, a collection that owns its objects
\* or the caller, and nothing is deleted that is not alive: but for those that
\* stealItems() took from their owner and a set refused, which live on with nobody
\* to delete them.
OwnedOnce ==
  /\ \A o \in Instances : memory[o] # "freed twice"
  /\ \A o \in Instances :
       Cardinality(Owners(o)) = IF memory[o] = "live" /\ o \notin forgotten THEN 1 ELSE 0
  /\ \A o \in forgotten : memory[o] = "live"

-------------------------------------------------------------------------------
(* The invariant that OwnedOnce follows from: the owners' objects and the  *)
(* caller's are apart from one another, and together they are what lives.  *)
(* What a collection holds that does not own it may be dead by now.        *)

OwnershipTypes ==
  /\ memory \in [Instances -> {"free", "live"}]
  /\ holds \in [Collections -> SUBSET Instances]
  /\ isOwner \in [Collections -> BOOLEAN]
  /\ callers \subseteq Instances /\ forgotten \subseteq Instances

\* what is to be deleted may be
OwnedLive ==
  /\ \A c \in Collections : isOwner[c] => \A o \in holds[c] : memory[o] = "live"
  /\ \A o \in callers \cup forgotten : memory[o] = "live"

\* nobody else will delete it
OwnersApart ==
  /\ \A c \in Collections : isOwner[c] => \A o \in holds[c] : o \notin callers
  /\ (isOwner[1] /\ isOwner[2]) => \A o \in holds[1] : o \notin holds[2]

\* nobody will, though it may still be in a collection that does not own it
ForgottenOwnerless ==
  \A o \in forgotten : o \notin callers /\ \A c \in Collections : isOwner[c] => o \notin holds[c]

\* somebody will
LiveOwned ==
  \A o \in Instances : memory[o] = "live" =>
    o \in callers \cup forgotten \/ \E c \in Collections : isOwner[c] /\ o \in holds[c]

OwnershipInv == OwnershipTypes /\ OwnedLive /\ OwnersApart /\ ForgottenOwnerless /\ LiveOwned

-------------------------------------------------------------------------------
(* What the operators that the calls share make of the memory *)

\* Deleting what lives: no other memory changes.
LEMMA DeletedLive ==
  ASSUME NEW m \in [Instances -> {"free", "live"}], NEW S,
         \A o \in S : o \in Instances /\ m[o] = "live"
  PROVE  /\ Deleted(m, S) \in [Instances -> {"free", "live"}]
         /\ \A o \in Instances : Deleted(m, S)[o] = "live" <=> m[o] = "live" /\ o \notin S
BY DEF Deleted

\* Making objects: no other memory changes.
LEMMA MadeLive ==
  ASSUME NEW m \in [Instances -> {"free", "live"}], NEW S
  PROVE  /\ Made(m, S) \in [Instances -> {"free", "live"}]
         /\ \A o \in Instances : Made(m, S)[o] = "live" <=> m[o] = "live" \/ o \in S
BY DEF Made

\* Clones are in free memory: they were not alive, and nobody has them.
LEMMA ClonesFree ==
  ASSUME NEW m, NEW h, NEW S
  PROVE  \A o \in ClonesOf(S, Free(m, h)) :
           o \in Instances /\ m[o] # "live" /\ \A c \in Collections : o \notin h[c]
BY DEF ClonesOf, Free

\* What a copy accepts is what there is to copy.
LEMMA AcceptedIn ==
  ASSUME NEW c, NEW kept, NEW S, NEW T \in Accepted(c, kept, S)
  PROVE  T \subseteq S
BY DEF Accepted

LEMMA OwnershipInvInit == OwnershipInit => OwnershipInv
BY DEF OwnershipInit, OwnershipInv, OwnershipTypes, OwnedLive, OwnersApart, ForgottenOwnerless,
       LiveOwned, Collections

\* it.set(): the object that makes way is deleted by an owner, which takes over the other.
LEMMA SetAtStep ==
  ASSUME OwnershipInv, NEW c \in Collections, NEW o \in Instances, NEW old \in holds[c],
         MayPut(c, o), SetAt(c, old, o), callers' = callers \ Owned(c, {o}),
         UNCHANGED <<isOwner, forgotten>>
  PROVE  OwnershipInv'
<1>. USE DEF OwnershipInv, OwnershipTypes, OwnedLive, OwnersApart, ForgottenOwnerless, LiveOwned,
             Collections, Keep
<1>1. CASE isOwner[c]
  BY <1>1, DeletedLive DEF SetAt, MayPut, Owned, Live
<1>2. CASE ~isOwner[c]
  BY <1>2, DeletedLive DEF SetAt, MayPut, Owned, Live
<1>. QED
  BY <1>1, <1>2

\* Every call keeps the owners apart and what is theirs alive.
LEMMA OwnershipInvStep == OwnershipInv /\ [OwnershipNext]_ownershipVars => OwnershipInv'
<1>. SUFFICES ASSUME OwnershipInv, [OwnershipNext]_ownershipVars PROVE OwnershipInv'
  OBVIOUS
<1>. USE DEF OwnershipInv, OwnershipTypes, OwnedLive, OwnersApart, ForgottenOwnerless, LiveOwned,
             Collections, Keep
<1>1. CASE UNCHANGED ownershipVars
  BY <1>1 DEF ownershipVars
<1>2. ASSUME NEW o \in Instances, New(o) PROVE OwnershipInv'
  <2>1. memory[o] # "live" /\ \A c \in Collections : o \notin holds[c]
    BY <1>2 DEF New, Free
  <2>. QED
    BY <1>2, <2>1, MadeLive DEF New
<1>3. ASSUME NEW o \in Instances, DeleteMine(o) PROVE OwnershipInv'
  BY <1>3, DeletedLive DEF DeleteMine
<1>4. ASSUME NEW c \in Collections, NEW o \in Instances, Add(c, o) PROVE OwnershipInv'
  BY <1>4, DeletedLive DEF Add, MayPut, Owned, Live
<1>5. ASSUME NEW c \in Collections, NEW o \in Instances, AddClone(c, o) PROVE OwnershipInv'
  BY <1>5, MadeLive, ClonesFree DEF AddClone
<1>6. ASSUME NEW c \in Collections, NEW o \in Instances, AddOrFind(c, o) PROVE OwnershipInv'
  BY <1>6, DeletedLive DEF AddOrFind, MayPut, Owned, Live
<1>7. ASSUME NEW c \in Collections, NEW o \in Instances, AddOrUpdate(c, o) PROVE OwnershipInv'
  <2>1. CASE Matching(holds[c], o[1]) = {}
    BY <1>7, <2>1 DEF AddOrUpdate, MayPut, Owned, Live
  <2>2. ASSUME NEW old \in holds[c], SetAt(c, old, o), callers' = callers \ Owned(c, {o})
        PROVE  OwnershipInv'
    BY <1>7, <2>2, SetAtStep DEF AddOrUpdate
  <2>. QED
    BY <1>7, <2>1, <2>2 DEF AddOrUpdate, Matching
<1>8. ASSUME NEW c \in Collections, NEW o \in Instances, Update(c, o) PROVE OwnershipInv'
  <2>1. CASE Matching(holds[c], o[1]) = {}
    BY <1>8, <2>1, DeletedLive DEF Update, MayPut, Owned, Live
  <2>2. ASSUME NEW old \in holds[c], SetAt(c, old, o), callers' = callers \ Owned(c, {o})
        PROVE  OwnershipInv'
    BY <1>8, <2>2, SetAtStep DEF Update
  <2>. QED
    BY <1>8, <2>1, <2>2 DEF Update, Matching
<1>9. ASSUME NEW c \in Collections, NEW o \in Instances, Take(c, o) PROVE OwnershipInv'
  BY <1>9 DEF Take, Owned
<1>10. ASSUME NEW c \in Collections, NEW o \in Instances, Remove(c, o) PROVE OwnershipInv'
  BY <1>10, DeletedLive DEF Remove, Owned
<1>11. ASSUME NEW c \in Collections, NEW d \in Collections, CopyItemsCall(c, d) PROVE OwnershipInv'
  <2>1. CASE isOwner[c]
    <3>1. [holds EXCEPT ![c] = holds[c]] = holds
      OBVIOUS
    <3>2. PICK T \in Accepted(c, holds[c], holds[d]) :
            /\ memory' = Made(memory, ClonesOf(T, Free(memory, holds)))
            /\ holds' = [holds EXCEPT ![c] = holds[c] \cup ClonesOf(T, Free(memory, holds))]
      BY <1>11, <2>1, <3>1 DEF CopyItemsCall, CopyItems
    <3>. QED
      BY <1>11, <2>1, <3>2, MadeLive, ClonesFree DEF CopyItemsCall
  <2>2. CASE ~isOwner[c]
    BY <1>11, <2>2, AcceptedIn DEF CopyItemsCall, CopyItems
  <2>. QED
    BY <2>1, <2>2
<1>12. ASSUME NEW c \in Collections, NEW d \in Collections, Copy(c, d) PROVE OwnershipInv'
  BY <1>12, MadeLive, DeletedLive, ClonesFree, AcceptedIn DEF Copy, CopyItems, Owned
<1>13. ASSUME NEW c \in Collections, NEW d \in Collections, StealItems(c, d) PROVE OwnershipInv'
  <2>1. PICK T \in Accepted(c, holds[c], holds[d]) :
          /\ holds' = [holds EXCEPT ![c] = @ \cup T, ![d] = {}]
          /\ forgotten' = forgotten \cup (holds[d] \ T)
    BY <1>13 DEF StealItems
  <2>2. T \subseteq holds[d]
    BY AcceptedIn
  <2>3. /\ c # d /\ isOwner[c] /\ isOwner[d] /\ UNCHANGED <<memory, isOwner, callers>>
        /\ holds'[c] = holds[c] \cup T /\ holds'[d] = {}
    BY <1>13, <2>1 DEF StealItems
  <2>. QED
    BY <2>1, <2>2, <2>3
<1>14. ASSUME NEW c \in Collections, AssertOwner(c) PROVE OwnershipInv'
  BY <1>14, MadeLive, ClonesFree DEF AssertOwner
<1>15. ASSUME NEW c \in Collections, ChangeOwner(c) PROVE OwnershipInv'
  <2>1. CASE isOwner[c]
    BY <1>15, <2>1 DEF ChangeOwner
  <2>2. CASE ~isOwner[c]
    <3>1. isOwner' \in [Collections -> BOOLEAN] /\ \A d \in Collections : isOwner'[d] <=> d = c \/ isOwner[d]
      BY <1>15, <2>2 DEF ChangeOwner
    <3>. QED
      BY <1>15, <2>2, <3>1 DEF ChangeOwner
  <2>. QED
    BY <2>1, <2>2
<1>16. ASSUME NEW c \in Collections, Clear(c) PROVE OwnershipInv'
  BY <1>16, DeletedLive DEF Clear, Owned
<1>. QED
  BY <1>1, <1>2, <1>3, <1>4, <1>5, <1>6, <1>7, <1>8, <1>9, <1>10, <1>11, <1>12, <1>13, <1>14, <1>15, <1>16
     DEF OwnershipNext

\* In any sequence of calls on two collections of any objects, each object that lives
\* has exactly one who will delete it, or nobody if it is one that a set refused when it
\* was stolen, and nothing is deleted twice (Collection.h).
THEOREM ObjectsOwnedOnce == OwnershipSpec => []OwnedOnce
<1>1. OwnershipInv => OwnedOnce
  <2>. SUFFICES ASSUME OwnershipInv
                PROVE  OwnedOnce
    OBVIOUS
  <2>1. \A o \in Instances : memory[o] # "freed twice"
    BY DEF OwnershipInv, OwnershipTypes
  <2>2. ASSUME NEW o \in Instances, memory[o] = "live", o \notin forgotten
        PROVE  Cardinality(Owners(o)) = 1
    <3>1. Owners(o) = {0} \/ Owners(o) = {1} \/ Owners(o) = {2}
      BY <2>2 DEF OwnershipInv, OwnersApart, LiveOwned, Collections, Owners
    <3>. QED
      BY <3>1, FS_Singleton
  <2>3. ASSUME NEW o \in Instances, memory[o] # "live" \/ o \in forgotten
        PROVE  Cardinality(Owners(o)) = 0
    <3>1. Owners(o) = {}
      BY <2>3 DEF OwnershipInv, OwnedLive, ForgottenOwnerless, Owners
    <3>. QED
      BY <3>1, FS_EmptySet
  <2>4. \A o \in forgotten : memory[o] = "live"
    BY DEF OwnershipInv, OwnedLive
  <2>. QED
    BY <2>1, <2>2, <2>3, <2>4 DEF OwnedOnce
<1>. QED
  BY <1>1, OwnershipInvInit, OwnershipInvStep, PTL DEF OwnershipSpec

===============================================================================
