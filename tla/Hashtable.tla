-------------------------------- MODULE Hashtable -------------------------------
(***************************************************************************)
(* utl::Hashtable and its iterator (ucc/Hashtable).  A slot of the array   *)
(* holds nothing, one object, or a list of two or more: a slot is its chain*)
(* here, and what the pointer in it is follows from the chain's length.    *)
(* The table grows when it holds as many objects as its load factor allows,*)
(* before the new one is looked at; the constructor's table has no slots.  *)
(*                                                                         *)
(* The objects are numbers, Copies of each key; a key hashes to itself     *)
(* modulo the size.  An iterator is at a slot and, in a list, at a node: 0 *)
(* stands for the null _node of one on a single object, and a node is named*)
(* by its object.  The caller keeps it only until it calls something else  *)
(* that changes the table.                                                 *)
(***************************************************************************)
EXTENDS Naturals, Sequences, FiniteSets

Ext == INSTANCE SequencesExt

CONSTANTS NumKeys, Copies,
          Primes,           \* the sizes a table can have (7, 13, 23, ... in the code)
          MaxLF             \* _maxLF, in percent

VARIABLES slots,            \* _array: 0..size-1 -> chain
          limit,            \* _limit
          items,            \* _items
          multiSet,         \* isMultiSet()
          place             \* where the caller's iterator stands, NoPlace without one

hashVars == <<slots, limit, items, multiSet, place>>

Objects == 1..(NumKeys * Copies)
KeyOf(o) == (o - 1) \div Copies
Keys == 0..(NumKeys - 1)

Size == Cardinality(DOMAIN slots)
EndPlace == [idx |-> 99, node |-> 0]        \* _idx = size_t_max
NoPlace  == [idx |-> 98, node |-> 0]

Init ==
  /\ slots = [i \in {} |-> <<>>]
  /\ limit = 0 /\ items = 0
  /\ multiSet \in BOOLEAN
  /\ place = NoPlace

-------------------------------------------------------------------------------
(* add() and its kin *)

Hash(o, size) == KeyOf(o) % size

\* list_findInsertionPoint() and what add() does around it: in the order of the
\* keys, before the first that is not smaller
IntoChain(chain, o) ==
  Ext!InsertAt(chain, 1 + Cardinality({i \in DOMAIN chain : KeyOf(chain[i]) < KeyOf(o)}), o)

IntoSlots(s, o) ==
  LET i == Hash(o, Cardinality(DOMAIN s))
  IN [s EXCEPT ![i] = IntoChain(@, o)]

\* the objects slot by slot
AllOf(s) ==
  LET upTo[i \in 0..Cardinality(DOMAIN s)] == IF i = 0 THEN <<>> ELSE upTo[i - 1] \o s[i - 1]
  IN upTo[Cardinality(DOMAIN s)]

\* primes[i]: the least that is not smaller
Fixed(size) == CHOOSE p \in Primes :
                 p >= size /\ \A q \in Primes : q >= size => p <= q

\* mutant: of a list only the head is added again
RehashedHeads(s, size) ==
  LET heads == Ext!SetToSeq({s[i][1] : i \in {j \in DOMAIN s : s[j] # <<>>}})
      upTo[k \in 0..Len(heads)] ==
        IF k = 0 THEN [i \in 0..(size - 1) |-> <<>>] ELSE IntoSlots(upTo[k - 1], heads[k])
  IN upTo[Len(heads)]

\* the objects of s added again, one by one, to an empty array
Rehashed(s, size) ==
  LET all == AllOf(s)
      upTo[k \in 0..Len(all)] ==
        IF k = 0 THEN [i \in 0..(size - 1) |-> <<>>] ELSE IntoSlots(upTo[k - 1], all[k])
  IN upTo[Len(all)]

\* grow(): the array and its limit when a size is needed
Sized(need) ==
  IF need <= Size THEN [slots |-> slots, limit |-> limit]
  ELSE LET size == Fixed(need)
       IN [slots |-> Rehashed(slots, size), limit |-> (size * MaxLF) \div 100]

\* the first thing that the three add functions do
Roomy == IF items >= limit THEN Sized(Size + 1) ELSE [slots |-> slots, limit |-> limit]

Inside == Ext!Range(AllOf(slots))
EqualTo(k) == {x \in Inside : KeyOf(x) = k}

CanSize(need) == \E p \in Primes : p >= need
Addable(o) == o \notin Inside /\ (items >= limit => CanSize(Size + 1))

\* add() and addOrFind(): an object that is refused may have made the table grow
Add(o) ==
  /\ Addable(o)
  /\ limit' = Roomy.limit
  /\ IF ~multiSet /\ EqualTo(KeyOf(o)) # {}
     THEN slots' = Roomy.slots /\ UNCHANGED items
     ELSE slots' = IntoSlots(Roomy.slots, o) /\ items' = items + 1
  /\ place' = NoPlace
  /\ UNCHANGED multiSet

\* addOrUpdate() where add() would refuse
Update(o) ==
  /\ Addable(o) /\ ~multiSet
  /\ limit' = Roomy.limit
  /\ \E x \in EqualTo(KeyOf(o)) :
       slots' = [i \in DOMAIN Roomy.slots |-> Ext!ReplaceAll(Roomy.slots[i], x, o)]
  /\ place' = NoPlace
  /\ UNCHANGED <<items, multiSet>>

Reserve(n) ==
  LET need == (n * 100) \div MaxLF
  IN /\ n > limit /\ CanSize(need)
     /\ slots' = Sized(need).slots /\ limit' = Sized(need).limit
     /\ place' = NoPlace
     /\ UNCHANGED <<items, multiSet>>

-------------------------------------------------------------------------------
(* The iterator *)

\* what an iterator at slot i has for a _node: the list's first or last
PlaceAt(i, last) ==
  [idx |-> i, node |-> IF Len(slots[i]) = 1 THEN 0 ELSE slots[i][IF last THEN Len(slots[i]) ELSE 1]]

Index(p) == CHOOSE k \in DOMAIN slots[p.idx] : slots[p.idx][k] = p.node

OnObject(p) ==
  /\ p.idx \in DOMAIN slots
  /\ IF Len(slots[p.idx]) = 1 THEN p.node = 0 ELSE p.node \in Ext!Range(slots[p.idx])

FirstFrom(i) ==
  LET used == {j \in DOMAIN slots : j >= i /\ slots[j] # <<>>}
  IN IF used = {} THEN EndPlace ELSE PlaceAt(CHOOSE j \in used : \A k \in used : j <= k, FALSE)

LastBefore(i) ==
  LET used == {j \in DOMAIN slots : j < i /\ slots[j] # <<>>}
  IN IF used = {} THEN EndPlace ELSE PlaceAt(CHOOSE j \in used : \A k \in used : k <= j, TRUE)

\* mutant: the node after the list's head is taken for its last
ForwardShort(p) ==
  IF p.node # 0 /\ Index(p) = 1 /\ Len(slots[p.idx]) > 2
  THEN FirstFrom(p.idx + 1)
  ELSE IF p.node = 0 \/ Index(p) = Len(slots[p.idx]) THEN FirstFrom(p.idx + 1)
  ELSE [p EXCEPT !.node = slots[p.idx][Index(p) + 1]]

\* HashtableIt::forward() and reverse() by one; from its first object reverse()
\* gets to the end
Forward(p) ==
  IF p = EndPlace THEN EndPlace
  ELSE IF p.node = 0 \/ Index(p) = Len(slots[p.idx]) THEN FirstFrom(p.idx + 1)
  ELSE [p EXCEPT !.node = slots[p.idx][Index(p) + 1]]

Reverse(p) ==
  IF p.node = 0 \/ Index(p) = 1 THEN LastBefore(p.idx)
  ELSE [p EXCEPT !.node = slots[p.idx][Index(p) - 1]]

\* begin()
BeginPlace == IF items = 0 THEN EndPlace ELSE FirstFrom(0)

Move(p) == place' = p /\ UNCHANGED <<slots, limit, items, multiSet>>

Begin == Move(BeginPlace)
SeekEnd == Move(EndPlace)
Step == OnObject(place) /\ Move(Forward(place))
StepBack == /\ IF place = EndPlace THEN TRUE ELSE OnObject(place)
            /\ Move(Reverse(place))

-------------------------------------------------------------------------------
(* Removal *)

\* the first that equals the key, in the list's order
Found(k) == LET i == k % Size
                at == {j \in DOMAIN slots[i] : KeyOf(slots[i][j]) = k}
            IN slots[i][CHOOSE j \in at : \A l \in at : j <= l]

\* findIt()
FindIt(k) ==
  Move(IF EqualTo(k) = {} THEN EndPlace
       ELSE LET i == k % Size
            IN [idx |-> i, node |-> IF Len(slots[i]) = 1 THEN 0 ELSE Found(k)])

\* remove(idx, node): the list goes with its last object but one
TakeOut(i, o) ==
  /\ slots' = [slots EXCEPT ![i] = SelectSeq(@, LAMBDA x : x # o)]
  /\ items' = items - 1
  /\ UNCHANGED <<limit, multiSet>>

Remove(k) ==
  /\ EqualTo(k) # {}
  /\ TakeOut(k % Size, Found(k))
  /\ place' = NoPlace

\* removeIt(): the iterator goes on before the object is removed
RemoveIt ==
  /\ OnObject(place)
  /\ place' = Forward(place)
  /\ TakeOut(place.idx, IF place.node = 0 THEN slots[place.idx][1] ELSE place.node)

Clear ==
  /\ slots' = [i \in DOMAIN slots |-> <<>>]
  /\ items' = 0 /\ place' = NoPlace
  /\ UNCHANGED <<limit, multiSet>>

Excise ==
  /\ slots' = [i \in {} |-> <<>>]
  /\ limit' = 0 /\ items' = 0 /\ place' = NoPlace
  /\ UNCHANGED multiSet

-------------------------------------------------------------------------------

Next ==
  \/ \E o \in Objects : Add(o) \/ Update(o)
  \/ \E k \in Keys : Remove(k) \/ FindIt(k)
  \/ \E n \in Objects : Reserve(n)
  \/ RemoveIt \/ Clear \/ Excise \/ Begin \/ SeekEnd \/ Step \/ StepBack

Spec == Init /\ [][Next]_hashVars

-------------------------------------------------------------------------------
(* Properties *)

\* The places that an iterator passes on its way from `from'
Way(from, Move1(_)) ==
  LET way[n \in 0..items] == IF n = 0 THEN from ELSE Move1(way[n - 1])
  IN way

\* Every object is in the slot that its key hashes to, whatever size the table
\* has grown to, in order in its chain and once; _items counts them; and an
\* iterator meets each of them once on its way forward, and back.
HashtableWhole ==
  /\ items = Len(AllOf(slots)) /\ Cardinality(Inside) = items
  /\ \A i \in DOMAIN slots :
       LET c == slots[i]
       IN /\ \A j \in DOMAIN c : Hash(c[j], Size) = i
          /\ \A j \in 2..Len(c) : IF multiSet THEN KeyOf(c[j - 1]) <= KeyOf(c[j])
                                              ELSE KeyOf(c[j - 1]) < KeyOf(c[j])
  /\ LET ahead == Way(BeginPlace, Forward)
         back  == Way(LastBefore(Size), Reverse)
     IN /\ ahead[items] = EndPlace
        /\ \A n \in 0..(items - 1) : OnObject(ahead[n]) /\ back[n] = ahead[items - 1 - n]
        /\ Cardinality({ahead[n] : n \in 0..(items - 1)}) = items

Set == INSTANCE ObjectSet WITH contents <- Inside

===============================================================================
