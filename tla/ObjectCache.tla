------------------------------- MODULE ObjectCache ------------------------------
(***************************************************************************)
(* utl::ObjectCache (ucc/ObjectCache): a Hashtable finds an object by its  *)
(* key, and a List whose nodes the Hashtable's objects name has them in    *)
(* the order of their last use.                                            *)
(*                                                                         *)
(* The Hashtable is a function from the keys it holds; the List is that of *)
(* its module, link by link, with its nodes named by their objects.  A     *)
(* cache of no places, whose first add() steps before the List's begin, is *)
(* left out.                                                               *)
(***************************************************************************)
EXTENDS Naturals, Sequences, FiniteSets

Ext == INSTANCE SequencesExt

CONSTANTS NumKeys, Copies,
          MaxSize,          \* bound: the places of a cache
          Back, Nil         \* the List's last node, and nullptr

VARIABLES table,            \* _ht: the objects by their keys
          next, prev, front, items, it, \* _list, _items, and an iterator
          size,             \* _size
          frozen,           \* isFrozen()
          lru               \* the cached objects, the last used one first

cacheVars == <<table, next, prev, front, items, it, size, frozen, lru>>

Chain == INSTANCE List WITH keepSorted <- FALSE, multiSet <- TRUE

Objects == Chain!Objects
Cached(key) == key \in DOMAIN table

Init ==
  /\ table = <<>>
  /\ next = [n \in Chain!Nodes |-> Nil] /\ prev = [n \in Chain!Nodes |-> Nil]
  /\ front = Back /\ it = Back
  /\ items = 0
  /\ size \in 1..MaxSize
  /\ frozen \in BOOLEAN
  /\ lru = <<>>

-------------------------------------------------------------------------------
(* What an LRU cache does to the order of use *)

Without(o) == SelectSeq(lru, LAMBDA x : x # o)

Used(o)  == lru' = <<o>> \o Without(o)
Added(o) == lru' = <<o>> \o SubSeq(lru, 1, IF Len(lru) < size THEN Len(lru) ELSE size - 1)

-------------------------------------------------------------------------------
(* Operations *)

\* mutant: the first object stays in front of the one that is used
MoveToFrontSecond(o) ==
  IF frozen \/ o = front THEN UNCHANGED <<next, prev, front, items, it>>
  ELSE /\ Chain!SetLinks(Chain!LinkBefore(Chain!Unlink(Chain!Links, o), o, next[front]))
       /\ UNCHANGED <<front, items, it>>

\* access() of a node
MoveToFront(o) ==
  IF frozen \/ o = front THEN UNCHANGED <<next, prev, front, items, it>>
  ELSE Chain!Relink(o, front)

\* access(), find() and findIt() of what is there
Access(o) ==
  /\ Cached(o[1])
  /\ LET mine == table[o[1]]
     IN /\ MoveToFront(mine)
        /\ IF frozen THEN UNCHANGED lru ELSE Used(mine)
  /\ UNCHANGED <<table, size, frozen>>

\* mutant: the object that was used last makes room
EvictedFirst == front

Evicted == prev[Back]

\* addCache(), which access() of an object that is not cached calls, unless frozen
Add(o) ==
  LET full  == items = size
      gone  == Evicted
      links == IF full THEN Chain!Unlink(Chain!Links, gone) ELSE Chain!Links
      first == IF full /\ gone = front THEN next[gone] ELSE front
      keys  == DOMAIN table \ (IF full THEN {gone[1]} ELSE {})
  IN /\ ~Cached(o[1])
     /\ Chain!SetLinks(Chain!LinkBefore(links, o, first))
     /\ front' = o
     /\ table' = [k \in keys \cup {o[1]} |-> IF k = o[1] THEN o ELSE table[k]]
     /\ items' = Cardinality(keys) + 1
     /\ it' = IF full /\ it = gone THEN Back ELSE it
     /\ Added(o)
     /\ UNCHANGED <<size, frozen>>

\* removeCache(); the caller's iterator is on the node x then
RemoveObject(o, x) ==
  /\ Chain!TakeOut(o, x)
  /\ table' = [k \in DOMAIN table \ {o[1]} |-> table[k]]
  /\ lru' = Without(o)
  /\ UNCHANGED <<size, frozen>>

Remove(key) == Cached(key) /\ RemoveObject(table[key], Chain!Elsewhere(table[key]))

\* the iterator is moved on before its object is removed by its key
RemoveIt == it # Back /\ RemoveObject(it, next[it])

\* clear(), and set(), which gives the cache another size
Set(s) ==
  /\ Chain!Empty
  /\ table' = <<>> /\ lru' = <<>>
  /\ size' = s
  /\ UNCHANGED frozen

SetFrozen == frozen' = ~frozen /\ UNCHANGED <<table, next, prev, front, items, it, size, lru>>

Iterate ==
  /\ Chain!GoTo(front) \/ (next[it] # Nil /\ Chain!GoTo(next[it]))
  /\ UNCHANGED <<table, size, frozen, lru>>

Next ==
  \/ \E o \in Objects : Access(o) \/ Add(o)
  \/ \E key \in 1..NumKeys : Remove(key)
  \/ RemoveIt \/ SetFrozen \/ Iterate
  \/ \E s \in 1..MaxSize : Set(s)

Spec == Init /\ [][Next]_cacheVars

-------------------------------------------------------------------------------
(* Properties *)

\* The List has the cached objects in the order of their last use, the Hashtable has
\* the same ones, never more than the cache's size; and what was just evicted was
\* the one whose last use lies furthest back.
CacheIsLRU ==
  /\ Chain!ListWhole
  /\ Chain!InList = Append(lru, Back)
  /\ Len(lru) <= size
  /\ \A i \in DOMAIN lru : Cached(lru[i][1]) /\ table[lru[i][1]] = lru[i]
  /\ Cardinality(DOMAIN table) = Len(lru)

===============================================================================
