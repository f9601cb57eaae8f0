----------------------------------- MODULE Heap ---------------------------------
(***************************************************************************)
(* utl::Heap (ucc/Heap), what PriorityQueue is: objects in an array, every *)
(* one at most its parent.  Removal by key or by an iterator takes one out *)
(* of the middle, and the object that takes the place may have to rise.    *)
(*                                                                         *)
(* The array is a function from 0..n-1; a slot that holds no object any    *)
(* more is not in its domain.  Objects are tuples with their key in front; *)
(* ord is 1 for the natural ordering and -1 for the reverse one, which     *)
(* heapSort() may ask its heap for.                                        *)
(***************************************************************************)
EXTENDS Integers, FiniteSets

CONSTANTS NumKeys, Copies   \* the objects: Copies of each of NumKeys keys

HeapObjects == (1..NumKeys) \X (1..Copies)
KeyOf(o) == o[1]

VARIABLES array,            \* _array, as far as it is used
          items,            \* _items
          multiSet,         \* isMultiSet()
          popped            \* what the last pop() returned

heapVars == <<array, items, multiSet, popped>>

Nobody == <<0, 0>>          \* nullptr

-------------------------------------------------------------------------------
(* The array *)

\* compareObjects(), utl::compare()
Compare(x, y, ord) == ord * (x[1] - y[1])

\* a[i] := x, one past the end included
Put(a, i, x) == [j \in DOMAIN a \union {i} |-> IF j = i THEN x ELSE a[j]]

\* the array of n objects without its last slot
Pop(a, n) == [j \in 0..(n - 2) |-> a[j]]

ParentOf(i) == (i - 1) \div 2

\* swapUp(): x, which belongs into slot i, rises until its parent is not smaller
RECURSIVE SwapUp(_, _, _, _)
SwapUp(a, i, x, ord) ==
  IF i = 0 \/ Compare(a[ParentOf(i)], x, ord) >= 0
  THEN Put(a, i, x)
  ELSE SwapUp(Put(a, i, a[ParentOf(i)]), ParentOf(i), x, ord)

\* swapDown(): x sinks until neither child is greater
RECURSIVE SwapDown(_, _, _, _)
SwapDown(a, i, x, ord) ==
  LET left  == 2 * i + 1
      right == left + 1
      child == IF right \in DOMAIN a /\ Compare(a[right], a[left], ord) > 0 THEN right ELSE left
  IN IF left \notin DOMAIN a \/ Compare(x, a[child], ord) >= 0
     THEN Put(a, i, x)
     ELSE SwapDown(Put(a, i, a[child]), child, x, ord)

\* mutant: the last object, which takes the place, only sinks
RemoveIdxDown(a, n, i, ord) ==
  IF i = n - 1 THEN Pop(a, n) ELSE SwapDown(Pop(a, n), i, a[n - 1], ord)

\* removeIdx() of an array of n objects: the last one takes the place, and
\* rises or sinks from there
RemoveIdx(a, n, i, ord) ==
  LET rest == Pop(a, n)
      last == a[n - 1]
  IN IF i = n - 1 THEN rest
     ELSE IF i > 0 /\ Compare(last, rest[ParentOf(i)], ord) > 0 THEN SwapUp(rest, i, last, ord)
     ELSE SwapDown(rest, i, last, ord)

-------------------------------------------------------------------------------
(* The collection *)

Init ==
  /\ array = [i \in {} |-> Nobody]
  /\ items = 0
  /\ multiSet \in BOOLEAN
  /\ popped = Nobody

Inside == {array[i] : i \in DOMAIN array}

\* find(): the first in the array
FindIdx(k) ==
  CHOOSE i \in DOMAIN array :
    array[i][1] = k /\ \A j \in 0..(i - 1) : array[j][1] # k

Add(o) ==
  /\ o \notin Inside
  /\ multiSet \/ \A x \in Inside : x[1] # o[1]
  /\ array' = SwapUp(array, items, o, 1)
  /\ items' = items + 1
  /\ popped' = Nobody
  /\ UNCHANGED multiSet

TakeOut(i) ==
  /\ array' = RemoveIdx(array, items, i, 1)
  /\ items' = items - 1
  /\ UNCHANGED multiSet

PopMax ==
  /\ items > 0
  /\ popped' = array[0]
  /\ TakeOut(0)

\* remove(key)
Remove(k) ==
  /\ \E x \in Inside : x[1] = k
  /\ TakeOut(FindIdx(k))
  /\ popped' = Nobody

\* removeIt(), wherever the iterator stands
RemoveIt ==
  /\ \E i \in DOMAIN array : TakeOut(i)
  /\ popped' = Nobody

Clear ==
  /\ array' = [i \in {} |-> Nobody] /\ items' = 0 /\ popped' = Nobody
  /\ UNCHANGED multiSet

Next ==
  \/ \E o \in HeapObjects : Add(o)
  \/ \E k \in 1..NumKeys : Remove(k)
  \/ PopMax \/ RemoveIt \/ Clear

Spec == Init /\ [][Next]_heapVars

-------------------------------------------------------------------------------
(* Properties *)

\* "Return the largest contained object" and "Remove the largest object"
\* (Heap.h): no object is greater than its parent, so that the first is the
\* greatest, after removals from the middle, too; what pop() returned is at least
\* what it left; and the array holds _items different objects.
HeapOrdered ==
  /\ DOMAIN array = 0..(items - 1) /\ Cardinality(Inside) = items
  /\ \A i \in DOMAIN array : i > 0 => array[i][1] <= array[ParentOf(i)][1]
  /\ popped # Nobody => \A x \in Inside : x[1] <= popped[1]

===============================================================================
