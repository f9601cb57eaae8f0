---------------------------------- MODULE Array ----------------------------------
(***************************************************************************)
(* utl::Array (ucc/Array): a Vector of pointers with holes.  An object can *)
(* be set at any index, removed with or without moving those behind it,    *)
(* and added where the first null entry is; _firstNull and _items are kept *)
(* up by every call, and the vector ends with an object.                   *)
(*                                                                         *)
(* Indices count from 0.  An object is <<key, copy>>.  The calls that      *)
(* search are made when there is no hole, as the ones that relocate demand;*)
(* ranges of more than one object are not removed (removeItems() looks at  *)
(* the first entry of the range for all of them).                          *)
(***************************************************************************)
EXTENDS Naturals, Sequences, FiniteSets

CONSTANTS NumKeys, Copies,
          MaxSize,          \* bound on the vector's size
          FirstAlloc,       \* what init() reserves: 4 in the code
          Junk, NoObject    \* an unwritten cell, and nullptr

VARIABLES array,            \* _array
          items,            \* _items
          firstNull,        \* _firstNull
          keepSorted,       \* isKeptSorted()
          multiSet,         \* isMultiSet()
          inside            \* the objects that were added and not removed

arrayVars == <<array, items, firstNull, keepSorted, multiSet, inside>>

SizeMax == MaxSize + 1      \* size_t_max

Objects == (1..NumKeys) \X (1..Copies)

Least(S)    == CHOOSE x \in S : \A y \in S : x <= y
Lesser(x, y) == IF x < y THEN x ELSE y

-------------------------------------------------------------------------------
(* Vector (ucc/Vector.h) of a trivially copyable type, as operators on a   *)
(* record: the cells of its allocation, of which the first _size are in    *)
(* the sequence, and the growth increment.  A cell that was never written  *)
(* holds Junk; one past the end keeps what it held.                        *)

Doubling == 0               \* _increment = size_t_max

Capacity(v) == Len(v.cells)

EmptyVector(increment) == [cells |-> <<>>, size |-> 0, increment |-> increment]

\* nextPow2() or nextMultipleOfPow2()
AllocSize(increment, required) ==
  IF increment = Doubling
  THEN IF required = 0 THEN 0
       ELSE CHOOSE p \in {2 ^ e : e \in 0..required} : p >= required /\ p < 2 * required
  ELSE ((required + increment - 1) \div increment) * increment

\* _setAllocSize(): the old allocation's bytes are copied, all that fit
SetAllocSize(v, required) ==
  LET n == AllocSize(v.increment, required)
  IN [v EXCEPT !.cells = [i \in 1..n |-> IF i <= Capacity(v) THEN v.cells[i] ELSE Junk],
               !.size = IF v.size < required THEN v.size ELSE required]

Reserve(v, n) == IF n > Capacity(v) THEN SetAllocSize(v, n) ELSE v

EconomizeVector(v) ==
  IF Capacity(v) > v.size
  THEN [SetAllocSize([v EXCEPT !.increment = 1], v.size) EXCEPT !.increment = v.increment]
  ELSE v

\* _autoInit() of the cells [begin, end)
AutoInit(v, begin, end) ==
  [v EXCEPT !.cells = [i \in DOMAIN @ |-> IF i > begin /\ i <= end THEN NoObject ELSE @[i]]]

\* setSize(), which may shrink the sequence
SetSize(v, n) ==
  LET w == Reserve(v, n)
  IN [(IF n > v.size THEN AutoInit(w, v.size, n) ELSE w) EXCEPT !.size = n]

\* mutant: only cells of a new allocation are initialised
GrowNewOnly(v, n) ==
  IF n <= v.size THEN v ELSE [AutoInit(Reserve(v, n), Capacity(v), n) EXCEPT !.size = n]

\* grow() with autoInit()
Grow(v, n) ==
  IF n <= v.size THEN v ELSE [AutoInit(Reserve(v, n), v.size, n) EXCEPT !.size = n]

\* insert(): num cells before the one at idx, initialised
InsertCells(v, idx, num) ==
  LET w == Grow(v, v.size + num)
  IN AutoInit([w EXCEPT !.cells = [i \in DOMAIN @ |->
                 IF i > idx + num /\ i <= w.size THEN @[i - num] ELSE @[i]]], idx, idx + num)

\* remove(): the cells behind move to the left, and the last ones are left as they were
RemoveCells(v, idx, num) ==
  [v EXCEPT !.cells = [i \in DOMAIN @ |-> IF i > idx /\ i <= v.size - num THEN @[i + num] ELSE @[i]],
            !.size = @ - num]

\* relocate(): the cell at src before the one that is at dest
RelocateCell(v, dest, src) ==
  LET s == src + 1
      d == IF src < dest THEN dest ELSE dest + 1
  IN IF dest = src \/ dest = s THEN v
     ELSE [v EXCEPT !.cells = [i \in DOMAIN @ |->
            IF i = d THEN @[s]
            ELSE IF s <= i /\ i < d THEN @[i + 1]
            ELSE IF d < i /\ i <= s THEN @[i - 1]
            ELSE @[i]]]

\* operator[](idx) = x
Put(v, idx, x) == [v EXCEPT !.cells[idx + 1] = x]

-------------------------------------------------------------------------------
(* Array *)

Init ==
  /\ array = Reserve(EmptyVector(Doubling), FirstAlloc)
  /\ items = 0 /\ firstNull = 0
  /\ keepSorted \in BOOLEAN /\ multiSet \in BOOLEAN
  /\ inside = {}

-------------------------------------------------------------------------------
(* What the calls share *)

\* get(), which looks at the cell whatever the size
At(v, idx) == v.cells[idx + 1]

NullsFrom(v, idx) == {i \in idx..(v.size - 1) : At(v, i) = NoObject}

\* setFirstNull()
NextNull(v, idx) == IF NullsFrom(v, idx) = {} THEN v.size ELSE Least(NullsFrom(v, idx))

HasHole == firstNull # array.size

\* fixArraySize(): the size that ends with the last object below n
EndOfObjects(v, n) ==
  LET used == {i \in 0..(n - 1) : At(v, i) # NoObject}
  IN IF used = {} THEN 0 ELSE 1 + CHOOSE i \in used : \A j \in used : j <= i

\* ... and what it does to the two fields, nulls being the first of them
FixSize(v, n, nulls) ==
  LET size == EndOfObjects(v, n)
  IN array' = SetSize(v, size) /\ firstNull' = Lesser(nulls, size)

\* _remove(), and the object it removes if there is one
Removed(v, idx)  == Put(v, idx, NoObject)
ObjectAt(v, idx) == {At(v, idx)} \ {NoObject}

Count(S) == IF S = {} THEN 0 ELSE 1

\* mutant: the entry behind is taken for the next null one
SetObjectNext(v, idx, o, nulls, known) ==
  LET w == Grow(v, idx + 1)
      old == ObjectAt(w, idx)
  IN /\ array' = Put(w, idx, o)
     /\ items' = items + 1 - Count(old)
     /\ inside' = (inside \ old) \cup {o}
     /\ firstNull' = IF idx = nulls THEN nulls + 1 ELSE nulls

\* set() of an object in v, where the first null entry is nulls; known is the
\* next one, or size_t_max
SetObject(v, idx, o, nulls, known) ==
  LET w == Grow(v, idx + 1)
      old == ObjectAt(w, idx)
      full == Put(w, idx, o)
  IN /\ array' = full
     /\ items' = items + 1 - Count(old)
     /\ inside' = (inside \ old) \cup {o}
     /\ firstNull' = IF idx # nulls THEN nulls
                     ELSE IF known = SizeMax THEN NextNull(full, nulls + 1) ELSE known

-------------------------------------------------------------------------------
(* Searching, without holes *)

Matches(key) == {i \in 0..(array.size - 1) : At(array, i)[1] = key}

\* std::lower_bound() in a sorted array
LowerBound(key) ==
  LET notLess == {i \in 0..(array.size - 1) : At(array, i)[1] >= key}
  IN IF notLess = {} THEN array.size ELSE Least(notLess)

\* findIndex(key, find_first)
FindIndex(key) ==
  IF keepSorted
  THEN IF LowerBound(key) \in Matches(key) THEN LowerBound(key) ELSE SizeMax
  ELSE IF Matches(key) = {} THEN SizeMax ELSE Least(Matches(key))

-------------------------------------------------------------------------------
(* Operations *)

Keep == UNCHANGED <<keepSorted, multiSet>>

MayAdd(o) == o \notin inside /\ array.size < MaxSize

\* add(object) of an array that is kept sorted; a duplicate is refused by a set
AddSorted(o) ==
  /\ MayAdd(o) /\ keepSorted /\ ~HasHole
  /\ LET idx == LowerBound(o[1])
     IN IF idx < array.size
        THEN /\ multiSet \/ At(array, idx)[1] # o[1]
             /\ SetObject(InsertCells(array, idx, 1), idx, o, Lesser(firstNull, idx),
                          IF idx < firstNull THEN firstNull + 1 ELSE SizeMax)
        ELSE SetObject(array, idx, o, firstNull, SizeMax)
  /\ Keep

\* add(object) otherwise: in the first null entry
AddUnsorted(o) ==
  /\ MayAdd(o) /\ ~keepSorted
  /\ ~multiSet => ~HasHole /\ Matches(o[1]) = {}
  /\ SetObject(array, firstNull, o, firstNull, SizeMax)
  /\ Keep

\* add(idx, object) and insert(): an entry is made for it, inside the array
AddAt(idx, o) ==
  /\ MayAdd(o) /\ ~keepSorted /\ multiSet
  /\ IF idx < array.size
     THEN SetObject(InsertCells(array, idx, 1), idx, o, Lesser(firstNull, idx), SizeMax)
     ELSE SetObject(array, idx, o, firstNull, SizeMax)
  /\ Keep

\* add(idx, num)
AddNulls(idx, num) ==
  /\ ~keepSorted /\ idx < array.size /\ array.size + num <= MaxSize
  /\ array' = InsertCells(array, idx, num)
  /\ firstNull' = Lesser(firstNull, idx)
  /\ UNCHANGED <<items, inside>> /\ Keep

\* set(idx, object), which may be far beyond the end
Set(idx, o) ==
  /\ MayAdd(o) /\ ~keepSorted /\ multiSet
  /\ SetObject(array, idx, o, firstNull, SizeMax)
  /\ Keep

\* set(idx, nullptr), remove(idx, false) and removeIt(it, false)
RemoveLeavingHole(idx) ==
  LET v == Removed(array, idx)
      nulls == Lesser(firstNull, idx)
  IN /\ idx < array.size /\ At(array, idx) # NoObject
     /\ items' = items - 1
     /\ inside' = inside \ ObjectAt(array, idx)
     /\ IF idx = array.size - 1 THEN FixSize(v, array.size, nulls)
        ELSE array' = v /\ firstNull' = nulls
     /\ Keep

\* removeItems(idx, 1, true, preserveOrder)
RemoveRelocating(idx, preserveOrder) ==
  LET v == Removed(array, idx)
      last == array.size - 1
  IN /\ ~HasHole
     /\ items' = items - 1
     /\ inside' = inside \ ObjectAt(array, idx)
     /\ IF idx = last THEN FixSize(v, idx, firstNull)
        ELSE IF preserveOrder
        THEN array' = RemoveCells(v, idx, 1) /\ firstNull' = last
        ELSE FixSize(Put(v, idx, At(v, last)), last, firstNull)
     /\ Keep

\* ... and what a sorted array lets a caller do
RemoveAt(idx, preserveOrder) ==
  /\ idx < array.size /\ (keepSorted => preserveOrder)
  /\ RemoveRelocating(idx, preserveOrder)

\* remove(key)
RemoveKey(key) ==
  /\ ~HasHole /\ FindIndex(key) # SizeMax
  /\ RemoveRelocating(FindIndex(key), TRUE)

\* removeHoles(low, high)
RemoveHoles(from, to) ==
  LET low  == IF from < firstNull THEN firstNull ELSE from
      high == Lesser(to, array.size)
      part == SubSeq(array.cells, low + 1, high)
      kept == SelectSeq(part, LAMBDA x : x # NoObject)
      end  == low + Len(kept)
      moves == \E i, j \in (low + 1)..high :
                 i < j /\ array.cells[i] = NoObject /\ array.cells[j] # NoObject
      packed == [i \in DOMAIN array.cells |->
                   IF i > low /\ i <= end THEN kept[i - low]
                   ELSE IF high # array.size /\ i > end /\ i <= high THEN NoObject
                   ELSE array.cells[i]]
  IN /\ low < high /\ high > firstNull + 1 /\ moves
     /\ array' = [array EXCEPT !.cells = packed, !.size = IF high = @ THEN end ELSE @]
     /\ firstNull' = IF firstNull >= low THEN end ELSE firstNull
     /\ UNCHANGED <<items, inside>> /\ Keep

\* replace(it, newObject): of a sorted array, to where the new one belongs
Replace(idx, o) ==
  /\ o \notin inside /\ idx < array.size /\ At(array, idx) # NoObject
  /\ keepSorted => ~HasHole
  /\ ~multiSet => ~HasHole /\ Matches(o[1]) \subseteq {idx}
  /\ LET v == Put(array, idx, o)
     IN array' = IF keepSorted THEN RelocateCell(v, LowerBound(o[1]), idx) ELSE v
  /\ inside' = (inside \ ObjectAt(array, idx)) \cup {o}
  /\ UNCHANGED <<items, firstNull>> /\ Keep

\* relocate() by a caller who keeps no order
RelocateObject(dest, src) ==
  /\ ~keepSorted /\ ~HasHole /\ dest <= array.size /\ src < array.size
  /\ array' = RelocateCell(array, dest, src)
  /\ UNCHANGED <<items, firstNull, inside>> /\ Keep

Economize ==
  /\ array' = EconomizeVector(array)
  /\ UNCHANGED <<items, firstNull, inside>> /\ Keep

Clear ==
  /\ array' = [array EXCEPT !.size = 0]
  /\ items' = 0 /\ firstNull' = 0 /\ inside' = {}
  /\ Keep

Next ==
  \/ \E o \in Objects : \/ AddSorted(o) \/ AddUnsorted(o)
                        \/ \E idx \in 0..(MaxSize - 1) : AddAt(idx, o) \/ Set(idx, o) \/ Replace(idx, o)
  \/ \E idx \in 0..(MaxSize - 1), num \in 1..2 : AddNulls(idx, num)
  \/ \E idx \in 0..(MaxSize - 1) :
       RemoveLeavingHole(idx) \/ \E preserve \in BOOLEAN : RemoveAt(idx, preserve)
  \/ \E key \in 1..NumKeys : RemoveKey(key)
  \/ \E low, high \in 0..MaxSize : RemoveHoles(low, high) \/ RelocateObject(high, low)
  \/ Economize \/ Clear

Spec == Init /\ [][Next]_arrayVars

-------------------------------------------------------------------------------
(* Properties *)

\* However it was filled, emptied in the middle, closed up, grown and cut, the
\* Array has the objects that were added and not removed, each once, and no
\* entry that a grown allocation or a removed object left behind; _firstNull is
\* its first null entry, _items its objects, and it ends with an object; and one
\* that is kept sorted is.
ArrayWhole ==
  LET used == {i \in 0..(array.size - 1) : At(array, i) # NoObject}
  IN /\ array.size <= Capacity(array)
     /\ {At(array, i) : i \in used} = inside
     /\ \A i, j \in used : At(array, i) = At(array, j) => i = j
     /\ items = Cardinality(used)
     /\ firstNull = NextNull(array, 0)
     /\ array.size > 0 => array.size - 1 \in used
     /\ keepSorted => \A i, j \in used : i < j => At(array, i)[1] <= At(array, j)[1]
     /\ ~multiSet => \A i, j \in used : At(array, i)[1] = At(array, j)[1] => i = j

===============================================================================
