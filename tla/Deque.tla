---------------------------------- MODULE Deque ---------------------------------
(***************************************************************************)
(* utl::Deque and its iterator (ucc/Deque): a ring of blocks of pointers.  *)
(* Both ends move through it, and when one would enter the other's block   *)
(* from the wrong side, grow() doubles the ring: the blocks are unrolled   *)
(* from the front's on, into an array where they do not wrap any more.     *)
(*                                                                         *)
(* A cursor is a block and a position in it, for the ends and for an       *)
(* iterator alike: the front's is the first object's, the back's is one    *)
(* past the last object's.                                                 *)
(***************************************************************************)
EXTENDS Integers, SequenceTheorems, FiniteSetTheorems, TLAPS

CONSTANTS DequeObjects,     \* what is in it
          BlockSize,        \* BLOCK_SIZE: 1024 in the code
          MaxItems          \* bound on the objects inside

NullObject == 0           \* nullptr

DequeAssumption ==
  /\ BlockSize \in Nat \ {0}
  /\ MaxItems \in Nat
  /\ NullObject \notin DequeObjects

VARIABLES blocks,           \* _blocks: 0..numBlocks-1 -> 0..BLOCK_SIZE-1 -> object
          begin,            \* _beginBlock, _beginPos
          end,              \* _endBlock, _endPos
          items,            \* _items
          multiSet          \* isMultiSet()

dequeVars == <<blocks, begin, end, items, multiSet>>

EmptyBlock == [p \in 0..(BlockSize - 1) |-> NullObject]

NumBlocks(bs) == Cardinality(DOMAIN bs)

DequeInit ==
  /\ blocks = [b \in {0} |-> EmptyBlock]
  /\ begin = <<0, 0>> /\ end = <<0, 0>>
  /\ items = 0
  /\ multiSet \in BOOLEAN

-------------------------------------------------------------------------------
(* Cursors *)

\* next() and prev(), round the ring of bs
NextOf(bs, c) ==
  IF c[2] + 1 < BlockSize THEN <<c[1], c[2] + 1>>
  ELSE <<IF c[1] + 1 = NumBlocks(bs) THEN 0 ELSE c[1] + 1, 0>>

PrevOf(bs, c) ==
  IF c[2] > 0 THEN <<c[1], c[2] - 1>>
  ELSE <<IF c[1] = 0 THEN NumBlocks(bs) - 1 ELSE c[1] - 1, BlockSize - 1>>

ObjectAt(bs, c) == bs[c[1]][c[2]]
PutAt(bs, c, o) == [bs EXCEPT ![c[1]][c[2]] = o]

\* mutant: the old blocks are copied as they lie, from the first on
GrownInPlace(bs, first) ==
  LET n == NumBlocks(bs)
  IN [b \in 0..(2 * n - 1) |-> IF b < n THEN bs[b] ELSE EmptyBlock]

\* grow(): twice the blocks, the old ones from the first object's on; the first
\* is number 0 then, and the last of the old ones is number n - 1
Grown(bs, first) ==
  LET n == NumBlocks(bs)
  IN [b \in 0..(2 * n - 1) |-> IF b < n THEN bs[(first + b) % n] ELSE EmptyBlock]

\* where get(idx) looks, behind the first object's cursor
Row(pos) == pos \div BlockSize
Col(pos) == pos % BlockSize
CursorAt(bs, first, idx) ==
  <<(first[1] + Row(first[2] + idx)) % NumBlocks(bs), Col(first[2] + idx)>>

Has(o) == \E i \in 0..(items - 1) : ObjectAt(blocks, CursorAt(blocks, begin, i)) = o

-------------------------------------------------------------------------------
(* Operations *)

MayAdd(o) == items < MaxItems /\ (multiSet \/ ~Has(o))

PushFront(o) ==
  /\ MayAdd(o)
  /\ LET back == PrevOf(blocks, begin)
     IN IF back[2] = BlockSize - 1 /\ back[1] = end[1]
        THEN LET bs == Grown(blocks, begin[1])
                 first == PrevOf(bs, <<0, begin[2]>>)
             IN /\ blocks' = PutAt(bs, first, o) /\ begin' = first
                /\ end' = <<NumBlocks(blocks) - 1, end[2]>>
        ELSE blocks' = PutAt(blocks, back, o) /\ begin' = back /\ UNCHANGED end
  /\ items' = items + 1
  /\ UNCHANGED multiSet

\* pushBack() and add()
PushBack(o) ==
  /\ MayAdd(o)
  /\ LET full == PutAt(blocks, end, o)
         past == NextOf(blocks, end)
     IN IF past[2] = 0 /\ past[1] = begin[1]
        THEN LET bs == Grown(full, begin[1])
             IN /\ blocks' = bs /\ begin' = <<0, begin[2]>>
                /\ end' = NextOf(bs, <<NumBlocks(blocks) - 1, end[2]>>)
        ELSE blocks' = full /\ end' = past /\ UNCHANGED begin
  /\ items' = items + 1
  /\ UNCHANGED multiSet

\* removeFront(), popFront()
PopFront ==
  /\ items > 0
  /\ blocks' = PutAt(blocks, begin, NullObject)
  /\ begin' = NextOf(blocks, begin)
  /\ items' = items - 1
  /\ UNCHANGED <<end, multiSet>>

\* removeBack(), popBack()
PopBack ==
  /\ items > 0
  /\ end' = PrevOf(blocks, end)
  /\ blocks' = PutAt(blocks, end', NullObject)
  /\ items' = items - 1
  /\ UNCHANGED <<begin, multiSet>>

\* removeFront() until there is none
ClearDeque ==
  /\ items > 0
  /\ blocks' = [b \in DOMAIN blocks |-> EmptyBlock]
  /\ begin' = end
  /\ items' = 0
  /\ UNCHANGED <<end, multiSet>>

-------------------------------------------------------------------------------

DequeNext ==
  \/ \E o \in DequeObjects : PushFront(o) \/ PushBack(o)
  \/ PopFront \/ PopBack \/ ClearDeque

DequeSpec == DequeInit /\ [][DequeNext]_dequeVars

-------------------------------------------------------------------------------
(* Properties *)

\* The places that get() counts are those that an iterator passes from the
\* front's cursor to the back's, and the other places are ready for objects.
Whole(bs, first, past, count) ==
  LET place(i) == CursorAt(bs, first, i)
  IN /\ place(count) = past
     /\ \A i \in 0..(count - 1) : /\ place(i) # past
                                  /\ NextOf(bs, place(i)) = place(i + 1)
                                  /\ PrevOf(bs, place(i + 1)) = place(i)
     /\ \A b \in DOMAIN bs, p \in 0..(BlockSize - 1) :
          ObjectAt(bs, <<b, p>>) # NullObject <=> \E i \in 0..(count - 1) : place(i) = <<b, p>>

ObjectsFrom(bs, first, count) == [i \in 1..count |-> ObjectAt(bs, CursorAt(bs, first, i - 1))]

\* a ring that is not whole stands for no sequence of objects
Contents ==
  IF Whole(blocks, begin, end, items) THEN ObjectsFrom(blocks, begin, items) ELSE <<NullObject>>

Sequence == INSTANCE ObjectSequence WITH
  contents <- Contents, Objects <- DequeObjects,
  Threads <- {}, Nothing <- 0, result <- 0     \* nobody shares it

\* Wherever the ends lie in the ring, and however often it was unrolled and
\* grown, the deque is a sequence with two ends: nothing is overwritten, lost or
\* moved, the ends do not run into each other, and get() and the iterator find
\* every object in its place.
ImplementsObjectSequence == Sequence!Spec

-------------------------------------------------------------------------------
(* The invariant that the ring is whole by: s is stored from the cursor    *)
(* `first' up to the cursor `past', and the ring is not closed: past's     *)
(* block is not first's again.                                             *)

Cursors(bs) == (0..(NumBlocks(bs) - 1)) \X (0..(BlockSize - 1))

Stored(bs, first, past, s) ==
  /\ NumBlocks(bs) \in Nat \ {0}
  /\ bs \in [0..(NumBlocks(bs) - 1) -> [0..(BlockSize - 1) -> DequeObjects \cup {NullObject}]]
  /\ first \in Cursors(bs)
  /\ s \in Seq(DequeObjects)
  /\ Row(first[2] + Len(s)) < NumBlocks(bs)
  /\ CursorAt(bs, first, Len(s)) = past
  /\ \A i \in 0..(Len(s) - 1) : ObjectAt(bs, CursorAt(bs, first, i)) = s[i + 1]
  /\ \A c \in Cursors(bs) :
       (\A i \in 0..(Len(s) - 1) : CursorAt(bs, first, i) # c) => ObjectAt(bs, c) = NullObject

DequeInv == items \in Nat /\ Stored(blocks, begin, end, ObjectsFrom(blocks, begin, items))

-------------------------------------------------------------------------------
(* Rows and columns *)

LEMMA RowCol ==
  ASSUME DequeAssumption, NEW x \in Nat
  PROVE  /\ Row(x) \in Nat /\ Col(x) \in Nat /\ Col(x) < BlockSize
         /\ x = BlockSize * Row(x) + Col(x)
BY DEF Row, Col, DequeAssumption

\* A place has one row and one column.
LEMMA RowColUnique ==
  ASSUME DequeAssumption, NEW x \in Nat, NEW q \in Nat, NEW c \in Nat, c < BlockSize, x = BlockSize * q + c
  PROVE  Row(x) = q /\ Col(x) = c
BY DEF Row, Col, DequeAssumption

\* The next place is in the next column, or the next row's first one.
LEMMA RowColNext ==
  ASSUME DequeAssumption, NEW x \in Nat
  PROVE  IF Col(x) + 1 < BlockSize THEN Row(x + 1) = Row(x) /\ Col(x + 1) = Col(x) + 1
         ELSE Row(x + 1) = Row(x) + 1 /\ Col(x + 1) = 0 /\ Col(x) = BlockSize - 1
<1>. DEFINE q == Row(x)
            c == Col(x)
<1>1. q \in Nat /\ c \in Nat /\ c < BlockSize /\ x = BlockSize * q + c /\ BlockSize \in Nat
  BY RowCol DEF DequeAssumption
<1>. HIDE DEF q, c
<1>2. CASE c + 1 < BlockSize
  <2>1. x + 1 = BlockSize * q + (c + 1) /\ c + 1 \in Nat /\ x + 1 \in Nat
    BY <1>1
  <2>2. Row(x + 1) = q /\ Col(x + 1) = c + 1
    BY <1>1, <1>2, <2>1, RowColUnique
  <2>. QED
    BY <1>2, <2>2 DEF q, c
<1>3. CASE ~(c + 1 < BlockSize)
  <2>1. c = BlockSize - 1
    BY <1>1, <1>3
  <2>2. x + 1 = BlockSize * (q + 1) + 0 /\ q + 1 \in Nat /\ 0 < BlockSize /\ x + 1 \in Nat
    BY <1>1, <2>1
  <2>3. Row(x + 1) = q + 1 /\ Col(x + 1) = 0
    BY <2>2, RowColUnique
  <2>. QED
    BY <1>3, <2>1, <2>3 DEF q, c
<1>. QED
  BY <1>2, <1>3

\* The first row's places are its columns.
LEMMA RowColFirst ==
  ASSUME DequeAssumption, NEW x \in 0..(BlockSize - 1)
  PROVE  Row(x) = 0 /\ Col(x) = x
<1>1. x \in Nat /\ x < BlockSize /\ x = BlockSize * 0 + x
  BY DEF DequeAssumption
<1>. QED
  BY <1>1, RowColUnique

\* A row further on, the columns are the same.
LEMMA RowColFurther ==
  ASSUME DequeAssumption, NEW x \in Nat
  PROVE  Row(x + BlockSize) = Row(x) + 1 /\ Col(x + BlockSize) = Col(x)
<1>. DEFINE q == Row(x)
            c == Col(x)
<1>1. q \in Nat /\ c \in Nat /\ c < BlockSize /\ x = BlockSize * q + c /\ BlockSize \in Nat
  BY RowCol DEF DequeAssumption
<1>. HIDE DEF q, c
<1>2. x + BlockSize = BlockSize * (q + 1) + c /\ x + BlockSize \in Nat /\ q + 1 \in Nat
  BY <1>1
<1>3. Row(x + BlockSize) = q + 1 /\ Col(x + BlockSize) = c
  BY <1>1, <1>2, RowColUnique
<1>. QED
  BY <1>3 DEF q, c

\* A place further on is in no earlier row.
LEMMA RowMonotone ==
  ASSUME DequeAssumption, NEW x \in Nat, NEW y \in Nat, x <= y
  PROVE  Row(x) <= Row(y)
<1>. DEFINE q == Row(x)
            r == Row(y)
            c == Col(x)
            d == Col(y)
<1>1. /\ q \in Nat /\ c \in Nat /\ c < BlockSize /\ x = BlockSize * q + c /\ BlockSize \in Nat
      /\ r \in Nat /\ d \in Nat /\ d < BlockSize /\ y = BlockSize * r + d
  BY RowCol DEF DequeAssumption
<1>. HIDE DEF q, r, c, d
<1>2. ASSUME q > r PROVE FALSE
  <2>1. PICK k \in Nat : q = r + 1 + k
    <3>1. q - r - 1 \in Nat /\ q = r + 1 + (q - r - 1)
      BY <1>1, <1>2
    <3>. QED
      BY <3>1
  <2>2. BlockSize * q = BlockSize * r + BlockSize + BlockSize * k /\ BlockSize * k \in Nat
    BY <1>1, <2>1
  <2>. QED
    BY <1>1, <2>2
<1>3. q <= r
  BY <1>1, <1>2
<1>. QED
  BY <1>3 DEF q, r

-------------------------------------------------------------------------------
(* Cursors *)

\* Round the ring, which nothing passes twice.
LEMMA RingTurn ==
  ASSUME NEW n \in Nat \ {0}, NEW x \in 0..(2 * n - 1)
  PROVE  x % n = IF x < n THEN x ELSE x - n
<1>1. CASE x < n
  BY <1>1
<1>2. CASE x >= n
  <2>. DEFINE y == x - n
  <2>1. y \in 0..(n - 1) /\ x = n * 1 + y
    BY <1>2
  <2>. QED
    BY <1>2, <2>1
<1>. QED
  BY <1>1, <1>2

LEMMA CursorPlace ==
  ASSUME DequeAssumption, NEW bs, NumBlocks(bs) \in Nat \ {0}, NEW first \in Cursors(bs),
         NEW i \in Nat, Row(first[2] + i) <= NumBlocks(bs)
  PROVE  /\ first[1] \in 0..(NumBlocks(bs) - 1) /\ first[2] \in 0..(BlockSize - 1)
         /\ first[2] + i \in Nat
         /\ CursorAt(bs, first, i) \in Cursors(bs)
         /\ CursorAt(bs, first, i)[1] = IF first[1] + Row(first[2] + i) < NumBlocks(bs)
                                        THEN first[1] + Row(first[2] + i)
                                        ELSE (first[1] + Row(first[2] + i)) - NumBlocks(bs)
         /\ CursorAt(bs, first, i)[2] = Col(first[2] + i)
<1>. DEFINE n == NumBlocks(bs)
            x == first[2] + i
            row == Row(x)
            col == Col(x)
<1>1. /\ first[1] \in 0..(n - 1) /\ first[2] \in 0..(BlockSize - 1) /\ n \in Nat \ {0}
      /\ BlockSize \in Nat \ {0}
  BY DEF Cursors, DequeAssumption
<1>2. x \in Nat
  BY <1>1
<1>3. row \in Nat /\ row <= n /\ col \in 0..(BlockSize - 1)
  BY <1>1, <1>2, RowCol, SMTT(30)
<1>4. CursorAt(bs, first, i) = <<(first[1] + row) % n, col>>
  BY DEF CursorAt
<1>. HIDE DEF n, x, row, col
<1>5. first[1] + row \in 0..(2 * n - 1)
  BY <1>1, <1>3
<1>6. (first[1] + row) % n = IF first[1] + row < n THEN first[1] + row ELSE (first[1] + row) - n
  <2>. DEFINE m == first[1] + row
  <2>. HIDE DEF m
  <2>1. m \in 0..(2 * n - 1)
    BY <1>5 DEF m
  <2>2. m % n = IF m < n THEN m ELSE m - n
    <3>1. n \in Nat \ {0}
      BY <1>1
    <3>. QED
      BY <2>1, <3>1, RingTurn, Zenon
  <2>. QED
    BY <2>2, Zenon DEF m
<1>7. (first[1] + row) % n \in 0..(n - 1)
  BY <1>1, <1>3, <1>6
<1>. QED
  BY <1>1, <1>2, <1>3, <1>4, <1>6, <1>7 DEF Cursors, n, x, row, col

\* Two places of a ring that is not closed have two cursors.
LEMMA CursorsDiffer ==
  ASSUME DequeAssumption, NEW bs, NumBlocks(bs) \in Nat \ {0}, NEW first \in Cursors(bs),
         NEW i \in Nat, NEW j \in Nat, i # j,
         Row(first[2] + i) < NumBlocks(bs), Row(first[2] + j) < NumBlocks(bs)
  PROVE  CursorAt(bs, first, i) # CursorAt(bs, first, j)
<1>. DEFINE n == NumBlocks(bs)
            x == first[2] + i
            y == first[2] + j
<1>. SUFFICES ASSUME CursorAt(bs, first, i) = CursorAt(bs, first, j) PROVE FALSE
  OBVIOUS
<1>1. /\ first[1] \in 0..(n - 1) /\ first[2] \in 0..(BlockSize - 1) /\ n \in Nat \ {0}
      /\ BlockSize \in Nat \ {0}
  BY DEF Cursors, DequeAssumption
<1>2. x \in Nat /\ y \in Nat /\ x # y
  BY <1>1
<1>3. /\ Row(x) \in Nat /\ Col(x) \in Nat /\ x = BlockSize * Row(x) + Col(x)
      /\ Row(y) \in Nat /\ Col(y) \in Nat /\ y = BlockSize * Row(y) + Col(y)
  BY <1>2, RowCol
<1>4. /\ Col(x) = Col(y)
      /\ (IF first[1] + Row(x) < n THEN first[1] + Row(x) ELSE (first[1] + Row(x)) - n)
           = IF first[1] + Row(y) < n THEN first[1] + Row(y) ELSE (first[1] + Row(y)) - n
  <2>1. Row(x) <= n /\ Row(y) <= n
    BY <1>1, <1>3
  <2>. QED
    BY <1>1, <2>1, CursorPlace
<1>5. Row(x) < n /\ Row(y) < n
  OBVIOUS
<1>6. Row(x) = Row(y)
  BY <1>1, <1>3, <1>4, <1>5
<1>. QED
  BY <1>2, <1>3, <1>4, <1>6

\* next() leads from a place to the next one, and prev() back.
LEMMA CursorNext ==
  ASSUME DequeAssumption, NEW bs, NumBlocks(bs) \in Nat \ {0}, NEW first \in Cursors(bs),
         NEW i \in Nat, Row(first[2] + i) < NumBlocks(bs)
  PROVE  /\ NextOf(bs, CursorAt(bs, first, i)) = CursorAt(bs, first, i + 1)
         /\ PrevOf(bs, CursorAt(bs, first, i + 1)) = CursorAt(bs, first, i)
<1>. DEFINE n == NumBlocks(bs)
            x == first[2] + i
            p == CursorAt(bs, first, i)
            q == CursorAt(bs, first, i + 1)
<1>1. /\ first[1] \in 0..(n - 1) /\ first[2] \in 0..(BlockSize - 1) /\ n \in Nat \ {0}
      /\ BlockSize \in Nat \ {0}
  BY DEF Cursors, DequeAssumption
<1>2. x \in Nat /\ x + 1 = first[2] + (i + 1) /\ i + 1 \in Nat
  BY <1>1
<1>3. Row(x) \in Nat /\ Row(x) < n /\ Col(x) \in Nat /\ Col(x) < BlockSize
  BY <1>2, RowCol
<1>4. IF Col(x) + 1 < BlockSize THEN Row(x + 1) = Row(x) /\ Col(x + 1) = Col(x) + 1
      ELSE Row(x + 1) = Row(x) + 1 /\ Col(x + 1) = 0 /\ Col(x) = BlockSize - 1
  BY <1>2, RowColNext
<1>5. Row(x + 1) <= n
  BY <1>1, <1>3, <1>4
<1>6. /\ p[1] = IF first[1] + Row(x) < n THEN first[1] + Row(x) ELSE (first[1] + Row(x)) - n
      /\ p[2] = Col(x) /\ p = <<p[1], p[2]>>
  <2>1. Row(x) <= n
    BY <1>1, <1>3
  <2>. QED
    BY <1>1, <2>1, CursorPlace DEF CursorAt
<1>7. /\ q[1] = IF first[1] + Row(x + 1) < n THEN first[1] + Row(x + 1) ELSE (first[1] + Row(x + 1)) - n
      /\ q[2] = Col(x + 1) /\ q = <<q[1], q[2]>>
  <2>1. Row(first[2] + (i + 1)) = Row(x + 1) /\ Col(first[2] + (i + 1)) = Col(x + 1)
    BY <1>2
  <2>2. Row(first[2] + (i + 1)) <= n /\ i + 1 \in Nat
    BY <1>2, <1>5, <2>1
  <2>. HIDE DEF x
  <2>3. /\ q[1] = IF first[1] + Row(first[2] + (i + 1)) < n THEN first[1] + Row(first[2] + (i + 1))
                  ELSE (first[1] + Row(first[2] + (i + 1))) - n
        /\ q[2] = Col(first[2] + (i + 1))
    BY <1>1, <2>2, CursorPlace
  <2>4. q = <<q[1], q[2]>>
    BY DEF CursorAt
  <2>. QED
    BY <2>1, <2>3, <2>4
<1>. HIDE DEF n, x, p, q
<1>8. NextOf(bs, p) = q
  <2>1. NextOf(bs, p) = IF p[2] + 1 < BlockSize THEN <<p[1], p[2] + 1>>
                        ELSE <<IF p[1] + 1 = n THEN 0 ELSE p[1] + 1, 0>>
    BY DEF NextOf, n
  <2>2. CASE Col(x) + 1 < BlockSize
    BY <1>4, <1>6, <1>7, <2>1, <2>2
  <2>3. CASE ~(Col(x) + 1 < BlockSize)
    <3>1. q[1] = IF p[1] + 1 = n THEN 0 ELSE p[1] + 1
      BY <1>1, <1>3, <1>4, <1>6, <1>7, <2>3
    <3>. QED
      BY <1>4, <1>6, <1>7, <2>1, <2>3, <3>1
  <2>. QED
    BY <2>2, <2>3
<1>9. PrevOf(bs, q) = p
  BY <1>1, <1>3, <1>4, <1>6, <1>7 DEF PrevOf, n
<1>. QED
  BY <1>8, <1>9 DEF p, q

\* Seen from the second place, the others are one nearer.
LEMMA CursorsNearer ==
  ASSUME DequeAssumption, NEW bs, NumBlocks(bs) \in Nat \ {0}, NEW first \in Cursors(bs),
         NEW i \in Nat, Row(first[2] + (i + 1)) < NumBlocks(bs)
  PROVE  /\ NextOf(bs, first) \in Cursors(bs)
         /\ Row(NextOf(bs, first)[2] + i) < NumBlocks(bs)
         /\ CursorAt(bs, NextOf(bs, first), i) = CursorAt(bs, first, i + 1)
<1>. DEFINE n == NumBlocks(bs)
            c == NextOf(bs, first)
<1>1. /\ first[1] \in 0..(n - 1) /\ first[2] \in 0..(BlockSize - 1) /\ n \in Nat \ {0}
      /\ BlockSize \in Nat \ {0}
  BY DEF Cursors, DequeAssumption
<1>2. c = IF first[2] + 1 < BlockSize THEN <<first[1], first[2] + 1>>
          ELSE <<IF first[1] + 1 = n THEN 0 ELSE first[1] + 1, 0>>
  BY DEF NextOf
<1>3. c \in Cursors(bs)
  BY <1>1, <1>2 DEF Cursors
<1>4. CASE first[2] + 1 < BlockSize
  <2>1. c[1] = first[1] /\ c[2] + i = first[2] + (i + 1)
    BY <1>1, <1>2, <1>4
  <2>. QED
    BY <1>3, <2>1 DEF CursorAt
<1>5. CASE ~(first[2] + 1 < BlockSize)
  <2>1. /\ c[1] = (IF first[1] + 1 = n THEN 0 ELSE first[1] + 1) /\ c[2] + i = i
        /\ first[2] + (i + 1) = i + BlockSize
    BY <1>1, <1>2, <1>5
  <2>2. /\ Row(c[2] + i) = Row(i) /\ Col(c[2] + i) = Col(i) /\ Row(i) \in Nat
        /\ Row(first[2] + (i + 1)) = Row(i) + 1 /\ Col(first[2] + (i + 1)) = Col(i)
    BY <2>1, RowCol, RowColFurther
  <2>. DEFINE row == Row(i)
  <2>3. row \in Nat /\ row + 1 < n
    BY <2>2
  <2>4. /\ CursorAt(bs, c, i)[1] = (IF c[1] + row < n THEN c[1] + row ELSE (c[1] + row) - n)
        /\ CursorAt(bs, first, i + 1)[1] =
             IF first[1] + (row + 1) < n THEN first[1] + (row + 1) ELSE (first[1] + (row + 1)) - n
    <3>1. Row(c[2] + i) <= n /\ Row(first[2] + (i + 1)) <= n /\ i + 1 \in Nat
      BY <1>1, <2>2, <2>3
    <3>. HIDE DEF c
    <3>2. CursorAt(bs, c, i)[1] =
            IF c[1] + Row(c[2] + i) < n THEN c[1] + Row(c[2] + i) ELSE (c[1] + Row(c[2] + i)) - n
      BY <1>1, <1>3, <3>1, CursorPlace
    <3>3. CursorAt(bs, first, i + 1)[1] =
            IF first[1] + Row(first[2] + (i + 1)) < n THEN first[1] + Row(first[2] + (i + 1))
            ELSE (first[1] + Row(first[2] + (i + 1))) - n
      BY <1>1, <3>1, CursorPlace
    <3>. QED
      BY <2>2, <3>2, <3>3
  <2>. HIDE DEF c, n, row
  <2>5. CursorAt(bs, c, i)[1] = CursorAt(bs, first, i + 1)[1]
    BY <1>1, <2>1, <2>3, <2>4
  <2>6. CursorAt(bs, c, i)[2] = CursorAt(bs, first, i + 1)[2]
    BY <2>2 DEF CursorAt
  <2>7. CursorAt(bs, c, i) = CursorAt(bs, first, i + 1)
    BY <2>5, <2>6 DEF CursorAt
  <2>. QED
    BY <1>3, <2>2, <2>3, <2>7 DEF c, n, row
<1>. QED
  BY <1>4, <1>5

\* The places up to one in a ring that is not closed: cursors that differ.
LEMMA RingPlaces ==
  ASSUME DequeAssumption, NEW bs, NumBlocks(bs) \in Nat \ {0}, NEW first \in Cursors(bs),
         NEW m \in Nat, Row(first[2] + m) < NumBlocks(bs)
  PROVE  /\ \A i \in 0..m : /\ first[2] + i \in Nat /\ Row(first[2] + i) < NumBlocks(bs)
                            /\ CursorAt(bs, first, i) \in Cursors(bs)
         /\ \A i, j \in 0..m : i # j => CursorAt(bs, first, i) # CursorAt(bs, first, j)
         /\ CursorAt(bs, first, 0) = first
<1>. DEFINE n == NumBlocks(bs)
<1>1. n \in Nat \ {0} /\ Row(first[2] + m) < n
  OBVIOUS
<1>2. first[1] \in 0..(n - 1) /\ first[2] \in 0..(BlockSize - 1) /\ first[2] \in Nat /\ first = <<first[1], first[2]>>
  BY <1>1 DEF Cursors, DequeAssumption
<1>3. ASSUME NEW i \in 0..m
      PROVE  first[2] + i \in Nat /\ Row(first[2] + i) < n /\ CursorAt(bs, first, i) \in Cursors(bs)
  <2>1. first[2] + i \in Nat /\ first[2] + m \in Nat /\ first[2] + i <= first[2] + m /\ i \in Nat
    BY <1>1, <1>2
  <2>2. Row(first[2] + i) <= Row(first[2] + m) /\ Row(first[2] + i) \in Nat /\ Row(first[2] + m) \in Nat
    BY <2>1, RowMonotone, RowCol
  <2>3. Row(first[2] + i) < n /\ Row(first[2] + i) <= n
    BY <1>1, <2>2
  <2>. QED
    BY <1>1, <2>1, <2>3, CursorPlace
<1>4. ASSUME NEW i \in 0..m, NEW j \in 0..m, i # j
      PROVE  CursorAt(bs, first, i) # CursorAt(bs, first, j)
  <2>1. i \in Nat /\ j \in Nat
    BY <1>1
  <2>. QED
    BY <1>1, <1>3, <1>4, <2>1, CursorsDiffer
<1>5. CursorAt(bs, first, 0) = first
  <2>1. first[2] + 0 = first[2] /\ Row(first[2]) = 0 /\ Col(first[2]) = first[2] /\ (first[1] + 0) % n = first[1]
    BY <1>1, <1>2, RowColFirst
  <2>. QED
    BY <1>2, <2>1 DEF CursorAt
<1>. QED
  BY <1>3, <1>4, <1>5

-------------------------------------------------------------------------------
(* What the operations do to what is stored *)

BlocksOf(n) == [0..(n - 1) -> [0..(BlockSize - 1) -> DequeObjects \cup {NullObject}]]

\* What is stored, in terms of the places that it takes.
LEMMA StoredPlaces ==
  ASSUME DequeAssumption, NEW bs, NEW first, NEW past, NEW s, Stored(bs, first, past, s)
  PROVE  /\ NumBlocks(bs) \in Nat \ {0} /\ first \in Cursors(bs) /\ Len(s) \in Nat
         /\ past \in Cursors(bs) /\ past = CursorAt(bs, first, Len(s))
         /\ CursorAt(bs, first, 0) = first
         /\ \A i \in 0..Len(s) : /\ CursorAt(bs, first, i) \in Cursors(bs)
                                  /\ first[2] + i \in Nat /\ Row(first[2] + i) < NumBlocks(bs)
         /\ \A i, j \in 0..Len(s) : i # j => CursorAt(bs, first, i) # CursorAt(bs, first, j)
         /\ bs \in BlocksOf(NumBlocks(bs)) /\ s \in Seq(DequeObjects)
         /\ \A i \in 0..(Len(s) - 1) : ObjectAt(bs, CursorAt(bs, first, i)) = s[i + 1]
         /\ \A c \in Cursors(bs) :
              (\A i \in 0..(Len(s) - 1) : CursorAt(bs, first, i) # c) => ObjectAt(bs, c) = NullObject
<1>1. /\ NumBlocks(bs) \in Nat \ {0} /\ first \in Cursors(bs) /\ Len(s) \in Nat
      /\ Row(first[2] + Len(s)) < NumBlocks(bs) /\ past = CursorAt(bs, first, Len(s))
  BY DEF Stored
<1>2. /\ \A i \in 0..Len(s) : /\ first[2] + i \in Nat /\ Row(first[2] + i) < NumBlocks(bs)
                               /\ CursorAt(bs, first, i) \in Cursors(bs)
      /\ \A i, j \in 0..Len(s) : i # j => CursorAt(bs, first, i) # CursorAt(bs, first, j)
      /\ CursorAt(bs, first, 0) = first
  BY <1>1, RingPlaces
<1>3. past \in Cursors(bs)
  BY <1>1, <1>2
<1>. QED
  BY <1>1, <1>2, <1>3 DEF Stored, BlocksOf

\* A place is written: the others keep what they have, and the ring its size.
LEMMA PutAtPlace ==
  ASSUME DequeAssumption, NEW bs, NumBlocks(bs) \in Nat \ {0}, bs \in BlocksOf(NumBlocks(bs)),
         NEW c \in Cursors(bs), NEW o \in DequeObjects \cup {NullObject}
  PROVE  /\ NumBlocks(PutAt(bs, c, o)) = NumBlocks(bs)
         /\ Cursors(PutAt(bs, c, o)) = Cursors(bs)
         /\ PutAt(bs, c, o) \in BlocksOf(NumBlocks(bs))
         /\ \A d \in Cursors(bs) : ObjectAt(PutAt(bs, c, o), d) = IF d = c THEN o ELSE ObjectAt(bs, d)
         /\ \A first, i : CursorAt(PutAt(bs, c, o), first, i) = CursorAt(bs, first, i)
<1>. DEFINE n == NumBlocks(bs)
            after == PutAt(bs, c, o)
<1>1. c[1] \in 0..(n - 1) /\ c[2] \in 0..(BlockSize - 1) /\ c = <<c[1], c[2]>>
  BY DEF Cursors
<1>2. after = [bs EXCEPT ![c[1]] = [bs[c[1]] EXCEPT ![c[2]] = o]]
  BY DEF PutAt
<1>3. DOMAIN after = DOMAIN bs /\ after \in BlocksOf(n)
  BY <1>1, <1>2 DEF BlocksOf
<1>4. NumBlocks(after) = n
  BY <1>3 DEF NumBlocks
<1>5. ASSUME NEW d \in Cursors(bs) PROVE ObjectAt(after, d) = IF d = c THEN o ELSE ObjectAt(bs, d)
  <2>1. d[1] \in 0..(n - 1) /\ d[2] \in 0..(BlockSize - 1) /\ d = <<d[1], d[2]>>
    BY DEF Cursors
  <2>2. CASE d[1] = c[1]
    <3>1. after[d[1]] = [bs[c[1]] EXCEPT ![c[2]] = o] /\ bs[c[1]] \in [0..(BlockSize - 1) -> DequeObjects \cup {NullObject}]
      BY <1>1, <1>2, <2>2 DEF BlocksOf
    <3>2. after[d[1]][d[2]] = IF d[2] = c[2] THEN o ELSE bs[c[1]][d[2]]
      BY <1>1, <2>1, <3>1
    <3>3. d = c <=> d[2] = c[2]
      BY <1>1, <2>1, <2>2
    <3>. QED
      BY <2>2, <3>2, <3>3 DEF ObjectAt
  <2>3. CASE d[1] # c[1]
    BY <1>1, <1>2, <2>1, <2>3 DEF ObjectAt, BlocksOf
  <2>. QED
    BY <2>2, <2>3
<1>. QED
  BY <1>3, <1>4, <1>5 DEF Cursors, CursorAt

LEMMA PushBackStored ==
  ASSUME DequeAssumption, NEW bs, NEW first, NEW past, NEW s, Stored(bs, first, past, s),
         NEW o \in DequeObjects,
         ~(NextOf(bs, past)[2] = 0 /\ NextOf(bs, past)[1] = first[1])
  PROVE  Stored(PutAt(bs, past, o), first, NextOf(bs, past), Append(s, o))
<1>. DEFINE n == NumBlocks(bs)
            m == Len(s)
            after == PutAt(bs, past, o)
            t == Append(s, o)
            place(i) == CursorAt(bs, first, i)
<1>1. /\ n \in Nat \ {0} /\ first \in Cursors(bs) /\ m \in Nat /\ past \in Cursors(bs) /\ past = place(m)
      /\ \A i \in 0..m : place(i) \in Cursors(bs) /\ first[2] + i \in Nat /\ Row(first[2] + i) < n
      /\ \A i, j \in 0..m : i # j => place(i) # place(j)
  BY StoredPlaces
<1>2. /\ bs \in BlocksOf(n) /\ s \in Seq(DequeObjects)
      /\ \A i \in 0..(m - 1) : ObjectAt(bs, place(i)) = s[i + 1]
      /\ \A c \in Cursors(bs) : (\A i \in 0..(m - 1) : place(i) # c) => ObjectAt(bs, c) = NullObject
  BY StoredPlaces
<1>3. /\ NumBlocks(after) = n /\ Cursors(after) = Cursors(bs) /\ after \in BlocksOf(n)
      /\ \A d \in Cursors(bs) : ObjectAt(after, d) = IF d = past THEN o ELSE ObjectAt(bs, d)
      /\ \A i : CursorAt(after, first, i) = place(i)
  BY <1>1, <1>2, PutAtPlace
<1>4. /\ t \in Seq(DequeObjects) /\ Len(t) = m + 1 /\ t[m + 1] = o
      /\ \A i \in 1..m : t[i] = s[i]
  BY <1>2
<1>5. NextOf(bs, past) = place(m + 1)
  BY <1>1, CursorNext
<1>6. Row(first[2] + (m + 1)) < n
  <2>1. first[1] \in 0..(n - 1) /\ first[2] \in Nat /\ first[2] + (m + 1) = (first[2] + m) + 1
        /\ first[2] + (m + 1) \in Nat
    BY <1>1 DEF Cursors, DequeAssumption
  <2>2. m \in 0..m /\ Row(first[2] + m) < n /\ first[2] + m \in Nat
    BY <1>1
  <2>3. Row(first[2] + m) \in Nat
    BY <2>2, RowCol
  <2>. DEFINE row == Row(first[2] + m)
              next == Row(first[2] + (m + 1))
  <2>4. (next = row \/ next = row + 1) /\ (next = row + 1 => Col(first[2] + (m + 1)) = 0)
    <3>. DEFINE x == first[2] + m
    <3>1. x \in Nat /\ first[2] + (m + 1) = x + 1 /\ row \in Nat
      BY <2>1, <2>2, <2>3
    <3>. HIDE DEF x
    <3>2. IF Col(x) + 1 < BlockSize THEN Row(x + 1) = Row(x) /\ Col(x + 1) = Col(x) + 1
          ELSE Row(x + 1) = Row(x) + 1 /\ Col(x + 1) = 0
      BY <3>1, RowColNext
    <3>3. Row(x) \in Nat /\ row = Row(x) /\ next = Row(x + 1) /\ Col(first[2] + (m + 1)) = Col(x + 1)
      BY <3>1, RowCol DEF x
    <3>. QED
      BY <3>2, <3>3
  <2>5. next \in Nat /\ next <= n /\ (next = n => Col(first[2] + (m + 1)) = 0)
    <3>. HIDE DEF row, next
    <3>1. row \in Nat /\ row < n
      BY <2>2, <2>3 DEF row
    <3>. QED
      BY <1>1, <2>4, <3>1
  <2>6. CASE Row(first[2] + (m + 1)) = n
    <3>1. place(m + 1)[1] = first[1] /\ place(m + 1)[2] = 0
      BY <1>1, <2>1, <2>5, <2>6, CursorPlace, SMTT(30)
    <3>. QED
      BY <1>5, <3>1
  <2>. QED
    BY <1>1, <2>5, <2>6
<1>. HIDE DEF n, m, after, t, place
<1>7. ASSUME NEW i \in 0..m PROVE ObjectAt(after, place(i)) = t[i + 1]
  <2>1. CASE i = m
    BY <1>1, <1>3, <1>4, <2>1
  <2>2. CASE i # m
    <3>1. i \in 0..(m - 1) /\ i + 1 \in 1..m /\ m \in 0..m
      BY <1>1, <2>2
    <3>2. place(i) # past /\ place(i) \in Cursors(bs)
      BY <1>1, <2>2, <3>1
    <3>. QED
      BY <1>2, <1>3, <1>4, <3>1, <3>2
  <2>. QED
    BY <2>1, <2>2
<1>8. ASSUME NEW c \in Cursors(bs), \A i \in 0..m : place(i) # c PROVE ObjectAt(after, c) = NullObject
  <2>1. m \in 0..m /\ \A i \in 0..(m - 1) : i \in 0..m
    BY <1>1
  <2>2. c # past /\ \A i \in 0..(m - 1) : place(i) # c
    BY <1>1, <1>8, <2>1
  <2>. QED
    BY <1>2, <1>3, <2>2
<1>9. (m + 1) - 1 = m
  BY <1>1
<1>. QED
  BY <1>1, <1>3, <1>4, <1>5, <1>6, <1>7, <1>8, <1>9 DEF Stored, BlocksOf, n, m, after, t, place

\* A sequence without its last object.
LEMMA FrontShorter ==
  ASSUME NEW S, NEW s \in Seq(S), NEW m \in Nat, Len(s) = m + 1
  PROVE  SubSeq(s, 1, m) \in Seq(S) /\ Len(SubSeq(s, 1, m)) = m /\ \A i \in 1..m : SubSeq(s, 1, m)[i] = s[i]
<1>1. \A i \in 1..m : i \in 1..Len(s) /\ s[i] \in S /\ (1 + i) - 1 = i
  OBVIOUS
<1>2. m \in Int /\ (m - 1) + 1 = m /\ (IF 1 <= m THEN (m - 1) + 1 ELSE 0) = m
  OBVIOUS
<1>3. /\ SubSeq(s, 1, m) \in Seq(S) /\ Len(SubSeq(s, 1, m)) = IF 1 <= m THEN (m - 1) + 1 ELSE 0
      /\ \A i \in 1..((m - 1) + 1) : SubSeq(s, 1, m)[i] = s[(1 + i) - 1]
  BY <1>1, SubSeqProperties
<1>. QED
  BY <1>1, <1>2, <1>3

LEMMA PopBackStored ==
  ASSUME DequeAssumption, NEW bs, NEW first, NEW past, NEW s, Stored(bs, first, past, s), s # <<>>
  PROVE  Stored(PutAt(bs, PrevOf(bs, past), NullObject), first, PrevOf(bs, past), SubSeq(s, 1, Len(s) - 1))
<1>. DEFINE n == NumBlocks(bs)
            m == Len(s) - 1
            last == PrevOf(bs, past)
            after == PutAt(bs, last, NullObject)
            t == SubSeq(s, 1, m)
            place(i) == CursorAt(bs, first, i)
<1>1. s \in Seq(DequeObjects) /\ Len(s) \in Nat /\ Len(s) # 0
  BY StoredPlaces
<1>2. m \in Nat /\ Len(s) = m + 1
  BY <1>1
<1>3. /\ n \in Nat \ {0} /\ first \in Cursors(bs) /\ past = place(m + 1) /\ bs \in BlocksOf(n)
      /\ \A i \in 0..(m + 1) : place(i) \in Cursors(bs) /\ Row(first[2] + i) < n
      /\ \A i, j \in 0..(m + 1) : i # j => place(i) # place(j)
  BY <1>2, StoredPlaces
<1>4. /\ \A i \in 0..m : ObjectAt(bs, place(i)) = s[i + 1]
      /\ \A c \in Cursors(bs) : (\A i \in 0..m : place(i) # c) => ObjectAt(bs, c) = NullObject
  BY StoredPlaces
<1>5. last = place(m) /\ last \in Cursors(bs) /\ Row(first[2] + m) < n
  <2>1. m \in 0..(m + 1)
    BY <1>2
  <2>. QED
    BY <1>2, <1>3, <2>1, CursorNext
<1>6. /\ NumBlocks(after) = n /\ Cursors(after) = Cursors(bs) /\ after \in BlocksOf(n)
      /\ \A d \in Cursors(bs) : ObjectAt(after, d) = IF d = last THEN NullObject ELSE ObjectAt(bs, d)
      /\ \A i : CursorAt(after, first, i) = place(i)
  BY <1>3, <1>5, PutAtPlace
<1>7. t \in Seq(DequeObjects) /\ Len(t) = m /\ \A i \in 1..m : t[i] = s[i]
  BY <1>1, <1>2, FrontShorter
<1>. HIDE DEF n, m, last, after, t, place
<1>8. ASSUME NEW i \in 0..(m - 1) PROVE ObjectAt(after, place(i)) = t[i + 1]
  <2>1. i \in 0..m /\ i \in 0..(m + 1) /\ m \in 0..(m + 1) /\ i # m /\ i + 1 \in 1..m
    BY <1>2
  <2>2. place(i) # last /\ place(i) \in Cursors(bs)
    BY <1>3, <1>5, <2>1
  <2>. QED
    BY <1>4, <1>6, <1>7, <2>1, <2>2
<1>9. ASSUME NEW c \in Cursors(bs), \A i \in 0..(m - 1) : place(i) # c PROVE ObjectAt(after, c) = NullObject
  <2>1. CASE c = last
    BY <1>6, <2>1
  <2>2. CASE c # last
    <3>1. \A i \in 0..m : i = m \/ i \in 0..(m - 1)
      BY <1>2
    <3>2. \A i \in 0..m : place(i) # c
      BY <1>5, <1>9, <2>2, <3>1
    <3>. QED
      BY <1>4, <1>6, <2>2, <3>2
  <2>. QED
    BY <2>1, <2>2
<1>. QED
  BY <1>3, <1>5, <1>6, <1>7, <1>8, <1>9 DEF Stored, BlocksOf, n, m, last, after, t, place

\* next() undoes prev().
LEMMA NextOfPrev ==
  ASSUME DequeAssumption, NEW bs, NumBlocks(bs) \in Nat \ {0}, NEW first \in Cursors(bs)
  PROVE  /\ PrevOf(bs, first) \in Cursors(bs)
         /\ NextOf(bs, PrevOf(bs, first)) = first
<1>. DEFINE n == NumBlocks(bs)
            c == PrevOf(bs, first)
<1>1. /\ first[1] \in 0..(n - 1) /\ first[2] \in 0..(BlockSize - 1) /\ first = <<first[1], first[2]>>
      /\ n \in Nat \ {0} /\ BlockSize \in Nat \ {0}
  BY DEF Cursors, DequeAssumption
<1>2. c = IF first[2] > 0 THEN <<first[1], first[2] - 1>>
          ELSE <<IF first[1] = 0 THEN n - 1 ELSE first[1] - 1, BlockSize - 1>>
  BY DEF PrevOf
<1>3. NextOf(bs, c) = IF c[2] + 1 < BlockSize THEN <<c[1], c[2] + 1>>
                      ELSE <<IF c[1] + 1 = n THEN 0 ELSE c[1] + 1, 0>>
  BY DEF NextOf
<1>. HIDE DEF n, c
<1>4. c[1] \in 0..(n - 1) /\ c[2] \in 0..(BlockSize - 1) /\ c = <<c[1], c[2]>>
  BY <1>1, <1>2
<1>5. CASE first[2] > 0
  BY <1>1, <1>2, <1>3, <1>4, <1>5 DEF Cursors, c, n
<1>6. CASE ~(first[2] > 0)
  BY <1>1, <1>2, <1>3, <1>4, <1>6 DEF Cursors, c, n
<1>. QED
  BY <1>1, <1>5, <1>6

LEMMA PushFrontStored ==
  ASSUME DequeAssumption, NEW bs, NEW first, NEW past, NEW s, Stored(bs, first, past, s),
         NEW o \in DequeObjects,
         ~(PrevOf(bs, first)[2] = BlockSize - 1 /\ PrevOf(bs, first)[1] = past[1])
  PROVE  Stored(PutAt(bs, PrevOf(bs, first), o), PrevOf(bs, first), past, <<o>> \o s)
<1>. DEFINE n == NumBlocks(bs)
            m == Len(s)
            front == PrevOf(bs, first)
            after == PutAt(bs, front, o)
            t == <<o>> \o s
            place(i) == CursorAt(bs, first, i)
            moved(i) == CursorAt(bs, front, i)
<1>1. /\ n \in Nat \ {0} /\ first \in Cursors(bs) /\ m \in Nat /\ past \in Cursors(bs) /\ past = place(m)
      /\ \A i \in 0..m : place(i) \in Cursors(bs) /\ first[2] + i \in Nat /\ Row(first[2] + i) < n
  BY StoredPlaces
<1>2. /\ bs \in BlocksOf(n) /\ s \in Seq(DequeObjects)
      /\ \A i \in 0..(m - 1) : ObjectAt(bs, place(i)) = s[i + 1]
      /\ \A c \in Cursors(bs) : (\A i \in 0..(m - 1) : place(i) # c) => ObjectAt(bs, c) = NullObject
  BY StoredPlaces
<1>3. front \in Cursors(bs) /\ NextOf(bs, front) = first
  BY <1>1, NextOfPrev
<1>4. Row(front[2] + (m + 1)) < n
  <2>1. /\ first[1] \in 0..(n - 1) /\ first[2] \in 0..(BlockSize - 1) /\ BlockSize \in Nat \ {0}
        /\ front = IF first[2] > 0 THEN <<first[1], first[2] - 1>>
                   ELSE <<IF first[1] = 0 THEN n - 1 ELSE first[1] - 1, BlockSize - 1>>
    BY <1>1 DEF Cursors, DequeAssumption, PrevOf
  <2>2. m \in 0..m /\ Row(first[2] + m) < n
    BY <1>1
  <2>3. CASE first[2] > 0
    <3>1. front[2] = first[2] - 1
      BY <2>1, <2>3
    <3>. HIDE DEF front, m
    <3>2. front[2] + (m + 1) = first[2] + m
      <4>1. m \in Nat /\ first[2] \in Nat
        BY <1>1, <2>1
      <4>. QED
        BY <3>1, <4>1
    <3>. QED
      BY <2>2, <3>2 DEF front, m
  <2>4. CASE ~(first[2] > 0)
    <3>. DEFINE row == Row(m)
    <3>1. first[2] + m = m /\ front[2] + (m + 1) = m + BlockSize
      BY <1>1, <2>1, <2>4
    <3>2. row \in Nat /\ row < n /\ Row(front[2] + (m + 1)) = row + 1
      BY <1>1, <2>2, <3>1, RowCol, RowColFurther
    <3>3. past[1] = IF first[1] + row < n THEN first[1] + row ELSE (first[1] + row) - n
      <4>1. Row(first[2] + m) = row /\ Row(first[2] + m) <= n
        BY <1>1, <3>1, <3>2
      <4>2. place(m)[1] = IF first[1] + Row(first[2] + m) < n THEN first[1] + Row(first[2] + m)
                          ELSE (first[1] + Row(first[2] + m)) - n
        BY <1>1, <4>1, CursorPlace
      <4>. QED
        BY <1>1, <4>1, <4>2
    <3>. HIDE DEF row
    <3>4. front[2] = BlockSize - 1 /\ front[1] = (IF first[1] = 0 THEN n - 1 ELSE first[1] - 1)
      BY <2>1, <2>4
    <3>5. past[1] # front[1]
      BY <3>4
    <3>. HIDE DEF front
    <3>6. row + 1 # n
      BY <1>1, <2>1, <3>2, <3>3, <3>4, <3>5
    <3>. QED
      BY <1>1, <3>2, <3>6
  <2>. QED
    BY <2>3, <2>4
<1>5. /\ \A i \in 0..(m + 1) : moved(i) \in Cursors(bs) /\ Row(front[2] + i) < n
      /\ \A i, j \in 0..(m + 1) : i # j => moved(i) # moved(j)
      /\ moved(0) = front
  <2>1. m + 1 \in Nat
    BY <1>1
  <2>. QED
    BY <1>1, <1>3, <1>4, <2>1, RingPlaces
<1>6. ASSUME NEW i \in 0..m PROVE moved(i + 1) = place(i)
  <2>1. i \in Nat /\ i + 1 \in 0..(m + 1)
    BY <1>1
  <2>2. Row(front[2] + (i + 1)) < n
    BY <1>5, <2>1
  <2>. HIDE DEF front
  <2>3. CursorAt(bs, NextOf(bs, front), i) = CursorAt(bs, front, i + 1)
    BY <1>1, <1>3, <2>1, <2>2, CursorsNearer
  <2>. QED
    BY <1>3, <2>3
<1>7. /\ NumBlocks(after) = n /\ Cursors(after) = Cursors(bs) /\ after \in BlocksOf(n)
      /\ \A d \in Cursors(bs) : ObjectAt(after, d) = IF d = front THEN o ELSE ObjectAt(bs, d)
      /\ \A i : CursorAt(after, front, i) = moved(i)
  BY <1>1, <1>2, <1>3, PutAtPlace
<1>8. t \in Seq(DequeObjects) /\ Len(t) = m + 1 /\ t[1] = o /\ \A i \in 1..m : t[i + 1] = s[i]
  BY <1>2
<1>. HIDE DEF n, m, front, after, t, place, moved
<1>9. ASSUME NEW i \in 0..m PROVE ObjectAt(after, moved(i)) = t[i + 1]
  <2>1. CASE i = 0
    BY <1>3, <1>5, <1>7, <1>8, <2>1
  <2>2. CASE i # 0
    <3>. DEFINE j == i - 1
    <3>1. j \in 0..(m - 1) /\ j \in 0..m /\ i = j + 1 /\ i \in 1..m /\ i \in 0..(m + 1) /\ 0 \in 0..(m + 1)
      BY <1>1, <2>2
    <3>. HIDE DEF j
    <3>2. moved(i) # front /\ moved(i) \in Cursors(bs) /\ moved(i) = place(j)
      BY <1>5, <1>6, <2>2, <3>1
    <3>3. t[i + 1] = s[i] /\ ObjectAt(bs, place(j)) = s[j + 1]
      BY <1>2, <1>8, <3>1
    <3>. QED
      BY <1>7, <3>1, <3>2, <3>3
  <2>. QED
    BY <2>1, <2>2
<1>10. ASSUME NEW c \in Cursors(bs), \A i \in 0..m : moved(i) # c PROVE ObjectAt(after, c) = NullObject
  <2>1. 0 \in 0..m /\ \A i \in 0..(m - 1) : i + 1 \in 0..m /\ i \in 0..m
    BY <1>1
  <2>2. c # front /\ \A i \in 0..(m - 1) : place(i) # c
    BY <1>5, <1>6, <1>10, <2>1
  <2>. QED
    BY <1>2, <1>7, <2>2
<1>11. moved(m + 1) = past /\ (m + 1) - 1 = m
  <2>1. m \in 0..m
    BY <1>1
  <2>. QED
    BY <1>1, <1>6, <2>1
<1>. QED
  BY <1>1, <1>3, <1>4, <1>7, <1>8, <1>9, <1>10, <1>11
     DEF Stored, BlocksOf, n, m, front, after, t, place, moved

LEMMA PopFrontStored ==
  ASSUME DequeAssumption, NEW bs, NEW first, NEW past, NEW s, Stored(bs, first, past, s), s # <<>>
  PROVE  Stored(PutAt(bs, first, NullObject), NextOf(bs, first), past, Tail(s))
<1>. DEFINE n == NumBlocks(bs)
            m == Len(s) - 1
            second == NextOf(bs, first)
            after == PutAt(bs, first, NullObject)
            t == Tail(s)
            place(i) == CursorAt(bs, first, i)
            moved(i) == CursorAt(bs, second, i)
<1>1. s \in Seq(DequeObjects) /\ Len(s) \in Nat /\ Len(s) # 0
  BY StoredPlaces
<1>2. m \in Nat /\ Len(s) = m + 1
  BY <1>1
<1>3. /\ n \in Nat \ {0} /\ first \in Cursors(bs) /\ past = place(m + 1) /\ bs \in BlocksOf(n)
      /\ place(0) = first
      /\ \A i \in 0..(m + 1) : place(i) \in Cursors(bs) /\ Row(first[2] + i) < n
      /\ \A i, j \in 0..(m + 1) : i # j => place(i) # place(j)
  BY <1>2, StoredPlaces
<1>4. /\ \A i \in 0..m : ObjectAt(bs, place(i)) = s[i + 1]
      /\ \A c \in Cursors(bs) : (\A i \in 0..m : place(i) # c) => ObjectAt(bs, c) = NullObject
  BY StoredPlaces
<1>5. ASSUME NEW i \in 0..m
      PROVE  second \in Cursors(bs) /\ Row(second[2] + i) < n /\ moved(i) = place(i + 1)
  <2>1. i \in Nat /\ i + 1 \in 0..(m + 1)
    BY <1>2
  <2>2. Row(first[2] + (i + 1)) < n
    BY <1>3, <2>1
  <2>. QED
    BY <1>3, <2>1, <2>2, CursorsNearer
<1>6. /\ NumBlocks(after) = n /\ Cursors(after) = Cursors(bs) /\ after \in BlocksOf(n)
      /\ \A d \in Cursors(bs) : ObjectAt(after, d) = IF d = first THEN NullObject ELSE ObjectAt(bs, d)
      /\ \A i : CursorAt(after, second, i) = moved(i)
  BY <1>3, PutAtPlace
<1>7. t \in Seq(DequeObjects) /\ Len(t) = m /\ \A i \in 1..m : t[i] = s[i + 1]
  BY <1>1, <1>2
<1>. HIDE DEF n, m, second, after, t, place, moved
<1>8. ASSUME NEW i \in 0..(m - 1) PROVE ObjectAt(after, moved(i)) = t[i + 1]
  <2>. DEFINE j == i + 1
  <2>1. i \in 0..m /\ j \in 0..m /\ j \in 0..(m + 1) /\ 0 \in 0..(m + 1) /\ j # 0 /\ j \in 1..m
    BY <1>2
  <2>2. moved(i) = place(j)
    BY <1>5, <2>1
  <2>. HIDE DEF j
  <2>3. place(j) # first /\ place(j) \in Cursors(bs)
    BY <1>3, <2>1
  <2>4. ObjectAt(after, moved(i)) = s[j + 1] /\ t[j] = s[j + 1]
    BY <1>4, <1>6, <1>7, <2>1, <2>2, <2>3
  <2>. QED
    BY <2>4 DEF j
<1>9. ASSUME NEW c \in Cursors(bs), \A i \in 0..(m - 1) : moved(i) # c PROVE ObjectAt(after, c) = NullObject
  <2>1. CASE c = first
    BY <1>6, <2>1
  <2>2. CASE c # first
    <3>1. ASSUME NEW i \in 0..m PROVE place(i) # c
      <4>1. CASE i = 0
        BY <1>3, <2>2, <4>1
      <4>2. CASE i # 0
        <5>. DEFINE j == i - 1
        <5>1. j \in 0..(m - 1) /\ j \in 0..m /\ i = j + 1
          BY <1>2, <4>2
        <5>. HIDE DEF j
        <5>. QED
          BY <1>5, <1>9, <5>1
      <4>. QED
        BY <4>1, <4>2
    <3>. QED
      BY <1>4, <1>6, <2>2, <3>1
  <2>. QED
    BY <2>1, <2>2
<1>10. m \in 0..m
  BY <1>2
<1>. QED
  BY <1>3, <1>5, <1>6, <1>7, <1>8, <1>9, <1>10
     DEF Stored, BlocksOf, n, m, second, after, t, place, moved

\* Nothing but nullptr is in an empty ring.
LEMMA ClearStored ==
  ASSUME DequeAssumption, NEW bs, NEW first, NEW past, NEW s, Stored(bs, first, past, s)
  PROVE  Stored([b \in DOMAIN bs |-> EmptyBlock], past, past, <<>>)
<1>. DEFINE n == NumBlocks(bs)
            after == [b \in DOMAIN bs |-> EmptyBlock]
<1>1. n \in Nat \ {0} /\ past \in Cursors(bs) /\ bs \in BlocksOf(n)
  BY StoredPlaces
<1>2. NumBlocks(after) = n /\ Cursors(after) = Cursors(bs)
  BY DEF NumBlocks, Cursors
<1>3. after \in BlocksOf(n) /\ \A c \in Cursors(bs) : ObjectAt(after, c) = NullObject
  BY <1>1 DEF BlocksOf, EmptyBlock, ObjectAt, Cursors
<1>4. Row(past[2] + 0) < n /\ CursorAt(after, past, 0) = past
  <2>1. past[2] \in 0..(BlockSize - 1) /\ past[2] + 0 = past[2] /\ Row(past[2]) = 0
    BY <1>1, RowColFirst DEF Cursors, DequeAssumption
  <2>2. 0 \in Nat /\ Row(past[2] + 0) < n
    BY <1>1, <2>1
  <2>. QED
    BY <1>1, <1>2, <2>2, RingPlaces
<1>. HIDE DEF n, after
<1>5. Len(<<>>) = 0 /\ <<>> \in Seq(DequeObjects) /\ \A i \in 0..(0 - 1) : FALSE
  OBVIOUS
<1>. QED
  BY <1>1, <1>2, <1>3, <1>4, <1>5 DEF Stored, BlocksOf, n, after

\* As far as the ring is round, two ways to a block are one.
LEMMA SameBlock ==
  ASSUME NEW n \in Nat \ {0}, NEW k \in 0..(n - 1), NEW a \in 0..(n - 1), NEW b \in 0..(n - 1),
         (k + a) % n = (k + b) % n
  PROVE  a = b
<1>. DEFINE x == k + a
            y == k + b
<1>1. x \in 0..(2 * n - 1) /\ y \in 0..(2 * n - 1)
  OBVIOUS
<1>. HIDE DEF x, y
<1>2. x % n = (IF x < n THEN x ELSE x - n) /\ y % n = (IF y < n THEN y ELSE y - n)
  BY <1>1, RingTurn
<1>3. x % n = y % n
  BY DEF x, y
<1>. QED
  BY <1>1, <1>2, <1>3 DEF x, y

\* A back that is in the block in front of the first one is in the last row.
LEMMA LastRow ==
  ASSUME DequeAssumption, NEW bs, NEW first, NEW past, NEW s, Stored(bs, first, past, s),
         past[1] = IF first[1] = 0 THEN NumBlocks(bs) - 1 ELSE first[1] - 1
  PROVE  Row(first[2] + Len(s)) = NumBlocks(bs) - 1
<1>. DEFINE n == NumBlocks(bs)
            m == Len(s)
            row == Row(first[2] + m)
<1>1. n \in Nat \ {0} /\ first \in Cursors(bs) /\ m \in Nat /\ past = CursorAt(bs, first, m)
  BY StoredPlaces
<1>2. row < n /\ first[2] + m \in Nat /\ first[1] \in 0..(n - 1)
  <2>1. m \in 0..m
    BY <1>1
  <2>. QED
    BY <1>1, <2>1, StoredPlaces DEF Cursors
<1>3. row \in Nat
  BY <1>2, RowCol
<1>4. row <= n
  BY <1>1, <1>2, <1>3
<1>5. past[1] = IF first[1] + row < n THEN first[1] + row ELSE (first[1] + row) - n
  BY <1>1, <1>4, CursorPlace
<1>. HIDE DEF row, m, n
<1>6. past[1] = IF first[1] = 0 THEN n - 1 ELSE first[1] - 1
  BY DEF n
<1>. QED
  BY <1>1, <1>2, <1>3, <1>5, <1>6 DEF row, m, n

\* grow(): the blocks are unrolled from the first object's on, with as many behind them.
LEMMA GrownBlocks ==
  ASSUME DequeAssumption, NEW bs, NEW k, NumBlocks(bs) \in Nat \ {0}, bs \in BlocksOf(NumBlocks(bs)),
         k \in 0..(NumBlocks(bs) - 1)
  PROVE  /\ NumBlocks(Grown(bs, k)) = 2 * NumBlocks(bs)
         /\ Grown(bs, k) \in BlocksOf(2 * NumBlocks(bs))
         /\ \A b \in 0..(NumBlocks(bs) - 1) : /\ (k + b) % NumBlocks(bs) \in 0..(NumBlocks(bs) - 1)
                                              /\ Grown(bs, k)[b] = bs[(k + b) % NumBlocks(bs)]
         /\ \A b \in NumBlocks(bs)..(2 * NumBlocks(bs) - 1) : Grown(bs, k)[b] = EmptyBlock
<1>. DEFINE n == NumBlocks(bs)
            g == Grown(bs, k)
<1>1. n \in Nat \ {0} /\ k \in 0..(n - 1) /\ bs \in BlocksOf(n)
  OBVIOUS
<1>2. g = [b \in 0..(2 * n - 1) |-> IF b < n THEN bs[(k + b) % n] ELSE EmptyBlock]
  BY DEF Grown
<1>. HIDE DEF n, g
<1>3. \A b \in 0..(n - 1) : (k + b) % n \in 0..(n - 1)
  BY <1>1
<1>4. EmptyBlock \in [0..(BlockSize - 1) -> DequeObjects \cup {NullObject}]
  BY DEF EmptyBlock
<1>5. /\ \A b \in 0..(n - 1) : b \in 0..(2 * n - 1) /\ g[b] = bs[(k + b) % n]
      /\ \A b \in n..(2 * n - 1) : b \in 0..(2 * n - 1) /\ g[b] = EmptyBlock
  BY <1>1, <1>2
<1>6. g \in BlocksOf(2 * n)
  <2>1. ASSUME NEW b \in 0..(2 * n - 1)
        PROVE  g[b] \in [0..(BlockSize - 1) -> DequeObjects \cup {NullObject}]
    <3>1. CASE b < n
      <4>1. b \in 0..(n - 1)
        BY <1>1, <3>1
      <4>. QED
        BY <1>1, <1>3, <1>5, <4>1 DEF BlocksOf
    <3>2. CASE ~(b < n)
      <4>1. b \in n..(2 * n - 1)
        BY <1>1, <3>2
      <4>. QED
        BY <1>4, <1>5, <4>1
    <3>. QED
      BY <3>1, <3>2
  <2>2. DOMAIN g = 0..(2 * n - 1) /\ g = [b \in 0..(2 * n - 1) |-> g[b]]
    BY <1>2
  <2>. QED
    BY <2>1, <2>2 DEF BlocksOf
<1>7. NumBlocks(g) = 2 * n
  <2>1. DOMAIN g = 0..(2 * n - 1) /\ 0 \in Int /\ 2 * n - 1 \in Int /\ 0 <= 2 * n - 1
    BY <1>1, <1>2
  <2>2. Cardinality(0..(2 * n - 1)) = ((2 * n - 1) - 0) + 1
    BY <2>1, FS_Interval
  <2>. QED
    BY <1>1, <2>1, <2>2 DEF NumBlocks
<1>. QED
  BY <1>3, <1>5, <1>6, <1>7 DEF n, g

LEMMA GrownStored ==
  ASSUME DequeAssumption, NEW bs, NEW first, NEW past, NEW s, Stored(bs, first, past, s)
  PROVE  Stored(Grown(bs, first[1]), <<0, first[2]>>, <<Row(first[2] + Len(s)), past[2]>>, s)
<1>. DEFINE n == NumBlocks(bs)
            m == Len(s)
            g == Grown(bs, first[1])
            zero == <<0, first[2]>>
            place(i) == CursorAt(bs, first, i)
            grown(i) == CursorAt(g, zero, i)
<1>1. /\ n \in Nat \ {0} /\ first \in Cursors(bs) /\ m \in Nat /\ past = place(m)
      /\ \A i \in 0..m : place(i) \in Cursors(bs) /\ first[2] + i \in Nat /\ Row(first[2] + i) < n
      /\ bs \in BlocksOf(n) /\ s \in Seq(DequeObjects)
      /\ \A i \in 0..(m - 1) : ObjectAt(bs, place(i)) = s[i + 1]
      /\ \A c \in Cursors(bs) : (\A i \in 0..(m - 1) : place(i) # c) => ObjectAt(bs, c) = NullObject
  BY StoredPlaces
<1>2. first[1] \in 0..(n - 1) /\ first[2] \in 0..(BlockSize - 1)
  BY <1>1 DEF Cursors
<1>3. /\ NumBlocks(g) = 2 * n /\ g \in BlocksOf(2 * n)
      /\ \A b \in 0..(n - 1) : (first[1] + b) % n \in 0..(n - 1) /\ g[b] = bs[(first[1] + b) % n]
      /\ \A b \in n..(2 * n - 1) : g[b] = EmptyBlock
  <2>. DEFINE k == first[1]
  <2>1. NumBlocks(bs) \in Nat \ {0} /\ bs \in BlocksOf(NumBlocks(bs)) /\ k \in 0..(NumBlocks(bs) - 1)
    BY <1>1, <1>2
  <2>. HIDE DEF k
  <2>2. /\ NumBlocks(Grown(bs, k)) = 2 * NumBlocks(bs)
        /\ Grown(bs, k) \in BlocksOf(2 * NumBlocks(bs))
        /\ \A b \in 0..(NumBlocks(bs) - 1) : /\ (k + b) % NumBlocks(bs) \in 0..(NumBlocks(bs) - 1)
                                             /\ Grown(bs, k)[b] = bs[(k + b) % NumBlocks(bs)]
        /\ \A b \in NumBlocks(bs)..(2 * NumBlocks(bs) - 1) : Grown(bs, k)[b] = EmptyBlock
    BY <2>1, GrownBlocks
  <2>. QED
    BY <2>2 DEF k
<1>4. ASSUME NEW i \in 0..m
      PROVE  /\ grown(i) = <<Row(first[2] + i), Col(first[2] + i)>>
             /\ Row(first[2] + i) \in 0..(n - 1)
             /\ place(i) = <<(first[1] + Row(first[2] + i)) % n, Col(first[2] + i)>>
             /\ ObjectAt(g, grown(i)) = ObjectAt(bs, place(i))
  <2>. DEFINE row == Row(first[2] + i)
              col == Col(first[2] + i)
  <2>1. row \in 0..(n - 1)
    <3>1. row \in Nat /\ row < n
      BY <1>1, RowCol
    <3>. QED
      BY <1>1, <3>1
  <2>2. grown(i) = <<(0 + row) % (2 * n), col>> /\ place(i) = <<(first[1] + row) % n, col>>
    BY <1>3 DEF CursorAt
  <2>. HIDE DEF row, col, n, g
  <2>3. (0 + row) % (2 * n) = row
    <3>1. 0 + row = row /\ row \in 0..(2 * (2 * n) - 1) /\ 2 * n \in Nat \ {0} /\ row < 2 * n
      BY <1>1, <2>1
    <3>. QED
      BY <3>1, RingTurn
  <2>4. g[row] = bs[(first[1] + row) % n]
    BY <1>3, <2>1
  <2>. QED
    BY <2>1, <2>2, <2>3, <2>4 DEF ObjectAt, row, col
<1>5. zero \in Cursors(g)
  <2>1. 0 \in 0..(2 * n - 1) /\ NumBlocks(g) = 2 * n
    BY <1>1, <1>3
  <2>. HIDE DEF n, g
  <2>. QED
    BY <1>2, <2>1 DEF Cursors
<1>6. m \in 0..m /\ \A i \in 0..(m - 1) : i \in 0..m
  BY <1>1
<1>7. Row(zero[2] + m) < 2 * n /\ grown(m) = <<Row(first[2] + m), past[2]>>
  <2>1. /\ grown(m) = <<Row(first[2] + m), Col(first[2] + m)>>
        /\ Row(first[2] + m) \in 0..(n - 1)
        /\ place(m) = <<(first[1] + Row(first[2] + m)) % n, Col(first[2] + m)>>
    BY <1>4, <1>6
  <2>2. past = place(m) /\ zero[2] = first[2]
    BY <1>1
  <2>. HIDE DEF n, m, g, place, grown, zero
  <2>. QED
    BY <1>1, <2>1, <2>2
<1>. HIDE DEF n, m, g, place, grown
<1>8. ASSUME NEW c \in Cursors(g), \A i \in 0..(m - 1) : grown(i) # c PROVE ObjectAt(g, c) = NullObject
  <2>1. c[1] \in 0..(2 * n - 1) /\ c[2] \in 0..(BlockSize - 1) /\ c = <<c[1], c[2]>>
    BY <1>3 DEF Cursors
  <2>2. CASE c[1] < n
    <3>. DEFINE b == (first[1] + c[1]) % n
                d == <<b, c[2]>>
    <3>1. c[1] \in 0..(n - 1)
      BY <1>1, <2>1, <2>2
    <3>2. b \in 0..(n - 1) /\ ObjectAt(g, c) = ObjectAt(bs, d)
      BY <1>3, <3>1 DEF ObjectAt
    <3>3. d \in Cursors(bs)
      BY <2>1, <3>2 DEF Cursors, n
    <3>4. ASSUME NEW i \in 0..(m - 1) PROVE place(i) # d
      <4>. DEFINE row == Row(first[2] + i)
                  col == Col(first[2] + i)
      <4>. HIDE DEF row, col
      <4>1. grown(i) = <<row, col>> /\ row \in 0..(n - 1) /\ place(i) = <<(first[1] + row) % n, col>>
        BY <1>4, <1>6 DEF row, col
      <4>2. row # c[1] \/ col # c[2]
        BY <1>8, <2>1, <4>1
      <4>3. (first[1] + row) % n = b => row = c[1]
        BY <1>1, <1>2, <3>1, <4>1, SameBlock
      <4>. QED
        BY <4>1, <4>2, <4>3
    <3>. QED
      BY <1>1, <3>2, <3>3, <3>4
  <2>3. CASE ~(c[1] < n)
    <3>1. c[1] \in n..(2 * n - 1)
      BY <1>1, <2>1, <2>3
    <3>. QED
      BY <1>3, <2>1, <3>1, ZenonT(30) DEF EmptyBlock, ObjectAt
  <2>. QED
    BY <2>2, <2>3
<1>9. \A i \in 0..(m - 1) : ObjectAt(g, grown(i)) = s[i + 1]
  BY <1>1, <1>4, <1>6
<1>10. 2 * n \in Nat \ {0}
  BY <1>1
<1>. QED
  BY <1>1, <1>3, <1>5, <1>7, <1>8, <1>9, <1>10 DEF Stored, BlocksOf, m, g, grown

\* The front that would enter the back's block: the ring grows, and it finds
\* room behind the last block.
LEMMA PushFrontGrown ==
  ASSUME DequeAssumption, NEW bs, NEW first, NEW past, NEW s, Stored(bs, first, past, s),
         NEW o \in DequeObjects,
         PrevOf(bs, first)[2] = BlockSize - 1, PrevOf(bs, first)[1] = past[1],
         NEW bigger, bigger = Grown(bs, first[1]),
         NEW front, front = PrevOf(bigger, <<0, first[2]>>)
  PROVE  Stored(PutAt(bigger, front, o), front, <<NumBlocks(bs) - 1, past[2]>>, <<o>> \o s)
<1>. DEFINE n == NumBlocks(bs)
            unrolled == <<0, first[2]>>
            last == <<n - 1, past[2]>>
<1>1. /\ n \in Nat \ {0} /\ first[1] \in 0..(n - 1) /\ first[2] \in 0..(BlockSize - 1)
      /\ BlockSize \in Nat \ {0} /\ bs \in BlocksOf(n)
  BY StoredPlaces DEF Cursors, DequeAssumption
<1>2. first[2] = 0 /\ past[1] = IF first[1] = 0 THEN n - 1 ELSE first[1] - 1
  BY <1>1 DEF PrevOf
<1>3. Row(first[2] + Len(s)) = n - 1
  BY <1>2, LastRow
<1>4. Stored(bigger, unrolled, last, s)
  BY <1>3, GrownStored
<1>5. NumBlocks(bigger) = 2 * n
  <2>. DEFINE k == first[1]
  <2>1. k \in 0..(NumBlocks(bs) - 1) /\ NumBlocks(bs) \in Nat \ {0} /\ bs \in BlocksOf(NumBlocks(bs))
    BY <1>1
  <2>. HIDE DEF k
  <2>2. NumBlocks(Grown(bs, k)) = 2 * NumBlocks(bs)
    BY <2>1, GrownBlocks
  <2>. QED
    BY <2>2 DEF k
<1>6. PrevOf(bigger, unrolled)[1] = 2 * n - 1 /\ 2 * n - 1 # last[1]
  <2>. HIDE DEF n
  <2>. QED
    BY <1>1, <1>2, <1>5 DEF PrevOf
<1>. HIDE DEF n, unrolled, last
<1>7. Stored(PutAt(bigger, PrevOf(bigger, unrolled), o), PrevOf(bigger, unrolled), last, <<o>> \o s)
  <2>1. ~(PrevOf(bigger, unrolled)[2] = BlockSize - 1 /\ PrevOf(bigger, unrolled)[1] = last[1])
    BY <1>6
  <2>. QED
    BY <1>4, <2>1, PushFrontStored
<1>. QED
  BY <1>7 DEF n, unrolled, last

\* What is put into the last row is put there before or after grow() alike.
LEMMA GrownPutAt ==
  ASSUME DequeAssumption, NEW bs, NEW first, NEW past, NEW s, Stored(bs, first, past, s),
         NEW o \in DequeObjects, Row(first[2] + Len(s)) = NumBlocks(bs) - 1
  PROVE  Grown(PutAt(bs, past, o), first[1])
           = PutAt(Grown(bs, first[1]), <<NumBlocks(bs) - 1, past[2]>>, o)
<1>. DEFINE n == NumBlocks(bs)
            k == first[1]
            j == past[1]
            p == past[2]
            after == PutAt(bs, past, o)
<1>1. /\ n \in Nat \ {0} /\ k \in 0..(n - 1) /\ j \in 0..(n - 1)
      /\ bs \in BlocksOf(n) /\ DOMAIN bs = 0..(n - 1)
  BY StoredPlaces DEF Cursors, BlocksOf
<1>2. j = (k + (n - 1)) % n
  BY StoredPlaces DEF CursorAt
<1>3. /\ after = [bs EXCEPT ![j] = [bs[j] EXCEPT ![p] = o]]
      /\ PutAt(Grown(bs, k), <<n - 1, p>>, o)
           = [Grown(bs, k) EXCEPT ![n - 1] = [Grown(bs, k)[n - 1] EXCEPT ![p] = o]]
  BY DEF PutAt
<1>4. NumBlocks(after) = n
  BY <1>3 DEF NumBlocks
<1>5. /\ Grown(bs, k) = [b \in 0..(2 * n - 1) |-> IF b < n THEN bs[(k + b) % n] ELSE EmptyBlock]
      /\ Grown(after, k) = [b \in 0..(2 * n - 1) |-> IF b < n THEN after[(k + b) % n] ELSE EmptyBlock]
  BY <1>4 DEF Grown
<1>. HIDE DEF n, k, j, p, after
<1>6. n - 1 \in 0..(2 * n - 1) /\ n - 1 \in 0..(n - 1) /\ n - 1 < n
  BY <1>1
<1>7. ASSUME NEW b \in 0..(2 * n - 1)
      PROVE  Grown(after, k)[b]
               = IF b = n - 1 THEN [Grown(bs, k)[n - 1] EXCEPT ![p] = o] ELSE Grown(bs, k)[b]
  <2>1. CASE b = n - 1
    BY <1>1, <1>2, <1>3, <1>5, <1>6, <2>1
  <2>2. CASE b # n - 1 /\ b < n
    <3>1. b \in 0..(n - 1)
      BY <1>1, <2>2
    <3>2. (k + b) % n # j
      BY <1>1, <1>2, <1>6, <2>2, <3>1, SameBlock
    <3>3. (k + b) % n \in 0..(n - 1)
      BY <1>1, <3>1
    <3>4. after[(k + b) % n] = bs[(k + b) % n]
      BY <1>1, <1>3, <3>2, <3>3
    <3>. QED
      BY <1>5, <2>2, <3>4
  <2>3. CASE ~(b < n)
    BY <1>1, <1>5, <1>6, <2>3
  <2>. QED
    BY <2>1, <2>2, <2>3
<1>8. Grown(after, k) = [Grown(bs, k) EXCEPT ![n - 1] = [Grown(bs, k)[n - 1] EXCEPT ![p] = o]]
  BY <1>5, <1>7
<1>. QED
  BY <1>3, <1>8 DEF n, k, j, p, after

\* The back that would enter the front's block: the ring grows, and it finds
\* room in the first of the new blocks.
LEMMA PushBackGrown ==
  ASSUME DequeAssumption, NEW bs, NEW first, NEW past, NEW s, Stored(bs, first, past, s),
         NEW o \in DequeObjects,
         NextOf(bs, past)[2] = 0, NextOf(bs, past)[1] = first[1],
         NEW bigger, bigger = Grown(PutAt(bs, past, o), first[1])
  PROVE  Stored(bigger, <<0, first[2]>>, NextOf(bigger, <<NumBlocks(bs) - 1, past[2]>>), Append(s, o))
<1>. DEFINE n == NumBlocks(bs)
            g == Grown(bs, first[1])
            unrolled == <<0, first[2]>>
            last == <<n - 1, past[2]>>
<1>1. /\ n \in Nat \ {0} /\ first[1] \in 0..(n - 1) /\ past[1] \in 0..(n - 1)
      /\ past[2] \in 0..(BlockSize - 1) /\ BlockSize \in Nat \ {0} /\ bs \in BlocksOf(n)
  BY StoredPlaces DEF Cursors, DequeAssumption
<1>2. past[2] + 1 = BlockSize /\ past[1] = IF first[1] = 0 THEN n - 1 ELSE first[1] - 1
  <2>1. ~(past[2] + 1 < BlockSize)
    BY <1>1 DEF NextOf
  <2>2. first[1] = IF past[1] + 1 = n THEN 0 ELSE past[1] + 1
    BY <2>1 DEF NextOf
  <2>. HIDE DEF n
  <2>. QED
    BY <1>1, <2>1, <2>2
<1>3. Row(first[2] + Len(s)) = n - 1
  BY <1>2, LastRow
<1>4. Stored(g, unrolled, last, s)
  BY <1>3, GrownStored
<1>5. bigger = PutAt(g, last, o)
  BY <1>3, GrownPutAt
<1>6. NumBlocks(g) = 2 * n /\ NumBlocks(bigger) = 2 * n
  <2>. DEFINE k == first[1]
  <2>1. k \in 0..(NumBlocks(bs) - 1) /\ NumBlocks(bs) \in Nat \ {0} /\ bs \in BlocksOf(NumBlocks(bs))
    BY <1>1
  <2>. HIDE DEF k
  <2>2. NumBlocks(Grown(bs, k)) = 2 * NumBlocks(bs)
    BY <2>1, GrownBlocks
  <2>3. NumBlocks(g) = 2 * n
    BY <2>2 DEF k
  <2>4. DOMAIN bigger = DOMAIN g
    BY <1>5 DEF PutAt
  <2>. QED
    BY <2>3, <2>4 DEF NumBlocks
<1>. HIDE DEF n, g, unrolled
<1>7. NextOf(g, last) = <<n, 0>> /\ NextOf(bigger, last) = NextOf(g, last)
  BY <1>1, <1>2, <1>6 DEF NextOf
<1>8. n # 0 /\ unrolled[1] = 0
  BY <1>1 DEF unrolled
<1>. HIDE DEF last
<1>9. ~(NextOf(g, last)[2] = 0 /\ NextOf(g, last)[1] = unrolled[1])
  BY <1>7, <1>8
<1>10. Stored(PutAt(g, last, o), unrolled, NextOf(g, last), Append(s, o))
  BY <1>4, <1>9, PushBackStored
<1>. QED
  BY <1>5, <1>7, <1>10 DEF n, unrolled, last

-------------------------------------------------------------------------------
(* The refinement *)

\* What is stored is what get() and the iterator find.
LEMMA StoredWhole ==
  ASSUME DequeAssumption, NEW bs, NEW first, NEW past, NEW s, Stored(bs, first, past, s)
  PROVE  Whole(bs, first, past, Len(s)) /\ ObjectsFrom(bs, first, Len(s)) = s
<1>. DEFINE n == NumBlocks(bs)
            m == Len(s)
            place(i) == CursorAt(bs, first, i)
<1>1. /\ n \in Nat \ {0} /\ first \in Cursors(bs) /\ m \in Nat /\ past = place(m)
      /\ \A i \in 0..m : place(i) \in Cursors(bs) /\ Row(first[2] + i) < n
      /\ \A i, j \in 0..m : i # j => place(i) # place(j)
      /\ bs \in BlocksOf(n) /\ s \in Seq(DequeObjects)
      /\ \A i \in 0..(m - 1) : ObjectAt(bs, place(i)) = s[i + 1]
      /\ \A c \in Cursors(bs) : (\A i \in 0..(m - 1) : place(i) # c) => ObjectAt(bs, c) = NullObject
  BY StoredPlaces
<1>2. ASSUME NEW i \in 0..(m - 1)
      PROVE  /\ place(i) # past /\ NextOf(bs, place(i)) = place(i + 1) /\ PrevOf(bs, place(i + 1)) = place(i)
             /\ ObjectAt(bs, place(i)) # NullObject
  <2>1. i \in 0..m /\ m \in 0..m /\ i # m /\ i \in Nat /\ i + 1 \in 1..m
    BY <1>1
  <2>2. place(i) # past /\ Row(first[2] + i) < n
    BY <1>1, <2>1
  <2>3. NextOf(bs, place(i)) = place(i + 1) /\ PrevOf(bs, place(i + 1)) = place(i)
    BY <1>1, <2>1, <2>2, CursorNext
  <2>4. s[i + 1] \in DequeObjects
    BY <1>1, <2>1
  <2>. QED
    BY <1>1, <2>2, <2>3, <2>4 DEF DequeAssumption
<1>3. ASSUME NEW b \in DOMAIN bs, NEW p \in 0..(BlockSize - 1)
      PROVE  ObjectAt(bs, <<b, p>>) # NullObject <=> \E i \in 0..(m - 1) : place(i) = <<b, p>>
  <2>1. <<b, p>> \in Cursors(bs)
    BY <1>1 DEF BlocksOf, Cursors
  <2>. HIDE DEF place
  <2>. QED
    BY <1>1, <1>2, <2>1
<1>4. ObjectsFrom(bs, first, m) = s
  <2>1. ObjectsFrom(bs, first, m) = [i \in 1..m |-> ObjectAt(bs, place(i - 1))]
    BY DEF ObjectsFrom
  <2>. HIDE DEF place
  <2>2. ASSUME NEW i \in 1..m PROVE ObjectAt(bs, place(i - 1)) = s[i]
    <3>1. i - 1 \in 0..(m - 1) /\ (i - 1) + 1 = i
      BY <1>1
    <3>. QED
      BY <1>1, <3>1
  <2>3. s = [i \in 1..m |-> s[i]]
    BY <1>1
  <2>. QED
    BY <2>1, <2>2, <2>3
<1>. QED
  BY <1>1, <1>2, <1>3, <1>4 DEF Whole

\* Of a ring that is whole, Contents is what is stored.
LEMMA ContentsStored ==
  ASSUME DequeAssumption, NEW s, Stored(blocks, begin, end, s), items = Len(s)
  PROVE  Contents = s /\ DequeInv
<1>1. Whole(blocks, begin, end, items) /\ ObjectsFrom(blocks, begin, items) = s /\ items \in Nat
  BY StoredPlaces, StoredWhole
<1>. QED
  BY <1>1 DEF Contents, DequeInv

LEMMA ContentsNext ==
  ASSUME DequeAssumption, NEW s, Stored(blocks', begin', end', s), items' = Len(s)
  PROVE  Contents' = s /\ DequeInv'
<1>1. Whole(blocks', begin', end', items') /\ ObjectsFrom(blocks', begin', items') = s /\ items' \in Nat
  BY StoredPlaces, StoredWhole
<1>. QED
  BY <1>1 DEF Contents, DequeInv

LEMMA DequeInvInit == ASSUME DequeAssumption, DequeInit PROVE Contents = <<>> /\ DequeInv
<1>. DEFINE s == <<>>
<1>1. /\ blocks = [b \in {0} |-> EmptyBlock] /\ begin = <<0, 0>> /\ end = <<0, 0>> /\ items = 0
      /\ BlockSize \in Nat \ {0} /\ s \in Seq(DequeObjects) /\ Len(s) = 0
  BY DEF DequeInit, DequeAssumption
<1>2. NumBlocks(blocks) = 1 /\ blocks \in BlocksOf(1)
  <2>1. Cardinality({0}) = 1 /\ DOMAIN blocks = {0} /\ 0..0 = {0}
    BY <1>1, FS_Singleton
  <2>2. EmptyBlock \in [0..(BlockSize - 1) -> DequeObjects \cup {NullObject}]
    BY DEF EmptyBlock
  <2>. QED
    BY <1>1, <2>1, <2>2 DEF NumBlocks, BlocksOf
<1>3. begin \in Cursors(blocks)
  BY <1>1, <1>2 DEF Cursors
<1>4. Row(0) = 0 /\ Col(0) = 0
  BY <1>1, RowColFirst
<1>. HIDE DEF s
<1>5. CursorAt(blocks, begin, 0) = <<0, 0>>
  BY <1>1, <1>2, <1>4 DEF CursorAt
<1>6. ASSUME NEW c \in Cursors(blocks) PROVE ObjectAt(blocks, c) = NullObject
  BY <1>1, <1>2 DEF Cursors, ObjectAt, EmptyBlock
<1>7. 0..(0 - 1) = {} /\ begin[2] + 0 = 0
  BY <1>1
<1>8. Stored(blocks, begin, end, s)
  BY <1>1, <1>2, <1>3, <1>4, <1>5, <1>6, <1>7, SMTT(30) DEF Stored, BlocksOf
<1>. QED
  BY <1>1, <1>8, ContentsStored DEF s

\* Each operation is the sequence's own, and keeps the ring whole.
LEMMA DequeInvStep ==
  ASSUME DequeAssumption, DequeInv, DequeNext
  PROVE  Sequence!Next /\ DequeInv'
<1>. DEFINE s == ObjectsFrom(blocks, begin, items)
<1>1. Stored(blocks, begin, end, s) /\ items \in Nat /\ Len(s) = items /\ s \in Seq(DequeObjects)
  <2>1. Stored(blocks, begin, end, s) /\ items \in Nat
    BY DEF DequeInv
  <2>. QED
    BY <2>1 DEF ObjectsFrom, Stored
<1>. HIDE DEF s
<1>2. Contents = s
  BY <1>1, ContentsStored
<1>3. ASSUME NEW o \in DequeObjects, PushFront(o) PROVE Sequence!PushFront(o) /\ DequeInv'
  <2>1. Len(<<o>> \o s) = items + 1 /\ items' = items + 1
    BY <1>1, <1>3 DEF PushFront
  <2>2. Stored(blocks', begin', end', <<o>> \o s)
    <3>1. CASE PrevOf(blocks, begin)[2] = BlockSize - 1 /\ PrevOf(blocks, begin)[1] = end[1]
      <4>. DEFINE bigger == Grown(blocks, begin[1])
                  front == PrevOf(bigger, <<0, begin[2]>>)
      <4>1. /\ blocks' = PutAt(bigger, front, o) /\ begin' = front
            /\ end' = <<NumBlocks(blocks) - 1, end[2]>>
        BY <1>3, <3>1 DEF PushFront
      <4>2. Stored(PutAt(bigger, front, o), front, <<NumBlocks(blocks) - 1, end[2]>>, <<o>> \o s)
        BY <1>1, <3>1, PushFrontGrown
      <4>. QED
        BY <4>1, <4>2
    <3>2. CASE ~(PrevOf(blocks, begin)[2] = BlockSize - 1 /\ PrevOf(blocks, begin)[1] = end[1])
      <4>. DEFINE front == PrevOf(blocks, begin)
      <4>1. blocks' = PutAt(blocks, front, o) /\ begin' = front /\ end' = end
        BY <1>3, <3>2 DEF PushFront
      <4>2. Stored(PutAt(blocks, front, o), front, end, <<o>> \o s)
        BY <1>1, <3>2, PushFrontStored
      <4>. QED
        BY <4>1, <4>2
    <3>. QED
      BY <3>1, <3>2
  <2>3. Contents' = <<o>> \o s /\ DequeInv'
    BY <2>1, <2>2, ContentsNext
  <2>. QED
    BY <1>2, <2>3 DEF Sequence!PushFront
<1>4. ASSUME NEW o \in DequeObjects, PushBack(o) PROVE Sequence!PushBack(o) /\ DequeInv'
  <2>1. Len(Append(s, o)) = items + 1 /\ items' = items + 1
    BY <1>1, <1>4 DEF PushBack
  <2>2. Stored(blocks', begin', end', Append(s, o))
    <3>1. CASE NextOf(blocks, end)[2] = 0 /\ NextOf(blocks, end)[1] = begin[1]
      <4>. DEFINE bigger == Grown(PutAt(blocks, end, o), begin[1])
                  past == NextOf(bigger, <<NumBlocks(blocks) - 1, end[2]>>)
      <4>1. blocks' = bigger /\ begin' = <<0, begin[2]>> /\ end' = past
        BY <1>4, <3>1 DEF PushBack
      <4>2. Stored(bigger, <<0, begin[2]>>, past, Append(s, o))
        BY <1>1, <3>1, PushBackGrown
      <4>. QED
        BY <4>1, <4>2
    <3>2. CASE ~(NextOf(blocks, end)[2] = 0 /\ NextOf(blocks, end)[1] = begin[1])
      <4>1. blocks' = PutAt(blocks, end, o) /\ begin' = begin /\ end' = NextOf(blocks, end)
        BY <1>4, <3>2 DEF PushBack
      <4>2. Stored(PutAt(blocks, end, o), begin, NextOf(blocks, end), Append(s, o))
        BY <1>1, <3>2, PushBackStored
      <4>. QED
        BY <4>1, <4>2
    <3>. QED
      BY <3>1, <3>2
  <2>3. Contents' = Append(s, o) /\ DequeInv'
    BY <2>1, <2>2, ContentsNext
  <2>. QED
    BY <1>2, <2>3 DEF Sequence!PushBack
<1>5. CASE PopFront
  <2>1. /\ s # <<>> /\ Len(Tail(s)) = items - 1 /\ items' = items - 1
        /\ blocks' = PutAt(blocks, begin, NullObject) /\ begin' = NextOf(blocks, begin) /\ end' = end
    BY <1>1, <1>5 DEF PopFront
  <2>2. Stored(PutAt(blocks, begin, NullObject), NextOf(blocks, begin), end, Tail(s))
    BY <1>1, <2>1, PopFrontStored
  <2>3. Contents' = Tail(s) /\ DequeInv'
    BY <2>1, <2>2, ContentsNext
  <2>. QED
    BY <1>2, <2>1, <2>3 DEF Sequence!PopFront, Sequence!Next
<1>6. CASE PopBack
  <2>1. /\ s # <<>> /\ items' = items - 1 /\ items - 1 \in Nat
        /\ blocks' = PutAt(blocks, PrevOf(blocks, end), NullObject) /\ begin' = begin
        /\ end' = PrevOf(blocks, end)
    BY <1>1, <1>6 DEF PopBack
  <2>2. Stored(PutAt(blocks, PrevOf(blocks, end), NullObject), begin, PrevOf(blocks, end),
               SubSeq(s, 1, Len(s) - 1))
    BY <1>1, <2>1, PopBackStored
  <2>3. Len(SubSeq(s, 1, Len(s) - 1)) = items'
    <3>. DEFINE m == items - 1
    <3>1. m \in Nat /\ Len(s) = m + 1 /\ Len(s) - 1 = m
      BY <1>1, <2>1
    <3>. HIDE DEF m
    <3>2. Len(SubSeq(s, 1, m)) = m
      BY <1>1, <3>1, FrontShorter
    <3>. QED
      BY <2>1, <3>1, <3>2 DEF m
  <2>4. Contents' = SubSeq(s, 1, Len(s) - 1) /\ DequeInv'
    BY <2>1, <2>2, <2>3, ContentsNext
  <2>. QED
    BY <1>2, <2>1, <2>4 DEF Sequence!PopBack, Sequence!Next
<1>7. CASE ClearDeque
  <2>1. /\ blocks' = [b \in DOMAIN blocks |-> EmptyBlock] /\ begin' = end /\ end' = end
        /\ items' = Len(<<>>)
    BY <1>7 DEF ClearDeque
  <2>2. Stored([b \in DOMAIN blocks |-> EmptyBlock], end, end, <<>>)
    BY <1>1, ClearStored
  <2>3. Contents' = <<>> /\ DequeInv'
    BY <2>1, <2>2, ContentsNext
  <2>. QED
    BY <2>3 DEF Sequence!Clear, Sequence!Next
<1>. QED
  BY <1>3, <1>4, <1>5, <1>6, <1>7 DEF DequeNext, Sequence!Next

\* The ring of blocks implements the sequence with two ends, for every size of
\* the blocks: nothing that pushFront(), pushBack(), their removals, clear() and
\* grow() do to the ring is seen in the sequence that get() and the iterator find.
THEOREM DequeImplementsSequence == ASSUME DequeAssumption PROVE DequeSpec => ImplementsObjectSequence
<1>1. DequeInit => Sequence!Init /\ DequeInv
  BY DequeInvInit DEF Sequence!Init
<1>2. DequeInv /\ [DequeNext]_dequeVars => [Sequence!Next]_(Contents) /\ DequeInv'
  <2>1. CASE DequeInv /\ DequeNext
    BY <2>1, DequeInvStep
  <2>2. ASSUME DequeInv, UNCHANGED dequeVars PROVE UNCHANGED Contents /\ DequeInv'
    <3>1. blocks' = blocks /\ begin' = begin /\ end' = end /\ items' = items
      BY <2>2 DEF dequeVars
    <3>2. UNCHANGED Contents
      BY <3>1 DEF Contents
    <3>3. DequeInv'
      BY <2>2, <3>1 DEF DequeInv
    <3>. QED
      BY <3>2, <3>3
  <2>. QED
    BY <2>1, <2>2
<1>. QED
  BY <1>1, <1>2, PTL DEF DequeSpec, ImplementsObjectSequence, Sequence!Spec

===============================================================================
