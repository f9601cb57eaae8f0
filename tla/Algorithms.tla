------------------------------- MODULE Algorithms -------------------------------
(***************************************************************************)
(* The sorts, searches and set operations of uoi/algorithms*, as           *)
(* operators, checked against what they are for on every input up to a     *)
(* bound: a behaviour only grows the two inputs, a key at a time.          *)
(*                                                                         *)
(* An array is a function from 0..n-1 to objects <<key, position>>, where  *)
(* the position tells equal objects apart.  The two cutoffs below which    *)
(* the fast sorts use insertionSort() are constants: 16 and 10 in the code.*)
(* For the sort of strings, each key has a text.                           *)
(***************************************************************************)
EXTENDS Integers, Sequences, FiniteSets

CONSTANTS SortKeys,         \* the keys: numbers
          MaxSort,          \* bound on the input of the sorts
          MaxSet,           \* bound on each input of the set operations
          Orders,           \* the orderings asked for: 1 natural, -1 reverse
          MergeCutoff,      \* mergeSort(): "if ((end - begin) <= 16)"
          QuickCutoff,      \* quickSort(): "if (high - low > 10)", and
                            \* multiKeyQuickSort(): "while (n <= 10)"
          NineCutoff        \* multiKeyQuickSort(): "if (n > 30)"

VARIABLES lhs, rhs          \* sequences of keys

\* the heap that heapSort() makes
Sorter == INSTANCE Heap WITH
  NumKeys <- 0, Copies <- 0, array <- <<>>, items <- 0, multiSet <- TRUE, popped <- <<>>

Compare(x, y, ord) == Sorter!Compare(x, y, ord)

algVars == <<lhs, rhs>>

Sorted(s) == \A i \in 1..(Len(s) - 1) : s[i] <= s[i + 1]

Inputs == lhs = <<>> /\ rhs = <<>>

\* any sequence for the sorts
GrowLhs(k) ==
  /\ rhs = <<>> /\ Len(lhs) < MaxSort
  /\ lhs' = Append(lhs, k)
  /\ UNCHANGED rhs

\* two sorted ones for the set operations
GrowRhs(k) ==
  /\ Sorted(lhs) /\ Len(lhs) <= MaxSet /\ Len(rhs) < MaxSet
  /\ rhs' = Append(rhs, k) /\ Sorted(rhs')
  /\ UNCHANGED lhs

GrowInputs == \E k \in SortKeys : GrowLhs(k) \/ GrowRhs(k)

AlgSpec == Inputs /\ [][GrowInputs]_algVars

-------------------------------------------------------------------------------
(* Sorting *)

Least(S)    == CHOOSE x \in S : \A y \in S : x <= y
Greatest(S) == CHOOSE x \in S : \A y \in S : y <= x

\* what insertionSort() does to the slots begin..end-1
InsertBy(a, begin, end, Before(_, _)) ==
  LET \* j, where the object of slot i is inserted among the sorted ones before it
      place(b, i) == Least({p \in begin..i : \A q \in p..(i - 1) : Before(b[i], b[q])})
      insert(b, i) ==
        LET p == place(b, i)
        IN [q \in DOMAIN b |-> IF q \notin p..i THEN b[q] ELSE IF q = p THEN b[i] ELSE b[q - 1]]
      upTo[i \in begin..(end - 1)] == IF i = begin THEN a ELSE insert(upTo[i - 1], i)
  IN IF begin = end THEN a ELSE upTo[end - 1]

InsertionSort(a, begin, end, ord) ==
  InsertBy(a, begin, end, LAMBDA x, y : Compare(x, y, ord) < 0)

Segment(a, begin, end) == [i \in 1..(end - begin) |-> a[begin + i - 1]]

\* the halves of mergeSort(): the left one first where neither is smaller
RECURSIVE MergeHalves(_, _, _)
MergeHalves(l, r, ord) ==
  IF l = <<>> THEN r
  ELSE IF r = <<>> THEN l
  ELSE IF Compare(l[1], r[1], ord) <= 0
       THEN <<l[1]>> \o MergeHalves(Tail(l), r, ord)
       ELSE <<r[1]>> \o MergeHalves(l, Tail(r), ord)

\* mergeSort(): the small segments are sorted without the ordering, and the
\* result is copied to the front of the array, wherever the segment begins
RECURSIVE MergeSort(_, _, _, _)
MergeSort(a, begin, end, ord) ==
  IF end - begin <= MergeCutoff
  THEN InsertionSort(a, begin, end, 1)
  ELSE LET mid == (begin + end) \div 2
           b == MergeSort(MergeSort(a, begin, mid, ord), mid, end, ord)
           buf == MergeHalves(Segment(b, begin, mid), Segment(b, mid, end), ord)
       IN [i \in DOMAIN b |-> IF i < end - begin THEN buf[i + 1] ELSE b[i]]

SwapSlots(a, i, j) == [a EXCEPT ![i] = a[j], ![j] = a[i]]

\* the loop that splits a segment around the pivot in slot high - 1, and the
\* slot where the pivot ends up
RECURSIVE Partition(_, _, _, _, _)
Partition(a, i, j, high, ord) ==
  LET pivot == a[high - 1]
      up   == Least({x \in (i + 1)..high : Compare(a[x], pivot, ord) >= 0})
      down == Greatest({x \in 0..(j - 1) : Compare(a[x], pivot, ord) <= 0})
  IN IF up >= down THEN [array |-> SwapSlots(a, up, high - 1), pivot |-> up]
     ELSE Partition(SwapSlots(a, up, down), up, down, high, ord)

\* low, mid and high in order, and the middle one in slot high - 1
MedianOfThree(a, low, high, ord) ==
  LET mid == (low + high) \div 2
      order(b, x, y) == IF Compare(b[x], b[y], ord) > 0 THEN SwapSlots(b, x, y) ELSE b
  IN SwapSlots(order(order(order(a, low, mid), mid, high), low, mid), mid, high - 1)

\* mutant: the smaller segment is left for later
LaterSegmentSmaller(low, i, high) == IF i - low > high - i THEN <<i + 1, high>> ELSE <<low, i - 1>>

\* which side of the pivot in slot i is pushed onto the stack
LaterSegment(low, i, high) == IF i - low > high - i THEN <<low, i - 1>> ELSE <<i + 1, high>>

\* quickSort(), and the most segments that its stack has held
RECURSIVE QuickSort(_, _, _, _, _, _)
QuickSort(a, low, high, stack, deepest, ord) ==
  IF high - low > QuickCutoff
  THEN LET split == Partition(MedianOfThree(a, low, high, ord), low, high - 1, high, ord)
           i == split.pivot
           later == LaterSegment(low, i, high)
           now == IF later[1] = low THEN <<i + 1, high>> ELSE <<low, i - 1>>
           deeper == <<later>> \o stack
       IN QuickSort(split.array, now[1], now[2], deeper,
                    IF Len(deeper) > deepest THEN Len(deeper) ELSE deepest, ord)
  ELSE LET b == InsertionSort(a, low, high + 1, ord)
       IN IF stack = <<>> THEN [array |-> b, deepest |-> deepest]
          ELSE QuickSort(b, stack[1][1], stack[1][2], Tail(stack), deepest, ord)

QuickSorted(a, n, ord) ==
  IF n <= 1 THEN [array |-> a, deepest |-> 0] ELSE QuickSort(a, 0, n - 1, <<>>, 0, ord)

\* heapSort(): all into a heap, and the greatest out of it n times
HeapSort(a, n, ord) ==
  LET full[i \in 0..n] == IF i = 0 THEN [x \in {} |-> 0] ELSE Sorter!SwapUp(full[i - 1], i - 1, a[i - 1], ord)
      left[k \in 0..n] == IF k = 0 THEN full[n] ELSE Sorter!RemoveIdx(left[k - 1], n - k + 1, 0, ord)
  IN [i \in 0..(n - 1) |-> left[n - 1 - i][0]]

-------------------------------------------------------------------------------
(* Sorting strings, a character at a time *)

\* the text of a key, ended by T(): two of them share their first character
Text(k) == IF k = 1 THEN <<1, 0>> ELSE IF k = 2 THEN <<1, 2, 0>> ELSE <<k - 1, 0>>

\* cmp(), which is subtract() or subtractReverse()
CompareChars(x, y, depth, ord) == ord * (Text(x[1])[depth + 1] - Text(y[1])[depth + 1])

RECURSIVE CompareTexts(_, _, _, _)
CompareTexts(x, y, depth, ord) ==
  LET cmp == CompareChars(x, y, depth, ord)
  IN IF cmp # 0 \/ Text(x[1])[depth + 1] = 0 THEN cmp ELSE CompareTexts(x, y, depth + 1, ord)

MultiKeyInsertionSort(a, begin, end, depth, ord) ==
  InsertBy(a, begin, end, LAMBDA x, y : CompareTexts(x, y, depth, ord) < 0)

MultiKeyMedianOfThree(a, l, m, h, depth, ord) ==
  LET cmp(x, y) == CompareChars(a[x], a[y], depth, ord)
  IN IF cmp(l, m) = 0 THEN l
     ELSE IF cmp(h, l) = 0 \/ cmp(h, m) = 0 THEN h
     ELSE IF cmp(l, m) < 0
          THEN IF cmp(m, h) < 0 THEN m ELSE IF cmp(l, h) < 0 THEN h ELSE l
          ELSE IF cmp(m, h) > 0 THEN m ELSE IF cmp(l, h) < 0 THEN l ELSE h

\* the slot of the pivot: of nine objects when there are many
PivotSlot(a, begin, end, depth, ord) ==
  LET n8  == (end - begin) \div 8
      mid == (begin + end) \div 2
      med(l, m, h) == MultiKeyMedianOfThree(a, l, m, h, depth, ord)
  IN IF end - begin > NineCutoff
     THEN med(med(begin, begin + n8, begin + 2 * n8), med(mid - n8, mid, mid + n8),
              med(end - 1 - 2 * n8, end - 1 - n8, end - 1))
     ELSE med(begin, mid, end - 1)

\* the split around the pivot's character: equal ones gather before slot a and
\* after slot d, smaller ones in a..b-1, greater ones in c+1..d
RECURSIVE SplitThree(_, _, _, _)
SplitThree(s, pivot, depth, ord) ==
  LET cmp(i) == CompareChars(s.array[i], pivot, depth, ord)
      on(t)  == SplitThree(t, pivot, depth, ord)
  IN IF s.b > s.c THEN s
     ELSE IF cmp(s.b) < 0 THEN on([s EXCEPT !.b = @ + 1])
     ELSE IF cmp(s.b) = 0
          THEN on([s EXCEPT !.array = SwapSlots(@, s.a, s.b), !.a = @ + 1, !.b = @ + 1])
     ELSE IF cmp(s.c) > 0 THEN on([s EXCEPT !.c = @ - 1])
     ELSE IF cmp(s.c) = 0
          THEN on([s EXCEPT !.array = SwapSlots(@, s.c, s.d), !.c = @ - 1, !.d = @ - 1])
     ELSE on([s EXCEPT !.array = SwapSlots(@, s.b, s.c), !.b = @ + 1, !.c = @ - 1])

\* utl::swap() of n slots from i and from j
SwapRuns(a, i, j, n) ==
  [x \in DOMAIN a |-> IF x \in i..(i + n - 1) THEN a[x + j - i]
                      ELSE IF x \in j..(j + n - 1) THEN a[x + i - j] ELSE a[x]]

\* mutant: equal first characters count as equal texts
BedEqualsDone(s, begin, end, depth) ==
  LET less == s.b - s.a
      more == s.d - s.c
  IN <<<<begin, begin + less, depth>>,
       <<begin + less, begin + less, depth + 1>>,
       <<end - more, end, depth>>>>

\* bed: the segments of smaller, equal and greater ones; equal ones that end
\* here need no more sorting
Bed(s, begin, end, depth) ==
  LET less == s.b - s.a
      more == s.d - s.c
  IN <<<<begin, begin + less, depth>>,
       <<begin + less, IF Text(s.array[begin + less][1])[depth + 1] = 0 THEN begin + less ELSE end - more,
         depth + 1>>,
       <<end - more, end, depth>>>>

\* "bubble sort in order of increasing size"
BySize(bed) ==
  LET size(g) == g[2] - g[1]
      order(q, i) == IF size(q[i + 1]) < size(q[i]) THEN SwapSlots(q, i, i + 1) ELSE q
  IN order(order(order(bed, 2), 1), 2)

\* the equal ones of both ends swapped into the middle
Gathered(s, begin, end) ==
  LET front == Least({s.a - begin, s.b - s.a})
      back  == Least({s.d - s.c, end - s.d - 1})
  IN [s EXCEPT !.array = SwapRuns(SwapRuns(@, begin, s.b - front, front), s.b, end - back, back)]

\* the split of a segment whose pivot is in its first slot
Parted(a, begin, end, depth, ord) ==
  Gathered(SplitThree([array |-> a, a |-> begin + 1, b |-> begin + 1, c |-> end - 1, d |-> end - 1],
                      a[begin], depth, ord),
           begin, end)

\* the two larger segments go on the stack
Stacked(bed, stack) == SelectSeq(<<bed[2], bed[3]>>, LAMBDA g : g[2] - g[1] > 1) \o stack

\* multiKeyQuickSort() of a segment and those on the stack; the stack's top is
\* its first element
RECURSIVE MultiKeyQuickSort(_, _, _, _, _)
MultiKeyQuickSort(a, seg, stack, deepest, ord) ==
  LET begin == seg[1]
      end   == seg[2]
      depth == seg[3]
  IN IF end - begin <= QuickCutoff
     THEN LET b == MultiKeyInsertionSort(a, begin, end, depth, ord)
          IN IF stack = <<>> THEN [array |-> b, deepest |-> deepest]
             ELSE MultiKeyQuickSort(b, stack[1], Tail(stack), deepest, ord)
     ELSE LET s == Parted(SwapSlots(a, begin, PivotSlot(a, begin, end, depth, ord)), begin, end, depth, ord)
              bed == BySize(Bed(s, begin, end, depth))
              deeper == Stacked(bed, stack)
          IN MultiKeyQuickSort(s.array, bed[1], deeper, Greatest({deepest, Len(deeper)}), ord)

-------------------------------------------------------------------------------
(* Searching an array for a key *)

FindTypes == {"any", "first", "last", "ip"}

NotFound == -1              \* size_t_max

\* the loop of binarySearch(): where low, high and mid are when it ends
RECURSIVE Halve(_, _, _, _)
Halve(a, low, high, key) ==
  LET mid == (low + high) \div 2
      here == [low |-> low, high |-> high, mid |-> mid, cmp |-> a[mid][1] - key]
      lower == [here EXCEPT !.high = mid - 1]
      upper == [here EXCEPT !.low = mid + 1]
  IN IF here.cmp > 0 THEN IF low > mid - 1 THEN lower ELSE Halve(a, low, mid - 1, key)
     ELSE IF here.cmp < 0 THEN IF mid + 1 > high THEN upper ELSE Halve(a, mid + 1, high, key)
     ELSE here

\* mutant: one equal neighbour is taken for the last one
RECURSIVE BinarySearchNeighbour(_, _, _, _, _)
BinarySearchNeighbour(a, begin, end, key, findType) ==
  IF begin = end THEN IF findType = "ip" THEN begin ELSE NotFound
  ELSE LET s == Halve(a, begin, end - 1, key)
       IN IF findType = "ip" THEN IF s.cmp # 0 THEN s.low ELSE s.mid
          ELSE IF s.cmp # 0 THEN NotFound
          ELSE IF findType = "first" /\ s.mid > s.low /\ a[s.mid - 1][1] = key
               THEN BinarySearchNeighbour(a, s.low, s.mid, key, findType)
          ELSE IF findType = "last" /\ s.mid < s.high /\ a[s.mid + 1][1] = key
               THEN s.mid + 1
          ELSE s.mid

RECURSIVE BinarySearch(_, _, _, _, _)
BinarySearch(a, begin, end, key, findType) ==
  IF begin = end THEN IF findType = "ip" THEN begin ELSE NotFound
  ELSE LET s == Halve(a, begin, end - 1, key)
       IN IF findType = "ip" THEN IF s.cmp # 0 THEN s.low ELSE s.mid
          ELSE IF s.cmp # 0 THEN NotFound
          ELSE IF findType = "first" /\ s.mid > s.low /\ a[s.mid - 1][1] = key
               THEN BinarySearch(a, s.low, s.mid, key, findType)
          ELSE IF findType = "last" /\ s.mid < s.high /\ a[s.mid + 1][1] = key
               THEN BinarySearch(a, s.mid + 1, s.high + 1, key, findType)
          ELSE s.mid

\* the binarySearch() of algorithms_inl.h, which says that a key is found in an
\* empty range
BinarySearchAny(a, begin, end, key, findType) ==
  IF begin = end THEN begin ELSE BinarySearch(a, begin, end, key, findType)

\* linearSearch(): n, the end, where there is no match
LinearSearch(a, n, key, findType) ==
  LET matches == {i \in 0..(n - 1) : a[i][1] = key}
  IN IF matches = {} THEN n ELSE IF findType = "last" THEN Greatest(matches) ELSE Least(matches)

\* linearSearchSorted(): stops at the first greater object, which is the
\* insertion point where nothing is equal
LinearSearchSorted(a, n, key, findType) ==
  LET greater == {i \in 0..(n - 1) : a[i][1] > key}
      stop    == IF greater = {} THEN n ELSE Least(greater)
      matches == {i \in 0..(stop - 1) : a[i][1] = key}
  IN IF matches # {} THEN IF findType = "last" THEN Greatest(matches) ELSE Least(matches)
     ELSE IF findType = "ip" THEN stop ELSE n

-------------------------------------------------------------------------------
(* Set operations on sorted sequences *)

\* The walk along two sorted sequences that all of them make: whether an object
\* of the left or the right one alone, or of both, is part of the result, and
\* whether the right one of an equal pair is kept for the next left one.
RECURSIVE Walk(_, _, _)
Walk(l, r, rule) ==
  IF l = <<>> \/ r = <<>>
  THEN (IF rule.left THEN l ELSE <<>>) \o (IF rule.right THEN r ELSE <<>>)
  ELSE LET x == <<l[1]>>
           y == <<r[1]>>
       IN IF l[1] < r[1] THEN (IF rule.left THEN x ELSE <<>>) \o Walk(Tail(l), r, rule)
          ELSE IF l[1] > r[1] THEN (IF rule.right THEN y ELSE <<>>) \o Walk(l, Tail(r), rule)
          ELSE (IF rule.both THEN x ELSE <<>>)
               \o Walk(Tail(l), IF rule.keepRight THEN r ELSE Tail(r), rule)

Rule(left, right, both, keepRight) ==
  [left |-> left, right |-> right, both |-> both, keepRight |-> keepRight]

Difference(l, r)          == Walk(l, r, Rule(TRUE, FALSE, FALSE, FALSE))
Intersect(l, r, multiSet) == Walk(l, r, Rule(FALSE, FALSE, TRUE, multiSet))
\* mutant: both of an equal pair are output, the right one later
MergeBoth(l, r)           == Walk(l, r, Rule(TRUE, TRUE, TRUE, TRUE))
Merge(l, r)               == Walk(l, r, Rule(TRUE, TRUE, TRUE, FALSE))
SymmetricDifference(l, r) == Walk(l, r, Rule(TRUE, TRUE, FALSE, FALSE))
IntersectCard(l, r, multiSet) == Len(Intersect(l, r, multiSet))
Intersects(l, r)          == Intersect(l, r, FALSE) # <<>>
IsSubSet(l, r)            == Difference(l, r) = <<>>

IsSuperSet(l, r)          == IsSubSet(r, l)

\* symmetricDifference() with an output for each side
SymmetricDifferences(l, r) ==
  <<Walk(l, r, Rule(TRUE, FALSE, FALSE, FALSE)), Walk(l, r, Rule(FALSE, TRUE, FALSE, FALSE))>>

\* clobber() from slots i and j on: which object of l is assigned which of r
RECURSIVE Clobber(_, _, _, _)
Clobber(l, r, i, j) ==
  IF i > Len(l) \/ j > Len(r) THEN {}
  ELSE IF l[i] < r[j] THEN Clobber(l, r, i + 1, j)
  ELSE IF l[i] > r[j] THEN Clobber(l, r, i, j + 1)
  ELSE {<<i, j>>} \union Clobber(l, r, i + 1, j + 1)

\* compare() of two sequences
RECURSIVE CompareSeqs(_, _)
CompareSeqs(l, r) ==
  IF l = <<>> \/ r = <<>> THEN (IF l # <<>> THEN 1 ELSE 0) - (IF r # <<>> THEN 1 ELSE 0)
  ELSE IF l[1] # r[1] THEN l[1] - r[1] ELSE CompareSeqs(Tail(l), Tail(r))

\* isSorted() of a sequence with a first object
IsSorted(s) ==
  LET upTo[i \in 1..Len(s)] == i = 1 \/ (upTo[i - 1] /\ s[i - 1] <= s[i])
  IN upTo[Len(s)]

\* unique(): an object that equals the one output last is left out
Unique(s) ==
  LET upTo[i \in 0..Len(s)] ==
        IF i = 0 THEN <<>>
        ELSE LET u == upTo[i - 1]
             IN IF u # <<>> /\ u[Len(u)] = s[i] THEN u ELSE Append(u, s[i])
  IN upTo[Len(s)]

-------------------------------------------------------------------------------
(* Properties *)

ArrayOf(s) == [i \in 0..(Len(s) - 1) |-> <<s[i + 1], i>>]

\* a has exactly the objects of b, in the order
IsSortOf(a, b, ord) ==
  /\ DOMAIN a = DOMAIN b
  /\ {a[i] : i \in DOMAIN a} = {b[i] : i \in DOMAIN b}
  /\ \A i \in DOMAIN a : i > 0 => Compare(a[i - 1], a[i], ord) <= 0

KeepsEquals(a) == \A i \in DOMAIN a : i > 0 /\ a[i - 1][1] = a[i][1] => a[i - 1][2] < a[i][2]

\* "Merge-sort (part of) an array" (algorithms.h): the array holds the objects
\* that were in it, in the order that was asked for, equal ones in their old order.
\* False of the code: an array of which a second half is split again is left with
\* objects twice and others lost, and one in the reverse ordering is not sorted.
MergeSortSorts ==
  \A ord \in Orders :
    LET a == ArrayOf(lhs)
        b == MergeSort(a, 0, Len(lhs), ord)
    IN IsSortOf(b, a, ord) /\ KeepsEquals(b)

\* insertionSort(), quickSort() and heapSort() return the objects they were
\* given in the order they were asked for, insertionSort() equal ones in their
\* old order; and quickSort(), which pushes the larger segment, needs a stack
\* that is logarithmic in the size, so that 64 words are enough.
SortsSort ==
  LET n == Len(lhs)
      a == ArrayOf(lhs)
  IN \A ord \in Orders :
       LET stable == InsertionSort(a, 0, n, ord)
           quick  == QuickSorted(a, n, ord)
       IN /\ IsSortOf(stable, a, ord) /\ KeepsEquals(stable)
          /\ IsSortOf(quick.array, a, ord)
          /\ quick.deepest > 0 => (QuickCutoff + 2) * 2 ^ (quick.deepest - 1) <= n
          /\ n > 0 => IsSortOf(HeapSort(a, n, ord), a, ord)
          /\ n > 0 => IsSorted(lhs) = Sorted(lhs)

\* multiKeyQuickSort() orders the objects by their texts, whichever way, reads no
\* character past the end of one, and its stack, which the smallest of three
\* segments never enters, grows with the logarithm of the size.
TextsSort ==
  LET n == Len(lhs)
      a == ArrayOf(lhs)
  IN \A ord \in Orders :
       LET multi == MultiKeyQuickSort(a, <<0, n, 0>>, <<>>, 0, ord)
       IN /\ IsSortOf(multi.array, a, ord)
          /\ 3 ^ multi.deepest <= (n + 1) * (n + 1)

\* The searches agree with each other and with the array: any, the first or the
\* last of equal objects is found wherever the halving meets them, and an
\* insertion point keeps a sorted array sorted.
SearchesFind ==
  Sorted(lhs) /\ rhs = <<>> =>
    LET n == Len(lhs)
        a == ArrayOf(lhs)
    IN \A k \in SortKeys, f \in FindTypes :
         LET at == {i \in 0..(n - 1) : lhs[i + 1] = k}
             binary == BinarySearch(a, 0, n, k, f)
             linear == LinearSearchSorted(a, n, k, f)
             right(i, none) ==
               IF at = {} /\ f # "ip" THEN i = none
               ELSE CASE f = "any"   -> i \in at
                      [] f = "first" -> i = Least(at)
                      [] f = "last"  -> i = Greatest(at)
                      [] OTHER -> /\ \A j \in 0..(i - 1) : lhs[j + 1] <= k
                                  /\ \A j \in i..(n - 1) : lhs[j + 1] >= k
         IN /\ right(binary, NotFound) /\ right(linear, n)
            /\ n > 0 => right(BinarySearchAny(a, 0, n, k, f), NotFound)
            /\ f # "ip" => right(LinearSearch(a, n, k, f), n)

Times(s, k) == Cardinality({i \in 1..Len(s) : s[i] = k})

\* The set operations on sorted sequences with duplicates: each key comes out
\* as often as the operation on bags says, in order, and the predicates agree
\* with the operations.
SetOperationsExact ==
  Sorted(lhs) =>
    LET monus(x, y) == IF x > y THEN x - y ELSE 0
        less(x, y)  == IF x < y THEN x ELSE y
        d == Difference(lhs, rhs)
        m == Merge(lhs, rhs)
        s == SymmetricDifference(lhs, rhs)
        i == Intersect(lhs, rhs, FALSE)
        j == Intersect(lhs, rhs, TRUE)
        u == Unique(lhs)
    IN /\ \A out \in {d, m, s, i, j, u} : Sorted(out)
       /\ \A k \in SortKeys :
            LET x == Times(lhs, k)
                y == Times(rhs, k)
            IN /\ Times(d, k) = monus(x, y)
               /\ Times(m, k) = x + monus(y, x)
               /\ Times(s, k) = monus(x, y) + monus(y, x)
               /\ Times(i, k) = less(x, y)
               /\ Times(j, k) = (IF y > 0 THEN x ELSE 0)
               /\ Times(u, k) = less(x, 1)
       /\ Intersects(lhs, rhs) = (\E k \in SortKeys : Times(lhs, k) > 0 /\ Times(rhs, k) > 0)
       /\ IsSubSet(lhs, rhs) = (\A k \in SortKeys : Times(lhs, k) <= Times(rhs, k))
       /\ IsSuperSet(rhs, lhs) = IsSubSet(lhs, rhs)
       /\ SymmetricDifferences(lhs, rhs) = <<d, Difference(rhs, lhs)>>
       /\ LET rank(q, x) == Cardinality({y \in 1..x : q[y] = q[x]})
          IN Clobber(lhs, rhs, 1, 1) =
               {p \in (DOMAIN lhs) \X (DOMAIN rhs) :
                  lhs[p[1]] = rhs[p[2]] /\ rank(lhs, p[1]) = rank(rhs, p[2])}
       /\ CompareSeqs(lhs, rhs) = -CompareSeqs(rhs, lhs)
       /\ (CompareSeqs(lhs, rhs) = 0) = (lhs = rhs)
       /\ CompareSeqs(lhs, rhs) < 0 =>
            LET same == {p \in 0..Len(lhs) : p <= Len(rhs) /\ SubSeq(lhs, 1, p) = SubSeq(rhs, 1, p)}
                first == Greatest(same) + 1
            IN first > Len(lhs) \/ lhs[first] < rhs[first]
       /\ IntersectCard(lhs, rhs, FALSE) + Len(d) = Len(lhs)

===============================================================================
