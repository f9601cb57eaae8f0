------------------------------ MODULE BWTencoder ------------------------------
(***************************************************************************)
(* BWTencoder (udc/BWTencoder.cpp): the block-sorting transform and what   *)
(* undoes it, and the move-to-front code with its runs of zeroes.          *)
(*                                                                         *)
(* A long block is sorted bucket by bucket, on two bytes first, with what  *)
(* is already sorted used to order the rest and to shorten comparisons.    *)
(* The sorts that order one bucket (multiKeyQuickSort(), quickSort()) are  *)
(* modelled by their result: the bucket in the order that compare() gives. *)
(* The arithmetic coder that carries the symbols is another module.        *)
(***************************************************************************)
EXTENDS Naturals, Sequences, FiniteSets, SequencesExt

CONSTANTS
  Radix,        \* the number of byte values (256), at least 2
  Pieces,       \* what is written to a block, one after the other
  MaxPieces,    \* bound: pieces in a block
  LongBlock,    \* doTransform() treats shorter blocks apart (64), at least 4
  MaxTag        \* the ranks that fit in a word's lower half (KB(64))

VARIABLES
  block,     \* the bytes in the encoder's buffer
  pieces,    \* the number of pieces they were written in
  order      \* _pos, the byte values by rank, as the block before left it

bwtVars == <<block, pieces, order>>

ByteValues == 0..(Radix - 1)

\* a block read around its end, and the two bytes on which it is sorted first
At(b, i) == b[(i % Len(b)) + 1]
Pair(b, i) == <<At(b, i), At(b, i + 1)>>
Places(b) == 0..(Len(b) - 1)

\* the elements of a set in a total order
SortBy(S, Below(_, _)) ==
  LET rank == [x \in S |-> Cardinality({y \in S : Below(y, x)})]
  IN  [k \in 1..Cardinality(S) |-> CHOOSE x \in S : rank[x] = k - 1]

-------------------------------------------------------------------------------
(* doTransform(): the order of the rotations; those of a short block *)

\* insertionSort() compares two rotations, at most once around
RECURSIVE RotationBelow(_, _, _, _)
RotationBelow(b, s, t, n) ==
  IF At(b, s) # At(b, t) \/ n = 1 THEN At(b, s) <= At(b, t)
  ELSE RotationBelow(b, s + 1, t + 1, n - 1)

RECURSIVE InsertRotation(_, _, _)
InsertRotation(b, sorted, r) ==
  IF sorted = <<>> THEN <<r>>
  ELSE LET last == Last(sorted)
       IN  IF RotationBelow(b, last, r, Len(b)) THEN Append(sorted, r)
           ELSE Append(InsertRotation(b, Front(sorted), r), last)

ShortOrder(b) ==
  LET sorted == FoldLeft(LAMBDA s, r : InsertRotation(b, s, r), <<>>, [i \in 1..Len(b) |-> i - 1])
  IN  [k \in Places(b) |-> sorted[k + 1]]

-------------------------------------------------------------------------------
(* Those of a long block *)

\* stripe(): the word at i holds the four bytes from i on; the lower two give way to a
\* tag when their bucket is sorted.
Stripe(b) == [i \in Places(b) |-> [hi |-> Pair(b, i), lo |-> Pair(b, i + 2)]]

PairBelow(v, w) == v[1] < w[1] \/ (v[1] = w[1] /\ v[2] < w[2])
WordBelow(v, w) == PairBelow(v.hi, w.hi) \/ (v.hi = w.hi /\ PairBelow(v.lo, w.lo))

\* compare(): word by word, four bytes on, at most once around
RECURSIVE StripeBelow(_, _, _, _)
StripeBelow(stripe, i, j, n) ==
  LET size == Cardinality(DOMAIN stripe)
      v == stripe[i % size]
      w == stripe[j % size]
  IN  IF v # w THEN WordBelow(v, w)
      ELSE n < size /\ StripeBelow(stripe, i + 4, j + 4, n + 4)

\* _freq[(c << 8) + d]: where in _ptr the rotations that begin with c, d begin
From(b, c, d) == Cardinality({i \in Places(b) : PairBelow(Pair(b, i), <<c, d>>)})
UpTo(b, c, d) == IF d = Radix - 1 THEN From(b, c + 1, 0) ELSE From(b, c, d + 1)

\* the radix sort on two bytes; in a bucket the last rotation comes first
RadixOrder(b) ==
  LET sorted == SortBy(Places(b),
                  LAMBDA i, j : PairBelow(Pair(b, i), Pair(b, j)) \/ (Pair(b, i) = Pair(b, j) /\ i > j))
  IN  [k \in Places(b) |-> sorted[k + 1]]

\* multiKeyQuickSort(): one bucket in the order of compare(), from the third byte on
SortBucket(ptr, stripe, lo, hi) ==
  LET below(i, j) == StripeBelow(stripe, i + 2, j + 2, 4)
      sorted == SortBy({ptr[k] : k \in lo..(hi - 1)},
                             LAMBDA i, j : below(i, j) \/ (~below(j, i) /\ i < j))
  IN  [k \in DOMAIN ptr |-> IF k \in lo..(hi - 1) THEN sorted[k - lo + 1] ELSE ptr[k]]

\* the buckets [ss,*] but for [ss,ss], unless an earlier turn has ordered them
SortBig(b, s, ss) ==
  FoldLeft(LAMBDA p, d : IF d = ss \/ <<ss, d>> \in s.sorted THEN p
                         ELSE SortBucket(p, s.stripe, From(b, ss, d), UpTo(b, ss, d)),
           s.ptr, [i \in 1..Radix |-> i - 1])

\* the rotation that begins one byte before another
Before(b, r) == (r + Len(b) - 1) % Len(b)

\* [ss,ss] from below: the bucket grows into what it is read from
RECURSIVE FillUp(_, _, _, _, _)
FillUp(b, ptr, ss, get, put) ==
  IF get >= put THEN ptr
  ELSE LET j == Before(b, ptr[get])
       IN  IF At(b, j) = ss THEN FillUp(b, [ptr EXCEPT ![put] = j], ss, get + 1, put + 1)
           ELSE FillUp(b, ptr, ss, get + 1, put)

\* and from above; get and put are one more than in the code
RECURSIVE FillDown(_, _, _, _, _)
FillDown(b, ptr, ss, get, put) ==
  IF get <= put THEN ptr
  ELSE LET j == Before(b, ptr[get - 1])
       IN  IF At(b, j) = ss THEN FillDown(b, [ptr EXCEPT ![put - 1] = j], ss, get - 1, put - 1)
           ELSE FillDown(b, ptr, ss, get - 1, put)

\* mutant: [ss,ss] is filled from below only
OrderSameBelow(b, ptr, ss) == FillUp(b, ptr, ss, From(b, ss, 0), From(b, ss, ss))

OrderSame(b, ptr, ss) ==
  FillDown(b, FillUp(b, ptr, ss, From(b, ss, 0), From(b, ss, ss)),
           ss, From(b, ss + 1, 0), UpTo(b, ss, ss))

\* how far a rank is shifted to fit
RECURSIVE Shifts(_)
Shifts(size) == IF size < MaxTag THEN 0 ELSE 1 + Shifts(size \div 2)

\* mutant: the last rank first
TagReversed(b, ptr, stripe, ss) ==
  LET rank(i) == CHOOSE k \in DOMAIN ptr : ptr[k] = i
  IN  [i \in Places(b) |-> IF At(b, i) # ss THEN stripe[i]
                           ELSE [stripe[i] EXCEPT !.lo = <<0, From(b, ss + 1, 0) - rank(i)>>]]

\* the words of the sorted bucket are tagged with the rank of their rotation
Tag(b, ptr, stripe, ss) ==
  LET lo == From(b, ss, 0)
      scale == 2 ^ Shifts(From(b, ss + 1, 0) - lo)
      rank(i) == (CHOOSE k \in DOMAIN ptr : ptr[k] = i) - lo
  IN  [i \in Places(b) |-> IF At(b, i) # ss THEN stripe[i]
                           ELSE [stripe[i] EXCEPT !.lo = <<0, rank(i) \div scale>>]]

\* [*,ss], for the bytes whose turn is to come, in the order of [ss,*]
OrderBefore(b, ptr, done, ss) ==
  LET lo == From(b, ss, 0)
      turn(s, k) ==
        LET j == Before(b, s.ptr[k])
            c == At(b, j)
        IN  IF c \in done THEN s
            ELSE [ptr |-> [s.ptr EXCEPT ![s.put[c]] = j], put |-> [s.put EXCEPT ![c] = @ + 1]]
  IN  FoldLeft(turn, [ptr |-> ptr, put |-> [c \in ByteValues |-> From(b, c, ss)]],
               [i \in 1..(From(b, ss + 1, 0) - lo) |-> lo + i - 1]).ptr

\* the turn of a byte: afterwards [ss,*] and [*,ss] are sorted
BigTurn(b, s, ss) ==
  LET ptr == OrderSame(b, SortBig(b, s, ss), ss)
      done == s.done \cup {ss}
  IN  [ptr |-> OrderBefore(b, ptr, done, ss), stripe |-> Tag(b, ptr, s.stripe, ss), done |-> done,
       sorted |-> s.sorted \cup ({ss} \X ByteValues) \cup (ByteValues \X {ss})]

\* the rarest byte first
BigOrder(b) ==
  LET count(c) == Cardinality({i \in DOMAIN b : b[i] = c})
  IN  SortBy(ByteValues, LAMBDA c, d : count(c) < count(d) \/ (count(c) = count(d) /\ c < d))

LongOrder(b) ==
  FoldLeft(LAMBDA s, ss : BigTurn(b, s, ss),
           [ptr |-> RadixOrder(b), stripe |-> Stripe(b), done |-> {}, sorted |-> {}],
           BigOrder(b)).ptr

Rotations(b) == IF Len(b) < LongBlock THEN ShortOrder(b) ELSE LongOrder(b)

\* _origin is where the rotation that begins with the second byte stands
Origin(ptr) == CHOOSE k \in DOMAIN ptr : ptr[k] = 1

-------------------------------------------------------------------------------
(* The move-to-front code *)

ZRun(bit) == Radix + bit
EOB == Radix + 2

\* mutant: a run of n zeroes is written as the number n
ZeroesPlain(n) ==
  LET bits[k \in Nat] == IF k = 0 THEN <<>> ELSE Append(bits[k \div 2], ZRun(k % 2))
  IN  bits[n]

\* mtfEncodeZeroes(): a run of n zeroes, the digits of n in base two with digits 1 and 2
Zeroes(n) ==
  LET bits[k \in Nat] == IF k = 0 THEN <<>> ELSE Append(bits[(k - 1) \div 2], ZRun((k - 1) % 2))
  IN  bits[n]

MoveToFront(list, k) == <<list[k + 1]>> \o RemoveAt(list, k + 1)

\* mtfEncodeBlock(): the rank of the byte before each rotation
EncodeBlock(b, list, ptr) ==
  LET turn(s, i) ==
        LET k == SelectInSeq(s.list, LAMBDA c : c = At(b, Before(b, ptr[i - 1]))) - 1
        IN  IF k = 0 THEN [s EXCEPT !.zeroes = @ + 1]
            ELSE [list |-> MoveToFront(s.list, k), zeroes |-> 0,
                  out |-> s.out \o Zeroes(s.zeroes) \o <<k>>]
      end == FoldLeft(turn, [list |-> list, zeroes |-> 0, out |-> <<>>], [i \in 1..Len(b) |-> i])
  IN  [list |-> end.list, out |-> end.out \o Zeroes(end.zeroes) \o <<EOB>>]

\* mtfDecodeBlock(): the runs of zeroes are complete when another symbol comes
DecodeBlock(symbols, list) ==
  LET turn(s, c) ==
        IF c \in {ZRun(0), ZRun(1)} THEN [s EXCEPT !.zeroes = 2 * @ + (c - Radix) + 1]
        ELSE LET filled == s.out \o [i \in 1..s.zeroes |-> s.list[1]]
             IN  IF c = EOB THEN [s EXCEPT !.out = filled]
                 ELSE [list |-> MoveToFront(s.list, c), zeroes |-> 0,
                       out |-> Append(filled, s.list[c + 1])]
  IN  FoldLeft(turn, [list |-> list, zeroes |-> 0, out |-> <<>>], symbols)

\* mtfEncodeSymbol() and mtfDecodeSymbol(): the class of a rank, and its place there
RankBase == <<1, 2, 4, 8, 16, 32, 64, 128>>
RankCode(k) == LET class == CHOOSE c \in 1..8 : RankBase[c] <= k /\ k < 2 * RankBase[c]
               IN  <<class, k - RankBase[class]>>
RankOf(code) == RankBase[code[1]] + code[2]

-------------------------------------------------------------------------------
(* undoTransform() *)

\* _ptr[i]: where in the last column the i-th byte of the first column stands
Successor(last) ==
  SortBy(1..Len(last), LAMBDA i, j : last[i] < last[j] \/ (last[i] = last[j] /\ i < j))

Undone(last, origin) ==
  LET next == Successor(last)
      step(s, i) == [at |-> next[s.at], out |-> Append(s.out, last[s.at])]
  IN  FoldLeft(step, [at |-> origin + 1, out |-> <<>>], last).out

-------------------------------------------------------------------------------

Init == block = <<>> /\ pieces = 0 /\ order = [i \in 1..Radix |-> i - 1]

Write(piece) ==
  /\ pieces < MaxPieces
  /\ block' = block \o piece
  /\ pieces' = pieces + 1
  /\ UNCHANGED order

\* overflow(): the buffer is full, or flushed, and is encoded
Overflow ==
  /\ block # <<>>
  /\ order' = EncodeBlock(block, order, Rotations(block)).list
  /\ block' = <<>>
  /\ pieces' = 0

Next == Overflow \/ \E piece \in Pieces : Write(piece)

Spec == Init /\ [][Next]_bwtVars

-------------------------------------------------------------------------------
(* Property *)

\* The rotations are really sorted, whatever buckets were ordered from other buckets,
\* and with ranks in place of bytes in the words compared; and so the block comes back
\* from its last column and its origin, and the last column from its ranks.  A block
\* of one byte has no rotation that begins with its second byte: its _origin is left
\* over from the block before.
BWTLossless ==
  Len(block) > 1 =>
    LET ptr == Rotations(block)
        code == EncodeBlock(block, order, ptr)
        decoded == DecodeBlock(code.out, order)
    IN  /\ \A k \in 1..(Len(block) - 1) : RotationBelow(block, ptr[k - 1], ptr[k], Len(block))
        /\ decoded.list = code.list
        /\ Undone(decoded.out, Origin(ptr)) = block
        /\ \A i \in DOMAIN code.out :
             code.out[i] \in 1..(Radix - 1) => RankOf(RankCode(code.out[i])) = code.out[i]

===============================================================================
