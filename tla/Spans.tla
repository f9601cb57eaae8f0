---------------------------------- MODULE Spans ----------------------------------
(***************************************************************************)
(* SpanCol and SpanAllocator (uma/SpanCol.h, uma/SpanAllocator.h): a tree  *)
(* of spans that do not overlap, in which a span that is added takes in    *)
(* those like it that it meets and cuts away what it covers of the others; *)
(* and, for an allocator, a second tree of the same spans by size, which   *)
(* the first one's hooks keep up with.                                     *)
(*                                                                         *)
(* A span is [begin, end, like]; two are mergeable if their like is equal. *)
(* The spans of the tree never overlap, so they are a set.  Left out are   *)
(* removal by key and serialization.                                       *)
(***************************************************************************)
EXTENDS Integers, FiniteSets, FiniteSetsExt

CONSTANTS MaxEnd,     \* bound: the spans are of 0..MaxEnd
          Likes,      \* what is equal in mergeable spans
          MaxTotal    \* bound: _totalSize

VARIABLES spans,       \* the tree
          bySize,      \* SpanAllocator::_spans: begin and end of each
          totalSize,
          miscounted,  \* whether a span was cut in two, or clear() called
          store        \* what was put where: nothing, or a like

spanVars == <<spans, bySize, totalSize, miscounted, store>>

Nothing == 0
Points  == 0..(MaxEnd - 1)

Init ==
  /\ spans = {} /\ bySize = {} /\ totalSize = 0 /\ miscounted = FALSE
  /\ store = [p \in Points |-> Nothing]

-------------------------------------------------------------------------------
(* Span *)

Span(b, e, l) == [begin |-> b, end |-> e, like |-> l]

IsNil(s) == s.begin >= s.end
Size(s)  == s.end - s.begin
Sizes(S) == MapThenSumSet(Size, S)
Key(s)   == <<s.begin, s.end>>
Keys(S)  == {Key(s) : s \in S}

Covered(s) == {p \in Points : s.begin <= p /\ p < s.end}

\* overlap()
Overlap(s, t) ==
  Span(IF s.begin >= t.begin THEN s.begin ELSE t.begin, IF s.end <= t.end THEN s.end ELSE t.end, s.like)
Overlaps(s, t) == ~IsNil(Overlap(s, t))

\* merge() with every span of S
MergedWith(s, S) ==
  [s EXCEPT !.begin = Min({t.begin : t \in S \cup {s}}), !.end = Max({t.end : t \in S \cup {s}})]

\* mutant: the second part of a bisected span is lost
WithoutLeft(s, t) ==
  {r \in {IF s.begin < t.begin THEN [s EXCEPT !.end = t.begin] ELSE [s EXCEPT !.begin = t.end]} : ~IsNil(r)}

\* remove(): what is left of s without t, which overlaps it: none, one or two spans
Without(s, t) ==
  {r \in {[s EXCEPT !.end = t.begin], [s EXCEPT !.begin = t.end]} : ~IsNil(r)}

\* the size of the second part if there are two
BisectedSize(s, t) == IF s.begin < t.begin /\ t.end < s.end THEN s.end - t.end ELSE 0

-------------------------------------------------------------------------------
(* Helpers *)

\* What remove(span) and add() do to the spans they cut: the part is gone from
\* _totalSize, but the second half of a bisected one is added once more.
Cut(S, t) ==
  [left  |-> UNION {Without(s, t) : s \in S},
   taken |-> MapThenSumSet(LAMBDA s : Size(Overlap(s, t)) - BisectedSize(s, t), S),
   twice |-> \E s \in S : BisectedSize(s, t) > 0]

-------------------------------------------------------------------------------
(* Operations *)

\* add() of a span that is not nil; dealloc()
Add(s) ==
  LET met   == {t \in spans : Overlaps(t, s)}
      alike == {t \in met : t.like = s.like}
      cut   == Cut(met \ alike, s)
      grown == MergedWith(s, alike)
      left  == (spans \ met) \cup cut.left
      near  == {t \in left : t.like = s.like /\ (t.end = grown.begin \/ t.begin = grown.end)}
      added == MergedWith(grown, near)
      total == totalSize - Sizes(alike \cup near) - cut.taken + Size(added)
  IN /\ total <= MaxTotal
     /\ spans' = (left \ near) \cup {added}
     /\ bySize' = (((bySize \ Keys(met)) \cup Keys(cut.left)) \ Keys(near)) \cup {Key(added)}
     /\ totalSize' = total
     /\ miscounted' = (miscounted \/ cut.twice)
     /\ store' = [p \in Points |-> IF p \in Covered(s) THEN s.like ELSE store[p]]

\* remove(span)
Remove(s) ==
  LET met == {t \in spans : Overlaps(t, s)}
      cut == Cut(met, s)
  IN /\ totalSize - cut.taken <= MaxTotal
     /\ spans' = (spans \ met) \cup cut.left
     /\ bySize' = (bySize \ Keys(met)) \cup Keys(cut.left)
     /\ totalSize' = totalSize - cut.taken
     /\ miscounted' = (miscounted \/ cut.twice)
     /\ store' = [p \in Points |-> IF p \in Covered(s) THEN Nothing ELSE store[p]]

\* alloc(): the beginning of one of the smallest free spans that are large enough;
\* which one depends on the tree's shape
Alloc(size) ==
  LET fits == {k \in bySize : k[2] - k[1] >= size}
      best == {k \in fits : \A j \in fits : k[2] - k[1] <= j[2] - j[1]}
  IN \E k \in best : Remove(Span(k[1], k[1] + size, Nothing))

\* _totalSize stays
Clear ==
  /\ spans' = {} /\ bySize' = {}
  /\ miscounted' = (miscounted \/ totalSize > 0)
  /\ store' = [p \in Points |-> Nothing]
  /\ UNCHANGED totalSize

Next ==
  \/ \E b, e \in 0..MaxEnd :
       /\ b < e
       /\ \/ \E l \in Likes : Add(Span(b, e, l))
          \/ Remove(Span(b, e, Nothing))
  \/ \E size \in 1..MaxEnd : Alloc(size)
  \/ Clear

Spec == Init /\ [][Next]_spanVars

-------------------------------------------------------------------------------
(* Properties *)

\* Whatever spans are added over one another, removed and allocated, a point belongs
\* to one span and to what was last put there; no two spans that touch could be
\* merged; the tree by size has the same spans; and _totalSize is the size of all,
\* and too large once a span was cut in two.
SpansExact ==
  /\ \A p \in Points :
       LET at == {s \in spans : p \in Covered(s)}
       IN IF store[p] = Nothing THEN at = {} ELSE Cardinality(at) = 1 /\ \A s \in at : s.like = store[p]
  /\ \A s, t \in spans : s.end = t.begin => s.like # t.like
  /\ bySize = Keys(spans)
  /\ totalSize >= Sizes(spans)
  /\ ~miscounted => totalSize = Sizes(spans)

===============================================================================
