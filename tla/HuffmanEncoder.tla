---------------------------- MODULE HuffmanEncoder ----------------------------
(***************************************************************************)
(* HuffmanEncoder (udc/HuffmanEncoder.cpp): the adaptive code that encoder *)
(* and decoder build alike.  The nodes of its tree are numbered from the   *)
(* root, 1; the leaf of a symbol is NumSymbols + symbol.                   *)
(***************************************************************************)
EXTENDS Naturals, Sequences

CONSTANTS
  NumSymbols,    \* _numSymbols, at least 3
  IncLimit,      \* _incLimit: the root's frequency above which all are halved
  MaxFreq        \* bound on the frequency of a leaf under the root, which nothing halves

Symbols == 0..(NumSymbols - 1)
InnerNodes == 1..(NumSymbols - 1)
TreeNodes == 1..(2 * NumSymbols - 1)

VARIABLE tree    \* [up, freq, left, right]: _up, _freq, _left, _right

LeafOf(symbol) == NumSymbols + symbol
Sibling(t, a) == LET u == t.up[a] IN IF t.left[u] = a THEN t.right[u] ELSE t.left[u]

\* the last part of updateFreq()
RECURSIVE Halve(_)
Halve(t) ==
  IF t.freq[1] > IncLimit
  THEN Halve([t EXCEPT !.freq = [a \in TreeNodes |-> (t.freq[a] + 1) \div 2]])
  ELSE t

\* updateFreq(): from a node and its sibling up to the root
RECURSIVE UpdateFreq(_, _, _)
UpdateFreq(t, a, b) ==
  LET u == t.up[a]
      s == [t EXCEPT !.freq[u] = t.freq[a] + t.freq[b]]
  IN  IF u = 1 THEN Halve(s) ELSE UpdateFreq(s, u, Sibling(s, u))

\* mutant: the grandparent keeps the uncle
ExchangeHalf(t, a, b) ==
  LET u == t.up[a]
      uu == t.up[u]
      rest == Sibling(t, a)
      put(s, x, old, new) ==
        IF s.left[x] = old THEN [s EXCEPT !.left[x] = new] ELSE [s EXCEPT !.right[x] = new]
      s1 == put(t, u, a, b)
  IN  UpdateFreq([s1 EXCEPT !.up[b] = u, !.up[a] = uu], b, rest)

\* A node takes its uncle's place, and the uncle its own.
Exchange(t, a, b) ==
  LET u == t.up[a]
      uu == t.up[u]
      rest == Sibling(t, a)
      put(s, x, old, new) ==
        IF s.left[x] = old THEN [s EXCEPT !.left[x] = new] ELSE [s EXCEPT !.right[x] = new]
      s1 == put(put(t, uu, b, a), u, a, b)
  IN  UpdateFreq([s1 EXCEPT !.up[b] = u, !.up[a] = uu], b, rest)

\* the loop of updateModel(): up from a, a node heavier than its uncle is exchanged
RECURSIVE Climb(_, _)
Climb(t, a) ==
  LET b == Sibling(t, t.up[a])
      swap == t.freq[a] > t.freq[b]
      s == IF swap THEN Exchange(t, a, b) ELSE t
      next == IF swap THEN s.up[b] ELSE s.up[a]
  IN  IF s.up[next] = 1 THEN s ELSE Climb(s, next)

UpdateModel(t, symbol) ==
  LET a == LeafOf(symbol)
      s == [t EXCEPT !.freq[a] = @ + 1]
  IN  IF t.up[a] = 1 THEN s ELSE Climb(UpdateFreq(s, a, Sibling(s, a)), a)

\* encode(symbol): the bits from the root down to the leaf
RECURSIVE Code(_, _)
Code(t, a) ==
  IF a = 1 THEN <<>> ELSE Append(Code(t, t.up[a]), IF t.right[t.up[a]] = a THEN 1 ELSE 0)

\* decode(): follow the bits from a node to a leaf, and name its symbol
RECURSIVE Descend(_, _, _)
Descend(t, a, bits) ==
  IF a >= NumSymbols \/ bits = <<>> THEN [symbol |-> a - NumSymbols, rest |-> bits]
  ELSE Descend(t, IF bits[1] = 1 THEN t.right[a] ELSE t.left[a], Tail(bits))

-------------------------------------------------------------------------------

\* start(); the root's frequency, 0 here, is never read before it is set
Init ==
  tree = [up |-> [a \in TreeNodes |-> a \div 2],
          freq |-> [a \in TreeNodes |-> IF a = 1 THEN 0 ELSE 1],
          left |-> [a \in InnerNodes |-> 2 * a],
          right |-> [a \in InnerNodes |-> 2 * a + 1]]

\* A symbol is coded: encode() puts Code() into the stream and decode() Descends along
\* it, each with a tree of its own that is the same as long as they agree on the symbol.
CodeSymbol(symbol) ==
  /\ tree.freq[LeafOf(symbol)] < MaxFreq
  /\ tree' = UpdateModel(tree, symbol)

Next == \E symbol \in Symbols : CodeSymbol(symbol)

Spec == Init /\ [][Next]_tree

-------------------------------------------------------------------------------
(* Property *)

\* The code stays lossless while the tree is turned about: what is sent for a symbol
\* decodes to that symbol and to the last bit, the links up and down are the same
\* edges, and no symbol falls out of the tree.
HuffmanLossless ==
  /\ \A a \in InnerNodes : tree.up[tree.left[a]] = a /\ tree.up[tree.right[a]] = a
  /\ \A symbol \in Symbols :
       LET bits == Code(tree, LeafOf(symbol))
       IN  Descend(tree, 1, bits) = [symbol |-> symbol, rest |-> <<>>]

===============================================================================
