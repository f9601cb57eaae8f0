--------------------------- MODULE ArithmeticEncoder ---------------------------
(***************************************************************************)
(* ArithmeticEncoder and ArithContext (udc/ArithmeticEncoder.cpp, .h): an  *)
(* adaptive model whose cumulative frequencies are kept in a Fenwick tree, *)
(* and the arithmetic coder that narrows [L, L + R) by them.  The coder's  *)
(* words have WordBits bits, 31 in the code.                               *)
(***************************************************************************)
EXTENDS Naturals, Sequences

CONSTANTS
  NumSymbols,    \* _numSymbols, the last of which is the end of the block
  Inc,           \* _inc
  IncLimit,      \* _incLimit, at least NumSymbols and at most 2^(WordBits - 2)
  WordBits,      \* the width of _L and _R; _half is 2^(WordBits - 1)
  MaxSymbols     \* bound: symbols in a message

Half == 2 ^ (WordBits - 1)
Qtr == Half \div 2
Symbols == 0..(NumSymbols - 1)
EOB == NumSymbols - 1

VARIABLES
  message,    \* the symbols encoded so far
  enc,        \* the encoder: [L, R, followBits]: _L, _R, _followBits
  ctx,        \* its context: [F, totFreq]: _F and _totFreq
  bits        \* the bits in the stream

arithmeticVars == <<message, enc, ctx, bits>>

-------------------------------------------------------------------------------
(* ArithContext *)

\* _size, and the places of _F
Size == CHOOSE s \in {2 ^ k : k \in 0..NumSymbols} : s > NumSymbols /\ s \div 2 <= NumSymbols
Places == 1..(Size - 1)

\* x & -x, the lowest bit of x; FEN_PREV and FEN_NEXT take it away and add it
LowBit(x) == CHOOSE b \in {2 ^ k : k \in 0..x} : x % b = 0 /\ x % (2 * b) # 0
Prev(x) == x - LowBit(x)
Next2(x) == x + LowBit(x)

RECURSIVE SumTo(_, _, _)
SumTo(F, x, y) == IF x = y THEN 0 ELSE F[x] + SumTo(F, Prev(x), y)

\* interval(): the frequencies of the symbols before, and of those up to, a symbol
Interval(c, symbol) ==
  LET parent == Prev(symbol + 1)
      shared == SumTo(c.F, parent, 0)
  IN  [low |-> shared + SumTo(c.F, symbol, parent), high |-> shared + c.F[symbol + 1]]

Freq(c, symbol) == LET i == Interval(c, symbol) IN i.high - i.low

\* symbol(): down the tree by halves
RECURSIVE Locate(_, _, _, _)
Locate(c, symbol, mid, target) ==
  IF mid = 0 THEN symbol
  ELSE IF c.F[symbol + mid] <= target
       THEN Locate(c, symbol + mid, mid \div 2, target - c.F[symbol + mid])
       ELSE Locate(c, symbol, mid \div 2, target)

RECURSIVE AddFrom(_, _, _)
AddFrom(F, x, inc) == IF x >= Size THEN F ELSE AddFrom([F EXCEPT ![x] = @ + inc], Next2(x), inc)

Added(c, symbol, inc) == [F |-> AddFrom(c.F, symbol + 1, inc), totFreq |-> c.totFreq + inc]

NoCounts == [F |-> [x \in Places |-> 0], totFreq |-> 0]

RECURSIVE AddAll(_, _, _)
AddAll(c, symbol, freq) ==
  IF symbol = NumSymbols THEN c ELSE AddAll(Added(c, symbol, freq[symbol]), symbol + 1, freq)

\* halve(); that update() would halve again does not happen with an IncLimit as large
\* as the alphabet
Halve(c) == AddAll(NoCounts, 0, [s \in Symbols |-> (Freq(c, s) + 1) \div 2])

Update(c, symbol) ==
  LET a == Added(c, symbol, Inc) IN IF a.totFreq > IncLimit THEN Halve(a) ELSE a

-------------------------------------------------------------------------------
(* The coder *)

\* putBit(): a bit, and as many of the other as had to wait for it
PutBit(s, bit) ==
  [s EXCEPT !.out = Append(@, bit) \o [i \in 1..s.followBits |-> 1 - bit], !.followBits = 0]

\* how L and R follow from a symbol's interval, for the encoder and the decoder
Narrowed(R, totFreq, i) ==
  LET r == R \div totFreq
  IN  [shift |-> r * i.low, R |-> IF i.high < totFreq THEN r * i.high - r * i.low ELSE R - r * i.low]

\* mutant: a bit that is to wait does not wait
ShiftOutNow(s) ==
  LET t == IF s.L + s.R <= Half THEN PutBit(s, 0) ELSE [PutBit(s, 1) EXCEPT !.L = IF @ >= Half THEN @ - Half ELSE @]
  IN  [t EXCEPT !.L = (2 * @) % (4 * Half), !.R = 2 * @]

\* one turn of encode()'s loop: a bit is known, or its value is not yet decided
ShiftOut(s) ==
  LET t == IF s.L + s.R <= Half THEN PutBit(s, 0)
           ELSE IF s.L >= Half THEN [PutBit(s, 1) EXCEPT !.L = @ - Half]
           ELSE [s EXCEPT !.followBits = @ + 1, !.L = @ - Qtr]
  IN  [t EXCEPT !.L = 2 * @, !.R = 2 * @]

RECURSIVE Renormalised(_)
Renormalised(s) == IF s.R <= Qtr THEN Renormalised(ShiftOut(s)) ELSE s

\* encode(symbol, ctx): the coder with the bits it wrote in "out"
Encoded(e, c, symbol) ==
  LET n == Narrowed(e.R, c.totFreq, Interval(c, symbol))
  IN  Renormalised([L |-> e.L + n.shift, R |-> n.R, followBits |-> e.followBits, out |-> <<>>])

\* the end of finishEncoding(): the bits of L, the highest first
RECURSIVE PutWord(_, _)
PutWord(s, mask) ==
  IF mask = 0 THEN s ELSE PutWord(PutBit(s, (s.L \div mask) % 2), mask \div 2)

\* finishEncoding() on the stream as it is: all the bits of the message
Finished ==
  LET s == Encoded(enc, ctx, EOB) IN bits \o s.out \o PutWord([s EXCEPT !.out = <<>>], Half).out

\* one turn of decode()'s loop
RECURSIVE ShiftIn(_)
ShiftIn(d) ==
  IF d.R > Qtr THEN d
  ELSE ShiftIn([d EXCEPT !.R = 2 * @, !.L = 2 * @ + d.in[1], !.in = Tail(@)])

\* the cumulative frequency that the decoder looks for
Target(L, r, totFreq) == IF L \div r < totFreq - 1 THEN L \div r ELSE totFreq - 1

\* decode(ctx), until the end of the block or more symbols than were sent
RECURSIVE Decode(_, _, _)
Decode(d, c, symbols) ==
  LET symbol == Locate(c, 0, Size \div 2, Target(d.L, d.R \div c.totFreq, c.totFreq))
      n == Narrowed(d.R, c.totFreq, Interval(c, symbol))
      next == ShiftIn([d EXCEPT !.L = @ - n.shift, !.R = n.R])
  IN  IF symbol = EOB \/ Len(symbols) > MaxSymbols THEN [symbols |-> symbols, left |-> next.in]
      ELSE Decode(next, Update(c, symbol), Append(symbols, symbol))

RECURSIVE WordOf(_, _)
WordOf(in, n) == IF n = 0 THEN 0 ELSE 2 * WordOf(in, n - 1) + in[n]

\* start() in input mode reads the first word
Decoded(in, c) ==
  Decode([L |-> WordOf(in, WordBits), R |-> Half, in |-> SubSeq(in, WordBits + 1, Len(in))], c, <<>>)

-------------------------------------------------------------------------------

\* ArithContext::set(): every symbol has been counted once
NewContext == AddAll(NoCounts, 0, [s \in Symbols |-> 1])

Init ==
  /\ message = <<>> /\ bits = <<>>
  /\ enc = [L |-> 0, R |-> Half, followBits |-> 0]
  /\ ctx = NewContext

Encode(symbol) ==
  /\ Len(message) < MaxSymbols
  /\ LET s == Encoded(enc, ctx, symbol)
     IN  /\ enc' = [L |-> s.L, R |-> s.R, followBits |-> s.followBits]
         /\ bits' = bits \o s.out
  /\ ctx' = Update(ctx, symbol)
  /\ message' = Append(message, symbol)

Next == \E symbol \in Symbols \ {EOB} : Encode(symbol)

Spec == Init /\ [][Next]_arithmeticVars

-------------------------------------------------------------------------------
(* Property *)

\* Wherever the message ends, it decodes: to the same symbols and to the last bit
\* written, with the coder's carries resolved and the counts of both sides halved at
\* the same time, and the interval never so narrow that a symbol has no part of it.
ArithmeticLossless ==
  /\ Decoded(Finished, NewContext) = [symbols |-> message, left |-> <<>>]
  /\ enc.R > Qtr /\ enc.R <= Half /\ enc.L + enc.R <= 2 * Half
  /\ ctx.totFreq <= IncLimit
  /\ \A s \in Symbols : Freq(ctx, s) > 0 /\ Locate(ctx, 0, Size \div 2, Interval(ctx, s).low) = s

===============================================================================
