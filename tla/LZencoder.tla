------------------------------- MODULE LZencoder -------------------------------
(***************************************************************************)
(* LZencoder (udc/LZencoder.cpp): a sliding window with hash chains, a     *)
(* look-ahead buffer and lazy matching, and the decoder of what it sends.  *)
(* The stream carries tokens, a byte or a pair (length, distance); how the *)
(* two Huffman coders and the extra bits write them is not modelled.  The  *)
(* mirror of the first bytes behind each buffer, which lets the unrolled   *)
(* comparison run past its end, is indexing modulo the buffer's size.      *)
(***************************************************************************)
EXTENDS Naturals, Sequences, FiniteSets

CONSTANTS
  Bytes,       \* the bytes that are written
  MaxFed,      \* bound: bytes written before close()
  WindSize,    \* LZ_WIND_SIZE
  LookSize,    \* LZ_LOOK_SIZE, also the longest match; less than WindSize
  FarDist,     \* the distance from which a match of MinMatch is not worth it
  GoodLen, MaxLazyLen, NiceLen, MaxChain,   \* of the level
  Unused       \* LZ_HASH_UNUSED

\* LZ_MIN_MATCH
MinMatch == 3

VARIABLES
  fed,      \* every byte that was written
  enc,      \* the encoder
  sent,     \* the tokens it put into the stream
  closed    \* finishEncoding() has run

lzVars == <<fed, enc, sent, closed>>

\* the place of a position in the window and in the look-ahead buffer
W(i) == i % WindSize
L(i) == i % LookSize

\* LZ_LOOK_HASH and LZ_WIND_HASH: the same function of three bytes, not one to one
Hash(a, b, c) == (a + b + c) % 2
Keys == 0..1
LookKey(e, p) == Hash(e.look[L(p)], e.look[L(p + 1)], e.look[L(p + 2)])
WindKey(e, p) == Hash(e.wind[W(p)], e.wind[W(p + 1)], e.wind[W(p + 2)])

Literal(b) == [kind |-> "literal", byte |-> b]
Match(len, dist) == [kind |-> "match", len |-> len, dist |-> dist]
EOB == [kind |-> "eob"]

-------------------------------------------------------------------------------
(* The hash chains: the positions of the window, the latest first *)

AddString(e) ==
  LET key == LookKey(e, e.pos)
      w == W(e.pos)
      old == e.head[key]
  IN  IF old = Unused
      THEN [e EXCEPT !.tail[key] = w, !.succ[w] = Unused, !.head[key] = w, !.pred[w] = Unused]
      ELSE [e EXCEPT !.succ[w] = old, !.pred = [@ EXCEPT ![old] = w, ![w] = Unused],
                     !.head[key] = w]

\* the oldest string leaves the window: it is the last of its chain
RemoveString(e) ==
  IF e.pos < WindSize THEN e
  ELSE LET key == WindKey(e, e.pos)
           last == e.tail[key]
       IN  IF e.head[key] = last THEN [e EXCEPT !.head[key] = Unused]
           ELSE [e EXCEPT !.succ[e.pred[last]] = Unused, !.tail[key] = e.pred[last]]

\* The bytes that window and look-ahead buffer share from two places on, at most n.
RECURSIVE Common(_, _, _, _)
Common(e, w, p, n) ==
  IF n = 0 \/ e.wind[W(w)] # e.look[L(p)] THEN 0 ELSE 1 + Common(e, w + 1, p + 1, n - 1)

\* how far back a place of the window lies
PosDist(w, index) == IF index <= w THEN w - index ELSE (WindSize - index) + w

\* the match at a place of the window; dist does not count the match
MatchAt(e, index, len) ==
  LET w == W(e.pos)
      from == IF w < index + len THEN w + WindSize ELSE w
  IN [len |-> len, dist |-> from - (index + len)]

\* the bytes that match there, none of them beyond _pos or the input
MatchLen(e, index) ==
  LET back == PosDist(W(e.pos), index)
  IN Common(e, index, e.pos, IF back < e.lab THEN back ELSE e.lab)

\* a longer match replaces the best one
Longer(e, best, found, index) ==
  IF /\ e.wind[W(index + best.len)] = e.look[L(e.pos + best.len)]
     /\ found.len > best.len
  THEN found ELSE best

\* Follow a chain until a match is nice.
RECURSIVE Follow(_, _, _, _)
Follow(e, index, chain, best) ==
  IF index = Unused \/ chain = 0 \/ best.len >= NiceLen THEN best
  ELSE Follow(e, e.succ[index], chain - 1,
              Longer(e, best, MatchAt(e, index, MatchLen(e, index)), index))

\* matchString(): _matchDist keeps its value when nothing is found
MatchString(e, prevLen) ==
  Follow(e, e.head[LookKey(e, e.pos)],
         IF prevLen > GoodLen THEN MaxChain \div 2 ELSE MaxChain,
         [len |-> 0, dist |-> e.dist])

-------------------------------------------------------------------------------
(* encode() *)

\* One turn of the inner loop: the byte at _pos goes into the window; the one that
\* takes its place in the look-ahead buffer is the next of the input, if there is one.
Slide(e, input) ==
  LET g == [e EXCEPT !.wind[W(e.pos)] = e.look[L(e.pos)], !.pos = @ + 1, !.repc = @ - 1]
  IN  IF input = <<>> THEN [g EXCEPT !.lab = @ - 1]
      ELSE [g EXCEPT !.look[L(e.pos)] = input[1]]

Advance(e, input) == Slide(AddString(RemoveString(e)), input)

\* "find a match", unless the one before is long
Found(e) ==
  IF e.len <= MaxLazyLen THEN MatchString(e, e.len) ELSE [len |-> 0, dist |-> e.dist]

\* "a short match must not be too distant"
Near(found) ==
  IF found.len = MinMatch /\ found.dist > FarDist THEN [found EXCEPT !.len = 0] ELSE found

\* mutant: the match before is sent with the distance of the one found here
DecideDistanceHere(e, here) ==
  LET next == [e EXCEPT !.literal = e.look[L(e.pos)], !.len = here.len, !.dist = here.dist]
  IN  IF e.len >= MinMatch /\ here.len <= e.len
      THEN [next EXCEPT !.repc = e.len - 1, !.len = 0, !.available = FALSE,
                        !.out = Append(@, Match(e.len, here.dist))]
      ELSE IF e.available
      THEN [next EXCEPT !.repc = 1, !.out = Append(@, Literal(e.literal))]
      ELSE [next EXCEPT !.repc = 1, !.available = TRUE]

\* the match here against the one at the position before
Decide(e, here) ==
  LET next == [e EXCEPT !.literal = e.look[L(e.pos)], !.len = here.len, !.dist = here.dist]
  IN  IF e.len >= MinMatch /\ here.len <= e.len
      THEN [next EXCEPT !.repc = e.len - 1, !.len = 0, !.available = FALSE,
                        !.out = Append(@, Match(e.len, e.dist))]
      ELSE IF e.available
      THEN [next EXCEPT !.repc = 1, !.out = Append(@, Literal(e.literal))]
      ELSE [next EXCEPT !.repc = 1, !.available = TRUE]

\* the rest of a turn of the outer loop
Turn(e) == Decide(e, Near(Found(e)))

\* The two loops; without more input they stop only before the last block.
RECURSIVE Loop(_, _, _)
Loop(e, input, lastBlock) ==
  IF e.repc > 0
  THEN IF input = <<>> /\ ~lastBlock THEN e
       ELSE Loop(Advance(e, input), IF input = <<>> THEN input ELSE Tail(input), lastBlock)
  ELSE IF e.lab = 0 THEN Turn(e) ELSE Loop(Turn(e), input, lastBlock)

\* encode(): what does not fit into the look-ahead buffer goes through the loops.
\* The state it leaves does not depend on how the input is cut, so a call has one byte.
Filled(e, b) == [e EXCEPT !.look[e.lab] = b, !.lab = @ + 1]

Encode(e, b) ==
  IF e.lab + 1 < LookSize THEN Filled(e, b)
  ELSE IF e.lab = LookSize THEN Loop(e, <<b>>, FALSE)
  ELSE Loop(Filled(e, b), <<>>, FALSE)

Finish(e) == IF e.lab = 0 THEN e ELSE Loop(e, <<>>, TRUE)

NewEncoder ==
  [look |-> [i \in 0..(LookSize - 1) |-> 0], wind |-> [i \in 0..(WindSize - 1) |-> 0],
   lab |-> 0, repc |-> 0, pos |-> 0,
   head |-> [k \in Keys |-> Unused], tail |-> [k \in Keys |-> Unused],
   pred |-> [i \in 0..(WindSize - 1) |-> Unused], succ |-> [i \in 0..(WindSize - 1) |-> Unused],
   len |-> 0, dist |-> 0, literal |-> 0, available |-> FALSE, out |-> <<>>]

-------------------------------------------------------------------------------
(* decode() *)

NewDecoder == [wind |-> [i \in 0..(WindSize - 1) |-> 0], pos |-> 0, bytes |-> <<>>]

Take(d, b) ==
  [wind |-> [d.wind EXCEPT ![W(d.pos)] = b], pos |-> d.pos + 1, bytes |-> Append(d.bytes, b)]

RECURSIVE Copy(_, _, _)
Copy(d, from, n) == IF n = 0 THEN d ELSE Copy(Take(d, d.wind[W(from)]), from + 1, n - 1)

Decode(d, token) ==
  CASE token.kind = "literal" -> Take(d, token.byte)
    [] token.kind = "match" ->
         LET dist == token.dist + token.len
             start == IF d.pos < dist THEN d.pos + WindSize ELSE d.pos
         IN  Copy(d, start - dist, token.len)
    [] OTHER -> d

RECURSIVE Decoded(_, _)
Decoded(d, tokens) == IF tokens = <<>> THEN d.bytes ELSE Decoded(Decode(d, tokens[1]), Tail(tokens))

-------------------------------------------------------------------------------

Init == fed = <<>> /\ enc = NewEncoder /\ sent = <<>> /\ closed = FALSE

Send(e) == enc' = [e EXCEPT !.out = <<>>] /\ sent' = sent \o e.out

\* overflow(): the next byte goes to encode()
Write(b) ==
  /\ ~closed /\ Len(fed) < MaxFed
  /\ fed' = Append(fed, b)
  /\ Send(Encode(enc, b))
  /\ UNCHANGED closed

Ended(e) == [e EXCEPT !.out = Append(@, EOB)]

\* close(): finishEncoding() encodes what is left, and the end of the block
Close ==
  /\ ~closed
  /\ Send(Ended(Finish(enc)))
  /\ closed' = TRUE
  /\ UNCHANGED fed

Next == Close \/ \E b \in Bytes : Write(b)

Spec == Init /\ [][Next]_lzVars

-------------------------------------------------------------------------------
(* Property *)

\* The decoder gives back what was written, byte by byte as far as it was sent and
\* all of it after close(): the matches stay inside the window however often it and
\* the look-ahead buffer wrap around, the chains hold no string that has left the
\* window, a lazy match is sent with its own distance, and the tail is not lost.
LZLossless ==
  LET bytes == Decoded(NewDecoder, sent)
  IN  /\ bytes = SubSeq(fed, 1, Len(bytes))
      /\ closed => bytes = fed

===============================================================================
