------------------------------- MODULE RLencoder -------------------------------
(***************************************************************************)
(* RLencoder (udc/RLencoder.cpp): runs of equal bytes, encoded as the      *)
(* encoder's buffer fills (uio/Encoder.cpp) and decoded in blocks.  As     *)
(* with the default parameters, a run length takes as many bits as a byte, *)
(* so the stream is a sequence of numbers below MaxByte + 1; and the end   *)
(* of the block is marked, by the longest run of the highest byte.         *)
(***************************************************************************)
EXTENDS Naturals, Sequences

CONSTANTS
  Bytes,        \* the bytes that are written, MaxByte among them
  MaxByte,      \* 255
  MinRunLen,    \* _minRunLen
  BufSize,      \* the size of the encoder's and the decoder's buffer, above MaxRunLen
  MaxFed        \* bound: bytes written before close()

MaxRunLen == MaxByte + MinRunLen

VARIABLES
  fed,        \* every byte that was written
  oBuf,       \* those in the encoder's buffer
  sent,       \* the stream
  closed      \* finishEncoding() has run

rlVars == <<fed, oBuf, sent, closed>>

Least(a, b) == IF a < b THEN a ELSE b

\* how many bytes at the head of a sequence equal c, at most n
RECURSIVE Leading(_, _, _)
Leading(s, c, n) ==
  IF n = 0 \/ s = <<>> \/ s[1] # c THEN 0 ELSE 1 + Leading(Tail(s), c, n - 1)

Copies(c, n) == [i \in 1..n |-> c]

\* A run as encode() writes it: minRunLen bytes, and how many more there are.
RunCode(c, runLen) ==
  IF runLen < MinRunLen THEN Copies(c, runLen)
  ELSE Copies(c, MinRunLen) \o <<runLen - MinRunLen>>

\* mutant: the longest run of the highest byte is not kept for the end of the block
RunLenAny(block) ==
  LET left == Len(block) - 1
      bound == Least(MaxRunLen, left)
  IN  1 + Leading(Tail(block), block[1], IF bound < 2 THEN left ELSE bound - 1)

\* The length of the run at the head of a block.  What bounds it is compared after the
\* first byte that follows, so that a bound of one or none is no bound.
RunLen(block) ==
  LET c == block[1]
      left == Len(block) - 1
      longest == Least(MaxRunLen, left)
      bound == IF c = MaxByte /\ longest = MaxRunLen THEN longest - 1 ELSE longest
  IN  1 + Leading(Tail(block), c, IF bound < 2 THEN left ELSE bound - 1)

\* encode(): until fewer bytes are left than the longest run has, unless it is the last
\* block; what is left stays in the buffer.
RECURSIVE Encode(_, _)
Encode(block, last) ==
  IF block = <<>> \/ (Len(block) < MaxRunLen /\ ~last) THEN [out |-> <<>>, left |-> block]
  ELSE LET n == RunLen(block)
           rest == Encode(SubSeq(block, n + 1, Len(block)), last)
       IN  [out |-> RunCode(block[1], n) \o rest.out, left |-> rest.left]

EndOfBlock == RunCode(MaxByte, MaxRunLen)

\* decode(), called until the end of the block.  in: the stream; block: the bytes of
\* this call; save: the byte that was read to find the end of a run, if any; a stream
\* that ends too early loses what the call had decoded.
RECURSIVE Decode(_, _, _, _)
Decode(in, block, save, done) ==
  LET full == BufSize - Len(block) < MaxRunLen
      begun == save \o in
      c == begun[1]
      same == Leading(begun, c, MinRunLen)
      long == same = MinRunLen
      rest == SubSeq(begun, same + 1, Len(begun))
      runLen == IF long THEN same + rest[1] ELSE same
  IN  IF full THEN Decode(in, <<>>, save, done \o block)
      ELSE IF begun = <<>> \/ rest = <<>> THEN done
      ELSE IF long /\ c = MaxByte /\ runLen = MaxRunLen THEN done \o block
      ELSE IF long THEN Decode(Tail(rest), block \o Copies(c, runLen), <<>>, done)
      ELSE Decode(Tail(rest), block \o Copies(c, runLen), <<rest[1]>>, done)

Decoded(in) == Decode(in, <<>>, <<>>, <<>>)

-------------------------------------------------------------------------------

Init == fed = <<>> /\ oBuf = <<>> /\ sent = <<>> /\ closed = FALSE

\* put(): overflow() encodes the buffer when it is full
Put(b) ==
  /\ ~closed /\ Len(fed) < MaxFed
  /\ fed' = Append(fed, b)
  /\ IF Len(oBuf) < BufSize
     THEN oBuf' = Append(oBuf, b) /\ UNCHANGED sent
     ELSE LET e == Encode(oBuf, FALSE)
          IN  oBuf' = Append(e.left, b) /\ sent' = sent \o e.out
  /\ UNCHANGED closed

\* the caller's flush(): what is encoded leaves the buffer
Flush ==
  /\ ~closed /\ oBuf # <<>>
  /\ LET e == Encode(oBuf, FALSE)
     IN  oBuf' = e.left /\ sent' = sent \o e.out
  /\ UNCHANGED <<fed, closed>>

\* close(): flush(), then finishEncoding()
Close ==
  /\ ~closed /\ closed' = TRUE
  /\ LET e == Encode(oBuf, FALSE)
     IN  sent' = sent \o e.out \o Encode(e.left, TRUE).out \o EndOfBlock
  /\ oBuf' = <<>>
  /\ UNCHANGED fed

Next == Flush \/ Close \/ \E b \in Bytes : Put(b)

Spec == Init /\ [][Next]_rlVars

-------------------------------------------------------------------------------
(* Properties *)

\* What was written comes back.
RLLossless == closed => Decoded(sent) = fed

\* It does when the last byte is neither part of a run nor the highest byte: runs that
\* are cut at the longest length, at the buffer's end, or between two calls of decode()
\* keep their length, and no run in the middle is taken for the end of the block.  (The
\* last run's bound is one byte short, so that its last byte can become a run of its
\* own, the two looking like one whose length is still to come; and short runs of the
\* highest byte run into the mark of the end.)
EndsAlone ==
  /\ fed # <<>> => fed[Len(fed)] # MaxByte
  /\ Len(fed) > 1 => fed[Len(fed)] # fed[Len(fed) - 1]

RLLosslessInside == closed /\ EndsAlone => Decoded(sent) = fed

===============================================================================
