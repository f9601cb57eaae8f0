-------------------------------- MODULE Encoder --------------------------------
(***************************************************************************)
(* The filters of uio/ that take a stream in pieces as they come: base-64  *)
(* (Base64encoder.cpp, with Encoder.cpp for its buffer) and the digests    *)
(* (MD5.cpp, SHA256.cpp).  What they make of a stream may not depend on    *)
(* where the pieces end; a behaviour only adds one piece after another.    *)
(*                                                                         *)
(* A digest is a function of the blocks that were put through the          *)
(* transformation, so it stands for their sequence.  A block has Block     *)
(* places, of which the length takes two words: 64 and 8 in the code.  One *)
(* call of MD5::add() is taken to have less than 2^32 bytes.               *)
(***************************************************************************)
EXTENDS Integers, Sequences

CONSTANTS
  PieceSizes,   \* how many bytes or digits come at once
  MaxPieces,    \* bound on the number of pieces
  Block,        \* places in a block, more than two
  WordBits,     \* bits of a word: 32
  Torn          \* a digit that was overwritten before it was read

VARIABLE pieces     \* the sizes of the pieces so far

FilterInit == pieces = <<>>

AddPiece ==
  /\ Len(pieces) < MaxPieces
  /\ \E n \in PieceSizes : pieces' = Append(pieces, n)

FilterSpec == FilterInit /\ [][AddPiece]_pieces

-------------------------------------------------------------------------------

\* f applied from the left: f(f(init, s[1]), s[2]) ...
Through(f(_, _), init, s) ==
  LET upTo[i \in 0..Len(s)] == IF i = 0 THEN init ELSE f(upTo[i - 1], s[i])
  IN upTo[Len(s)]

Total == Through(LAMBDA sum, n : sum + n, 0, pieces)

\* a stream, cut into the pieces
Cut(stream) ==
  LET begin[i \in 1..(Len(pieces) + 1)] == IF i = 1 THEN 0 ELSE begin[i - 1] + pieces[i - 1]
  IN [i \in 1..Len(pieces) |-> SubSeq(stream, begin[i] + 1, begin[i + 1])]

\* a message of n bytes
Message(n) == [i \in 1..n |-> (i * 83 + 130) % 256]

-------------------------------------------------------------------------------
(* Base-64.  A digit is its number; Pad is '='. *)

Pad == 64

Bits24(data) == data[1] * 65536 + data[2] * 256 + data[3]
Digits(bits) == <<bits \div 262144, (bits \div 4096) % 64, (bits \div 64) % 64, bits % 64>>

\* Base64encode::process() and finalize(): the bytes _data and the output
EncodeByte(e, byte) ==
  LET data == Append(e.data, byte)
  IN IF Len(data) < 3 THEN [e EXCEPT !.data = data]
     ELSE [data |-> <<>>, out |-> e.out \o Digits(Bits24(data))]

EncodePiece(e, piece) == Through(EncodeByte, e, piece)

\* mutant: nothing is written after the digits of the rest
FinishEncodingUnpadded(e) ==
  LET n == Len(e.data)
  IN IF n = 0 THEN e.out
     ELSE e.out \o SubSeq(Digits(Bits24(e.data \o <<0, 0>>)), 1, n + 1)

FinishEncoding(e) ==
  LET n == Len(e.data)
  IN IF n = 0 THEN e.out
     ELSE e.out \o SubSeq(Digits(Bits24(e.data \o <<0, 0>>)), 1, n + 1) \o [i \in 1..(3 - n) |-> Pad]

Encoded(cut) == FinishEncoding(Through(EncodePiece, [data |-> <<>>, out |-> <<>>], cut))

\* Base64decode::process(): _data and _dataShift, and the output
DecodeDigit(d, digit) ==
  LET data == d.data + digit * 2 ^ d.shift
  IN IF d.shift > 0 THEN [d EXCEPT !.data = data, !.shift = @ - 6]
     ELSE [data |-> 0, shift |-> 18,
           out |-> d.out \o <<data \div 65536, (data \div 256) % 256, data % 256>>]

\* without the '=' at the end of the piece
RECURSIVE Trimmed(_)
Trimmed(piece) ==
  IF piece # <<>> /\ piece[Len(piece)] = Pad THEN Trimmed(SubSeq(piece, 1, Len(piece) - 1)) ELSE piece

DecodePiece(d, piece) == Through(DecodeDigit, d, Trimmed(piece))

FinishDecoding(d) ==
  IF d.shift = 18 THEN d.out
  ELSE d.out \o <<d.data \div 65536>> \o (IF d.shift = 0 THEN <<(d.data \div 256) % 256>> ELSE <<>>)

NothingDecoded == [data |-> 0, shift |-> 18, out |-> <<>>]

Decoded(cut) == FinishDecoding(Through(DecodePiece, NothingDecoded, cut))

\* Base64encoder::decode(): a piece is read into the buffer that takes what it
\* is decoded to.  The digit at a place is gone once that place is written.
InPlace(d, piece) ==
  LET digits == Trimmed(piece)
      decoded[i \in 0..Len(digits)] ==
        IF i = 0 THEN [d EXCEPT !.out = <<>>]
        ELSE LET e == decoded[i - 1]
             IN IF e.data = Torn \/ i <= Len(e.out) THEN [e EXCEPT !.data = Torn]
                ELSE DecodeDigit(e, digits[i])
  IN decoded[Len(digits)]

-------------------------------------------------------------------------------
(* Digests *)

Zeros(n) == [i \in 1..n |-> "zero"]
Modulus == 2 ^ WordBits

\* SHA256: _data up to _dataPtr, _bitLen in two words, and what was transformed
Sha(data, bitLen, done) == [data |-> data, bitLen |-> bitLen, done |-> done]

\* transform() of the first n bytes, which are whole blocks
Transform(s, bytes, n) ==
  Sha(<<>>, (s.bitLen + 8 * n) % (Modulus * Modulus), s.done \o SubSeq(bytes, 1, n))

\* mutant: a piece that fills the block exactly does not complete it
ProcessLate(s, piece) ==
  LET room  == Block - Len(s.data)
      fills == Len(piece) > room
      first == IF fills THEN Transform(s, s.data \o SubSeq(piece, 1, room), Block) ELSE s
      rest  == IF fills THEN SubSeq(piece, room + 1, Len(piece)) ELSE piece
      whole == (Len(rest) \div Block) * Block
      next  == IF whole > 0 THEN Transform(first, rest, whole) ELSE first
  IN [next EXCEPT !.data = @ \o SubSeq(rest, whole + 1, Len(rest))]

Process(s, piece) ==
  LET room  == Block - Len(s.data)
      fills == Len(piece) >= room
      first == IF fills THEN Transform(s, s.data \o SubSeq(piece, 1, room), Block) ELSE s
      rest  == IF fills THEN SubSeq(piece, room + 1, Len(piece)) ELSE piece
      whole == (Len(rest) \div Block) * Block
      next  == IF whole > 0 THEN Transform(first, rest, whole) ELSE first
  IN [next EXCEPT !.data = @ \o SubSeq(rest, whole + 1, Len(rest))]

Finalize(s) ==
  LET bitLen == (s.bitLen + 8 * Len(s.data)) % (Modulus * Modulus)
      ended  == Append(s.data, "end")
      fits   == Len(ended) <= Block - 2
      before == IF fits THEN <<>> ELSE ended \o Zeros(Block - Len(ended))
      last   == IF fits THEN ended \o Zeros(Block - 2 - Len(ended)) ELSE Zeros(Block - 2)
  IN s.done \o before \o last \o <<bitLen \div Modulus, bitLen % Modulus>>

SHA256(cut) == Finalize(Through(Process, Sha(<<>>, 0, <<>>), cut))

\* MD5: _buf up to _bufLen, the two words of _len, and what was transformed
AddLength(len, n) ==
  LET low == (len[1] + n) % Modulus
  IN <<low, IF low < n THEN (len[2] + 1) % Modulus ELSE len[2]>>

DoBlock(m, bytes) ==
  [buf |-> <<>>, len |-> AddLength(m.len, Len(bytes)), done |-> m.done \o bytes]

Add(m, piece) ==
  LET take == IF m.buf = <<>> THEN 0
              ELSE IF Block - Len(m.buf) > Len(piece) THEN Len(piece) ELSE Block - Len(m.buf)
      buf  == m.buf \o SubSeq(piece, 1, take)
      first == IF Len(buf) = Block THEN DoBlock(m, buf) ELSE [m EXCEPT !.buf = buf]
      rest == SubSeq(piece, take + 1, Len(piece))
      whole == (Len(rest) \div Block) * Block
      next == IF whole > 0 THEN DoBlock(first, SubSeq(rest, 1, whole)) ELSE first
      last == SubSeq(rest, whole + 1, Len(rest))
  IN IF last = <<>> THEN next ELSE [next EXCEPT !.buf = last]

\* get() with finish(); a digest that was given nothing is not finished
Finish(m) ==
  IF m.buf = <<>> /\ m.len = <<0, 0>> THEN m.done
  ELSE LET n == Len(m.buf)
           len == AddLength(m.len, n)
           padLen == IF n < Block - 2 THEN Block - 2 - n ELSE Block + Block - 2 - n
           words == <<(len[1] * 8) % Modulus, (len[2] * 8 + len[1] \div 2 ^ (WordBits - 3)) % Modulus>>
       IN DoBlock(m, m.buf \o <<"end">> \o Zeros(padLen - 1) \o words).done

MD5(cut) == Finish(Through(Add, [buf |-> <<>>, len |-> <<0, 0>>, done |-> <<>>], cut))

-------------------------------------------------------------------------------
(* Properties *)

\* base-64 of a message, whole and digit by digit
Base64(message) ==
  LET n == Len(message)
      byte(i) == IF i <= n THEN message[i] ELSE 0
      digit(k) == LET b == ((k - 1) \div 4) * 3
                  IN Digits(Bits24(<<byte(b + 1), byte(b + 2), byte(b + 3)>>))[((k - 1) % 4) + 1]
      used == (n * 8 + 5) \div 6
  IN [k \in 1..(((n + 2) \div 3) * 4) |-> IF k <= used THEN digit(k) ELSE Pad]

\* Wherever the pieces end, the encoder writes the base-64 of the whole message,
\* and from the pieces of that the decoder makes the message.
\* Base64encoder decodes in place: as long as each piece but the last has a
\* multiple of four digits, no digit is overwritten before it was read, and
\* each piece without a '=' yields its bytes at once.
Base64Exact ==
  /\ Encoded(Cut(Message(Total))) = Base64(Message(Total))
  /\ Total % 4 = 0 =>
       \A n \in {k \in 0..Total : Len(Base64(Message(k))) = Total} :
         LET cut == Cut(Base64(Message(n)))
             at[i \in 0..Len(cut)] == IF i = 0 THEN NothingDecoded ELSE InPlace(at[i - 1], cut[i])
         IN /\ Decoded(cut) = Message(n)
            /\ (\A i \in 1..(Len(cut) - 1) : Len(cut[i]) % 4 = 0) =>
                 \A i \in 1..Len(cut) :
                   /\ at[i].data # Torn
                   /\ i < Len(cut) => at[i].out = Decoded(<<cut[i]>>) \/ Pad \in {cut[i][k] : k \in DOMAIN cut[i]}

\* A message with the end marked, filled up so that its length in bits, modulo the
\* two words, ends a block.
Padded(message, low, high) ==
  LET n == Len(message)
      fill == (3 * Block - 3 - (n % Block)) % Block
  IN message \o <<"end">> \o Zeros(fill) \o <<low, high>>

\* Both digests transform the padded message, wherever the pieces end (MD5 unless
\* there is nothing to digest): a block is neither begun twice nor left out where
\* a piece ends at its end, and the length is not lost where its words overflow.
DigestsExact ==
  LET message == Message(Total)
      low  == (8 * Total) % Modulus
      high == ((8 * Total) \div Modulus) % Modulus
  IN /\ SHA256(Cut(message)) = Padded(message, high, low)
     /\ Total > 0 => MD5(Cut(message)) = Padded(message, low, high)

EncoderExact == Base64Exact /\ DigestsExact

===============================================================================
