--------------------------------- MODULE String ---------------------------------
(***************************************************************************)
(* utl::String (ust/String.cpp), and BoyerMooreSearch.h: characters that   *)
(* are its own, in an array with room for more, or borrowed from an array  *)
(* of somebody else, with a length that is computed when it is asked for.  *)
(*                                                                         *)
(* text is what the string should be, as a sequence.  Left out are the     *)
(* calls that the code breaks on: toUpper() and replace() of a character   *)
(* on borrowed characters, which they change where they are; a replace()   *)
(* that makes such a string shorter; replace() of an empty string; a       *)
(* backslash that ends a quoted token or a string; a pattern of 2^16.      *)
(***************************************************************************)
EXTENDS Integers, Sequences, FiniteSets

CONSTANTS
  Chars,      \* the characters, letters of both cases among them
  Upper,      \* for some of them, the capital
  Space,      \* what isspace() says of a character: this one
  Delim,      \* a delimiter of tokens
  Escape,     \* the backslash
  Lent,       \* the characters that are borrowed
  Grain,      \* arrays have a multiple of this size: 8
  MaxText,    \* bound on the text
  Nul, Junk   \* the end of the characters, and what a new array has in it

VARIABLES
  array,      \* what _s points to: where, and the characters
  length,     \* _length, or Unknown
  text

stringVars == <<array, length, text>>

Unknown == -1           \* size_t_max, also as the result of a search
NullChar == [where |-> "null", chars |-> <<Nul>>]
Borrowed == [where |-> "lent", chars |-> Append(Lent, Nul)]
Own(chars) == [where |-> "own", chars |-> chars]

Least(S) == CHOOSE x \in S : \A y \in S : x <= y
Greatest(S) == CHOOSE x \in S : \A y \in S : x >= y
Lesser(a, b) == IF a < b THEN a ELSE b
Copies(c, n) == [i \in 1..n |-> c]

StrLen(s) == Least({i \in 0..Len(s) : i = Len(s) \/ s[i + 1] = Nul})

Init == array = NullChar /\ length = 0 /\ text = <<>>

-------------------------------------------------------------------------------
(* Arrays *)

Length == IF length = Unknown THEN StrLen(array.chars) ELSE length
Size == IF array.where = "own" THEN Len(array.chars) ELSE 0

NextPow2(n) == Least({2 ^ k : k \in 0..n} \ 0..(n - 1))
Rounded(n) == ((n + Grain - 1) \div Grain) * Grain

\* a new array of n, with the characters and their end
Moved(n) == [i \in 1..n |-> IF i <= Length + 1 THEN array.chars[i] ELSE Junk]

\* assertOwner()
Owned == IF Size = 0 THEN Moved(Rounded(Length + 1)) ELSE array.chars

\* reserve(n), of which the increment is 8 or "make it a power of 2"
Reserved(n) == IF Size < n THEN Moved(Rounded(n)) ELSE array.chars
ReservedPow2(n) == IF Size < n THEN Moved(NextPow2(n)) ELSE array.chars

\* memcpy() of s to position at
Written(chars, at, s) ==
  [i \in DOMAIN chars |-> IF i \in (at + 1)..(at + Len(s)) THEN s[i - at] ELSE chars[i]]

Become(chars, newLength, newText) ==
  array' = Own(chars) /\ length' = newLength /\ text' = newText

Before(n) == SubSeq(text, 1, n)
After(n)  == SubSeq(text, n + 1, Len(text))

-------------------------------------------------------------------------------
(* Setting it *)

\* set() of a copy; an array that is large enough stays
SetCopy(s) ==
  /\ text' = s
  /\ length' = Len(s)
  /\ IF s = <<>>
     THEN array' = IF Size = 0 THEN NullChar ELSE Own(Written(array.chars, 0, <<Nul>>))
     ELSE LET room == IF Len(s) + 1 <= Size THEN array.chars ELSE Copies(Junk, Rounded(Len(s) + 1))
          IN array' = Own(Written(room, 0, Append(s, Nul)))

\* set() of an array that becomes its own
SetTaken(s) ==
  s # <<>> /\ Become(Append(s, Nul), Len(s), s)

\* set() without ownership, and the constructor, which leaves the length open
Borrow(newLength) == array' = Borrowed /\ length' = newLength /\ text' = Lent

Clear ==
  /\ array' = IF Size > 0 THEN Own(Written(array.chars, 0, <<Nul>>)) ELSE NullChar
  /\ length' = 0 /\ text' = <<>>

Excise == array' = NullChar /\ length' = 0 /\ text' = <<>>

\* economize() copies an array of the size that it should have
Economize ==
  /\ Size > 0
  /\ UNCHANGED text
  /\ IF Length = 0 THEN array' = NullChar /\ length' = 0
     ELSE LET n == Rounded(Length + 1)
          IN /\ n # Size
             /\ array' = Own([i \in 1..n |-> IF i <= Size THEN array.chars[i] ELSE Junk])
             /\ length' = Length

-------------------------------------------------------------------------------
(* Changing it *)

AppendChar(c) ==
  Become(Written(ReservedPow2(Length + 2), Length, <<c, Nul>>), Length + 1, Append(text, c))

AppendText(s) ==
  /\ s # <<>>
  /\ Become(Written(ReservedPow2(Length + Len(s) + 1), Length, Append(s, Nul)),
            Length + Len(s), text \o s)

\* setBounds()
Begin(begin) == Lesser(begin, Length)
End(begin, len) == Lesser(Begin(begin) + Lesser(len, Length), Length)

\* remove(), and chop(), which also returns what it takes out
Remove(begin, len) ==
  LET b == Begin(begin)
      e == End(begin, len)
  IN Become(Written(Owned, b, SubSeq(Owned, e + 1, Length + 1)), Length - (e - b),
            Before(b) \o After(e))

\* mutant: the characters behind stay where they were unless the text grows
ReplaceRangeShrunk(begin, len, s) ==
  LET b == Begin(begin)
      e == End(begin, len)
      growth == Len(s) - (e - b)
      room   == Reserved(Length + growth + 1)
      behind == SubSeq(room, e + 1, Length)
      moved  == IF growth > 0 /\ e < Length THEN Written(room, e + growth, behind) ELSE room
  IN /\ Size > 0 \/ growth >= 0
     /\ Become(Written(Written(moved, b, s), Length + growth, <<Nul>>), Length + growth,
               Before(b) \o s \o After(e))

ReplaceRange(begin, len, s) ==
  LET b == Begin(begin)
      e == End(begin, len)
      growth == Len(s) - (e - b)
      room   == Reserved(Length + growth + 1)
      behind == SubSeq(room, e + 1, Length)
      moved  == IF growth # 0 /\ e < Length THEN Written(room, e + growth, behind) ELSE room
  IN /\ Size > 0 \/ growth >= 0
     /\ Become(Written(Written(moved, b, s), Length + growth, <<Nul>>), Length + growth,
               Before(b) \o s \o After(e))

Reversed(s) == [i \in 1..Len(s) |-> s[Len(s) + 1 - i]]

Reverse ==
  Become(Written(Owned, 0, Reversed(SubSeq(Owned, 1, Length))), Length, Reversed(text))

Blank(s) == \A i \in DOMAIN s : s[i] = Space
Trimmed(s) ==
  IF Blank(s) THEN <<>>
  ELSE LET solid == {i \in DOMAIN s : s[i] # Space}
       IN SubSeq(s, Least(solid), Greatest(solid))

\* trimBegin() moves the rest to the front; trimEnd() ends it
Trim ==
  /\ Length > 0
  /\ LET chop  == Least({i \in 0..Length : Owned[i + 1] # Space})
         front == Written(Owned, 0, SubSeq(Owned, chop + 1, Length + 1))
         len   == Length - chop
         ends  == {i \in 1..len : front[i] # Space}
         end   == IF ends = {} THEN 0 ELSE Greatest(ends)
     IN Become(IF len = 0 THEN front ELSE Written(front, end, <<Nul>>), end, Trimmed(text))

Raised(s) == [i \in DOMAIN s |-> IF s[i] \in DOMAIN Upper THEN Upper[s[i]] ELSE s[i]]
Lowered(s) ==
  [i \in DOMAIN s |-> IF \E c \in DOMAIN Upper : Upper[c] = s[i]
                      THEN CHOOSE c \in DOMAIN Upper : Upper[c] = s[i] ELSE s[i]]

ToLower(begin, len) ==
  LET b == Begin(begin)
      e == End(begin, len)
  IN Become(Written(Owned, b, Lowered(SubSeq(Owned, b + 1, e))), Length,
            Before(b) \o Lowered(SubSeq(text, b + 1, e)) \o After(e))

ToUpper(begin, len) ==
  LET b == Begin(begin)
      e == End(begin, len)
  IN /\ Size > 0
     /\ Become(Written(array.chars, b, Raised(SubSeq(array.chars, b + 1, e))), Length,
               Before(b) \o Raised(SubSeq(text, b + 1, e)) \o After(e))

Next ==
  \/ \E s \in {<<>>} \union {<<c>> : c \in Chars} : SetCopy(s) \/ SetTaken(s)
  \/ SetCopy(Lent) \/ SetTaken(Lent)
  \/ Borrow(Unknown) \/ Borrow(Len(Lent))
  \/ Clear \/ Excise \/ Economize \/ Reverse \/ Trim
  \/ \E c \in Chars : Len(text) < MaxText /\ AppendChar(c)
  \/ Len(text) + Len(Lent) <= MaxText /\ AppendText(Lent)
  \/ \E begin \in 0..(MaxText + 1), len \in 0..2 :
       \/ Remove(begin, len)
       \/ ToLower(begin, len) \/ ToUpper(begin, len)
       \/ Len(text) < MaxText /\ \E s \in {<<>>, <<Space>>, Lent} :
            Len(s) <= len + 1 /\ ReplaceRange(begin, len, s)

StringSpec == Init /\ [][Next]_stringVars

-------------------------------------------------------------------------------
(* Searching it *)

At(t, s, i) == i + Len(s) <= Len(t) /\ SubSeq(t, i + 1, i + Len(s)) = s

\* find()
Find(t, s, begin) ==
  IF s = <<>> THEN begin
  ELSE IF begin >= Len(t) \/ Len(t) - begin < Len(s) THEN Unknown
  ELSE LET places == {i \in begin..(Len(t) - Len(s)) : At(t, s, i)}
       IN IF places = {} THEN Unknown ELSE Least(places)

\* find() of a character, which may be the one at the end
FindChar(t, c, begin) ==
  LET places == {i \in begin..Len(t) : Append(t, Nul)[i + 1] = c}
  IN IF places = {} THEN Unknown ELSE Least(places)

\* mutant: the first of equal characters says how far to go
SkipFirst(s, c) ==
  LET places == {i \in 1..Len(s) : s[i] = c}
  IN IF places = {} THEN Len(s) ELSE Len(s) - Least(places)

\* BoyerMooreSearch::set(): how far to go on where c does not fit
Skip(s, c) ==
  LET places == {i \in 1..Len(s) : s[i] = c}
  IN IF places = {} THEN Len(s) ELSE Len(s) - Greatest(places)

\* BoyerMooreSearch::find(), with strPtr at p and patPtr at q, from 0 on
RECURSIVE BoyerMoore(_, _, _, _)
BoyerMoore(t, s, p, q) ==
  IF p >= Len(t) THEN Unknown
  ELSE IF t[p + 1] = s[q + 1]
       THEN IF q = 0 THEN p ELSE BoyerMoore(t, s, p - 1, q - 1)
       ELSE BoyerMoore(t, s, p + Greatest({Skip(s, t[p + 1]), Len(s) - q}), Len(s) - 1)

\* findBM()
FindBM(t, s, begin) ==
  IF begin >= Len(t) \/ s = <<>> \/ Len(t) - begin < Len(s) THEN Unknown
  ELSE LET at == BoyerMoore(SubSeq(t, begin + 1, Len(t)), s, Len(s) - 1, Len(s) - 1)
       IN IF at = Unknown THEN Unknown ELSE begin + at

\* replace() of each occurrence of l, from begin on
RECURSIVE ReplaceFrom(_, _, _, _)
ReplaceFrom(t, l, r, begin) ==
  LET i == Find(t, l, begin)
  IN IF i = Unknown THEN t
     ELSE ReplaceFrom(SubSeq(t, 1, i) \o r \o SubSeq(t, i + Len(l) + 1, Len(t)), l, r, i + Len(r))

\* nextToken() from idx on: the token and the index behind it
NextToken(t, idx) ==
  LET begin == Least({i \in idx..Len(t) : i = Len(t) \/ t[i + 1] # Space})
      end   == Least({i \in begin..Len(t) : i = Len(t) \/ t[i + 1] = Delim})
      \* ep, which stops at the first character
      back  == {i \in (begin + 1)..(end - 1) : t[i + 1] # Space}
      last  == IF end = begin THEN begin ELSE IF back = {} THEN begin + 1 ELSE Greatest(back) + 1
  IN [token |-> SubSeq(t, begin + 1, last), idx |-> IF end = Len(t) THEN end ELSE end + 1]

RECURSIVE Tokens(_, _)
Tokens(t, idx) ==
  IF idx >= Len(t) THEN <<>>
  ELSE LET n == NextToken(t, idx) IN <<n.token>> \o Tokens(t, n.idx)

\* backslashEscaped() and backslashUnescaped()
RECURSIVE Escaped(_, _)
Escaped(t, specials) ==
  IF t = <<>> THEN <<>>
  ELSE (IF t[1] \in specials \union {Escape} THEN <<Escape, t[1]>> ELSE <<t[1]>>)
       \o Escaped(Tail(t), specials)

RECURSIVE Unescaped(_)
Unescaped(t) ==
  IF t = <<>> THEN <<>>
  ELSE IF t[1] = Escape /\ Len(t) > 1 THEN <<t[2]>> \o Unescaped(SubSeq(t, 3, Len(t)))
  ELSE <<t[1]>> \o Unescaped(Tail(t))

-------------------------------------------------------------------------------
(* Properties *)

\* Whatever has been done to it, with an array of its own or a borrowed one that it
\* moved out of, the string is its text: the characters, their end inside the
\* array, the length if it is known; and nobody else's characters have changed.
StringExact ==
  /\ SubSeq(array.chars, 1, StrLen(array.chars)) = text
  /\ Len(text) < Len(array.chars)
  /\ length \in {Unknown, Len(text)}
  /\ array.where = "lent" => array = Borrowed

Patterns == {<<c>> : c \in Chars} \union {<<c, d>> : c \in Chars, d \in Chars}
            \union {<<c, c, Space>> : c \in Chars}

\* the fields between delimiters; an empty one at the end is not one
RECURSIVE Fields(_)
Fields(t) ==
  LET ends == {i \in 1..Len(t) : t[i] = Delim}
  IN IF t = <<>> THEN <<>>
     ELSE IF ends = {} THEN <<t>>
     ELSE <<SubSeq(t, 1, Least(ends) - 1)>> \o Fields(SubSeq(t, Least(ends) + 1, Len(t)))

\* Boyer and Moore's search, which passes over characters, finds the first match
\* as find() does.
FindsFirst(s, begin) ==
  LET places == {i \in begin..Len(text) : At(text, s, i)}
      first  == IF places = {} THEN Unknown ELSE Least(places)
  IN /\ Find(text, s, begin) = first /\ FindBM(text, s, begin) = first
     /\ Len(s) = 1 => FindChar(text, s[1], begin) = first

\* replace() takes each match once and none of what it brings; nextToken() goes
\* through the fields, trimmed; what was escaped is unescaped.  All this looks at
\* the text only, so it is enough to look at it in arrays of one size.
SearchExact ==
  Size = NextPow2(MaxText + 1) =>
    /\ \A s \in Patterns, begin \in 0..Len(text) : FindsFirst(s, begin)
    /\ \A s \in Patterns : ReplaceFrom(ReplaceFrom(text, s, <<Nul>>, 0), <<Nul>>, s, 0) = text
    /\ \A c \in Chars :
         /\ ReplaceFrom(text, <<c>>, <<>>, 0) = SelectSeq(text, LAMBDA d : d # c)
         /\ Len(ReplaceFrom(text, <<c>>, <<c, c>>, 0)) =
              Len(text) + Cardinality({i \in DOMAIN text : text[i] = c})
         /\ Unescaped(Escaped(text, {c})) = text
    /\ LET fields == Fields(text)
       IN Tokens(text, 0) = [i \in DOMAIN fields |-> Trimmed(fields[i])]

===============================================================================
