--------------------------------- MODULE Regex ---------------------------------
(***************************************************************************)
(* Regex (ust/Regex.cpp): the compiler and the backtracking matcher.  A    *)
(* branch is the sequence of its nodes; where setTail() links the last of  *)
(* them to what follows the group, match() is given what follows as well.  *)
(* A bracket expression or a class like \w is the one symbol "[", and      *)
(* {2,2} is the one symbol "{": how they are read is not modelled.  Nor    *)
(* are the spans of the groups, which RegexMatch records.                  *)
(***************************************************************************)
EXTENDS Naturals, Sequences, FiniteSets, SequencesExt

CONSTANTS
  Letters,      \* the letters of patterns and texts
  Class,        \* those of a bracket expression
  Pieces,       \* what a pattern is put together from: sequences of letters and symbols
  MaxPieces,    \* bound: pieces in a pattern
  MaxText       \* bound: the length of a text

VARIABLES pattern, pieces

regexVars == <<pattern, pieces>>

Symbols == {"^", "$", "|", ".", "*", "+", "?", "(", ")", "{", "["}

Unbounded == 1000
Reps == "*" :> <<0, Unbounded>> @@ "+" :> <<1, Unbounded>> @@ "?" :> <<0, 1>> @@ "{" :> <<2, 2>>

-------------------------------------------------------------------------------
(* scan() and the parser *)

\* The tokens: symbols, and strings of letters as long as they can be.
Scan(chars) ==
  LET add(tokens, c) ==
        IF c \in Letters /\ tokens # <<>> /\ ~Last(tokens).symbol
        THEN Append(Front(tokens), [symbol |-> FALSE, str |-> Append(Last(tokens).str, c)])
        ELSE Append(tokens, [symbol |-> c \in Symbols, str |-> <<c>>])
  IN  FoldLeft(add, <<>>, chars)

IsSymbol(tk, p, c) == p <= Len(tk) /\ tk[p].symbol /\ tk[p].str = <<c>>

Failed == [ok |-> FALSE]
Parsed(nodes, p) == [ok |-> TRUE, nodes |-> nodes, at |-> p]

\* mutant: the repetition is of the whole string
PieceWhole(atom, reps) ==
  <<[op |-> "repeat", operand |-> atom, min |-> reps[1], max |-> reps[2]]>>

\* parsePiece(): an atom that is repeated; of a string, only the last character is.
Piece(atom, reps) ==
  LET repeated(x) == [op |-> "repeat", operand |-> x, min |-> reps[1], max |-> reps[2]]
  IN  IF atom.op = "string" /\ Len(atom.str) > 1
      THEN <<[atom EXCEPT !.str = Front(@)], repeated([op |-> "string", str |-> <<Last(atom.str)>>])>>
      ELSE <<repeated(atom)>>

RECURSIVE ParseExpression(_, _, _, _)
ParseAtom(tk, p) ==
  IF p > Len(tk) THEN Failed
  ELSE IF ~tk[p].symbol THEN Parsed(<<[op |-> "string", str |-> tk[p].str]>>, p + 1)
  ELSE IF IsSymbol(tk, p, "(")
  THEN LET e == ParseExpression(tk, p + 1, TRUE, <<>>)
       IN  IF e.ok THEN Parsed(<<[op |-> "group", branches |-> e.nodes]>>, e.at + 1) ELSE Failed
  ELSE IF tk[p].str[1] \in {"^", "$", ".", "["} THEN Parsed(<<[op |-> tk[p].str[1]]>>, p + 1)
  ELSE Failed

ParsePiece(tk, p) ==
  LET a == ParseAtom(tk, p)
  IN  IF a.ok /\ \E c \in DOMAIN Reps : IsSymbol(tk, a.at, c)
      THEN Parsed(Piece(a.nodes[1], Reps[tk[a.at].str[1]]), a.at + 1)
      ELSE a

RECURSIVE ParseBranch(_, _, _)
ParseBranch(tk, p, nodes) ==
  LET piece == ParsePiece(tk, p)
  IN  IF ~piece.ok THEN IF nodes = <<>> THEN Failed ELSE Parsed(nodes, p)
      ELSE IF IsSymbol(tk, piece.at, ")") \/ piece.at > Len(tk)
      THEN Parsed(nodes \o piece.nodes, piece.at)
      ELSE ParseBranch(tk, piece.at, nodes \o piece.nodes)

ParseExpression(tk, p, paren, branches) ==
  LET b == ParseBranch(tk, p, <<>>)
  IN  IF ~b.ok THEN Failed
      ELSE IF IsSymbol(tk, b.at, "|") THEN ParseExpression(tk, b.at + 1, paren, Append(branches, b.nodes))
      ELSE IF IF paren THEN IsSymbol(tk, b.at, ")") ELSE b.at > Len(tk)
      THEN Parsed(Append(branches, b.nodes), b.at)
      ELSE Failed

Parse(tk) == ParseExpression(tk, 1, FALSE, <<>>)

-------------------------------------------------------------------------------
(* match() *)

\* what ends a text
NUL == "NUL"
CharAt(text, i) == IF i < Len(text) THEN text[i + 1] ELSE NUL
AnyChar == Letters \cup {NUL}

\* setCharSet(): the characters at which the nodes k, to the end, may match
RECURSIVE CharSet(_)
CharSet(k) ==
  IF k = <<>> \/ Head(k).op = "." THEN AnyChar
  ELSE CASE Head(k).op = "group"  -> UNION {CharSet(b \o Tail(k)) : b \in Range(Head(k).branches)}
         [] Head(k).op = "repeat" -> CharSet(<<Head(k).operand>>)
                                     \cup (IF Head(k).min = 0 THEN CharSet(Tail(k)) ELSE {})
         [] Head(k).op = "^"      -> CharSet(Tail(k))
         [] Head(k).op = "$"      -> {NUL}
         [] Head(k).op = "["      -> Class
         [] Head(k).op = "string" -> {Head(k).str[1]}

NoMatch == Unbounded

HasAt(text, i, s) == i + Len(s) <= Len(text) /\ SubSeq(text, i + 1, i + Len(s)) = s

RECURSIVE Match(_, _, _), MatchBranches(_, _, _, _), Repeat(_, _, _, _), WorkBack(_, _, _, _)

\* the branches in turn, what follows the group behind each
MatchBranches(text, i, branches, k) ==
  IF branches = <<>> THEN NoMatch
  ELSE LET nodes == Head(branches) \o k
           end == IF CharAt(text, i) \in CharSet(nodes) THEN Match(text, i, nodes) ELSE NoMatch
       IN  IF end # NoMatch THEN end ELSE MatchBranches(text, i, Tail(branches), k)

\* the operand as often as it matches: where each repetition begins
Repeat(text, operand, max, idxs) ==
  LET end == IF Len(idxs) > max THEN NoMatch ELSE Match(text, Last(idxs), <<operand>>)
  IN  IF end = NoMatch THEN idxs ELSE Repeat(text, operand, max, Append(idxs, end))

\* fewer repetitions, until what follows matches
WorkBack(text, idxs, min, k) ==
  IF Len(idxs) <= min THEN NoMatch
  ELSE LET end == IF CharAt(text, Last(idxs)) \in CharSet(k) THEN Match(text, Last(idxs), k) ELSE NoMatch
       IN  IF end # NoMatch THEN end ELSE WorkBack(text, Front(idxs), min, k)

\* Where a match of the nodes k that begins at i ends.
Match(text, i, k) ==
  IF k = <<>> THEN i
  ELSE LET node == Head(k)
           step(ok, n) == IF ok THEN Match(text, i + n, Tail(k)) ELSE NoMatch
       IN  CASE node.op = "group"  -> IF Len(node.branches) = 1
                                      THEN Match(text, i, node.branches[1] \o Tail(k))
                                      ELSE MatchBranches(text, i, node.branches, Tail(k))
             [] node.op = "repeat" -> WorkBack(text, Repeat(text, node.operand, node.max, <<i>>), node.min, Tail(k))
             [] node.op = "string" -> step(HasAt(text, i, node.str), Len(node.str))
             [] node.op = "^"      -> step(i = 0, 0)
             [] node.op = "$"      -> step(CharAt(text, i) = NUL, 0)
             [] node.op = "."      -> step(CharAt(text, i) # NUL, 1)
             [] node.op = "["      -> step(CharAt(text, i) \in Class, 1)

\* compile()'s optimisations, for a pattern of one branch: the longest string that must
\* occur, and how a match begins
Strings(branches) ==
  IF Len(branches) > 1 THEN <<>>
  ELSE SelectSeq(branches[1], LAMBDA x : x.op = "string" /\ Len(x.str) > 1)
MustStr(branches) ==
  FoldLeft(LAMBDA s, x : IF Len(x.str) > Len(s) THEN x.str ELSE s, <<>>, Strings(branches))
Begins(branches, op) == Len(branches) = 1 /\ branches[1][1].op = op

Occurs(s, text) == \E i \in 0..Len(text) : HasAt(text, i, s)

\* where match(str, m, 0) tries
Starts(branches, text) ==
  IF ~Occurs(MustStr(branches), text) THEN {}
  ELSE IF Begins(branches, "^") THEN {0}
  ELSE {i \in 0..(Len(text) - 1) :
          Begins(branches, "string") => CharAt(text, i) = branches[1][1].str[1]}

Group(branches) == <<[op |-> "group", branches |-> branches]>>

\* the earliest of some places
Earliest(places) == CHOOSE x \in places : \A y \in places : x[1] <= y[1]

\* match(str, m, 0): the first place where a match begins, and its end
FirstOf(found) == IF found = {} THEN <<>> ELSE Earliest(found)

Search(branches, text) ==
  FirstOf({p \in {<<i, Match(text, i, Group(branches))>> : i \in Starts(branches, text)} :
             p[2] # NoMatch})

-------------------------------------------------------------------------------
(* What a pattern means: every end of a match, of single characters *)

Single(chars) == [j \in DOMAIN chars |-> [symbol |-> chars[j] \in Symbols, str |-> <<chars[j]>>]]

RECURSIVE Ends(_, _, _), EndsTimes(_, _, _, _)
EndsTimes(text, S, node, n) ==
  IF n = 0 THEN S ELSE EndsTimes(text, UNION {Ends(text, i, <<node>>) : i \in S}, node, n - 1)

Ends(text, i, k) ==
  IF k = <<>> THEN {i}
  ELSE LET node == Head(k)
           ends == CASE node.op = "group"  -> UNION {Ends(text, i, b) : b \in Range(node.branches)}
                     [] node.op = "repeat" ->
                          UNION {EndsTimes(text, {i}, node.operand, n) :
                                   n \in node.min..(IF node.max = Unbounded THEN MaxText + 1 ELSE node.max)}
                     [] node.op = "string" -> IF CharAt(text, i) = node.str[1] THEN {i + 1} ELSE {}
                     [] node.op = "^"      -> IF i = 0 THEN {i} ELSE {}
                     [] node.op = "$"      -> IF i = Len(text) THEN {i} ELSE {}
                     [] node.op = "."      -> IF i < Len(text) THEN {i + 1} ELSE {}
                     [] node.op = "["      -> IF CharAt(text, i) \in Class THEN {i + 1} ELSE {}
       IN  UNION {Ends(text, j, Tail(k)) : j \in ends}

\* the nodes of a pattern, within groups and repetitions too
RECURSIVE AllNodes(_)
AllNodes(branches) ==
  UNION {LET inner(x) == CASE x.op = "group" -> {x} \cup AllNodes(x.branches)
                           [] x.op = "repeat" -> {x} \cup AllNodes(<<<<x.operand>>>>)
                           [] OTHER -> {x}
         IN  UNION {inner(b[j]) : j \in DOMAIN b} : b \in Range(branches)}

Texts == UNION {[1..n -> Letters] : n \in 0..MaxText}

\* a repetition of what may be empty: match() would repeat it 2^32 times
Endless(branches) ==
  \E x \in AllNodes(branches) :
    x.op = "repeat" /\ x.max = Unbounded
    /\ \E text \in Texts : \E i \in 0..Len(text) : i \in Ends(text, i, <<x.operand>>)

RepeatsGroup(branches) ==
  \E x \in AllNodes(branches) : x.op = "repeat" /\ x.operand.op = "group"

-------------------------------------------------------------------------------

Init == pattern = <<>> /\ pieces = 0

\* every pattern of some pieces is compiled and matched
Grow(piece) ==
  /\ pieces < MaxPieces
  /\ pattern' = pattern \o piece
  /\ pieces' = pieces + 1

Next == \E piece \in Pieces : Grow(piece)

Spec == Init /\ [][Next]_regexVars

-------------------------------------------------------------------------------
(* Property *)

\* a match that was found, and where the meaning has one begin
MatchExact(found, begins, meaning, text) ==
  /\ found # <<>> => found[2] \in Ends(text, found[1], Group(meaning))
  /\ ~RepeatsGroup(meaning) =>
       /\ begins # {} => found # <<>> /\ \A i \in begins : found[1] <= i
       /\ begins = {} /\ found # <<>> => found[1] = Len(text)

CompiledExact(p, meaning) ==
  /\ p.ok = meaning.ok
  /\ p.ok /\ ~Endless(meaning.nodes) =>
       \A text \in Texts :
         MatchExact(Search(p.nodes, text),
                    {i \in 0..(Len(text) - 1) : Ends(text, i, Group(meaning.nodes)) # {}},
                    meaning.nodes, text)

\* What match() finds is what the pattern means, though the characters a branch or the
\* rest may begin with, the first character and the longest string are used to give up
\* early, strings are cut up, and repetitions are greedy: a pattern compiles when its
\* characters one by one make sense, a match that is found is one, and when one begins
\* at a character of the text the first is found.  (A group that is repeated is not
\* matched again in another way, so a match of it may be missed.)
RegexExact == CompiledExact(Parse(Scan(pattern)), Parse(Single(pattern)))

===============================================================================
