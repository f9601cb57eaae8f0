--------------------------------- MODULE RDparser --------------------------------
(***************************************************************************)
(* RDparser (ust/RDparser.cpp): a grammar of productions, each a text of   *)
(* names, | for alternatives, [ ] for what may be absent and { } for what  *)
(* may be repeated, is compiled into a graph, and an input parsed along it *)
(* by recursive descent with backtracking.                                 *)
(*                                                                         *)
(* A behaviour only grows the text of the first production, a piece at a   *)
(* time; it is compiled and run on every input up to a bound.  A token of  *)
(* the input is its terminal's name; how scan() finds the terminals with   *)
(* Regex, and lines and columns, are left out.                             *)
(***************************************************************************)
EXTENDS Naturals, Sequences, FiniteSets, SequencesExt

CONSTANTS
  Terminals,    \* the names of the terminals
  Second,       \* the other production: its name and its text
  Unknown,      \* a name that is neither's
  Pieces,       \* what the first production's text is put together from
  MaxPieces,    \* bound: pieces in that text
  MaxInput      \* bound: tokens in an input

VARIABLES rule,   \* the text of the first production, _rootProd
          pieces, \* how many pieces it has
          graph   \* what compile() made of the productions: their nodes

Symbols == {"|", "[", "]", "{", "}"}
Root    == "root"

-------------------------------------------------------------------------------
(* compile() *)

None == [found |-> FALSE]
Found(node, at) == [found |-> TRUE, node |-> node, at |-> at]
Node(op, edges) == [op |-> op, edges |-> edges]

\* Every parse...I() is given a place in the text and returns nullptr, or a node and
\* the place after it; the ok flag says which.

RECURSIVE Expression(_, _)

\* parseAtomI()
Atom(text, i) ==
  IF i > Len(text) \/ text[i] = Unknown THEN None
  ELSE IF text[i] \notin Symbols
  THEN Found([op |-> IF text[i] \in Terminals THEN "terminal" ELSE "production",
              name |-> text[i]], i + 1)
  ELSE LET close == CASE text[i] = "[" -> "]" [] text[i] = "{" -> "}" [] OTHER -> ""
           expr == IF close = "" THEN None ELSE Expression(text, i + 1)
       IN IF ~expr.found THEN None
          ELSE IF expr.at > Len(text) \/ text[expr.at] # close THEN None
          ELSE Found(Node(IF close = "]" THEN "zero_or_one" ELSE "zero_plus", <<expr.node>>),
                     expr.at + 1)

\* parseBranchI(): atoms, until there is none
RECURSIVE Branch(_, _, _)
Branch(text, i, atoms) ==
  LET atom == Atom(text, i)
  IN IF atom.found THEN Branch(text, atom.at, Append(atoms, atom.node))
     ELSE IF atoms = <<>> THEN None ELSE Found(Node("and", atoms), i)

\* parseExpressionI(): branches, until there is none; a | between two is skipped
RECURSIVE Branches(_, _, _)
Branches(text, i, branches) ==
  LET branch == Branch(text, i, <<>>)
      bar == branch.found /\ branch.at <= Len(text) /\ text[branch.at] = "|"
  IN IF branch.found
     THEN Branches(text, branch.at + (IF bar THEN 1 ELSE 0), Append(branches, branch.node))
     ELSE IF branches = <<>> THEN None ELSE Found(Node("or", branches), i)

Expression(text, i) == Branches(text, i, <<>>)

\* the graph's node of a production; what follows its expression in the text is dropped
Compiled(text) == Expression(text, 1)

Compile(text) ==
  [p \in {Root, Second.name} |-> Compiled(IF p = Root THEN text ELSE Second.text)]

CompileOK == \A p \in DOMAIN graph : graph[p].found

Init == rule = <<>> /\ pieces = 0 /\ graph = Compile(rule)

Next ==
  /\ pieces < MaxPieces /\ pieces' = pieces + 1
  /\ \E p \in Pieces : rule' = rule \o p
  /\ graph' = Compile(rule')

Spec == Init /\ [][Next]_<<rule, pieces, graph>>

-------------------------------------------------------------------------------
(* parse() *)

\* A parse node has a production, a token, and the nodes it has edges to.
NoName == ""
ParseNode(prod, token, kids) == [prod |-> prod, token |-> token, kids |-> kids]

\* Where a parse stands: the token that it is on, the state's lastTokenOK, lastToken
\* and ok, and the nodes that the last call returned.
State(it, lastOK, last, ok, nodes) ==
  [it |-> it, lastOK |-> lastOK, last |-> last, ok |-> ok, nodes |-> nodes]

\* mutant: the place is restored and lastTokenOK is not
FailKeepingLastOK(before, s) == State(before.it, s.lastOK, s.last, FALSE, <<>>)

\* the label "fail" of parse()
Fail(before, s) == State(before.it, before.lastOK, s.last, FALSE, <<>>)

\* a terminal: lastToken becomes the furthest one that was looked at
ParseTerminal(tokens, name, s) ==
  LET further == s.it > s.last
  IN IF tokens[s.it] = name
     THEN State(s.it + 1, s.it + 1, IF further THEN s.it + 1 ELSE s.last, TRUE,
                <<ParseNode(NoName, name, <<>>)>>)
     ELSE Fail(s, [s EXCEPT !.last = IF further THEN s.it ELSE s.last])

\* the label "succeed": a node with one edge makes way for the node it leads to,
\* unless both are productions
Succeed(op, prod, s) ==
  LET middleman == /\ Len(s.nodes) = 1 /\ op \in {"and", "or"}
                   /\ prod = NoName \/ s.nodes[1].prod = NoName
      kid == s.nodes[1]
  IN [s EXCEPT !.nodes =
        IF middleman THEN <<IF prod # NoName THEN [kid EXCEPT !.prod = prod] ELSE kid>>
        ELSE <<ParseNode(prod, NoName, s.nodes)>>]

\* tryParse() differs from parse() in where the nodes are kept meanwhile
RECURSIVE Parse(_, _, _)

\* gn_and: one edge after the other
RECURSIVE ParseAll(_, _, _, _)
ParseAll(tokens, edges, s, nodes) ==
  IF edges = <<>> THEN [s EXCEPT !.nodes = nodes]
  ELSE LET r == Parse(tokens, edges[1], s)
       IN IF r.ok THEN ParseAll(tokens, Tail(edges), r, nodes \o r.nodes) ELSE r

\* gn_or: the first edge that succeeds
RECURSIVE ParseAny(_, _, _)
ParseAny(tokens, edges, s) ==
  IF edges = <<>> THEN [s EXCEPT !.ok = FALSE]
  ELSE LET r == Parse(tokens, edges[1], s)
       IN IF r.ok THEN r ELSE ParseAny(tokens, Tail(edges), [r EXCEPT !.ok = TRUE])

\* gn_zero_plus: as often as it succeeds
RECURSIVE ParseMany(_, _, _, _)
ParseMany(tokens, gn, s, nodes) ==
  LET r == Parse(tokens, gn, s)
  IN IF r.ok THEN ParseMany(tokens, gn, r, nodes \o r.nodes)
     ELSE [r EXCEPT !.ok = TRUE, !.nodes = nodes]

Parse(tokens, gn, s) ==
  LET prod == IF gn.op = "production" THEN gn.name ELSE NoName
      node == IF prod = NoName THEN gn ELSE graph[prod].node
      result ==
        CASE node.op = "and" -> ParseAll(tokens, node.edges, s, <<>>)
          [] node.op = "or" -> ParseAny(tokens, node.edges, s)
          [] node.op = "zero_or_one" -> [Parse(tokens, node.edges[1], s) EXCEPT !.ok = TRUE]
          [] node.op = "zero_plus" -> ParseMany(tokens, node.edges[1], s, <<>>)
  IN IF node.op = "terminal" THEN ParseTerminal(tokens, node.name, s)
     ELSE IF result.ok THEN Succeed(node.op, prod, result) ELSE Fail(s, result)

\* parse() of an input, which scan() ends with <eof>: where it stands at the end.
\* The iterators of the state were made when the queue was empty; they are on its
\* first token now.
EOF == "<eof>"

ParseInput(input) ==
  LET tokens == Append(input, EOF)
      r == Parse(tokens, [op |-> "production", name |-> Root], State(1, 1, 1, TRUE, <<>>))
  IN [r EXCEPT !.ok = r.ok /\ tokens[r.lastOK] = EOF]

-------------------------------------------------------------------------------
(* Properties *)

\* Where a node may end that begins at token i, without any state: the first
\* alternative that matches, and as many repetitions as match.
RECURSIVE End(_, _, _)
EndAll(tokens, edges, i) ==
  FoldLeft(LAMBDA at, gn : IF at = 0 THEN 0 ELSE End(tokens, gn, at), i, edges)
EndAny(tokens, edges, i) ==
  LET ends == SelectSeq([e \in DOMAIN edges |-> End(tokens, edges[e], i)], LAMBDA at : at # 0)
  IN IF ends = <<>> THEN 0 ELSE ends[1]
End(tokens, gn, i) ==
  LET node == IF gn.op = "production" THEN graph[gn.name].node ELSE gn
  IN CASE node.op = "terminal" -> IF tokens[i] = node.name THEN i + 1 ELSE 0
       [] node.op = "and" -> EndAll(tokens, node.edges, i)
       [] node.op = "or" -> EndAny(tokens, node.edges, i)
       [] OTHER -> LET at == End(tokens, node.edges[1], i)
                   IN IF at = 0 THEN i
                      ELSE IF node.op = "zero_or_one" THEN at ELSE End(tokens, node, at)

\* whether a node may match nothing
RECURSIVE Nullable(_)
Nullable(gn) ==
  CASE gn.op \in {"terminal", "production"} -> FALSE
    [] gn.op = "and" -> \A e \in DOMAIN gn.edges : Nullable(gn.edges[e])
    [] gn.op = "or" -> \E e \in DOMAIN gn.edges : Nullable(gn.edges[e])
    [] OTHER -> TRUE

\* no { } around what may match nothing: parse() would not come out of it
RECURSIVE Repeatable(_)
Repeatable(gn) ==
  \/ gn.op \in {"terminal", "production"}
  \/ /\ gn.op = "zero_plus" => ~Nullable(gn.edges[1])
     /\ \A e \in DOMAIN gn.edges : Repeatable(gn.edges[e])

\* the tokens at the ends of a parse tree, from left to right
RECURSIVE Yield(_)
Yield(node) ==
  IF node.token # NoName THEN <<node.token>>
  ELSE FlattenSeq([k \in DOMAIN node.kids |-> Yield(node.kids[k])])

Inputs == UNION {[1..n -> Terminals] : n \in 0..MaxInput}

\* However often the parser has backed out of an alternative, an option or a
\* repetition, it accepts the inputs that the compiled grammar matches to their end,
\* and no others; the tree it returns has the input's tokens at its ends, in order,
\* and none of what it tried in vain; and the token that a ParseEx shows is one that
\* was looked at.
ParserExact ==
  CompileOK /\ Repeatable(graph[Root].node) =>
    \A input \in Inputs :
      LET tokens == Append(input, EOF)
          r == ParseInput(input)
      IN /\ r.ok <=> End(tokens, graph[Root].node, 1) = Len(tokens)
         /\ r.ok => Len(r.nodes) = 1 /\ Yield(r.nodes[1]) = input
         /\ r.last \in 1..Len(tokens)

===============================================================================
