------------------------------- MODULE BBcodeParser ------------------------------
(***************************************************************************)
(* BBcodeParser::parse() (ust/BBcodeParser.cpp): the tokens of a text with *)
(* [tags] are taken one after the other; what is open is kept in a list of *)
(* tokens, an end tag replaces everything from its start tag on by one     *)
(* text token with the markup, and what does not fit its place, or is not  *)
(* ended, is shown as it was written.                                      *)
(*                                                                         *)
(* A token is its kind and its place in the input: white space, a line     *)
(* break, text, a start tag or an end tag.  What is written is a sequence  *)
(* of pairs, too: an element's begin and end, the text of a token, a tag   *)
(* in brackets.  Names are in lower case; how tokenize() finds them, the   *)
(* emoticons and the indentation are left out.                             *)
(***************************************************************************)
EXTENDS Naturals, Sequences, SequencesExt

CONSTANTS
  Tags,         \* _tags: by name, the context, and whether it is verbatim, isolated,
                \* and has a parameter that it cannot use
  Item,         \* the name of a list item: [*], [li]
  Pieces,       \* what the inputs are put together from: sequences of kinds
  MaxPieces     \* bound: pieces in an input

VARIABLES given,    \* the kinds of the input's tokens
          tokens,   \* the tokens that are left
          list,     \* tokens, and text tokens with markup in it
          context   \* the innermost open element's

bbcodeVars == <<given, tokens, list, context>>

Contexts  == {"block", "inline", "list", "list_item"}
NoContext == "no context"     \* any other value of an uninitialised one

Start(name) == <<"tag", name>>
End(name)   == <<"endtag", name>>
Text == <<"text", "">>
WS   == <<"ws", "">>
NL   == <<"nl", "">>

Tokens(kinds) == [i \in DOMAIN kinds |-> [id |-> kinds[i][1], name |-> kinds[i][2], at |-> i, out |-> <<>>]]

Inputs ==
  {FlattenSeq(s) : s \in UNION {[1..n -> Pieces] : n \in 0..MaxPieces}}

Init ==
  /\ given \in Inputs
  /\ tokens = Tokens(given)
  /\ list = <<>>
  /\ context = "block"

-------------------------------------------------------------------------------
(* What is written *)

Break    == <<"<br/>", 0>>
NewLine  == <<"newline", 0>>
Space    == <<"space", 0>>
Begins(tk)  == <<"begin", tk.at>>
Ends(tk)    == <<"end", tk.at>>
Bracket(tk) == <<"bracket", tk.at>>
Stray(tk)   == <<"stray", tk.at>>

\* toString()
Shows(tk) ==
  CASE tk.id = "text" -> <<<<"text", tk.at>>>>
    [] tk.id = "ws"   -> <<Space>>
    [] tk.id = "nl"   -> <<Break, NewLine>>
    [] OTHER          -> <<Bracket(tk)>>

Written(tk, out) == [tk EXCEPT !.id = "text", !.out = out]

-------------------------------------------------------------------------------
(* Helpers *)

\* checkContext()
CheckContext(child, parent) ==
  CASE parent = "block"     -> child \in {"block", "inline", "list"}
    [] parent = "inline"    -> child = "inline"
    [] parent = "list"      -> child = "list_item"
    [] parent = "list_item" -> child \in {"inline", "list"}

\* removeWShead() and removeWStail()
WithoutWShead(s) == IF s # <<>> /\ Head(s).id = "ws" THEN Tail(s) ELSE s
WithoutWStail(s) == IF s # <<>> /\ Last(s).id = "ws" THEN Front(s) ELSE s

OpenTags(l) == {i \in DOMAIN l : l[i].id = "tag"}
LastOpen(l) == CHOOSE i \in OpenTags(l) : \A j \in OpenTags(l) : j <= i

\* mutant: the list's last tag only
FindContextLast(l) ==
  IF l # <<>> /\ Last(l).id = "tag" THEN Tags[Last(l).name].context ELSE "block"

\* findContext()
FindContext(l) ==
  IF OpenTags(l) = {} THEN "block" ELSE Tags[l[LastOpen(l)].name].context

\* BBcodeTag::process(): the markup, or fallback()
Markup(tk, out, parent) ==
  LET tag == Tags[tk.name]
  IN IF ~CheckContext(tag.context, parent) \/ tag.badParam
     THEN IF tag.isolated THEN <<Bracket(tk)>> ELSE <<Bracket(tk)>> \o out \o <<Bracket(tk)>>
     ELSE IF tag.isolated THEN <<Begins(tk)>> ELSE <<Begins(tk)>> \o out \o <<Ends(tk)>>

\* processTag() of the start tag at i: a list item loses a line break at its end
ProcessStartTag(l, i) ==
  LET tk == l[i]
      leadingNL == i < Len(l) /\ l[i + 1].id = "nl"
      parts == [j \in 1..(Len(l) - i) |->
                  IF j = 1 /\ leadingNL THEN <<NewLine>> ELSE l[i + j].out]
      text == FlattenSeq(parts)
      addNL == Tags[tk.name].context = "list_item"
               /\ Len(text) >= 2 /\ SubSeq(text, Len(text) - 1, Len(text)) = <<Break, NewLine>>
      inner == IF ~addNL THEN text
               ELSE SubSeq(text, 1, Len(text) - 2) \o (IF leadingNL THEN <<NewLine>> ELSE <<>>)
      rest == SubSeq(l, 1, i - 1)
      parent == FindContext(rest)
      out == Markup(tk, inner, parent) \o (IF addNL THEN <<NewLine>> ELSE <<>>)
  IN [list |-> Append(rest, Written(tk, out)), contexts |-> {parent}]

\* processTag() of a name: its start tag must be the last open one; if it is not, the
\* context that is returned was never set
ProcessTag(l, name, tk) ==
  IF OpenTags(l) # {} /\ l[LastOpen(l)].name = name
  THEN ProcessStartTag(l, LastOpen(l))
  ELSE [list |-> Append(l, Written(tk, <<Stray(tk)>>)),
        contexts |-> Contexts \cup {NoContext}]

\* a list item is closed by the next one, and by its list's end tag
AutoClose(closes, l, tk) ==
  IF context = "list_item" /\ closes THEN ProcessTag(l, Item, tk)
  ELSE [list |-> l, contexts |-> {context}]

-------------------------------------------------------------------------------
(* parse(): the next token *)

Next1 == Head(tokens)

TakeText ==
  /\ tokens # <<>> /\ Next1.id \in {"text", "ws"}
  /\ tokens' = Tail(tokens)
  /\ list' = Append(list, [Next1 EXCEPT !.out = Shows(Next1)])
  /\ UNCHANGED <<given, context>>

TakeNL ==
  /\ tokens # <<>> /\ Next1.id = "nl"
  /\ tokens' = WithoutWShead(Tail(tokens))
  /\ list' = Append(WithoutWStail(list), [Next1 EXCEPT !.out = Shows(Next1)])
  /\ UNCHANGED <<given, context>>

\* the tokens up to a verbatim tag's end tag, or to the end of the input
VerbatimEnd(s, name) ==
  LET ends == {i \in DOMAIN s : s[i].id = "endtag" /\ s[i].name = name}
  IN IF ends = {} THEN Len(s) + 1 ELSE CHOOSE i \in ends : \A j \in ends : i <= j

Verbatim(s) ==
  FlattenSeq([i \in DOMAIN s |-> IF i = 1 /\ s[i].id = "nl" THEN <<NewLine>> ELSE Shows(s[i])])

TakeTag ==
  /\ tokens # <<>> /\ Next1.id = "tag"
  /\ LET tag == Tags[Next1.name]
         left == WithoutWShead(Tail(tokens))
         closed == AutoClose(tag.context = "list_item", list, Next1)
         end == VerbatimEnd(left, Next1.name)
     IN \E parent \in closed.contexts :
          IF tag.isolated \/ tag.verbatim
          THEN /\ parent # NoContext     \* checkContext() would call ABORT()
               /\ list' = Append(closed.list, Written(Next1, Markup(Next1,
                            IF tag.verbatim THEN Verbatim(SubSeq(left, 1, end - 1)) ELSE <<>>, parent)))
               /\ tokens' = IF tag.verbatim THEN SubSeq(left, end + 1, Len(left)) ELSE left
               /\ context' = parent
          ELSE /\ list' = Append(closed.list, Next1)
               /\ tokens' = left
               /\ context' = tag.context
  /\ UNCHANGED given

\* [/*] is ignored
TakeEndTag ==
  /\ tokens # <<>> /\ Next1.id = "endtag"
  /\ tokens' = Tail(tokens)
  /\ LET before == WithoutWStail(list)
         closed == AutoClose(Next1.name = "list", before, Next1)
         ended == ProcessTag(closed.list, Next1.name, Next1)
     IN IF Next1.name = Item THEN list' = before /\ UNCHANGED context
        ELSE list' = ended.list /\ context' \in ended.contexts
  /\ UNCHANGED given

Next == TakeText \/ TakeNL \/ TakeTag \/ TakeEndTag

Spec == Init /\ [][Next]_bbcodeVars

\* the output, when no token is left
Output == FlattenSeq([i \in DOMAIN list |-> IF list[i].id = "tag" THEN <<Bracket(list[i])>> ELSE list[i].out])

-------------------------------------------------------------------------------
(* Properties *)

TextPlaces(s) == SelectSeq([i \in DOMAIN s |-> IF s[i] = Text THEN i ELSE 0], LAMBDA i : i # 0)
Shown(s) == [i \in DOMAIN s |-> s[i][2]]
IsText(symbol) == symbol[1] = "text"

Opens(symbol)  == symbol[1] = "begin" /\ ~Tags[given[symbol[2]][2]].isolated
Closes(symbol) == symbol[1] = "end"

\* whether every element ends after those that begin in it; open is a stack of them
Nested(s) ==
  LET step(open, symbol) ==
        IF Opens(symbol) THEN Append(open, symbol[2])
        ELSE IF ~Closes(symbol) THEN open
        ELSE IF open # <<>> /\ Last(open) = symbol[2] THEN Front(open) ELSE Append(open, 0)
  IN FoldLeft(step, <<>>, s) = <<>>

\* What the input means if every element in it is ended, and is where it may be: the
\* content up to an end tag, or to the next list item, without white space.
RECURSIVE Content(_, _)
Content(s, in) ==
  LET stop == [ok |-> TRUE, out |-> <<>>, rest |-> s]
      then(out, rest) == LET c == Content(rest, in) IN [c EXCEPT !.out = out \o @]
      tk == Head(s)
      tag == Tags[tk.name]
      left == Tail(s)
      inner == Content(left, tag.context)
      ended == /\ inner.ok /\ inner.rest # <<>>
               /\ \/ Head(inner.rest).id = "endtag"
                     /\ Head(inner.rest).name = (IF tk.name = Item THEN "list" ELSE tk.name)
                  \/ tk.name = Item /\ Head(inner.rest).name = Item
      after == IF tk.name = Item THEN inner.rest ELSE Tail(inner.rest)
  IN CASE s = <<>> -> stop
       [] s # <<>> /\ tk.id \in {"ws", "nl"} -> Content(left, in)
       [] s # <<>> /\ tk.id = "text" -> then(Shows(tk), left)
       [] s # <<>> /\ tk.id = "endtag" /\ tk.name = Item -> Content(left, in)
       [] s # <<>> /\ (tk.id = "endtag" \/ (tk.name = Item /\ in = "list_item")) -> stop
       [] OTHER ->
            IF ~CheckContext(tag.context, in) \/ tag.badParam \/ tag.verbatim THEN [stop EXCEPT !.ok = FALSE]
            ELSE IF tag.isolated THEN then(<<Begins(tk)>>, left)
            ELSE IF ~ended THEN [stop EXCEPT !.ok = FALSE]
            ELSE then(<<Begins(tk)>> \o inner.out \o <<Ends(tk)>>, after)

\* whether an end tag without a start tag is in the list
HasStray == \E i \in DOMAIN list : \E j \in DOMAIN list[i].out : list[i].out[j][1] = "stray"

\* Whatever tags are missing, stray, or where they may not be, each text of the input
\* is shown once and in its place, and elements are nested; while no end tag was
\* stray, the context is that of the innermost open element; and an input in which
\* every element is ended and in its place becomes these elements.
MarkupExact ==
  /\ tokens = <<>> =>
       LET meaning == Content(Tokens(given), "block")
       IN /\ Shown(SelectSeq(Output, IsText)) = TextPlaces(given)
          /\ Nested(Output)
          /\ (meaning.ok /\ meaning.rest = <<>>) =>
               SelectSeq(Output, LAMBDA s : s \notin {Break, NewLine, Space}) = meaning.out
  /\ ~HasStray => context = FindContext(list)

===============================================================================
