-------------------------------- MODULE MCLibrary --------------------------------
(***************************************************************************)
(* The collections and the other small components of the library, which    *)
(* share nothing, in one model: a behaviour is one of the component that   *)
(* the first state chooses: s0..s9 are its variables, in the order of its  *)
(* module, and then those of what it stands for.                           *)
(***************************************************************************)
EXTENDS Naturals

CONSTANTS Leaf, MaxObject, Null,
          Components,   \* which of the components are looked at
          BlockTags,    \* the tags of a block sort, 65536 in the code
          BlockPieces   \* the pieces that a block is written in

VARIABLES component, s0, s1, s2, s3, s4, s5, s6, s7, s8, s9

libraryVars == <<component, s0, s1, s2, s3, s4, s5, s6, s7, s8, s9>>

\* nine different objects: ten nodes with the sentinel, enough for every turn
\* of both fix-ups, the climb by two levels included
Shape == INSTANCE RBtree WITH
  NumKeys <- 9, Copies <- 1,
  heap <- s0, root <- s1, items <- s2, multiSet <- s3, it <- s4

\* two objects of each of three keys
Tree == INSTANCE RBtree WITH
  NumKeys <- 3, Copies <- 2,
  heap <- s0, root <- s1, items <- s2, multiSet <- s3, it <- s4

\* the sequence that the tree stands for, computed once in every state
TreeView == s5 = Tree!Contents /\ s6 = Tree!Position
TreeMoves == s5' = Tree!Contents' /\ s6' = Tree!Position'
SortedTree == INSTANCE SortedSequence WITH
  NumKeys <- 3, Copies <- 2, contents <- s5, position <- s6, multiSet <- s3

\* two objects of each of two keys, in lists of three levels
Skip == INSTANCE SkipList WITH
  NumKeys <- 2, Copies <- 2, MaxLevel <- 2,
  HeadNode <- Leaf, TailNode <- MaxObject, Nil <- Null,
  nxt <- s0, prev <- s1, obj <- s2, level <- s3, counter <- s4, multiSet <- s5,
  it <- s6, update <- s7

SkipView == s8 = Skip!Contents /\ s9 = Skip!Position
SkipMoves == s8' = Skip!Contents' /\ s9' = Skip!Position'
SortedSkip == INSTANCE SortedSequence WITH
  NumKeys <- 2, Copies <- 2, contents <- s8, position <- s9, multiSet <- s5

\* two objects of each of four keys, in tables of two and then of five slots
Hash == INSTANCE Hashtable WITH
  NumKeys <- 4, Copies <- 2, Primes <- {2, 5}, MaxLF <- 150,
  slots <- s0, limit <- s1, items <- s2, multiSet <- s3, place <- s4

\* seven different objects: a heap of three full rows
Tops == INSTANCE Heap WITH
  NumKeys <- 7, Copies <- 1,
  array <- s0, items <- s1, multiSet <- s2, popped <- s3

\* two objects of each of two keys; the first allocation is outgrown once
Cells == INSTANCE Array WITH
  NumKeys <- 2, Copies <- 2, MaxSize <- 4, FirstAlloc <- 2, Junk <- Leaf, NoObject <- Null,
  array <- s0, items <- s1, firstNull <- s2, keepSorted <- s3, multiSet <- s4, inside <- s5

Chain == INSTANCE List WITH
  NumKeys <- 2, Copies <- 2, Back <- MaxObject, Nil <- Null,
  next <- s0, prev <- s1, front <- s2, items <- s3, keepSorted <- s4, multiSet <- s5, it <- s6

\* two objects of each of three keys, and up to three places
Cache == INSTANCE ObjectCache WITH
  NumKeys <- 3, Copies <- 2, MaxSize <- 3, Back <- MaxObject, Nil <- Null,
  table <- s0, next <- s1, prev <- s2, front <- s3, items <- s4, it <- s5,
  size <- s6, frozen <- s7, lru <- s8

\* two kinds of spans of 0..5
Store == INSTANCE Spans WITH
  MaxEnd <- 5, Likes <- {1, 2}, MaxTotal <- 8,
  spans <- s0, bySize <- s1, totalSize <- s2, miscounted <- s3, store <- s4

\* two requests in five records, complete or not
FastCGI == INSTANCE FastCGIserver WITH
  OutSize <- 2, MaxRecords <- 5,
  Records <- {<<"begin", 1, <<"keep">>>>, <<"begin", 2, <<>>>>, <<"begin", 1, <<"filter">>>>,
              <<"params", 1, <<"p">>>>, <<"stdin", 1, <<"a", "b">>>>, <<"stdin", 2, <<"c">>>>,
              <<"stdin", 1, <<>>>>, <<"stdin", 2, <<>>>>},
  received <- s0, serving <- s1, oBuf <- s2, sent <- s3, state <- s4

\* the window is passed almost twice, and the look-ahead buffer more than thrice
LZ == INSTANCE LZencoder WITH
  Bytes <- {0, 1}, MaxFed <- 13, WindSize <- 8, LookSize <- 4, FarDist <- 2,
  GoodLen <- 3, MaxLazyLen <- 3, NiceLen <- 4, MaxChain <- 3, Unused <- Null,
  fed <- s0, enc <- s1, sent <- s2, closed <- s3

\* the frequencies are halved every few symbols
Huffman == INSTANCE HuffmanEncoder WITH
  NumSymbols <- 4, IncLimit <- 9, MaxFreq <- 6, tree <- s0

\* words of seven bits; the counts are halved at every fourth symbol
Arithmetic == INSTANCE ArithmeticEncoder WITH
  NumSymbols <- 4, Inc <- 3, IncLimit <- 14, WordBits <- 7, MaxSymbols <- 8,
  message <- s0, enc <- s1, ctx <- s2, bits <- s3

\* bytes of two bits: runs of up to six, twice in a message
RunLength == INSTANCE RLencoder WITH
  Bytes <- {0, 3}, MaxByte <- 3, MinRunLen <- 3, BufSize <- 8, MaxFed <- 12,
  fed <- s0, oBuf <- s1, sent <- s2, closed <- s3

\* three byte values: short blocks and long ones, with and without a repetition
BWT == INSTANCE BWTencoder WITH
  Radix <- 3, MaxPieces <- BlockPieces, LongBlock <- 4, MaxTag <- BlockTags,
  Pieces <- {<<0>>, <<1>>, <<1, 2, 0>>, <<1, 2, 0, 0>>},
  block <- s0, pieces <- s1, order <- s2

\* pieces that end before, at and behind the end of a block, of a group of digits
\* and of the length's lower word
Filter == INSTANCE Encoder WITH
  PieceSizes <- {0, 1, 3, 4, 6, 9}, MaxPieces <- 4, Block <- 4, WordBits <- 5, Torn <- Null,
  pieces <- s0

\* arrays of four, eight and more places; the comma ends a token and escapes
Characters == INSTANCE String WITH
  Chars <- {"a", "A", "_", ","}, Upper <- [a |-> "A"], Space <- "_", Delim <- ",",
  Escape <- ",", Lent <- <<"a", "_">>, Grain <- 4, MaxText <- 4, Nul <- Null, Junk <- "?",
  array <- s0, length <- s1, text <- s2

\* patterns of four pieces, matched at every place of every text of three letters
Pattern == INSTANCE Regex WITH
  Letters <- {"a", "b"}, Class <- {"b"}, MaxPieces <- 4, MaxText <- 3,
  Pieces <- {<<"a">>, <<"b">>, <<"*">>, <<"?">>, <<"+">>, <<"|">>, <<"(", "a", "|">>,
             <<"b", ")">>, <<"$">>, <<"^">>, <<".">>, <<"[">>},
  pattern <- s0, pieces <- s1

\* every first production of four pieces, parsed from every input of three tokens
Parser == INSTANCE RDparser WITH
  Terminals <- {"a", "b"}, Unknown <- "?", MaxPieces <- 4, MaxInput <- 3,
  Second <- [name |-> "T", text |-> <<"a", "|", "b", "[", "T", "]", "a">>],
  Pieces <- {<<"a">>, <<"b">>, <<"T">>, <<"?">>, <<"|">>, <<"[">>, <<"{", "b">>,
             <<"]", "a">>, <<"}">>},
  rule <- s0, pieces <- s1, graph <- s2

\* a tag of every kind, in every input of four pieces
Element(context) ==
  [context |-> context, verbatim |-> FALSE, isolated |-> FALSE, badParam |-> FALSE]
Elements ==
  [b |-> Element("inline"), quote |-> Element("block"),
   list |-> Element("list"), item |-> Element("list_item"),
   br |-> [Element("inline") EXCEPT !.isolated = TRUE],
   pre |-> [Element("block") EXCEPT !.verbatim = TRUE],
   size |-> [Element("inline") EXCEPT !.badParam = TRUE]]
Start(name) == <<"tag", name>>
End(name)   == <<"endtag", name>>
Text  == <<"text", "">>
Blank == <<"ws", "">>
Line  == <<"nl", "">>

Markup == INSTANCE BBcodeParser WITH
  Tags <- Elements, Item <- "item", MaxPieces <- 4,
  Pieces <- {<<Text, Blank, Line>>, <<Start("b")>>, <<End("b"), Text>>,
             <<Start("list"), Line, Start("item"), Text>>, <<Line, Start("item"), Blank>>,
             <<End("list")>>, <<Start("quote"), Text>>, <<End("quote")>>,
             <<Start("pre"), Line, Start("br"), End("pre")>>,
             <<Start("size"), Text, End("size"), End("item")>>},
  given <- s0, tokens <- s1, list <- s2, context <- s3

-------------------------------------------------------------------------------

Zero8 == s8 = 0 /\ s9 = 0
Zero7 == s7 = 0 /\ Zero8
Zero6 == s6 = 0 /\ Zero7
Zero5 == s5 = 0 /\ Zero6
Zero4 == s4 = 0 /\ Zero5
Zero3 == s3 = 0 /\ Zero4
Zero2 == s2 = 0 /\ Zero3
Zero1 == s1 = 0 /\ Zero2

Init ==
  /\ component \in Components
  /\ \/ component = "shape" /\ Shape!Init /\ s3 = FALSE /\ Zero5
     \/ component = "tree"  /\ Tree!Init  /\ TreeView /\ Zero7
     \/ component = "skip"  /\ Skip!Init  /\ SkipView
     \/ component = "hash"  /\ Hash!Init  /\ Zero5
     \/ component = "tops"  /\ Tops!Init  /\ Zero4
     \/ component = "cells" /\ Cells!Init /\ Zero6
     \/ component = "chain" /\ Chain!Init /\ Zero7
     \/ component = "cache" /\ Cache!Init /\ s9 = 0
     \/ component = "store" /\ Store!Init /\ Zero5
     \/ component = "fastcgi"    /\ FastCGI!Init    /\ Zero5
     \/ component = "lz"         /\ LZ!Init         /\ Zero4
     \/ component = "huffman"    /\ Huffman!Init    /\ Zero1
     \/ component = "arithmetic" /\ Arithmetic!Init /\ Zero4
     \/ component = "rl"         /\ RunLength!Init  /\ Zero4
     \/ component = "bwt"        /\ BWT!Init        /\ Zero3
     \/ component = "filter"     /\ Filter!FilterInit /\ Zero1
     \/ component = "string"     /\ Characters!Init /\ Zero3
     \/ component = "regex"      /\ Pattern!Init    /\ Zero2
     \/ component = "parser"     /\ Parser!Init     /\ Zero3
     \/ component = "markup"     /\ Markup!Init     /\ Zero4

Keep8 == UNCHANGED <<component, s8, s9>>
Keep7 == UNCHANGED s7 /\ Keep8
Keep6 == UNCHANGED s6 /\ Keep7
Keep5 == UNCHANGED s5 /\ Keep6
Keep4 == UNCHANGED s4 /\ Keep5
Keep3 == UNCHANGED s3 /\ Keep4
Keep2 == UNCHANGED s2 /\ Keep3
Keep1 == UNCHANGED s1 /\ Keep2

ShapeStep == component = "shape" /\ Shape!ShapeNext /\ Keep5
TreeStep  == component = "tree"  /\ Tree!Next  /\ TreeMoves /\ Keep7
SkipStep  == component = "skip"  /\ Skip!Next  /\ SkipMoves /\ UNCHANGED component
HashStep  == component = "hash"  /\ Hash!Next  /\ Keep5
TopsStep  == component = "tops"  /\ Tops!Next  /\ Keep4
CellsStep == component = "cells" /\ Cells!Next /\ Keep6
ChainStep == component = "chain" /\ Chain!Next /\ Keep7
CacheStep == component = "cache" /\ Cache!Next /\ UNCHANGED <<component, s9>>
StoreStep == component = "store" /\ Store!Next /\ Keep5

FastCGIStep    == component = "fastcgi"    /\ FastCGI!Next    /\ Keep5
LZStep         == component = "lz"         /\ LZ!Next         /\ Keep4
HuffmanStep    == component = "huffman"    /\ Huffman!Next    /\ Keep1
ArithmeticStep == component = "arithmetic" /\ Arithmetic!Next /\ Keep4
RunLengthStep  == component = "rl"         /\ RunLength!Next  /\ Keep4
BWTStep        == component = "bwt"        /\ BWT!Next        /\ Keep3
FilterStep     == component = "filter"     /\ Filter!AddPiece /\ Keep1
CharactersStep == component = "string"     /\ Characters!Next /\ Keep3
PatternStep    == component = "regex"      /\ Pattern!Next    /\ Keep2
ParserStep     == component = "parser"     /\ Parser!Next     /\ Keep3
MarkupStep     == component = "markup"     /\ Markup!Next     /\ Keep4

Next ==
  \/ ShapeStep \/ TreeStep \/ SkipStep \/ HashStep \/ TopsStep
  \/ CellsStep \/ ChainStep \/ CacheStep \/ StoreStep
  \/ FastCGIStep \/ LZStep \/ HuffmanStep \/ ArithmeticStep
  \/ RunLengthStep \/ BWTStep \/ FilterStep \/ CharactersStep \/ PatternStep
  \/ ParserStep \/ MarkupStep

Spec == Init /\ [][Next]_libraryVars

-------------------------------------------------------------------------------
(* Properties: those of the modules, each of its component *)

\* RBtreeNode::addFixup() and removeFixup() keep the red/black rules, and
\* BinTreeNode's rotations, swaps and removals leave no half of a link behind:
\* the sentinel that end() stands on stays the last node.
TreeShaped ==
  /\ component = "shape" => Shape!RedBlack /\ Shape!Linked
  /\ component = "tree" => Tree!RedBlack /\ Tree!Linked

\* Read in order, the RBtree is the sorted sequence it stands for: every call does
\* to the tree what it should do to the sequence, searches find the first, the
\* last and the place for a key, and the iterator stays with its object however
\* the nodes under it are rotated, swapped or removed.
TreeIsSorted ==
  /\ component = "tree" => SortedTree!Init
  /\ [][component = "tree" => [SortedTree!Next]_(SortedTree!sortedVars)]_libraryVars

\* The SkipList is the sorted sequence it stands for, whatever the heights of its
\* nodes: searches from the top level find what the lowest list would, a removed
\* node leaves no link to it at any level, and removeIt(), which removes another
\* node than the iterator's, removes the iterator's object.
SkipListIsSorted ==
  /\ component = "skip" => SortedSkip!Init
  /\ [][component = "skip" => [SortedSkip!Next]_(SortedSkip!sortedVars)]_libraryVars
  /\ [](component = "skip" => Skip!LevelsLinked)

\* However its slots are filled, grown and emptied, the Hashtable has the objects
\* that were added and not removed, and one that is a set refuses duplicates; every
\* object is in its slot whatever size the table has grown to, _items counts them,
\* and HashtableIt meets each once, forwards and backwards.
HashtableIsSet ==
  /\ component = "hash" => Hash!Set!Init
  /\ [][component = "hash" => [Hash!Set!Next]_(Hash!Set!objectSetVars)]_libraryVars
  /\ [](component = "hash" => Hash!HashtableWhole)

\* The Heap's first object is its greatest, after removals from the middle, too; and
\* however it is filled, emptied in the middle, closed up, grown and cut, the Array
\* has the objects that were added and not removed, each once, and _firstNull and
\* _items say what is in it.
ArraysWhole ==
  /\ component = "tops" => Tops!HeapOrdered
  /\ component = "cells" => Cells!ArrayWhole

\* Whatever spans are added over one another, removed and allocated, a point belongs
\* to one span and to what was last put there; no two spans that touch could be
\* merged; the tree by size has the same spans; and _totalSize is the size of all,
\* and too large once a span was cut in two.
SpansExact == component = "store" => Store!SpansExact

\* The List's links lead from the front to the sentinel and back, whichever nodes
\* are put in, taken out, moved or sorted, and sort() is stable; and the ObjectCache
\* keeps in its list the objects of its table in the order of their last use, and
\* evicts the one whose last use lies furthest back.
ListSound ==
  /\ [](component = "chain" => Chain!ListWhole)
  /\ [][component = "chain" => Chain!SortStep]_libraryVars
  /\ [](component = "cache" => Cache!CacheIsLRU)

\* A block that BWTencoder has sorted by the tags of its rotations comes back.
BlocksLossless == component = "bwt" => BWT!BWTLossless

\* What the LZ, Huffman, arithmetic, run-length and Burrows-Wheeler encoders write,
\* their decoders read back: both sides rebuild the same window, tree, counts and
\* ranks.  (For run-length coding: messages whose ends the run RLencoder is not about.)
\* What base-64 and the digests make of a stream does not depend on the pieces it
\* comes in.
CodersLossless ==
  /\ component = "lz" => LZ!LZLossless
  /\ component = "huffman" => Huffman!HuffmanLossless
  /\ component = "arithmetic" => Arithmetic!ArithmeticLossless
  /\ component = "rl" => RunLength!RLLosslessInside
  /\ BlocksLossless
  /\ component = "filter" => Filter!EncoderExact

\* A String is its text whatever was done to it, and finds in it what there is to
\* find; Regex finds the match that the pattern, read as a regular expression, prescribes;
\* RDparser accepts what the compiled grammar matches, however often it has backed
\* out of something; BBcodeParser shows every text once, nests the elements, and
\* turns what is well-formed into what it means.  However the records of a FastCGI
\* connection's requests are mixed, each request that does not begin inside another
\* gets one answer, of its own.
ParsersExact ==
  /\ component = "string" => Characters!StringExact /\ Characters!SearchExact
  /\ component = "regex" => Pattern!RegexExact
  /\ component = "parser" => Parser!ParserExact
  /\ component = "markup" => Markup!MarkupExact
  /\ component = "fastcgi" => FastCGI!FastCGIExact

===============================================================================
