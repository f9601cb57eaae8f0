-------------------------------- MODULE SkipList --------------------------------
(***************************************************************************)
(* utl::SkipList and its iterator (ucc/SkipList, SkipListNode, SkipListIt):*)
(* a list in the order of the keys, and above it, level by level, shorter  *)
(* lists of some of its nodes.  A node's height comes from a counter, whose*)
(* trailing zeros it is.                                                   *)
(*                                                                         *)
(* There are Copies objects of each of NumKeys keys.  Addresses matter only*)
(* as what is equal or not: a new node takes the least free one of those   *)
(* with its key's numbers.  Left out are the calls that the code breaks on:*)
(* add() of a duplicate to a set at a height above 0, findLastIt() of a key*)
(* that is not there, steps before the first object, and size(), which     *)
(* add() and insert() never count up.                                      *)
(***************************************************************************)
EXTENDS Naturals, Sequences, FiniteSets

Ext == INSTANCE SequencesExt

CONSTANTS NumKeys, Copies,
          MaxLevel,             \* _maxLevel
          HeadNode, TailNode,   \* _head, _tail
          Nil                   \* no node

Objects == 0..(NumKeys * Copies - 1)
Keys    == 0..(NumKeys - 1)
KeyOf(o) == o \div Copies

Nodes  == Objects               \* the addresses of the others, as many as are needed
Levels == 0..MaxLevel

VARIABLES nxt,          \* _next: level -> node -> node
          prev,         \* _prev
          obj,          \* _object; Nil in an address that is free
          level,        \* _level
          counter,      \* _counter
          multiSet,     \* isMultiSet()
          it,           \* the node that the caller's iterator is at, or Nil
          update        \* the iterator's _update while it is where a search left it, or <<>>

skipVars == <<nxt, prev, obj, level, counter, multiSet, it, update>>

EmptyNxt  == [i \in Levels |-> [n \in Nodes \cup {HeadNode} |-> IF n = HeadNode THEN TailNode ELSE Nil]]
EmptyPrev == [n \in Nodes \cup {TailNode} |-> IF n = TailNode THEN HeadNode ELSE Nil]
NoObjects == [n \in Nodes |-> Nil]

Init ==
  /\ nxt = EmptyNxt /\ prev = EmptyPrev /\ obj = NoObjects /\ level = 0
  /\ counter = 1
  /\ multiSet \in BOOLEAN
  /\ it = Nil /\ update = <<>>

-------------------------------------------------------------------------------
(* Searches *)

\* the key of the tail's MaxObject is above all others
KeyAt(n) == IF n = TailNode THEN NumKeys ELSE KeyOf(obj[n])

\* along level i from a node that is below k, the last that is
LastBelow(i, from, k) ==
  LET walk[n \in Nodes \cup {HeadNode}] == IF KeyAt(nxt[i][n]) < k THEN walk[nxt[i][n]] ELSE n
  IN walk[from]

\* findNode() with find_ip: at every level the last node below k
Preds(k) ==
  LET at[i \in 0..level] == LastBelow(i, IF i = level THEN HeadNode ELSE at[i + 1], k)
  IN [i \in 0..level |-> at[i]]

NotBelow(k) == nxt[0][Preds(k)[0]]

\* ... with find_first, as findIt() makes an iterator of it
FirstMatch(k) == IF KeyAt(NotBelow(k)) = k THEN NotBelow(k) ELSE TailNode

\* ... with find_last: the last node not above k
LastMatch(k) == Preds(k + 1)[0]

-------------------------------------------------------------------------------
(* Adding *)

\* the height of the next node
Height == CHOOSE h \in Levels : /\ (counter + 1) % (2^h) = 0
                                /\ h = MaxLevel \/ (counter + 1) % (2^(h + 1)) # 0

Counted == counter' = IF counter + 1 = 2^MaxLevel THEN 0 ELSE counter + 1

Fresh(o) == \A n \in Nodes : obj[n] # o
Free(n) == obj[n] = Nil
NewNode(o) ==
  CHOOSE n \in Nodes : /\ Free(n) /\ KeyOf(n) = KeyOf(o)
                       /\ \A m \in Nodes : Free(m) /\ KeyOf(m) = KeyOf(o) => n <= m

\* a node for o behind the nodes of before; at levels that were not in use, behind the head
LinkIn(o, before) ==
  LET pred(i) == IF i \in DOMAIN before THEN before[i] ELSE HeadNode
      n == NewNode(o)
  IN /\ nxt' = [i \in Levels |->
                  IF i > Height THEN nxt[i]
                  ELSE [nxt[i] EXCEPT ![n] = nxt[i][pred(i)], ![pred(i)] = n]]
     /\ prev' = [prev EXCEPT ![n] = before[0], ![nxt[0][before[0]]] = n]
     /\ obj' = [obj EXCEPT ![n] = o]
     /\ level' = IF Height > level THEN Height ELSE level

Add(o) ==
  /\ Fresh(o)
  /\ IF multiSet \/ KeyAt(NotBelow(KeyOf(o))) # KeyOf(o)
     THEN LinkIn(o, Preds(KeyOf(o)))
     ELSE Height = 0 /\ UNCHANGED <<nxt, prev, obj, level>>
  /\ Counted
  /\ update' = <<>>
  /\ UNCHANGED <<multiSet, it>>

\* insert() where a search for a place has left its iterator
Insert(o) ==
  /\ update # <<>> /\ Fresh(o)
  /\ LET below == IF multiSet THEN KeyOf(o) + 1 ELSE KeyOf(o)
         above == IF multiSet THEN KeyOf(o) ELSE KeyOf(o) + 1
     IN /\ update[0] # HeadNode => KeyAt(update[0]) < below
        /\ KeyAt(it) >= above
  /\ LinkIn(o, update)
  /\ Counted
  /\ update' = <<>>
  /\ UNCHANGED <<multiSet, it>>

-------------------------------------------------------------------------------
(* Removing *)

\* SkipListNode::remove(): the levels at which n is taken out
RemoveLevels(n, before) ==
  {i \in 0..level : \A j \in 0..i : nxt[j][before[j]] = n}

\* removeNode() of n, the first node that is not below its key, when the objects
\* are those of objs
RemoveNode(n, before, objs) ==
  LET out == RemoveLevels(n, before)
      left == [i \in Levels |->
                 IF i \in out THEN [nxt[i] EXCEPT ![before[i]] = nxt[i][n], ![n] = Nil]
                 ELSE [nxt[i] EXCEPT ![n] = Nil]]
      inUse == {i \in 1..level : left[i][HeadNode] # TailNode}
  IN /\ nxt' = left
     /\ prev' = [prev EXCEPT ![nxt[0][n]] = prev[n], ![n] = Nil]
     /\ obj' = [objs EXCEPT ![n] = Nil]
     /\ level' = IF inUse = {} THEN 0 ELSE CHOOSE i \in inUse : \A j \in inUse : j <= i

\* an iterator on the node that goes is not valid any more
Remove(k) ==
  /\ KeyAt(NotBelow(k)) = k
  /\ RemoveNode(NotBelow(k), Preds(k), obj)
  /\ it' = IF it = NotBelow(k) THEN Nil ELSE it
  /\ update' = <<>>
  /\ UNCHANGED <<counter, multiSet>>

\* mutant: the first node that is found for the object goes, with its own
RemoveItFound ==
  /\ it \in Nodes
  /\ RemoveNode(NotBelow(KeyAt(it)), Preds(KeyAt(it)), obj)
  /\ it' = nxt[0][it]
  /\ update' = <<>>
  /\ UNCHANGED <<counter, multiSet>>

\* removeIt(): the first node with an equal object gives its own away, and goes
RemoveIt ==
  /\ it \in Nodes
  /\ LET k == KeyAt(it)
         first == NotBelow(k)
     IN RemoveNode(first, Preds(k), [obj EXCEPT ![it] = obj[first]])
  /\ it' = nxt[0][it]
  /\ update' = <<>>
  /\ UNCHANGED <<counter, multiSet>>

Clear ==
  /\ nxt' = EmptyNxt /\ prev' = EmptyPrev /\ obj' = NoObjects /\ level' = 0
  /\ it' = Nil /\ update' = <<>>
  /\ UNCHANGED <<counter, multiSet>>

-------------------------------------------------------------------------------
(* The iterator *)

Seek(n, links) ==
  /\ it' = n /\ update' = links
  /\ UNCHANGED <<nxt, prev, obj, level, counter, multiSet>>

Begin == Seek(nxt[0][HeadNode], <<>>)
SeekEnd == Seek(TailNode, <<>>)
FindFirst(k) == Seek(FirstMatch(k), <<>>)
FindLast(k) == KeyAt(NotBelow(k)) = k /\ Seek(LastMatch(k), <<>>)
FindInsertion(k) == Seek(NotBelow(k), Preds(k))
Forward == it \in Nodes /\ Seek(nxt[0][it], <<>>)
Reverse == it # Nil /\ prev[it] # HeadNode /\ Seek(prev[it], <<>>)

Next ==
  \/ \E o \in Objects : Add(o) \/ Insert(o)
  \/ \E k \in Keys : Remove(k) \/ FindFirst(k) \/ FindLast(k) \/ FindInsertion(k)
  \/ RemoveIt \/ Clear \/ Begin \/ SeekEnd \/ Forward \/ Reverse

Spec == Init /\ [][Next]_skipVars

-------------------------------------------------------------------------------
(* Properties *)

\* The nodes of the list of level i, and the tail.
Chain(i) ==
  LET from[n \in Nodes \cup {TailNode}] == IF n = TailNode THEN <<n>> ELSE <<n>> \o from[nxt[i][n]]
  IN from[nxt[i][HeadNode]]

Contents == LET s == Chain(0) IN [i \in 1..(Len(s) - 1) |-> obj[s[i]]]
Position == IF it = Nil THEN 0 ELSE LET s == Chain(0) IN CHOOSE i \in DOMAIN s : s[i] = it

Sorted == INSTANCE SortedSequence WITH contents <- Contents, position <- Position

\* Each list is a part of the one below, in the same order, no node in it is free, and
\* _prev is _next read backwards: a removal unlinks its node at every level it is in.
LevelsLinked ==
  /\ \A i \in Levels \ {0} : Chain(i) = SelectSeq(Chain(i - 1), LAMBDA n : n \in Ext!Range(Chain(i)))
  /\ \A i \in DOMAIN Contents : Contents[i] # Nil
  /\ LET s == <<HeadNode>> \o Chain(0) IN \A i \in 2..Len(s) : prev[s[i]] = s[i - 1]

\* The list is the sorted sequence it stands for: searches that start at the top
\* level find what a search of the lowest would, an object goes before its equals,
\* a removed node leaves no link to it at any level, and removeIt(), which removes
\* another node than the iterator's, removes the iterator's object.
ImplementsSortedSequence == Sorted!Spec /\ []LevelsLinked

===============================================================================
