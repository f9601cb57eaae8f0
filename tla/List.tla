----------------------------------- MODULE List ----------------------------------
(***************************************************************************)
(* utl::List and its iterator (ucc/List, ListNode, ListIt): a doubly       *)
(* linked list that ends with a node for maxObject.  A node is named by    *)
(* its object <<key, copy>>, the last one is Back.                         *)
(*                                                                         *)
(* addBefore() at the front and moveBefore() of the front leave _front     *)
(* where it was; they are modelled for other nodes.  sort() of more than   *)
(* 16 objects leaves the last node's _prev behind; a sorted list is        *)
(* modelled as insertionSort() leaves it.                                  *)
(***************************************************************************)
EXTENDS Naturals, Sequences, FiniteSets

Ext == INSTANCE SequencesExt

CONSTANTS NumKeys, Copies,
          Back,             \* _back, which holds maxObject
          Nil               \* nullptr

VARIABLES next, prev,       \* _next and _prev of every node, Nil where there is no such node
          front,            \* _front
          items,            \* _items
          keepSorted,       \* isKeptSorted()
          multiSet,         \* isMultiSet()
          it                \* the node that an iterator is on

listVars == <<next, prev, front, items, keepSorted, multiSet, it>>

Objects == (1..NumKeys) \X (1..Copies)
Nodes   == Objects \cup {Back}

Init ==
  /\ next = [n \in Nodes |-> Nil] /\ prev = [n \in Nodes |-> Nil]
  /\ front = Back
  /\ items = 0
  /\ keepSorted \in BOOLEAN /\ multiSet \in BOOLEAN
  /\ it = Back

-------------------------------------------------------------------------------
(* Walking along the links *)

\* the nodes from n on, at most as many as there are
RECURSIVE NodesFrom(_, _)
NodesFrom(n, most) ==
  IF n = Nil \/ most = 0 THEN <<>> ELSE <<n>> \o NodesFrom(next[n], most - 1)

InList == NodesFrom(front, Cardinality(Nodes))
Holds(o) == o \in Ext!Range(InList)

\* the first of the nodes from n on that meets a condition
FirstFrom(n, Is(_)) ==
  LET met == SelectSeq(NodesFrom(n, Cardinality(Nodes)), Is)
  IN IF met = <<>> THEN Back ELSE met[1]

\* linearSearchSorted() for find_ip: the first equal object, or else the first greater one
InsertionPoint(key) == FirstFrom(front, LAMBDA n : n = Back \/ n[1] >= key)

\* findNode(): find_first of linearSearch() and of linearSearchSorted()
FindNode(key) == FirstFrom(front, LAMBDA n : n # Back /\ n[1] = key)

\* find_last
FindLast(key) ==
  LET met == SelectSeq(InList, LAMBDA n : n # Back /\ n[1] = key)
  IN IF met = <<>> THEN Back ELSE met[Len(met)]

-------------------------------------------------------------------------------
(* ListNode, on a record of both links *)

Links == [next |-> next, prev |-> prev]
SetLinks(l) == next' = l.next /\ prev' = l.prev

\* mutant: the node before keeps its link
LinkBeforeOneWay(l, new, n) ==
  [next |-> [l.next EXCEPT ![new] = n],
   prev |-> [l.prev EXCEPT ![new] = l.prev[n], ![n] = new]]

\* addBefore()
LinkBefore(l, new, n) ==
  [next |-> [x \in Nodes |-> IF x = new THEN n
                             ELSE IF x = l.prev[n] THEN new ELSE l.next[x]],
   prev |-> [l.prev EXCEPT ![new] = l.prev[n], ![n] = new]]

\* remove()
Unlink(l, n) ==
  [next |-> [x \in Nodes |-> IF x = n THEN Nil
                             ELSE IF x = l.prev[n] THEN l.next[n] ELSE l.next[x]],
   prev |-> [x \in Nodes |-> IF x = n THEN Nil
                             ELSE IF x = l.next[n] THEN l.prev[n] ELSE l.prev[x]]]

-------------------------------------------------------------------------------
(* Operations *)

Keep == UNCHANGED <<keepSorted, multiSet>>

\* add() of a list that is kept sorted
AddSorted(o) ==
  /\ keepSorted /\ ~Holds(o)
  /\ LET n == InsertionPoint(o[1])
     IN /\ (n # Back /\ n[1] = o[1]) => multiSet
        /\ SetLinks(LinkBefore(Links, o, n))
        /\ front' = IF n = front THEN o ELSE front
  /\ items' = items + 1
  /\ UNCHANGED it /\ Keep

\* pushBack(), and add() otherwise
PushBack(o) ==
  /\ ~keepSorted /\ ~Holds(o)
  /\ multiSet \/ FindNode(o[1]) = Back
  /\ SetLinks(LinkBefore(Links, o, Back))
  /\ front' = IF front = Back THEN o ELSE front
  /\ items' = items + 1
  /\ UNCHANGED it /\ Keep

PushFront(o) ==
  /\ ~keepSorted /\ multiSet /\ ~Holds(o)
  /\ SetLinks(LinkBefore(Links, o, front))
  /\ front' = o
  /\ items' = items + 1
  /\ UNCHANGED it /\ Keep

\* addBefore() and insert(), behind the front
AddBefore(o) ==
  /\ ~keepSorted /\ multiSet /\ ~Holds(o) /\ it # front
  /\ SetLinks(LinkBefore(Links, o, it))
  /\ items' = items + 1
  /\ UNCHANGED <<front, it>> /\ Keep

\* removeNode(); the caller's iterator is on the node x then
TakeOut(n, x) ==
  /\ SetLinks(Unlink(Links, n))
  /\ front' = IF prev'[next[n]] = Nil THEN next[n] ELSE front
  /\ items' = items - 1
  /\ it' = x

RemoveNode(n, x) == TakeOut(n, x) /\ Keep

\* where an iterator is put that was on a removed node
Elsewhere(n) == IF it = n THEN Back ELSE it

Remove(key) ==
  LET n == FindNode(key) IN n # Back /\ RemoveNode(n, Elsewhere(n))

RemoveIt == it # Back /\ RemoveNode(it, next[it])

\* removeFront(), popFront()
RemoveFront == front # Back /\ RemoveNode(front, Elsewhere(front))

\* removeBack(), popBack()
RemoveBack == front # Back /\ RemoveNode(prev[Back], Elsewhere(prev[Back]))

\* moveBefore() of a node that is not the front one
Relink(n, to) ==
  /\ SetLinks(LinkBefore(Unlink(Links, n), n, to))
  /\ front' = IF to = front THEN n ELSE front
  /\ UNCHANGED <<items, it>>

MoveBefore(n, to) ==
  /\ ~keepSorted /\ Holds(n) /\ Holds(to) /\ n \notin {to, front, Back}
  /\ next[n] # to
  /\ Relink(n, to) /\ Keep

\* insertionSort() takes each node from its place and puts it behind the last
\* one before it that is not greater, or else in front of all
RECURSIVE InsertionSort(_, _, _)
InsertionSort(l, cur, first) ==
  IF cur = Back THEN [links |-> l, front |-> first]
  ELSE LET before[n \in Nodes] == IF l.prev[n] = Nil THEN <<n>> ELSE <<n>> \o before[l.prev[n]]
           smaller == SelectSeq(before[l.prev[cur]], LAMBDA n : n[1] <= cur[1])
           out == Unlink(l, cur)
       IN IF smaller = <<>>
          THEN InsertionSort(LinkBefore(out, cur, first), l.next[cur], cur)
          ELSE InsertionSort(LinkBefore(out, cur, out.next[smaller[1]]), l.next[cur], first)

\* sort(), which asks an empty list's sentinel for its next node
Sort ==
  /\ front # Back
  /\ LET s == InsertionSort(Links, next[front], front)
     IN /\ SetLinks([s.links EXCEPT !.prev[s.front] = Nil])
        /\ front' = s.front
  /\ UNCHANGED <<items, it>> /\ Keep

Empty ==
  /\ next' = [n \in Nodes |-> Nil] /\ prev' = [n \in Nodes |-> Nil]
  /\ front' = Back
  /\ items' = 0
  /\ it' = Back

Clear == Empty /\ Keep

\* the iterator: begin(), end(), the searches, forward() and reverse()
GoTo(n) == it' = n /\ UNCHANGED <<next, prev, front, items>>
Seek(n) == GoTo(n) /\ Keep
Begin == Seek(front)
Forward == Seek(IF next[it] = Nil THEN it ELSE next[it])
Reverse == Seek(IF prev[it] = Nil THEN it ELSE prev[it])

Next ==
  \/ \E o \in Objects : AddSorted(o) \/ PushBack(o) \/ PushFront(o) \/ AddBefore(o)
  \/ \E key \in 1..NumKeys : Remove(key) \/ Seek(FindNode(key)) \/ Seek(FindLast(key))
  \/ RemoveIt \/ RemoveFront \/ RemoveBack
  \/ \E n \in Objects, to \in Nodes : MoveBefore(n, to)
  \/ Sort \/ Clear \/ Begin \/ Forward \/ Reverse

Spec == Init /\ [][Next]_listVars

-------------------------------------------------------------------------------
(* Properties *)

\* The links of the List lead from _front to the sentinel and back again, whichever
\* nodes were put in, taken out or moved; _items counts them, the iterator is on one
\* of them, and a list that is kept sorted is, and a set has no duplicates.
ListWhole ==
  LET nodes == InList
      n == Len(nodes)
  IN /\ nodes[n] = Back /\ next[Back] = Nil /\ prev[front] = Nil
     /\ \A i \in 1..(n - 1) : prev[nodes[i + 1]] = nodes[i]
     /\ items = n - 1
     /\ it \in Ext!Range(nodes)
     /\ \A o \in Objects \ Ext!Range(nodes) : next[o] = Nil /\ prev[o] = Nil
     /\ keepSorted => \A i \in 1..(n - 2) : nodes[i][1] <= nodes[i + 1][1]
     /\ ~multiSet => \A i, j \in 1..(n - 1) : nodes[i][1] = nodes[j][1] => i = j

\* insertionSort() leaves the objects in order, equal ones as they were.
SortStep ==
  Sort =>
    LET old == InList
        new == InList'
        at(s, o) == CHOOSE i \in DOMAIN s : s[i] = o
    IN /\ Ext!Range(new) = Ext!Range(old)
       /\ \A i, j \in 1..(Len(new) - 1) : i < j =>
            new[i][1] < new[j][1]
            \/ (new[i][1] = new[j][1] /\ at(old, new[i]) < at(old, new[j]))

===============================================================================
