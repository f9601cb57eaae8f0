--------------------------------- MODULE RBtree --------------------------------
(***************************************************************************)
(* utl::RBtree over utl::BinTree (ucc/BinTree, ucc/BinTreeNode, ucc/RBtree,*)
(* ucc/RBtreeNode): the red-black tree behind the library's sorted         *)
(* containers, pointer by pointer.  Two things make it unlike a textbook's:*)
(* the rightmost node always holds maxObject, so that there is an end()    *)
(* node and the root has a right child when it is removed; and all leaves  *)
(* are one object, whose _parent is scratch space that rotations overwrite *)
(* while removeFixup() climbs from it.                                     *)
(*                                                                         *)
(* A node holds one object for life (addOrUpdate() apart) and removal moves*)
(* nodes and not contents, so a node is named by its object.  The left and *)
(* right halves of the code are mirror images: here a side is a parameter. *)
(***************************************************************************)
EXTENDS Naturals, Sequences, FiniteSets

Ext == INSTANCE SequencesExt

CONSTANTS NumKeys, Copies,         \* the objects: Copies of each of NumKeys keys
          Leaf, MaxObject, Null    \* &_leaf, the sentinel node, nullptr

Objects == 0..(NumKeys * Copies - 1)
Keys    == 0..(NumKeys - 1)
Nodes   == Objects \union {MaxObject}
Cells   == Nodes \union {Leaf}
Sides   == {"left", "right"}
Colors  == {"red", "black"}

Opp(s) == IF s = "left" THEN "right" ELSE "left"

KeyOf(o) == o \div Copies

VARIABLES heap,      \* _left and _right, _parent and _color of every node and the leaf
          root,      \* _root
          items,     \* _items
          multiSet,  \* isMultiSet()
          it         \* the node of the caller's iterator, Null without a valid one

vars == <<heap, root, items, multiSet, it>>

TypeOK ==
  /\ heap \in [child : [Sides -> [Cells -> Cells]],
               parent : [Cells -> Cells \union {Null}],
               color : [Cells -> Colors]]
  /\ root \in Nodes
  /\ items \in Nat
  /\ multiSet \in BOOLEAN
  /\ it \in Nodes \union {Null}

-------------------------------------------------------------------------------
(* BinTreeNode and RBtreeNode *)

IsLeaf(x) == x = Leaf
IsRoot(h, x) == h.parent[x] = Null
IsChild(h, x, s) == h.parent[x] # Null /\ h.child[s][h.parent[x]] = x
SideOf(h, x) == IF IsChild(h, x, "left") THEN "left" ELSE "right"
Sibling(h, x) == h.child[Opp(SideOf(h, x))][h.parent[x]]

Paint(h, x, c) == [h EXCEPT !.color[x] = c]

\* setLeft(), setRight()
SetChild(h, p, s, x) == [h EXCEPT !.child[s][p] = x, !.parent[x] = p]

\* leftMost(), rightMost()
RECURSIVE Outermost(_, _, _)
Outermost(h, x, s) ==
  IF IsLeaf(h.child[s][x]) THEN x ELSE Outermost(h, h.child[s][x], s)

\* the climb of next() and prev(): the first ancestor that x is on side s of
RECURSIVE Ancestor(_, _, _)
Ancestor(h, x, s) ==
  IF IsChild(h, x, Opp(s)) THEN Ancestor(h, h.parent[x], s)
  ELSE IF IsChild(h, x, s) THEN h.parent[x] ELSE Null

\* next() with s = "right", prev() with s = "left"
Neighbour(h, x, s) ==
  IF IsLeaf(h.child[s][x]) THEN Ancestor(h, x, Opp(s))
  ELSE Outermost(h, h.child[s][x], Opp(s))

NextNode(h, x) == Neighbour(h, x, "right")
PrevNode(h, x) == Neighbour(h, x, "left")

\* point at y from where p points at x, if there is a p
Relink(h, p, s, y) == IF p = Null THEN h ELSE [h EXCEPT !.child[s][p] = y]

\* mutant: the parent keeps its link to x
RotateUnlinked(h, x, s) ==
  LET y == h.child[Opp(s)][x]
      b == h.child[s][y]
  IN  [h EXCEPT !.child[Opp(s)][x] = b, !.child[s][y] = x,
                !.parent[b] = x, !.parent[y] = h.parent[x], !.parent[x] = y]

\* rotateLeft() with s = "left", rotateRight() with s = "right"
Rotate(h, x, s) ==
  LET y == h.child[Opp(s)][x]
      b == h.child[s][y]
      g == Relink(h, h.parent[x], SideOf(h, x), y)
  IN  [g EXCEPT !.child[Opp(s)][x] = b, !.child[s][y] = x,
                !.parent[b] = x, !.parent[y] = h.parent[x], !.parent[x] = y]

\* the four parent links that end swapWith(); the leaf may get all of them
Adopt(h, x) ==
  [h EXCEPT !.parent[h.child["left"][x]] = x, !.parent[h.child["right"][x]] = x]

\* mutant: b, the node to be removed, keeps its colour
SwapLinksOnly(h, a, b) ==
  LET pa == h.parent[a]  pb == h.parent[b]
      sa == SideOf(h, a) sb == SideOf(h, b)
      g == IF pa = b
             THEN Relink([h EXCEPT !.child["left"][a] = h.child["left"][b],
                                   !.child["left"][b] = h.child["left"][a],
                                   !.child["right"][a] = b,
                                   !.child["right"][b] = h.child["right"][a],
                                   !.parent[a] = pb, !.parent[b] = a], pb, sb, a)
             ELSE Relink(Relink([h EXCEPT !.child["left"][a] = h.child["left"][b],
                                          !.child["left"][b] = h.child["left"][a],
                                          !.child["right"][a] = h.child["right"][b],
                                          !.child["right"][b] = h.child["right"][a],
                                          !.parent[a] = pb, !.parent[b] = pa],
                                pb, sb, a), pa, sa, b)
  IN  Adopt(Adopt(g, a), b)

\* a->swapWith(b): a, the successor of b, and b trade places and colours
SwapWith(h, a, b) ==
  [SwapLinksOnly(h, a, b) EXCEPT !.color[a] = h.color[b], !.color[b] = h.color[a]]

\* what addFixup() does with the uncle y red, and one level up again
Recolor(h, p, y, g) ==
  [h EXCEPT !.color[p] = "black", !.color[y] = "black", !.color[g] = "red"]

\* mutant: the inner grandchild is not made an outer one first
RECURSIVE AddFixupOneTurn(_, _)
AddFixupOneTurn(h, x) ==
  IF IsRoot(h, x) \/ h.color[h.parent[x]] = "black" THEN h
  ELSE LET p == h.parent[x]
           g == h.parent[p]
           y == Sibling(h, p)
       IN  IF h.color[y] = "red" THEN AddFixupOneTurn(Recolor(h, p, y, g), g)
           ELSE Rotate([h EXCEPT !.color[p] = "black", !.color[g] = "red"],
                       g, Opp(SideOf(h, p)))

\* x->addFixup(): x is red, and so may its parent be
RECURSIVE AddFixup(_, _)
AddFixup(h, x) ==
  IF IsRoot(h, x) \/ h.color[h.parent[x]] = "black" THEN h
  ELSE LET p == h.parent[x]
           g == h.parent[p]
           s == SideOf(h, p)
           y == Sibling(h, p)
       IN  IF h.color[y] = "red" THEN AddFixup(Recolor(h, p, y, g), g)
           ELSE LET inner == IsChild(h, x, Opp(s))
                    h1 == IF inner THEN Rotate(h, p, s) ELSE h
                    x1 == IF inner THEN p ELSE x
                    p1 == h1.parent[x1]
                    g1 == h1.parent[p1]
                    h2 == [h1 EXCEPT !.color[p1] = "black", !.color[g1] = "red"]
                IN  AddFixup(Rotate(h2, g1, Opp(s)), x1)

\* the loop of x->removeFixup(): x, perhaps the leaf, is one black short
RECURSIVE Rebalance(_, _)
Rebalance(h, x) ==
  IF IsRoot(h, x) \/ h.color[x] = "red" THEN Paint(h, x, "black")
  ELSE LET p == h.parent[x]
           s == SideOf(h, x)
           o == Opp(s)
           w == h.child[o][p]
           h1 == IF h.color[w] = "red"
                   THEN Rotate(Paint(Paint(h, w, "black"), p, "red"), p, s) ELSE h
           w1 == h1.child[o][p]
           near == h1.child[s][w1]
           far == h1.child[o][w1]
       IN  IF h1.color[near] = "black" /\ h1.color[far] = "black"
             THEN Rebalance(Paint(h1, w1, "red"), p)
             ELSE LET h2 == IF h1.color[far] = "black"
                              THEN Rotate(Paint(Paint(h1, near, "black"), w1, "red"), w1, o)
                              ELSE h1
                      w2 == h2.child[o][p]
                      h3 == [h2 EXCEPT !.color[w2] = h2.color[p], !.color[p] = "black",
                                       !.color[h2.child[o][w2]] = "black"]
                  IN  Rotate(h3, p, s)

\* mutant: the test of the removed node's colour is the wrong way round
RemoveFixupOfRed(h, x, y) == IF h.color[y] = "black" THEN h ELSE Rebalance(h, x)

RemoveFixup(h, x, y) == IF h.color[y] # "black" THEN h ELSE Rebalance(h, x)

-------------------------------------------------------------------------------
(* BinTree and RBtree *)

\* resetRoot(): climb from where _root points, and blacken the root and the leaf
RECURSIVE Top(_, _)
Top(h, r) == IF h.parent[r] = Null THEN r ELSE Top(h, h.parent[r])

ResetRoot(h, r) ==
  LET top == Top(h, r)
  IN  heap' = Paint(Paint(h, top, "black"), Leaf, "black") /\ root' = top

\* compareObjects(): maxObject is greater than every key
NotBelow(x, k) == x # MaxObject => KeyOf(x) >= k
Matches(x, k)  == x # MaxObject /\ KeyOf(x) = k

InTree(x) == x = root \/ heap.parent[x] # Null

\* findNode() with find_any
RECURSIVE FindAny(_, _)
FindAny(x, k) ==
  IF IsLeaf(x) THEN Null
  ELSE IF Matches(x, k) THEN x
  ELSE FindAny(heap.child[IF NotBelow(x, k) THEN "left" ELSE "right"][x], k)

\* findFirstMatch() with s = "left", findLastMatch() with s = "right": on to side
\* s from a match and back from any other node, res being the last match seen
RECURSIVE OutermostMatch(_, _, _, _)
OutermostMatch(x, k, s, res) ==
  LET y == heap.child[IF Matches(x, k) THEN s ELSE Opp(s)][x]
  IN  IF IsLeaf(y) THEN res
      ELSE OutermostMatch(y, k, s, IF Matches(y, k) THEN y ELSE res)

FindMatch(k, s) ==
  LET x == FindAny(root, k)
  IN  IF x = Null THEN Null ELSE OutermostMatch(x, k, s, x)

\* mutant: any match will do
FindKeyAny(k) == FindAny(root, k)

\* what find() and remove() look for
FindKey(k) == IF multiSet THEN FindMatch(k, "left") ELSE FindAny(root, k)

\* findInsertionPoint(): the node to hang an object of key k from, and on which side
RECURSIVE InsertionPoint(_, _)
InsertionPoint(x, k) ==
  LET s == IF NotBelow(x, k) THEN "left" ELSE "right"
      y == heap.child[s][x]
  IN  IF IsLeaf(y) THEN [node |-> x, side |-> s] ELSE InsertionPoint(y, k)

\* ... and when it is not for add(): the first node not below k
LowerBound(k) ==
  LET p == InsertionPoint(root, k)
  IN  IF p.side = "left" THEN p.node ELSE NextNode(heap, p.node)

\* createNode() and the rest of add() and insert()
Attach(o, p) ==
  LET h == SetChild([heap EXCEPT !.parent[Leaf] = o], p.node, p.side, o)
  IN  ResetRoot(AddFixup(h, o), root) /\ items' = items + 1

\* where insert() puts the new predecessor of x
Before(x) ==
  IF IsLeaf(heap.child["left"][x]) THEN [node |-> x, side |-> "left"]
  ELSE [node |-> PrevNode(heap, x), side |-> "right"]

\* z->remove(x, y), after which y is z: the heap without z, and z's only child x
Excise(z) ==
  LET h == IF \E s \in Sides : IsLeaf(heap.child[s][z]) THEN heap
           ELSE SwapWith(heap, NextNode(heap, z), z)
      x == h.child[IF IsLeaf(h.child["left"][z]) THEN "right" ELSE "left"][z]
      p == h.parent[z]
  IN  [child |-> x,
       heap |-> Relink([h EXCEPT !.parent[x] = p], p, SideOf(h, z), x)]

\* a node's memory, before createNode() and after delete
Blank(h, z) ==
  [h EXCEPT !.child["left"][z] = Leaf, !.child["right"][z] = Leaf,
            !.parent[z] = Null, !.color[z] = "red"]

\* mutant: resetRoot() climbs from the node that has just been removed
RemoveNodeKeepRoot(z) ==
  LET e == Excise(z)
  IN  ResetRoot(Blank(RemoveFixup(e.heap, e.child, z), z), root) /\ items' = items - 1

RemoveNode(z) ==
  LET start == IF z = root THEN heap.child["right"][z] ELSE root
      e == Excise(z)
  IN  ResetRoot(Blank(RemoveFixup(e.heap, e.child, z), z), start) /\ items' = items - 1

\* it.set(o) on node x, which changes the object and so its name here
Rename(x, o) ==
  LET new(y) == IF y = x THEN o ELSE y
      old(y) == IF y = o THEN x ELSE y
      h == [child |-> [s \in Sides |-> [y \in Cells |-> new(heap.child[s][old(y)])]],
            parent |-> [y \in Cells |-> new(heap.parent[old(y)])],
            color |-> [y \in Cells |-> heap.color[old(y)]]]
  IN  heap' = Blank(h, x) /\ root' = new(root) /\ it' = new(it)

-------------------------------------------------------------------------------
(* the calls *)

Fresh(o) == ~InTree(o)

\* add(): a second object equal to one in a set that is no multi-set is refused
Add(o) ==
  /\ Fresh(o)
  /\ multiSet \/ FindAny(root, KeyOf(o)) = Null
  /\ Attach(o, InsertionPoint(root, KeyOf(o)))
  /\ UNCHANGED <<multiSet, it>>

\* addOrFind(), addOrUpdate(): insert() at the lower bound, unless that equals o
AddIfAbsent(o) ==
  LET x == LowerBound(KeyOf(o)) IN
    /\ Fresh(o) /\ ~Matches(x, KeyOf(o))
    /\ Attach(o, Before(x))
    /\ UNCHANGED <<multiSet, it>>

\* addOrUpdate() otherwise: it.set()
Update(o) ==
  LET x == LowerBound(KeyOf(o)) IN
    /\ Fresh(o) /\ Matches(x, KeyOf(o))
    /\ Rename(x, o)
    /\ UNCHANGED <<items, multiSet>>

\* insert() by the caller, with the precondition that checkInsert() asserts
Insert(o) ==
  LET x == PrevNode(heap, it)
      k == KeyOf(o)
  IN  /\ Fresh(o) /\ it # Null
      /\ NotBelow(it, IF multiSet THEN k ELSE k + 1)
      /\ x # Null => ~NotBelow(x, IF multiSet THEN k + 1 ELSE k)
      /\ Attach(o, Before(it))
      /\ UNCHANGED <<multiSet, it>>

\* remove(): the caller's iterator is lost with its node
Remove(k) ==
  LET z == FindKey(k) IN
    /\ z # Null
    /\ RemoveNode(z)
    /\ it' = IF it = z THEN Null ELSE it
    /\ UNCHANGED multiSet

\* mutant: the successor is looked up when the node is gone
RemoveItLate ==
  /\ it \notin {Null, MaxObject}
  /\ RemoveNode(it)
  /\ it' = NextNode(heap', it)
  /\ UNCHANGED multiSet

RemoveIt ==
  /\ it \notin {Null, MaxObject}
  /\ RemoveNode(it)
  /\ it' = NextNode(heap, it)
  /\ UNCHANGED multiSet

EmptyHeap ==
  [child |-> [s \in Sides |-> [x \in Cells |-> Leaf]],
   parent |-> [x \in Cells |-> Null],
   color |-> [x \in Cells |-> IF x \in {Leaf, MaxObject} THEN "black" ELSE "red"]]

\* mutant: _items keeps its value
ClearNodes ==
  /\ heap' = [EmptyHeap EXCEPT !.parent[Leaf] = MaxObject] /\ root' = MaxObject
  /\ it' = Null
  /\ UNCHANGED <<items, multiSet>>

\* clear() deletes every node, and RBtree::init() makes a sentinel again
Clear ==
  /\ heap' = [EmptyHeap EXCEPT !.parent[Leaf] = MaxObject] /\ root' = MaxObject
  /\ items' = 0
  /\ it' = Null
  /\ UNCHANGED multiSet

Seek(x) == it' = x /\ UNCHANGED <<heap, root, items, multiSet>>

Last == Outermost(heap, root, "right")
Found(x) == IF x = Null THEN Last ELSE x

Begin == Seek(Outermost(heap, root, "left"))
SeekEnd == Seek(Last)
FindFirst(k) == Seek(Found(FindMatch(k, "left")))
FindLast(k) == Seek(Found(FindMatch(k, "right")))
FindInsertion(k) == Seek(LowerBound(k))
Forward == it # Null /\ NextNode(heap, it) # Null /\ Seek(NextNode(heap, it))
Reverse == it # Null /\ PrevNode(heap, it) # Null /\ Seek(PrevNode(heap, it))

Init ==
  /\ heap = [EmptyHeap EXCEPT !.parent[Leaf] = MaxObject]
  /\ root = MaxObject
  /\ items = 0
  /\ multiSet \in BOOLEAN
  /\ it = Null

Next ==
  \/ \E o \in Objects : Add(o) \/ AddIfAbsent(o) \/ Update(o) \/ Insert(o)
  \/ \E k \in Keys : Remove(k) \/ FindFirst(k) \/ FindLast(k) \/ FindInsertion(k)
  \/ RemoveIt \/ Clear \/ Begin \/ SeekEnd \/ Forward \/ Reverse

Spec == Init /\ [][Next]_vars

\* the calls that give a tree without iterators each of its shapes
ShapeNext == (\E o \in Objects : Add(o)) \/ (\E k \in Keys : Remove(k))

-------------------------------------------------------------------------------
(* Properties *)

\* The nodes below x, in order; depth bounds the descent, should links form a cycle.
RECURSIVE InOrder(_, _)
InOrder(x, depth) ==
  IF IsLeaf(x) \/ depth = 0 THEN <<>>
  ELSE InOrder(heap.child["left"][x], depth - 1) \o <<x>>
       \o InOrder(heap.child["right"][x], depth - 1)

Sequence == InOrder(root, Cardinality(Nodes))

\* The number of black nodes on the paths down from x, or 0 when they differ.
RECURSIVE BlackHeight(_, _)
BlackHeight(x, depth) ==
  IF IsLeaf(x) \/ depth = 0 THEN 1
  ELSE LET l == BlackHeight(heap.child["left"][x], depth - 1)
           r == BlackHeight(heap.child["right"][x], depth - 1)
       IN  IF l # r \/ l = 0 THEN 0
           ELSE IF heap.color[x] = "black" THEN l + 1 ELSE l

\* The red/black rules, on which the cost of every call rests (RBtreeNode.cpp:17):
\* the root and the leaf are black, no red node has a red child, and all paths down
\* from the root hold the same number of black nodes.
RedBlack ==
  /\ heap.color[root] = "black" /\ heap.color[Leaf] = "black"
  /\ \A x \in Nodes, s \in Sides :
       InTree(x) /\ heap.color[x] = "red" => heap.color[heap.child[s][x]] = "black"
  /\ BlackHeight(root, Cardinality(Nodes)) # 0

\* A node is its parent's child and a child's parent: rotations, swapWith() and
\* removals leave no half of a link behind, and none to a node that was deleted, so
\* next(), prev() and resetRoot() climb where the searches descended.  The leaf links
\* only to itself, _items is the number of objects there really are, and the sentinel
\* stands behind all of them: every end() test depends on it (BinTree::sanityCheck()).
Linked ==
  /\ TypeOK
  /\ heap.parent[root] = Null
  /\ \A x \in Nodes, s \in Sides :
       LET y == heap.child[s][x]
       IN  IsLeaf(y) \/ (InTree(x) /\ heap.parent[y] = x)
  /\ \A x \in Nodes : InTree(x) => x \in Ext!Range(Sequence)
  /\ \A s \in Sides : heap.child[s][Leaf] = Leaf
  /\ items = Len(Sequence) - 1
  /\ Sequence[Len(Sequence)] = MaxObject

Contents == SelectSeq(Sequence, LAMBDA x : x # MaxObject)
Position == IF it = Null THEN 0 ELSE CHOOSE i \in DOMAIN Sequence : Sequence[i] = it

Sorted == INSTANCE SortedSequence WITH contents <- Contents, position <- Position

\* Read in order, the tree is the sorted sequence it stands for: every call of the
\* interface does to the tree what it should do to the sequence, searches find the
\* first, the last and the place for a key, and the iterator stays with its object
\* however the nodes under it are rotated, swapped or removed.
ImplementsSortedSequence == Sorted!Spec

===============================================================================
