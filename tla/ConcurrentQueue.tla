----------------------------- MODULE ConcurrentQueue ----------------------------
(***************************************************************************)
(* utl::ConcurrentQueue (ucc/ConcurrentQueue.h): a linked list with a dummy*)
(* node at its head, one spin lock for the producers and another for the   *)
(* consumers.  ConcurrentQueue_mutex is the same code with two Mutexes.    *)
(*                                                                         *)
(* Nothing orders the two ends: a consumer that finds the list empty reads *)
(* the next pointer that a producer is writing, and a consumer may delete  *)
(* the node that _tail still names when the producer has linked a new one  *)
(* behind it and not moved _tail yet.  Nodes are addresses: a deleted one  *)
(* may come back from the next `new'.  Every read and write of a word is   *)
(* one step; a failed compare-and-swap changes nothing and is left out.    *)
(***************************************************************************)
EXTENDS Threads, Naturals, Sequences, FiniteSets, Functions

CONSTANTS Values,           \* what is queued
          Nodes,            \* the addresses that `new' can return
          NullNode,         \* nullptr
          Nothing           \* deQ() returned false

VARIABLES heapNodes,        \* the nodes that exist: address -> value and next
          head, tail,       \* _head, _tail
          consumerLock,     \* _consumerLock
          producerLock,     \* _producerLock
          qPc,              \* the next statement of each thread
          node,             \* enQ()'s node, or deQ()'s `head'
          after,            \* deQ()'s `next'
          result            \* what the thread's last deQ() gave it

queueVars == <<heapNodes, head, tail, consumerLock, producerLock, qPc, node, after, result>>

Alive == DOMAIN heapNodes

QueueInit ==
  \E dummy \in Nodes :
    /\ heapNodes = [n \in {dummy} |-> [value |-> Nothing, next |-> NullNode]]
    /\ head = dummy /\ tail = dummy
    /\ consumerLock = FALSE /\ producerLock = FALSE
    /\ qPc = [t \in Threads |-> "idle"]
    /\ node = [t \in Threads |-> NullNode]
    /\ after = [t \in Threads |-> NullNode]
    /\ result = [t \in Threads |-> Nothing]

-------------------------------------------------------------------------------
(* enQ() *)

\* new Node(value): any address that is free
NewNode(t, v) ==
  /\ Step(qPc, t, "idle", "lockProducers")
  /\ \E n \in Nodes \ Alive :
       /\ heapNodes' = [m \in Alive \union {n} |->
            IF m = n THEN [value |-> v, next |-> NullNode] ELSE heapNodes[m]]
       /\ node' = [node EXCEPT ![t] = n]
  /\ UNCHANGED <<head, tail, consumerLock, producerLock, after, result>>

\* mutant: the lock is only looked at
LockProducersLater(t) ==
  /\ Step(qPc, t, "lockProducers", "link")
  /\ ~producerLock
  /\ UNCHANGED <<heapNodes, head, tail, consumerLock, producerLock, node, after, result>>

LockProducers(t) ==
  /\ Step(qPc, t, "lockProducers", "link")
  /\ ~producerLock /\ producerLock' = TRUE
  /\ UNCHANGED <<heapNodes, head, tail, consumerLock, node, after, result>>

\* _tail->next = node; through a dangling _tail the write is lost
Link(t) ==
  /\ Step(qPc, t, "link", "moveTail")
  /\ heapNodes' = [n \in Alive |->
       IF n = tail THEN [heapNodes[n] EXCEPT !.next = node[t]] ELSE heapNodes[n]]
  /\ UNCHANGED <<head, tail, consumerLock, producerLock, node, after, result>>

MoveTail(t) ==
  /\ Step(qPc, t, "moveTail", "unlockProducers")
  /\ tail' = node[t]
  /\ UNCHANGED <<heapNodes, head, consumerLock, producerLock, node, after, result>>

UnlockProducers(t) ==
  /\ Step(qPc, t, "unlockProducers", "idle")
  /\ producerLock' = FALSE
  /\ node' = [node EXCEPT ![t] = NullNode]
  /\ UNCHANGED <<heapNodes, head, tail, consumerLock, after, result>>

-------------------------------------------------------------------------------
(* deQ() *)

LockConsumers(t) ==
  /\ Step(qPc, t, "idle", "read")
  /\ ~consumerLock /\ consumerLock' = TRUE
  /\ UNCHANGED <<heapNodes, head, tail, producerLock, node, after, result>>

\* head = _head, next = _head->next, and the test for an empty queue
ReadNext(t) ==
  /\ node' = [node EXCEPT ![t] = head]
  /\ after' = [after EXCEPT ![t] = heapNodes[head].next]
  /\ IF after'[t] = NullNode
     THEN Step(qPc, t, "read", "giveUp") /\ result' = [result EXCEPT ![t] = Nothing]
     ELSE Step(qPc, t, "read", "take") /\ UNCHANGED result
  /\ UNCHANGED <<heapNodes, head, tail, consumerLock, producerLock>>

\* mutant: the node is deleted by whoever finds the queue empty, too
GiveUpDeletes(t) ==
  /\ Step(qPc, t, "giveUp", "delete")
  /\ consumerLock' = FALSE
  /\ UNCHANGED <<heapNodes, head, tail, producerLock, node, after, result>>

\* return false
GiveUp(t) ==
  /\ Step(qPc, t, "giveUp", "idle")
  /\ consumerLock' = FALSE
  /\ node' = [node EXCEPT ![t] = NullNode]
  /\ UNCHANGED <<heapNodes, head, tail, producerLock, after, result>>

\* value = next->value and _head = next, which only the holder of the lock reads
TakeValue(t) ==
  /\ Step(qPc, t, "take", "unlockConsumers")
  /\ result' = [result EXCEPT ![t] = heapNodes[after[t]].value]
  /\ head' = after[t]
  /\ after' = [after EXCEPT ![t] = NullNode]
  /\ UNCHANGED <<heapNodes, tail, consumerLock, producerLock, node>>

UnlockConsumers(t) ==
  /\ Step(qPc, t, "unlockConsumers", "delete")
  /\ consumerLock' = FALSE
  /\ UNCHANGED <<heapNodes, head, tail, producerLock, node, after, result>>

\* delete head
DeleteHead(t) ==
  /\ Step(qPc, t, "delete", "idle")
  /\ heapNodes' = [n \in Alive \ {node[t]} |-> heapNodes[n]]
  /\ node' = [node EXCEPT ![t] = NullNode]
  /\ UNCHANGED <<head, tail, consumerLock, producerLock, after, result>>

-------------------------------------------------------------------------------

QueueNext == \E t \in Threads :
  \/ \E v \in Values : NewNode(t, v)
  \/ LockProducers(t) \/ Link(t) \/ MoveTail(t) \/ UnlockProducers(t)
  \/ LockConsumers(t) \/ ReadNext(t) \/ GiveUp(t)
  \/ TakeValue(t) \/ UnlockConsumers(t) \/ DeleteHead(t)

QueueSpec == QueueInit /\ [][QueueNext]_queueVars

-------------------------------------------------------------------------------
(* Properties *)

\* the nodes from `first' on, as far as the next pointers lead to one
ChainOf(first, nodes) ==
  LET from[k \in Nat] ==
        IF k = 0 THEN <<first>>
        ELSE LET c == from[k - 1]
                 n == nodes[c[Len(c)]].next
             IN IF n \in DOMAIN nodes THEN Append(c, n) ELSE c
  IN from[Cardinality(Nodes)]

\* the dummy first
Chain == ChainOf(head, heapNodes)

ChainNodes == Range(Chain)

\* the call has a node that is not linked yet, or not any more
OwnsNode(t) == qPc[t] \in {"lockProducers", "link", "unlockConsumers", "delete"}

\* A node exists as long as somebody needs it and no longer: it is in the
\* list, or the node of one call that has not linked it or not deleted it yet;
\* and no step goes through a pointer to a deleted node, although the consumers
\* delete nodes that _tail may still name.
NodesOwned ==
  /\ head \in Alive
  /\ \A t \in Threads :
       /\ (qPc[t] = "link" => tail \in Alive)
       /\ (qPc[t] = "take" => after[t] \in Alive)
       /\ (qPc[t] = "delete" => node[t] \in Alive)
  /\ LET mine == {node[t] : t \in {u \in Threads : OwnsNode(u)}}
         listed == ChainNodes
     IN Alive = listed \union mine /\ listed \cap mine = {}

\* the values in the list, for the abstract queue
QueueOf == LET c == Chain IN [k \in 1..(Len(c) - 1) |-> heapNodes[c[k + 1]].value]

FIFO == INSTANCE ObjectSequence WITH contents <- QueueOf, Objects <- Values

\* The queue is a first-in first-out queue whose operations are atomic: enQ()
\* takes effect when it links its node, deQ() when it reads the next pointer
\* (and finds none) or advances _head.
QueueIsFIFO == FIFO!FIFOSpec

-------------------------------------------------------------------------------
(* The inductive invariant, which ConcurrencyProofs proves *)

QueueAssumption == IsFiniteSet(Nodes) /\ NullNode \notin Nodes

QueuePcs == {"idle", "lockProducers", "link", "moveTail", "unlockProducers",
             "read", "giveUp", "take", "unlockConsumers", "delete"}

QueueTypes ==
  /\ heapNodes \in [Alive -> [value : Values \union {Nothing}, next : Nodes \union {NullNode}]]
  /\ Alive \subseteq Nodes
  /\ qPc \in [Threads -> QueuePcs]
  /\ node \in [Threads -> Nodes \union {NullNode}]
  /\ after \in [Threads -> Nodes \union {NullNode}]
  /\ result \in [Threads -> Values \union {Nothing}]

HoldsProducers(t) == qPc[t] \in {"link", "moveTail", "unlockProducers"}
HoldsConsumers(t) == qPc[t] \in {"read", "giveUp", "take", "unlockConsumers"}

(* each lock has one holder *)
LocksExclude ==
  \A t, u \in Threads :
    /\ HoldsProducers(t) => producerLock /\ (HoldsProducers(u) => t = u)
    /\ HoldsConsumers(t) => consumerLock /\ (HoldsConsumers(u) => t = u)

(* c are the nodes from `first' on, the last without a successor *)
IsChain(c, first, nodes) ==
  /\ c \in Seq(DOMAIN nodes) /\ c # <<>> /\ IsInjective(c)
  /\ c[1] = first
  /\ \A i \in 1..(Len(c) - 1) : nodes[c[i]].next = c[i + 1]
  /\ nodes[c[Len(c)]].next = NullNode

(* who has which node *)
NodesApart ==
  /\ \A t \in Threads : OwnsNode(t) => node[t] \in Alive \ Range(Chain)
  /\ \A t, u \in Threads : OwnsNode(t) /\ OwnsNode(u) /\ node[t] = node[u] => t = u
  /\ Alive \subseteq Range(Chain) \union {node[t] : t \in {u \in Threads : OwnsNode(u)}}

(* a node that is about to be linked is a good end of the list *)
NodesReady ==
  \A t \in Threads : qPc[t] \in {"lockProducers", "link"} =>
    heapNodes[node[t]].next = NullNode /\ heapNodes[node[t]].value \in Values

(* _tail names the last node but while a producer has just linked another: *)
(* then it may even name a node that a consumer has deleted.               *)
TailLast ==
  LET last == Chain[Len(Chain)]
  IN /\ \A t \in Threads : qPc[t] = "moveTail" => node[t] = last
     /\ (\A t \in Threads : qPc[t] # "moveTail") => tail = last

(* what a consumer has read stays true *)
TakesNext ==
  \A t \in Threads : qPc[t] = "take" =>
    node[t] = head /\ Len(Chain) > 1 /\ after[t] = Chain[2]

QueueInv ==
  /\ QueueTypes /\ LocksExclude /\ IsChain(Chain, head, heapNodes)
  /\ NodesApart /\ NodesReady /\ TailLast /\ TakesNext

===============================================================================
