---------------------------- MODULE ConcurrencyProofs ----------------------------
(***************************************************************************)
(* What is proved of the components whose threads run at once in one       *)
(* process, for any number of threads: utl::ConcurrentQueue, the pair of   *)
(* Mutex and ConditionVar, the debug allocator and the ObjectRegistry.     *)
(* Each has an inductive invariant in its own module.                      *)
(***************************************************************************)
EXTENDS ConcurrentQueue, ConditionVar, DebugAllocator, ObjectRegistry,
        FiniteSetTheorems, SequenceTheorems, WellFoundedInduction, TLAPS

-------------------------------------------------------------------------------
(* The list *)

(* A set of numbers that is not empty has a least one. *)
LEMMA MinExists ==
  ASSUME NEW S \in SUBSET Nat, S # {}
  PROVE  \E x \in S : \A y \in S : x <= y
<1> DEFINE Below(x) == 0..x
           T == {Below(x) : x \in S}
<1>1. \A x \in S : Below(x) \in FiniteSubsetsOf(Nat)
  BY FS_Interval DEF FiniteSubsetsOf
<1>2. T \subseteq FiniteSubsetsOf(Nat) /\ T # {}
  BY <1>1
<1>3. PICK B \in T : \A C \in T : <<C, B>> \notin StrictSubsetOrdering(Nat)
  BY <1>2, FS_StrictSubsetOrderingWellFounded, WFMin
<1>4. PICK x \in S : B = Below(x)
  OBVIOUS
<1>5. ASSUME NEW y \in S, y < x PROVE FALSE
  <2>1. Below(y) \subseteq Below(x) /\ x \in Below(x) /\ x \notin Below(y)
    BY <1>5
  <2>2. <<Below(y), Below(x)>> \in StrictSubsetOrdering(Nat)
    BY <2>1 DEF StrictSubsetOrdering
  <2>3. QED
    BY <2>2, <1>3, <1>4
<1>6. QED
  BY <1>5

(* Following the next pointers ends with the list. *)
LEMMA ChainFound ==
  ASSUME QueueAssumption, NEW first, NEW nodes, DOMAIN nodes \subseteq Nodes,
         NEW c, IsChain(c, first, nodes)
  PROVE  ChainOf(first, nodes) = c
<1>1. PICK n \in Nat :
        /\ n = Len(c) /\ c \in Seq(DOMAIN nodes) /\ 1 <= n
        /\ c[1] = first /\ \A i \in 1..n : c[i] \in DOMAIN nodes
        /\ \A i \in 1..(n - 1) : nodes[c[i]].next = c[i + 1]
        /\ nodes[c[n]].next \notin DOMAIN nodes
  BY EmptySeq, LenProperties, ElementOfSeq DEF IsChain, QueueAssumption
<1>1a. 1 <= n /\ c[1] = first /\ \A i \in 1..n : c[i] \in DOMAIN nodes
  BY <1>1
<1>1b. /\ \A i \in 1..(n - 1) : nodes[c[i]].next = c[i + 1]
       /\ nodes[c[n]].next \notin DOMAIN nodes
  BY <1>1
<1> DEFINE More(s) == LET m == nodes[s[Len(s)]].next
                      IN IF m \in DOMAIN nodes THEN Append(s, m) ELSE s
           Upto(k) == IF k < n THEN k ELSE n
           Prefix(k) == SubSeq(c, 1, Upto(k))
           g == [k \in Nat |-> Prefix(k + 1)]
<1>2. ASSUME NEW k \in Nat \ {0}
      PROVE  /\ Prefix(k) \in Seq(DOMAIN nodes) /\ Len(Prefix(k)) = Upto(k)
             /\ Upto(k) \in 1..n
             /\ \A i \in 1..Upto(k) : Prefix(k)[i] = c[i]
  <2>1. Upto(k) \in 1..n
    BY <1>1a
  <2> HIDE DEF Upto
  <2>2. \A i \in 1..Upto(k) : c[i] \in DOMAIN nodes
    BY <1>1a, <2>1
  <2>3. QED
    BY <1>1a, <2>1, <2>2, SubSeqProperties
<1>3. Prefix(1) = <<first>>
  <2>1. Upto(1) = 1
    BY <1>1a
  <2>2. <<first>> \in Seq(DOMAIN nodes) /\ Len(<<first>>) = 1 /\ <<first>>[1] = first
    <3>1. first \in DOMAIN nodes
      BY <1>1a
    <3>2. QED
      BY <3>1
  <2> HIDE DEF Upto, Prefix
  <2>3. Prefix(1) \in Seq(DOMAIN nodes) /\ Len(Prefix(1)) = 1 /\ Prefix(1)[1] = first
    <3>1. 1 \in Nat \ {0}
      OBVIOUS
    <3>2. Prefix(1) \in Seq(DOMAIN nodes) /\ Len(Prefix(1)) = Upto(1)
      BY <3>1, <1>2
    <3>3. \A i \in 1..Upto(1) : Prefix(1)[i] = c[i]
      BY <3>1, <1>2
    <3>4. Prefix(1)[1] = first
      BY <3>3, <2>1, <1>1a
    <3>5. QED
      BY <3>2, <3>4, <2>1
  <2>4. QED
    BY <2>2, <2>3, SeqEqual
<1>4. ASSUME NEW k \in Nat \ {0} PROVE Prefix(k + 1) = More(Prefix(k))
  <2>1. CASE k < n
    <3>1. /\ Upto(k) = k /\ Upto(k + 1) = k + 1 /\ k \in 1..(n - 1)
          /\ k + 1 \in 1..n
      BY <1>1a, <2>1
    <3> HIDE DEF Upto, Prefix
    <3>2. More(Prefix(k)) = Append(Prefix(k), c[k + 1])
      <4>1. Len(Prefix(k)) = k /\ Prefix(k)[k] = c[k]
        BY <1>2, <3>1
      <4>2. nodes[c[k]].next = c[k + 1] /\ c[k + 1] \in DOMAIN nodes
        BY <1>1a, <1>1b, <3>1
      <4>3. QED
        BY <4>1, <4>2
    <3>3. /\ Append(Prefix(k), c[k + 1]) \in Seq(DOMAIN nodes)
          /\ Len(Append(Prefix(k), c[k + 1])) = k + 1
          /\ \A i \in 1..k : Append(Prefix(k), c[k + 1])[i] = c[i]
          /\ Append(Prefix(k), c[k + 1])[k + 1] = c[k + 1]
      <4>1. /\ Prefix(k) \in Seq(DOMAIN nodes) /\ c[k + 1] \in DOMAIN nodes
            /\ Len(Prefix(k)) = k
            /\ \A i \in 1..k : Prefix(k)[i] = c[i]
        BY <1>1a, <1>2, <3>1
      <4> HIDE DEF g
      <4>2. QED
        BY <4>1, AppendProperties
    <3>4. \A i \in 1..(k + 1) : Prefix(k + 1)[i] = Append(Prefix(k), c[k + 1])[i]
      BY <1>2, <3>1, <3>3, SMTT(30)
    <3>5. Prefix(k + 1) \in Seq(DOMAIN nodes) /\ Len(Prefix(k + 1)) = k + 1
      BY <1>2, <3>1
    <3>6. Prefix(k + 1) = Append(Prefix(k), c[k + 1])
      BY <3>3, <3>4, <3>5, SeqEqual
    <3>7. QED
      BY <3>2, <3>6
  <2>2. CASE ~(k < n)
    <3>1. Upto(k) = n /\ Upto(k + 1) = n
      BY <1>1a, <2>2
    <3>2. Prefix(k + 1) = Prefix(k)
      BY <3>1
    <3> HIDE DEF Upto, Prefix
    <3>3. QED
      BY <1>1b, <1>2, <3>1, <3>2
  <2>3. QED
    BY <2>1, <2>2
<1> DEFINE Next(h) == [k \in Nat |-> IF k = 0 THEN <<first>> ELSE More(h[k - 1])]
<1>5. g = Next(g)
  <2> HIDE DEF Prefix, More
  <2>1. ASSUME NEW k \in Nat PROVE g[k] = Next(g)[k]
    BY <1>3, <1>4
  <2>2. QED
    BY <2>1
<1>6. ASSUME NEW h, h = Next(h) PROVE h = g
  <2> DEFINE D == {k \in Nat : h[k] # g[k]}
  <2> HIDE DEF More, Prefix
  <2>0. h[0] = <<first>> /\ g[0] = <<first>> /\ \A k \in Nat \ {0} : h[k] = More(h[k - 1]) /\ g[k] = More(g[k - 1])
    BY <1>5, <1>6
  <2>1. CASE D # {}
    <3>1. PICK m \in D : \A k \in D : m <= k
      BY <2>1, MinExists
    <3>2. m \in Nat \ {0} /\ m - 1 \in Nat /\ m - 1 \notin D
      BY <2>0, <3>1
    <3>3. h[m - 1] = g[m - 1]
      BY <3>2
    <3>4. QED
      BY <2>0, <3>1, <3>2, <3>3
  <2>2. CASE D = {}
    BY <1>6, <2>2
  <2>3. QED
    BY <2>1, <2>2
<1>7. (CHOOSE h : h = Next(h)) = g
  <2> HIDE DEF g, Next
  <2>1. QED
    BY <1>5, <1>6
<1>8. ChainOf(first, nodes) = g[Cardinality(Nodes)]
  BY <1>7 DEF ChainOf
<1>9. Cardinality(Nodes) \in Nat /\ n <= Cardinality(Nodes)
  <2>1. IsFiniteSet(1..n) /\ Cardinality(1..n) = n
    BY <1>1a, FS_Interval
  <2>2. c \in Injection(1..n, Nodes)
    BY <1>1, LenProperties DEF IsChain, IsInjective, Injection
  <2>3. QED
    BY <2>1, <2>2, FS_Injection, FS_CardinalityType DEF QueueAssumption
<1>10. Prefix(Cardinality(Nodes) + 1) = c
  <2>1. Upto(Cardinality(Nodes) + 1) = n
    BY <1>1a, <1>9
  <2> HIDE DEF Prefix, Upto
  <2>2. /\ Prefix(Cardinality(Nodes) + 1) \in Seq(DOMAIN nodes)
        /\ Len(Prefix(Cardinality(Nodes) + 1)) = n
        /\ \A i \in 1..n : Prefix(Cardinality(Nodes) + 1)[i] = c[i]
    <3> DEFINE m == Cardinality(Nodes) + 1
    <3>1. m \in Nat \ {0} /\ Upto(m) = n
      BY <1>9, <2>1
    <3> HIDE DEF m
    <3>2. Prefix(m) \in Seq(DOMAIN nodes) /\ Len(Prefix(m)) = Upto(m)
      BY <3>1, <1>2
    <3>3. \A i \in 1..Upto(m) : Prefix(m)[i] = c[i]
      BY <3>1, <1>2
    <3>4. QED
      BY <3>1, <3>2, <3>3 DEF m
  <2>3. QED
    BY <1>1, <2>2, SeqEqual
<1>11. QED
  BY <1>8, <1>9, <1>10

-------------------------------------------------------------------------------
(* How the list changes *)

(* A list of nodes, position by position. *)
LEMMA ChainFacts ==
  ASSUME QueueAssumption, QueueInv
  PROVE  /\ Chain \in Seq(Alive) /\ Len(Chain) \in Nat /\ Len(Chain) >= 1 /\ Chain # <<>>
         /\ \A i \in 1..Len(Chain) : Chain[i] \in Alive
         /\ \A i, j \in 1..Len(Chain) : Chain[i] = Chain[j] => i = j
         /\ Chain[1] = head /\ head \in Alive
         /\ \A i \in 1..(Len(Chain) - 1) : heapNodes[Chain[i]].next = Chain[i + 1]
         /\ heapNodes[Chain[Len(Chain)]].next = NullNode
         /\ Range(Chain) = {Chain[i] : i \in 1..Len(Chain)}
         /\ Alive \subseteq Nodes /\ NullNode \notin Alive
<1>1. /\ Chain \in Seq(Alive) /\ Chain # <<>> /\ IsInjective(Chain) /\ Chain[1] = head
      /\ Alive \subseteq Nodes /\ NullNode \notin Alive
      /\ \A i \in 1..(Len(Chain) - 1) : heapNodes[Chain[i]].next = Chain[i + 1]
      /\ heapNodes[Chain[Len(Chain)]].next = NullNode
  BY DEF QueueInv, IsChain, Alive, QueueTypes, QueueAssumption
<1>2. /\ Len(Chain) \in Nat \ {0} /\ DOMAIN Chain = 1..Len(Chain)
      /\ \A i \in 1..Len(Chain) : Chain[i] \in Alive
  BY <1>1, EmptySeq, LenProperties, ElementOfSeq
<1>3. \A i, j \in 1..Len(Chain) : Chain[i] = Chain[j] => i = j
  BY <1>1, <1>2 DEF IsInjective
<1>4. Range(Chain) = {Chain[i] : i \in 1..Len(Chain)}
  BY <1>2 DEF Range
<1>5. head \in Alive /\ Len(Chain) >= 1
  <2>1. 1 \in 1..Len(Chain)
    BY <1>2
  <2>2. QED
    BY <1>1, <1>2, <2>1
<1>6. QED
  BY <1>1, <1>2, <1>3, <1>4, <1>5

(* The list stays the same while its nodes and their pointers do. *)
LEMMA ChainKept ==
  ASSUME QueueAssumption, QueueInv, UNCHANGED head, Alive' \subseteq Nodes,
         \A n \in Range(Chain) : n \in Alive' /\ heapNodes'[n].next = heapNodes[n].next
  PROVE  Chain' = Chain /\ IsChain(Chain, head, heapNodes)'
<1>1. IsChain(Chain, head', heapNodes')
  <2>1. \A i \in 1..Len(Chain) : Chain[i] \in Range(Chain)
    BY ChainFacts
  <2>2. Chain \in Seq(DOMAIN heapNodes')
    <3>1. \A i \in 1..Len(Chain) : Chain[i] \in DOMAIN heapNodes'
      BY <2>1 DEF Alive
    <3>2. Len(Chain) \in Nat /\ Chain \in [1..Len(Chain) -> Alive]
      BY ChainFacts, LenProperties
    <3>3. Chain \in [1..Len(Chain) -> DOMAIN heapNodes']
      BY <3>1, <3>2
    <3>4. QED
      BY <3>2, <3>3, SeqDef
  <2>3. Chain # <<>> /\ IsInjective(Chain) /\ Chain[1] = head'
    BY DEF QueueInv, IsChain
  <2>4. \A i \in 1..(Len(Chain) - 1) : heapNodes'[Chain[i]].next = Chain[i + 1]
    <3>1. ASSUME NEW i \in 1..(Len(Chain) - 1) PROVE heapNodes'[Chain[i]].next = Chain[i + 1]
      <4>1. i \in 1..Len(Chain) /\ heapNodes[Chain[i]].next = Chain[i + 1]
        BY ChainFacts
      <4>2. QED
        BY <2>1, <4>1
    <3>2. QED
      BY <3>1
  <2>5. heapNodes'[Chain[Len(Chain)]].next = NullNode
    <3>1. Len(Chain) \in 1..Len(Chain) /\ heapNodes[Chain[Len(Chain)]].next = NullNode
      BY ChainFacts
    <3>2. QED
      BY <2>1, <3>1
  <2>6. QED
    BY <2>2, <2>3, <2>4, <2>5 DEF IsChain
<1>2. ChainOf(head', heapNodes') = Chain
  BY <1>1, ChainFound DEF Alive
<1>3. QED
  BY <1>1, <1>2 DEF Chain

(* A producer links its node behind the last one. *)
LEMMA ChainLinked ==
  ASSUME QueueAssumption, QueueInv, NEW n \in Alive \ Range(Chain), heapNodes[n].next = NullNode,
         UNCHANGED <<head, Alive>>,
         \A m \in Alive : heapNodes'[m].next = IF m = Chain[Len(Chain)] THEN n ELSE heapNodes[m].next
  PROVE  Chain' = Append(Chain, n) /\ IsChain(Chain, head, heapNodes)'
<1> DEFINE d == Append(Chain, n)
<1>1. PICK k \in Nat : k = Len(Chain)
  BY ChainFacts
<1>2. /\ d \in Seq(Alive) /\ Len(d) = k + 1 /\ d # <<>>
      /\ \A i \in 1..k : d[i] = Chain[i]
      /\ d[k + 1] = n
  <2>1. Chain \in Seq(Alive) /\ n \in Alive
    BY ChainFacts
  <2>2. QED
    BY <1>1, <2>1, AppendProperties
<1>3. DOMAIN d = 1..(k + 1)
  BY <1>2, LenProperties
<1>4. /\ k >= 1 /\ Chain[1] = head /\ \A i \in 1..k : Chain[i] \in Alive \ {n}
      /\ \A i, j \in 1..k : Chain[i] = Chain[j] => i = j
      /\ \A i \in 1..(k - 1) : heapNodes[Chain[i]].next = Chain[i + 1]
  BY <1>1, ChainFacts
<1>5. \A m \in Alive : heapNodes'[m].next = IF m = Chain[k] THEN n ELSE heapNodes[m].next
  BY <1>1
<1>6. /\ \A i \in 1..k : d[i] = Chain[i]
      /\ d[k + 1] = n /\ d # <<>>
  BY <1>2
<1>7. d \in Seq(DOMAIN heapNodes')
  BY <1>2 DEF Alive
<1> HIDE DEF d
<1>8. IsInjective(d)
  BY <1>3, <1>4, <1>6 DEF IsInjective
<1>9. d[1] = head'
  BY <1>4, <1>6
<1>10. \A i \in 1..k : heapNodes'[d[i]].next = d[i + 1]
  <2>1. ASSUME NEW i \in 1..(k - 1) PROVE heapNodes'[d[i]].next = d[i + 1]
    <3>1. i \in 1..k /\ i + 1 \in 1..k /\ i # k /\ k \in 1..k
      BY <1>4
    <3>2. Chain[i] \in Alive /\ Chain[i] # Chain[k]
      BY <1>4, <3>1
    <3>3. QED
      BY <1>4, <1>5, <1>6, <3>1, <3>2
  <2>2. heapNodes'[d[k]].next = d[k + 1]
    <3>1. k \in 1..k
      BY <1>4
    <3>2. QED
      BY <1>4, <1>5, <1>6, <3>1
  <2>3. QED
    BY <2>1, <2>2
<1>11. heapNodes'[d[k + 1]].next = NullNode
  <2>1. k \in 1..k
    BY <1>4
  <2>2. n # Chain[k]
    BY <1>4, <2>1
  <2>3. QED
    BY <1>5, <1>6, <2>2
<1>12. IsChain(d, head', heapNodes')
  <2>1. Len(d) = k + 1
    BY <1>2 DEF d
  <2>2. /\ \A i \in 1..(Len(d) - 1) : heapNodes'[d[i]].next = d[i + 1]
        /\ heapNodes'[d[Len(d)]].next = NullNode
    BY <1>10, <1>11, <2>1
  <2>3. QED
    BY <1>6, <1>7, <1>8, <1>9, <2>2 DEF IsChain
<1>13. DOMAIN heapNodes' \subseteq Nodes
  BY ChainFacts DEF Alive
<1>14. QED
  BY <1>12, <1>13, ChainFound DEF Chain, d

(* A consumer moves _head on. *)
LEMMA ChainTaken ==
  ASSUME QueueAssumption, QueueInv, UNCHANGED heapNodes, Len(Chain) > 1, head' = Chain[2]
  PROVE  Chain' = Tail(Chain) /\ IsChain(Chain, head, heapNodes)'
<1> DEFINE d == Tail(Chain)
<1>1. PICK k \in Nat : k = Len(Chain) /\ k > 1
  BY ChainFacts
<1>2. Chain \in Seq(Alive) /\ Chain # <<>>
  BY ChainFacts
<1>3. /\ d \in Seq(Alive) /\ Len(d) = k - 1
      /\ \A i \in 1..(k - 1) : d[i] = Chain[i + 1]
  BY <1>1, <1>2, HeadTailProperties
<1>4. DOMAIN d = 1..(k - 1)
  BY <1>3, LenProperties
<1>5. \A i \in 1..(k - 1) : d[i] = Chain[i + 1]
  BY <1>3
<1>6. /\ \A i, j \in 1..k : Chain[i] = Chain[j] => i = j
      /\ \A i \in 1..(k - 1) : heapNodes[Chain[i]].next = Chain[i + 1]
      /\ heapNodes[Chain[k]].next = NullNode
  BY <1>1, ChainFacts
<1>7. d \in Seq(DOMAIN heapNodes') /\ d # <<>>
  <2>1. Len(d) = k - 1 /\ k - 1 # 0
    BY <1>1, <1>3, SMTT(30)
  <2>2. Len(<<>>) = 0
    BY EmptySeq
  <2>3. d # <<>>
    <3> HIDE DEF d
    <3>1. QED
      BY <2>1, <2>2
  <2>4. QED
    BY <1>3, <2>3 DEF Alive
<1>8. Len(d) = k - 1
  BY <1>3
<1> HIDE DEF d
<1>9. IsInjective(d)
  <2>1. ASSUME NEW i \in 1..(k - 1), NEW j \in 1..(k - 1), d[i] = d[j] PROVE i = j
    <3>1. i + 1 \in 1..k /\ j + 1 \in 1..k /\ Chain[i + 1] = Chain[j + 1]
      BY <1>5, <2>1
    <3>2. QED
      BY <1>6, <3>1
  <2>2. QED
    BY <1>4, <2>1 DEF IsInjective
<1>10. d[1] = head'
  BY <1>1, <1>5
<1>11. \A i \in 1..((k - 1) - 1) : heapNodes'[d[i]].next = d[i + 1]
  <2>1. ASSUME NEW i \in 1..((k - 1) - 1) PROVE heapNodes'[d[i]].next = d[i + 1]
    <3>1. i \in 1..(k - 1) /\ i + 1 \in 1..(k - 1)
      OBVIOUS
    <3>2. QED
      BY <1>5, <1>6, <3>1
  <2>2. QED
    BY <2>1
<1>12. heapNodes'[d[k - 1]].next = NullNode
  <2>1. k - 1 \in 1..(k - 1) /\ (k - 1) + 1 = k
    BY <1>1
  <2>2. d[k - 1] = Chain[k]
    BY <1>5, <2>1
  <2>3. QED
    BY <1>6, <2>2
<1>13. IsChain(d, head', heapNodes')
  <2>1. /\ \A i \in 1..(Len(d) - 1) : heapNodes'[d[i]].next = d[i + 1]
        /\ heapNodes'[d[Len(d)]].next = NullNode
    BY <1>8, <1>11, <1>12
  <2>2. QED
    BY <1>7, <1>9, <1>10, <2>1 DEF IsChain
<1>14. DOMAIN heapNodes' \subseteq Nodes
  BY ChainFacts DEF Alive
<1>15. QED
  BY <1>13, <1>14, ChainFound DEF Chain, d

-------------------------------------------------------------------------------
(* The invariant is inductive *)

(* What the calls know when they use a node. *)
LEMMA NodesInHand ==
  ASSUME QueueAssumption, QueueInv, NEW t \in Threads
  PROVE  /\ OwnsNode(t) => node[t] \in Alive \ Range(Chain)
         /\ qPc[t] = "link" => tail = Chain[Len(Chain)] /\ tail \in Alive
         /\ qPc[t] = "take" => after[t] \in Alive /\ after[t] = Chain[2] /\ Len(Chain) > 1
<1>1. QueueTypes /\ LocksExclude /\ NodesApart /\ TailLast /\ TakesNext
  BY DEF QueueInv
<1>2. ASSUME qPc[t] = "link" PROVE tail = Chain[Len(Chain)] /\ tail \in Alive
  <2>1. \A u \in Threads : qPc[u] # "moveTail"
    BY <1>1, <1>2 DEF LocksExclude, HoldsProducers
  <2>2. Len(Chain) \in 1..Len(Chain)
    BY ChainFacts
  <2>3. Chain[Len(Chain)] \in Alive
    BY <2>2, ChainFacts
  <2>4. QED
    BY <1>1, <2>1, <2>3 DEF TailLast
<1>3. ASSUME qPc[t] = "take"
      PROVE  after[t] \in Alive /\ after[t] = Chain[2] /\ Len(Chain) > 1
  <2>1. after[t] = Chain[2] /\ Len(Chain) > 1
    BY <1>1, <1>3 DEF TakesNext
  <2>2. 2 \in 1..Len(Chain)
    BY <2>1, ChainFacts
  <2>3. QED
    BY <2>1, <2>2, ChainFacts
<1>4. QED
  BY <1>1, <1>2, <1>3 DEF NodesApart

(* Every statement keeps the types. *)
LEMMA QueueTypesStep ==
  ASSUME QueueAssumption, QueueInv, QueueNext
  PROVE  QueueTypes'
<1> USE DEF QueueTypes, Alive, Step, QueuePcs
<1>1. QueueTypes /\ head \in Alive
  BY ChainFacts DEF QueueInv
<1>2. PICK t \in Threads :
        \/ \E v \in Values : NewNode(t, v)
        \/ LockProducers(t) \/ Link(t) \/ MoveTail(t) \/ UnlockProducers(t)
        \/ LockConsumers(t) \/ ReadNext(t) \/ GiveUp(t)
        \/ TakeValue(t) \/ UnlockConsumers(t) \/ DeleteHead(t)
  BY DEF QueueNext
<1>3. ASSUME NEW v \in Values, NewNode(t, v) PROVE QueueTypes'
  BY <1>1, <1>3 DEF NewNode
<1>4. CASE LockProducers(t) \/ UnlockProducers(t)
  BY <1>1, <1>4 DEF LockProducers, UnlockProducers
<1>5. CASE Link(t)
  <2>1. node[t] \in Nodes
    BY <1>1, <1>5, NodesInHand DEF Link, OwnsNode
  <2>2. heapNodes' \in [Alive -> [value : Values \union {Nothing}, next : Nodes \union {NullNode}]]
    BY <1>1, <1>5, <2>1 DEF Link
  <2>3. QED
    BY <1>1, <1>5, <2>2 DEF Link
<1>6. CASE MoveTail(t)
  BY <1>1, <1>6 DEF MoveTail
<1>7. CASE LockConsumers(t) \/ GiveUp(t) \/ UnlockConsumers(t)
  BY <1>1, <1>7 DEF LockConsumers, GiveUp, UnlockConsumers
<1>8. CASE ReadNext(t)
  BY <1>1, <1>8 DEF ReadNext
<1>9. CASE TakeValue(t)
  <2>1. after[t] \in Alive
    BY <1>9, NodesInHand DEF TakeValue
  <2>2. QED
    BY <1>1, <1>9, <2>1 DEF TakeValue
<1>10. CASE DeleteHead(t)
  BY <1>1, <1>10 DEF DeleteHead
<1>11. QED
  BY <1>2, <1>3, <1>4, <1>5, <1>6, <1>7, <1>8, <1>9, <1>10

(* Every statement keeps to one holder of each lock. *)
LEMMA QueueLocksStep ==
  ASSUME QueueInv, QueueNext
  PROVE  LocksExclude'
<1>1. LocksExclude /\ qPc \in [Threads -> QueuePcs]
  BY DEF QueueInv, QueueTypes
<1> USE DEF LocksExclude, HoldsProducers, HoldsConsumers, Step
<1>2. PICK t \in Threads :
        \/ \E v \in Values : NewNode(t, v)
        \/ LockProducers(t) \/ Link(t) \/ MoveTail(t) \/ UnlockProducers(t)
        \/ LockConsumers(t) \/ ReadNext(t) \/ GiveUp(t)
        \/ TakeValue(t) \/ UnlockConsumers(t) \/ DeleteHead(t)
  BY DEF QueueNext
<1>3. CASE (\E v \in Values : NewNode(t, v)) \/ LockProducers(t)
  BY <1>1, <1>3 DEF NewNode, LockProducers
<1>4. CASE Link(t) \/ MoveTail(t) \/ UnlockProducers(t)
  BY <1>1, <1>4 DEF Link, MoveTail, UnlockProducers
<1>5. CASE LockConsumers(t) \/ GiveUp(t)
  BY <1>1, <1>5 DEF LockConsumers, GiveUp
<1>6. CASE ReadNext(t)
  BY <1>1, <1>6 DEF ReadNext
<1>7. CASE TakeValue(t) \/ UnlockConsumers(t) \/ DeleteHead(t)
  BY <1>1, <1>7 DEF TakeValue, UnlockConsumers, DeleteHead
<1>8. QED
  BY <1>2, <1>3, <1>4, <1>5, <1>6, <1>7

(* A node is the only one in the list when no pointer leads from it. *)
LEMMA NextOfHead ==
  ASSUME QueueAssumption, QueueInv
  PROVE  /\ heapNodes[head].next = NullNode => Len(Chain) = 1
         /\ heapNodes[head].next # NullNode =>
              Len(Chain) > 1 /\ heapNodes[head].next = Chain[2]
<1>1. PICK k \in Nat :
        /\ k = Len(Chain) /\ k >= 1 /\ Chain[1] = head /\ NullNode \notin Alive
        /\ \A i \in 1..k : Chain[i] \in Alive
        /\ \A i \in 1..(k - 1) : heapNodes[Chain[i]].next = Chain[i + 1]
        /\ heapNodes[Chain[k]].next = NullNode
  BY ChainFacts
<1>2. ASSUME k > 1 PROVE heapNodes[head].next = Chain[2] /\ Chain[2] \in Alive
  <2>1. 1 \in 1..(k - 1) /\ 2 \in 1..k /\ 1 + 1 = 2
    BY <1>1, <1>2
  <2>2. QED
    BY <1>1, <2>1
<1>3. ASSUME ~(k > 1) PROVE k = 1 /\ heapNodes[head].next = NullNode
  BY <1>1, <1>3
<1>4. QED
  BY <1>1, <1>2, <1>3

(* The statements that change neither the list nor who owns a node. *)
LEMMA QuietStep ==
  ASSUME QueueAssumption, QueueInv, QueueTypes', NEW t \in Threads,
         \/ LockProducers(t) \/ MoveTail(t) \/ UnlockProducers(t) \/ LockConsumers(t)
         \/ ReadNext(t) \/ GiveUp(t) \/ UnlockConsumers(t)
  PROVE  /\ Chain' = Chain /\ IsChain(Chain, head, heapNodes)'
         /\ NodesApart' /\ NodesReady' /\ TailLast' /\ TakesNext'
<1> USE DEF Step
<1>1. /\ QueueTypes /\ LocksExclude /\ NodesApart /\ NodesReady /\ TailLast /\ TakesNext
      /\ Alive \subseteq Nodes
  BY DEF QueueInv, QueueTypes
<1>2. /\ UNCHANGED <<heapNodes, head, Alive>>
      /\ \A u \in Threads \ {t} : qPc'[u] = qPc[u] /\ node'[u] = node[u] /\ after'[u] = after[u]
  BY <1>1 DEF QueueTypes, LockProducers, MoveTail, UnlockProducers, LockConsumers, ReadNext,
              GiveUp, UnlockConsumers, Alive
<1>3. Chain' = Chain /\ IsChain(Chain, head, heapNodes)'
  <2>1. Range(Chain) \subseteq Alive
    BY <1>1, ChainFacts
  <2>2. QED
    BY <1>1, <1>2, <2>1, ChainKept
<1>4. \A u \in Threads : (OwnsNode(u)' <=> OwnsNode(u)) /\ (OwnsNode(u) => node'[u] = node[u])
  <2>1. (OwnsNode(t)' <=> OwnsNode(t)) /\ (OwnsNode(t) => node'[t] = node[t])
    BY <1>1 DEF QueueTypes, OwnsNode, LockProducers, MoveTail, UnlockProducers, LockConsumers,
                ReadNext, GiveUp, UnlockConsumers
  <2>2. QED
    BY <1>2, <2>1 DEF OwnsNode
<1>5. NodesApart'
  BY <1>1, <1>2, <1>3, <1>4 DEF NodesApart
<1>6. NodesReady'
  <2>1. \A u \in Threads : qPc'[u] \in {"lockProducers", "link"} =>
          qPc[u] \in {"lockProducers", "link"} /\ OwnsNode(u)
    BY <1>1 DEF QueueTypes, OwnsNode, LockProducers, MoveTail, UnlockProducers, LockConsumers,
                ReadNext, GiveUp, UnlockConsumers
  <2>2. QED
    BY <1>1, <1>2, <1>4, <2>1 DEF NodesReady
<1>7. TailLast'
  <2> DEFINE last == Chain[Len(Chain)]
  <2>1. (Chain[Len(Chain)])' = last
    BY <1>3
  <2>2. CASE MoveTail(t)
    <3>1. tail' = last /\ qPc[t] = "moveTail" /\ qPc'[t] = "unlockProducers"
      BY <1>1, <2>2 DEF TailLast, MoveTail, QueueTypes
    <3>2. \A u \in Threads : qPc'[u] # "moveTail"
      BY <1>1, <1>2, <3>1 DEF LocksExclude, HoldsProducers
    <3>3. QED
      BY <2>1, <3>1, <3>2 DEF TailLast
  <2>3. CASE ~MoveTail(t)
    <3>1. /\ qPc[t] # "moveTail" /\ qPc'[t] # "moveTail" /\ UNCHANGED tail
      BY <1>1, <2>3 DEF QueueTypes, LockProducers, UnlockProducers, LockConsumers, ReadNext,
                        GiveUp, UnlockConsumers
    <3> HIDE DEF last
    <3>2. /\ \A u \in Threads : qPc[u] = "moveTail" => node[u] = last
          /\ (\A u \in Threads : qPc[u] # "moveTail") => tail = last
      BY <1>1 DEF TailLast, last
    <3>3. /\ \A u \in Threads : qPc'[u] = "moveTail" => node'[u] = last
          /\ (\A u \in Threads : qPc'[u] # "moveTail") => tail' = last
      BY <1>2, <3>1, <3>2
    <3>4. QED
      BY <2>1, <3>3 DEF TailLast
  <2>4. QED
    BY <2>2, <2>3
<1>8. TakesNext'
  <2>1. CASE ReadNext(t) /\ qPc'[t] = "take"
    <3>1. node'[t] = head' /\ after'[t] = heapNodes[head].next /\ after'[t] # NullNode
      BY <1>1, <2>1 DEF ReadNext, QueueTypes
    <3>2. Len(Chain) > 1 /\ after'[t] = Chain[2]
      BY <3>1, NextOfHead
    <3>3. \A u \in Threads \ {t} : qPc'[u] # "take"
      BY <1>1, <1>2, <2>1 DEF LocksExclude, HoldsConsumers, ReadNext
    <3>4. QED
      BY <1>3, <3>1, <3>2, <3>3 DEF TakesNext
  <2>2. CASE ~(ReadNext(t) /\ qPc'[t] = "take")
    <3>1. qPc'[t] # "take"
      BY <1>1, <2>2 DEF QueueTypes, LockProducers, MoveTail, UnlockProducers, LockConsumers,
                        ReadNext, GiveUp, UnlockConsumers
    <3>2. QED
      BY <1>1, <1>2, <1>3, <3>1 DEF TakesNext
  <2>3. QED
    BY <2>1, <2>2
<1>9. QED
  BY <1>3, <1>5, <1>6, <1>7, <1>8

(* enQ()'s new node is nobody else's. *)
LEMMA NewNodeStep ==
  ASSUME QueueAssumption, QueueInv, QueueTypes', NEW t \in Threads, NEW v \in Values, NewNode(t, v)
  PROVE  /\ Chain' = Chain /\ IsChain(Chain, head, heapNodes)'
         /\ NodesApart' /\ NodesReady' /\ TailLast' /\ TakesNext'
<1> USE DEF Step
<1>1. /\ QueueTypes /\ NodesApart /\ NodesReady /\ TailLast /\ TakesNext
      /\ Range(Chain) \subseteq Alive
  BY ChainFacts DEF QueueInv
<1>2. PICK n \in Nodes \ Alive :
        /\ heapNodes' = [m \in Alive \union {n} |->
             IF m = n THEN [value |-> v, next |-> NullNode] ELSE heapNodes[m]]
        /\ node' = [node EXCEPT ![t] = n]
  BY DEF NewNode
<1>3. /\ Alive' = Alive \union {n} /\ Alive' \subseteq Nodes
      /\ heapNodes'[n] = [value |-> v, next |-> NullNode]
      /\ \A m \in Alive : heapNodes'[m] = heapNodes[m]
  BY <1>2 DEF Alive, QueueTypes
<1>4. /\ qPc[t] = "idle" /\ qPc'[t] = "lockProducers" /\ node'[t] = n
      /\ \A u \in Threads \ {t} : qPc'[u] = qPc[u] /\ node'[u] = node[u]
      /\ UNCHANGED <<head, tail, after>>
  BY <1>1, <1>2 DEF NewNode, QueueTypes
<1>5. Chain' = Chain /\ IsChain(Chain, head, heapNodes)'
  BY <1>1, <1>3, <1>4, ChainKept
<1>6. \A u \in Threads \ {t} :
        /\ OwnsNode(u)' <=> OwnsNode(u)
        /\ OwnsNode(u) => node'[u] \in Alive \ Range(Chain)
  BY <1>1, <1>4 DEF NodesApart, OwnsNode
<1>7. NodesApart'
  <2>1. n \notin Range(Chain) /\ OwnsNode(t)' /\ ~OwnsNode(t)
    BY <1>1, <1>4 DEF OwnsNode
  <2>2. (Range(Chain))' = Range(Chain)
    BY <1>5
  <2>3. \A u \in Threads : OwnsNode(u)' => node'[u] \in Alive' \ Range(Chain)
    BY <1>3, <1>4, <1>6, <2>1
  <2>4. \A u, w \in Threads : OwnsNode(u)' /\ OwnsNode(w)' /\ node'[u] = node'[w] => u = w
    BY <1>1, <1>4, <1>6 DEF NodesApart
  <2>5. Alive' \subseteq Range(Chain) \union {node'[u] : u \in {w \in Threads : OwnsNode(w)'}}
    BY <1>1, <1>3, <1>4, <1>6, <2>1 DEF NodesApart
  <2>6. QED
    BY <2>2, <2>3, <2>4, <2>5 DEF NodesApart
<1>8. NodesReady'
  <2>1. ASSUME NEW u \in Threads \ {t}, qPc'[u] \in {"lockProducers", "link"}
        PROVE  heapNodes'[node'[u]].next = NullNode /\ heapNodes'[node'[u]].value \in Values
    <3>1. node'[u] = node[u] /\ node[u] \in Alive /\ qPc[u] \in {"lockProducers", "link"}
      BY <1>1, <1>4, <2>1 DEF NodesApart, OwnsNode
    <3>2. heapNodes'[node'[u]] = heapNodes[node[u]]
      BY <1>3, <3>1
    <3>3. QED
      BY <1>1, <3>1, <3>2 DEF NodesReady
  <2>2. heapNodes'[node'[t]].next = NullNode /\ heapNodes'[node'[t]].value \in Values
    BY <1>3, <1>4
  <2>3. QED
    BY <2>1, <2>2 DEF NodesReady
<1>9. TailLast' /\ TakesNext'
  BY <1>1, <1>4, <1>5 DEF TailLast, TakesNext
<1>10. QED
  BY <1>5, <1>7, <1>8, <1>9

(* The linked node is the last of the list from then on. *)
LEMMA LinkNodeStep ==
  ASSUME QueueAssumption, QueueInv, QueueTypes', NEW t \in Threads, Link(t)
  PROVE  /\ Chain' = Append(Chain, node[t]) /\ IsChain(Chain, head, heapNodes)'
         /\ NodesApart' /\ NodesReady' /\ TailLast' /\ TakesNext'
         /\ node[t] \in Alive \ Range(Chain) /\ heapNodes[node[t]].value \in Values
         /\ Alive' = Alive /\ \A m \in Alive : heapNodes'[m].value = heapNodes[m].value
<1> USE DEF Step
<1>1. /\ QueueTypes /\ LocksExclude /\ NodesApart /\ NodesReady /\ TailLast /\ TakesNext
  BY DEF QueueInv
<1>2. /\ qPc[t] = "link" /\ qPc'[t] = "moveTail"
      /\ \A u \in Threads \ {t} : qPc'[u] = qPc[u]
      /\ UNCHANGED <<head, tail, node, after>>
  BY <1>1 DEF Link, QueueTypes
<1>3. tail = Chain[Len(Chain)] /\ tail \in Alive /\ node[t] \in Alive \ Range(Chain)
  BY <1>2, NodesInHand DEF OwnsNode
<1>4. heapNodes[node[t]].next = NullNode /\ heapNodes[node[t]].value \in Values
  BY <1>1, <1>2 DEF NodesReady
<1>5. Alive' = Alive /\ \A m \in Alive :
        /\ heapNodes'[m].value = heapNodes[m].value
        /\ heapNodes'[m].next = IF m = tail THEN node[t] ELSE heapNodes[m].next
  BY <1>1 DEF Link, Alive, QueueTypes
<1>6. Chain' = Append(Chain, node[t]) /\ IsChain(Chain, head, heapNodes)'
  <2>1. \A m \in Alive :
          heapNodes'[m].next = IF m = Chain[Len(Chain)] THEN node[t] ELSE heapNodes[m].next
    BY <1>3, <1>5
  <2>2. UNCHANGED <<head, Alive>>
    BY <1>2, <1>5
  <2>3. PICK n \in Alive \ Range(Chain) : n = node[t]
    BY <1>3
  <2>4. /\ heapNodes[n].next = NullNode
        /\ \A m \in Alive :
             heapNodes'[m].next = IF m = Chain[Len(Chain)] THEN n ELSE heapNodes[m].next
    BY <1>4, <2>1, <2>3
  <2>5. Chain' = Append(Chain, n) /\ IsChain(Chain, head, heapNodes)'
    BY <2>2, <2>4, ChainLinked
  <2>6. QED
    BY <2>3, <2>5
<1>7. /\ Range(Chain)' = Range(Chain) \union {node[t]}
      /\ (Chain[Len(Chain)])' = node[t]
      /\ (Chain[2])' = Chain[2] \/ Len(Chain) = 1
      /\ Len(Chain)' = Len(Chain) + 1
  <2>1. Chain \in Seq(Alive) /\ node[t] \in Alive
    BY <1>3, ChainFacts
  <2>2. PICK k \in Nat : k = Len(Chain) /\ k >= 1
    BY ChainFacts
  <2> DEFINE d == Append(Chain, node[t])
  <2>3. /\ d \in Seq(Alive) /\ Len(d) = k + 1
        /\ \A i \in 1..k : d[i] = Chain[i]
        /\ d[k + 1] = node[t]
    BY <2>1, <2>2, AppendProperties
  <2>4. DOMAIN d = 1..(k + 1)
    BY <2>3, LenProperties
  <2>5. Len(d) = k + 1 /\ \A i \in 1..k : d[i] = Chain[i] /\ d[k + 1] = node[t]
    BY <2>3
  <2>5a. d[k + 1] = node[t]
    BY <2>3
  <2> HIDE DEF d
  <2>6. Range(Chain) = {Chain[i] : i \in 1..k}
    BY <2>2, ChainFacts
  <2>7. Range(d) = {d[i] : i \in 1..(k + 1)}
    BY <2>4 DEF Range
  <2>8. Range(d) = Range(Chain) \union {node[t]}
    <3>1. \A i \in 1..(k + 1) : i \in 1..k \/ i = k + 1
      BY <2>2
    <3>2. \A i \in 1..k : i \in 1..(k + 1)
      BY <2>2
    <3>3. k + 1 \in 1..(k + 1)
      BY <2>2
    <3>4. QED
      BY <2>5, <2>5a, <2>6, <2>7, <3>1, <3>2, <3>3
  <2>9. d[2] = Chain[2] \/ k = 1
    <3>1. k = 1 \/ 2 \in 1..k
      BY <2>2
    <3>2. QED
      BY <2>5, <3>1
  <2>10. d[Len(d)] = node[t] /\ Len(d) = Len(Chain) + 1
    BY <2>2, <2>5, <2>5a
  <2>11. Chain' = d
    BY <1>6 DEF d
  <2>12. QED
    BY <2>2, <2>8, <2>9, <2>10, <2>11
<1>8. NodesApart'
  <2>1. \A u \in Threads \ {t} : OwnsNode(u)' <=> OwnsNode(u)
    BY <1>2 DEF OwnsNode
  <2>2. OwnsNode(t) /\ ~OwnsNode(t)'
    BY <1>2 DEF OwnsNode
  <2>3. \A u \in Threads : OwnsNode(u)' => node'[u] \in Alive' \ Range(Chain)'
    BY <1>1, <1>2, <1>5, <1>7, <2>1, <2>2 DEF NodesApart
  <2>4. \A u, w \in Threads : OwnsNode(u)' /\ OwnsNode(w)' /\ node'[u] = node'[w] => u = w
    BY <1>1, <1>2, <2>1, <2>2 DEF NodesApart
  <2>5. Alive' \subseteq Range(Chain)' \union {node'[u] : u \in {w \in Threads : OwnsNode(w)'}}
    BY <1>1, <1>2, <1>5, <1>7, <2>1, <2>2 DEF NodesApart
  <2>6. QED
    BY <2>3, <2>4, <2>5 DEF NodesApart
<1>9. NodesReady'
  <2>1. ASSUME NEW u \in Threads, qPc'[u] \in {"lockProducers", "link"}
        PROVE  heapNodes'[node'[u]].next = NullNode /\ heapNodes'[node'[u]].value \in Values
    <3>1. u # t /\ qPc[u] \in {"lockProducers", "link"} /\ node'[u] = node[u]
      BY <1>2, <2>1
    <3>2. node[u] \in Alive \ Range(Chain)
      BY <1>1, <3>1 DEF NodesApart, OwnsNode
    <3>3. Len(Chain) \in 1..Len(Chain) /\ Range(Chain) = {Chain[i] : i \in 1..Len(Chain)}
      BY ChainFacts
    <3>4. tail \in Range(Chain)
      BY <1>3, <3>3
    <3>5. heapNodes'[node[u]].next = heapNodes[node[u]].next
      BY <1>5, <3>2, <3>4
    <3>6. QED
      BY <1>1, <1>5, <3>1, <3>2, <3>5 DEF NodesReady
  <2>2. QED
    BY <2>1 DEF NodesReady
<1>10. TailLast'
  <2>1. \A u \in Threads : qPc'[u] = "moveTail" => node'[u] = node[t]
    BY <1>1, <1>2 DEF LocksExclude, HoldsProducers
  <2>2. QED
    BY <1>2, <1>7, <2>1 DEF TailLast
<1>11. TakesNext'
  <2>1. ASSUME NEW u \in Threads, qPc'[u] = "take"
        PROVE  node'[u] = head' /\ Len(Chain)' > 1 /\ after'[u] = (Chain[2])'
    <3>1. qPc[u] = "take"
      BY <1>2, <2>1
    <3>2. node[u] = head /\ Len(Chain) > 1 /\ after[u] = Chain[2]
      BY <1>1, <3>1 DEF TakesNext
    <3>3. Len(Chain) \in Nat
      BY ChainFacts
    <3>4. Len(Chain)' > 1 /\ (Chain[2])' = Chain[2]
      BY <1>7, <3>2, <3>3
    <3>5. QED
      BY <1>2, <3>2, <3>4
  <2>2. QED
    BY <2>1 DEF TakesNext
<1>12. QED
  BY <1>3, <1>4, <1>5, <1>6, <1>8, <1>9, <1>10, <1>11

(* The old dummy leaves the list, and the consumer has it to itself. *)
LEMMA TakeStep ==
  ASSUME QueueAssumption, QueueInv, QueueTypes', NEW t \in Threads, TakeValue(t)
  PROVE  /\ Chain' = Tail(Chain) /\ IsChain(Chain, head, heapNodes)' /\ Len(Chain) > 1
         /\ NodesApart' /\ NodesReady' /\ TailLast' /\ TakesNext'
<1> USE DEF Step
<1>1. QueueTypes /\ LocksExclude /\ NodesApart /\ NodesReady /\ TailLast /\ TakesNext
  BY DEF QueueInv
<1>2. /\ qPc[t] = "take" /\ qPc'[t] = "unlockConsumers"
      /\ \A u \in Threads \ {t} : qPc'[u] = qPc[u]
      /\ UNCHANGED <<heapNodes, tail, node, Alive>> /\ head' = after[t]
  BY <1>1 DEF TakeValue, QueueTypes, Alive
<1>3. node[t] = head /\ Len(Chain) > 1 /\ after[t] = Chain[2]
  BY <1>1, <1>2 DEF TakesNext
<1>4. Chain' = Tail(Chain) /\ IsChain(Chain, head, heapNodes)'
  BY <1>2, <1>3, ChainTaken
<1>5. /\ Range(Chain)' = Range(Chain) \ {head}
      /\ (Chain[Len(Chain)])' = Chain[Len(Chain)]
      /\ head \in Range(Chain)
  <2>1. Chain \in Seq(Alive) /\ Chain # <<>>
    BY ChainFacts
  <2>2. PICK k \in Nat : k = Len(Chain) /\ k > 1
    BY <1>3, ChainFacts
  <2> DEFINE d == Tail(Chain)
  <2>3. /\ d \in Seq(Alive) /\ Len(d) = k - 1
        /\ \A i \in 1..(k - 1) : d[i] = Chain[i + 1]
    BY <2>1, <2>2, HeadTailProperties
  <2>4. DOMAIN d = 1..(k - 1)
    BY <2>3, LenProperties
  <2>5. Len(d) = k - 1 /\ \A i \in 1..(k - 1) : d[i] = Chain[i + 1]
    BY <2>3
  <2> HIDE DEF d
  <2>6. /\ Range(Chain) = {Chain[i] : i \in 1..k}
        /\ Chain[1] = head
        /\ \A i, j \in 1..k : Chain[i] = Chain[j] => i = j
    BY <2>2, ChainFacts
  <2>7. Range(d) = {d[i] : i \in 1..(k - 1)}
    BY <2>4 DEF Range
  <2>8. Range(d) = Range(Chain) \ {head}
    <3>1. \A i \in 1..k : i = 1 \/ (i - 1 \in 1..(k - 1) /\ (i - 1) + 1 = i)
      BY <2>2
    <3>2. \A i \in 1..(k - 1) : i + 1 \in 1..k /\ i + 1 # 1
      BY <2>2
    <3>3. 1 \in 1..k
      BY <2>2
    <3>4. ASSUME NEW x \in Range(d) PROVE x \in Range(Chain) \ {head}
      <4>1. PICK i \in 1..(k - 1) : x = d[i]
        BY <2>7
      <4>2. QED
        BY <2>5, <2>6, <3>2, <3>3, <4>1
    <3>5. ASSUME NEW x \in Range(Chain) \ {head} PROVE x \in Range(d)
      <4>1. PICK i \in 1..k : x = Chain[i]
        BY <2>6
      <4>2. i # 1
        BY <2>6, <4>1
      <4>3. i - 1 \in 1..(k - 1) /\ d[i - 1] = Chain[i]
        BY <2>5, <3>1, <4>2
      <4>4. QED
        BY <2>7, <4>1, <4>3
    <3>6. QED
      BY <3>4, <3>5
  <2>9. d[Len(d)] = Chain[Len(Chain)]
    <3>1. k - 1 \in 1..(k - 1) /\ (k - 1) + 1 = k
      BY <2>2
    <3>2. d[k - 1] = Chain[k]
      BY <2>5, <3>1
    <3>3. QED
      BY <2>2, <2>5, <3>2
  <2>10. head \in Range(Chain)
    BY <2>2, <2>6
  <2>11. Chain' = d
    BY <1>4 DEF d
  <2>12. QED
    BY <2>8, <2>9, <2>10, <2>11
<1>6. NodesApart'
  <2>1. \A u \in Threads \ {t} : OwnsNode(u)' <=> OwnsNode(u)
    BY <1>2 DEF OwnsNode
  <2>2. ~OwnsNode(t) /\ OwnsNode(t)' /\ node'[t] = head
    BY <1>2, <1>3 DEF OwnsNode
  <2>3. head \in Alive
    BY ChainFacts
  <2>4. \A u \in Threads : OwnsNode(u)' => node'[u] \in Alive' \ Range(Chain)'
    BY <1>1, <1>2, <1>5, <2>1, <2>2, <2>3 DEF NodesApart
  <2>5. \A u, w \in Threads : OwnsNode(u)' /\ OwnsNode(w)' /\ node'[u] = node'[w] => u = w
    BY <1>1, <1>2, <1>5, <2>1, <2>2 DEF NodesApart
  <2>6. Alive' \subseteq Range(Chain)' \union {node'[u] : u \in {w \in Threads : OwnsNode(w)'}}
    BY <1>1, <1>2, <1>5, <2>1, <2>2 DEF NodesApart
  <2>7. QED
    BY <2>4, <2>5, <2>6 DEF NodesApart
<1>7. NodesReady'
  <2>1. \A u \in Threads : qPc'[u] \in {"lockProducers", "link"} => qPc'[u] = qPc[u]
    BY <1>2
  <2>2. QED
    BY <1>1, <1>2, <2>1 DEF NodesReady
<1>8. TailLast'
  <2>1. \A u \in Threads : qPc'[u] = "moveTail" <=> qPc[u] = "moveTail"
    BY <1>2
  <2>2. QED
    BY <1>1, <1>2, <1>5, <2>1 DEF TailLast
<1>9. TakesNext'
  <2>1. \A u \in Threads : qPc'[u] # "take"
    BY <1>1, <1>2 DEF LocksExclude, HoldsConsumers
  <2>2. QED
    BY <2>1 DEF TakesNext
<1>10. QED
  BY <1>3, <1>4, <1>6, <1>7, <1>8, <1>9

(* The deleted node was nobody else's. *)
LEMMA DeleteStep ==
  ASSUME QueueAssumption, QueueInv, QueueTypes', NEW t \in Threads, DeleteHead(t)
  PROVE  /\ Chain' = Chain /\ IsChain(Chain, head, heapNodes)'
         /\ NodesApart' /\ NodesReady' /\ TailLast' /\ TakesNext'
         /\ \A n \in Range(Chain) : heapNodes'[n] = heapNodes[n]
<1> USE DEF Step
<1>1. /\ QueueTypes /\ NodesApart /\ NodesReady /\ TailLast /\ TakesNext
      /\ Range(Chain) \subseteq Alive
  BY ChainFacts DEF QueueInv
<1>2. /\ qPc[t] = "delete" /\ qPc'[t] = "idle"
      /\ \A u \in Threads \ {t} : qPc'[u] = qPc[u] /\ node'[u] = node[u]
      /\ UNCHANGED <<head, tail, after>>
  BY <1>1 DEF DeleteHead, QueueTypes
<1>3. node[t] \in Alive \ Range(Chain)
  BY <1>2, NodesInHand DEF OwnsNode
<1>4. Alive' = Alive \ {node[t]} /\ \A n \in Alive' : heapNodes'[n] = heapNodes[n]
  BY DEF DeleteHead, Alive
<1>5. Chain' = Chain /\ IsChain(Chain, head, heapNodes)'
  <2>1. Alive' \subseteq Nodes /\ UNCHANGED head
    BY <1>1, <1>2, <1>4 DEF QueueTypes
  <2>2. \A n \in Range(Chain) : n \in Alive' /\ heapNodes'[n].next = heapNodes[n].next
    BY <1>1, <1>3, <1>4
  <2>3. QED
    BY <2>1, <2>2, ChainKept
<1>6. /\ OwnsNode(t) /\ ~OwnsNode(t)'
      /\ \A u \in Threads \ {t} : OwnsNode(u)' <=> OwnsNode(u)
  BY <1>2 DEF OwnsNode
<1>7. NodesApart'
  <2>1. \A u \in Threads : OwnsNode(u)' =>
          /\ u # t /\ OwnsNode(u) /\ node'[u] = node[u] /\ node[u] # node[t]
    BY <1>1, <1>2, <1>6 DEF NodesApart
  <2>2. \A u \in Threads : OwnsNode(u)' => node'[u] \in Alive' \ Range(Chain)'
    BY <1>1, <1>4, <1>5, <2>1 DEF NodesApart
  <2>3. \A u, w \in Threads : OwnsNode(u)' /\ OwnsNode(w)' /\ node'[u] = node'[w] => u = w
    BY <1>1, <2>1 DEF NodesApart
  <2>4. Alive' \subseteq Range(Chain)' \union {node'[u] : u \in {w \in Threads : OwnsNode(w)'}}
    BY <1>1, <1>2, <1>4, <1>5, <1>6 DEF NodesApart
  <2>5. QED
    BY <2>2, <2>3, <2>4 DEF NodesApart
<1>8. NodesReady'
  <2>1. ASSUME NEW u \in Threads, qPc'[u] \in {"lockProducers", "link"}
        PROVE  heapNodes'[node'[u]].next = NullNode /\ heapNodes'[node'[u]].value \in Values
    <3>1. u # t /\ qPc[u] \in {"lockProducers", "link"} /\ node'[u] = node[u]
      BY <1>2, <2>1
    <3>2. node[u] \in Alive /\ node[u] # node[t]
      BY <1>1, <1>6, <3>1 DEF NodesApart, OwnsNode
    <3>3. heapNodes'[node[u]] = heapNodes[node[u]]
      BY <1>4, <3>2
    <3>4. QED
      BY <1>1, <3>1, <3>3 DEF NodesReady
  <2>2. QED
    BY <2>1 DEF NodesReady
<1>9. TailLast' /\ TakesNext'
  BY <1>1, <1>2, <1>5 DEF TailLast, TakesNext
<1>10. QED
  BY <1>1, <1>3, <1>4, <1>5, <1>7, <1>8, <1>9

(* The first state has the dummy and nothing else. *)
LEMMA QueueInvInit == ASSUME QueueAssumption, QueueInit PROVE QueueInv
<1>1. PICK dummy \in Nodes :
        /\ heapNodes = [n \in {dummy} |-> [value |-> Nothing, next |-> NullNode]]
        /\ head = dummy /\ tail = dummy
  BY DEF QueueInit
<1>2. /\ consumerLock = FALSE /\ producerLock = FALSE
      /\ qPc = [t \in Threads |-> "idle"]
      /\ node = [t \in Threads |-> NullNode]
      /\ after = [t \in Threads |-> NullNode]
      /\ result = [t \in Threads |-> Nothing]
  BY DEF QueueInit
<1>3. Alive = {dummy} /\ heapNodes[dummy] = [value |-> Nothing, next |-> NullNode]
  BY <1>1 DEF Alive
<1>4. QueueTypes
  BY <1>1, <1>2, <1>3 DEF QueueTypes, QueuePcs, Alive
<1>5. /\ <<dummy>> \in Seq(Alive) /\ Len(<<dummy>>) = 1 /\ <<dummy>>[1] = dummy
      /\ <<dummy>> # <<>> /\ DOMAIN <<dummy>> = 1..1
  BY <1>3
<1>6. IsChain(<<dummy>>, head, heapNodes)
  <2> DEFINE c == <<dummy>>
  <2>1. c \in Seq(DOMAIN heapNodes) /\ c # <<>> /\ Len(c) = 1 /\ c[1] = dummy /\ DOMAIN c = 1..1
    BY <1>5 DEF Alive
  <2> HIDE DEF c
  <2>2. IsInjective(c)
    BY <2>1 DEF IsInjective
  <2>3. heapNodes[c[Len(c)]].next = NullNode /\ 1..(Len(c) - 1) = {}
    BY <1>3, <2>1
  <2>4. QED
    BY <1>1, <2>1, <2>2, <2>3 DEF IsChain, c
<1>7. Chain = <<dummy>>
  BY <1>1, <1>3, <1>6, ChainFound DEF Chain, Alive
<1>8. Range(Chain) = {dummy} /\ Chain[Len(Chain)] = dummy
  BY <1>5, <1>7 DEF Range
<1>9. LocksExclude /\ NodesReady /\ TakesNext
  BY <1>2 DEF LocksExclude, HoldsProducers, HoldsConsumers, NodesReady, TakesNext
<1>10. NodesApart
  BY <1>2, <1>3, <1>8 DEF NodesApart, OwnsNode
<1>11. TailLast
  BY <1>1, <1>2, <1>8 DEF TailLast
<1>12. QED
  BY <1>4, <1>6, <1>7, <1>9, <1>10, <1>11 DEF QueueInv

LEMMA QueueInvStep == ASSUME QueueAssumption, QueueInv, [QueueNext]_queueVars PROVE QueueInv'
<1>1. CASE QueueNext
  <2>1. QueueTypes' /\ LocksExclude'
    BY <1>1, QueueTypesStep, QueueLocksStep
  <2>2. PICK t \in Threads :
          \/ \E v \in Values : NewNode(t, v)
          \/ LockProducers(t) \/ Link(t) \/ MoveTail(t) \/ UnlockProducers(t)
          \/ LockConsumers(t) \/ ReadNext(t) \/ GiveUp(t)
          \/ TakeValue(t) \/ UnlockConsumers(t) \/ DeleteHead(t)
    BY <1>1 DEF QueueNext
  <2>3. ASSUME NEW v \in Values, NewNode(t, v) PROVE QueueInv'
    BY <2>1, <2>3, NewNodeStep DEF QueueInv
  <2>4. CASE Link(t)
    BY <2>1, <2>4, LinkNodeStep DEF QueueInv
  <2>5. CASE TakeValue(t)
    BY <2>1, <2>5, TakeStep DEF QueueInv
  <2>6. CASE DeleteHead(t)
    BY <2>1, <2>6, DeleteStep DEF QueueInv
  <2>7. CASE \/ LockProducers(t) \/ MoveTail(t) \/ UnlockProducers(t) \/ LockConsumers(t)
             \/ ReadNext(t) \/ GiveUp(t) \/ UnlockConsumers(t)
    BY <2>1, <2>7, QuietStep DEF QueueInv
  <2>8. QED
    BY <2>1, <2>2, <2>3, <2>4, <2>5, <2>6, <2>7
<1>2. CASE UNCHANGED queueVars
  BY <1>2 DEF queueVars, QueueInv, QueueTypes, LocksExclude, HoldsProducers, HoldsConsumers,
              NodesApart, NodesReady, TailLast, TakesNext, OwnsNode, Chain, Alive
<1>3. QED
  BY <1>1, <1>2

(* Every reachable state of the queue, with any number of threads, values  *)
(* and nodes, satisfies the inductive invariant.                           *)
THEOREM QueueInvariance == ASSUME QueueAssumption PROVE QueueSpec => []QueueInv
<1>1. QueueInit => QueueInv
  BY QueueInvInit
<1>2. QueueInv /\ [QueueNext]_queueVars => QueueInv'
  BY QueueInvStep
<1>3. QED
  BY <1>1, <1>2, PTL DEF QueueSpec

(* NodesOwned: a node exists as long as it is in the list or one call has  *)
(* it, and no call goes through a pointer to a deleted one.                *)
THEOREM NodesAreOwned == ASSUME QueueAssumption PROVE QueueSpec => []NodesOwned
<1>1. QueueInv => NodesOwned
  <2> SUFFICES ASSUME QueueInv PROVE NodesOwned
    OBVIOUS
  <2>1. head \in Alive
    BY ChainFacts
  <2>2. \A t \in Threads :
          /\ qPc[t] = "link" => tail \in Alive
          /\ qPc[t] = "take" => after[t] \in Alive
          /\ OwnsNode(t) => node[t] \in Alive \ Range(Chain)
    BY NodesInHand
  <2>3. NodesApart /\ Range(Chain) \subseteq Alive
    BY ChainFacts DEF QueueInv
  <2>4. /\ Alive = ChainNodes \union {node[t] : t \in {u \in Threads : OwnsNode(u)}}
        /\ ChainNodes \cap {node[t] : t \in {u \in Threads : OwnsNode(u)}} = {}
    BY <2>2, <2>3 DEF NodesApart, ChainNodes
  <2>5. \A t \in Threads : qPc[t] = "delete" => node[t] \in Alive
    BY <2>2 DEF OwnsNode
  <2>6. QED
    BY <2>1, <2>2, <2>4, <2>5 DEF NodesOwned
<1>2. QED
  BY <1>1, QueueInvariance, PTL

-------------------------------------------------------------------------------
(* The refinement of the shared queue of ObjectSequence *)

(* The abstract queue, position by position. *)
LEMMA QueueFacts ==
  ASSUME QueueAssumption, QueueInv
  PROVE  /\ QueueOf \in Seq(Values \union {Nothing}) /\ Len(QueueOf) = Len(Chain) - 1
         /\ \A k \in 1..(Len(Chain) - 1) : QueueOf[k] = heapNodes[Chain[k + 1]].value
<1>1. PICK n \in Nat : n = Len(Chain) /\ n >= 1 /\ \A i \in 1..n : Chain[i] \in Alive
  BY ChainFacts
<1>2. QueueOf = [k \in 1..(n - 1) |-> heapNodes[Chain[k + 1]].value]
  BY <1>1 DEF QueueOf
<1>3. \A k \in 1..(n - 1) : heapNodes[Chain[k + 1]].value \in Values \union {Nothing}
  <2>1. \A m \in Alive : heapNodes[m].value \in Values \union {Nothing}
    BY DEF QueueInv, QueueTypes
  <2>2. \A k \in 1..(n - 1) : k + 1 \in 1..n
    BY <1>1
  <2>3. QED
    BY <1>1, <2>1, <2>2
<1>4. QueueOf \in [1..(n - 1) -> Values \union {Nothing}] /\ n - 1 \in Nat
  BY <1>1, <1>2, <1>3
<1>5. QueueOf \in Seq(Values \union {Nothing})
  BY <1>4, SeqDef
<1>6. Len(QueueOf) = n - 1
  BY <1>4, <1>5, LenProperties
<1>7. QED
  BY <1>1, <1>2, <1>5, <1>6

(* Only the list and its values are seen. *)
LEMMA SameQueue ==
  ASSUME QueueAssumption, QueueInv, UNCHANGED <<Chain, result>>,
         \A n \in Range(Chain) : heapNodes'[n] = heapNodes[n]
  PROVE  UNCHANGED FIFO!fifoVars
<1>1. PICK n \in Nat : n = Len(Chain) /\ n >= 1 /\ \A i \in 1..n : Chain[i] \in Range(Chain)
  BY ChainFacts
<1>2. \A k \in 1..(n - 1) : heapNodes'[Chain[k + 1]].value = heapNodes[Chain[k + 1]].value
  <2>1. \A k \in 1..(n - 1) : k + 1 \in 1..n
    BY <1>1
  <2>2. QED
    BY <1>1, <2>1
<1>3. QueueOf' = QueueOf
  BY <1>1, <1>2 DEF QueueOf
<1>4. QED
  BY <1>3 DEF FIFO!fifoVars

LEMMA QueueInitRefines == ASSUME QueueAssumption, QueueInit PROVE FIFO!FIFOInit
<1>1. QueueInv
  BY QueueInvInit
<1>2. PICK dummy \in Nodes : heapNodes = [n \in {dummy} |-> [value |-> Nothing, next |-> NullNode]]
                             /\ head = dummy
  BY DEF QueueInit
<1>3. heapNodes[head].next = NullNode
  BY <1>2
<1>4. Len(Chain) = 1
  BY <1>1, <1>3, NextOfHead
<1>5. QueueOf = <<>>
  BY <1>1, <1>4, QueueFacts, EmptySeq
<1>6. QED
  BY <1>5 DEF FIFO!FIFOInit, FIFO!Init, QueueInit

(* enQ() takes effect when it links its node. *)
LEMMA LinkPuts ==
  ASSUME QueueAssumption, QueueInv, QueueInv', NEW t \in Threads, Link(t)
  PROVE  FIFO!FIFONext
<1> DEFINE v == heapNodes[node[t]].value
<1>1. /\ Chain' = Append(Chain, node[t]) /\ node[t] \in Alive \ Range(Chain) /\ v \in Values
      /\ Alive' = Alive /\ \A m \in Alive : heapNodes'[m].value = heapNodes[m].value
  BY LinkNodeStep DEF QueueInv
<1>2. PICK n \in Nat : n = Len(Chain) /\ n >= 1 /\ \A i \in 1..n : Chain[i] \in Alive
  BY ChainFacts
<1>3. Chain \in Seq(Alive) /\ node[t] \in Alive
  BY <1>1, ChainFacts
<1>4. /\ Len(Append(Chain, node[t])) = n + 1
      /\ \A i \in 1..n : Append(Chain, node[t])[i] = Chain[i]
      /\ Append(Chain, node[t])[n + 1] = node[t]
  BY <1>2, <1>3, AppendProperties
<1>5. Len(Chain') = n + 1 /\ \A i \in 1..n : Chain'[i] = Chain[i] /\ Chain'[n + 1] = node[t]
  BY <1>1, <1>4
<1>5a. Chain'[n + 1] = node[t]
  BY <1>1, <1>4
<1>6. QueueOf' = Append(QueueOf, v)
  <2> DEFINE S == Values \union {Nothing}
             q == Append(QueueOf, v)
  <2>1. QueueOf \in Seq(S) /\ Len(QueueOf) = n - 1
    BY <1>2, QueueFacts
  <2>2. \A k \in 1..(n - 1) : QueueOf[k] = heapNodes[Chain[k + 1]].value
    BY <1>2, QueueFacts
  <2>3. v \in S
    BY <1>1
  <2>4. /\ q \in Seq(S) /\ Len(q) = (n - 1) + 1
        /\ \A k \in 1..(n - 1) : q[k] = QueueOf[k]
        /\ q[(n - 1) + 1] = v
    <3> HIDE DEF v
    <3>1. QED
      BY <2>1, <2>3, AppendProperties
  <2>5. (n - 1) + 1 = n
    BY <1>2
  <2>6. q \in Seq(S) /\ Len(q) = n
    BY <2>4, <2>5
  <2>7. (\A k \in 1..(n - 1) : q[k] = QueueOf[k]) /\ q[n] = v
    BY <2>4, <2>5
  <2> HIDE DEF q, v
  <2>8. /\ QueueOf' \in Seq(S) /\ Len(QueueOf') = Len(Chain') - 1
        /\ \A k \in 1..(Len(Chain') - 1) : QueueOf'[k] = heapNodes'[Chain'[k + 1]].value
    <3>1. (/\ QueueOf \in Seq(Values \union {Nothing}) /\ Len(QueueOf) = Len(Chain) - 1
           /\ \A k \in 1..(Len(Chain) - 1) : QueueOf[k] = heapNodes[Chain[k + 1]].value)'
      BY QueueFacts, PTL
    <3>2. QED
      BY <3>1
  <2>9. \A k \in 1..(Len(Chain') - 1) : QueueOf'[k] = heapNodes'[Chain'[k + 1]].value
    BY <2>8
  <2>10. Len(QueueOf') = n /\ Len(Chain') - 1 = n
    BY <1>2, <1>5, <2>8
  <2>11. ASSUME NEW k \in 1..n PROVE QueueOf'[k] = q[k]
    <3>1. QueueOf'[k] = heapNodes'[Chain'[k + 1]].value
      BY <2>9, <2>10
    <3>2. CASE k \in 1..(n - 1)
      <4>1. k + 1 \in 1..n
        BY <1>2, <3>2
      <4>2. Chain'[k + 1] = Chain[k + 1] /\ Chain[k + 1] \in Alive
        BY <1>2, <1>5, <4>1
      <4>3. QED
        BY <1>1, <2>2, <2>7, <3>1, <3>2, <4>2
    <3>3. CASE k = n
      BY <1>1, <1>5a, <2>7, <3>1, <3>3 DEF v
    <3>4. QED
      BY <1>2, <3>2, <3>3
  <2>12. QED
    <3>1. QueueOf' \in Seq(S)
      BY <2>8
    <3>2. QueueOf' = q
      BY <3>1, <2>6, <2>10, <2>11, SeqEqual
    <3>3. QED
      BY <3>2 DEF q
<1>7. UNCHANGED result
  BY DEF Link
<1>8. QED
  BY <1>1, <1>6, <1>7 DEF FIFO!FIFONext, FIFO!Put, FIFO!PushBack

(* A deQ() that finds a node takes effect when it advances _head. *)
LEMMA TakeTakes ==
  ASSUME QueueAssumption, QueueInv, QueueInv', NEW t \in Threads, TakeValue(t)
  PROVE  FIFO!FIFONext
<1>1. Chain' = Tail(Chain) /\ Len(Chain) > 1 /\ after[t] = Chain[2]
  BY TakeStep, NodesInHand DEF QueueInv, TakeValue, Step
<1>2. PICK n \in Nat : n = Len(Chain) /\ n > 1
  BY <1>1, ChainFacts
<1>3. Chain \in Seq(Alive) /\ Chain # <<>>
  BY ChainFacts
<1>4. Len(Tail(Chain)) = n - 1 /\ \A i \in 1..(n - 1) : Tail(Chain)[i] = Chain[i + 1]
  BY <1>2, <1>3, HeadTailProperties
<1>5. Len(Chain') = n - 1 /\ \A i \in 1..(n - 1) : Chain'[i] = Chain[i + 1]
  BY <1>1, <1>4
<1> DEFINE S == Values \union {Nothing}
           q == Tail(QueueOf)
<1>6. QueueOf \in Seq(S) /\ Len(QueueOf) = n - 1
  BY <1>2, QueueFacts
<1>7. \A k \in 1..(n - 1) : QueueOf[k] = heapNodes[Chain[k + 1]].value
  BY <1>2, QueueFacts
<1>8. n - 1 # 0
  BY <1>2
<1>9. QueueOf # <<>>
  BY <1>6, <1>8, EmptySeq
<1>10. /\ Head(QueueOf) = QueueOf[1] /\ q \in Seq(S) /\ Len(q) = (n - 1) - 1
       /\ \A k \in 1..((n - 1) - 1) : q[k] = QueueOf[k + 1]
  BY <1>6, <1>9, HeadTailProperties
<1>11. Head(QueueOf) = heapNodes[after[t]].value
  <2>1. 1 \in 1..(n - 1) /\ 1 + 1 = 2
    BY <1>2
  <2>2. QueueOf[1] = heapNodes[Chain[2]].value
    BY <1>7, <2>1
  <2>3. QED
    BY <1>1, <1>10, <2>2
<1>12. q \in Seq(S) /\ Len(q) = (n - 1) - 1
  BY <1>10
<1>13. \A k \in 1..((n - 1) - 1) : q[k] = QueueOf[k + 1]
  BY <1>10
<1> HIDE DEF q
<1>14. /\ QueueOf' \in Seq(S) /\ Len(QueueOf') = Len(Chain') - 1
       /\ \A k \in 1..(Len(Chain') - 1) : QueueOf'[k] = heapNodes'[Chain'[k + 1]].value
  <2>1. (/\ QueueOf \in Seq(Values \union {Nothing}) /\ Len(QueueOf) = Len(Chain) - 1
         /\ \A k \in 1..(Len(Chain) - 1) : QueueOf[k] = heapNodes[Chain[k + 1]].value)'
    BY QueueFacts, PTL
  <2>2. QED
    BY <2>1
<1>15. QueueOf' \in Seq(S) /\ Len(QueueOf') = (n - 1) - 1
  BY <1>5, <1>14
<1>16. \A k \in 1..((n - 1) - 1) : QueueOf'[k] = heapNodes'[Chain'[k + 1]].value
  BY <1>5, <1>14
<1>17. ASSUME NEW k \in 1..((n - 1) - 1) PROVE QueueOf'[k] = q[k]
  <2>1. k + 1 \in 1..(n - 1)
    BY <1>2
  <2>2. Chain'[k + 1] = Chain[(k + 1) + 1] /\ heapNodes' = heapNodes
    BY <1>5, <2>1 DEF TakeValue
  <2>3. QED
    BY <1>7, <1>13, <1>16, <2>1, <2>2
<1>18. QueueOf' = q
  BY <1>12, <1>15, <1>17, SeqEqual
<1>19. result' = [result EXCEPT ![t] = heapNodes[after[t]].value]
  BY DEF TakeValue
<1>20. FIFO!Take
  BY <1>9, <1>11, <1>18, <1>19 DEF FIFO!Take, FIFO!PopFront, q
<1>21. QED
  BY <1>20 DEF FIFO!FIFONext

(* A deQ() that finds none takes effect when it reads the next pointer. *)
LEMMA ReadMisses ==
  ASSUME QueueAssumption, QueueInv, QueueInv', NEW t \in Threads, ReadNext(t)
  PROVE  [FIFO!FIFONext]_(FIFO!fifoVars)
<1>1. UNCHANGED <<heapNodes, Chain>>
  BY QuietStep DEF QueueInv, ReadNext
<1>2. UNCHANGED QueueOf
  BY <1>1 DEF QueueOf
<1>3. CASE after'[t] = NullNode
  <2>1. heapNodes[head].next = NullNode
    BY <1>3 DEF ReadNext, QueueInv, QueueTypes
  <2>2. QueueOf = <<>>
    BY <2>1, NextOfHead, QueueFacts, EmptySeq
  <2>3. FIFO!Miss
    BY <1>2, <1>3, <2>2 DEF FIFO!Miss, ReadNext
  <2>4. QED
    BY <2>3 DEF FIFO!FIFONext
<1>4. CASE after'[t] # NullNode
  BY <1>2, <1>4 DEF ReadNext, FIFO!fifoVars
<1>5. QED
  BY <1>3, <1>4

(* Every statement of every call is a step of the abstract queue or none. *)
LEMMA QueueNextRefines ==
  ASSUME QueueAssumption, QueueInv, QueueInv', [QueueNext]_queueVars
  PROVE  [FIFO!FIFONext]_(FIFO!fifoVars)
<1>1. CASE QueueNext
  <2>1. PICK t \in Threads :
          \/ \E v \in Values : NewNode(t, v)
          \/ LockProducers(t) \/ Link(t) \/ MoveTail(t) \/ UnlockProducers(t)
          \/ LockConsumers(t) \/ ReadNext(t) \/ GiveUp(t)
          \/ TakeValue(t) \/ UnlockConsumers(t) \/ DeleteHead(t)
    BY <1>1 DEF QueueNext
  <2>2. Range(Chain) \subseteq Alive
    BY ChainFacts
  <2>3. ASSUME NEW v \in Values, NewNode(t, v) PROVE UNCHANGED FIFO!fifoVars
    <3>1. UNCHANGED <<Chain, result>>
      BY <2>3, NewNodeStep DEF QueueInv, NewNode
    <3>2. \A n \in Range(Chain) : heapNodes'[n] = heapNodes[n]
      BY <2>2, <2>3 DEF NewNode, Alive
    <3>3. QED
      BY <3>1, <3>2, SameQueue
  <2>4. CASE Link(t)
    BY <2>4, LinkPuts
  <2>5. CASE TakeValue(t)
    BY <2>5, TakeTakes
  <2>6. CASE DeleteHead(t)
    <3>1. UNCHANGED <<Chain, result>> /\ \A n \in Range(Chain) : heapNodes'[n] = heapNodes[n]
      BY <2>6, DeleteStep DEF QueueInv, DeleteHead
    <3>2. QED
      BY <3>1, SameQueue
  <2>7. CASE ReadNext(t)
    BY <2>7, ReadMisses
  <2>8. CASE \/ LockProducers(t) \/ MoveTail(t) \/ UnlockProducers(t) \/ LockConsumers(t)
             \/ GiveUp(t) \/ UnlockConsumers(t)
    <3>1. UNCHANGED <<Chain, result, heapNodes>>
      BY <2>8, QuietStep
        DEF QueueInv, LockProducers, MoveTail, UnlockProducers, LockConsumers, GiveUp, UnlockConsumers
    <3>2. QED
      BY <3>1, SameQueue
  <2>9. QED
    BY <2>1, <2>3, <2>4, <2>5, <2>6, <2>7, <2>8
<1>2. CASE UNCHANGED queueVars
  <2>1. UNCHANGED <<Chain, result, heapNodes>>
    BY <1>2 DEF queueVars, Chain
  <2>2. QED
    BY <2>1, SameQueue
<1>3. QED
  BY <1>1, <1>2

(* QueueIsFIFO: enQ() and deQ(), statement by statement and with any number *)
(* of threads, are the atomic operations of a first-in first-out queue.     *)
THEOREM QueueImplementsFIFO == ASSUME QueueAssumption PROVE QueueSpec => QueueIsFIFO
<1>1. QueueInit => FIFO!FIFOInit
  BY QueueInitRefines
<1>2. QueueInv /\ QueueInv' /\ [QueueNext]_queueVars => [FIFO!FIFONext]_(FIFO!fifoVars)
  BY QueueNextRefines
<1>3. QueueSpec => []QueueInv
  BY QueueInvariance
<1>4. QED
  BY <1>1, <1>2, <1>3, PTL DEF QueueSpec, QueueIsFIFO, FIFO!FIFOSpec

-------------------------------------------------------------------------------
(* ConditionVar *)

LEMMA MutexInvInit == ASSUME MutexAssumption, MutexInit PROVE MutexInv
<1>1. /\ pthreadMutex = NoThread /\ owner = NoThread /\ depth = 0
      /\ waited = FALSE /\ ready = FALSE /\ \A t \in Threads : cvPc[t] = "idle"
  BY DEF MutexInit
<1>2. MutexTypes
  BY DEF MutexInit, MutexTypes
<1>3. InsideHolds /\ OwnerNotYet
  BY <1>1 DEF InsideHolds, OwnerNotYet
<1>4. OwnerTrusted
  BY <1>1 DEF OwnerTrusted, MutexAssumption
<1>5. NoLostSignal
  BY <1>1 DEF NoLostSignal
<1>6. QED
  BY <1>2, <1>3, <1>4, <1>5 DEF MutexInv

(* The Mutex: whoever holds the pthread mutex changes _owner and _depth. *)
LEMMA OwnerStep ==
  ASSUME MutexAssumption, MutexInv, MutexNext
  PROVE  MutexTypes' /\ InsideHolds' /\ OwnerNotYet' /\ OwnerTrusted'
<1> USE DEF MutexAssumption, MutexInv, MutexTypes, InsideHolds, OwnerNotYet, OwnerTrusted,
            Step, Holds, Outside
<1>1. PICK t \in Threads :
        \/ Nest(t) \/ LockCall(t) \/ Acquire(t) \/ TryLock(t) \/ SetOwner(t)
        \/ UnlockNested(t) \/ UnlockOwner(t) \/ Release(t)
        \/ Wait(t) \/ WakeUp(t) \/ WaitReturns(t)
        \/ MakeReady(t) \/ TakeReady(t) \/ Signal(t) \/ Broadcast(t)
  BY DEF MutexNext
<1>2. CASE Nest(t) \/ UnlockNested(t)
  BY <1>2 DEF Nest, UnlockNested
<1>3. CASE LockCall(t)
  BY <1>3 DEF LockCall
<1>4. CASE Acquire(t) \/ TryLock(t)
  BY <1>4 DEF Acquire, TryLock
<1>5. CASE SetOwner(t)
  BY <1>5 DEF SetOwner
<1>6a. CASE UnlockOwner(t)
  BY <1>6a DEF UnlockOwner
<1>6. CASE Release(t)
  BY <1>6 DEF Release
<1>7. CASE Wait(t) \/ WakeUp(t)
  BY <1>7 DEF Wait, WakeUp
<1>8. CASE WaitReturns(t)
  BY <1>8 DEF WaitReturns
<1>9. CASE MakeReady(t) \/ TakeReady(t)
  BY <1>9 DEF MakeReady, TakeReady
<1>10. CASE Signal(t)
  <2>1. PICK woken \in SUBSET Waiting :
          cvPc' = [u \in Threads |-> IF u = t THEN "idle" ELSE IF u \in woken THEN "wake" ELSE cvPc[u]]
    BY <1>10 DEF Signal
  <2>2. QED
    BY <1>10, <2>1 DEF Signal, Waiting
<1>11. CASE Broadcast(t)
  BY <1>11 DEF Broadcast, Waiting
<1>12. QED
  BY <1>1, <1>2, <1>3, <1>4, <1>5, <1>6a, <1>6, <1>7, <1>8, <1>9, <1>10, <1>11

(* The ConditionVar: a sleeper is woken, or somebody is about to look. *)
LEMMA SignalStep == ASSUME MutexAssumption, MutexInv, MutexNext PROVE NoLostSignal'
<1> USE DEF MutexAssumption, MutexInv, MutexTypes, InsideHolds, NoLostSignal, Step, Holds, Outside, Waiting
<1>1. PICK t \in Threads :
        \/ Nest(t) \/ LockCall(t) \/ Acquire(t) \/ TryLock(t) \/ SetOwner(t)
        \/ UnlockNested(t) \/ UnlockOwner(t) \/ Release(t)
        \/ Wait(t) \/ WakeUp(t) \/ WaitReturns(t)
        \/ MakeReady(t) \/ TakeReady(t) \/ Signal(t) \/ Broadcast(t)
  BY DEF MutexNext
<1>2. CASE Nest(t) \/ UnlockNested(t)
  BY <1>2 DEF Nest, UnlockNested
<1>3. CASE LockCall(t)
  BY <1>3 DEF LockCall
<1>4. CASE Acquire(t) \/ TryLock(t) \/ SetOwner(t)
  BY <1>4 DEF Acquire, TryLock, SetOwner
<1>5. CASE UnlockOwner(t)
  BY <1>5 DEF UnlockOwner
<1>6. CASE Release(t)
  BY <1>6 DEF Release
<1>7. CASE Wait(t)
  BY <1>7 DEF Wait
<1>8. CASE WakeUp(t)
  BY <1>8 DEF WakeUp
<1>9. CASE WaitReturns(t)
  BY <1>9 DEF WaitReturns
<1>10. CASE MakeReady(t)
  BY <1>10 DEF MakeReady
<1>11. CASE TakeReady(t)
  BY <1>11 DEF TakeReady
<1>12. CASE Signal(t)
  <2>1. PICK woken \in {W \in SUBSET Waiting : Waiting # {} => W # {}} :
          cvPc' = [u \in Threads |-> IF u = t THEN "idle" ELSE IF u \in woken THEN "wake" ELSE cvPc[u]]
    BY <1>12 DEF Signal
  <2>2. CASE woken # {}
    <3>1. PICK u \in woken : cvPc[u] = "waiting"
      BY <2>1, <2>2
    <3>2. u # t
      BY <1>12, <3>1 DEF Signal
    <3>3. u \in Threads /\ cvPc'[u] = "wake"
      BY <2>1, <3>1, <3>2
    <3>4. QED
      BY <3>3
  <2>3. CASE woken = {}
    BY <1>12, <2>1, <2>3
  <2>4. QED
    BY <2>2, <2>3
<1>13. CASE Broadcast(t)
  BY <1>13 DEF Broadcast
<1>14. QED
  BY <1>1, <1>2, <1>3, <1>4, <1>5, <1>6, <1>7, <1>8, <1>9, <1>10, <1>11, <1>12, <1>13

\* OwnerTrusted and NoLostSignal: a thread that finds its name in _owner, read
\* without the mutex, holds it; and none sleeps through the predicate.
THEOREM ConditionIsExact == ASSUME MutexAssumption PROVE MutexSpec => []ConditionExact
<1>1. MutexInit => MutexInv
  BY MutexInvInit
<1>2. MutexInv /\ [MutexNext]_mutexVars => MutexInv'
  <2> SUFFICES ASSUME MutexInv, [MutexNext]_mutexVars PROVE MutexInv'
    OBVIOUS
  <2>1. CASE MutexNext
    BY <2>1, OwnerStep, SignalStep DEF MutexInv
  <2>2. CASE UNCHANGED mutexVars
    BY <2>2 DEF mutexVars, MutexInv, MutexTypes, InsideHolds, OwnerNotYet, OwnerTrusted,
                NoLostSignal, Waiting, Holds
  <2>3. QED
    BY <2>1, <2>2
<1>3. MutexInv => ConditionExact
  BY DEF MutexInv, ConditionExact
<1>4. QED
  BY <1>1, <1>2, <1>3, PTL DEF MutexSpec

-------------------------------------------------------------------------------
(* DebugAllocator *)

LEMMA AllocatorInvInit == ASSUME AllocatorAssumption, AllocatorInit PROVE AllocatorInv
<1>1. /\ allocated = {} /\ inUse = {} /\ allocList = NullBlock /\ numBlocks = 0
      /\ \A t \in Threads : gPc[t] = "idle"
  BY DEF AllocatorInit
<1>2. AllocatorTypes
  BY DEF AllocatorInit, AllocatorTypes
<1>3. MutexHeld /\ BlocksApart
  BY <1>1 DEF MutexHeld, BlocksApart, Busy
<1>4. Listed = {} /\ CountedBlocks = {}
  BY <1>1 DEF Listed, CountedBlocks, InList
<1>5. ListWhole
  <2>1. 0 \in 0..Cardinality(Blocks)
    BY FS_CardinalityType DEF AllocatorAssumption
  <2> DEFINE none == [i \in 1..0 |-> NullBlock]
  <2>2. none \in [1..0 -> Blocks] /\ 1..0 = {}
    OBVIOUS
  <2>3. IsList(0, none)
    BY <1>1, <1>4, <2>2 DEF IsList
  <2>4. QED
    BY <2>1, <2>2, <2>3 DEF ListWhole
<1>6. CounterExact
  BY <1>1, <1>4, FS_EmptySet DEF CounterExact
<1>7. ReportsGoOn
  BY DEF AllocatorInit, ReportsGoOn
<1>8. QED
  BY <1>2, <1>3, <1>5, <1>6, <1>7 DEF AllocatorInv

(* Every statement of a call keeps the invariant, conjunct by conjunct. *)

LEMMA MutexHeldStep ==
  ASSUME AllocatorAssumption, AllocatorInv, NEW t \in Threads, Call(t)
  PROVE  MutexHeld'
<1> USE DEF AllocatorAssumption, AllocatorInv, AllocatorTypes, MutexHeld, Step, LockList, UnlockList
<1>1. CASE Allocate(t) \/ CountBlock(t) \/ Delete(t) \/ UncountBlock(t) \/ FreeBlock(t)
  BY <1>1 DEF Allocate, CountBlock, Delete, UncountBlock, FreeBlock
<1>2. CASE LockForLink(t) \/ LockForUnlink(t)
  BY <1>2 DEF LockForLink, LockForUnlink
<1>3. CASE UnlockLinked(t) \/ UnlockUnlinked(t)
  BY <1>3 DEF UnlockLinked, UnlockUnlinked
<1>4. CASE LinkRecord(t)
  BY <1>4 DEF LinkRecord
<1>5. CASE UnlinkRecord(t)
  BY <1>5 DEF UnlinkRecord
<1>6. QED
  BY <1>1, <1>2, <1>3, <1>4, <1>5 DEF Call

(* The first record is a block, in the list like every other. *)
LEMMA ListFacts ==
  ASSUME AllocatorAssumption, AllocatorInv
  PROVE  /\ allocList \in Blocks \cup {NullBlock}
         /\ allocList # NullBlock => allocList \in Listed
         /\ Listed \subseteq allocated /\ Listed \subseteq Blocks
         /\ \A b \in Listed : /\ next[b] # NullBlock => next[b] \in Listed
                              /\ prev[b] # NullBlock => prev[b] \in Listed
<1>0. PICK n \in Nat : \E list \in [1..n -> Blocks] : IsList(n, list)
  <2>1. Cardinality(Blocks) \in Nat
    BY FS_CardinalityType DEF AllocatorAssumption
  <2>2. QED
    BY <2>1 DEF AllocatorInv, ListWhole
<1>1. PICK list \in [1..n -> Blocks] : IsList(n, list)
  BY <1>0
<1>2. /\ {list[i] : i \in 1..n} = Listed
      /\ allocList = IF n = 0 THEN NullBlock ELSE list[1]
      /\ \A i \in 1..n : /\ next[list[i]] = IF i = n THEN NullBlock ELSE list[i + 1]
                         /\ prev[list[i]] = IF i = 1 THEN NullBlock ELSE list[i - 1]
  BY <1>1 DEF IsList
<1>3. allocList \in Blocks \cup {NullBlock} /\ (allocList # NullBlock => allocList \in Listed)
  <2>1. n = 0 \/ 1 \in 1..n
    OBVIOUS
  <2>2. QED
    BY <1>2, <2>1
<1>4. Listed \subseteq allocated /\ Listed \subseteq Blocks
  BY DEF AllocatorInv, AllocatorTypes, BlocksApart, Listed, InList, Busy
<1>5. ASSUME NEW b \in Listed
      PROVE  /\ next[b] # NullBlock => next[b] \in Listed
             /\ prev[b] # NullBlock => prev[b] \in Listed
  <2>1. PICK i \in 1..n : b = list[i]
    BY <1>2
  <2>2. (i # n => i + 1 \in 1..n) /\ (i # 1 => i - 1 \in 1..n)
    OBVIOUS
  <2>3. QED
    BY <1>2, <2>1, <2>2
<1>6. QED
  BY <1>3, <1>4, <1>5

LEMMA AllocatorTypesStep ==
  ASSUME AllocatorAssumption, AllocatorInv, NEW t \in Threads, Call(t), Overlap(t)
  PROVE  AllocatorTypes'
<1>0. /\ cur' \in [Threads -> Blocks \cup {NullBlock}] /\ left' \in [Threads -> Nat]
      /\ printed' \in [Threads -> SUBSET Blocks]
  BY DEF AllocatorInv, AllocatorTypes, Overlap
<1> USE DEF AllocatorTypes, Step, LockList, UnlockList
<1>1. AllocatorTypes /\ BlocksApart /\ inUse \subseteq Blocks /\ allocList \in Blocks \cup {NullBlock}
  BY ListFacts DEF AllocatorInv, BlocksApart
<1>2. Busy(t) => block[t] \in Blocks
  BY <1>1 DEF BlocksApart
<1>3. CASE Allocate(t)
  BY <1>0, <1>1, <1>3 DEF Allocate
<1>4. CASE LockForLink(t) \/ LockForUnlink(t) \/ UnlockLinked(t) \/ UnlockUnlinked(t)
  BY <1>0, <1>1, <1>4 DEF LockForLink, LockForUnlink, UnlockLinked, UnlockUnlinked
<1>5. CASE LinkRecord(t)
  <2>1. block[t] \in Blocks
    BY <1>2, <1>5 DEF LinkRecord, Busy
  <2>2. QED
    BY <1>0, <1>1, <1>5, <2>1 DEF LinkRecord
<1>6. CASE CountBlock(t) \/ Delete(t) \/ UncountBlock(t)
  BY <1>0, <1>1, <1>6 DEF CountBlock, Delete, UncountBlock
<1>9. CASE FreeBlock(t)
  BY <1>0, <1>1, <1>9 DEF FreeBlock
<1>7. CASE UnlinkRecord(t)
  <2>1. block[t] \in Blocks
    BY <1>2, <1>7 DEF UnlinkRecord, Busy
  <2>2. next[block[t]] \in Blocks \cup {NullBlock} /\ prev[block[t]] \in Blocks \cup {NullBlock}
    BY <1>1, <2>1
  <2>3. next' \in [Blocks -> Blocks \cup {NullBlock}]
    BY <1>1, <1>7, <2>2 DEF UnlinkRecord
  <2>4. prev' \in [Blocks -> Blocks \cup {NullBlock}]
    BY <1>1, <1>7, <2>2 DEF UnlinkRecord
  <2>5. QED
    BY <1>0, <1>1, <1>7, <2>3, <2>4 DEF UnlinkRecord
<1>8. QED
  BY <1>3, <1>4, <1>5, <1>6, <1>7, <1>9 DEF Call

LEMMA ApartStep ==
  ASSUME AllocatorAssumption, AllocatorInv, NEW t \in Threads, Call(t)
  PROVE  BlocksApart'
<1> USE DEF BlocksApart, AllocatorTypes, Step, LockList, UnlockList, Busy
<1>1. AllocatorTypes /\ BlocksApart
  BY DEF AllocatorInv
<1>2. CASE Allocate(t)
  <2>1. PICK b \in Blocks \ allocated :
          /\ allocated' = allocated \cup {b}
          /\ prev' = [prev EXCEPT ![b] = NullBlock]
          /\ block' = [block EXCEPT ![t] = b]
    BY <1>2 DEF Allocate
  <2>2. QED
    BY <1>1, <1>2, <2>1 DEF Allocate
<1>3. CASE LockForLink(t) \/ LockForUnlink(t) \/ UnlockLinked(t) \/ UnlockUnlinked(t) \/ UncountBlock(t)
  BY <1>1, <1>3 DEF LockForLink, LockForUnlink, UnlockLinked, UnlockUnlinked, UncountBlock
<1>4. CASE LinkRecord(t)
  <2>1. \A u \in Threads : gPc[u] \in {"lockForLink", "link"} => block[u] \notin Listed
    BY <1>1 DEF Listed, InList
  <2>2. allocList = NullBlock \/ allocList \in Listed
    BY ListFacts
  <2>3. \A u \in Threads : gPc'[u] \in {"lockForLink", "link"} =>
          gPc[u] \in {"lockForLink", "link"} /\ prev'[block[u]] = prev[block[u]]
    BY <1>1, <1>4, <2>1, <2>2 DEF LinkRecord
  <2>4. UNCHANGED <<inUse, allocated, block>>
    BY <1>4 DEF LinkRecord
  <2>5. \A u \in Threads : Busy(u)' <=> Busy(u)
    BY <1>1, <1>4 DEF LinkRecord
  <2>6. QED
    BY <1>1, <2>3, <2>4, <2>5
<1>5. CASE CountBlock(t)
  BY <1>1, <1>5 DEF CountBlock
<1>6. CASE Delete(t)
  BY <1>1, <1>6 DEF Delete
<1>7. CASE FreeBlock(t)
  BY <1>1, <1>7 DEF FreeBlock
<1>8. CASE UnlinkRecord(t)
  <2>1. \A u \in Threads : gPc[u] \in {"lockForLink", "link"} => block[u] \notin Listed
    BY <1>1 DEF Listed, InList
  <2>2. block[t] \in Listed
    BY <1>8 DEF UnlinkRecord, Listed, InList
  <2>3. next[block[t]] = NullBlock \/ next[block[t]] \in Listed
    BY <2>2, ListFacts
  <2>4. \A u \in Threads : gPc'[u] \in {"lockForLink", "link"} =>
          gPc[u] \in {"lockForLink", "link"} /\ prev'[block[u]] = prev[block[u]]
    BY <1>1, <1>8, <2>1, <2>3 DEF UnlinkRecord
  <2>5. UNCHANGED <<inUse, allocated, block>>
    BY <1>8 DEF UnlinkRecord
  <2>6. \A u \in Threads : Busy(u)' <=> Busy(u)
    BY <1>1, <1>8 DEF UnlinkRecord
  <2>7. QED
    BY <1>1, <2>4, <2>5, <2>6
<1>9. QED
  BY <1>2, <1>3, <1>4, <1>5, <1>6, <1>7, <1>8 DEF Call

(* The list is the same when its blocks and their links are. *)
LEMMA ListKept ==
  ASSUME ListWhole, UNCHANGED <<allocList, Listed>>,
         \A b \in Listed : next'[b] = next[b] /\ prev'[b] = prev[b]
  PROVE  ListWhole'
<1>1. PICK n \in 0..Cardinality(Blocks) : \E list \in [1..n -> Blocks] : IsList(n, list)
  BY DEF ListWhole
<1>2. PICK list \in [1..n -> Blocks] : IsList(n, list)
  BY <1>1
<1>3. \A i \in 1..n : next'[list[i]] = next[list[i]] /\ prev'[list[i]] = prev[list[i]]
  BY <1>2 DEF IsList
<1>4. IsList(n, list)'
  BY <1>2, <1>3 DEF IsList
<1>5. QED
  BY <1>4 DEF ListWhole

(* A new first record. *)
LEMMA LinkRecordStep ==
  ASSUME AllocatorAssumption, AllocatorInv, NEW t \in Threads, LinkRecord(t)
  PROVE  ListWhole' /\ Listed' = Listed \cup {block[t]}
<1>0. /\ AllocatorTypes /\ BlocksApart /\ ListWhole
      /\ gPc[t] = "link" /\ gPc' = [gPc EXCEPT ![t] = "unlockLinked"]
      /\ UNCHANGED <<inUse, block>>
  BY DEF AllocatorInv, LinkRecord, Step
<1>1. PICK n \in 0..Cardinality(Blocks) : \E list \in [1..n -> Blocks] : IsList(n, list)
  BY <1>0 DEF ListWhole
<1>2. PICK list \in [1..n -> Blocks] : IsList(n, list)
  BY <1>1
<1>3. PICK b \in Blocks : b = block[t] /\ b \notin Listed /\ prev[b] = NullBlock
  <2>1. Busy(t) /\ ~InList(t) /\ \A u \in Threads : InList(u) => Busy(u)
    BY <1>0 DEF Busy, InList
  <2>2. block[t] \in Blocks /\ block[t] \notin inUse /\ prev[block[t]] = NullBlock
    BY <1>0, <2>1 DEF AllocatorTypes, BlocksApart
  <2>3. \A u \in Threads : InList(u) => block[u] # block[t]
    BY <1>0, <2>1 DEF BlocksApart
  <2>4. QED
    BY <2>2, <2>3 DEF Listed
<1>4. Listed' = Listed \cup {b}
  <2>1. \A u \in Threads : InList(u)' <=> InList(u) \/ u = t
    BY <1>0 DEF AllocatorTypes, InList
  <2>2. QED
    BY <1>0, <1>3, <2>1 DEF Listed
<1>5. Cardinality(Blocks) \in Nat /\ Listed \subseteq Blocks /\ n \in Nat
  BY ListFacts, FS_CardinalityType DEF AllocatorAssumption
<1>6. /\ \A i, j \in 1..n : list[i] = list[j] => i = j
      /\ {list[i] : i \in 1..n} = Listed
      /\ allocList = IF n = 0 THEN NullBlock ELSE list[1]
      /\ \A i \in 1..n : /\ next[list[i]] = IF i = n THEN NullBlock ELSE list[i + 1]
                         /\ prev[list[i]] = IF i = 1 THEN NullBlock ELSE list[i - 1]
  BY <1>2 DEF IsList
<1>7. PICK longer \in [1..(n + 1) -> Blocks] :
        longer[1] = b /\ \A i \in 1..n : longer[i + 1] = list[i]
  <2> DEFINE f == [i \in 1..(n + 1) |-> IF i = 1 THEN b ELSE list[i - 1]]
  <2>1. f \in [1..(n + 1) -> Blocks] /\ f[1] = b /\ \A i \in 1..n : f[i + 1] = list[i]
    BY <1>5
  <2>2. QED
    BY <2>1
<1>8. \A i \in 1..(n + 1) : i = 1 \/ (i - 1 \in 1..n /\ (i - 1) + 1 = i)
  BY <1>5
<1>9. \A i \in 1..n : list[i] \in Listed /\ list[i] \in Blocks /\ list[i] # b /\ list[i] # NullBlock
  BY <1>3, <1>5, <1>6 DEF AllocatorAssumption
<1>10. \A i, j \in 1..(n + 1) : longer[i] = longer[j] => i = j
  <2>1. ASSUME NEW i \in 1..(n + 1), NEW j \in 1..(n + 1), longer[i] = longer[j] PROVE i = j
    <3>1. \A k \in 1..(n + 1) \ {1} : k - 1 \in 1..n /\ longer[k] = list[k - 1]
      BY <1>7, <1>8
    <3>2. i = 1 <=> j = 1
      BY <1>7, <1>9, <2>1, <3>1
    <3>3. CASE i # 1
      <4>1. i - 1 = j - 1
        BY <1>6, <2>1, <3>1, <3>2, <3>3
      <4>2. QED
        BY <4>1
    <3>4. QED
      BY <3>2, <3>3
  <2>2. QED
    BY <2>1
<1>11. n + 1 \in 0..Cardinality(Blocks)
  <2>2. longer \in Injection(1..(n + 1), Blocks)
    BY <1>7, <1>10 DEF Injection, IsInjective
  <2>3. Cardinality(1..(n + 1)) <= Cardinality(Blocks)
    BY <2>2, FS_Injection DEF AllocatorAssumption
  <2>4. Cardinality(1..(n + 1)) = n + 1
    <3>1. 1 \in Int /\ n + 1 \in Int /\ ~(1 > n + 1) /\ (n + 1) - 1 + 1 = n + 1
      BY <1>5
    <3>2. QED
      BY <3>1, FS_Interval
  <2>5. QED
    BY <1>5, <2>3, <2>4
<1>12. /\ next' = [next EXCEPT ![b] = allocList]
       /\ prev' = IF allocList = NullBlock THEN prev ELSE [prev EXCEPT ![allocList] = b]
       /\ allocList' = b
  BY <1>3 DEF LinkRecord
<1>13. IsList(n + 1, longer)'
  <2>1. \A i, j \in 1..(n + 1) : longer[i] = longer[j] => i = j
    BY <1>10
  <2>2. {longer[i] : i \in 1..(n + 1)} = Listed'
    <3>1. 1 \in 1..(n + 1) /\ \A i \in 1..n : i + 1 \in 1..(n + 1)
      BY <1>5
    <3>2. ASSUME NEW i \in 1..(n + 1) PROVE longer[i] \in Listed'
      <4>1. CASE i = 1
        BY <1>4, <1>7, <4>1
      <4>2. CASE i # 1
        <5>1. i - 1 \in 1..n /\ longer[i] = list[i - 1]
          BY <1>7, <1>8, <4>2
        <5>2. QED
          BY <1>4, <1>6, <5>1
      <4>3. QED
        BY <4>1, <4>2
    <3>3. ASSUME NEW x \in Listed PROVE x \in {longer[i] : i \in 1..(n + 1)}
      BY <1>6, <1>7, <3>1
    <3>4. b \in {longer[i] : i \in 1..(n + 1)}
      BY <1>7, <3>1
    <3>5. QED
      BY <1>4, <3>2, <3>3, <3>4
  <2>3. allocList' = IF n + 1 = 0 THEN NullBlock ELSE longer[1]
    BY <1>5, <1>7, <1>12
  <2>4. next'[b] = IF 1 = n + 1 THEN NullBlock ELSE longer[1 + 1]
    <3>1. next'[b] = allocList
      BY <1>0, <1>3, <1>12 DEF AllocatorTypes
    <3>2. n = 0 \/ 1 \in 1..n
      BY <1>5
    <3>3. QED
      BY <1>5, <1>6, <1>7, <3>1, <3>2
  <2>5. prev'[b] = NullBlock
    <3>1. allocList = NullBlock \/ allocList # b
      BY <1>3, ListFacts
    <3>2. QED
      BY <1>0, <1>3, <1>12, <3>1 DEF AllocatorTypes
  <2>6. ASSUME NEW i \in 1..n
        PROVE  /\ next'[list[i]] = IF i + 1 = n + 1 THEN NullBlock ELSE longer[(i + 1) + 1]
               /\ prev'[list[i]] = longer[i]
    <3>1. next'[list[i]] = next[list[i]]
      BY <1>0, <1>12, <1>9 DEF AllocatorTypes
    <3>2. i + 1 = n + 1 <=> i = n
      BY <1>5
    <3>3. i # n => i + 1 \in 1..n
      BY <1>5
    <3>4. next'[list[i]] = IF i + 1 = n + 1 THEN NullBlock ELSE longer[(i + 1) + 1]
      BY <1>6, <1>7, <3>1, <3>2, <3>3
    <3>5. CASE i = 1
      <4>1. allocList = list[1] /\ allocList # NullBlock
        BY <1>5, <1>6, <1>9, <3>5
      <4>2. QED
        BY <1>0, <1>7, <1>12, <1>9, <3>4, <3>5, <4>1 DEF AllocatorTypes
    <3>6. CASE i # 1
      <4>1. 1 \in 1..n /\ i - 1 \in 1..n /\ (i - 1) + 1 = i
        BY <1>5, <3>6
      <4>2. allocList = list[1] /\ list[i] # list[1]
        BY <1>5, <1>6, <3>6, <4>1
      <4>3. prev'[list[i]] = prev[list[i]]
        BY <1>0, <1>12, <1>9, <4>2 DEF AllocatorTypes
      <4>4. longer[i] = list[i - 1]
        BY <1>7, <4>1
      <4>5. QED
        BY <1>6, <3>4, <3>6, <4>3, <4>4
    <3>7. QED
      BY <3>5, <3>6
  <2>7. ASSUME NEW i \in 1..(n + 1)
        PROVE  /\ next'[longer[i]] = IF i = n + 1 THEN NullBlock ELSE longer[i + 1]
               /\ prev'[longer[i]] = IF i = 1 THEN NullBlock ELSE longer[i - 1]
    <3>1. CASE i = 1
      BY <1>7, <2>4, <2>5, <3>1
    <3>2. CASE i # 1
      <4>1. PICK k \in 1..n : k = i - 1 /\ k + 1 = i
        BY <1>8, <3>2
      <4>2. longer[i] = list[k]
        BY <1>7, <4>1
      <4>3. QED
        BY <2>6, <3>2, <4>1, <4>2
    <3>3. QED
      BY <3>1, <3>2
  <2>8. QED
    BY <2>1, <2>2, <2>3, <2>7 DEF IsList
<1>14. QED
  BY <1>3, <1>4, <1>7, <1>11, <1>13 DEF ListWhole

(* A record less. *)
LEMMA UnlinkRecordStep ==
  ASSUME AllocatorAssumption, AllocatorInv, NEW t \in Threads, UnlinkRecord(t)
  PROVE  ListWhole'
<1>0. /\ AllocatorTypes /\ BlocksApart /\ ListWhole
      /\ gPc[t] = "unlink" /\ gPc' = [gPc EXCEPT ![t] = "unlockUnlinked"]
      /\ UNCHANGED <<inUse, block>>
  BY DEF AllocatorInv, UnlinkRecord, Step
<1>1. PICK n \in 0..Cardinality(Blocks) : \E list \in [1..n -> Blocks] : IsList(n, list)
  BY <1>0 DEF ListWhole
<1>2. PICK list \in [1..n -> Blocks] : IsList(n, list)
  BY <1>1
<1>3. /\ \A i, k \in 1..n : list[i] = list[k] => i = k
      /\ {list[i] : i \in 1..n} = Listed
      /\ allocList = IF n = 0 THEN NullBlock ELSE list[1]
      /\ \A i \in 1..n : /\ next[list[i]] = IF i = n THEN NullBlock ELSE list[i + 1]
                         /\ prev[list[i]] = IF i = 1 THEN NullBlock ELSE list[i - 1]
  BY <1>2 DEF IsList
<1>4. PICK j \in 1..n : block[t] = list[j]
  <2>1. block[t] \in Listed
    BY <1>0 DEF Listed, InList
  <2>2. QED
    BY <1>3, <2>1
<1>5. n \in Nat /\ n >= 1 /\ n - 1 \in 0..Cardinality(Blocks) /\ 1 \in 1..n
  <2>1. Cardinality(Blocks) \in Nat
    BY FS_CardinalityType DEF AllocatorAssumption
  <2>2. QED
    BY <2>1
<1>6. Listed' = Listed \ {list[j]}
  <2>1. \A u \in Threads : InList(u)' <=> InList(u) /\ u # t
    BY <1>0 DEF AllocatorTypes, InList
  <2>2. InList(t) /\ list[j] \notin inUse /\ \A u \in Threads \ {t} : InList(u) => block[u] # list[j]
    BY <1>0, <1>4 DEF BlocksApart, Busy, InList
  <2>3. QED
    BY <1>0, <1>4, <2>1, <2>2 DEF Listed
<1>7. /\ prev[list[j]] = IF j = 1 THEN NullBlock ELSE list[j - 1]
      /\ next[list[j]] = IF j = n THEN NullBlock ELSE list[j + 1]
  BY <1>3
<1>8. /\ next' = IF prev[list[j]] = NullBlock THEN next
                 ELSE [next EXCEPT ![prev[list[j]]] = next[list[j]]]
      /\ prev' = IF next[list[j]] = NullBlock THEN prev
                 ELSE [prev EXCEPT ![next[list[j]]] = prev[list[j]]]
      /\ allocList' = IF list[j] = allocList THEN next[list[j]] ELSE allocList
  BY <1>4 DEF UnlinkRecord
<1>9. \A i \in 1..n : list[i] \in Blocks /\ list[i] # NullBlock
  BY DEF AllocatorAssumption
<1>10. ASSUME NEW i \in 1..n
       PROVE  /\ next'[list[i]] = IF i = j - 1 THEN next[list[j]] ELSE next[list[i]]
              /\ prev'[list[i]] = IF i = j + 1 THEN prev[list[j]] ELSE prev[list[i]]
  <2>1. next'[list[i]] = IF i = j - 1 THEN next[list[j]] ELSE next[list[i]]
    <3>1. CASE j = 1
      <4>1. next' = next /\ i # j - 1
        BY <1>7, <1>8, <3>1
      <4>2. QED
        BY <4>1
    <3>2. CASE j # 1
      <4>1. j - 1 \in 1..n
        BY <3>2
      <4>2. prev[list[j]] = list[j - 1] /\ list[j - 1] # NullBlock
        BY <1>7, <1>9, <3>2, <4>1
      <4>3. next' = [next EXCEPT ![list[j - 1]] = next[list[j]]]
        BY <1>8, <4>2
      <4>4. list[i] = list[j - 1] <=> i = j - 1
        BY <1>3, <4>1
      <4>5. QED
        BY <1>0, <1>9, <4>3, <4>4 DEF AllocatorTypes
    <3>3. QED
      BY <3>1, <3>2
  <2>2. prev'[list[i]] = IF i = j + 1 THEN prev[list[j]] ELSE prev[list[i]]
    <3>1. CASE j = n
      <4>1. prev' = prev /\ i # j + 1
        BY <1>5, <1>7, <1>8, <3>1
      <4>2. QED
        BY <4>1
    <3>2. CASE j # n
      <4>1. j + 1 \in 1..n
        BY <1>5, <3>2
      <4>2. next[list[j]] = list[j + 1] /\ list[j + 1] # NullBlock
        BY <1>7, <1>9, <3>2, <4>1
      <4>3. prev' = [prev EXCEPT ![list[j + 1]] = prev[list[j]]]
        BY <1>8, <4>2
      <4>4. list[i] = list[j + 1] <=> i = j + 1
        BY <1>3, <4>1
      <4>5. QED
        BY <1>0, <1>9, <4>3, <4>4 DEF AllocatorTypes
    <3>3. QED
      BY <3>1, <3>2
  <2>3. QED
    BY <2>1, <2>2
<1>11. PICK shorter \in [1..(n - 1) -> Blocks] :
         \A k \in 1..(n - 1) : shorter[k] = list[IF k < j THEN k ELSE k + 1]
  <2> DEFINE f == [k \in 1..(n - 1) |-> list[IF k < j THEN k ELSE k + 1]]
  <2>1. \A k \in 1..(n - 1) : (IF k < j THEN k ELSE k + 1) \in 1..n
    BY <1>5
  <2>2. f \in [1..(n - 1) -> Blocks]
    BY <2>1
  <2>3. QED
    BY <2>2
<1>12. ASSUME NEW k \in 1..(n - 1)
       PROVE  /\ k < j => k \in 1..n /\ shorter[k] = list[k]
              /\ ~(k < j) => k + 1 \in 1..n /\ shorter[k] = list[k + 1]
  BY <1>5, <1>11
<1>13. IsList(n - 1, shorter)'
  <2>1. \A i, k \in 1..(n - 1) : shorter[i] = shorter[k] => i = k
    <3>1. ASSUME NEW i \in 1..(n - 1), NEW k \in 1..(n - 1), shorter[i] = shorter[k] PROVE i = k
      <4>1. CASE i < j /\ k < j
        BY <1>3, <1>12, <3>1, <4>1
      <4>2. CASE ~(i < j) /\ ~(k < j)
        <5>1. i + 1 = k + 1
          BY <1>3, <1>12, <3>1, <4>2
        <5>2. QED
          BY <5>1
      <4>3. CASE i < j /\ ~(k < j)
        <5>1. i = k + 1
          BY <1>3, <1>12, <3>1, <4>3
        <5>2. QED
          BY <4>3, <5>1
      <4>4. CASE ~(i < j) /\ k < j
        <5>1. i + 1 = k
          BY <1>3, <1>12, <3>1, <4>4
        <5>2. QED
          BY <4>4, <5>1
      <4>5. QED
        BY <4>1, <4>2, <4>3, <4>4
    <3>2. QED
      BY <3>1
  <2>2. {shorter[k] : k \in 1..(n - 1)} = Listed'
    <3>1. ASSUME NEW k \in 1..(n - 1) PROVE shorter[k] \in Listed'
      <4>1. CASE k < j
        <5>1. k # j
          BY <4>1
        <5>2. QED
          BY <1>3, <1>6, <1>12, <4>1, <5>1
      <4>2. CASE ~(k < j)
        <5>1. k + 1 # j
          BY <4>2
        <5>2. QED
          BY <1>3, <1>6, <1>12, <4>2, <5>1
      <4>3. QED
        BY <4>1, <4>2
    <3>2. ASSUME NEW x \in Listed' PROVE x \in {shorter[k] : k \in 1..(n - 1)}
      <4>1. PICK i \in 1..n : x = list[i] /\ i # j
        BY <1>3, <1>6
      <4>2. CASE i < j
        <5>1. i \in 1..(n - 1)
          BY <1>5, <4>2
        <5>2. shorter[i] = x
          BY <1>12, <4>1, <4>2, <5>1
        <5>3. QED
          BY <5>1, <5>2
      <4>3. CASE ~(i < j)
        <5>1. i - 1 \in 1..(n - 1) /\ ~(i - 1 < j) /\ (i - 1) + 1 = i
          BY <1>5, <4>1, <4>3
        <5>2. shorter[i - 1] = x
          BY <1>12, <4>1, <5>1
        <5>3. QED
          BY <5>1, <5>2
      <4>4. QED
        BY <4>2, <4>3
    <3>3. QED
      BY <3>1, <3>2
  <2>3. allocList' = IF n - 1 = 0 THEN NullBlock ELSE shorter[1]
    <3>1. allocList = list[1] /\ (list[j] = list[1] <=> j = 1)
      BY <1>3, <1>5
    <3>2. CASE j = 1
      <4>1. allocList' = IF n = 1 THEN NullBlock ELSE list[2]
        BY <1>7, <1>8, <3>1, <3>2
      <4>2. n # 1 => 1 \in 1..(n - 1) /\ ~(1 < j) /\ 1 + 1 = 2
        BY <1>5, <3>2
      <4>3. n # 1 => shorter[1] = list[2]
        BY <1>12, <4>2
      <4>4. n - 1 = 0 <=> n = 1
        BY <1>5
      <4>5. QED
        BY <4>1, <4>3, <4>4
    <3>3. CASE j # 1
      <4>1. allocList' = list[1]
        BY <1>8, <3>1, <3>3
      <4>2. 1 \in 1..(n - 1) /\ 1 < j /\ n - 1 # 0
        BY <1>5, <3>3
      <4>3. QED
        BY <1>12, <4>1, <4>2
    <3>4. QED
      BY <3>2, <3>3
  <2>4. ASSUME NEW k \in 1..(n - 1)
        PROVE  next'[shorter[k]] = IF k = n - 1 THEN NullBlock ELSE shorter[k + 1]
    <3>1. CASE k < j - 1
      <4>1. k < j /\ k # j - 1 /\ k + 1 < j /\ k # n - 1 /\ k # n /\ k + 1 \in 1..(n - 1)
        BY <1>5, <3>1
      <4>2. k \in 1..n /\ shorter[k] = list[k] /\ shorter[k + 1] = list[k + 1]
        BY <1>12, <4>1
      <4>3. QED
        BY <1>3, <1>10, <4>1, <4>2
    <3>2. CASE k = j - 1
      <4>1. k < j /\ (k = n - 1 <=> j = n) /\ k + 1 = j
        BY <1>5, <3>2
      <4>2. j # n => j \in 1..(n - 1) /\ ~(j < j)
        BY <1>5
      <4>3. k \in 1..n /\ shorter[k] = list[k] /\ (j # n => shorter[j] = list[j + 1])
        BY <1>12, <4>1, <4>2
      <4>4. QED
        BY <1>7, <1>10, <3>2, <4>1, <4>3
    <3>3. CASE k > j - 1
      <4>1. ~(k < j) /\ k + 1 # j - 1 /\ (k = n - 1 <=> k + 1 = n)
        BY <1>5, <3>3
      <4>2. k # n - 1 => k + 1 \in 1..(n - 1) /\ ~(k + 1 < j)
        BY <1>5, <3>3
      <4>3. k + 1 \in 1..n /\ shorter[k] = list[k + 1]
        BY <1>12, <4>1
      <4>4. k # n - 1 => shorter[k + 1] = list[(k + 1) + 1]
        BY <1>12, <4>2
      <4>5. next'[list[k + 1]] = next[list[k + 1]]
        BY <1>10, <4>1, <4>3
      <4>6. QED
        BY <1>3, <4>1, <4>3, <4>4, <4>5
    <3>4. QED
      BY <1>5, <3>1, <3>2, <3>3
  <2>5. ASSUME NEW k \in 1..(n - 1)
        PROVE  prev'[shorter[k]] = IF k = 1 THEN NullBlock ELSE shorter[k - 1]
    <3>1. CASE k < j
      <4>1. k # j + 1 /\ (k # 1 => k - 1 \in 1..(n - 1) /\ k - 1 < j)
        BY <1>5, <3>1
      <4>2. k \in 1..n /\ shorter[k] = list[k] /\ (k # 1 => shorter[k - 1] = list[k - 1])
        BY <1>12, <3>1, <4>1
      <4>3. prev'[list[k]] = prev[list[k]]
        BY <1>10, <4>1, <4>2
      <4>4. QED
        BY <1>3, <4>2, <4>3
    <3>2. CASE k = j
      <4>1. ~(k < j) /\ (k # 1 => k - 1 \in 1..(n - 1) /\ k - 1 < j)
        BY <1>5, <3>2
      <4>2. k + 1 \in 1..n /\ shorter[k] = list[k + 1] /\ (k # 1 => shorter[k - 1] = list[k - 1])
        BY <1>12, <4>1
      <4>3. prev'[list[k + 1]] = prev[list[j]]
        BY <1>10, <3>2, <4>2
      <4>4. QED
        BY <1>7, <3>2, <4>2, <4>3
    <3>3. CASE k > j
      <4>0. j \in 1..n /\ n \in Nat /\ k \in 1..(n - 1) /\ k > j
        BY <1>5, <3>3
      <4>1. /\ ~(k < j) /\ k + 1 # j + 1 /\ k + 1 # 1 /\ (k + 1) - 1 = k
            /\ k # 1 /\ k - 1 \in 1..(n - 1) /\ ~(k - 1 < j) /\ (k - 1) + 1 = k
        BY <4>0
      <4>2. k + 1 \in 1..n /\ shorter[k] = list[k + 1]
        BY <1>12, <4>1
      <4>3. shorter[k - 1] = list[k]
        BY <1>12, <4>1
      <4>4. prev'[list[k + 1]] = prev[list[k + 1]]
        BY <1>10, <4>1, <4>2
      <4>5. prev[list[k + 1]] = list[k]
        <5>1. prev[list[k + 1]] = IF k + 1 = 1 THEN NullBlock ELSE list[(k + 1) - 1]
          BY <1>3, <4>2
        <5>2. QED
          BY <5>1, <4>1
      <4>6. QED
        BY <4>1, <4>2, <4>3, <4>4, <4>5
    <3>4. QED
      BY <1>5, <3>1, <3>2, <3>3
  <2>6. QED
    BY <2>1, <2>2, <2>3, <2>4, <2>5 DEF IsList
<1>14. QED
  BY <1>5, <1>13 DEF ListWhole

(* Blocks pass between the list, the calls and the program. *)
LEMMA ListSame ==
  ASSUME AllocatorAssumption, AllocatorInv, NEW t \in Threads, Call(t),
         ~LinkRecord(t), ~UnlinkRecord(t)
  PROVE  /\ UNCHANGED <<allocList, Listed>>
         /\ \A b \in Listed : next'[b] = next[b] /\ prev'[b] = prev[b]
<1>1. AllocatorTypes /\ BlocksApart /\ Listed \subseteq allocated
  BY ListFacts DEF AllocatorInv
<1>2. CASE Allocate(t)
  <2>1. PICK b \in Blocks \ allocated :
          prev' = [prev EXCEPT ![b] = NullBlock] /\ block' = [block EXCEPT ![t] = b]
    BY <1>2 DEF Allocate
  <2>2. UNCHANGED <<next, allocList, inUse>> /\ gPc[t] = "idle" /\ gPc' = [gPc EXCEPT ![t] = "lockForLink"]
    BY <1>2 DEF Allocate, Step
  <2>3. Listed' = Listed
    BY <1>1, <2>1, <2>2 DEF Listed, InList, AllocatorTypes
  <2>4. \A c \in Listed : next'[c] = next[c] /\ prev'[c] = prev[c]
    BY <1>1, <2>1, <2>2 DEF AllocatorTypes
  <2>5. QED
    BY <1>1, <2>2, <2>3, <2>4
<1>3. CASE LockForLink(t) \/ LockForUnlink(t) \/ UnlockLinked(t) \/ UnlockUnlinked(t) \/ UncountBlock(t)
  <2>1. UNCHANGED <<next, prev, allocList, inUse, block>>
    BY <1>3 DEF LockForLink, LockForUnlink, UnlockLinked, UnlockUnlinked, UncountBlock, LockList, UnlockList
  <2>2. \A u \in Threads : InList(u)' <=> InList(u)
    BY <1>1, <1>3 DEF LockForLink, LockForUnlink, UnlockLinked, UnlockUnlinked, UncountBlock, LockList,
                      UnlockList, Step, InList, AllocatorTypes
  <2>3. Listed' = Listed
    BY <2>1, <2>2 DEF Listed
  <2>4. QED
    BY <1>1, <2>1, <2>3
<1>6. CASE CountBlock(t)
  <2>1. /\ UNCHANGED <<next, prev, allocList>> /\ inUse' = inUse \cup {block[t]}
        /\ block' = [block EXCEPT ![t] = NullBlock]
        /\ gPc[t] = "count" /\ gPc' = [gPc EXCEPT ![t] = "idle"]
    BY <1>6 DEF CountBlock, Step
  <2>2. Listed' = Listed
    BY <1>1, <2>1 DEF Listed, InList, AllocatorTypes
  <2>3. QED
    BY <1>1, <2>1, <2>2
<1>7. CASE Delete(t)
  <2>1. PICK b \in inUse : inUse' = inUse \ {b} /\ block' = [block EXCEPT ![t] = b]
    BY <1>7 DEF Delete
  <2>2. /\ UNCHANGED <<next, prev, allocList>>
        /\ gPc[t] = "idle" /\ gPc' = [gPc EXCEPT ![t] = "uncount"]
    BY <1>7 DEF Delete, Step
  <2>3. Listed' = Listed
    BY <1>1, <2>1, <2>2 DEF Listed, InList, AllocatorTypes
  <2>4. QED
    BY <1>1, <2>2, <2>3
<1>8. CASE FreeBlock(t)
  <2>1. /\ UNCHANGED <<allocList, inUse>>
        /\ next' = [next EXCEPT ![block[t]] = NullBlock]
        /\ prev' = [prev EXCEPT ![block[t]] = NullBlock]
        /\ block' = [block EXCEPT ![t] = NullBlock]
        /\ gPc[t] = "free" /\ gPc' = [gPc EXCEPT ![t] = "idle"]
    BY <1>8 DEF FreeBlock, Step
  <2>2. Listed' = Listed
    BY <1>1, <2>1 DEF Listed, InList, AllocatorTypes
  <2>3. block[t] \notin Listed
    BY <1>1, <2>1 DEF Listed, InList, BlocksApart, Busy
  <2>4. QED
    BY <1>1, <2>1, <2>2, <2>3 DEF AllocatorTypes
<1>9. QED
  BY <1>2, <1>3, <1>6, <1>7, <1>8 DEF Call

LEMMA ListStep ==
  ASSUME AllocatorAssumption, AllocatorInv, NEW t \in Threads, Call(t)
  PROVE  ListWhole'
<1>1. CASE LinkRecord(t) \/ UnlinkRecord(t)
  BY <1>1, LinkRecordStep, UnlinkRecordStep
<1>2. CASE ~LinkRecord(t) /\ ~UnlinkRecord(t)
  BY <1>2, ListSame, ListKept DEF AllocatorInv
<1>3. QED
  BY <1>1, <1>2

LEMMA CounterStep ==
  ASSUME AllocatorAssumption, AllocatorInv, NEW t \in Threads, Call(t)
  PROVE  CounterExact'
<1>1. AllocatorTypes /\ BlocksApart /\ CounterExact
  BY DEF AllocatorInv
<1>2. IsFiniteSet(CountedBlocks) /\ Cardinality(CountedBlocks) \in Nat
  <2>1. CountedBlocks \subseteq Blocks
    BY <1>1 DEF CountedBlocks, AllocatorTypes, BlocksApart, Busy
  <2>2. QED
    BY <2>1, FS_Subset, FS_CardinalityType DEF AllocatorAssumption
<1>3. CASE Allocate(t)
  <2>1. PICK b \in Blocks \ allocated : block' = [block EXCEPT ![t] = b]
    BY <1>3 DEF Allocate
  <2>2. /\ UNCHANGED <<inUse, numBlocks>>
        /\ gPc[t] = "idle" /\ gPc' = [gPc EXCEPT ![t] = "lockForLink"]
    BY <1>3 DEF Allocate, Step
  <2>3. CountedBlocks' = CountedBlocks
    BY <1>1, <2>1, <2>2 DEF CountedBlocks, AllocatorTypes
  <2>4. QED
    BY <1>1, <2>2, <2>3 DEF CounterExact
<1>4. CASE \/ LockForLink(t) \/ LockForUnlink(t) \/ UnlockLinked(t) \/ UnlockUnlinked(t)
           \/ LinkRecord(t) \/ UnlinkRecord(t)
  <2>1. UNCHANGED <<inUse, numBlocks, block>>
    BY <1>4 DEF LockForLink, LockForUnlink, UnlockLinked, UnlockUnlinked, LinkRecord, UnlinkRecord, LockList, UnlockList
  <2>2. \A u \in Threads : gPc'[u] = "uncount" <=> gPc[u] = "uncount"
    BY <1>1, <1>4 DEF LockForLink, LockForUnlink, UnlockLinked, UnlockUnlinked, LinkRecord, UnlinkRecord,
                      LockList, UnlockList, Step, AllocatorTypes
  <2>3. CountedBlocks' = CountedBlocks
    BY <2>1, <2>2 DEF CountedBlocks
  <2>4. QED
    BY <1>1, <2>1, <2>3 DEF CounterExact
<1>5. CASE CountBlock(t)
  <2>1. /\ inUse' = inUse \cup {block[t]} /\ numBlocks' = numBlocks + 1
        /\ block' = [block EXCEPT ![t] = NullBlock]
        /\ gPc[t] = "count" /\ gPc' = [gPc EXCEPT ![t] = "idle"]
    BY <1>5 DEF CountBlock, Step
  <2>2. block[t] \notin CountedBlocks
    BY <1>1, <2>1 DEF CountedBlocks, BlocksApart, Busy
  <2>3. CountedBlocks' = CountedBlocks \cup {block[t]}
    BY <1>1, <2>1 DEF CountedBlocks, AllocatorTypes
  <2>4. Cardinality(CountedBlocks \cup {block[t]}) = Cardinality(CountedBlocks) + 1
    BY <1>2, <2>2, FS_AddElement
  <2>5. QED
    BY <1>1, <2>1, <2>3, <2>4 DEF CounterExact
<1>6. CASE Delete(t)
  <2>1. PICK b \in inUse : inUse' = inUse \ {b} /\ block' = [block EXCEPT ![t] = b]
    BY <1>6 DEF Delete
  <2>2. /\ UNCHANGED numBlocks
        /\ gPc[t] = "idle" /\ gPc' = [gPc EXCEPT ![t] = "uncount"]
    BY <1>6 DEF Delete, Step
  <2>3. CountedBlocks' = CountedBlocks
    BY <1>1, <2>1, <2>2 DEF CountedBlocks, AllocatorTypes
  <2>4. QED
    BY <1>1, <2>2, <2>3 DEF CounterExact
<1>7. CASE UncountBlock(t)
  <2>1. /\ UNCHANGED <<inUse, block>> /\ numBlocks' = numBlocks - 1
        /\ gPc[t] = "uncount" /\ gPc' = [gPc EXCEPT ![t] = "lockForUnlink"]
    BY <1>7 DEF UncountBlock, Step
  <2>2. block[t] \in CountedBlocks /\ block[t] \notin inUse
    BY <1>1, <2>1 DEF CountedBlocks, BlocksApart, Busy
  <2>3. \A u \in Threads : gPc[u] = "uncount" /\ block[u] = block[t] => u = t
    BY <1>1, <2>1 DEF BlocksApart, Busy
  <2>4. \A u \in Threads : gPc'[u] = "uncount" <=> gPc[u] = "uncount" /\ u # t
    BY <1>1, <2>1 DEF AllocatorTypes
  <2>5. CountedBlocks' = CountedBlocks \ {block[t]}
    BY <2>1, <2>2, <2>3, <2>4 DEF CountedBlocks
  <2>6. Cardinality(CountedBlocks \ {block[t]}) = Cardinality(CountedBlocks) - 1
    BY <1>2, <2>2, FS_RemoveElement
  <2>7. QED
    BY <1>1, <2>1, <2>5, <2>6 DEF CounterExact
<1>8. CASE FreeBlock(t)
  <2>1. /\ UNCHANGED <<inUse, numBlocks>>
        /\ block' = [block EXCEPT ![t] = NullBlock]
        /\ gPc[t] = "free" /\ gPc' = [gPc EXCEPT ![t] = "idle"]
    BY <1>8 DEF FreeBlock, Step
  <2>2. CountedBlocks' = CountedBlocks
    BY <1>1, <2>1 DEF CountedBlocks, AllocatorTypes
  <2>3. QED
    BY <1>1, <2>1, <2>2 DEF CounterExact
<1>9. QED
  BY <1>3, <1>4, <1>5, <1>6, <1>7, <1>8 DEF Call

(* As many records are met as are counted. *)
LEMMA PrefixCounted ==
  ASSUME NEW n \in Nat, NEW list \in [1..n -> Blocks], NEW m \in 0..n,
         \A i, j \in 1..n : list[i] = list[j] => i = j
  PROVE  Cardinality({list[i] : i \in 1..m}) = m
<1> DEFINE f == [i \in 1..m |-> list[i]]
           S == {list[i] : i \in 1..m}
<1>1. m \in Nat /\ \A i \in 1..m : i \in 1..n
  OBVIOUS
<1>2. f \in [1..m -> S] /\ (\A i \in 1..m : f[i] = list[i])
  OBVIOUS
<1>3. IsFiniteSet(1..m) /\ Cardinality(1..m) = m
  <2>1. m = 0 \/ ~(1 > m)
    BY <1>1
  <2>2. CASE m = 0
    <3>1. 1..m = {}
      BY <2>2
    <3>2. QED
      BY <2>2, <3>1, FS_EmptySet
  <2>3. CASE ~(1 > m)
    <3>1. 1 \in Int /\ m \in Int /\ m - 1 + 1 = m
      BY <1>1
    <3>2. QED
      BY <2>3, <3>1, FS_Interval
  <2>4. QED
    BY <2>1, <2>2, <2>3
<1> HIDE DEF f
<1>4. f \in Bijection(1..m, S)
  <2>1. \A i, j \in 1..m : f[i] = f[j] => i = j
    BY <1>1, <1>2
  <2>2. \A x \in S : \E i \in 1..m : f[i] = x
    BY <1>2
  <2>3. QED
    BY <1>2, <2>1, <2>2 DEF Bijection, Injection, Surjection, IsInjective
<1>5. QED
  BY <1>3, <1>4, FS_Bijection DEF ExistsBijection

LEMMA CountWithin ==
  ASSUME AllocatorAssumption, AllocatorInv,
         NEW n \in Nat, NEW list \in [1..n -> Blocks], IsList(n, list)
  PROVE  numBlocks \in 0..n
<1>1. (\A i, j \in 1..n : list[i] = list[j] => i = j) /\ {list[i] : i \in 1..n} = Listed
  BY DEF IsList
<1>2. Cardinality(Listed) = n
  <2>1. n \in 0..n
    OBVIOUS
  <2>2. QED
    BY <1>1, <2>1, PrefixCounted
<1>3. CountedBlocks \subseteq Listed /\ IsFiniteSet(Listed)
  <2>1. CountedBlocks \subseteq Listed
    BY DEF CountedBlocks, Listed, InList
  <2>2. Listed \subseteq Blocks
    BY ListFacts
  <2>3. QED
    BY <2>1, <2>2, FS_Subset DEF AllocatorAssumption
<1>4. IsFiniteSet(CountedBlocks) /\ Cardinality(CountedBlocks) <= Cardinality(Listed)
  BY <1>3, FS_Subset
<1>5. Cardinality(CountedBlocks) \in Nat
  BY <1>4, FS_CardinalityType
<1>6. QED
  BY <1>2, <1>4, <1>5 DEF AllocatorInv, CounterExact

LEMMA NumBlocksNat ==
  ASSUME AllocatorAssumption, AllocatorInv
  PROVE  numBlocks \in Nat /\ Cardinality(Blocks) \in Nat
<1>1. Cardinality(Blocks) \in Nat
  BY FS_CardinalityType DEF AllocatorAssumption
<1>2. PICK n \in 0..Cardinality(Blocks) : \E list \in [1..n -> Blocks] : IsList(n, list)
  BY DEF AllocatorInv, ListWhole
<1>3. PICK list \in [1..n -> Blocks] : IsList(n, list)
  BY <1>2
<1>4. n \in Nat
  BY <1>1
<1>5. numBlocks \in 0..n
  BY <1>3, <1>4, CountWithin
<1>6. QED
  BY <1>1, <1>4, <1>5

(* Only an unlink takes records out of a report's way, only a link puts one at the front. *)
LEMMA ReportsOverlap ==
  ASSUME AllocatorAssumption, AllocatorInv, NEW t \in Threads, Call(t), Overlap(t)
  PROVE  ReportsGoOn'
<1>1. AllocatorTypes /\ BlocksApart /\ ReportsGoOn
  BY DEF AllocatorInv
<1>2. \A u \in Threads \ {t} : gPc'[u] = gPc[u]
  BY <1>1 DEF Call, Allocate, LockForLink, LinkRecord, UnlockLinked, CountBlock, Delete, UncountBlock,
              LockForUnlink, UnlinkRecord, UnlockUnlinked, FreeBlock, LockList, UnlockList, Step, AllocatorTypes
<1>3. gPc[t] \notin {"readCount", "print", "lost"} /\ gPc'[t] \notin {"print", "lost"}
  BY <1>1 DEF Call, Allocate, LockForLink, LinkRecord, UnlockLinked, CountBlock, Delete, UncountBlock,
              LockForUnlink, UnlinkRecord, UnlockUnlinked, FreeBlock, LockList, UnlockList, Step, AllocatorTypes
<1>4. alone' = {} /\ undisturbed' \subseteq undisturbed /\ UNCHANGED <<cur, left>>
  BY DEF Overlap
<1>5. /\ \A u \in undisturbed' : u \in Threads \ {t} /\ gPc'[u] = gPc[u] /\ printed'[u] = printed[u]
      /\ \A u \in Threads : u \notin undisturbed' => printed'[u] = {}
  BY <1>1, <1>2, <1>3, <1>4 DEF Overlap, ReportsGoOn
<1>6. ASSUME NEW u \in Threads, gPc'[u] \notin {"print", "lost"} PROVE printed'[u] = {}
  BY <1>1, <1>5, <1>6 DEF ReportsGoOn
<1>7. ASSUME NEW u \in undisturbed'
      PROVE  \/ gPc'[u] = "readCount" /\ cur'[u] = allocList'
             \/ /\ gPc'[u] = "print"
                /\ \E n \in 0..Cardinality(Blocks) : \E rest \in [1..n -> Blocks] : Ahead(u, n, rest)'
  <2>1. u \in undisturbed /\ gPc[t] # "unlink" /\ ~(gPc[t] = "link" /\ gPc[u] = "readCount")
    BY <1>7 DEF Overlap
  <2>2. ~UnlinkRecord(t)
    BY <2>1 DEF UnlinkRecord, Step
  <2>3. LinkRecord(t) => gPc[u] = "print"
    BY <1>1, <2>1 DEF LinkRecord, Step, ReportsGoOn
  <2>4. CASE gPc[u] = "readCount"
    BY <1>1, <1>4, <1>5, <1>7, <2>1, <2>2, <2>3, <2>4, ListSame DEF ReportsGoOn
  <2>5. CASE gPc[u] = "print"
    <3>1. PICK n \in 0..Cardinality(Blocks) : \E rest \in [1..n -> Blocks] : Ahead(u, n, rest)
      BY <1>1, <2>1, <2>5 DEF ReportsGoOn
    <3>2. PICK rest \in [1..n -> Blocks] : Ahead(u, n, rest)
      BY <3>1
    <3>3. Listed \subseteq Listed' /\ \A b \in Listed : next'[b] = next[b]
      <4>1. CASE LinkRecord(t)
        <5>1. block[t] \notin Listed /\ next' = [next EXCEPT ![block[t]] = allocList]
          BY <1>1, <4>1 DEF LinkRecord, Step, Listed, InList, BlocksApart, Busy
        <5>2. \A b \in Listed : b \in Blocks
          BY ListFacts
        <5>3. QED
          BY <1>1, <4>1, <5>1, <5>2, LinkRecordStep DEF AllocatorTypes
      <4>2. CASE ~LinkRecord(t)
        BY <2>2, <4>2, ListSame
      <4>3. QED
        BY <4>1, <4>2
    <3>4. \A i \in 1..n : rest[i] \in Listed' \ printed'[u] /\ next'[rest[i]] = next[rest[i]]
      BY <1>5, <1>7, <3>2, <3>3 DEF Ahead
    <3>5. Ahead(u, n, rest)'
      BY <1>4, <3>2, <3>4 DEF Ahead
    <3>6. QED
      BY <1>5, <1>7, <2>5, <3>5
  <2>6. QED
    BY <1>1, <2>1, <2>4, <2>5 DEF ReportsGoOn
<1>8. QED
  BY <1>1, <1>4, <1>6, <1>7 DEF ReportsGoOn

(* A report changes nothing but where it is. *)
LEMMA ReportReads ==
  ASSUME AllocatorAssumption, AllocatorInv, NEW t \in Threads, ReportStep(t)
  PROVE  /\ AllocatorTypes' /\ MutexHeld' /\ BlocksApart' /\ ListWhole' /\ CounterExact'
         /\ UNCHANGED <<listVars, Listed>>
<1>1. AllocatorTypes /\ MutexHeld /\ BlocksApart /\ ListWhole /\ CounterExact
  BY DEF AllocatorInv
<1>2. UNCHANGED listVars /\ gPc[t] \in {"idle", "readCount", "print"}
  BY DEF ReportStep, Report, ReadCount, PrintRecord, PrintGarbage, Reported, Step
<1>3. PICK to \in {"idle", "readCount", "print", "lost"} : gPc' = [gPc EXCEPT ![t] = to]
  BY DEF ReportStep, Report, ReadCount, PrintRecord, PrintGarbage, Reported, Step
<1>4. /\ UNCHANGED <<allocated, next, prev, allocList, mutex, numBlocks, block, inUse>>
      /\ \A u \in Threads : Busy(u) => u # t
      /\ \A u \in Threads : /\ Busy(u)' <=> Busy(u)
                            /\ InList(u)' <=> InList(u)
                            /\ Busy(u) => gPc'[u] = gPc[u]
  BY <1>1, <1>2, <1>3 DEF listVars, Busy, InList, AllocatorTypes
<1>5. Listed' = Listed /\ CountedBlocks' = CountedBlocks
  <2>1. \A u \in Threads : gPc'[u] = "uncount" <=> gPc[u] = "uncount"
    BY <1>1, <1>2, <1>3 DEF AllocatorTypes
  <2>2. QED
    BY <1>4, <2>1 DEF Listed, CountedBlocks
<1>6. AllocatorTypes'
  <2>1. allocList \in Blocks \cup {NullBlock}
    BY ListFacts
  <2>2. numBlocks \in Nat
    BY NumBlocksNat
  <2>3. gPc' \in [Threads -> {"idle", "lockForLink", "link", "unlockLinked", "count",
                          "uncount", "lockForUnlink", "unlink", "unlockUnlinked", "free",
                          "readCount", "print", "lost"}]
    BY <1>1, <1>3 DEF AllocatorTypes
  <2>4. Readable(cur[t]) => cur[t] \in Blocks
    BY <1>1, ListFacts DEF Readable, BlocksApart, Busy, AllocatorTypes
  <2>5. cur' \in [Threads -> Blocks \cup {NullBlock}]
    BY <1>1, <2>1, <2>4
       DEF ReportStep, Report, ReadCount, PrintRecord, PrintGarbage, Reported, reportVars, AllocatorTypes
  <2>6. left' \in [Threads -> Nat]
    BY <1>1, <2>2
       DEF ReportStep, Report, ReadCount, PrintRecord, PrintGarbage, Reported, reportVars, AllocatorTypes
  <2>7. printed' \in [Threads -> SUBSET Blocks]
    BY <1>1, <2>4
       DEF ReportStep, Report, ReadCount, PrintRecord, PrintGarbage, Reported, reportVars, AllocatorTypes
  <2>8. QED
    BY <1>1, <1>4, <2>3, <2>5, <2>6, <2>7 DEF AllocatorTypes
<1>7. MutexHeld' /\ BlocksApart'
  <2>1. \A u \in Threads :
          /\ gPc'[u] \in {"link", "unlockLinked", "unlink", "unlockUnlinked"} => gPc'[u] = gPc[u]
          /\ gPc'[u] \in {"lockForLink", "link"} => gPc'[u] = gPc[u]
    BY <1>1, <1>3 DEF AllocatorTypes
  <2>2. QED
    BY <1>1, <1>4, <2>1 DEF MutexHeld, BlocksApart
<1>8. ListWhole'
  BY <1>1, <1>4, <1>5, ListKept
<1>9. QED
  BY <1>1, <1>2, <1>4, <1>5, <1>6, <1>7, <1>8 DEF CounterExact

(* Its records lie ahead of a report from its reading of the counter to its end. *)
LEMMA ReportsStep ==
  ASSUME AllocatorAssumption, AllocatorInv, NEW t \in Threads, ReportStep(t)
  PROVE  ReportsGoOn'
<1>1. AllocatorTypes /\ ListWhole /\ ReportsGoOn /\ UNCHANGED <<listVars, Listed>>
  BY ReportReads DEF AllocatorInv
<1>2. UNCHANGED <<next, allocList, numBlocks>>
  BY <1>1 DEF listVars
<1>3. \A u \in Threads \ {t} : UNCHANGED <<gPc[u], cur[u], left[u], printed[u]>>
  BY <1>1 DEF ReportStep, Report, ReadCount, PrintRecord, PrintGarbage, Reported, Step, reportVars, AllocatorTypes
<1>4. \A u \in Threads \ {t} : (u \in alone' <=> u \in alone) /\ (u \in undisturbed' <=> u \in undisturbed)
  BY <1>1 DEF ReportStep, Report, ReadCount, PrintRecord, PrintGarbage, Reported, reportVars
<1>5. alone' \subseteq undisturbed' /\ undisturbed' \subseteq Threads
  BY <1>1 DEF ReportStep, Report, ReadCount, PrintRecord, PrintGarbage, Reported, reportVars, ReportsGoOn
<1> DEFINE Ok(u) ==
  /\ gPc[u] \notin {"print", "lost"} => printed[u] = {}
  /\ u \in undisturbed =>
       \/ gPc[u] = "readCount" /\ cur[u] = allocList
       \/ /\ gPc[u] = "print"
          /\ \E n \in 0..Cardinality(Blocks) : \E rest \in [1..n -> Blocks] : Ahead(u, n, rest)
  /\ u \in alone =>
       (gPc[u] = "print" => printed[u] \subseteq Listed /\ Cardinality(printed[u]) + left[u] = numBlocks)
<1>6. Ok(t)
  BY <1>1 DEF ReportsGoOn
<1>7. ASSUME NEW u \in Threads \ {t} PROVE Ok(u)'
  <2>1. \A n : \A rest : Ahead(u, n, rest) <=> Ahead(u, n, rest)'
    BY <1>1, <1>2, <1>3 DEF Ahead
  <2>2. Ok(u)
    BY <1>1 DEF ReportsGoOn
  <2>3. QED
    BY <1>1, <1>2, <1>3, <1>4, <2>1, <2>2
<1>8. CASE Report(t)
  <2>1. /\ gPc'[t] = "readCount" /\ cur'[t] = allocList /\ printed' = printed /\ gPc[t] = "idle"
    BY <1>1, <1>8 DEF Report, Step, AllocatorTypes
  <2>2. Ok(t)'
    BY <1>2, <1>6, <2>1
  <2>3. QED
    BY <1>5, <1>7, <2>2 DEF ReportsGoOn
<1>9. CASE ReadCount(t)
  <2>1. /\ gPc[t] = "readCount" /\ gPc'[t] = "print" /\ left'[t] = numBlocks
        /\ UNCHANGED <<cur, printed, alone, undisturbed>>
    BY <1>1, <1>9 DEF ReadCount, Step, AllocatorTypes
  <2>2. printed[t] = {}
    BY <1>6, <2>1
  <2>3. numBlocks \in Nat /\ Cardinality(Blocks) \in Nat
    BY NumBlocksNat
  <2>4. PICK n \in 0..Cardinality(Blocks) : \E list \in [1..n -> Blocks] : IsList(n, list)
    BY <1>1 DEF ListWhole
  <2>5. PICK list \in [1..n -> Blocks] : IsList(n, list)
    BY <2>4
  <2>6. numBlocks <= n
    BY <2>3, <2>5, CountWithin
  <2>7. t \in undisturbed => Ahead(t, n, list)'
    <3>1. t \in undisturbed => cur'[t] = IF n = 0 THEN NullBlock ELSE list[1]
      BY <1>6, <2>1, <2>5 DEF IsList
    <3>2. \A i \in 1..n : list[i] \in Listed
      BY <2>5 DEF IsList
    <3>3. QED
      BY <1>1, <1>2, <2>1, <2>2, <2>5, <2>6, <3>1, <3>2 DEF Ahead, IsList
  <2>8. Cardinality(printed'[t]) + left'[t] = numBlocks
    BY <2>1, <2>2, <2>3, FS_EmptySet
  <2>9. Ok(t)'
    BY <1>2, <2>1, <2>2, <2>7, <2>8
  <2>10. QED
    BY <1>5, <1>7, <2>9 DEF ReportsGoOn
<1>10. CASE PrintRecord(t)
  <2>1. /\ gPc[t] = "print" /\ gPc'[t] = "print" /\ left[t] \in Nat /\ left[t] > 0
        /\ left'[t] = left[t] - 1 /\ cur'[t] = next[cur[t]]
        /\ UNCHANGED <<alone, undisturbed>>
    BY <1>1, <1>10 DEF PrintRecord, Step, AllocatorTypes
  <2>2. CASE t \notin undisturbed
    BY <1>1, <1>5, <1>7, <2>1, <2>2 DEF ReportsGoOn
  <2>3. CASE t \in undisturbed
    <3>1. printed'[t] = printed[t] \cup {cur[t]}
      BY <1>1, <1>10, <2>3 DEF PrintRecord, AllocatorTypes
    <3>2. PICK n \in 0..Cardinality(Blocks) : \E rest \in [1..n -> Blocks] : Ahead(t, n, rest)
      BY <1>6, <2>1, <2>3
    <3>3. PICK rest \in [1..n -> Blocks] : Ahead(t, n, rest)
      BY <3>2
    <3>4. Cardinality(Blocks) \in Nat
      BY FS_CardinalityType DEF AllocatorAssumption
    <3>5. n \in Nat \ {0} /\ n - 1 \in 0..Cardinality(Blocks) /\ left[t] <= n
      BY <2>1, <3>3, <3>4 DEF Ahead
    <3>6. /\ cur[t] = rest[1] /\ 1 \in 1..n
          /\ \A i, j \in 1..n : rest[i] = rest[j] => i = j
          /\ \A i \in 1..n : /\ rest[i] \in Listed \ printed[t]
                             /\ next[rest[i]] = IF i = n THEN NullBlock ELSE rest[i + 1]
      BY <3>3, <3>5 DEF Ahead
    <3> DEFINE on == [i \in 1..(n - 1) |-> rest[i + 1]]
    <3>7. \A i \in 1..(n - 1) : i + 1 \in 1..n /\ on[i] = rest[i + 1] /\ (i = n - 1 <=> i + 1 = n)
      BY <3>5
    <3>8. on \in [1..(n - 1) -> Blocks]
      BY <3>7
    <3>9. cur'[t] = IF n - 1 = 0 THEN NullBlock ELSE on[1]
      BY <2>1, <3>5, <3>6, <3>7
    <3>10. \A i, j \in 1..(n - 1) : on[i] = on[j] => i = j
      BY <3>6, <3>7
    <3>11. \A i \in 1..(n - 1) : on[i] \in Listed \ printed'[t]
      BY <3>1, <3>6, <3>7
    <3>12. \A i \in 1..(n - 1) : next[on[i]] = IF i = n - 1 THEN NullBlock ELSE on[i + 1]
      <4>1. ASSUME NEW i \in 1..(n - 1), i # n - 1 PROVE i + 1 \in 1..(n - 1)
        BY <3>5, <4>1
      <4>2. QED
        BY <3>6, <3>7, <4>1
    <3> HIDE DEF on
    <3>13. Ahead(t, n - 1, on)'
      <4>1. left'[t] <= n - 1
        BY <2>1, <3>5
      <4>2. /\ \A i \in 1..(n - 1) : on[i] \in Listed' \ printed'[t]
            /\ \A i \in 1..(n - 1) : next'[on[i]] = IF i = n - 1 THEN NullBlock ELSE on[i + 1]
        BY <1>1, <1>2, <3>11, <3>12
      <4>3. QED
        BY <3>9, <3>10, <4>1, <4>2 DEF Ahead
    <3>14. t \in alone => printed'[t] \subseteq Listed /\ Cardinality(printed'[t]) + left'[t] = numBlocks
      <4>1. IsFiniteSet(printed[t]) /\ Cardinality(printed[t]) \in Nat
        BY <1>1, FS_Subset, FS_CardinalityType DEF AllocatorTypes, AllocatorAssumption
      <4>2. cur[t] \notin printed[t] /\ cur[t] \in Listed
        BY <3>6
      <4>3. Cardinality(printed'[t]) = Cardinality(printed[t]) + 1
        BY <3>1, <4>1, <4>2, FS_AddElement
      <4>4. t \in alone => printed[t] \subseteq Listed /\ Cardinality(printed[t]) + left[t] = numBlocks
        BY <1>6, <2>1
      <4> HIDE DEF Ok
      <4>5. t \in alone => printed'[t] \subseteq Listed
        BY <3>1, <4>2, <4>4
      <4>6. t \in alone => Cardinality(printed'[t]) + left'[t] = numBlocks
        BY <2>1, <4>1, <4>3, <4>4
      <4>7. QED
        BY <4>5, <4>6
    <3>15. Ok(t)'
      BY <1>1, <1>2, <2>1, <3>5, <3>8, <3>13, <3>14
    <3>16. QED
      BY <1>5, <1>7, <3>15 DEF ReportsGoOn
  <2>4. QED
    BY <2>2, <2>3
<1>11. CASE PrintGarbage(t)
  <2>1. gPc[t] = "print" /\ left[t] > 0 /\ ~Readable(cur[t]) /\ UNCHANGED reportVars
    BY <1>11 DEF PrintGarbage, Step
  <2>2. gPc'[t] = "lost"
    BY <1>1, <1>11 DEF PrintGarbage, Step, AllocatorTypes
  <2>3. t \notin undisturbed
    <3>1. SUFFICES ASSUME t \in undisturbed PROVE FALSE
      OBVIOUS
    <3>2. PICK n \in 0..Cardinality(Blocks) : \E rest \in [1..n -> Blocks] : Ahead(t, n, rest)
      BY <1>6, <2>1, <3>1
    <3>3. PICK rest \in [1..n -> Blocks] : Ahead(t, n, rest)
      BY <3>2
    <3>4. Cardinality(Blocks) \in Nat /\ left[t] \in Nat
      BY <1>1, FS_CardinalityType DEF AllocatorAssumption, AllocatorTypes
    <3>5. n # 0 /\ 1 \in 1..n
      BY <2>1, <3>3, <3>4 DEF Ahead
    <3>6. cur[t] \in Listed
      BY <3>3, <3>5 DEF Ahead
    <3>7. QED
      BY <2>1, <3>6 DEF Readable
  <2>4. Ok(t)'
    BY <1>1, <2>1, <2>2, <2>3 DEF reportVars, ReportsGoOn
  <2>5. QED
    BY <1>5, <1>7, <2>4 DEF ReportsGoOn
<1>12. CASE Reported(t)
  <2>1. printed'[t] = {} /\ t \notin undisturbed' /\ t \notin alone'
    BY <1>1, <1>12 DEF Reported, AllocatorTypes, ReportsGoOn
  <2>2. QED
    BY <1>5, <1>7, <2>1 DEF ReportsGoOn
<1>13. QED
  BY <1>8, <1>9, <1>10, <1>11, <1>12 DEF ReportStep

LEMMA AllocatorInvStep ==
  ASSUME AllocatorAssumption, AllocatorInv, [AllocatorNext]_allocatorVars
  PROVE  AllocatorInv'
<1>1. CASE AllocatorNext
  <2>1. PICK t \in Threads : (Call(t) /\ Overlap(t)) \/ ReportStep(t)
    BY <1>1 DEF AllocatorNext
  <2>2. CASE Call(t) /\ Overlap(t)
    BY <2>2, AllocatorTypesStep, MutexHeldStep, ApartStep, ListStep, CounterStep, ReportsOverlap
       DEF AllocatorInv
  <2>3. CASE ReportStep(t)
    BY <2>3, ReportReads, ReportsStep DEF AllocatorInv
  <2>4. QED
    BY <2>1, <2>2, <2>3
<1>2. CASE UNCHANGED allocatorVars
  <2>1. UNCHANGED <<Listed, CountedBlocks>>
    BY <1>2 DEF allocatorVars, listVars, Listed, CountedBlocks, InList
  <2>2. ListWhole'
    BY <1>2, <2>1, ListKept DEF allocatorVars, listVars, AllocatorInv
  <2>3. ReportsGoOn'
    BY <1>2, <2>1 DEF allocatorVars, listVars, reportVars, AllocatorInv, ReportsGoOn, Ahead
  <2>4. QED
    BY <1>2, <2>1, <2>2, <2>3
      DEF allocatorVars, listVars, reportVars, AllocatorInv, AllocatorTypes, MutexHeld, BlocksApart, Busy,
          CounterExact
<1>3. QED
  BY <1>1, <1>2

-------------------------------------------------------------------------------
(* Proofs: what the invariant says *)

(* Walk meets the records in the order of the list. *)
LEMMA WalkMeets ==
  ASSUME AllocatorAssumption, NEW n \in Nat, NEW list \in [1..n -> Blocks], IsList(n, list)
  PROVE  \A k \in Nat \ {0} : Walk[k] = IF k <= n THEN list[k] ELSE NullBlock
<1> DEFINE At(k) == IF k <= n THEN list[k] ELSE NullBlock
           After(w, k) == IF k = 1 THEN allocList
                          ELSE LET b == w[k - 1] IN IF b = NullBlock THEN NullBlock ELSE next[b]
           F(w) == [k \in Nat \ {0} |-> After(w, k)]
           records == [k \in Nat \ {0} |-> At(k)]
<1>1. /\ allocList = At(1)
      /\ \A k \in Nat \ {0, 1} : At(k) = IF At(k - 1) = NullBlock THEN NullBlock ELSE next[At(k - 1)]
  <2>1. /\ allocList = IF n = 0 THEN NullBlock ELSE list[1]
        /\ \A i \in 1..n : next[list[i]] = IF i = n THEN NullBlock ELSE list[i + 1]
        /\ \A i \in 1..n : list[i] # NullBlock
    <3>1. \A i \in 1..n : list[i] \in Blocks
      OBVIOUS
    <3>2. NullBlock \notin Blocks
      BY DEF AllocatorAssumption
    <3>3. /\ allocList = IF n = 0 THEN NullBlock ELSE list[1]
          /\ \A i \in 1..n : next[list[i]] = IF i = n THEN NullBlock ELSE list[i + 1]
      BY DEF IsList
    <3>4. QED
      BY <3>1, <3>2, <3>3
  <2>2. allocList = At(1)
    BY <2>1
  <2>3. ASSUME NEW k \in Nat \ {0, 1}
        PROVE  At(k) = IF At(k - 1) = NullBlock THEN NullBlock ELSE next[At(k - 1)]
    <3>1. CASE k <= n
      <4>1. k - 1 \in 1..n /\ k - 1 # n /\ (k - 1) + 1 = k /\ k - 1 <= n
        BY <3>1
      <4>2. QED
        BY <2>1, <3>1, <4>1
    <3>2. CASE k - 1 = n
      <4>1. k - 1 \in 1..n /\ ~(k <= n) /\ k - 1 <= n
        BY <3>2
      <4>2. QED
        BY <2>1, <3>2, <4>1
    <3>3. CASE ~(k - 1 <= n)
      BY <3>3
    <3>4. QED
      BY <3>1, <3>2, <3>3
  <2>4. QED
    BY <2>2, <2>3
<1>2. \E w : w = F(w)
  <2>1. \A k \in Nat \ {0, 1} : k - 1 \in Nat \ {0}
    OBVIOUS
  <2>2. ASSUME NEW k \in Nat \ {0} PROVE records[k] = After(records, k)
    <3> HIDE DEF At
    <3>1. QED
      BY <1>1, <2>1
  <2>3. records = F(records)
    <3> HIDE DEF After, At
    <3>1. QED
      BY <2>2
  <2>4. QED
    BY <2>3
<1>3. Walk = F(Walk)
  <2>1. Walk = CHOOSE w : w = F(w)
    BY DEF Walk
  <2> HIDE DEF F
  <2>2. QED
    BY <1>2, <2>1
<1>4. Walk[1] = allocList /\ \A k \in Nat \ {0, 1} :
        Walk[k] = IF Walk[k - 1] = NullBlock THEN NullBlock ELSE next[Walk[k - 1]]
  <2>1. \A k \in Nat \ {0} : Walk[k] = After(Walk, k)
    <3> HIDE DEF After
    <3>1. QED
      BY <1>3
  <2>2. QED
    BY <2>1
<1> DEFINE Wrong == {k \in Nat \ {0} : Walk[k] # At(k)}
<1>5. CASE Wrong # {}
  <2> HIDE DEF At
  <2>1. PICK m \in Wrong : \A k \in Wrong : m <= k
    BY <1>5, MinExists
  <2>2. m # 1
    BY <1>1, <1>4
  <2>3. m \in Nat \ {0, 1} /\ m - 1 \in Nat \ {0} /\ m - 1 \notin Wrong
    BY <2>1, <2>2
  <2>4. Walk[m - 1] = At(m - 1)
    BY <2>3
  <2>5. QED
    BY <1>1, <1>4, <2>3, <2>4
<1>6. QED
  BY <1>5


LEMMA ListIsReported == ASSUME AllocatorAssumption, AllocatorInv PROVE BlocksListed
<1>1. AllocatorTypes /\ BlocksApart /\ ListWhole /\ CounterExact
  BY DEF AllocatorInv
<1>2. Cardinality(Blocks) \in Nat
  BY FS_CardinalityType DEF AllocatorAssumption
<1>3. PICK n \in 0..Cardinality(Blocks) : \E list \in [1..n -> Blocks] : IsList(n, list)
  BY <1>1 DEF ListWhole
<1>4. PICK list \in [1..n -> Blocks] : IsList(n, list)
  BY <1>3
<1>5. n \in Nat /\ n <= Cardinality(Blocks)
  BY <1>2
<1>6. \A k \in Nat \ {0} : Walk[k] = IF k <= n THEN list[k] ELSE NullBlock
  BY <1>4, <1>5, WalkMeets
<1>7. /\ \A i, j \in 1..n : list[i] = list[j] => i = j
      /\ {list[i] : i \in 1..n} = Listed
      /\ allocList = IF n = 0 THEN NullBlock ELSE list[1]
      /\ \A i \in 1..n : /\ next[list[i]] = IF i = n THEN NullBlock ELSE list[i + 1]
                         /\ prev[list[i]] = IF i = 1 THEN NullBlock ELSE list[i - 1]
  BY <1>4 DEF IsList
<1>8. \A i \in 1..n : list[i] # NullBlock
  BY DEF AllocatorAssumption
<1>10. Linked = Listed
  <2>1. ASSUME NEW k \in 1..Cardinality(Blocks), Walk[k] # NullBlock PROVE Walk[k] \in Listed
    <3>1. k \in 1..n /\ Walk[k] = list[k]
      BY <1>2, <1>5, <1>6, <2>1
    <3>2. QED
      BY <1>7, <3>1
  <2>2. ASSUME NEW b \in Listed PROVE b \in Linked
    <3>1. PICK k \in 1..n : b = list[k]
      BY <1>7
    <3>2. k \in 1..Cardinality(Blocks) /\ Walk[k] = list[k]
      BY <1>2, <1>5, <1>6
    <3>3. QED
      BY <1>8, <3>1, <3>2 DEF Linked
  <2>3. QED
    BY <2>1, <2>2 DEF Linked
<1>11. Listed \subseteq allocated
  BY ListFacts
<1>12. \A b \in Listed : IF prev[b] = NullBlock THEN b = allocList ELSE next[prev[b]] = b
  <2>1. ASSUME NEW b \in Listed
        PROVE  IF prev[b] = NullBlock THEN b = allocList ELSE next[prev[b]] = b
    <3>1. PICK i \in 1..n : b = list[i]
      BY <1>7
    <3>2. CASE i = 1
      <4>1. n # 0
        BY <1>5, <3>2
      <4>2. QED
        BY <1>7, <3>1, <3>2, <4>1
    <3>3. CASE i # 1
      <4>1. i - 1 \in 1..n /\ i - 1 # n /\ (i - 1) + 1 = i
        BY <1>5, <3>3
      <4>2. prev[b] = list[i - 1] /\ prev[b] # NullBlock /\ next[list[i - 1]] = b
        BY <1>7, <1>8, <3>1, <3>3, <4>1
      <4>3. QED
        BY <4>2
    <3>4. QED
      BY <3>2, <3>3
  <2>2. QED
    BY <2>1
<1>13. ASSUME NEW t \in undisturbed, gPc[t] = "print", left[t] > 0 PROVE cur[t] \in Listed \ printed[t]
  <2>1. PICK m \in 0..Cardinality(Blocks) : \E rest \in [1..m -> Blocks] : Ahead(t, m, rest)
    BY <1>13 DEF AllocatorInv, ReportsGoOn
  <2>2. PICK rest \in [1..m -> Blocks] : Ahead(t, m, rest)
    BY <2>1
  <2>3. left[t] \in Nat /\ m \in Nat
    BY <1>1, <1>2 DEF AllocatorTypes, AllocatorInv, ReportsGoOn
  <2>4. m # 0 /\ 1 \in 1..m
    BY <1>13, <2>2, <2>3 DEF Ahead
  <2>5. QED
    BY <2>2, <2>4 DEF Ahead
<1>14. ASSUME NEW t \in alone, gPc[t] = "print", left[t] = 0, \A u \in Threads : ~Busy(u)
       PROVE  printed[t] = inUse
  <2>1. Listed = inUse /\ CountedBlocks = inUse
    BY <1>14 DEF Listed, CountedBlocks, InList, Busy
  <2>2. printed[t] \subseteq inUse /\ Cardinality(printed[t]) + 0 = Cardinality(inUse)
    BY <1>1, <1>14, <2>1 DEF AllocatorInv, ReportsGoOn, CounterExact
  <2>3. IsFiniteSet(inUse) /\ IsFiniteSet(printed[t])
    BY <2>1, <2>2, ListFacts, FS_Subset DEF AllocatorAssumption
  <2>4. Cardinality(inUse) \in Nat /\ Cardinality(printed[t]) \in Nat
    BY <2>3, FS_CardinalityType
  <2>5. QED
    BY <2>2, <2>3, <2>4, FS_Subset
<1>15. QED
  BY <1>10, <1>11, <1>12, <1>13, <1>14 DEF BlocksListed

\* BlocksListed: however threads allocate and delete, the list of the records is
\* whole; a report that no record is taken from meets one at every step, and one that
\* no call overlaps misses no block that is in use.
THEOREM BlocksAreListed ==
  ASSUME AllocatorAssumption PROVE AllocatorSpec => []BlocksListed
<1>1. AllocatorInit => AllocatorInv
  BY AllocatorInvInit
<1>2. AllocatorInv /\ [AllocatorNext]_allocatorVars => AllocatorInv'
  BY AllocatorInvStep
<1>3. AllocatorInv => BlocksListed
  BY ListIsReported
<1>4. QED
  BY <1>1, <1>2, <1>3, PTL DEF AllocatorSpec

-------------------------------------------------------------------------------
(* ObjectRegistry *)

LEMMA RegistryInvInit == ASSUME RegistryAssumption, RegistryInit PROVE RegistryInv
<1>1. /\ DOMAIN registry = {} /\ alive = {} /\ lockReaders = {} /\ lockWriter = NoThread
      /\ \A t \in Threads : /\ rPc[t] = "idle" /\ rKey[t] = NoKey /\ mine[t] = NoObject
                           /\ \A k \in Keys : refs[t][k] = 0
  BY DEF RegistryInit
<1>2. RegistryTypes
  <2>1. registry \in [DOMAIN registry -> [object : Objects, refCount : Nat]]
    BY DEF RegistryInit
  <2>2. /\ lockReaders \subseteq Threads /\ lockWriter \in Threads \union {NoThread}
        /\ DOMAIN registry \subseteq Keys /\ alive \subseteq Objects
    BY <1>1
  <2>3. refs \in [Threads -> [Keys -> 0..MaxRefs]]
    BY DEF RegistryInit, RegistryAssumption
  <2>4. /\ held \in [Threads -> [Keys -> Objects \union {NoObject}]]
        /\ rPc \in [Threads -> {"idle", "return"} \union Adding \union Removing]
        /\ rKey \in [Threads -> Keys \union {NoKey}]
        /\ mine \in [Threads -> Objects \union {NoObject}]
    BY DEF RegistryInit
  <2>5. QED
    BY <1>1, <2>1, <2>2, <2>3, <2>4 DEF RegistryTypes
<1>3. LocksFit /\ LookupsHold /\ HoldersAgree
  BY <1>1 DEF LocksFit, LookupsHold, HoldersAgree, Registered, Adding, RegistryAssumption
<1>4. ArgumentsApart /\ ObjectsKnown
  BY <1>1 DEF ArgumentsApart, ObjectsKnown, RegisteredObjects, Arguments, Adding
<1>5. RefCountExact
  <2>1. ASSUME NEW k \in Keys, NEW x \in References(k) PROVE FALSE
    <3>1. x \in Threads \X (0..MaxRefs)
      BY <2>1 DEF References
    <3>2. PICK t \in Threads, i \in 0..MaxRefs : x = <<t, i>>
      BY <3>1
    <3>3. i # 0 /\ i <= refs[t][k]
      BY <1>1, <2>1, <3>2 DEF References, Giving
    <3>4. QED
      BY <1>1, <3>3, <2>1 DEF RegistryAssumption
  <2>2. QED
    BY <1>1, <2>1 DEF RefCountExact, KeyCounted, Registered
<1>6. QED
  BY <1>2, <1>3, <1>4, <1>5 DEF RegistryInv

(* What CountRef() does to the tree. *)
LEMMA CountRefSets ==
  ASSUME RegistryAssumption, RegistryTypes, NEW k \in DOMAIN registry, NEW n \in Nat, CountRef(k, n)
  PROVE  /\ DOMAIN registry' = DOMAIN registry
         /\ registry' \in [DOMAIN registry -> [object : Objects, refCount : Nat]]
         /\ registry'[k].refCount = n
         /\ \A j \in DOMAIN registry : registry'[j].object = registry[j].object
         /\ \A j \in DOMAIN registry : j # k => registry'[j] = registry[j]
  BY DEF CountRef, RegistryTypes

LEMMA ReferencesFinite == ASSUME RegistryAssumption, NEW k PROVE IsFiniteSet(References(k))
<1>1. IsFiniteSet(0..MaxRefs)
  BY FS_Interval DEF RegistryAssumption
<1>2. IsFiniteSet(Threads \X (0..MaxRefs))
  BY <1>1, FS_Product DEF RegistryAssumption
<1>3. QED
  BY <1>2, FS_Subset DEF References

(* A reference to a key that is not registered does not exist. *)
LEMMA GivingIsRegistered ==
  ASSUME RegistryAssumption, RegistryInv, NEW t \in Threads,
         rPc[t] \in {"drop", "upgradeDrop", "wrlockDrop", "dropAgain"}
  PROVE  /\ rKey[t] \in Keys /\ Registered(rKey[t])
         /\ registry[rKey[t]].refCount \in Nat \ {0}
         /\ registry[rKey[t]].refCount = Cardinality(References(rKey[t]))
<1>1. rKey[t] \in Keys
  BY DEF RegistryInv, RegistryTypes
<1>2. <<t, 0>> \in References(rKey[t])
  BY DEF References, Giving, RegistryAssumption
<1>3. Registered(rKey[t])
  BY <1>1, <1>2 DEF RegistryInv, RefCountExact, KeyCounted
<1>4. registry[rKey[t]].refCount \in Nat
  BY <1>3 DEF RegistryInv, RegistryTypes, Registered
<1>5. registry[rKey[t]].refCount = Cardinality(References(rKey[t]))
  BY <1>1, <1>3 DEF RegistryInv, RefCountExact, KeyCounted
<1>6. registry[rKey[t]].refCount # 0
  BY <1>2, <1>5, ReferencesFinite, FS_EmptySet
<1>7. QED
  BY <1>1, <1>3, <1>4, <1>5, <1>6

-------------------------------------------------------------------------------
(* The references that a step makes, moves and ends *)

LEMMA SameReferences ==
  ASSUME NEW k, \A u \in Threads : refs'[u][k] = refs[u][k] /\ (Giving(u, k)' <=> Giving(u, k))
  PROVE  References(k)' = References(k)
  BY DEF References

LEMMA OneMoreHeld ==
  ASSUME RegistryAssumption, RegistryTypes, NEW t \in Threads, NEW k \in Keys,
         refs[t][k] < MaxRefs, refs' = [refs EXCEPT ![t][k] = @ + 1],
         \A u \in Threads : Giving(u, k)' <=> Giving(u, k)
  PROVE  /\ Cardinality(References(k))' = Cardinality(References(k)) + 1
         /\ Cardinality(References(k)) \in Nat
<1> DEFINE n == refs[t][k]
<1>1. n \in Nat /\ n + 1 \in 0..MaxRefs /\ n + 1 # 0
  BY DEF RegistryTypes, RegistryAssumption
<1>2. refs'[t][k] = n + 1 /\ \A u \in Threads : u # t => refs'[u][k] = refs[u][k]
  BY DEF RegistryTypes
<1>3. References(k)' = References(k) \union {<<t, n + 1>>}
  <2>1. ASSUME NEW u \in Threads, NEW i \in 0..MaxRefs
        PROVE  <<u, i>> \in References(k)' <=> <<u, i>> \in References(k) \union {<<t, n + 1>>}
    <3>1. CASE u = t
      BY <1>1, <1>2, <2>1, <3>1 DEF References, RegistryAssumption
    <3>2. CASE u # t
      BY <1>1, <1>2, <2>1, <3>2 DEF References
    <3>3. QED
      BY <3>1, <3>2
  <2>2. References(k)' \subseteq Threads \X (0..MaxRefs)
    BY DEF References
  <2>3. References(k) \union {<<t, n + 1>>} \subseteq Threads \X (0..MaxRefs)
    BY <1>1 DEF References
  <2>4. QED
    BY <2>1, <2>2, <2>3
<1>4. <<t, n + 1>> \notin References(k)
  BY <1>1 DEF References
<1>5. QED
  BY <1>3, <1>4, ReferencesFinite, FS_AddElement, FS_CardinalityType

LEMMA OneMoreGiven ==
  ASSUME RegistryAssumption, NEW t \in Threads, NEW k \in Keys,
         \A u \in Threads : refs'[u][k] = refs[u][k],
         ~Giving(t, k), Giving(t, k)', \A u \in Threads : u # t => (Giving(u, k)' <=> Giving(u, k))
  PROVE  /\ Cardinality(References(k))' = Cardinality(References(k)) + 1
         /\ Cardinality(References(k)) \in Nat
<1>1. References(k)' = References(k) \union {<<t, 0>>} /\ <<t, 0>> \notin References(k)
  <2>1. ASSUME NEW u \in Threads, NEW i \in 0..MaxRefs
        PROVE  <<u, i>> \in References(k)' <=> <<u, i>> \in References(k) \union {<<t, 0>>}
    BY DEF References
  <2>2. /\ References(k)' \subseteq Threads \X (0..MaxRefs)
        /\ References(k) \union {<<t, 0>>} \subseteq Threads \X (0..MaxRefs)
        /\ <<t, 0>> \notin References(k)
    BY DEF References, RegistryAssumption
  <2>3. QED
    BY <2>1, <2>2
<1>2. QED
  BY <1>1, ReferencesFinite, FS_AddElement, FS_CardinalityType

LEMMA OneLessGiven ==
  ASSUME RegistryAssumption, NEW t \in Threads, NEW k \in Keys,
         \A u \in Threads : refs'[u][k] = refs[u][k],
         Giving(t, k), ~Giving(t, k)', \A u \in Threads : u # t => (Giving(u, k)' <=> Giving(u, k))
  PROVE  /\ References(k)' = References(k) \ {<<t, 0>>}
         /\ Cardinality(References(k))' = Cardinality(References(k)) - 1
         /\ Cardinality(References(k))' \in Nat
<1>1. References(k)' = References(k) \ {<<t, 0>>} /\ <<t, 0>> \in References(k)
  <2>1. ASSUME NEW u \in Threads, NEW i \in 0..MaxRefs
        PROVE  <<u, i>> \in References(k)' <=> <<u, i>> \in References(k) \ {<<t, 0>>}
    BY DEF References
  <2>2. /\ References(k)' \subseteq Threads \X (0..MaxRefs)
        /\ References(k) \subseteq Threads \X (0..MaxRefs)
        /\ <<t, 0>> \in References(k)
    BY DEF References, RegistryAssumption
  <2>3. QED
    BY <2>1, <2>2
<1>2. IsFiniteSet(References(k) \ {<<t, 0>>})
  BY ReferencesFinite, FS_RemoveElement
<1>3. QED
  BY <1>1, <1>2, ReferencesFinite, FS_RemoveElement, FS_CardinalityType

(* remove() takes the last of the caller's references for the one it gives back *)
LEMMA OneGivenBack ==
  ASSUME RegistryAssumption, RegistryTypes, NEW t \in Threads, NEW k \in Keys,
         refs[t][k] > 0, refs' = [refs EXCEPT ![t][k] = @ - 1],
         ~Giving(t, k), Giving(t, k)', \A u \in Threads : u # t => (Giving(u, k)' <=> Giving(u, k))
  PROVE  /\ Cardinality(References(k))' = Cardinality(References(k))
         /\ References(k) # {}
<1> DEFINE n == refs[t][k]
<1>1. n \in Nat /\ n \in 0..MaxRefs /\ n # 0 /\ n > 0
  BY DEF RegistryTypes, RegistryAssumption
<1>2. refs'[t][k] = n - 1 /\ \A u \in Threads : u # t => refs'[u][k] = refs[u][k]
  BY DEF RegistryTypes
<1>3. References(k)' = (References(k) \ {<<t, n>>}) \union {<<t, 0>>}
  <2>1. ASSUME NEW u \in Threads, NEW i \in 0..MaxRefs
        PROVE  <<u, i>> \in References(k)' <=> <<u, i>> \in (References(k) \ {<<t, n>>}) \union {<<t, 0>>}
    <3>1. CASE u = t
      BY <1>1, <1>2, <2>1, <3>1 DEF References, RegistryAssumption
    <3>2. CASE u # t
      BY <1>1, <1>2, <2>1, <3>2 DEF References
    <3>3. QED
      BY <3>1, <3>2
  <2>2. References(k)' \subseteq Threads \X (0..MaxRefs)
    BY DEF References
  <2>3. (References(k) \ {<<t, n>>}) \union {<<t, 0>>} \subseteq Threads \X (0..MaxRefs)
    BY DEF References, RegistryAssumption
  <2>4. QED
    BY <2>1, <2>2, <2>3
<1>4. <<t, n>> \in References(k) /\ <<t, 0>> \notin References(k)
  BY <1>1 DEF References
<1>5. /\ IsFiniteSet(References(k) \ {<<t, n>>})
      /\ Cardinality(References(k) \ {<<t, n>>}) = Cardinality(References(k)) - 1
      /\ Cardinality(References(k)) \in Nat
  BY <1>4, ReferencesFinite, FS_RemoveElement, FS_CardinalityType
<1> DEFINE S == References(k) \ {<<t, n>>}
<1>6. Cardinality(S \union {<<t, 0>>}) = Cardinality(S) + 1
  BY <1>4, <1>5, FS_AddElement
<1>7. QED
  BY <1>3, <1>4, <1>5, <1>6

(* A step that does not concern a key leaves its count. *)
LEMMA KeyLeftAlone ==
  ASSUME NEW k \in Keys, KeyCounted(k), References(k)' = References(k),
         Registered(k)' <=> Registered(k),
         Registered(k) => registry'[k].refCount = registry[k].refCount,
         Restoring(k) => Restoring(k)'
  PROVE  KeyCounted(k)'
  BY DEF KeyCounted

-------------------------------------------------------------------------------
(* The steps *)

(* The least free address is one. *)
LEMMA NewObjectIsFree ==
  ASSUME RegistryAssumption, alive \subseteq Objects, alive # Objects
  PROVE  NewObject \in Objects \ alive
<1>1. \E o \in Objects \ alive : \A p \in Objects \ alive : o <= p
  BY MinExists DEF RegistryAssumption
<1>2. QED
  BY <1>1 DEF NewObject

LEMMA RegistryTypesStep ==
  ASSUME RegistryAssumption, RegistryInv, NEW t \in Threads, Statement(t)
  PROVE  RegistryTypes'
<1> USE DEF RegistryTypes
<1>0. RegistryTypes
  BY DEF RegistryInv
<1>1. ASSUME NEW k \in Keys, AddCall(t, k) PROVE RegistryTypes'
  BY <1>0, <1>1, NewObjectIsFree DEF AddCall, Step, Lock!AcquireRead, Adding
<1>2. ASSUME NEW k \in Keys, RemoveCall(t, k) PROVE RegistryTypes'
  <2>1. refs[t][k] - 1 \in 0..MaxRefs
    BY <1>0, <1>2 DEF RemoveCall, RegistryAssumption
  <2>2. QED
    BY <1>0, <1>2, <2>1 DEF RemoveCall, Step, Lock!AcquireRead, Removing
<1>3. CASE Find(t)
  BY <1>0, <1>3 DEF Find, Step, Adding, lockVars
<1>4. CASE Upgrade(t)
  BY <1>0, <1>4 DEF Upgrade, Step, Adding, Removing, Lock!ReleaseRead
<1>5. CASE Wrlock(t)
  BY <1>0, <1>5 DEF Wrlock, Step, Adding, Removing, Lock!AcquireWrite
<1>6. CASE FindAgain(t)
  BY <1>0, <1>6 DEF FindAgain, Step, Adding, lockVars
<1>7. CASE Share(t)
  <2> DEFINE k == rKey[t]
  <2>1. k \in Keys /\ k \in DOMAIN registry /\ refs[t][k] < MaxRefs
    BY <1>0, <1>7 DEF Share, Step, RegistryInv, LookupsHold, Registered, Adding
  <2>2. registry[k].object \in Objects /\ registry[k].refCount + 1 \in Nat
    BY <1>0, <2>1
  <2>3. registry' \in [DOMAIN registry' -> [object : Objects, refCount : Nat]] /\ DOMAIN registry' \subseteq Keys
    BY <1>0, <1>7, <2>1, <2>2, CountRefSets DEF Share
  <2>4. refs[t][k] + 1 \in 0..MaxRefs
    BY <1>0, <2>1 DEF RegistryAssumption
  <2>5. QED
    BY <1>0, <1>7, <2>1, <2>2, <2>3, <2>4 DEF Share, Step, Give, lockVars
<1>8. CASE Register(t)
  <2> DEFINE k == rKey[t]
  <2>1. k \in Keys /\ refs[t][k] < MaxRefs /\ mine[t] # NoObject
    BY <1>0, <1>8 DEF Register, Step, RegistryInv, LookupsHold, ArgumentsApart, Adding
  <2>2. mine[t] \in Objects
    BY <1>0, <2>1
  <2>3. registry' \in [DOMAIN registry' -> [object : Objects, refCount : Nat]] /\ DOMAIN registry' \subseteq Keys
    BY <1>0, <1>8, <2>1, <2>2 DEF Register
  <2>4. refs[t][k] + 1 \in 0..MaxRefs
    BY <1>0, <2>1 DEF RegistryAssumption
  <2>5. QED
    BY <1>0, <1>8, <2>1, <2>2, <2>3, <2>4 DEF Register, Step, Give, lockVars
<1>9. CASE Drop(t)
  <2> DEFINE k == rKey[t]
             n == registry[k].refCount - 1
  <2>1. k \in DOMAIN registry /\ n \in Nat
    BY <1>9, GivingIsRegistered DEF Drop, Step, Registered
  <2>2. registry' \in [DOMAIN registry' -> [object : Objects, refCount : Nat]] /\ DOMAIN registry' \subseteq Keys
    BY <1>0, <1>9, <2>1, CountRefSets DEF Drop
  <2>3. QED
    BY <1>0, <1>9, <2>2 DEF Drop, Step, lockVars, Removing
<1>10. CASE Restore(t)
  <2> DEFINE k == rKey[t]
             n == registry[k].refCount + 1
  <2>1. k \in DOMAIN registry /\ n \in Nat
    BY <1>0, <1>10 DEF Restore, Step, RegistryInv, LookupsHold, Registered
  <2>2. registry' \in [DOMAIN registry' -> [object : Objects, refCount : Nat]] /\ DOMAIN registry' \subseteq Keys
    BY <1>0, <1>10, <2>1, CountRefSets DEF Restore
  <2>3. QED
    BY <1>0, <1>10, <2>2 DEF Restore, Step, lockVars, Removing
<1>11. CASE DropAgain(t)
  <2> DEFINE k == rKey[t]
             n == registry[k].refCount - 1
  <2>1. k \in DOMAIN registry /\ n \in Nat
    BY <1>11, GivingIsRegistered DEF DropAgain, Step, Registered
  <2>2. registry' \in [DOMAIN registry' -> [object : Objects, refCount : Nat]] /\ DOMAIN registry' \subseteq Keys
    <3>1. CASE n = 0
      BY <1>0, <1>11, <2>1, <3>1 DEF DropAgain
    <3>2. CASE n # 0
      BY <1>0, <1>11, <2>1, <3>2, CountRefSets DEF DropAgain
    <3>3. QED
      BY <3>1, <3>2
  <2>3. alive' \subseteq Objects
    BY <1>0, <1>11 DEF DropAgain
  <2>4. QED
    BY <1>0, <1>11, <2>2, <2>3 DEF DropAgain, Step, lockVars
<1>12. CASE Return(t)
  BY <1>0, <1>12 DEF Return, Step, Lock!ReleaseRead, Lock!ReleaseWrite
<1>13. QED
  BY <1>1, <1>2, <1>3, <1>4, <1>5, <1>6, <1>7, <1>8, <1>9, <1>10, <1>11, <1>12 DEF Statement

LEMMA RegistryLocksStep ==
  ASSUME RegistryAssumption, RegistryInv, NEW t \in Threads, Statement(t)
  PROVE  LocksFit'
<1>0. RegistryTypes /\ LocksFit
  BY DEF RegistryInv
<1>1. ASSUME NEW k \in Keys, AddCall(t, k) \/ RemoveCall(t, k) PROVE LocksFit'
  BY <1>0, <1>1 DEF AddCall, RemoveCall, Step, Lock!AcquireRead, LocksFit, RegistryTypes
<1>2. CASE Upgrade(t)
  BY <1>0, <1>2 DEF Upgrade, Step, Lock!ReleaseRead, LocksFit, RegistryTypes, RegistryAssumption
<1>3. CASE Wrlock(t)
  BY <1>0, <1>3 DEF Wrlock, Step, Lock!AcquireWrite, LocksFit, RegistryTypes, RegistryAssumption
<1>4. CASE Return(t)
  BY <1>0, <1>4 DEF Return, Step, Lock!ReleaseRead, Lock!ReleaseWrite, LocksFit, RegistryTypes, RegistryAssumption
<1>5. CASE Find(t)
  BY <1>0, <1>5 DEF Find, Step, LocksFit, RegistryTypes, lockVars
<1>6. CASE FindAgain(t)
  BY <1>0, <1>6 DEF FindAgain, Step, LocksFit, RegistryTypes, lockVars
<1>7. CASE Share(t)
  BY <1>0, <1>7 DEF Share, Step, LocksFit, RegistryTypes, lockVars
<1>8. CASE Register(t)
  BY <1>0, <1>8 DEF Register, Step, LocksFit, RegistryTypes, lockVars
<1>9. CASE Drop(t)
  BY <1>0, <1>9 DEF Drop, Step, LocksFit, RegistryTypes, lockVars
<1>10. CASE Restore(t)
  BY <1>0, <1>10 DEF Restore, Step, LocksFit, RegistryTypes, lockVars
<1>11. CASE DropAgain(t)
  BY <1>0, <1>11 DEF DropAgain, Step, LocksFit, RegistryTypes, lockVars
<1>12. QED
  BY <1>1, <1>2, <1>3, <1>4, <1>5, <1>6, <1>7, <1>8, <1>9, <1>10, <1>11 DEF Statement

(* While a writer is inside, everybody else is outside or waits for the lock. *)
LEMMA WriterAlone ==
  ASSUME RegistryAssumption, RegistryInv, NEW t \in Threads, lockWriter = t
  PROVE  \A u \in Threads : u # t => rPc[u] \in {"idle", "wrlock", "wrlockDrop"} /\ u \notin lockReaders
<1>1. lockReaders = {}
  BY DEF RegistryInv, LocksFit, RegistryAssumption
<1>2. QED
  BY <1>1 DEF RegistryInv, LocksFit, RegistryTypes, Adding, Removing

LEMMA LookupsStep ==
  ASSUME RegistryAssumption, RegistryInv, NEW t \in Threads, Statement(t)
  PROVE  LookupsHold'
<1> USE DEF Registered
<1>0. RegistryTypes /\ LookupsHold
  BY DEF RegistryInv
<1>1. ASSUME NEW k \in Keys, AddCall(t, k) PROVE LookupsHold'
  BY <1>0, <1>1 DEF AddCall, Step, LookupsHold, RegistryTypes, Adding
<1>2. ASSUME NEW k \in Keys, RemoveCall(t, k) PROVE LookupsHold'
  <2>1. \A u \in Threads : u # t => refs'[u] = refs[u] /\ rPc'[u] = rPc[u] /\ rKey'[u] = rKey[u]
    BY <1>0, <1>2 DEF RemoveCall, Step, RegistryTypes
  <2>2. rPc'[t] = "drop" /\ registry' = registry
    BY <1>0, <1>2 DEF RemoveCall, Step, RegistryTypes
  <2>3. QED
    BY <1>0, <2>1, <2>2 DEF LookupsHold, Adding
<1>3. CASE Find(t) \/ Upgrade(t) \/ Wrlock(t) \/ FindAgain(t) \/ Return(t)
  <2>1. UNCHANGED <<registry, refs>>
    BY <1>3 DEF Find, Upgrade, Wrlock, FindAgain, Return
  <2>2. CASE Find(t) \/ FindAgain(t)
    BY <1>0, <2>1, <2>2 DEF Find, FindAgain, Step, LookupsHold, RegistryTypes, Adding
  <2>3. CASE Upgrade(t) \/ Wrlock(t)
    BY <1>0, <2>1, <2>3 DEF Upgrade, Wrlock, Step, LookupsHold, RegistryTypes, Adding
  <2>4. CASE Return(t)
    BY <1>0, <2>1, <2>4 DEF Return, Step, LookupsHold, RegistryTypes, Adding
  <2>5. QED
    BY <1>3, <2>2, <2>3, <2>4
<1>4. CASE Share(t)
  <2>1. rKey[t] \in DOMAIN registry /\ registry[rKey[t]].refCount + 1 \in Nat
    BY <1>0, <1>4 DEF Share, Step, LookupsHold, RegistryTypes
  <2>2. DOMAIN registry' = DOMAIN registry
    BY <1>0, <1>4, <2>1, CountRefSets DEF Share
  <2>3. \A u \in Threads : u # t => refs'[u] = refs[u] /\ rPc'[u] = rPc[u] /\ rKey'[u] = rKey[u]
    BY <1>0, <1>4 DEF Share, Step, Give, RegistryTypes
  <2>4. rPc'[t] = "return"
    BY <1>0, <1>4 DEF Share, Step, RegistryTypes
  <2>5. QED
    BY <1>0, <2>2, <2>3, <2>4 DEF LookupsHold, Adding
<1>5. CASE Drop(t)
  <2>1. rKey[t] \in DOMAIN registry /\ registry[rKey[t]].refCount - 1 \in Nat
    BY <1>5, GivingIsRegistered DEF Drop, Step
  <2>2. DOMAIN registry' = DOMAIN registry
    BY <1>0, <1>5, <2>1, CountRefSets DEF Drop
  <2>3. QED
    BY <1>0, <1>5, <2>1, <2>2 DEF Drop, Step, LookupsHold, RegistryTypes, Adding
<1>6. CASE Restore(t)
  <2>1. rKey[t] \in DOMAIN registry /\ registry[rKey[t]].refCount + 1 \in Nat
    BY <1>0, <1>6 DEF Restore, Step, LookupsHold, RegistryTypes
  <2>2. DOMAIN registry' = DOMAIN registry
    BY <1>0, <1>6, <2>1, CountRefSets DEF Restore
  <2>3. QED
    BY <1>0, <1>6, <2>2 DEF Restore, Step, LookupsHold, RegistryTypes, Adding
<1>7. CASE Register(t) \/ DropAgain(t)
  <2>1. lockWriter = t
    BY <1>7 DEF Register, DropAgain, Step, RegistryInv, LocksFit
  <2>2. \A u \in Threads : u # t => refs'[u] = refs[u] /\ rPc'[u] = rPc[u] /\ rKey'[u] = rKey[u]
    BY <1>0, <1>7 DEF Register, DropAgain, Step, Give, RegistryTypes
  <2>3. rPc'[t] = "return"
    BY <1>0, <1>7 DEF Register, DropAgain, Step, RegistryTypes
  <2>4. QED
    BY <1>0, <2>1, <2>2, <2>3, WriterAlone DEF LookupsHold, Adding
<1>8. QED
  BY <1>1, <1>2, <1>3, <1>4, <1>5, <1>6, <1>7 DEF Statement

(* What the steps do to the objects: all but four leave them. *)
LEMMA ObjectsStep ==
  ASSUME RegistryAssumption, RegistryInv, NEW t \in Threads, Statement(t)
  PROVE  ArgumentsApart' /\ ObjectsKnown'
<1>0. RegistryTypes /\ ArgumentsApart /\ ObjectsKnown
  BY DEF RegistryInv
<1>1. ASSUME NEW k \in Keys, AddCall(t, k) PROVE ArgumentsApart' /\ ObjectsKnown'
  <2>1. NewObject \in Objects \ alive /\ NewObject # NoObject
    BY <1>0, <1>1, NewObjectIsFree DEF AddCall, RegistryTypes, RegistryAssumption
  <2>2. /\ mine' = [mine EXCEPT ![t] = NewObject] /\ registry' = registry
        /\ alive' = alive \union {NewObject} /\ rPc[t] = "idle" /\ rPc' = [rPc EXCEPT ![t] = "find"]
    BY <1>1 DEF AddCall, Step
  <2>3. mine[t] = NoObject
    BY <1>0, <2>2 DEF ArgumentsApart, Adding
  <2>4. Arguments' = Arguments \union {NewObject} /\ RegisteredObjects' = RegisteredObjects
    BY <1>0, <2>1, <2>2, <2>3 DEF Arguments, RegisteredObjects, RegistryTypes
  <2>5. \A u \in Threads : mine[u] # NewObject
    BY <1>0, <2>1 DEF ObjectsKnown, Arguments
  <2>6. ArgumentsApart'
    BY <1>0, <2>1, <2>2, <2>3, <2>5 DEF ArgumentsApart, Adding, RegistryTypes
  <2>7. ObjectsKnown'
    BY <1>0, <2>1, <2>2, <2>4 DEF ObjectsKnown
  <2>8. QED
    BY <2>6, <2>7
<1>2. ASSUME NEW k \in Keys, RemoveCall(t, k) PROVE ArgumentsApart' /\ ObjectsKnown'
  <2>1. UNCHANGED <<registry, mine, alive>>
    BY <1>2 DEF RemoveCall
  <2>2. ObjectsKnown'
    BY <1>0, <2>1 DEF ObjectsKnown, Arguments, RegisteredObjects
  <2>3. \A u \in Threads : rPc'[u] \in Adding <=> rPc[u] \in Adding
    BY <1>0, <1>2 DEF RemoveCall, Step, Adding, RegistryTypes
  <2>4. QED
    BY <1>0, <2>1, <2>2, <2>3 DEF ArgumentsApart
<1>3. CASE Find(t) \/ Upgrade(t) \/ Wrlock(t) \/ FindAgain(t) \/ Return(t)
  <2>1. UNCHANGED <<registry, mine, alive>>
    BY <1>3 DEF Find, Upgrade, Wrlock, FindAgain, Return
  <2>2. ObjectsKnown'
    BY <1>0, <2>1 DEF ObjectsKnown, Arguments, RegisteredObjects
  <2>3. \A u \in Threads : rPc'[u] \in Adding <=> rPc[u] \in Adding
    BY <1>0, <1>3 DEF Find, Upgrade, Wrlock, FindAgain, Return, Step, Adding, RegistryTypes
  <2>4. QED
    BY <1>0, <2>1, <2>2, <2>3 DEF ArgumentsApart
<1>4. CASE Drop(t) \/ Restore(t) \/ (DropAgain(t) /\ registry[rKey[t]].refCount # 1)
  <2>1. PICK n \in Nat : CountRef(rKey[t], n) /\ rKey[t] \in DOMAIN registry
    <3>1. CASE Restore(t)
      BY <1>0, <3>1, SMTT(30) DEF Restore, Step, RegistryInv, LookupsHold, Registered, RegistryTypes
    <3>2. CASE Drop(t)
      BY <3>2, GivingIsRegistered DEF Drop, Step, Registered
    <3>3. CASE DropAgain(t) /\ registry[rKey[t]].refCount # 1
      BY <3>3, GivingIsRegistered DEF DropAgain, Step, Registered
    <3>4. QED
      BY <1>4, <3>1, <3>2, <3>3
  <2>2. /\ DOMAIN registry' = DOMAIN registry
        /\ \A j \in DOMAIN registry : registry'[j].object = registry[j].object
    BY <1>0, <2>1, CountRefSets
  <2>3. UNCHANGED <<mine, alive>>
    <3>1. CASE DropAgain(t) /\ registry[rKey[t]].refCount # 1
      BY <3>1, GivingIsRegistered DEF DropAgain, Step
    <3>2. QED
      BY <1>4, <3>1 DEF Drop, Restore
  <2>4. \A u \in Threads : rPc'[u] \in Adding <=> rPc[u] \in Adding
    BY <1>0, <1>4 DEF Drop, Restore, DropAgain, Step, Adding, RegistryTypes
  <2>5. Arguments' = Arguments /\ RegisteredObjects' = RegisteredObjects
    BY <2>2, <2>3 DEF Arguments, RegisteredObjects
  <2>6. QED
    BY <1>0, <2>2, <2>3, <2>4, <2>5 DEF ArgumentsApart, ObjectsKnown
<1>5. CASE Share(t)
  <2>1. /\ rKey[t] \in DOMAIN registry /\ registry[rKey[t]].refCount + 1 \in Nat
        /\ rPc[t] = "share" /\ rPc' = [rPc EXCEPT ![t] = "return"]
    BY <1>0, <1>5 DEF Share, Step, RegistryInv, LookupsHold, RegistryTypes, Registered
  <2>2. /\ DOMAIN registry' = DOMAIN registry
        /\ \A j \in DOMAIN registry : registry'[j].object = registry[j].object
    BY <1>0, <1>5, <2>1, CountRefSets DEF Share
  <2>3. mine' = [mine EXCEPT ![t] = NoObject] /\ alive' = alive \ {mine[t]} /\ mine[t] # NoObject
    BY <1>0, <1>5, <2>1 DEF Share, ArgumentsApart, Adding
  <2>4. Arguments' = Arguments \ {mine[t]} /\ RegisteredObjects' = RegisteredObjects
    <3>1. Arguments' = Arguments \ {mine[t]}
      BY <1>0, <2>3 DEF Arguments, ArgumentsApart, RegistryTypes
    <3>2. RegisteredObjects' = RegisteredObjects
      BY <2>2 DEF RegisteredObjects
    <3>3. QED
      BY <3>1, <3>2
  <2>5. mine[t] \in Arguments
    BY <2>3 DEF Arguments
  <2>6. ObjectsKnown'
    BY <1>0, <2>3, <2>4, <2>5 DEF ObjectsKnown
  <2>7. ArgumentsApart'
    BY <1>0, <2>1, <2>2, <2>3 DEF ArgumentsApart, Adding, RegistryTypes
  <2>8. QED
    BY <2>6, <2>7
<1>6. CASE Register(t)
  <2> DEFINE k == rKey[t]
  <2>1. /\ k \in Keys /\ k \notin DOMAIN registry /\ mine[t] # NoObject
        /\ rPc[t] = "register" /\ rPc' = [rPc EXCEPT ![t] = "return"]
        /\ mine' = [mine EXCEPT ![t] = NoObject] /\ alive' = alive
    BY <1>0, <1>6 DEF Register, Step, RegistryInv, LookupsHold, RegistryTypes, Registered, ArgumentsApart, Adding
  <2>2. /\ DOMAIN registry' = DOMAIN registry \union {k} /\ registry'[k].object = mine[t]
        /\ \A j \in DOMAIN registry : registry'[j] = registry[j]
    BY <1>6, <2>1 DEF Register
  <2>3. mine[t] \in Arguments /\ mine[t] \notin RegisteredObjects
    BY <1>0, <2>1 DEF Arguments, ObjectsKnown
  <2>4. Arguments' = Arguments \ {mine[t]}
    BY <1>0, <2>1 DEF Arguments, ArgumentsApart, RegistryTypes
  <2>5. RegisteredObjects' = RegisteredObjects \union {mine[t]}
    BY <2>2 DEF RegisteredObjects
  <2>6. ObjectsKnown'
    BY <1>0, <2>1, <2>3, <2>4, <2>5 DEF ObjectsKnown
  <2>7. \A i, j \in DOMAIN registry' : registry'[i].object = registry'[j].object => i = j
    BY <1>0, <2>2, <2>3 DEF ArgumentsApart, RegisteredObjects
  <2>8. ArgumentsApart'
    BY <1>0, <2>1, <2>7 DEF ArgumentsApart, Adding, RegistryTypes
  <2>9. QED
    BY <2>6, <2>8
<1>7. CASE DropAgain(t) /\ registry[rKey[t]].refCount = 1
  <2> DEFINE k == rKey[t]
             o == registry[k].object
  <2>1. k \in DOMAIN registry /\ o \in RegisteredObjects
    BY <1>7, GivingIsRegistered DEF DropAgain, Step, Registered, RegisteredObjects
  <2>2. /\ alive' = alive \ {o} /\ mine' = mine
        /\ registry' = [j \in DOMAIN registry \ {k} |-> registry[j]]
        /\ rPc[t] = "dropAgain" /\ rPc' = [rPc EXCEPT ![t] = "return"]
    BY <1>7 DEF DropAgain, Step
  <2>3. RegisteredObjects' = RegisteredObjects \ {o} /\ Arguments' = Arguments
    <3>1. /\ DOMAIN registry' = DOMAIN registry \ {k}
          /\ \A j \in DOMAIN registry : j # k => registry'[j] = registry[j]
      BY <2>2
    <3>2. \A j \in DOMAIN registry : j # k => registry[j].object # o
      BY <1>0, <2>1 DEF ArgumentsApart
    <3>3. RegisteredObjects' = RegisteredObjects \ {o}
      BY <2>1, <3>1, <3>2 DEF RegisteredObjects
    <3>4. QED
      BY <2>2, <3>3 DEF Arguments
  <2>4. ObjectsKnown'
    BY <1>0, <2>1, <2>2, <2>3 DEF ObjectsKnown
  <2>5. ArgumentsApart'
    BY <1>0, <2>2 DEF ArgumentsApart, Adding, RegistryTypes
  <2>6. QED
    BY <2>4, <2>5
<1>8. QED
  BY <1>1, <1>2, <1>3, <1>4, <1>5, <1>6, <1>7 DEF Statement

(* The counts: a step makes or ends one reference, or hands one over. *)
LEMMA CountsStep ==
  ASSUME RegistryAssumption, RegistryInv, NEW t \in Threads, Statement(t)
  PROVE  RefCountExact'
<1>0. RegistryTypes /\ LocksFit /\ LookupsHold /\ RefCountExact
  BY DEF RegistryInv
<1>1. SUFFICES ASSUME NEW k \in Keys PROVE KeyCounted(k)'
  BY DEF RefCountExact
<1>2. KeyCounted(k)
  BY <1>0 DEF RefCountExact
<1>3. ASSUME NEW i \in Keys, AddCall(t, i) PROVE KeyCounted(k)'
  <2>1. /\ rPc[t] = "idle" /\ rPc' = [rPc EXCEPT ![t] = "find"] /\ rKey' = [rKey EXCEPT ![t] = i]
        /\ UNCHANGED <<registry, refs>> /\ lockReaders' = lockReaders \union {t}
    BY <1>3 DEF AddCall, Step, Lock!AcquireRead
  <2>2. References(k)' = References(k)
    BY <1>0, <2>1, SameReferences DEF Giving, RegistryTypes
  <2>3. Restoring(k) => Restoring(k)'
    BY <1>0, <2>1 DEF Restoring, RegistryTypes
  <2>4. QED
    BY <1>2, <2>1, <2>2, <2>3, KeyLeftAlone DEF Registered
<1>4. ASSUME NEW i \in Keys, RemoveCall(t, i) PROVE KeyCounted(k)'
  <2>1. /\ rPc[t] = "idle" /\ rPc' = [rPc EXCEPT ![t] = "drop"] /\ rKey' = [rKey EXCEPT ![t] = i]
        /\ registry' = registry /\ lockReaders' = lockReaders \union {t}
        /\ refs[t][i] > 0 /\ refs' = [refs EXCEPT ![t][i] = @ - 1]
    BY <1>4 DEF RemoveCall, Step, Lock!AcquireRead
  <2>2. Restoring(k) => Restoring(k)'
    BY <1>0, <2>1 DEF Restoring, RegistryTypes
  <2>3. CASE i # k
    <3>1. References(k)' = References(k)
      BY <1>0, <2>1, <2>3, SameReferences DEF Giving, RegistryTypes
    <3>2. QED
      BY <1>2, <2>1, <2>2, <3>1, KeyLeftAlone DEF Registered
  <2>4. CASE i = k
    <3>1. /\ ~Giving(t, k) /\ Giving(t, k)'
          /\ \A u \in Threads : u # t => (Giving(u, k)' <=> Giving(u, k))
      BY <1>0, <2>1, <2>4 DEF Giving, RegistryTypes
    <3>2. Cardinality(References(k))' = Cardinality(References(k)) /\ References(k) # {}
      BY <1>0, <2>1, <2>4, <3>1, OneGivenBack
    <3>3. QED
      BY <1>2, <2>1, <2>2, <3>2 DEF KeyCounted, Registered
  <2>5. QED
    BY <2>3, <2>4
<1>5. CASE Find(t) \/ Upgrade(t) \/ Wrlock(t) \/ FindAgain(t) \/ Return(t)
  <2>1. UNCHANGED <<registry, refs>>
    BY <1>5 DEF Find, Upgrade, Wrlock, FindAgain, Return
  <2>2. \A u \in Threads : Giving(u, k)' <=> Giving(u, k)
    <3>1. CASE Find(t) \/ Upgrade(t) \/ Wrlock(t) \/ FindAgain(t)
      BY <1>0, <3>1 DEF Find, Upgrade, Wrlock, FindAgain, Step, Giving, RegistryTypes
    <3>2. CASE Return(t)
      BY <1>0, <3>2 DEF Return, Step, Giving, RegistryTypes
    <3>3. QED
      BY <1>5, <3>1, <3>2
  <2>3. References(k)' = References(k)
    BY <2>1, <2>2, SameReferences
  <2>4. Restoring(k) => Restoring(k)'
    <3>1. \A u \in Threads : rPc[u] = "restore" => rPc'[u] = "restore" /\ rKey'[u] = rKey[u]
      BY <1>0, <1>5 DEF Find, Upgrade, Wrlock, FindAgain, Return, Step, RegistryTypes
    <3>2. \A u \in lockReaders : rPc[u] = "restore" => u \in lockReaders'
      BY <1>0, <1>5 DEF Find, Upgrade, Wrlock, FindAgain, Return, Step, Lock!ReleaseRead,
                        Lock!ReleaseWrite, Lock!AcquireWrite, lockVars, RegistryTypes
    <3>3. QED
      BY <1>0, <3>1, <3>2 DEF Restoring, RegistryTypes
  <2>5. QED
    BY <1>2, <2>1, <2>3, <2>4, KeyLeftAlone DEF Registered
<1>6. CASE Share(t)
  <2> DEFINE i == rKey[t]
             n == registry[i].refCount + 1
  <2>1. /\ i \in Keys /\ i \in DOMAIN registry /\ n \in Nat /\ n # 0 /\ refs[t][i] < MaxRefs
        /\ rPc[t] = "share" /\ rPc' = [rPc EXCEPT ![t] = "return"]
        /\ UNCHANGED <<lockReaders, rKey>> /\ refs' = [refs EXCEPT ![t][i] = @ + 1]
    BY <1>0, <1>6 DEF Share, Step, Give, LookupsHold, RegistryTypes, Registered, Adding, lockVars
  <2>2. /\ DOMAIN registry' = DOMAIN registry /\ registry'[i].refCount = n
        /\ \A j \in DOMAIN registry : j # i => registry'[j] = registry[j]
    BY <1>0, <1>6, <2>1, CountRefSets DEF Share
  <2>3. \A u \in Threads : Giving(u, k)' <=> Giving(u, k)
    BY <1>0, <2>1 DEF Giving, RegistryTypes
  <2>4. CASE k # i
    <3>1. References(k)' = References(k)
      BY <1>0, <2>1, <2>3, <2>4, SameReferences DEF RegistryTypes
    <3>2. Restoring(k) => Restoring(k)'
      BY <1>0, <2>1 DEF Restoring, RegistryTypes
    <3>3. QED
      BY <1>2, <2>2, <2>4, <3>1, <3>2, KeyLeftAlone DEF Registered
  <2>5. CASE k = i
    <3>1. Cardinality(References(k))' = Cardinality(References(k)) + 1
      BY <1>0, <2>1, <2>3, <2>5, OneMoreHeld
    <3>2. QED
      BY <1>2, <2>1, <2>2, <2>5, <3>1 DEF KeyCounted, Registered
  <2>6. QED
    BY <2>4, <2>5
<1>7. CASE Register(t)
  <2> DEFINE i == rKey[t]
  <2>1. /\ i \in Keys /\ i \notin DOMAIN registry /\ refs[t][i] < MaxRefs
        /\ rPc[t] = "register" /\ rPc' = [rPc EXCEPT ![t] = "return"]
        /\ UNCHANGED <<lockReaders, rKey>> /\ refs' = [refs EXCEPT ![t][i] = @ + 1]
    BY <1>0, <1>7 DEF Register, Step, Give, LookupsHold, RegistryTypes, Registered, Adding, lockVars
  <2>2. /\ DOMAIN registry' = DOMAIN registry \union {i} /\ registry'[i].refCount = 1
        /\ \A j \in DOMAIN registry : registry'[j] = registry[j]
    BY <1>7, <2>1 DEF Register
  <2>3. \A u \in Threads : Giving(u, k)' <=> Giving(u, k)
    BY <1>0, <2>1 DEF Giving, RegistryTypes
  <2>4. CASE k # i
    <3>1. References(k)' = References(k)
      BY <1>0, <2>1, <2>3, <2>4, SameReferences DEF RegistryTypes
    <3>2. Restoring(k) => Restoring(k)'
      BY <1>0, <2>1 DEF Restoring, RegistryTypes
    <3>3. QED
      BY <1>2, <2>2, <2>4, <3>1, <3>2, KeyLeftAlone DEF Registered
  <2>5. CASE k = i
    <3>1. Cardinality(References(k))' = Cardinality(References(k)) + 1
      BY <1>0, <2>1, <2>3, <2>5, OneMoreHeld
    <3>2. Cardinality(References(k)) = 0
      BY <1>2, <2>1, <2>5, FS_EmptySet DEF KeyCounted, Registered
    <3>3. QED
      BY <2>1, <2>2, <2>5, <3>1, <3>2 DEF KeyCounted, Registered
  <2>6. QED
    BY <2>4, <2>5
<1>8. CASE Drop(t)
  <2> DEFINE i == rKey[t]
             n == registry[i].refCount - 1
  <2>1. /\ i \in Keys /\ i \in DOMAIN registry /\ n \in Nat
        /\ registry[i].refCount = Cardinality(References(i))
        /\ rPc[t] = "drop" /\ rPc' = [rPc EXCEPT ![t] = IF n > 0 THEN "return" ELSE "restore"]
        /\ UNCHANGED <<lockReaders, rKey, refs>>
    BY <1>8, GivingIsRegistered DEF Drop, Step, Registered, lockVars
  <2>2. /\ DOMAIN registry' = DOMAIN registry /\ registry'[i].refCount = n
        /\ \A j \in DOMAIN registry : j # i => registry'[j] = registry[j]
    BY <1>0, <1>8, <2>1, CountRefSets DEF Drop
  <2>3. \A u \in Threads : u # t => rPc'[u] = rPc[u]
    BY <1>0, <2>1 DEF RegistryTypes
  <2>4. rPc'[t] \in {"return", "restore"} /\ (n = 0 => rPc'[t] = "restore")
    BY <1>0, <2>1 DEF RegistryTypes
  <2>5. Restoring(k) => Restoring(k)'
    BY <1>0, <2>1, <2>3 DEF Restoring, RegistryTypes
  <2>6. CASE k # i
    <3>1. References(k)' = References(k)
      BY <2>1, <2>3, <2>4, <2>6, SameReferences DEF Giving
    <3>2. QED
      BY <1>2, <2>2, <2>5, <2>6, <3>1, KeyLeftAlone DEF Registered
  <2>7. CASE k = i
    <3>1. /\ Giving(t, k) /\ ~Giving(t, k)'
          /\ \A u \in Threads : u # t => (Giving(u, k)' <=> Giving(u, k))
      BY <2>1, <2>3, <2>4, <2>7 DEF Giving
    <3>2. Cardinality(References(k))' = Cardinality(References(k)) - 1
      BY <2>1, <3>1, OneLessGiven
    <3>3. t \in lockReaders
      BY <1>0, <2>1 DEF LocksFit
    <3>4. n = 0 => Restoring(k)'
      BY <2>1, <2>4, <2>7, <3>3 DEF Restoring
    <3>5. QED
      BY <2>1, <2>2, <2>7, <3>2, <3>4 DEF KeyCounted, Registered
  <2>8. QED
    BY <2>6, <2>7
<1>9. CASE Restore(t)
  <2> DEFINE i == rKey[t]
             n == registry[i].refCount + 1
  <2>1. /\ i \in Keys /\ i \in DOMAIN registry /\ n \in Nat /\ n # 0
        /\ rPc[t] = "restore" /\ rPc' = [rPc EXCEPT ![t] = "upgradeDrop"]
        /\ UNCHANGED <<lockReaders, rKey, refs>>
    BY <1>0, <1>9 DEF Restore, Step, LookupsHold, RegistryTypes, Registered, lockVars
  <2>2. /\ DOMAIN registry' = DOMAIN registry /\ registry'[i].refCount = n
        /\ \A j \in DOMAIN registry : j # i => registry'[j] = registry[j]
    BY <1>0, <1>9, <2>1, CountRefSets DEF Restore
  <2>3. rPc'[t] = "upgradeDrop" /\ \A u \in Threads : u # t => rPc'[u] = rPc[u]
    BY <1>0, <2>1 DEF RegistryTypes
  <2>4. CASE k # i
    <3>1. References(k)' = References(k)
      BY <2>1, <2>3, <2>4, SameReferences DEF Giving
    <3>2. Restoring(k) => Restoring(k)'
      BY <1>0, <2>1, <2>3, <2>4 DEF Restoring, RegistryTypes
    <3>3. QED
      BY <1>2, <2>2, <2>4, <3>1, <3>2, KeyLeftAlone DEF Registered
  <2>5. CASE k = i
    <3>1. /\ ~Giving(t, k) /\ Giving(t, k)'
          /\ \A u \in Threads : u # t => (Giving(u, k)' <=> Giving(u, k))
      BY <2>1, <2>3, <2>5 DEF Giving
    <3>2. Cardinality(References(k))' = Cardinality(References(k)) + 1
      BY <2>1, <3>1, OneMoreGiven
    <3>3. QED
      BY <1>2, <2>1, <2>2, <2>5, <3>2 DEF KeyCounted, Registered
  <2>6. QED
    BY <2>4, <2>5
<1>10. CASE DropAgain(t)
  <2> DEFINE i == rKey[t]
             n == registry[i].refCount - 1
  <2>1. /\ i \in Keys /\ i \in DOMAIN registry /\ n \in Nat
        /\ registry[i].refCount = Cardinality(References(i))
        /\ rPc[t] = "dropAgain" /\ rPc' = [rPc EXCEPT ![t] = "return"]
        /\ UNCHANGED <<lockReaders, rKey, refs>>
    BY <1>10, GivingIsRegistered DEF DropAgain, Step, Registered, lockVars
  <2>2. rPc'[t] = "return" /\ \A u \in Threads : u # t => rPc'[u] = rPc[u]
    BY <1>0, <2>1 DEF RegistryTypes
  <2>3. \A j \in Keys : j # i =>
            (j \in DOMAIN registry' <=> j \in DOMAIN registry)
            /\ (j \in DOMAIN registry => registry'[j] = registry[j])
    <3>1. CASE n = 0
      BY <1>10, <3>1 DEF DropAgain
    <3>2. CASE n # 0
      BY <1>0, <1>10, <2>1, <3>2, CountRefSets DEF DropAgain
    <3>3. QED
      BY <3>1, <3>2
  <2>4. CASE k # i
    <3>1. References(k)' = References(k)
      BY <2>1, <2>2, <2>4, SameReferences DEF Giving
    <3>2. Restoring(k) => Restoring(k)'
      BY <1>0, <2>1, <2>2 DEF Restoring, RegistryTypes
    <3>3. QED
      BY <1>2, <2>3, <2>4, <3>1, <3>2, KeyLeftAlone DEF Registered
  <2>5. CASE k = i
    <3>1. /\ Giving(t, k) /\ ~Giving(t, k)'
          /\ \A u \in Threads : u # t => (Giving(u, k)' <=> Giving(u, k))
      BY <2>1, <2>2, <2>5 DEF Giving
    <3>2. /\ References(k)' = References(k) \ {<<t, 0>>}
          /\ Cardinality(References(k))' = n
      BY <2>1, <2>5, <3>1, OneLessGiven
    <3>3. CASE n = 0
      <4>1. References(k)' = {}
        <5>1. IsFiniteSet(References(k) \ {<<t, 0>>})
          BY ReferencesFinite, FS_RemoveElement
        <5>2. QED
          BY <3>2, <3>3, <5>1, FS_EmptySet
      <4>2. k \notin DOMAIN registry'
        BY <1>10, <2>5, <3>3 DEF DropAgain
      <4>3. QED
        BY <4>1, <4>2 DEF KeyCounted, Registered
    <3>4. CASE n # 0
      <4>1. DOMAIN registry' = DOMAIN registry /\ registry'[i].refCount = n
        BY <1>0, <1>10, <2>1, <3>4, CountRefSets DEF DropAgain
      <4>2. QED
        BY <2>1, <2>5, <3>2, <3>4, <4>1 DEF KeyCounted, Registered
    <3>5. QED
      BY <3>3, <3>4
  <2>6. QED
    BY <2>4, <2>5
<1>11. QED
  BY <1>3, <1>4, <1>5, <1>6, <1>7, <1>8, <1>9, <1>10 DEF Statement

(* What the callers hold stays what is registered. *)
LEMMA HoldersStep ==
  ASSUME RegistryAssumption, RegistryInv, NEW t \in Threads, Statement(t)
  PROVE  HoldersAgree'
<1>0. RegistryTypes /\ HoldersAgree
  BY DEF RegistryInv
<1> USE DEF Registered
<1>1. ASSUME NEW i \in Keys, AddCall(t, i) PROVE HoldersAgree'
  BY <1>0, <1>1 DEF AddCall, HoldersAgree
<1>2. ASSUME NEW i \in Keys, RemoveCall(t, i) PROVE HoldersAgree'
  <2>1. /\ registry' = registry /\ refs[t][i] > 0 /\ refs' = [refs EXCEPT ![t][i] = @ - 1]
        /\ held' = IF refs[t][i] = 1 THEN [held EXCEPT ![t][i] = NoObject] ELSE held
    BY <1>2 DEF RemoveCall
  <2>2. ASSUME NEW u \in Threads, NEW k \in Keys, refs'[u][k] > 0
        PROVE  refs[u][k] > 0 /\ held'[u][k] = held[u][k]
    <3>0. refs[u][k] \in Nat /\ refs[t][i] \in Nat
      BY <1>0 DEF RegistryTypes, RegistryAssumption
    <3>1. CASE u = t /\ k = i
      BY <1>0, <2>1, <2>2, <3>0, <3>1 DEF RegistryTypes
    <3>2. CASE ~(u = t /\ k = i)
      BY <1>0, <2>1, <2>2, <3>2 DEF RegistryTypes
    <3>3. QED
      BY <3>1, <3>2
  <2>3. QED
    BY <1>0, <2>1, <2>2 DEF HoldersAgree
<1>3. CASE Find(t) \/ Upgrade(t) \/ Wrlock(t) \/ FindAgain(t) \/ Return(t)
  BY <1>0, <1>3 DEF Find, Upgrade, Wrlock, FindAgain, Return, HoldersAgree
<1>4. CASE Drop(t) \/ Restore(t) \/ (DropAgain(t) /\ registry[rKey[t]].refCount # 1)
  <2>1. PICK n \in Nat : CountRef(rKey[t], n) /\ rKey[t] \in DOMAIN registry
    <3>1. CASE Restore(t)
      BY <1>0, <3>1, SMTT(30) DEF Restore, Step, RegistryInv, LookupsHold, RegistryTypes
    <3>2. CASE Drop(t)
      BY <3>2, GivingIsRegistered DEF Drop, Step
    <3>3. CASE DropAgain(t) /\ registry[rKey[t]].refCount # 1
      BY <3>3, GivingIsRegistered DEF DropAgain, Step
    <3>4. QED
      BY <1>4, <3>1, <3>2, <3>3
  <2>2. UNCHANGED <<refs, held>>
    BY <1>4 DEF Drop, Restore, DropAgain
  <2>3. QED
    BY <1>0, <2>1, <2>2, CountRefSets DEF HoldersAgree
<1>5. CASE Share(t) \/ Register(t)
  <2> DEFINE i == rKey[t]
  <2>1. /\ i \in Keys /\ i \in DOMAIN registry'
        /\ \A j \in DOMAIN registry : j \in DOMAIN registry' /\ registry'[j].object = registry[j].object
        /\ held' = [held EXCEPT ![t][i] = registry'[i].object]
        /\ refs' = [refs EXCEPT ![t][i] = @ + 1]
    <3>1. CASE Share(t)
      <4>1. i \in Keys /\ i \in DOMAIN registry /\ registry[i].refCount + 1 \in Nat
        BY <1>0, <3>1 DEF Share, Step, RegistryInv, LookupsHold, RegistryTypes
      <4>2. QED
        BY <1>0, <3>1, <4>1, CountRefSets DEF Share, Give
    <3>2. CASE Register(t)
      <4>1. i \in Keys /\ i \notin DOMAIN registry
        BY <1>0, <3>2 DEF Register, Step, RegistryInv, LookupsHold, RegistryTypes
      <4>2. QED
        BY <3>2, <4>1 DEF Register, Give
    <3>3. QED
      BY <1>5, <3>1, <3>2
  <2>2. ASSUME NEW u \in Threads, NEW k \in Keys, refs'[u][k] > 0
        PROVE  k \in DOMAIN registry' /\ held'[u][k] = registry'[k].object
    <3>1. CASE u = t /\ k = i
      BY <1>0, <2>1, <3>1 DEF RegistryTypes
    <3>2. CASE ~(u = t /\ k = i)
      <4>1. refs'[u][k] = refs[u][k] /\ held'[u][k] = held[u][k]
        BY <1>0, <2>1, <3>2 DEF RegistryTypes
      <4>2. QED
        BY <1>0, <2>1, <2>2, <4>1 DEF HoldersAgree
    <3>3. QED
      BY <3>1, <3>2
  <2>3. QED
    BY <2>2 DEF HoldersAgree
<1>6. CASE DropAgain(t) /\ registry[rKey[t]].refCount = 1
  <2> DEFINE i == rKey[t]
  <2>1. /\ i \in Keys /\ i \in DOMAIN registry /\ Cardinality(References(i)) = 1
        /\ Giving(t, i)
    BY <1>6, GivingIsRegistered DEF DropAgain, Step, Giving
  <2>2. /\ registry' = [j \in DOMAIN registry \ {i} |-> registry[j]]
        /\ UNCHANGED <<refs, held>>
    BY <1>6 DEF DropAgain
  <2>3. \A u \in Threads : ~(refs[u][i] > 0)
    <3>1. SUFFICES ASSUME NEW u \in Threads, refs[u][i] > 0 PROVE FALSE
      OBVIOUS
    <3>2. refs[u][i] \in 0..MaxRefs /\ refs[u][i] # 0
      BY <1>0, <2>1, <3>1 DEF RegistryTypes, RegistryAssumption
    <3>3. <<t, 0>> \in References(i) /\ <<u, refs[u][i]>> \in References(i)
      BY <2>1, <3>2 DEF References, RegistryAssumption
    <3>4. PICK x : References(i) = {x}
      BY <2>1, ReferencesFinite, FS_Singleton
    <3>5. QED
      BY <3>2, <3>3, <3>4
  <2>4. QED
    BY <1>0, <2>1, <2>2, <2>3 DEF HoldersAgree
<1>7. QED
  BY <1>1, <1>2, <1>3, <1>4, <1>5, <1>6 DEF Statement

LEMMA RegistryInvariantStep ==
  ASSUME RegistryAssumption, RegistryInv, [RegistryNext]_registryVars
  PROVE  RegistryInv'
<1>1. ASSUME NEW t \in Threads, Statement(t) PROVE RegistryInv'
  BY <1>1, RegistryTypesStep, RegistryLocksStep, LookupsStep, ObjectsStep, CountsStep, HoldersStep DEF RegistryInv
<1>2. CASE UNCHANGED registryVars
  <2>1. UNCHANGED registryVars /\ RegistryInv
    BY <1>2
  <2>2. RegistryTypes' /\ LocksFit'
    BY <2>1 DEF registryVars, RegistryInv, RegistryTypes, LocksFit
  <2>3. LookupsHold' /\ ArgumentsApart' /\ HoldersAgree'
    BY <2>1 DEF registryVars, RegistryInv, LookupsHold, ArgumentsApart, HoldersAgree, Registered
  <2>4. ObjectsKnown'
    BY <2>1 DEF registryVars, RegistryInv, ObjectsKnown, RegisteredObjects, Arguments
  <2>5. RefCountExact'
    <3>1. SUFFICES ASSUME NEW k \in Keys PROVE KeyCounted(k)'
      BY DEF RefCountExact
    <3>2. KeyCounted(k) /\ References(k)' = References(k) /\ (Restoring(k) => Restoring(k)')
      BY <2>1 DEF RegistryInv, RefCountExact, registryVars, References, Giving, Restoring
    <3>3. QED
      BY <2>1, <3>2, KeyLeftAlone DEF registryVars, Registered
  <2>6. QED
    BY <2>2, <2>3, <2>4, <2>5 DEF RegistryInv
<1>3. QED
  BY <1>1, <1>2 DEF RegistryNext

(* RegistryExact: the count of an object is that of the references callers *)
(* hold or give back, all who hold equal objects hold the registered one,  *)
(* and no other object exists than those and the arguments of add().       *)
THEOREM RegistryIsExact == ASSUME RegistryAssumption PROVE RegistrySpec => []RegistryExact
<1>1. RegistryInv => RegistryExact
  <2>1. SUFFICES ASSUME RegistryInv PROVE Cardinality(RegisteredObjects) = Cardinality(DOMAIN registry)
    BY DEF RegistryInv, RegistryExact, HeldIsRegistered
  <2> DEFINE f == [k \in DOMAIN registry |-> registry[k].object]
  <2>2. f \in Bijection(DOMAIN registry, RegisteredObjects)
    <3>1. f \in Surjection(DOMAIN registry, RegisteredObjects)
      BY DEF Surjection, RegisteredObjects
    <3>2. f \in Injection(DOMAIN registry, RegisteredObjects)
      BY <2>1 DEF Injection, IsInjective, RegisteredObjects, RegistryInv, ArgumentsApart
    <3>3. QED
      BY <3>1, <3>2 DEF Bijection
  <2>3. IsFiniteSet(DOMAIN registry)
    BY <2>1, FS_Subset DEF RegistryInv, RegistryTypes, RegistryAssumption
  <2>4. QED
    BY <2>2, <2>3, FS_Bijection DEF ExistsBijection
<1>2. RegistryInit => RegistryInv
  BY RegistryInvInit
<1>3. RegistryInv /\ [RegistryNext]_registryVars => RegistryInv'
  BY RegistryInvariantStep
<1>4. QED
  BY <1>1, <1>2, <1>3, PTL DEF RegistrySpec

===============================================================================
