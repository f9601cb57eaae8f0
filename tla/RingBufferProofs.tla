-------------------------- MODULE RingBufferProofs --------------------------
(***************************************************************************)
(* What is proved of utl::RingBuffer, for any number of threads, any       *)
(* values and any size: the bounds that its counters give, and that no     *)
(* value is lost or delivered twice, from the inductive invariant IndInv.  *)
(***************************************************************************)
EXTENDS RingBuffer, FiniteSetTheorems, TLAPS

-------------------------------------------------------------------------------
(* The slots *)

(* A set of numbers that is not empty has a least one. *)
LEMMA MinExists ==
  ASSUME NEW S \in SUBSET Nat, S # {}
  PROVE  \E x \in S : \A y \in S : x <= y
<1> DEFINE Below(x) == 0..x
           T == {Below(x) : x \in S}
<1>1. \A x \in S : Below(x) \in FiniteSubsetsOf(Nat)
  BY FS_Interval DEF FiniteSubsetsOf
<1>2. T \subseteq FiniteSubsetsOf(Nat) /\ T # {}
  BY <1>1
<1>3. PICK B \in T : \A C \in T : <<C, B>> \notin StrictSubsetOrdering(Nat)
  BY <1>2, FS_StrictSubsetOrderingWellFounded, WFMin
<1>4. PICK x \in S : B = Below(x)
  OBVIOUS
<1>5. ASSUME NEW y \in S, y < x PROVE FALSE
  <2>1. Below(y) \subseteq Below(x) /\ x \in Below(x) /\ x \notin Below(y)
    BY <1>5
  <2>2. <<Below(y), Below(x)>> \in StrictSubsetOrdering(Nat)
    BY <2>1 DEF StrictSubsetOrdering
  <2>3. QED
    BY <2>2, <1>3, <1>4
<1>6. QED
  BY <1>5

(* There is a power of two for every size, and the array holds the size. *)
LEMMA SizeHolds == Size \in Nat /\ Size >= CountMax /\ Size > 0
<1> DEFINE Powers == {2^k : k \in 0..CountMax}
           Enough == {p \in Powers : p >= CountMax}
<1>1. CountMax \in Nat \ {0} /\ Enough \in SUBSET Nat /\ 2^CountMax \in Enough
  BY RingBufferAssumption
<1>2. PICK p \in Enough : \A q \in Enough : p <= q
  <2> HIDE DEF Enough
  <2>1. QED
    BY <1>1, MinExists
<1>3. Size \in Powers /\ Size >= CountMax
  BY <1>2 DEF Size
<1>4. QED
  BY <1>1, <1>3

(* The slot that a claimed position is masked to. *)
LEMMA SlotsExist ==
  /\ IsFiniteSet(Slots) /\ 0 \in Slots
  /\ \A i \in Slots : (i + Stride) % Size \in Slots
<1>1. ASSUME NEW i \in Slots PROVE (i + Stride) % Size \in 0..(Size - 1)
  <2>1. i + Stride \in Nat
    BY SizeHolds DEF Slots, Stride
  <2>2. QED
    BY <2>1, SizeHolds
<1>2. IsFiniteSet(Slots)
  BY SizeHolds, FS_Interval DEF Slots
<1>3. QED
  BY <1>1, <1>2, SizeHolds DEF Slots

-------------------------------------------------------------------------------
(* How the counts follow the threads and the array *)

(* The counted sets are finite. *)
LEMMA FiniteCounts ==
  ASSUME TypeOK, NEW P
  PROVE  /\ IsFiniteSet(In(P)) /\ Cardinality(In(P)) \in Nat
         /\ IsFiniteSet(Contained) /\ Cardinality(Contained) \in Nat
<1>1. In(P) \in SUBSET Threads /\ IsFiniteSet(Threads)
  BY RingBufferAssumption DEF In
<1>2. Contained \in SUBSET Slots /\ IsFiniteSet(Slots)
  BY SlotsExist DEF Contained
<1>3. IsFiniteSet(In(P)) /\ IsFiniteSet(Contained)
  BY <1>1, <1>2, FS_Subset
<1>4. QED
  BY <1>3, FS_CardinalityType

(* A thread that moves is counted where it is. *)
LEMMA InMoves ==
  ASSUME TypeOK, NEW t \in Threads, NEW from, NEW to, Goto(t, from, to), NEW P
  PROVE  LET n == Cardinality(In(P)) IN
         Cardinality(In(P)') = CASE from \in P /\ to \notin P -> n - 1
                                 [] from \notin P /\ to \in P -> n + 1
                                 [] OTHER                     -> n
<1>1. pc \in [Threads -> {"idle"} \union EnqPcs \union DeqPcs]
  BY DEF TypeOK
<1>2. CASE from \in P /\ to \notin P
  <2>1. In(P)' = In(P) \ {t} /\ t \in In(P)
    BY <1>1, <1>2 DEF In, Goto
  <2>2. QED
    BY <1>2, <2>1, FiniteCounts, FS_RemoveElement
<1>3. CASE from \notin P /\ to \in P
  <2>1. In(P)' = In(P) \union {t} /\ t \notin In(P)
    BY <1>1, <1>3 DEF In, Goto
  <2>2. QED
    BY <1>3, <2>1, FiniteCounts, FS_AddElement
<1>4. CASE from \in P <=> to \in P
  <2>1. In(P)' = In(P)
    BY <1>1, <1>4 DEF In, Goto
  <2>2. QED
    BY <1>4, <2>1
<1>5. QED
  BY <1>2, <1>3, <1>4

(* A store fills its slot. *)
LEMMA ContainedGrows ==
  ASSUME TypeOK, NEW i \in Slots, NEW v \in Values,
         array[i] = NullValue, array' = [array EXCEPT ![i] = v]
  PROVE  Cardinality(Contained') = Cardinality(Contained) + 1
<1>1. Contained' = Contained \union {i} /\ i \notin Contained
  BY RingBufferAssumption DEF TypeOK, Contained
<1>2. QED
  BY <1>1, FiniteCounts, FS_AddElement

(* A take empties its slot. *)
LEMMA ContainedShrinks ==
  ASSUME TypeOK, NEW i \in Slots,
         array[i] # NullValue, array' = [array EXCEPT ![i] = NullValue]
  PROVE  Cardinality(Contained') = Cardinality(Contained) - 1
<1>1. Contained' = Contained \ {i} /\ i \in Contained
  BY DEF TypeOK, Contained
<1>2. QED
  BY <1>1, FiniteCounts, FS_RemoveElement

-------------------------------------------------------------------------------
(* The invariant is inductive *)

(* It holds when set() has returned. *)
LEMMA IndInvInit == Init => IndInv
<1> SUFFICES ASSUME Init PROVE IndInv
  OBVIOUS
<1>1. TypeOK
  BY SlotsExist DEF Init, TypeOK
<1>2. CountsExact
  <2>1. Contained = {} /\ \A P \in SUBSET (EnqPcs \union DeqPcs) : In(P) = {}
    BY DEF Init, Contained, In, EnqPcs, DeqPcs
  <2>2. LBPcs \subseteq EnqPcs \union DeqPcs /\ UBPcs \subseteq EnqPcs \union DeqPcs
         /\ {"enq_undo"} \subseteq EnqPcs \union DeqPcs
    BY DEF LBPcs, UBPcs, EnqPcs, DeqPcs
  <2>3. /\ Cardinality(Contained) = 0 /\ Cardinality(In({"enq_undo"})) = 0
        /\ Cardinality(In(LBPcs)) = 0 /\ Cardinality(In(UBPcs)) = 0
    BY <2>1, <2>2, FS_EmptySet
  <2>4. QED
    BY <2>3, RingBufferAssumption DEF Init, CountsExact
<1>3. EnqValues
  BY RingBufferAssumption DEF Init, EnqValues, EnqPcs
<1>4. StoredValues
  BY RingBufferAssumption DEF Init, StoredValues, InArray, InDeq, Holds, Stored
<1>5. QED
  BY <1>1, <1>2, <1>3, <1>4 DEF IndInv

(* A thread that is counted in _countUB keeps it above zero. *)
LEMMA UBPositive ==
  ASSUME TypeOK, CountsExact, NEW t \in Threads, pc[t] \in UBPcs
  PROVE  countUB - 1 \in Nat
<1>1. In(UBPcs) # {}
  BY DEF In
<1>2. Cardinality(In(UBPcs)) # 0
  BY <1>1, FiniteCounts, FS_EmptySet
<1>3. QED
  BY <1>2, FiniteCounts DEF TypeOK, CountsExact

(* Every operation keeps the types. *)
LEMMA TypeStep ==
  ASSUME IndInv, NEW t \in Threads, Call(t) \/ Step(t)
  PROVE  TypeOK'
<1> USE DEF IndInv, TypeOK, Goto, bufferVars, history, EnqPcs, DeqPcs
<1>1. CASE \E v \in Values : EnqCall(t, v)
  BY <1>1 DEF EnqCall
<1>2. CASE EnqCount(t)
  BY <1>2 DEF EnqCount
<1>3. CASE EnqUndo(t)
  BY <1>3, UBPositive DEF EnqUndo, UBPcs
<1>4. CASE EnqTail(t)
  BY <1>4, SlotsExist DEF EnqTail
<1>5. CASE EnqStore(t)
  BY <1>5 DEF EnqStore
<1>6. CASE EnqDone(t)
  BY <1>6 DEF EnqDone, EnqValues
<1>7. CASE DeqCall(t)
  BY <1>7 DEF DeqCall
<1>8. CASE DeqCount(t)
  BY <1>8 DEF DeqCount
<1>9. CASE DeqUndo(t)
  BY <1>9 DEF DeqUndo
<1>10. CASE DeqHead(t)
  BY <1>10, SlotsExist DEF DeqHead
<1>11. CASE DeqTake(t)
  BY <1>11 DEF DeqTake
<1>12. CASE DeqDone(t)
  BY <1>12, UBPositive DEF DeqDone, UBPcs, EnqValues
<1>13. QED
  BY <1>1, <1>2, <1>3, <1>4, <1>5, <1>6, <1>7, <1>8, <1>9, <1>10, <1>11, <1>12
     DEF Call, Step

(* Every operation keeps the counters exact. *)
LEMMA CountsStep ==
  ASSUME IndInv, NEW t \in Threads, Call(t) \/ Step(t)
  PROVE  CountsExact'
<1> DEFINE LB == Cardinality(In(LBPcs))
           UB == Cardinality(In(UBPcs))
           Out == Cardinality(In({"enq_undo"}))
           Items == Cardinality(Contained)
<1>1. TypeOK /\ CountsExact
  BY DEF IndInv
<1>2. /\ LB \in Nat /\ UB \in Nat /\ Out \in Nat /\ Items \in Nat
      /\ countLB \in Int /\ countUB \in Nat /\ CountMax \in Nat
  BY <1>1, FiniteCounts, RingBufferAssumption DEF TypeOK
<1>3. ASSUME UNCHANGED array PROVE UNCHANGED Contained
  BY <1>3 DEF Contained
<1> USE DEF CountsExact, LBPcs, UBPcs, bufferVars
<1>4. CASE \E v \in Values : EnqCall(t, v)
  BY <1>1, <1>2, <1>3, <1>4, InMoves DEF EnqCall
<1>5. CASE EnqCount(t)
  BY <1>1, <1>2, <1>3, <1>5, InMoves DEF EnqCount
<1>6. CASE EnqUndo(t)
  BY <1>1, <1>2, <1>3, <1>6, InMoves DEF EnqUndo
<1>7. CASE EnqTail(t)
  BY <1>1, <1>2, <1>3, <1>7, InMoves DEF EnqTail
<1>8. CASE EnqStore(t)
  <2>1. pos[t] \in Slots /\ value[t] \in Values
    BY <1>8 DEF IndInv, TypeOK, EnqValues, EnqStore, Goto, EnqPcs
  <2>2. Cardinality(Contained') = Items + 1
    BY <1>1, <1>8, <2>1, ContainedGrows DEF EnqStore
  <2>3. QED
    BY <1>1, <1>2, <1>8, <2>2, InMoves DEF EnqStore
<1>9. CASE EnqDone(t)
  BY <1>1, <1>2, <1>3, <1>9, InMoves DEF EnqDone
<1>10. CASE DeqCall(t)
  BY <1>1, <1>2, <1>3, <1>10, InMoves DEF DeqCall
<1>11. CASE DeqCount(t)
  BY <1>1, <1>2, <1>3, <1>11, InMoves DEF DeqCount
<1>12. CASE DeqUndo(t)
  BY <1>1, <1>2, <1>3, <1>12, InMoves DEF DeqUndo
<1>13. CASE DeqHead(t)
  BY <1>1, <1>2, <1>3, <1>13, InMoves DEF DeqHead
<1>14. CASE DeqTake(t)
  <2>1. pos[t] \in Slots
    BY DEF IndInv, TypeOK
  <2>2. Cardinality(Contained') = Items - 1
    BY <1>1, <1>14, <2>1, ContainedShrinks DEF DeqTake
  <2>3. QED
    BY <1>1, <1>2, <1>14, <2>2, InMoves DEF DeqTake
<1>15. CASE DeqDone(t)
  BY <1>1, <1>2, <1>3, <1>15, InMoves DEF DeqDone
<1>16. QED
  BY <1>4, <1>5, <1>6, <1>7, <1>8, <1>9, <1>10, <1>11, <1>12, <1>13, <1>14, <1>15
     DEF Call, Step

(* Every operation keeps the values of the running calls apart. *)
LEMMA EnqValuesStep ==
  ASSUME IndInv, NEW t \in Threads, Call(t) \/ Step(t)
  PROVE  EnqValues'
<1> USE DEF EnqValues, Holds, Goto, bufferVars, history, EnqPcs, DeqPcs
<1>1. TypeOK /\ EnqValues /\ NullValue \notin Values
  BY RingBufferAssumption DEF IndInv
<1>2. /\ pc \in [Threads -> {"idle"} \union EnqPcs \union DeqPcs]
      /\ value \in [Threads -> Values \union {NullValue}]
      /\ pos \in [Threads -> Slots] /\ array \in [Slots -> Values \union {NullValue}]
  BY <1>1 DEF TypeOK
<1>3. CASE \E v \in Values : EnqCall(t, v)
  BY <1>1, <1>2, <1>3 DEF EnqCall, Fresh
<1>4. CASE EnqCount(t)
  BY <1>1, <1>2, <1>4 DEF EnqCount
<1>5. CASE EnqUndo(t)
  BY <1>1, <1>2, <1>5 DEF EnqUndo
<1>6. CASE EnqTail(t)
  BY <1>1, <1>2, <1>6 DEF EnqTail
<1>7. CASE EnqStore(t)
  BY <1>1, <1>2, <1>7 DEF EnqStore
<1>8. CASE EnqDone(t)
  BY <1>1, <1>2, <1>8 DEF EnqDone
<1>9. CASE DeqCall(t)
  BY <1>1, <1>2, <1>9 DEF DeqCall
<1>10. CASE DeqCount(t)
  BY <1>1, <1>2, <1>10 DEF DeqCount
<1>11. CASE DeqUndo(t)
  BY <1>1, <1>2, <1>11 DEF DeqUndo
<1>12. CASE DeqHead(t)
  BY <1>1, <1>2, <1>12 DEF DeqHead
<1>13. CASE DeqTake(t)
  BY <1>1, <1>2, <1>13 DEF DeqTake
<1>14. CASE DeqDone(t)
  BY <1>1, <1>2, <1>14 DEF DeqDone
<1>15. QED
  BY <1>3, <1>4, <1>5, <1>6, <1>7, <1>8, <1>9, <1>10, <1>11, <1>12, <1>13, <1>14
     DEF Call, Step

(* Every operation keeps each stored value in one place. *)
LEMMA StoredValuesStep ==
  ASSUME IndInv, NEW t \in Threads, Call(t) \/ Step(t)
  PROVE  StoredValues'
<1> USE DEF StoredValues, InArray, InDeq, Stored, Holds, Goto, bufferVars, history
<1>1. TypeOK /\ EnqValues /\ StoredValues /\ NullValue \notin Values
  BY RingBufferAssumption DEF IndInv
<1>2. /\ pc \in [Threads -> {"idle"} \union EnqPcs \union DeqPcs]
      /\ value \in [Threads -> Values \union {NullValue}]
      /\ pos \in [Threads -> Slots] /\ array \in [Slots -> Values \union {NullValue}]
  BY <1>1 DEF TypeOK
<1>3. CASE \E v \in Values : EnqCall(t, v)
  BY <1>1, <1>2, <1>3 DEF EnqCall
<1>4. CASE EnqCount(t)
  BY <1>1, <1>2, <1>4 DEF EnqCount
<1>5. CASE EnqUndo(t)
  BY <1>1, <1>2, <1>5 DEF EnqUndo
<1>6. CASE EnqTail(t)
  BY <1>1, <1>2, <1>6 DEF EnqTail
<1>7. CASE EnqStore(t)
  BY <1>1, <1>2, <1>7 DEF EnqStore, EnqValues, EnqPcs
<1>8. CASE EnqDone(t)
  BY <1>1, <1>2, <1>8 DEF EnqDone, EnqValues, EnqPcs
<1>9. CASE DeqCall(t)
  BY <1>1, <1>2, <1>9 DEF DeqCall
<1>10. CASE DeqCount(t)
  BY <1>1, <1>2, <1>10 DEF DeqCount
<1>11. CASE DeqUndo(t)
  BY <1>1, <1>2, <1>11 DEF DeqUndo
<1>12. CASE DeqHead(t)
  BY <1>1, <1>2, <1>12 DEF DeqHead
<1>13. CASE DeqTake(t)
  BY <1>1, <1>2, <1>13 DEF DeqTake
<1>14. CASE DeqDone(t)
  BY <1>1, <1>2, <1>14 DEF DeqDone, EnqValues
<1>15. QED
  BY <1>3, <1>4, <1>5, <1>6, <1>7, <1>8, <1>9, <1>10, <1>11, <1>12, <1>13, <1>14
     DEF Call, Step

(* The invariant holds at every moment of every call. *)
LEMMA IndInvStep == IndInv /\ [Next]_vars => IndInv'
<1> SUFFICES ASSUME IndInv, [Next]_vars PROVE IndInv'
  OBVIOUS
<1>1. ASSUME NEW t \in Threads, Call(t) \/ Step(t) PROVE IndInv'
  BY <1>1, TypeStep, CountsStep, EnqValuesStep, StoredValuesStep DEF IndInv
<1>2. CASE UNCHANGED vars
  <2> USE <1>2 DEF vars, bufferVars, history
  <2>1. TypeOK' /\ EnqValues'
    BY DEF IndInv, TypeOK, EnqValues, Holds
  <2>2. CountsExact'
    BY DEF IndInv, CountsExact, Contained, In
  <2>3. StoredValues'
    BY DEF IndInv, StoredValues, InArray, InDeq, Stored, Holds
  <2>4. QED
    BY <2>1, <2>2, <2>3 DEF IndInv
<1>3. QED
  BY <1>1, <1>2 DEF Next, Finished

(* In every state that enQ() and deQ() can reach the invariant holds. *)
THEOREM Invariance == Spec => []IndInv
BY IndInvInit, IndInvStep, PTL DEF Spec

-------------------------------------------------------------------------------
(* What the users of the queue rely on *)

(* TypeOK: every variable keeps its type; _countUB, an unsigned word, is   *)
(* never decremented below zero.                                           *)
THEOREM TypeCorrect == Spec => []TypeOK
<1>1. IndInv => TypeOK
  BY DEF IndInv
<1>2. QED
  BY <1>1, Invariance, PTL

(* CountsBound: _countLB and _countUB bound the number of contained items  *)
(* at every moment, and there are never more than set() was told.          *)
THEOREM CountsBoundItems == Spec => []CountsBound
<1>1. IndInv => CountsBound
  <2> SUFFICES ASSUME IndInv PROVE CountsBound
    OBVIOUS
  <2> DEFINE Out == In({"enq_undo"})
  <2>1. TypeOK /\ CountsExact
    BY DEF IndInv
  <2>2. Out \subseteq In(UBPcs)
    BY DEF In, UBPcs
  <2>3. Cardinality(Out) <= Cardinality(In(UBPcs))
    BY <2>1, <2>2, FiniteCounts, FS_Subset
  <2>4. QED
    BY <2>1, <2>3, FiniteCounts, RingBufferAssumption DEF CountsExact, CountsBound, TypeOK
<1>2. QED
  BY <1>1, Invariance, PTL

(* NoLossNoDuplicate: from its store until its deQ returns a value is in   *)
(* exactly one place, however often the positions have wrapped around.     *)
THEOREM NothingLost == Spec => []NoLossNoDuplicate
<1>1. IndInv => NoLossNoDuplicate
  <2> SUFFICES ASSUME IndInv, NEW v \in Values
               PROVE  Places(v) = IF v \in delivered THEN 0 ELSE IF Stored(v) THEN 1 ELSE 0
    BY DEF NoLossNoDuplicate
  <2> DEFINE A == {i \in Slots : array[i] = v}
             D == {t \in Threads : pc[t] = "deq_done" /\ value[t] = v}
  <2>1. StoredValues
    BY DEF IndInv
  <2>2. CASE InArray(v)
    <3>1. D = {} /\ \E i \in Slots : A = {i}
      BY <2>1, <2>2 DEF StoredValues, InArray, InDeq, Holds
    <3>2. Cardinality(A) = 1 /\ Cardinality(D) = 0
      BY <3>1, FS_Singleton, FS_EmptySet
    <3>3. QED
      BY <2>1, <2>2, <3>2 DEF StoredValues, Places
  <2>3. CASE InDeq(v)
    <3>1. A = {} /\ \E t \in Threads : D = {t}
      BY <2>1, <2>3 DEF StoredValues, InArray, InDeq, Holds
    <3>2. Cardinality(A) = 0 /\ Cardinality(D) = 1
      BY <3>1, FS_Singleton, FS_EmptySet
    <3>3. QED
      BY <2>1, <2>3, <3>2 DEF StoredValues, Places
  <2>4. CASE ~InArray(v) /\ ~InDeq(v)
    <3>1. A = {} /\ D = {}
      BY <2>4 DEF InArray, InDeq, Holds
    <3>2. Cardinality(A) = 0 /\ Cardinality(D) = 0
      BY <3>1, FS_EmptySet
    <3>3. QED
      BY <2>1, <2>4, <3>2 DEF StoredValues, Places
  <2>5. QED
    BY <2>2, <2>3, <2>4
<1>2. QED
  BY <1>1, Invariance, PTL

-------------------------------------------------------------------------------
(* The order of up to two slots: the claims *)

Reserved == In({"enq_tail", "enq_store", "deq_done"})
Promised == In({"deq_head", "deq_take"})

(* Threads at different statements are counted one by one. *)
LEMMA InApart ==
  ASSUME TypeOK, NEW P, NEW Q, P \cap Q = {}
  PROVE  Cardinality(In(P \union Q)) = Cardinality(In(P)) + Cardinality(In(Q))
<1>1. In(P \union Q) = In(P) \union In(Q) /\ In(P) \cap In(Q) = {}
  BY DEF In
<1>2. Cardinality(In(P) \cap In(Q)) = 0
  BY <1>1, FS_EmptySet
<1>3. /\ IsFiniteSet(In(P)) /\ Cardinality(In(P)) \in Nat
      /\ IsFiniteSet(In(Q)) /\ Cardinality(In(Q)) \in Nat
  BY FiniteCounts
<1>4. Cardinality(In(P) \union In(Q)) = Cardinality(In(P)) + Cardinality(In(Q)) - Cardinality(In(P) \cap In(Q))
  <2> DEFINE S == In(P)
             T == In(Q)
  <2>1. IsFiniteSet(S) /\ IsFiniteSet(T)
    BY <1>3
  <2> HIDE DEF S, T
  <2>2. Cardinality(S \union T) = Cardinality(S) + Cardinality(T) - Cardinality(S \cap T)
    BY ONLY <2>1, FS_Union
  <2>3. QED
    BY <2>2 DEF S, T
<1>5. Cardinality(In(P \union Q)) = Cardinality(In(P) \union In(Q))
  BY <1>1
<1>6. Cardinality(In(P) \union In(Q)) = Cardinality(In(P)) + Cardinality(In(Q)) - 0
  BY ONLY <1>2, <1>4
<1>7. QED
  BY ONLY <1>3, <1>5, <1>6

(* Items and reservations fit into the slots, and no deQ claims what is    *)
(* not there.                                                              *)
LEMMA RoomCounts ==
  ASSUME IndInv, ItemsPromised
  PROVE  /\ Cardinality(Contained) + Cardinality(Reserved) <= Size
         /\ Cardinality(Promised) <= Cardinality(Contained)
<1> DEFINE Out == {"enq_undo"}
           Back == {"deq_undo"}
           R == {"enq_tail", "enq_store", "deq_done"}
           Q == {"deq_head", "deq_take"}
           Rest == {"enq_done"}
<1>1. TypeOK /\ CountsExact
  BY DEF IndInv
<1>2. /\ UBPcs = Out \union R /\ Out \cap R = {}
      /\ LBPcs = (Back \union Q) \union Rest /\ Back \cap Q = {} /\ (Back \union Q) \cap Rest = {}
  BY DEF UBPcs, LBPcs
<1>3. /\ Cardinality(In(Out)) \in Nat /\ Cardinality(In(R)) \in Nat /\ Cardinality(In(Rest)) \in Nat
      /\ Cardinality(In(Back)) \in Nat /\ Cardinality(In(Q)) \in Nat /\ Cardinality(Contained) \in Nat
      /\ countUB \in Nat /\ countLB \in Int /\ CountMax \in Nat
  BY <1>1, FiniteCounts, RingBufferAssumption DEF TypeOK
<1>4. /\ Cardinality(In(UBPcs)) = Cardinality(In(Out)) + Cardinality(In(R))
      /\ Cardinality(In(LBPcs)) = Cardinality(In(Back)) + Cardinality(In(Q)) + Cardinality(In(Rest))
  <2>1. Cardinality(In(Out \union R)) = Cardinality(In(Out)) + Cardinality(In(R))
    BY <1>1, <1>2, InApart
  <2>2. Cardinality(In((Back \union Q) \union Rest)) = Cardinality(In(Back \union Q)) + Cardinality(In(Rest))
    BY <1>1, <1>2, InApart
  <2>3. Cardinality(In(Back \union Q)) = Cardinality(In(Back)) + Cardinality(In(Q))
    BY <1>1, <1>2, InApart
  <2>4. QED
    BY <1>2, <2>1, <2>2, <2>3
<1>5. countUB <= CountMax + Cardinality(In(Out)) /\ 0 <= countLB + Cardinality(In(Back))
  BY <1>1 DEF CountsExact, ItemsPromised
<1> HIDE DEF Out, Back, R, Q, Rest
<1>6. /\ countLB + Cardinality(In(LBPcs)) = Cardinality(Contained)
      /\ countUB = Cardinality(Contained) + Cardinality(In(UBPcs))
  BY <1>1 DEF CountsExact
<1>7. Reserved = In(R) /\ Promised = In(Q)
  BY DEF Reserved, Promised, R, Q
<1>8. QED
  BY <1>3, <1>4, <1>5, <1>6, <1>7, SizeHolds

(* A set with different elements has as many. *)
LEMMA CountTwo ==
  ASSUME NEW S, IsFiniteSet(S), NEW x \in S, NEW y \in S, x # y
  PROVE  Cardinality(S) >= 2 /\ (\A z \in S : z # x /\ z # y => Cardinality(S) >= 3)
<1>1. /\ IsFiniteSet({x}) /\ Cardinality({x}) = 1
      /\ IsFiniteSet({x} \union {y}) /\ Cardinality({x} \union {y}) = 2
  <2>1. IsFiniteSet({x}) /\ Cardinality({x}) = 1 /\ y \notin {x}
    BY FS_Singleton
  <2> DEFINE T == {x}
  <2>2. IsFiniteSet(T) /\ Cardinality(T) = 1 /\ y \notin T
    BY <2>1
  <2>3. IsFiniteSet(T \union {y}) /\ Cardinality(T \union {y}) = 2
    <3> HIDE DEF T
    <3>1. QED
      BY <2>2, FS_AddElement
  <2>4. QED
    BY <2>1, <2>3
<1>2. Cardinality(S) \in Nat /\ Cardinality({x} \union {y}) <= Cardinality(S)
  BY <1>1, FS_Subset, FS_CardinalityType
<1>3. ASSUME NEW z \in S, z # x, z # y PROVE Cardinality(S) >= 3
  <2> DEFINE T == {x} \union {y}
  <2>1. IsFiniteSet(T) /\ Cardinality(T) = 2 /\ z \notin T /\ T \union {z} \in SUBSET S
    BY <1>1, <1>3
  <2>2. Cardinality(T \union {z}) = 3
    <3> HIDE DEF T
    <3>1. QED
      BY <2>1, FS_AddElement
  <2>3. Cardinality(T \union {z}) <= Cardinality(S)
    BY <2>1, FS_Subset
  <2>4. QED
    BY <2>2, <2>3
<1>4. QED
  BY <1>1, <1>2, <1>3

LEMMA CountOne ==
  ASSUME NEW S, IsFiniteSet(S), NEW x \in S
  PROVE  Cardinality(S) \in Nat /\ Cardinality(S) >= 1
<1>1. Cardinality(S) \in Nat
  BY FS_CardinalityType
<1>2. Cardinality(S) # 0
  BY FS_EmptySet
<1>3. QED
  BY <1>1, <1>2

(* Two slots take turns, a single one always comes next. *)
LEMMA TwoSlots ==
  ASSUME Size <= 2
  PROVE  /\ \A i, j, k \in Slots : i = j \/ i = k \/ j = k
         /\ \A i, j \in Slots : i # j => (i + Stride) % Size = j /\ Size = 2
         /\ \A i \in Slots : (i + Stride) % Size \in Slots
         /\ \A i \in Slots : (i + Stride) % Size = i => Size = 1 /\ \A j \in Slots : j = i
<1>1. CASE Size = 1
  <2>1. Slots = {0}
    BY <1>1 DEF Slots
  <2>2. (0 + Stride) % Size = 0
    BY <1>1 DEF Stride
  <2>3. QED
    BY <1>1, <2>1, <2>2
<1>2. CASE Size = 2
  <2>1. Slots = {0, 1}
    BY <1>2 DEF Slots
  <2>2. (0 + Stride) % Size = 1 /\ (1 + Stride) % Size = 0
    BY <1>2 DEF Stride
  <2>3. QED
    BY <1>2, <2>1, <2>2
<1>3. QED
  BY <1>1, <1>2, SizeHolds

(* Who has reserved a place leaves one item, who has another one none;     *)
(* and two deQ calls past their reservation have two items.                *)
LEMMA RoomFor ==
  ASSUME IndInv, ItemsPromised, Size <= 2
  PROVE  /\ \A t, u \in Reserved, i \in Contained : t = u
         /\ \A t \in Reserved, i, j \in Contained : i = j
         /\ \A t, u, v \in Reserved : t = u \/ t = v \/ u = v
         /\ Size = 1 => \A t, u \in Reserved : t = u /\ Contained = {}
         /\ \A t \in Promised : Contained # {}
         /\ \A t, u \in Promised : t # u => \E i, j \in Contained : i # j
         /\ \A t, u, v \in Promised : t = u \/ t = v \/ u = v
<1>1. /\ IsFiniteSet(Contained) /\ Cardinality(Contained) \in Nat
      /\ IsFiniteSet(Reserved) /\ Cardinality(Reserved) \in Nat
      /\ IsFiniteSet(Promised) /\ Cardinality(Promised) \in Nat
  BY FiniteCounts DEF IndInv, Reserved, Promised
<1>2. /\ Cardinality(Contained) + Cardinality(Reserved) <= Size
      /\ Cardinality(Promised) <= Cardinality(Contained)
      /\ Size \in Nat
  BY RoomCounts, SizeHolds
<1> HIDE DEF Reserved, Promised, Contained
<1>3. ASSUME NEW t \in Reserved, NEW u \in Reserved, NEW i \in Contained, t # u PROVE FALSE
  BY <1>1, <1>2, <1>3, CountOne, CountTwo
<1>4. ASSUME NEW t \in Reserved, NEW i \in Contained, NEW j \in Contained, i # j PROVE FALSE
  BY <1>1, <1>2, <1>4, CountOne, CountTwo
<1>5. ASSUME NEW t \in Reserved, NEW u \in Reserved, NEW v \in Reserved, t # u, t # v, u # v PROVE FALSE
  BY <1>1, <1>2, <1>5, CountTwo
<1>6. ASSUME Size = 1, NEW t \in Reserved, NEW u \in Reserved PROVE t = u /\ Contained = {}
  <2>1. Cardinality(Reserved) >= 1
    BY <1>1, CountOne
  <2>2. t = u
    BY <1>1, <1>2, <1>6, CountTwo
  <2>3. Contained = {}
    BY <1>1, <1>2, <1>6, <2>1, FS_EmptySet
  <2>4. QED
    BY <2>2, <2>3
<1>7. ASSUME NEW t \in Promised PROVE Contained # {}
  BY <1>1, <1>2, CountOne, FS_EmptySet
<1>8. ASSUME NEW t \in Promised, NEW u \in Promised, t # u PROVE \E i, j \in Contained : i # j
  <2>1. Cardinality(Contained) >= 2
    BY <1>1, <1>2, <1>8, CountTwo
  <2>2. PICK i \in Contained : TRUE
    BY <1>7
  <2>3. Contained # {i}
    BY <2>1, FS_Singleton
  <2>4. QED
    BY <2>2, <2>3
<1>9. ASSUME NEW t \in Promised, NEW u \in Promised, NEW v \in Promised, t # u, t # v, u # v PROVE FALSE
  BY <1>1, <1>2, <1>9, CountTwo
<1>10. QED
  BY <1>3, <1>4, <1>5, <1>6, <1>7, <1>8, <1>9

(* Claims keep their slots while other threads move. *)
LEMMA ClaimsUnchanged ==
  ASSUME ClaimsApart, ClaimsInTurn, UNCHANGED <<array, head, tail>>,
         \A u \in Threads, i \in Slots : /\ Storing(u, i)' <=> Storing(u, i)
                                         /\ Taking(u, i)' <=> Taking(u, i),
         TypeOK
  PROVE  /\ ClaimsApart' /\ ClaimsInTurn'
         /\ \A i \in Slots : /\ Full(i)' <=> Full(i)
                             /\ Filling(i)' <=> Filling(i)
                             /\ Emptying(i)' <=> Emptying(i)
<1>1. \A i \in Slots : /\ Full(i)' <=> Full(i)
                       /\ Filling(i)' <=> Filling(i)
                       /\ Emptying(i)' <=> Emptying(i)
  BY DEF Full, Filling, Emptying
<1>2. \A i \in Slots : Due(i)' <=> Due(i)
  BY <1>1 DEF Due
<1>3. ClaimsApart'
  BY <1>1 DEF ClaimsApart
<1>4. head \in Slots /\ tail \in Slots /\ head' = head /\ tail' = tail
  BY DEF TypeOK
<1>5. ClaimsInTurn'
  BY <1>2, <1>4 DEF ClaimsInTurn
<1>6. QED
  BY <1>1, <1>3, <1>5

(* Who claims, has reserved. *)
LEMMA ClaimsReserved ==
  ASSUME NEW t \in Threads, NEW i
  PROVE  /\ Storing(t, i) => t \in Reserved
         /\ Taking(t, i) => t \in Promised
         /\ i \in Slots /\ Full(i) => i \in Contained
         /\ i \in Contained => i \in Slots /\ Full(i)
BY DEF Storing, Taking, Reserved, Promised, In, Full, Contained

(* An enQ claims a slot that no other enQ has claimed and where nothing is *)
(* due; an older item that nobody claims is then where the next deQ looks. *)
LEMMA TailIsFree ==
  ASSUME OrderInv, Size <= 2, NEW t \in Threads, pc[t] = "enq_tail"
  PROVE  /\ ~Filling(tail) /\ ~Due(tail)
         /\ \A i \in Slots : Full(i) /\ ~Emptying(i) =>
              i # tail /\ ~Emptying(tail) /\ head = i
         /\ head = tail => \A i \in Slots : ~Due(i)
<1>1. t \in Reserved /\ \A u \in Threads, i \in Slots : ~(Storing(t, i) /\ u = t)
  BY DEF Reserved, In, Storing
<1>2. IndInv /\ ItemsPromised /\ ClaimsApart /\ ClaimsInTurn /\ head \in Slots /\ tail \in Slots
  BY DEF OrderInv, IndInv, TypeOK
<1>3. ASSUME NEW i \in Slots, Filling(i) PROVE /\ \A j \in Slots : ~Full(j)
                                               /\ \A j \in Slots : Filling(j) => j = i
                                               /\ \A j \in Slots : ~Emptying(j)
                                               /\ Size # 1
  <2>1. PICK u \in Threads : Storing(u, i)
    BY <1>3 DEF Filling
  <2>2. u \in Reserved /\ u # t
    BY <1>1, <2>1, ClaimsReserved
  <2>3. Contained = {}
    BY <1>1, <1>2, <2>2, RoomFor
  <2>4. \A j \in Slots : ~Full(j)
    BY <2>3, ClaimsReserved
  <2>5. ASSUME NEW j \in Slots, Filling(j) PROVE j = i
    <3>1. PICK v \in Threads : Storing(v, j)
      BY <2>5 DEF Filling
    <3>2. v \in Reserved /\ v # t
      BY <1>1, <3>1, ClaimsReserved
    <3>3. v = u
      BY <1>1, <1>2, <2>2, <3>2, RoomFor
    <3>4. QED
      BY <2>1, <3>1, <3>3 DEF Storing
  <2>6. ASSUME NEW j \in Slots, Emptying(j) PROVE FALSE
    <3>1. PICK v \in Threads : Taking(v, j)
      BY <2>6 DEF Emptying
    <3>2. QED
      BY <1>2, <2>3, <3>1, ClaimsReserved, RoomFor
  <2>7. Size # 1
    BY <1>1, <1>2, <2>2, RoomFor
  <2>8. QED
    BY <2>4, <2>5, <2>6, <2>7
<1>4. ASSUME NEW i \in Slots, Full(i) PROVE /\ \A j \in Slots : Full(j) => j = i
                                            /\ Size # 1
  BY <1>1, <1>2, <1>4, ClaimsReserved, RoomFor
<1>5. ASSUME head = tail, NEW i \in Slots, Due(i) PROVE FALSE
  <2>1. \A j \in Slots : Due(j)
    BY <1>2, <1>5 DEF ClaimsInTurn
  <2>2. Size # 1
    BY <1>3, <1>4, <1>5 DEF Due
  <2>3. PICK j \in Slots : j # i
    <3>1. (i + Stride) % Size \in Slots /\ (i + Stride) % Size # i
      BY <2>2, TwoSlots
    <3>2. QED
      BY <3>1
  <2>4. Due(i) /\ Due(j)
    BY <2>1
  <2>5. QED
    BY <1>3, <1>4, <2>3, <2>4 DEF Due
<1>6. ~Due(tail)
  BY <1>2, <1>5 DEF ClaimsInTurn
<1>7. ~Filling(tail)
  BY <1>2, <1>3, <1>6 DEF Due
<1>8. ASSUME NEW i \in Slots, Full(i), ~Emptying(i) PROVE i # tail /\ ~Emptying(tail) /\ head = i
  <2>1. Due(i) /\ i # tail
    BY <1>6, <1>8 DEF Due
  <2>2. head # tail
    BY <1>2, <1>5, <2>1
  <2>3. head = i
    BY <1>2, <2>1, <2>2, TwoSlots
  <2>4. ~Full(tail)
    BY <1>2, <1>4, <1>8, <2>1
  <2>5. ~Emptying(tail)
    BY <1>2, <1>7, <2>4 DEF ClaimsApart
  <2>6. QED
    BY <2>1, <2>3, <2>5
<1>9. QED
  BY <1>5, <1>6, <1>7, <1>8

(* A deQ claims a slot that no other deQ has claimed and where an item is due. *)
LEMMA HeadIsDue ==
  ASSUME OrderInv, Size <= 2, NEW t \in Threads, pc[t] = "deq_head"
  PROVE  /\ ~Emptying(head) /\ Due(head)
         /\ head = tail => \A i \in Slots : Due(i)
<1>1. t \in Promised /\ \A i : ~Taking(t, i)
  BY DEF Promised, In, Taking
<1>2. IndInv /\ ItemsPromised /\ ClaimsApart /\ ClaimsInTurn /\ head \in Slots /\ tail \in Slots
  BY DEF OrderInv, IndInv, TypeOK
<1>3. PICK k \in Slots : Full(k)
  BY <1>1, <1>2, ClaimsReserved, RoomFor
<1>4. ASSUME NEW i \in Slots, Emptying(i) PROVE /\ \A j \in Slots : Full(j)
                                                /\ \A j \in Slots : ~Filling(j)
                                                /\ \A j \in Slots : Emptying(j) => j = i
                                                /\ Size # 1
  <2>1. PICK u \in Threads : Taking(u, i)
    BY <1>4 DEF Emptying
  <2>2. u \in Promised /\ u # t
    BY <1>1, <2>1, ClaimsReserved
  <2>3. PICK a \in Contained, b \in Contained : a # b
    BY <1>1, <1>2, <2>2, RoomFor
  <2>4. a \in Slots /\ b \in Slots /\ Full(a) /\ Full(b)
    BY ClaimsReserved
  <2>5. \A j \in Slots : j = a \/ j = b
    BY <2>3, <2>4, TwoSlots
  <2>6. \A j \in Slots : Full(j)
    BY <2>4, <2>5
  <2>7. ASSUME NEW j \in Slots, Filling(j) PROVE FALSE
    <3>1. PICK v \in Threads : Storing(v, j)
      BY <2>7 DEF Filling
    <3>2. v \in Reserved
      BY <3>1, ClaimsReserved
    <3>3. QED
      BY <1>2, <2>3, <3>2, RoomFor
  <2>8. ASSUME NEW j \in Slots, Emptying(j) PROVE j = i
    <3>1. PICK v \in Threads : Taking(v, j)
      BY <2>8 DEF Emptying
    <3>2. v \in Promised /\ v # t
      BY <1>1, <3>1, ClaimsReserved
    <3>3. v = u
      BY <1>1, <1>2, <2>2, <3>2, RoomFor
    <3>4. QED
      BY <2>1, <3>1, <3>3 DEF Taking
  <2>9. Size # 1
    BY <2>3, <2>4, TwoSlots
  <2>10. QED
    BY <2>6, <2>7, <2>8, <2>9
<1>5. \E i \in Slots : Full(i) /\ ~Emptying(i)
  <2>1. CASE Emptying(k)
    <3>1. (k + Stride) % Size \in Slots /\ (k + Stride) % Size # k
      BY <1>4, <2>1, TwoSlots
    <3>2. QED
      BY <1>4, <2>1, <3>1
  <2>2. QED
    BY <1>3, <2>1
<1>6. \E i \in Slots : Due(i)
  BY <1>5 DEF Due
<1>7. Due(head) /\ (head = tail => \A i \in Slots : Due(i))
  BY <1>2, <1>6 DEF ClaimsInTurn
<1>8. ~Emptying(head)
  BY <1>2, <1>4, <1>7 DEF Due
<1>9. QED
  BY <1>7, <1>8

(* What the deQ calls have reserved stays there. *)
LEMMA PromisesStep ==
  ASSUME OrderInv, NEW t \in Threads, Call(t) \/ Step(t)
  PROVE  ItemsPromised'
<1> DEFINE Back == Cardinality(In({"deq_undo"}))
<1>1. TypeOK /\ 0 <= countLB + Back
  BY DEF OrderInv, IndInv, ItemsPromised
<1>2. Back \in Nat /\ countLB \in Int
  BY <1>1, FiniteCounts DEF TypeOK
<1> USE DEF ItemsPromised, bufferVars
<1>3. CASE \E v \in Values : EnqCall(t, v)
  BY <1>1, <1>2, <1>3, InMoves DEF EnqCall
<1>4. CASE EnqCount(t)
  BY <1>1, <1>2, <1>4, InMoves DEF EnqCount
<1>5. CASE EnqUndo(t)
  BY <1>1, <1>2, <1>5, InMoves DEF EnqUndo
<1>6. CASE EnqTail(t)
  BY <1>1, <1>2, <1>6, InMoves DEF EnqTail
<1>7. CASE EnqStore(t)
  BY <1>1, <1>2, <1>7, InMoves DEF EnqStore
<1>8. CASE EnqDone(t)
  BY <1>1, <1>2, <1>8, InMoves DEF EnqDone
<1>9. CASE DeqCall(t)
  BY <1>1, <1>2, <1>9, InMoves DEF DeqCall
<1>10. CASE DeqCount(t)
  BY <1>1, <1>2, <1>10, InMoves DEF DeqCount
<1>11. CASE DeqUndo(t)
  BY <1>1, <1>2, <1>11, InMoves DEF DeqUndo
<1>12. CASE DeqHead(t)
  BY <1>1, <1>2, <1>12, InMoves DEF DeqHead
<1>13. CASE DeqTake(t)
  BY <1>1, <1>2, <1>13, InMoves DEF DeqTake
<1>14. CASE DeqDone(t)
  BY <1>1, <1>2, <1>14, InMoves DEF DeqDone
<1>15. QED
  BY <1>3, <1>4, <1>5, <1>6, <1>7, <1>8, <1>9, <1>10, <1>11, <1>12, <1>13, <1>14
     DEF Call, Step

(* The history is of values that were accepted, or delivered. *)
LEMMA HistoryStep ==
  ASSUME OrderInv, NEW t \in Threads, Call(t) \/ Step(t)
  PROVE  HistoryFits'
<1> USE DEF HistoryFits, bufferVars, history
<1>1. HistoryFits /\ TypeOK
  BY DEF OrderInv, IndInv
<1>2. missed \in [Threads -> SUBSET Values]
  BY <1>1 DEF TypeOK
<1>3. CASE \E v \in Values : EnqCall(t, v)
  BY <1>1, <1>3 DEF EnqCall, Fresh
<1>4. CASE EnqCount(t)
  BY <1>1, <1>4 DEF EnqCount
<1>5. CASE EnqUndo(t)
  BY <1>1, <1>5 DEF EnqUndo
<1>6. CASE EnqTail(t)
  BY <1>1, <1>6 DEF EnqTail
<1>7. CASE EnqStore(t)
  BY <1>1, <1>7 DEF EnqStore
<1>8. CASE EnqDone(t)
  BY <1>1, <1>8 DEF EnqDone
<1>9. CASE DeqCall(t)
  BY <1>1, <1>2, <1>9 DEF DeqCall
<1>10. CASE DeqCount(t)
  BY <1>1, <1>10 DEF DeqCount
<1>11. CASE DeqUndo(t)
  BY <1>1, <1>2, <1>11 DEF DeqUndo
<1>12. CASE DeqHead(t)
  BY <1>1, <1>12 DEF DeqHead
<1>13. CASE DeqTake(t)
  BY <1>1, <1>13 DEF DeqTake
<1>14. CASE DeqDone(t)
  <2>1. value[t] \in Values /\ missed[t] \subseteq delivered
    BY <1>1, <1>14 DEF OrderInv, IndInv, EnqValues, DeqDone, Goto
  <2>2. /\ \A u \in Threads : missed'[u] \subseteq missed[u]
        /\ delivered \subseteq delivered' /\ UNCHANGED <<precedes, accepted>>
        /\ overtook' = overtook \union (missed[t] \X {value[t]})
    BY <1>2, <1>14 DEF DeqDone
  <2>3. QED
    BY <1>1, <2>1, <2>2
<1>15. QED
  BY <1>3, <1>4, <1>5, <1>6, <1>7, <1>8, <1>9, <1>10, <1>11, <1>12, <1>13, <1>14
     DEF Call, Step

(* The steps that touch neither the slots nor the claims. *)
Aside(t) ==
  \/ Call(t) \/ EnqCount(t) \/ EnqUndo(t) \/ EnqDone(t)
  \/ DeqCount(t) \/ DeqUndo(t) \/ DeqDone(t)

LEMMA AsideStep ==
  ASSUME OrderInv, Size <= 2, NEW t \in Threads, Aside(t)
  PROVE  /\ UNCHANGED <<array, head, tail, pos>>
         /\ \A u \in Threads, i \in Slots : /\ Storing(u, i)' <=> Storing(u, i)
                                            /\ Taking(u, i)' <=> Taking(u, i)
         /\ ClaimsApart' /\ ClaimsInTurn'
         /\ \A i \in Slots : Emptying(i)' <=> Emptying(i)
<1>1. ClaimsApart /\ ClaimsInTurn /\ TypeOK
  BY DEF OrderInv, IndInv
<1>2. pc \in [Threads -> {"idle"} \union EnqPcs \union DeqPcs]
  BY <1>1 DEF TypeOK
<1>3. UNCHANGED <<array, head, tail, pos>>
  BY DEF Aside, Call, EnqCall, EnqCount, EnqUndo, EnqDone, DeqCall, DeqCount, DeqUndo, DeqDone,
         bufferVars
<1>4. \E from, to : /\ Goto(t, from, to)
                    /\ from \notin {"enq_store", "deq_take"} /\ to \notin {"enq_store", "deq_take"}
  BY DEF Aside, Call, EnqCall, EnqCount, EnqUndo, EnqDone, DeqCall, DeqCount, DeqUndo, DeqDone
<1>5. \A u \in Threads, i \in Slots : /\ Storing(u, i)' <=> Storing(u, i)
                                      /\ Taking(u, i)' <=> Taking(u, i)
  BY <1>2, <1>3, <1>4 DEF Goto, Storing, Taking
<1>6. QED
  BY <1>1, <1>3, <1>5, ClaimsUnchanged

(* An enQ claims the slot at the tail. *)
LEMMA EnqTailClaims ==
  ASSUME OrderInv, Size <= 2, NEW t \in Threads, EnqTail(t)
  PROVE  /\ ClaimsApart' /\ ClaimsInTurn' /\ UNCHANGED <<array, head>>
         /\ \A u \in Threads, i \in Slots : Storing(u, i)' <=> Storing(u, i) \/ (u = t /\ i = tail)
         /\ \A i \in Slots : Emptying(i)' <=> Emptying(i)
<1>1. /\ ClaimsApart /\ ClaimsInTurn /\ head \in Slots /\ tail \in Slots
      /\ pc \in [Threads -> {"idle"} \union EnqPcs \union DeqPcs] /\ pos \in [Threads -> Slots]
  BY DEF OrderInv, IndInv, TypeOK
<1>2. /\ pc[t] = "enq_tail" /\ pc' = [pc EXCEPT ![t] = "enq_store"] /\ pos' = [pos EXCEPT ![t] = tail]
      /\ tail' = (tail + Stride) % Size /\ UNCHANGED <<array, head>>
  BY DEF EnqTail, Goto
<1>3. /\ ~Filling(tail) /\ ~Due(tail)
      /\ head = tail => \A i \in Slots : ~Due(i)
  BY <1>2, TailIsFree
<1>4. \A u \in Threads, i \in Slots : /\ Storing(u, i)' <=> Storing(u, i) \/ (u = t /\ i = tail)
                                      /\ Taking(u, i)' <=> Taking(u, i)
  BY <1>1, <1>2 DEF Storing, Taking
<1>5. \A i \in Slots : /\ Full(i)' <=> Full(i)
                       /\ Filling(i)' <=> Filling(i) \/ i = tail
                       /\ Emptying(i)' <=> Emptying(i)
  BY <1>2, <1>4 DEF Full, Filling, Emptying
<1>6. \A i \in Slots : Due(i)' <=> Due(i) \/ i = tail
  BY <1>1, <1>3, <1>5 DEF Due, ClaimsApart
<1>7. ClaimsApart'
  <2>1. \A i \in Slots, u, v \in Threads :
          (Storing(u, i)' /\ Storing(v, i)') \/ (Taking(u, i)' /\ Taking(v, i)') => u = v
    BY <1>1, <1>3, <1>4 DEF ClaimsApart, Filling
  <2>2. \A i \in Slots : /\ Full(i)' /\ Filling(i)' => Emptying(i)'
                         /\ Emptying(i)' => Full(i)' \/ Filling(i)'
    BY <1>1, <1>3, <1>5 DEF ClaimsApart, Due
  <2>3. QED
    BY <2>1, <2>2 DEF ClaimsApart
<1>8. ClaimsInTurn'
  <2>1. tail' \in Slots /\ (tail' = tail => \A i \in Slots : i = tail)
    BY <1>1, <1>2, TwoSlots
  <2>2. CASE head = tail
    <3>1. \A i \in Slots : Due(i)' <=> i = head'
      BY <1>2, <1>3, <1>6, <2>2
    <3>2. head' = tail' => \A i \in Slots : Due(i)'
      BY <1>2, <2>1, <2>2, <3>1
    <3>3. QED
      BY <3>1, <3>2 DEF ClaimsInTurn
  <2>3. CASE head # tail
    <3>1. head' = tail'
      BY <1>1, <1>2, <2>3, TwoSlots
    <3>2. \A i \in Slots : Due(i)'
      BY <1>1, <1>6, <2>3, TwoSlots DEF ClaimsInTurn
    <3>3. QED
      BY <3>1, <3>2 DEF ClaimsInTurn
  <2>4. QED
    BY <2>2, <2>3
<1>9. QED
  BY <1>2, <1>4, <1>5, <1>7, <1>8

(* An enQ fills the slot that it claimed. *)
LEMMA EnqStoreClaims ==
  ASSUME OrderInv, Size <= 2, NEW t \in Threads, EnqStore(t)
  PROVE  /\ ClaimsApart' /\ ClaimsInTurn' /\ UNCHANGED <<head, tail>>
         /\ \A u \in Threads, i \in Slots : Storing(u, i)' <=> Storing(u, i) /\ u # t
         /\ \A i \in Slots : Emptying(i)' <=> Emptying(i)
<1>1. /\ ClaimsApart /\ ClaimsInTurn /\ array \in [Slots -> Values \union {NullValue}]
      /\ pc \in [Threads -> {"idle"} \union EnqPcs \union DeqPcs] /\ pos \in [Threads -> Slots]
      /\ value[t] # NullValue
  BY RingBufferAssumption DEF OrderInv, IndInv, TypeOK, EnqStore, Goto, EnqValues, EnqPcs
<1>2. PICK k \in Slots : k = pos[t]
  BY <1>1
<1>3. /\ pc[t] = "enq_store" /\ pc' = [pc EXCEPT ![t] = "enq_done"] /\ UNCHANGED <<pos, head, tail>>
      /\ array[k] = NullValue /\ array' = [array EXCEPT ![k] = value[t]]
  BY <1>2 DEF EnqStore, Goto
<1>4. Storing(t, k) /\ \A u \in Threads : Storing(u, k) => u = t
  BY <1>1, <1>2, <1>3 DEF ClaimsApart, Storing
<1>5. \A u \in Threads, i \in Slots : /\ Storing(u, i)' <=> Storing(u, i) /\ u # t
                                      /\ Taking(u, i)' <=> Taking(u, i)
  BY <1>1, <1>3 DEF Storing, Taking
<1>6. \A i \in Slots : /\ Full(i)' <=> Full(i) \/ i = k
                       /\ Filling(i)' <=> Filling(i) /\ i # k
                       /\ Emptying(i)' <=> Emptying(i)
  <2>1. \A i \in Slots : Full(i)' <=> Full(i) \/ i = k
    BY <1>1, <1>3 DEF Full
  <2>2. \A i \in Slots : Storing(t, i) => i = k
    BY <1>2 DEF Storing
  <2>3. QED
    BY <1>4, <1>5, <2>1, <2>2 DEF Filling, Emptying
<1>7. Filling(k) /\ ~Full(k)
  BY <1>3, <1>4 DEF Filling, Full
<1>8. \A i \in Slots : Due(i)' <=> Due(i)
  BY <1>6, <1>7 DEF Due
<1>9. ClaimsApart'
  <2>1. \A i \in Slots, u, v \in Threads :
          (Storing(u, i)' /\ Storing(v, i)') \/ (Taking(u, i)' /\ Taking(v, i)') => u = v
    BY <1>1, <1>5 DEF ClaimsApart
  <2>2. \A i \in Slots : /\ Full(i)' /\ Filling(i)' => Emptying(i)'
                         /\ Emptying(i)' => Full(i)' \/ Filling(i)'
    BY <1>1, <1>6, <1>7 DEF ClaimsApart
  <2>3. QED
    BY <2>1, <2>2 DEF ClaimsApart
<1>10. ClaimsInTurn'
  BY <1>1, <1>3, <1>8 DEF ClaimsInTurn
<1>11. QED
  BY <1>3, <1>5, <1>6, <1>9, <1>10

(* A deQ claims the slot at the head. *)
LEMMA DeqHeadClaims ==
  ASSUME OrderInv, Size <= 2, NEW t \in Threads, DeqHead(t)
  PROVE  /\ ClaimsApart' /\ ClaimsInTurn' /\ UNCHANGED <<array, tail>>
         /\ \A u \in Threads, i \in Slots : Storing(u, i)' <=> Storing(u, i)
         /\ \A i \in Slots : Emptying(i)' <=> Emptying(i) \/ i = head
<1>1. /\ ClaimsApart /\ ClaimsInTurn /\ head \in Slots /\ tail \in Slots
      /\ pc \in [Threads -> {"idle"} \union EnqPcs \union DeqPcs] /\ pos \in [Threads -> Slots]
  BY DEF OrderInv, IndInv, TypeOK
<1>2. /\ pc[t] = "deq_head" /\ pc' = [pc EXCEPT ![t] = "deq_take"] /\ pos' = [pos EXCEPT ![t] = head]
      /\ head' = (head + Stride) % Size /\ UNCHANGED <<array, tail>>
  BY DEF DeqHead, Goto
<1>3. /\ ~Emptying(head) /\ Due(head)
      /\ head = tail => \A i \in Slots : Due(i)
  BY <1>2, HeadIsDue
<1>4. \A u \in Threads, i \in Slots : /\ Storing(u, i)' <=> Storing(u, i)
                                      /\ Taking(u, i)' <=> Taking(u, i) \/ (u = t /\ i = head)
  BY <1>1, <1>2 DEF Storing, Taking
<1>5. \A i \in Slots : /\ Full(i)' <=> Full(i)
                       /\ Filling(i)' <=> Filling(i)
                       /\ Emptying(i)' <=> Emptying(i) \/ i = head
  BY <1>2, <1>4 DEF Full, Filling, Emptying
<1>6. \A i \in Slots : Due(i)' <=> Due(i) /\ i # head
  BY <1>1, <1>3, <1>5 DEF Due, ClaimsApart
<1>7. ClaimsApart'
  <2>1. \A i \in Slots, u, v \in Threads :
          (Storing(u, i)' /\ Storing(v, i)') \/ (Taking(u, i)' /\ Taking(v, i)') => u = v
    BY <1>1, <1>3, <1>4 DEF ClaimsApart, Emptying
  <2>2. \A i \in Slots : /\ Full(i)' /\ Filling(i)' => Emptying(i)'
                         /\ Emptying(i)' => Full(i)' \/ Filling(i)'
    BY <1>1, <1>3, <1>5 DEF ClaimsApart, Due
  <2>3. QED
    BY <2>1, <2>2 DEF ClaimsApart
<1>8. ClaimsInTurn'
  <2>1. head' \in Slots /\ (head' = head => \A i \in Slots : i = head)
    BY <1>1, <1>2, TwoSlots
  <2>2. CASE head = tail
    <3>1. CASE head' = head
      <4>1. \A i \in Slots : ~Due(i)'
        BY <1>6, <2>1, <3>1
      <4>2. QED
        BY <1>2, <2>2, <3>1, <4>1 DEF ClaimsInTurn
    <3>2. CASE head' # head
      <4>1. \A i \in Slots : i # head <=> i = head'
        BY <1>1, <2>1, <3>2, TwoSlots
      <4>2. \A i \in Slots : Due(i)' <=> i = head'
        BY <1>3, <1>6, <2>2, <4>1
      <4>3. QED
        BY <1>2, <2>2, <3>2, <4>2 DEF ClaimsInTurn
    <3>3. QED
      BY <3>1, <3>2
  <2>3. CASE head # tail
    <3>1. head' = tail'
      BY <1>1, <1>2, <2>3, TwoSlots
    <3>2. \A i \in Slots : ~Due(i)'
      BY <1>1, <1>6, <2>3 DEF ClaimsInTurn
    <3>3. QED
      BY <3>1, <3>2 DEF ClaimsInTurn
  <2>4. QED
    BY <2>2, <2>3
<1>9. QED
  BY <1>2, <1>4, <1>5, <1>7, <1>8

(* A deQ empties the slot that it claimed. *)
LEMMA DeqTakeClaims ==
  ASSUME OrderInv, Size <= 2, NEW t \in Threads, DeqTake(t)
  PROVE  /\ ClaimsApart' /\ ClaimsInTurn' /\ UNCHANGED <<head, tail>>
         /\ \A u \in Threads, i \in Slots : Storing(u, i)' <=> Storing(u, i)
         /\ \A i \in Slots : Emptying(i)' <=> Emptying(i) /\ i # pos[t]
         /\ \A u \in Threads : pc[u] = "deq_take" /\ pos[u] = pos[t] => u = t
<1>1. /\ ClaimsApart /\ ClaimsInTurn /\ array \in [Slots -> Values \union {NullValue}]
      /\ pc \in [Threads -> {"idle"} \union EnqPcs \union DeqPcs] /\ pos \in [Threads -> Slots]
  BY DEF OrderInv, IndInv, TypeOK
<1>2. PICK k \in Slots : k = pos[t]
  BY <1>1
<1>3. /\ pc[t] = "deq_take" /\ pc' = [pc EXCEPT ![t] = "deq_done"] /\ UNCHANGED <<pos, head, tail>>
      /\ array[k] # NullValue /\ array' = [array EXCEPT ![k] = NullValue]
  BY <1>2 DEF DeqTake, Goto
<1>4. Taking(t, k) /\ \A u \in Threads : Taking(u, k) => u = t
  BY <1>1, <1>2, <1>3 DEF ClaimsApart, Taking
<1>5. \A u \in Threads, i \in Slots : /\ Storing(u, i)' <=> Storing(u, i)
                                      /\ Taking(u, i)' <=> Taking(u, i) /\ u # t
  BY <1>1, <1>3 DEF Storing, Taking
<1>6. \A i \in Slots : /\ Full(i)' <=> Full(i) /\ i # k
                       /\ Filling(i)' <=> Filling(i)
                       /\ Emptying(i)' <=> Emptying(i) /\ i # k
  <2>1. \A i \in Slots : Full(i)' <=> Full(i) /\ i # k
    BY <1>1, <1>3 DEF Full
  <2>2. \A i \in Slots : Taking(t, i) => i = k
    BY <1>2 DEF Taking
  <2>3. QED
    BY <1>4, <1>5, <2>1, <2>2 DEF Filling, Emptying
<1>7. Emptying(k) /\ Full(k)
  BY <1>3, <1>4 DEF Emptying, Full
<1>8. \A i \in Slots : Due(i)' <=> Due(i)
  BY <1>6, <1>7 DEF Due
<1>9. ClaimsApart'
  <2>1. \A i \in Slots, u, v \in Threads :
          (Storing(u, i)' /\ Storing(v, i)') \/ (Taking(u, i)' /\ Taking(v, i)') => u = v
    BY <1>1, <1>5 DEF ClaimsApart
  <2>2. \A i \in Slots : /\ Full(i)' /\ Filling(i)' => Emptying(i)'
                         /\ Emptying(i)' => Full(i)' \/ Filling(i)'
    BY <1>1, <1>6, <1>7 DEF ClaimsApart
  <2>3. QED
    BY <2>1, <2>2 DEF ClaimsApart
<1>10. ClaimsInTurn'
  BY <1>1, <1>3, <1>8 DEF ClaimsInTurn
<1>11. \A u \in Threads : pc[u] = "deq_take" /\ pos[u] = pos[t] => u = t
  BY <1>2, <1>4 DEF Taking
<1>12. QED
  BY <1>2, <1>3, <1>5, <1>6, <1>9, <1>10, <1>11

-------------------------------------------------------------------------------
(* The order of up to two slots: the values *)

(* A step aside of the claims keeps the turns of two values. *)
LEMMA PairAside ==
  ASSUME OrderInv, Size <= 2, NEW t \in Threads, Aside(t),
         NEW x \in Values, NEW y \in Values, <<x, y>> \in precedes
  PROVE  ClaimedFirst(x, y)' /\ CalledFirst(x, y)'
<1>1. /\ pc \in [Threads -> {"idle"} \union EnqPcs \union DeqPcs] /\ pos \in [Threads -> Slots]
      /\ value \in [Threads -> Values \union {NullValue}] /\ missed \in [Threads -> SUBSET Values]
      /\ ClaimedFirst(x, y) /\ CalledFirst(x, y)
      /\ \A u \in Threads : missed[u] \subseteq delivered
  BY DEF OrderInv, IndInv, TypeOK, TurnsKept, HistoryFits
<1>2. /\ UNCHANGED <<array, head, pos>>
      /\ \A u \in Threads, i \in Slots : Storing(u, i)' <=> Storing(u, i)
      /\ \A i \in Slots : Emptying(i)' <=> Emptying(i)
  BY AsideStep
<1>3. /\ \A u \in Threads \ {t} : pc'[u] = pc[u] /\ value'[u] = value[u] /\ missed'[u] = missed[u]
      /\ pc'[t] \notin {"enq_store", "deq_take", "deq_done"} /\ pc[t] \notin {"enq_store", "deq_take"}
  BY <1>1 DEF Aside, Call, EnqCall, EnqCount, EnqUndo, EnqDone, DeqCall, DeqCount, DeqUndo, DeqDone,
              Goto, bufferVars, history
<1>4. delivered' = delivered \/ (pc[t] = "deq_done" /\ delivered' = delivered \union {value[t]})
  BY DEF Aside, Call, EnqCall, EnqCount, EnqUndo, EnqDone, DeqCall, DeqCount, DeqUndo, DeqDone,
         Goto, bufferVars, history
<1>5. ClaimedFirst(x, y)'
  <2>1. InDeq(y)' => InDeq(y)
    BY <1>3 DEF InDeq, Holds
  <2>2. \A j \in Slots : Placed(y, j)' => Placed(y, j)
    BY <1>1, <1>2, <1>3 DEF Placed, Storing
  <2>3. y \in delivered' => y \in delivered \/ InDeq(y)
    BY <1>4 DEF InDeq, Holds
  <2>4. QED
    BY <1>1, <1>2, <2>1, <2>2, <2>3 DEF ClaimedFirst
<1>6. CalledFirst(x, y)'
  BY <1>1, <1>2, <1>3, <1>4 DEF CalledFirst, Holds
<1>7. QED
  BY <1>5, <1>6

(* A value that may be queued is nowhere in the buffer. *)
LEMMA FreshIsNew ==
  ASSUME IndInv, NEW v \in Values, Fresh(v)
  PROVE  v \notin delivered /\ ~InDeq(v) /\ ~InArray(v)
BY DEF IndInv, StoredValues, Stored, Fresh

(* Every operation keeps the turns. *)
LEMMA TurnsStep ==
  ASSUME OrderInv, Size <= 2, NEW t \in Threads, Call(t) \/ Step(t)
  PROVE  TurnsKept'
<1> SUFFICES ASSUME NEW x \in Values, NEW y \in Values, <<x, y>> \in precedes'
             PROVE  ClaimedFirst(x, y)' /\ CalledFirst(x, y)'
  BY DEF TurnsKept
<1>1. /\ pc \in [Threads -> {"idle"} \union EnqPcs \union DeqPcs] /\ pos \in [Threads -> Slots]
      /\ value \in [Threads -> Values \union {NullValue}] /\ missed \in [Threads -> SUBSET Values]
      /\ array \in [Slots -> Values \union {NullValue}] /\ head \in Slots /\ tail \in Slots
      /\ NullValue \notin Values /\ IndInv
      /\ \A u \in Threads : missed[u] \subseteq delivered
  BY RingBufferAssumption DEF OrderInv, IndInv, TypeOK, HistoryFits
<1>2. <<x, y>> \in precedes => ClaimedFirst(x, y) /\ CalledFirst(x, y) /\ x \in accepted
  BY DEF OrderInv, TurnsKept, HistoryFits
<1>3. CASE \E v \in Values : EnqCall(t, v)
  <2>1. PICK v \in Values : EnqCall(t, v)
    BY <1>3
  <2>2. CASE y = v
    <3>1. v \notin delivered /\ ~InDeq(v) /\ ~InArray(v) /\ \A u \in Threads : value[u] # v
      BY <1>1, <2>1, FreshIsNew DEF EnqCall, Fresh
    <3>2. /\ delivered' = delivered /\ array' = array /\ pc' = [pc EXCEPT ![t] = "enq_count"]
          /\ value' = [value EXCEPT ![t] = v]
      BY <2>1 DEF EnqCall, Goto, bufferVars
    <3>3. ~InDeq(y)' /\ \A j \in Slots : ~Placed(y, j)'
      BY <1>1, <2>2, <3>1, <3>2 DEF InDeq, Holds, Placed, InArray, Storing
    <3>4. ClaimedFirst(x, y)' /\ CalledFirst(x, y)'
      BY <2>2, <3>1, <3>2, <3>3 DEF ClaimedFirst, CalledFirst
    <3>5. QED
      BY <3>4
  <2>3. CASE y # v
    <3>1. <<x, y>> \in precedes
      BY <2>1, <2>3 DEF EnqCall
    <3>2. QED
      BY <1>3, <3>1, PairAside DEF Aside, Call
  <2>4. QED
    BY <2>2, <2>3
<1>4. CASE DeqCall(t) \/ EnqCount(t) \/ EnqUndo(t) \/ EnqDone(t) \/ DeqCount(t) \/ DeqUndo(t) \/ DeqDone(t)
  <2>1. <<x, y>> \in precedes
    BY <1>4 DEF DeqCall, EnqCount, EnqUndo, EnqDone, DeqCount, DeqUndo, DeqDone, history
  <2>2. QED
    BY <1>4, <2>1, PairAside DEF Aside, Call
<1>5. CASE EnqTail(t)
  <2>1. /\ pc[t] = "enq_tail" /\ pc' = [pc EXCEPT ![t] = "enq_store"] /\ pos' = [pos EXCEPT ![t] = tail]
        /\ UNCHANGED <<array, head, value, history>>
    BY <1>5 DEF EnqTail, Goto
  <2>2. /\ \A u \in Threads, i \in Slots : Storing(u, i)' <=> Storing(u, i) \/ (u = t /\ i = tail)
        /\ \A i \in Slots : Emptying(i)' <=> Emptying(i)
    BY <1>5, EnqTailClaims
  <2>3. ClaimedFirst(x, y) /\ CalledFirst(x, y)
    BY <1>2, <2>1 DEF history
  <2>4. \A j \in Slots : Placed(y, j)' => Placed(y, j) \/ j = tail
    BY <2>1, <2>2 DEF Placed
  <2>5. ClaimedFirst(x, y)'
    <3>1. InDeq(y)' <=> InDeq(y)
      BY <1>1, <2>1 DEF InDeq, Holds
    <3>2. \A i \in Slots : array[i] = x => Full(i)
      BY <1>1 DEF Full
    <3>3. \A i \in Slots : array[i] = x /\ ~Emptying(i) => i # tail /\ ~Emptying(tail) /\ head = i
      BY <2>1, <3>2, TailIsFree
    <3>4. QED
      BY <2>1, <2>2, <2>3, <2>4, <3>1, <3>3 DEF ClaimedFirst, history
  <2>6. CalledFirst(x, y)'
    BY <1>1, <2>1, <2>3 DEF CalledFirst, Holds, history
  <2>7. QED
    BY <2>5, <2>6
<1>6. CASE EnqStore(t)
  <2>1. /\ pc[t] = "enq_store" /\ pc' = [pc EXCEPT ![t] = "enq_done"]
        /\ array' = [array EXCEPT ![pos[t]] = value[t]]
        /\ UNCHANGED <<head, pos, value, history>>
    BY <1>6 DEF EnqStore, Goto
  <2>2. /\ \A u \in Threads, i \in Slots : Storing(u, i)' <=> Storing(u, i) /\ u # t
        /\ \A i \in Slots : Emptying(i)' <=> Emptying(i)
    BY <1>6, EnqStoreClaims
  <2>3. ClaimedFirst(x, y) /\ CalledFirst(x, y) /\ x # value[t]
    BY <1>1, <1>2, <2>1 DEF history, IndInv, EnqValues, EnqPcs
  <2>4. \A i \in Slots : array'[i] = x => array[i] = x
    BY <1>1, <2>1, <2>3
  <2>5. \A j \in Slots : Placed(y, j)' => Placed(y, j)
    BY <1>1, <2>1, <2>2 DEF Placed, Storing
  <2>6. InDeq(y)' <=> InDeq(y)
    BY <1>1, <2>1 DEF InDeq, Holds
  <2>7. ClaimedFirst(x, y)'
    BY <2>1, <2>2, <2>3, <2>4, <2>5, <2>6 DEF ClaimedFirst, history
  <2>8. CalledFirst(x, y)'
    BY <1>1, <2>1, <2>3, <2>4 DEF CalledFirst, Holds, history
  <2>9. QED
    BY <2>7, <2>8
<1>7. CASE DeqHead(t)
  <2>1. /\ pc[t] = "deq_head" /\ pc' = [pc EXCEPT ![t] = "deq_take"] /\ pos' = [pos EXCEPT ![t] = head]
        /\ UNCHANGED <<array, value, history>>
    BY <1>7 DEF DeqHead, Goto
  <2>2. /\ \A u \in Threads, i \in Slots : Storing(u, i)' <=> Storing(u, i)
        /\ \A i \in Slots : Emptying(i)' <=> Emptying(i) \/ i = head
    BY <1>7, DeqHeadClaims
  <2>3. ClaimedFirst(x, y) /\ CalledFirst(x, y)
    BY <1>2, <2>1 DEF history
  <2>4. \A j \in Slots : Placed(y, j)' <=> Placed(y, j)
    BY <2>1, <2>2 DEF Placed
  <2>5. InDeq(y)' <=> InDeq(y)
    BY <1>1, <2>1 DEF InDeq, Holds
  <2>6. ClaimedFirst(x, y)'
    BY <2>1, <2>2, <2>3, <2>4, <2>5 DEF ClaimedFirst, history
  <2>7. array[head] = x => y \notin delivered
    BY <1>1, <2>1, <2>3, HeadIsDue DEF ClaimedFirst
  <2>8. CalledFirst(x, y)'
    BY <1>1, <2>1, <2>3, <2>7 DEF CalledFirst, Holds, history
  <2>9. QED
    BY <2>6, <2>8
<1>8. CASE DeqTake(t)
  <2>1. /\ pc[t] = "deq_take" /\ pc' = [pc EXCEPT ![t] = "deq_done"]
        /\ array' = [array EXCEPT ![pos[t]] = NullValue]
        /\ value' = [value EXCEPT ![t] = array[pos[t]]]
        /\ UNCHANGED <<head, pos, history>>
    BY <1>8 DEF DeqTake, Goto
  <2>2. /\ \A u \in Threads, i \in Slots : Storing(u, i)' <=> Storing(u, i)
        /\ \A i \in Slots : Emptying(i)' <=> Emptying(i) /\ i # pos[t]
    BY <1>8, DeqTakeClaims
  <2>3. ClaimedFirst(x, y) /\ CalledFirst(x, y)
    BY <1>2, <2>1 DEF history
  <2>4. \A i \in Slots : (array'[i] = x => array[i] = x /\ i # pos[t]) /\ (array'[i] = y => array[i] = y)
    BY <1>1, <2>1
  <2>5. \A j \in Slots : Placed(y, j)' => Placed(y, j)
    BY <1>1, <2>1, <2>2, <2>4 DEF Placed, Storing
  <2>6. InDeq(y)' => InDeq(y) \/ array[pos[t]] = y
    BY <1>1, <2>1 DEF InDeq, Holds
  <2>7. Emptying(pos[t]) /\ (array[pos[t]] = y => Placed(y, pos[t]))
    BY <2>1 DEF Emptying, Taking, Placed
  <2>8. ClaimedFirst(x, y)'
    BY <1>1, <2>1, <2>2, <2>3, <2>4, <2>5, <2>6, <2>7 DEF ClaimedFirst, history
  <2>9. CalledFirst(x, y)'
    BY <1>1, <2>1, <2>3, <2>4 DEF CalledFirst, Holds, history
  <2>10. QED
    BY <2>8, <2>9
<1>9. QED
  BY <1>3, <1>4, <1>5, <1>6, <1>7, <1>8 DEF Call, Step

(* A value that is delivered overtakes none that was queued before it. *)
LEMMA OvertakesStep ==
  ASSUME OrderInv, Size <= 2, NEW t \in Threads, Call(t) \/ Step(t)
  PROVE  FirstInFirstOut'
<1> SUFFICES ASSUME NEW x \in Values, NEW y \in Values, <<x, y>> \in precedes', <<y, x>> \in overtook'
             PROVE  FALSE
  BY DEF FirstInFirstOut
<1>1. /\ ~(<<x, y>> \in precedes /\ <<y, x>> \in overtook)
      /\ <<x, y>> \in precedes => CalledFirst(x, y)
      /\ overtook \subseteq delivered \X Values /\ missed[t] \subseteq delivered /\ IndInv
  BY DEF OrderInv, FirstInFirstOut, TurnsKept, HistoryFits
<1>2. CASE \E v \in Values : EnqCall(t, v)
  <2>1. PICK v \in Values : EnqCall(t, v)
    BY <1>2
  <2>2. v \notin delivered
    BY <1>1, <2>1, FreshIsNew DEF EnqCall
  <2>3. y \in delivered /\ <<y, x>> \in overtook
    BY <1>1, <2>1 DEF EnqCall
  <2>4. QED
    BY <1>1, <2>1, <2>2, <2>3 DEF EnqCall
<1>3. CASE DeqDone(t)
  <2>1. /\ precedes' = precedes /\ overtook' = overtook \union (missed[t] \X {value[t]})
        /\ pc[t] = "deq_done"
    BY <1>3 DEF DeqDone, Goto
  <2>2. x = value[t] /\ y \in missed[t] /\ <<x, y>> \in precedes
    BY <1>1, <2>1
  <2>3. QED
    BY <1>1, <2>1, <2>2 DEF CalledFirst, Holds
<1>4. CASE /\ overtook' = overtook /\ precedes' \subseteq precedes
  BY <1>1, <1>4
<1>5. QED
  <2>1. CASE DeqCall(t) \/ EnqCount(t) \/ EnqUndo(t) \/ EnqTail(t) \/ EnqStore(t) \/ EnqDone(t)
             \/ DeqCount(t) \/ DeqUndo(t) \/ DeqHead(t) \/ DeqTake(t)
    <3>1. overtook' = overtook /\ precedes' \subseteq precedes
      BY <2>1 DEF DeqCall, EnqCount, EnqUndo, EnqTail, EnqStore, EnqDone, DeqCount, DeqUndo,
                  DeqHead, DeqTake, history
    <3>2. QED
      BY <1>4, <3>1
  <2>2. QED
    BY <1>2, <1>3, <2>1 DEF Call, Step

(* It holds when set() has returned. *)
LEMMA OrderInvInit == Init => OrderInv
<1> SUFFICES ASSUME Init PROVE OrderInv
  OBVIOUS
<1>1. IndInv
  BY IndInvInit
<1>2. ItemsPromised
  <2>1. In({"deq_undo"}) = {}
    BY DEF Init, In
  <2>2. QED
    BY <2>1, FS_EmptySet DEF Init, ItemsPromised
<1>3. HistoryFits
  BY DEF Init, HistoryFits
<1>4. \A i \in Slots : ~Full(i) /\ ~Filling(i) /\ ~Emptying(i)
  BY DEF Init, Full, Filling, Emptying, Storing, Taking
<1>5. ClaimsApart
  BY <1>4 DEF Init, ClaimsApart, Storing, Taking
<1>6. ClaimsInTurn
  BY <1>4 DEF Init, ClaimsInTurn, Due
<1>7. TurnsKept /\ FirstInFirstOut
  BY DEF Init, TurnsKept, FirstInFirstOut
<1>8. QED
  BY <1>1, <1>2, <1>3, <1>5, <1>6, <1>7 DEF OrderInv

LEMMA OrderInvStep == OrderInv /\ [Next]_vars => OrderInv'
<1> SUFFICES ASSUME OrderInv, [Next]_vars PROVE OrderInv'
  OBVIOUS
<1>1. IndInv'
  BY IndInvStep DEF OrderInv
<1>2. ASSUME NEW t \in Threads, Call(t) \/ Step(t) PROVE OrderInv'
  <2>1. ItemsPromised' /\ HistoryFits'
    BY <1>2, PromisesStep, HistoryStep
  <2>2. ASSUME Size <= 2 PROVE ClaimsApart' /\ ClaimsInTurn'
    <3>1. CASE Aside(t)
      BY <2>2, <3>1, AsideStep
    <3>2. CASE EnqTail(t)
      BY <2>2, <3>2, EnqTailClaims
    <3>3. CASE EnqStore(t)
      BY <2>2, <3>3, EnqStoreClaims
    <3>4. CASE DeqHead(t)
      BY <2>2, <3>4, DeqHeadClaims
    <3>5. CASE DeqTake(t)
      BY <2>2, <3>5, DeqTakeClaims
    <3>6. QED
      BY <1>2, <3>1, <3>2, <3>3, <3>4, <3>5 DEF Step, Aside
  <2>3. ASSUME Size <= 2 PROVE TurnsKept' /\ FirstInFirstOut'
    BY <1>2, <2>3, TurnsStep, OvertakesStep
  <2>4. QED
    BY <1>1, <2>1, <2>2, <2>3 DEF OrderInv
<1>3. CASE UNCHANGED vars
  <2> USE <1>3 DEF vars, bufferVars, history
  <2>1. ItemsPromised' /\ HistoryFits'
    BY DEF OrderInv, ItemsPromised, In, HistoryFits
  <2>2. ClaimsApart' <=> ClaimsApart
    BY DEF ClaimsApart, Storing, Taking, Full, Filling, Emptying
  <2>3. ClaimsInTurn' <=> ClaimsInTurn
    BY DEF ClaimsInTurn, Due, Storing, Taking, Full, Filling, Emptying
  <2>4. TurnsKept' <=> TurnsKept
    BY DEF TurnsKept, ClaimedFirst, CalledFirst, Placed, InDeq, Holds, Storing, Taking, Emptying
  <2>5. FirstInFirstOut' <=> FirstInFirstOut
    BY DEF FirstInFirstOut
  <2>6. QED
    BY <1>1, <2>1, <2>2, <2>3, <2>4, <2>5 DEF OrderInv
<1>4. QED
  BY <1>2, <1>3 DEF Next, Finished

(* InOrderUpToTwo: what was queued before the call of another enQ is not   *)
(* overtaken by its value, in a buffer of one or two slots, for any number *)
(* of threads and values.                                                  *)
THEOREM InOrder == Spec => []InOrderUpToTwo
<1>1. OrderInv => InOrderUpToTwo
  BY DEF OrderInv, InOrderUpToTwo
<1>2. QED
  BY <1>1, OrderInvInit, OrderInvStep, PTL DEF Spec

===============================================================================
