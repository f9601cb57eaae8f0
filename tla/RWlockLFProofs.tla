---------------------------- MODULE RWlockLFProofs ----------------------------
(***************************************************************************)
(* What is proved of utl::RWlockLF, for any finite set of threads and any  *)
(* nesting depth: the safety properties of RWlockLF.tla, from its          *)
(* inductive invariant IndInv, and that it implements RWlockSpec.          *)
(***************************************************************************)
EXTENDS RWlockLF, FiniteSetTheorems, TLAPS

-------------------------------------------------------------------------------
(* How _numActive follows the threads through their calls *)

(* The sets that _numActive counts are finite. *)
LEMMA FiniteCounts ==
  ASSUME TypeOK
  PROVE  /\ IsFiniteSet(Counted) /\ Cardinality(Counted) \in Nat
         /\ IsFiniteSet(readers) /\ Cardinality(readers) \in Nat
<1>1. IsFiniteSet(Threads)
  BY LockAssumption
<1>2. Counted \in SUBSET Threads /\ readers \in SUBSET Threads
  BY DEF TypeOK, Counted
<1>3. IsFiniteSet(Counted) /\ IsFiniteSet(readers)
  BY <1>1, <1>2, FS_Subset
<1>4. QED
  BY <1>3, FS_CardinalityType

(* A thread that starts to be counted adds one. *)
LEMMA CountedGrows ==
  ASSUME TypeOK, NEW t \in Threads, NEW to \in Pcs,
         pc' = [pc EXCEPT ![t] = to],
         pc[t] \notin CountedPcs, to \in CountedPcs
  PROVE  /\ Counted' = Counted \union {t}
         /\ Cardinality(Counted') = Cardinality(Counted) + 1
<1>1. Counted' = Counted \union {t} /\ t \notin Counted
  BY DEF TypeOK, Counted
<1>2. QED
  BY <1>1, FiniteCounts, FS_AddElement

(* A thread that stops being counted takes one away. *)
LEMMA CountedShrinks ==
  ASSUME TypeOK, NEW t \in Threads, NEW to \in Pcs,
         pc' = [pc EXCEPT ![t] = to],
         pc[t] \in CountedPcs, to \notin CountedPcs
  PROVE  /\ Counted' = Counted \ {t}
         /\ Cardinality(Counted') = Cardinality(Counted) - 1
         /\ Cardinality(Counted') \in Nat
<1>1. Counted' = Counted \ {t} /\ t \in Counted
  BY DEF TypeOK, Counted
<1>2. /\ IsFiniteSet(Counted \ {t})
      /\ Cardinality(Counted \ {t}) = Cardinality(Counted) - 1
  BY <1>1, FiniteCounts, FS_RemoveElement
<1>3. QED
  BY <1>1, <1>2, FS_CardinalityType

(* Any other move within a call leaves the set alone. *)
LEMMA CountedStays ==
  ASSUME TypeOK, NEW t \in Threads, NEW to \in Pcs,
         pc' = [pc EXCEPT ![t] = to],
         pc[t] \in CountedPcs <=> to \in CountedPcs
  PROVE  Counted' = Counted
BY DEF TypeOK, Counted

(* Nobody reads and nobody but t is counted when t is the only one active. *)
LEMMA OnlyActive ==
  ASSUME TypeOK, ActiveCount, NEW t \in Counted, numActive <= 1
  PROVE  readers = {} /\ Counted = {t}
<1>1. Cardinality(Counted) # 0
  BY FiniteCounts, FS_EmptySet
<1>2. Cardinality(Counted) = 1 /\ Cardinality(readers) = 0
  BY <1>1, FiniteCounts DEF ActiveCount, TypeOK
<1>3. readers = {}
  BY <1>2, FiniteCounts, FS_EmptySet
<1>4. PICK x : Counted = {x}
  BY <1>2, FiniteCounts, FS_Singleton
<1>5. QED
  BY <1>3, <1>4

(* Nobody reads and nobody is counted when _numActive is zero. *)
LEMMA NoneActive ==
  ASSUME TypeOK, ActiveCount, numActive = 0
  PROVE  readers = {} /\ Counted = {}
<1>1. Cardinality(Counted) = 0 /\ Cardinality(readers) = 0
  BY FiniteCounts DEF ActiveCount
<1>2. QED
  BY <1>1, FiniteCounts, FS_EmptySet

(* How the set of writers follows a thread through its calls. *)
LEMMA WritersMove ==
  ASSUME TypeOK, NEW t \in Threads, NEW to \in Pcs,
         pc' = [pc EXCEPT ![t] = to]
  PROVE  Writers' = IF to = "writing" THEN Writers \union {t} ELSE Writers \ {t}
BY DEF TypeOK, Writers

-------------------------------------------------------------------------------
(* The helpers of the module preserve the invariant *)

(* A fetch_add of _numActive by a thread that is not counted yet. *)
LEMMA BumpKeeps ==
  ASSUME IndInv, NEW t \in Threads, NEW from \in Pcs, NEW to \in Pcs,
         from \notin CountedPcs, to \in CountedPcs, to # "writing",
         from \in OwnerPcs <=> to \in OwnerPcs,
         from \in TrywrlockPcs => to \in TrywrlockPcs,
         from # "out",
         BumpActive(t, from, to)
  PROVE  IndInv'
<1>1. /\ TypeOK /\ pc[t] = from /\ pc' = [pc EXCEPT ![t] = to]
      /\ numActive' = numActive + 1
      /\ UNCHANGED <<writeLockOwner, depth, readers>>
  BY DEF IndInv, BumpActive, Goto
<1>2. TypeOK'
  BY <1>1 DEF TypeOK
<1>3. Cardinality(Counted') = Cardinality(Counted) + 1
  BY <1>1, CountedGrows
<1>4. ActiveCount'
  BY <1>1, <1>3, FiniteCounts DEF IndInv, ActiveCount
<1>5. Writers' = Writers
  BY <1>1, WritersMove DEF Writers, CountedPcs
<1>6. Exclusion' /\ DepthIsWriters'
  BY <1>1, <1>5 DEF IndInv, Exclusion, DepthIsWriters
<1>7. OwnerIsClaimant'
  BY <1>1 DEF IndInv, TypeOK, OwnerIsClaimant, HaveWriteLock
<1>8. ReaderIdle'
  BY <1>1 DEF IndInv, TypeOK, ReaderIdle
<1>9. QED
  BY <1>2, <1>4, <1>6, <1>7, <1>8 DEF IndInv

(* A fetch_sub of _numActive by a thread that is counted, and leaves. *)
LEMMA DropKeeps ==
  ASSUME IndInv, NEW t \in Threads, NEW from \in Pcs, NEW to \in Pcs,
         from \in CountedPcs, to \notin CountedPcs, from # "writing",
         from \notin OwnerPcs, to \notin OwnerPcs,
         from \in TrywrlockPcs => to = "out",
         DropActive(t, from, to)
  PROVE  IndInv'
<1>1. /\ TypeOK /\ pc[t] = from /\ pc' = [pc EXCEPT ![t] = to]
      /\ numActive' = numActive - 1
      /\ UNCHANGED <<writeLockOwner, depth, readers>>
  BY DEF IndInv, DropActive, Goto
<1>2. /\ Cardinality(Counted') = Cardinality(Counted) - 1
      /\ Cardinality(Counted') \in Nat
  BY <1>1, CountedShrinks
<1>3. ActiveCount'
  BY <1>1, <1>2, FiniteCounts DEF IndInv, ActiveCount
<1>4. numActive' \in Nat
  BY <1>1, <1>2, <1>3, FiniteCounts DEF ActiveCount
<1>5. TypeOK'
  BY <1>1, <1>4 DEF TypeOK
<1>6. Writers' = Writers
  BY <1>1, WritersMove DEF Writers, CountedPcs, OwnerPcs
<1>7. Exclusion' /\ DepthIsWriters'
  BY <1>1, <1>6 DEF IndInv, Exclusion, DepthIsWriters
<1>8. OwnerIsClaimant'
  BY <1>1 DEF IndInv, TypeOK, OwnerIsClaimant, HaveWriteLock
<1>9. ReaderIdle'
  BY <1>1 DEF IndInv, TypeOK, ReaderIdle, TrywrlockPcs, CountedPcs
<1>10. QED
  BY <1>3, <1>5, <1>7, <1>8, <1>9 DEF IndInv

(* The beginning of a call, or the end of a wait: only the pc changes. *)
LEMMA MoveKeeps ==
  ASSUME IndInv, NEW t \in Threads, NEW from \in Pcs, NEW to \in Pcs,
         from \notin CountedPcs, to \notin CountedPcs,
         from \notin OwnerPcs, to \notin OwnerPcs,
         t \notin readers,
         Goto(t, from, to),
         UNCHANGED <<writeLockOwner, depth, numActive, readers>>
  PROVE  IndInv'
<1>1. /\ TypeOK /\ pc[t] = from /\ pc' = [pc EXCEPT ![t] = to]
  BY DEF IndInv, Goto
<1>2. TypeOK'
  BY <1>1 DEF TypeOK
<1>3. Counted' = Counted
  BY <1>1, CountedStays
<1>4. Writers' = Writers
  BY <1>1, WritersMove DEF Writers, OwnerPcs
<1>5. ActiveCount' /\ Exclusion' /\ DepthIsWriters'
  BY <1>3, <1>4 DEF IndInv, ActiveCount, Exclusion, DepthIsWriters
<1>6. OwnerIsClaimant' /\ ReaderIdle'
  BY <1>1 DEF IndInv, TypeOK, OwnerIsClaimant, HaveWriteLock, ReaderIdle
<1>7. QED
  BY <1>2, <1>5, <1>6 DEF IndInv

(* The second look at the owner word: a new reader, or a retreat. *)
LEMMA RecheckKeeps ==
  ASSUME IndInv, NEW t \in Threads, NEW from \in Pcs, NEW undo \in Pcs,
         from \in {"rd_check", "tryrd_check"}, undo \in {"rd_undo", "tryrd_undo"},
         RecheckOwner(t, from, undo)
  PROVE  IndInv'
<1>1. TypeOK /\ pc[t] = from /\ t \notin readers
  BY DEF IndInv, RecheckOwner, Goto, ReaderIdle, TrywrlockPcs
<1>2. "out" \in Pcs /\ from \in CountedPcs /\ undo \in CountedPcs /\ "out" \notin CountedPcs
  BY DEF Pcs, CountedPcs
<1>3. CASE writeLockOwner = NoThread
  <2>1. /\ pc' = [pc EXCEPT ![t] = "out"]
        /\ readers' = readers \union {t}
        /\ UNCHANGED <<writeLockOwner, depth, numActive>>
    BY <1>3 DEF RecheckOwner, Goto
  <2>2. TypeOK'
    BY <1>1, <1>2, <2>1 DEF TypeOK
  <2>3. /\ Cardinality(Counted') = Cardinality(Counted) - 1
        /\ Cardinality(readers') = Cardinality(readers) + 1
    BY <1>1, <1>2, <2>1, CountedShrinks, FiniteCounts, FS_AddElement
  <2>4. ActiveCount'
    BY <1>1, <2>1, <2>3, FiniteCounts DEF IndInv, ActiveCount
  <2>5. Writers = {}
    BY <1>3, LockAssumption
      DEF IndInv, TypeOK, OwnerIsClaimant, HaveWriteLock, Writers, OwnerPcs
  <2>6. Writers' = {}
    BY <1>1, <1>2, <2>1, <2>5, WritersMove
  <2>7. Exclusion' /\ DepthIsWriters'
    BY <2>1, <2>5, <2>6 DEF IndInv, Exclusion, DepthIsWriters
  <2>8. OwnerIsClaimant'
    BY <1>1, <2>1 DEF IndInv, TypeOK, OwnerIsClaimant, HaveWriteLock, OwnerPcs
  <2>9. ReaderIdle'
    BY <1>1, <2>1 DEF IndInv, TypeOK, ReaderIdle
  <2>10. QED
    BY <2>2, <2>4, <2>7, <2>8, <2>9 DEF IndInv
<1>4. CASE writeLockOwner # NoThread
  <2>1. /\ pc' = [pc EXCEPT ![t] = undo]
        /\ UNCHANGED <<writeLockOwner, depth, numActive, readers>>
    BY <1>4 DEF RecheckOwner, Goto
  <2>2. TypeOK'
    BY <1>1, <2>1 DEF TypeOK
  <2>3. Counted' = Counted
    BY <1>1, <1>2, <2>1, CountedStays
  <2>4. Writers' = Writers
    BY <1>1, <2>1, WritersMove DEF Writers
  <2>5. ActiveCount' /\ Exclusion' /\ DepthIsWriters'
    BY <2>1, <2>3, <2>4 DEF IndInv, ActiveCount, Exclusion, DepthIsWriters
  <2>6. OwnerIsClaimant' /\ ReaderIdle'
    BY <1>1, <2>1 DEF IndInv, TypeOK, OwnerIsClaimant, HaveWriteLock, OwnerPcs, ReaderIdle
  <2>7. QED
    BY <2>2, <2>5, <2>6 DEF IndInv
<1>5. QED
  BY <1>3, <1>4

(* The compare_exchange that installs an owner. *)
LEMMA ClaimKeeps ==
  ASSUME IndInv, NEW t \in Threads, NEW from \in Pcs, NEW to \in Pcs,
         from \in {"wr_cas", "out"}, to \in {"wr_add", "trywr_add"},
         from = "wr_cas" <=> to = "wr_add",
         ClaimOwner(t, from, to)
  PROVE  IndInv'
<1>1. /\ TypeOK /\ pc[t] = from /\ pc' = [pc EXCEPT ![t] = to]
      /\ writeLockOwner = NoThread /\ writeLockOwner' = t
      /\ UNCHANGED <<depth, numActive, readers>>
  BY DEF IndInv, ClaimOwner, Goto
<1>2. TypeOK'
  BY <1>1 DEF TypeOK
<1>3. Counted' = Counted
  BY <1>1, CountedStays DEF CountedPcs
<1>4. Writers' = Writers
  BY <1>1, WritersMove DEF Writers
<1>5. ActiveCount' /\ Exclusion' /\ DepthIsWriters'
  BY <1>1, <1>3, <1>4 DEF IndInv, ActiveCount, Exclusion, DepthIsWriters
<1>6. \A u \in Threads : pc[u] \notin OwnerPcs
  BY <1>1, LockAssumption DEF IndInv, OwnerIsClaimant, HaveWriteLock
<1>7. OwnerIsClaimant'
  BY <1>1, <1>6 DEF TypeOK, OwnerIsClaimant, HaveWriteLock, OwnerPcs
<1>8. ReaderIdle'
  BY <1>1 DEF IndInv, TypeOK, ReaderIdle, TrywrlockPcs
<1>9. QED
  BY <1>2, <1>5, <1>7, <1>8 DEF IndInv

(* The writer gives the owner word back, or a failed trywrlock does. *)
LEMMA ClearKeeps ==
  ASSUME IndInv, NEW t \in Threads,
         writeLockOwner' = NoThread,
         \/ Goto(t, "trywr_clear", "trywr_undo")
         \/ Goto(t, "writing", "ul_sub") /\ depth = 0,
         UNCHANGED <<depth, numActive, readers>>
  PROVE  IndInv'
<1> DEFINE to == IF pc[t] = "writing" THEN "ul_sub" ELSE "trywr_undo"
<1>1. /\ TypeOK /\ pc' = [pc EXCEPT ![t] = to] /\ to \in Pcs
      /\ pc[t] \in {"trywr_clear", "writing"}
      /\ pc[t] = "writing" => depth = 0
  BY DEF IndInv, Goto, Pcs, TrywrlockPcs
<1>2. TypeOK'
  BY <1>1 DEF TypeOK
<1>3. Counted' = Counted
  BY <1>1, CountedStays DEF CountedPcs
<1>4. Writers' = Writers \ {t}
  BY <1>1, WritersMove
<1>5. ActiveCount' /\ Exclusion'
  BY <1>3, <1>4 DEF IndInv, ActiveCount, Exclusion
<1>6. DepthIsWriters'
  BY <1>1, <1>4 DEF IndInv, DepthIsWriters, Writers
<1>7. \A u \in Threads : u # t => pc[u] \notin OwnerPcs
  BY <1>1 DEF IndInv, OwnerIsClaimant, HaveWriteLock, OwnerPcs
<1>8. OwnerIsClaimant'
  BY <1>1, <1>7, LockAssumption DEF TypeOK, OwnerIsClaimant, HaveWriteLock, OwnerPcs
<1>9. readers' = readers /\ (pc[t] = "writing" => t \notin readers)
  BY <1>1 DEF IndInv, ReaderIdle, TrywrlockPcs
<1>10. ReaderIdle'
  BY <1>1, <1>9 DEF IndInv, TypeOK, ReaderIdle, TrywrlockPcs
<1>11. QED
  BY <1>2, <1>5, <1>6, <1>8, <1>10 DEF IndInv

(* The writer nests, or undoes a nested lock. *)
LEMMA DepthKeeps ==
  ASSUME IndInv, NEW t \in Threads, LockNested(t) \/ UnlockNested(t)
  PROVE  IndInv'
<1>1. /\ UNCHANGED <<writeLockOwner, numActive, readers, pc>>
      /\ t \in Writers
  BY DEF LockNested, UnlockNested, Writers
<1>2. depth' \in Nat
  BY DEF IndInv, TypeOK, LockNested, UnlockNested
<1>3. QED
  BY <1>1, <1>2
    DEF IndInv, TypeOK, ActiveCount, Counted, Exclusion, Writers, OwnerIsClaimant,
        HaveWriteLock, DepthIsWriters, ReaderIdle

(* wrlock() stops waiting. *)
LEMMA WrlockWaitKeeps ==
  ASSUME IndInv, NEW t \in Threads, WrlockWait(t)
  PROVE  IndInv'
<1>1. /\ TypeOK /\ pc[t] = "wr_wait" /\ pc' = [pc EXCEPT ![t] = "writing"]
      /\ numActive <= 1 /\ "writing" \in Pcs
      /\ UNCHANGED <<writeLockOwner, depth, numActive, readers>>
  BY DEF IndInv, WrlockWait, Goto, Pcs
<1>2. t \in Counted
  BY <1>1 DEF Counted, CountedPcs
<1>3. readers = {} /\ Counted = {t}
  BY <1>1, <1>2, OnlyActive DEF IndInv
<1>4. TypeOK'
  BY <1>1 DEF TypeOK
<1>5. Counted' = Counted
  BY <1>1, CountedStays DEF CountedPcs
<1>6. Writers \subseteq Counted
  BY DEF Writers, Counted, CountedPcs
<1>7. Writers' = {t}
  BY <1>1, <1>3, <1>6, WritersMove
<1>8. ActiveCount' /\ Exclusion' /\ DepthIsWriters'
  BY <1>1, <1>3, <1>5, <1>7 DEF IndInv, ActiveCount, Exclusion, DepthIsWriters
<1>9. OwnerIsClaimant' /\ ReaderIdle'
  BY <1>1, <1>3 DEF IndInv, TypeOK, OwnerIsClaimant, HaveWriteLock, OwnerPcs, ReaderIdle
<1>10. QED
  BY <1>4, <1>8, <1>9 DEF IndInv

(* trywrlock() counts itself, and owns the lock if it is the first. *)
LEMMA TrywrlockAddKeeps ==
  ASSUME IndInv, NEW t \in Threads, TrywrlockAdd(t)
  PROVE  IndInv'
<1>1. CASE numActive # 0
  <2>1. BumpActive(t, "trywr_add", "trywr_clear")
    BY <1>1 DEF TrywrlockAdd
  <2>2. /\ {"trywr_add", "trywr_clear"} \subseteq Pcs
        /\ "trywr_add" \notin CountedPcs /\ "trywr_clear" \in CountedPcs
        /\ {"trywr_add", "trywr_clear"} \subseteq OwnerPcs
        /\ "trywr_clear" \in TrywrlockPcs
    BY DEF Pcs, CountedPcs, OwnerPcs, TrywrlockPcs
  <2>3. QED
    BY <2>1, <2>2, BumpKeeps
<1>2. CASE numActive = 0
  <2>1. /\ TypeOK /\ pc[t] = "trywr_add" /\ pc' = [pc EXCEPT ![t] = "writing"]
        /\ numActive' = numActive + 1 /\ "writing" \in Pcs
        /\ UNCHANGED <<writeLockOwner, depth, readers>>
    BY <1>2 DEF IndInv, TrywrlockAdd, BumpActive, Goto, Pcs
  <2>2. readers = {} /\ Counted = {}
    BY <1>2, <2>1, NoneActive DEF IndInv
  <2>3. TypeOK'
    BY <2>1 DEF TypeOK
  <2>4. Cardinality(Counted') = Cardinality(Counted) + 1
    BY <2>1, CountedGrows DEF CountedPcs
  <2>5. Writers \subseteq Counted
    BY DEF Writers, Counted, CountedPcs
  <2>6. Writers' = {t}
    BY <2>1, <2>2, <2>5, WritersMove
  <2>7. ActiveCount'
    BY <2>1, <2>4, FiniteCounts DEF IndInv, ActiveCount
  <2>8. Exclusion' /\ DepthIsWriters'
    BY <2>1, <2>2, <2>6 DEF Exclusion, DepthIsWriters
  <2>9. OwnerIsClaimant' /\ ReaderIdle'
    BY <2>1, <2>2 DEF IndInv, TypeOK, OwnerIsClaimant, HaveWriteLock, OwnerPcs, ReaderIdle
  <2>10. QED
    BY <2>3, <2>7, <2>8, <2>9 DEF IndInv
<1>3. QED
  BY <1>1, <1>2

(* A reader unlocks. *)
LEMMA UnlockReadKeeps ==
  ASSUME IndInv, NEW t \in Threads, UnlockRead(t)
  PROVE  IndInv'
<1>1. /\ TypeOK /\ t \in readers /\ readers' = readers \ {t}
      /\ numActive' = numActive - 1
      /\ UNCHANGED <<writeLockOwner, depth, pc>>
  BY DEF IndInv, UnlockRead
<1>2. /\ IsFiniteSet(readers')
      /\ Cardinality(readers') = Cardinality(readers) - 1
  BY <1>1, FiniteCounts, FS_RemoveElement
<1>3. Cardinality(readers') \in Nat
  BY <1>2, FS_CardinalityType
<1>4. Counted' = Counted /\ Writers' = Writers
  BY <1>1 DEF Counted, Writers
<1>5. ActiveCount'
  BY <1>1, <1>2, <1>4, FiniteCounts DEF IndInv, ActiveCount
<1>6. TypeOK'
  BY <1>1, <1>3, <1>4, <1>5, FiniteCounts DEF TypeOK, ActiveCount
<1>7. Exclusion' /\ DepthIsWriters'
  BY <1>1, <1>4 DEF IndInv, Exclusion, DepthIsWriters
<1>8. OwnerIsClaimant' /\ ReaderIdle'
  BY <1>1 DEF IndInv, OwnerIsClaimant, HaveWriteLock, ReaderIdle
<1>9. QED
  BY <1>5, <1>6, <1>7, <1>8 DEF IndInv

-------------------------------------------------------------------------------
(* The invariant *)

(* In the initial state nobody is in a call and every word is zero. *)
LEMMA InitInv == Init => IndInv
<1> SUFFICES ASSUME Init PROVE IndInv
  OBVIOUS
<1>1. TypeOK
  BY DEF Init, TypeOK, Pcs
<1>2. Counted = {} /\ Writers = {}
  BY DEF Init, Counted, Writers, CountedPcs
<1>3. ActiveCount
  BY <1>2, FS_EmptySet DEF Init, ActiveCount
<1>4. Exclusion /\ DepthIsWriters /\ ReaderIdle
  BY <1>2 DEF Init, Exclusion, DepthIsWriters, ReaderIdle
<1>5. OwnerIsClaimant
  BY LockAssumption DEF Init, OwnerIsClaimant, HaveWriteLock, OwnerPcs
<1>6. QED
  BY <1>1, <1>3, <1>4, <1>5 DEF IndInv

(* Every step of every call preserves it. *)
LEMMA NextInv == IndInv /\ [Next]_vars => IndInv'
<1> SUFFICES ASSUME IndInv, [Next]_vars PROVE IndInv'
  OBVIOUS
<1> USE DEF Pcs, RdlockPcs, TryrdlockPcs, WrlockPcs, TrywrlockPcs, CountedPcs, OwnerPcs
<1>1. CASE UNCHANGED vars
  BY <1>1
    DEF vars, IndInv, TypeOK, ActiveCount, Counted, Exclusion, Writers, OwnerIsClaimant,
        HaveWriteLock, DepthIsWriters, ReaderIdle
<1>2. ASSUME NEW t \in Threads, Call(t) PROVE IndInv'
  <2>1. CASE RdlockCall(t)
    BY <2>1, MoveKeeps DEF RdlockCall, HoldsNothing
  <2>2. CASE TryrdlockCall(t)
    BY <2>2, MoveKeeps DEF TryrdlockCall, HoldsNothing
  <2>3. CASE WrlockCall(t)
    BY <2>3, MoveKeeps DEF WrlockCall, HoldsNothing
  <2>4. CASE TrywrlockCas(t)
    BY <2>4, ClaimKeeps DEF TrywrlockCas
  <2>5. CASE LockNested(t)
    BY <2>5, DepthKeeps
  <2>6. QED
    BY <1>2, <2>1, <2>2, <2>3, <2>4, <2>5 DEF Call
<1>3. ASSUME NEW t \in Threads, Step(t) PROVE IndInv'
  <2>1. CASE RdlockWait(t)
    <3>1. t \notin readers
      BY <2>1 DEF RdlockWait, Goto, IndInv, ReaderIdle
    <3>2. QED
      BY <2>1, <3>1, MoveKeeps DEF RdlockWait
  <2>2. CASE RdlockAdd(t)
    BY <2>2, BumpKeeps DEF RdlockAdd
  <2>3. CASE RdlockCheck(t)
    BY <2>3, RecheckKeeps DEF RdlockCheck
  <2>4. CASE RdlockUndo(t)
    BY <2>4, DropKeeps DEF RdlockUndo
  <2>5. CASE TryrdlockAdd(t)
    BY <2>5, BumpKeeps DEF TryrdlockAdd
  <2>6. CASE TryrdlockCheck(t)
    BY <2>6, RecheckKeeps DEF TryrdlockCheck
  <2>7. CASE TryrdlockUndo(t)
    BY <2>7, DropKeeps DEF TryrdlockUndo
  <2>8. CASE WrlockCas(t)
    BY <2>8, ClaimKeeps DEF WrlockCas
  <2>9. CASE WrlockAdd(t)
    BY <2>9, BumpKeeps DEF WrlockAdd
  <2>10. CASE WrlockWait(t)
    BY <2>10, WrlockWaitKeeps
  <2>11. CASE TrywrlockAdd(t)
    BY <2>11, TrywrlockAddKeeps
  <2>12. CASE TrywrlockClear(t)
    BY <2>12, ClearKeeps DEF TrywrlockClear
  <2>13. CASE TrywrlockUndo(t)
    BY <2>13, DropKeeps DEF TrywrlockUndo
  <2>14. CASE UnlockSub(t)
    BY <2>14, DropKeeps DEF UnlockSub
  <2>15. QED
    BY <1>3, <2>1, <2>2, <2>3, <2>4, <2>5, <2>6, <2>7, <2>8, <2>9, <2>10, <2>11, <2>12,
       <2>13, <2>14 DEF Step
<1>4. ASSUME NEW t \in Threads, Unlock(t) PROVE IndInv'
  <2>1. CASE UnlockNested(t)
    BY <2>1, DepthKeeps
  <2>2. CASE UnlockClear(t)
    BY <2>2, ClearKeeps DEF UnlockClear
  <2>3. CASE UnlockRead(t)
    BY <2>3, UnlockReadKeeps
  <2>4. QED
    BY <1>4, <2>1, <2>2, <2>3 DEF Unlock
<1>5. QED
  BY <1>1, <1>2, <1>3, <1>4 DEF Next

(* IndInv holds in every state of every behaviour. *)
THEOREM Invariance == Spec => []IndInv
BY InitInv, NextInv, PTL DEF Spec

(* The state has its type; in particular _numActive never wraps below zero,*)
(* whichever calls back out. *)
THEOREM TypeCorrect == Spec => []TypeOK
BY Invariance, PTL DEF IndInv

(* A thread that wrlock() or trywrlock() gave the lock is alone: "a writer *)
(* must have exclusive access". *)
THEOREM MutualExclusion == Spec => []Exclusion
BY Invariance, PTL DEF IndInv

(* _numActive is exact: no path of any call leaks or drops a count. *)
THEOREM ActiveCountExact == Spec => []ActiveCount
BY Invariance, PTL DEF IndInv

(* _writeLockOwner and _depth belong to the thread that claimed the lock:  *)
(* haveWriteLock() answers for the right thread. *)
THEOREM OwnerExact == Spec => [](OwnerIsClaimant /\ DepthIsWriters)
BY Invariance, PTL DEF IndInv

-------------------------------------------------------------------------------
(* The refinement: what RWlockSpec calls the writer is the thread whose    *)
(* wrlock() or trywrlock() has returned                                    *)

(* AbsWriter is well defined: there is at most one writer. *)
LEMMA WriterUnique ==
  ASSUME IndInv
  PROVE  /\ \A w \in Threads : AbsWriter = w <=> w \in Writers
         /\ AbsWriter = NoThread <=> Writers = {}
<1>1. CASE Writers = {}
  BY <1>1, LockAssumption DEF AbsWriter
<1>2. CASE Writers # {}
  <2>1. PICK w \in Threads : Writers = {w}
    BY <1>2 DEF IndInv, Exclusion, Writers
  <2>2. AbsWriter = w
    BY <2>1 DEF AbsWriter
  <2>3. QED
    BY <2>1, <2>2, LockAssumption
<1>3. QED
  BY <1>1, <1>2

(* A step that leaves the writers, the readers and the depth alone is a    *)
(* stutter of the abstract lock. *)
LEMMA InvisibleStep ==
  ASSUME Writers' = Writers, UNCHANGED <<readers, depth>>
  PROVE  UNCHANGED Abs!absVars
BY DEF Abs!absVars, AbsWriter

(* A move between two places neither of which is "writing". *)
LEMMA InvisibleMove ==
  ASSUME IndInv, NEW t \in Threads, NEW to \in Pcs,
         pc' = [pc EXCEPT ![t] = to], pc[t] # "writing", to # "writing",
         UNCHANGED <<readers, depth>>
  PROVE  UNCHANGED Abs!absVars
<1>1. Writers' = Writers
  BY WritersMove DEF IndInv, Writers
<1>2. QED
  BY <1>1, InvisibleStep

(* The abstract lock is free when the concrete one starts. *)
LEMMA InitRefines == Init => Abs!AbsInit
BY DEF Init, Abs!AbsInit, AbsWriter, Writers

(* The second look at the owner word is where a read lock is granted. *)
LEMMA RecheckRefines ==
  ASSUME IndInv, IndInv', NEW t \in Threads, NEW from \in Pcs, NEW undo \in Pcs,
         from # "writing", undo # "writing", RecheckOwner(t, from, undo)
  PROVE  [Abs!AbsNext]_(Abs!absVars)
<1>1. CASE writeLockOwner = NoThread
  <2>1. /\ Writers = {} /\ Writers' = {}
        /\ readers' = readers \union {t} /\ UNCHANGED depth
    BY <1>1, LockAssumption, WritersMove
      DEF IndInv, RecheckOwner, Goto, TypeOK, OwnerIsClaimant, HaveWriteLock, Writers,
          OwnerPcs, Pcs
  <2>2. Abs!AcquireRead(t)
    BY <2>1 DEF Abs!AcquireRead, AbsWriter
  <2>3. QED
    BY <2>2 DEF Abs!AbsNext
<1>2. CASE writeLockOwner # NoThread
  BY <1>2, InvisibleMove DEF RecheckOwner, Goto
<1>3. QED
  BY <1>1, <1>2

(* wrlock() and trywrlock() are granted the write lock when they become    *)
(* writers. *)
LEMMA GrantRefines ==
  ASSUME IndInv, IndInv', NEW t \in Threads, pc' = [pc EXCEPT ![t] = "writing"],
         Writers = {}, readers = {}, UNCHANGED <<readers, depth>>
  PROVE  Abs!AbsNext
<1>1. AbsWriter = NoThread
  BY DEF AbsWriter
<1>2. t \in Writers'
  BY DEF IndInv, TypeOK, Writers
<1>3. AbsWriter' = t
  <2>1. Writers' = {t}
    BY <1>2, WritersMove DEF IndInv, Pcs
  <2>2. QED
    BY <2>1 DEF AbsWriter
<1>4. Abs!AcquireWrite(t)
  BY <1>1, <1>3 DEF Abs!AcquireWrite
<1>5. QED
  BY <1>4 DEF Abs!AbsNext

(* Every step of every call is a step of the abstract lock or a stutter. *)
LEMMA NextRefines == IndInv /\ IndInv' /\ [Next]_vars => [Abs!AbsNext]_(Abs!absVars)
<1> SUFFICES ASSUME IndInv, IndInv', [Next]_vars PROVE [Abs!AbsNext]_(Abs!absVars)
  OBVIOUS
<1> USE DEF Pcs, RdlockPcs, TryrdlockPcs, WrlockPcs, TrywrlockPcs
<1>1. CASE UNCHANGED vars
  <2>1. Writers' = Writers /\ UNCHANGED <<readers, depth>>
    BY <1>1 DEF vars, Writers
  <2>2. QED
    BY <2>1, InvisibleStep
<1>2. ASSUME NEW t \in Threads, Call(t) PROVE [Abs!AbsNext]_(Abs!absVars)
  <2>1. CASE LockNested(t)
    <3>1. /\ AbsWriter = t /\ AbsWriter' = AbsWriter
          /\ readers' = readers /\ depth' = depth + 1
      BY <2>1, WriterUnique DEF LockNested, Writers, AbsWriter
    <3>2. Abs!AcquireNested(t)
      BY <3>1 DEF Abs!AcquireNested
    <3>3. QED
      BY <3>2 DEF Abs!AbsNext
  <2>2. CASE RdlockCall(t) \/ TryrdlockCall(t) \/ WrlockCall(t) \/ TrywrlockCas(t)
    BY <2>2, InvisibleMove
      DEF RdlockCall, TryrdlockCall, WrlockCall, TrywrlockCas, ClaimOwner, Goto
  <2>3. QED
    BY <1>2, <2>1, <2>2 DEF Call
<1>3. ASSUME NEW t \in Threads, Step(t) PROVE [Abs!AbsNext]_(Abs!absVars)
  <2>1. CASE RdlockWait(t) \/ WrlockCas(t) \/ TrywrlockClear(t)
    BY <2>1, InvisibleMove DEF RdlockWait, WrlockCas, ClaimOwner, TrywrlockClear, Goto
  <2>2. CASE RdlockAdd(t) \/ TryrdlockAdd(t) \/ WrlockAdd(t)
    BY <2>2, InvisibleMove DEF RdlockAdd, TryrdlockAdd, WrlockAdd, BumpActive, Goto
  <2>3. CASE RdlockUndo(t) \/ TryrdlockUndo(t) \/ TrywrlockUndo(t) \/ UnlockSub(t)
    BY <2>3, InvisibleMove
      DEF RdlockUndo, TryrdlockUndo, TrywrlockUndo, UnlockSub, DropActive, Goto
  <2>4. CASE RdlockCheck(t)
    BY <2>4, RecheckRefines DEF RdlockCheck
  <2>5. CASE TryrdlockCheck(t)
    BY <2>5, RecheckRefines DEF TryrdlockCheck
  <2>6. CASE WrlockWait(t)
    <3>1. t \in Counted /\ numActive <= 1 /\ pc[t] = "wr_wait"
      BY <2>6 DEF WrlockWait, Goto, Counted, CountedPcs
    <3>2. readers = {} /\ Counted = {t}
      BY <3>1, OnlyActive DEF IndInv
    <3>3. Writers = {}
      BY <3>1, <3>2 DEF Writers, Counted, CountedPcs
    <3>4. QED
      BY <2>6, <3>2, <3>3, GrantRefines DEF WrlockWait, Goto
  <2>7. CASE TrywrlockAdd(t) /\ numActive = 0
    <3>1. readers = {} /\ Counted = {}
      BY <2>7, NoneActive DEF IndInv
    <3>2. Writers = {}
      BY <3>1 DEF Writers, Counted, CountedPcs
    <3>3. QED
      BY <2>7, <3>1, <3>2, GrantRefines DEF TrywrlockAdd, BumpActive, Goto
  <2>8. CASE TrywrlockAdd(t) /\ numActive # 0
    BY <2>8, InvisibleMove DEF TrywrlockAdd, BumpActive, Goto
  <2>9. QED
    BY <1>3, <2>1, <2>2, <2>3, <2>4, <2>5, <2>6, <2>7, <2>8 DEF Step
<1>4. ASSUME NEW t \in Threads, Unlock(t) PROVE [Abs!AbsNext]_(Abs!absVars)
  <2>1. CASE UnlockNested(t)
    <3>1. /\ AbsWriter = t /\ AbsWriter' = AbsWriter
          /\ readers' = readers /\ depth > 0 /\ depth' = depth - 1
      BY <2>1, WriterUnique DEF UnlockNested, Writers, AbsWriter
    <3>2. Abs!ReleaseNested(t)
      BY <3>1 DEF Abs!ReleaseNested
    <3>3. QED
      BY <3>2 DEF Abs!AbsNext
  <2>2. CASE UnlockClear(t)
    <3>1. AbsWriter = t /\ Writers = {t}
      BY <2>2, WriterUnique DEF UnlockClear, Goto, IndInv, Exclusion, Writers
    <3>2. Writers' = {}
      BY <2>2, <3>1 DEF UnlockClear, Goto, IndInv, TypeOK, Writers
    <3>3. /\ AbsWriter' = NoThread /\ depth = 0
          /\ UNCHANGED <<readers, depth>>
      BY <2>2, <3>2 DEF AbsWriter, UnlockClear
    <3>4. Abs!ReleaseWrite(t)
      BY <3>1, <3>3 DEF Abs!ReleaseWrite
    <3>5. QED
      BY <3>4 DEF Abs!AbsNext
  <2>3. CASE UnlockRead(t)
    <3>1. AbsWriter' = AbsWriter
      BY <2>3 DEF UnlockRead, AbsWriter, Writers
    <3>2. Abs!ReleaseRead(t)
      BY <2>3, <3>1 DEF UnlockRead, Abs!ReleaseRead
    <3>3. QED
      BY <3>2 DEF Abs!AbsNext
  <2>4. QED
    BY <1>4, <2>1, <2>2, <2>3 DEF Unlock
<1>5. QED
  BY <1>1, <1>2, <1>3, <1>4 DEF Next

(* RWlockLF implements the atomic read/write lock: every interleaving of   *)
(* its atomic operations looks to the callers as if each call took effect  *)
(* at one moment. *)
THEOREM Refinement == Spec => ImplementsRWlock
<1>1. Init => Abs!AbsInit
  BY InitRefines
<1>2. IndInv /\ IndInv' /\ [Next]_vars => [Abs!AbsNext]_(Abs!absVars)
  BY NextRefines
<1>3. QED
  BY <1>1, <1>2, Invariance, PTL DEF Spec, ImplementsRWlock, Abs!AbsSpec

===============================================================================
