---------------------------- MODULE NetServerProofs ----------------------------
(***************************************************************************)
(* What is proved of utl::NetServer on Linux, for any number of threads,   *)
(* connections, places and parked threads and any number of clients per    *)
(* thread: the safety properties of NetServer.tla, from the inductive      *)
(* invariant IndInv; SlotFree only where the slots are enough (RoomInv).   *)
(***************************************************************************)
EXTENDS NetServer, FiniteSetTheorems, SequenceTheorems, TLAPS

-------------------------------------------------------------------------------
(* The queues *)

(* What a queue holds when an element joins it. *)
LEMMA Appended ==
  ASSUME NEW S, NEW s \in Seq(S), NEW e \in S
  PROVE  /\ Append(s, e) \in Seq(S) /\ Append(s, e) # <<>>
         /\ Range(Append(s, e)) = Range(s) \union {e}
         /\ IsInjective(s) /\ e \notin Range(s) => IsInjective(Append(s, e))
<1>1. /\ Append(s, e) \in Seq(S) /\ Append(s, e) # <<>>
      /\ Len(Append(s, e)) = Len(s) + 1 /\ Len(s) \in Nat
      /\ \A i \in 1..Len(s) : Append(s, e)[i] = s[i]
      /\ Append(s, e)[Len(s) + 1] = e
  BY AppendProperties, LenProperties
<1>2. /\ DOMAIN s = 1..Len(s) /\ DOMAIN Append(s, e) = 1..(Len(s) + 1)
  BY <1>1, LenProperties
<1>3. Range(Append(s, e)) = Range(s) \union {e}
  BY <1>1, <1>2 DEF Range
<1>4. ASSUME IsInjective(s), e \notin Range(s) PROVE IsInjective(Append(s, e))
  BY <1>1, <1>2, <1>4 DEF Range, IsInjective
<1>5. QED
  BY <1>1, <1>3, <1>4

(* What a queue holds when its first element leaves. *)
LEMMA Taken ==
  ASSUME NEW S, NEW s \in Seq(S), s # <<>>
  PROVE  /\ Head(s) \in S /\ Head(s) \in Range(s) /\ Tail(s) \in Seq(S)
         /\ IsInjective(s) => IsInjective(Tail(s)) /\ Range(Tail(s)) = Range(s) \ {Head(s)}
<1>1. /\ Head(s) \in S /\ Tail(s) \in Seq(S) /\ Len(Tail(s)) = Len(s) - 1
      /\ \A i \in 1..Len(Tail(s)) : Tail(s)[i] = s[i + 1]
      /\ Len(s) \in Nat \ {0} /\ Head(s) = s[1]
  BY HeadTailProperties, LenProperties, EmptySeq
<1>2. DOMAIN s = 1..Len(s) /\ DOMAIN Tail(s) = 1..(Len(s) - 1)
  BY <1>1, LenProperties
<1>3. Head(s) \in Range(s)
  BY <1>1, <1>2 DEF Range
<1>4. ASSUME IsInjective(s) PROVE IsInjective(Tail(s)) /\ Range(Tail(s)) = Range(s) \ {Head(s)}
  <2>1. IsInjective(Tail(s))
    BY <1>1, <1>2, <1>4 DEF IsInjective
  <2>2. ASSUME NEW i \in 1..Len(s), i # 1 PROVE s[i] \in Range(Tail(s)) /\ s[i] # Head(s)
    <3>1. i - 1 \in 1..(Len(s) - 1) /\ Tail(s)[i - 1] = s[i]
      BY <1>1, <2>2
    <3>2. s[i] \in Range(Tail(s))
      BY <3>1, <1>2 DEF Range
    <3>3. s[i] # s[1]
      BY <1>1, <1>2, <1>4, <2>2 DEF IsInjective
    <3>4. QED
      BY <3>2, <3>3, <1>1
  <2>3. ASSUME NEW i \in 1..(Len(s) - 1) PROVE Tail(s)[i] \in Range(s) /\ Tail(s)[i] # Head(s)
    <3>1. i + 1 \in 1..Len(s) /\ Tail(s)[i] = s[i + 1] /\ i + 1 # 1
      BY <1>1, <2>3
    <3>2. QED
      BY <3>1, <1>1, <1>2, <1>4 DEF Range, IsInjective
  <2>4. QED
    BY <2>1, <2>2, <2>3, <1>1, <1>2 DEF Range
<1>5. QED
  BY <1>1, <1>3, <1>4

(* An empty queue. *)
LEMMA NoneLeft ==
  ASSUME NEW S
  PROVE  <<>> \in Seq(S) /\ IsInjective(<<>>) /\ Range(<<>>) = {}
BY EmptySeq DEF IsInjective, Range

(* In a queue without repetitions an element is counted once. *)
LEMMA CountedOnce ==
  ASSUME NEW S, NEW s \in Seq(S), IsInjective(s), NEW e
  PROVE  Cardinality({i \in DOMAIN s : s[i] = e}) = IF e \in Range(s) THEN 1 ELSE 0
<1> DEFINE At == {i \in DOMAIN s : s[i] = e}
<1>1. CASE e \in Range(s)
  <2>1. PICK i \in DOMAIN s : At = {i}
    BY <1>1 DEF Range, IsInjective
  <2>2. QED
    BY <1>1, <2>1, FS_Singleton
<1>2. CASE e \notin Range(s)
  <2>1. At = {}
    BY <1>2 DEF Range
  <2>2. QED
    BY <1>2, <2>1, FS_EmptySet
<1>3. QED
  BY <1>1, <1>2

-------------------------------------------------------------------------------
(* The slots *)

(* A set of numbers that is not empty has a least one. *)
LEMMA MinExists ==
  ASSUME NEW S \in SUBSET Nat, S # {}
  PROVE  \E x \in S : \A y \in S : x <= y
<1> DEFINE Below(x) == 0..x
           T == {Below(x) : x \in S}
<1>1. \A x \in S : Below(x) \in FiniteSubsetsOf(Nat)
  BY FS_Interval DEF FiniteSubsetsOf
<1>2. T \subseteq FiniteSubsetsOf(Nat) /\ T # {}
  BY <1>1
<1>3. PICK B \in T : \A C \in T : <<C, B>> \notin StrictSubsetOrdering(Nat)
  BY <1>2, FS_StrictSubsetOrderingWellFounded, WFMin
<1>4. PICK x \in S : B = Below(x)
  OBVIOUS
<1>5. ASSUME NEW y \in S, y < x PROVE FALSE
  <2>1. Below(y) \subseteq Below(x) /\ x \in Below(x) /\ x \notin Below(y)
    BY <1>5
  <2>2. <<Below(y), Below(x)>> \in StrictSubsetOrdering(Nat)
    BY <2>1 DEF StrictSubsetOrdering
  <2>3. QED
    BY <2>2, <1>3, <1>4
<1>6. QED
  BY <1>5

(* The slots are twice the least power of two that is not below clientsMax. *)
LEMMA SizeOfSlots ==
  ASSUME clientsMax \in ClientsMaxes
  PROVE  \E k \in 0..clientsMax : ClientsSize = 2 * 2^k /\ 2^k >= clientsMax /\ 2^k \in Nat
<1> DEFINE Powers == {2^k : k \in 0..clientsMax}
           Enough == {p \in Powers : p >= clientsMax}
           Least == CHOOSE p \in Powers : /\ p >= clientsMax
                                          /\ \A q \in Powers : q >= clientsMax => p <= q
<1>1. clientsMax \in Nat \ {0} /\ Enough \in SUBSET Nat /\ 2^clientsMax \in Enough
  BY NetServerAssumption
<1>2. PICK p \in Enough : \A q \in Enough : p <= q
  <2> HIDE DEF Enough
  <2>1. QED
    BY <1>1, MinExists
<1>3. Least \in Powers /\ Least >= clientsMax
  BY <1>2
<1>4. ClientsSize = 2 * Least
  BY DEF ClientsSize
<1> HIDE DEF Least
<1>5. PICK k \in 0..clientsMax : Least = 2^k
  BY <1>3
<1>6. 2^k \in Nat
  BY NetServerAssumption
<1>7. QED
  BY <1>3, <1>4, <1>5, <1>6

(* So a masked index is one of them. *)
LEMMA SlotsExist ==
  ASSUME clientsMax \in ClientsMaxes
  PROVE  /\ ClientsSize \in Nat \ {0} /\ 0 \in Slots
         /\ \A n \in Nat : n % ClientsSize \in Slots
<1>1. PICK k \in 0..clientsMax : ClientsSize = 2 * 2^k /\ 2^k >= clientsMax /\ 2^k \in Nat
  BY SizeOfSlots
<1>2. ClientsSize \in Nat \ {0}
  BY <1>1, NetServerAssumption
<1>3. \A n \in Nat : n % ClientsSize \in 0..(ClientsSize - 1)
  BY <1>2
<1>4. QED
  BY <1>2, <1>3 DEF Slots

(* init() fixes the slots. *)
LEMMA SlotsStay ==
  ASSUME UNCHANGED clientsMax
  PROVE  UNCHANGED <<ClientsSize, Slots>>
BY DEF ClientsSize, Slots

(* A probe looks at a slot. *)
LEMMA ProbesAreSlots == TypeOK => \A k \in Nat : Probe(k) \in Slots
<1> SUFFICES ASSUME TypeOK, NEW k \in Nat PROVE Probe(k) \in Slots
  OBVIOUS
<1>1. ClientsSize \in Nat \ {0} /\ clientsIndex \in Nat
  BY SlotsExist DEF TypeOK, Slots
<1>2. clientsIndex + 9 * k \in Nat
  BY <1>1
<1>3. QED
  BY <1>2, SlotsExist DEF TypeOK, Probe

(* clientsAdd() puts a thread into a free slot. *)
LEMMA FreeFound ==
  ASSUME TypeOK, FreeProbes # {}
  PROVE  /\ FirstFree \in Nat /\ Probe(FirstFree) \in Slots
         /\ clients[Probe(FirstFree)] = NoThread
         /\ Probe(FirstFree + 1) \in Slots
<1>1. FreeProbes \in SUBSET Nat
  BY SlotsExist DEF TypeOK, FreeProbes
<1>2. FirstFree \in FreeProbes
  BY <1>1, MinExists DEF FirstFree
<1>3. FirstFree \in Nat /\ clients[Probe(FirstFree)] = NoThread
  BY <1>1, <1>2 DEF FreeProbes
<1>4. QED
  BY <1>3, ProbesAreSlots

-------------------------------------------------------------------------------
(* The invariant is inductive *)

(* What the constants are. *)
LEMMA ConstantFacts ==
  /\ SizeMax = -1 /\ NoThread \notin Threads /\ NoConn \notin Conns
  /\ ClientsPerThread \in Nat \ {0} /\ ClientsMaxes \subseteq Nat \ {0}
  /\ IsFiniteSet(Threads) /\ IsFiniteSet(Conns)
BY NetServerAssumption DEF SizeMax

(* What the server finds at the head of a queue. *)
LEMMA QueueHeads ==
  ASSUME TypeOK, Handles, ConnsApart
  PROVE  /\ pipe # <<>> =>
              /\ Head(pipe) \in Threads /\ Head(pipe) \in Range(pipe)
              /\ Tail(pipe) \in Seq(Threads) /\ IsInjective(Tail(pipe))
              /\ Range(Tail(pipe)) = Range(pipe) \ {Head(pipe)}
         /\ queuedThreads # <<>> =>
              /\ Head(queuedThreads) \in Threads /\ Head(queuedThreads) \in Range(queuedThreads)
              /\ Tail(queuedThreads) \in Seq(Threads) /\ IsInjective(Tail(queuedThreads))
              /\ Range(Tail(queuedThreads)) = Range(queuedThreads) \ {Head(queuedThreads)}
         /\ queuedConns # <<>> =>
              /\ Head(queuedConns) \in Conns /\ Head(queuedConns) \in Range(queuedConns)
              /\ Tail(queuedConns) \in Seq(Conns) /\ IsInjective(Tail(queuedConns))
              /\ Range(Tail(queuedConns)) = Range(queuedConns) \ {Head(queuedConns)}
<1>1. /\ pipe \in Seq(Threads) /\ queuedThreads \in Seq(Threads) /\ queuedConns \in Seq(Conns)
      /\ IsInjective(pipe) /\ IsInjective(queuedThreads) /\ IsInjective(queuedConns)
  BY DEF TypeOK, Handles, ConnsApart
<1>2. QED
  BY <1>1, Taken

(* It holds when init() has returned. *)
LEMMA IndInvInit == Init => IndInv
<1> SUFFICES ASSUME Init PROVE IndInv
  OBVIOUS
<1>1. ClientsSize \in Nat \ {0} /\ 0 \in Slots
  BY SlotsExist DEF Init
<1>2. TypeOK
  <2>1. queuedConns \in Seq(Conns) /\ queuedThreads \in Seq(Threads) /\ pipe \in Seq(Threads)
    BY NoneLeft DEF Init
  <2>2. /\ numClients \in [Threads -> {SizeMax} \union 0..ClientsPerThread]
        /\ markAt \in 0..ClientsSize
    BY <1>1, ConstantFacts DEF Init
  <2>3. QED
    BY <1>1, <2>1, <2>2 DEF Init, TypeOK, ServerPcs, ThreadPcs
<1>3. /\ Range(pipe) = {} /\ Range(queuedThreads) = {} /\ Range(queuedConns) = {}
      /\ IsInjective(pipe) /\ IsInjective(queuedThreads) /\ IsInjective(queuedConns)
  BY NoneLeft DEF Init
<1>4. StopKnown /\ Hand /\ MarkedParked /\ QueueWaits
  BY ConstantFacts DEF Init, StopKnown, Quiet, Hand, MarkedParked, QueueWaits
<1>5. Handles
  BY <1>3, ConstantFacts DEF Init, Handles, Held
<1>6. SlotsExact
  BY <1>1, ConstantFacts DEF Init, SlotsExact, Alive
<1>7. Errands
  BY ConstantFacts DEF Init, Errands, Errand, QuietErrand
<1>8. PlacesCounted
  <2>1. Owing = {}
    BY DEF Init, Owing, Alive
  <2>2. QED
    BY <2>1, FS_EmptySet DEF Init, PlacesCounted
<1>9. ConnsApart
  BY <1>3, ConstantFacts DEF Init, ConnsApart
<1>10. QED
  BY <1>2, <1>4, <1>5, <1>6, <1>7, <1>8, <1>9 DEF IndInv

(* Nothing changes the number of slots. *)
LEMMA SlotsFixed ==
  ASSUME Next
  PROVE  UNCHANGED <<clientsMax, pausedMax, ClientsSize, Slots>>
<1> USE DEF appVars
<1>1. ASSUME Environment PROVE UNCHANGED <<clientsMax, pausedMax>>
  BY <1>1 DEF Environment, Connect, Stop, Cancel
<1>2. ASSUME ServerStep PROVE UNCHANGED <<clientsMax, pausedMax>>
  BY <1>2 DEF ServerStep, ServerLoop, PollTimeout, PipeRead, JoinThread, DispatchQueued,
     DispatchPark, DispatchRetire, DispatchNothing, Accept, AcceptFails, AcceptQueue,
     AcceptServe, ClientsAdd, ClientsAddSpins, Mark, Sweep, Drain
<1>3. ASSUME \E t \in Threads : ThreadStep(t) PROVE UNCHANGED <<clientsMax, pausedMax>>
  BY <1>3 DEF ThreadStep, SemP, CheckExit, WhileExit, Listen, ListenOk, ListenThrows,
     Deactivate, Pause, PipeWrite, Return
<1>4. UNCHANGED <<clientsMax, pausedMax>>
  BY <1>1, <1>2, <1>3 DEF Next, ServerJoin, Gone, vars
<1>5. QED
  BY <1>4, SlotsStay

(* clientDisconnectAll() is not undone. *)
LEMMA QuietEnds ==
  ASSUME Next, Quiet'
  PROVE  Quiet
<1> USE DEF Quiet, serverVars
<1>1. CASE Environment
  BY <1>1 DEF Environment, Connect, Stop, Cancel
<1>2. CASE ServerStep
  BY <1>2 DEF ServerStep, ServerLoop, PollTimeout, PipeRead, JoinThread, DispatchQueued,
     DispatchPark, DispatchRetire, DispatchNothing, Accept, AcceptFails, AcceptQueue,
     AcceptServe, ClientsAdd, ClientsAddSpins, Mark, Sweep, Drain
<1>3. CASE \E t \in Threads : ThreadStep(t)
  BY <1>3 DEF ThreadStep, SemP, CheckExit, WhileExit, Listen, ListenOk, ListenThrows,
     Deactivate, Pause, PipeWrite, Return
<1>4. QED
  BY <1>1, <1>2, <1>3 DEF Next, ServerJoin, Gone, vars

(* A resumed thread keeps the types, and so does a request for a new one. *)
LEMMA ResumeTyped ==
  ASSUME TypeOK, NEW c \in Conns,
         (\E t \in Threads : Resume(t, c)) \/ MakeThreadFor(c)
  PROVE  /\ sPc' \in ServerPcs /\ curConn' \in Conns \union {NoConn} /\ clientsCount' \in Nat
         /\ tPc' \in [Threads -> ThreadPcs] /\ sem' \in [Threads -> Nat]
         /\ numClients' \in [Threads -> {SizeMax} \union 0..ClientsPerThread]
         /\ exitFlag' \in [Threads -> BOOLEAN]
         /\ socket' \in [Threads -> Conns \union {NoConn}]
<1> USE DEF TypeOK, ServerPcs, AfterEvent
<1>1. ASSUME NEW t \in Threads, Resume(t, c)
      PROVE  /\ sPc' \in ServerPcs /\ clientsCount' \in Nat /\ sem' \in [Threads -> Nat]
             /\ socket' \in [Threads -> Conns \union {NoConn}]
             /\ UNCHANGED <<curConn, tPc, numClients, exitFlag>>
  BY <1>1 DEF Resume, Wakeup, CountClient
<1>2. ASSUME MakeThreadFor(c)
      PROVE  /\ sPc' \in ServerPcs /\ curConn' = c
             /\ UNCHANGED <<clientsCount, tPc, numClients, exitFlag, sem, socket>>
  BY <1>2 DEF MakeThreadFor, threadVars
<1>3. QED
  BY <1>1, <1>2

(* Every operation keeps the types. *)
LEMMA TypeStep ==
  ASSUME IndInv, Next
  PROVE  TypeOK'
<1>1. TypeOK /\ Handles /\ Hand /\ Errands /\ ConnsApart
  BY DEF IndInv
<1>2. UNCHANGED <<clientsMax, pausedMax, ClientsSize, Slots>>
  BY SlotsFixed
<1>3. ClientsSize \in Nat \ {0}
  BY <1>1, SlotsExist DEF TypeOK
<1> USE ConstantFacts
    DEF TypeOK, ServerPcs, ThreadPcs, AfterEvent, Pending, ThreadGoto, Resume, Wakeup,
        CountClient, MakeThreadFor, serverVars, tableVars, appVars, threadVars
<1>4. CASE Environment
  BY <1>1, <1>2, <1>4, ZenonT(30) DEF Environment, Connect, Stop, Cancel
<1>5. CASE ServerLoop
  BY <1>1, <1>2, <1>3, <1>5 DEF ServerLoop
<1>6. CASE PollTimeout
  BY <1>1, <1>2, <1>6 DEF PollTimeout
<1>7. CASE PipeRead
  <2>1. Head(pipe) \in Threads /\ Tail(pipe) \in Seq(Threads) /\ Head(pipe) \in Range(pipe)
    BY <1>1, <1>7, QueueHeads DEF PipeRead
  <2>2. clientsCount' \in Nat
    <3>1. CASE FreesPlace(Head(pipe))
      <4>1. Head(pipe) \in Owing
        BY <1>1, <2>1, <3>1 DEF Owing, Alive, FreesPlace, Handles, Held
      <4>2. Cardinality(Owing) # 0 /\ Cardinality(Owing) \in Nat
        <5>1. Owing \in SUBSET Threads
          BY DEF Owing, Alive
        <5>2. IsFiniteSet(Owing)
          BY <5>1, FS_Subset
        <5>3. QED
          BY <4>1, <5>2, FS_EmptySet, FS_CardinalityType
      <4>3. Cardinality(Owing) <= clientsCount
        BY DEF IndInv, PlacesCounted
      <4>4. QED
        BY <1>1, <1>7, <3>1, <4>2, <4>3 DEF PipeRead
    <3>2. CASE ~FreesPlace(Head(pipe))
      BY <1>1, <1>7, <3>2 DEF PipeRead
    <3>3. QED
      BY <3>1, <3>2
  <2>3. clients' \in [Slots -> Threads \union {NoThread}]
    BY <1>1, <1>7 DEF PipeRead, SlotsWithout
  <2>4. numClients' \in [Threads -> {SizeMax} \union 0..ClientsPerThread]
    BY <1>1, <1>7 DEF PipeRead
  <2>5. QED
    BY <1>1, <1>2, <1>7, <2>1, <2>2, <2>3, <2>4 DEF PipeRead
<1>8. CASE JoinThread
  BY <1>1, <1>2, <1>8 DEF JoinThread
<1>9. CASE DispatchQueued
  <2> DEFINE c == Head(queuedConns)
  <2>1. /\ c \in Conns /\ Tail(queuedConns) \in Seq(Conns)
        /\ queuedThreads # <<>> =>
             Head(queuedThreads) \in Threads /\ Tail(queuedThreads) \in Seq(Threads)
    BY <1>1, <1>9, QueueHeads DEF DispatchQueued
  <2>2. /\ (\E t \in Threads : Resume(t, c)) \/ MakeThreadFor(c)
        /\ queuedThreads' \in Seq(Threads)
    BY <1>1, <1>9, <2>1 DEF DispatchQueued
  <2>3. /\ queuedConns' \in Seq(Conns) /\ cur' = NoThread
        /\ conn' \in [Conns -> {"idle", "pending", "queued", "open", "closed", "dropped"}]
        /\ UNCHANGED <<markAt, draining, runner, clients, clientsIndex, stop, cancelled, pipe>>
    BY <1>1, <1>9, <2>1 DEF DispatchQueued
  <2>4. QED
    BY <1>1, <1>2, <2>1, <2>2, <2>3, ResumeTyped
<1>10. CASE DispatchPark
  <2>1. cur \in Threads /\ queuedThreads' \in Seq(Threads)
    BY <1>1, <1>10, Appended DEF DispatchPark
  <2>2. QED
    BY <1>1, <1>2, <1>10, <2>1 DEF DispatchPark
<1>11. CASE DispatchRetire
  BY <1>1, <1>2, <1>11 DEF DispatchRetire
<1>12. CASE DispatchNothing
  BY <1>1, <1>2, <1>12 DEF DispatchNothing
<1>13. ASSUME NEW c \in Conns, AcceptFails(c) PROVE TypeOK'
  BY <1>1, <1>2, <1>13 DEF AcceptFails
<1>14. ASSUME NEW c \in Conns, AcceptQueue(c) PROVE TypeOK'
  <2>1. queuedConns' \in Seq(Conns)
    BY <1>1, <1>14, Appended DEF AcceptQueue
  <2>2. QED
    BY <1>1, <1>2, <1>14, <2>1 DEF AcceptQueue
<1>15. ASSUME NEW c \in Conns, AcceptServe(c) PROVE TypeOK'
  <2>1. queuedThreads # <<>> =>
          Head(queuedThreads) \in Threads /\ Tail(queuedThreads) \in Seq(Threads)
    BY <1>1, QueueHeads
  <2>2. /\ (\E t \in Threads : Resume(t, c)) \/ MakeThreadFor(c)
        /\ queuedThreads' \in Seq(Threads)
    BY <1>1, <1>15, <2>1 DEF AcceptServe
  <2>3. /\ conn' \in [Conns -> {"idle", "pending", "queued", "open", "closed", "dropped"}]
        /\ UNCHANGED <<cur, markAt, draining, runner, clients, clientsIndex, queuedConns,
                      stop, cancelled, pipe>>
    BY <1>1, <1>15 DEF AcceptServe
  <2>4. QED
    BY <1>1, <1>2, <2>2, <2>3, ResumeTyped
<1>16. ASSUME NEW t \in Threads, ClientsAdd(t) PROVE TypeOK'
  <2>1. /\ clients' \in [Slots -> Threads \union {NoThread}] /\ clientsIndex' \in Slots
    BY <1>1, <1>16, FreeFound DEF ClientsAdd
  <2>2. /\ tPc' \in [Threads -> ThreadPcs] /\ sem' \in [Threads -> Nat]
        /\ numClients' \in [Threads -> {SizeMax} \union 0..ClientsPerThread]
        /\ socket' \in [Threads -> Conns \union {NoConn}]
    BY <1>1, <1>16 DEF ClientsAdd
  <2>3. /\ sPc' \in ServerPcs /\ curConn' = NoConn /\ clientsCount' \in Nat
        /\ UNCHANGED <<cur, markAt, draining, runner, queuedConns, queuedThreads, stop,
                      cancelled, pipe, exitFlag, conn>>
    BY <1>1, <1>16 DEF ClientsAdd
  <2>4. QED
    BY <1>1, <1>2, <2>1, <2>2, <2>3
<1>17. CASE ClientsAddSpins
  BY <1>1, <1>2, <1>17, ProbesAreSlots DEF ClientsAddSpins
<1>18. CASE Mark
  BY <1>1, <1>2, <1>3, <1>18 DEF Mark
<1>19. CASE Sweep
  <2>1. /\ sem' \in [Threads -> Nat]
        /\ conn' \in [Conns -> {"idle", "pending", "queued", "open", "closed", "dropped"}]
    BY <1>1, <1>19 DEF Sweep, WakeParked
  <2>2. queuedConns' \in Seq(Conns) /\ queuedThreads' \in Seq(Threads)
    BY <1>19, NoneLeft DEF Sweep
  <2>3. QED
    BY <1>1, <1>2, <1>19, <2>1, <2>2 DEF Sweep
<1>20. CASE Drain
  BY <1>1, <1>2, <1>20 DEF Drain
<1>21. CASE ServerJoin
  BY <1>1, <1>2, <1>3, <1>21 DEF ServerJoin
<1>22. ASSUME NEW t \in Threads, SemP(t) PROVE TypeOK'
  BY <1>1, <1>2, <1>22, SMTT(30) DEF SemP
<1>23. ASSUME NEW t \in Threads, CheckExit(t) PROVE TypeOK'
  BY <1>1, <1>2, <1>23, SMTT(30) DEF CheckExit
<1>24. ASSUME NEW t \in Threads, WhileExit(t) PROVE TypeOK'
  BY <1>1, <1>2, <1>24 DEF WhileExit
<1>25. ASSUME NEW t \in Threads, Listen(t) PROVE TypeOK'
  <2>1. exitFlag' \in [Threads -> BOOLEAN] /\ tPc' \in [Threads -> ThreadPcs]
    BY <1>1, <1>25, ZenonT(30) DEF Listen, ListenOk, ListenThrows
  <2>2. QED
    BY <1>1, <1>2, <1>25, <2>1 DEF Listen, ListenOk, ListenThrows
<1>26. ASSUME NEW t \in Threads, Deactivate(t) PROVE TypeOK'
  <2>1. numClients[t] = SizeMax \/ numClients[t] \in 1..ClientsPerThread
    <3>1. tPc[t] = "deact" /\ Errand(t)
      BY <1>1, <1>26 DEF Deactivate, Errands
    <3>2. numClients[t] \in {SizeMax} \union 0..ClientsPerThread
      BY <1>1
    <3>3. QED
      BY <3>1, <3>2 DEF Errand
  <2>2. numClients' \in [Threads -> {SizeMax} \union 0..ClientsPerThread]
    <3> DEFINE Numbers == {SizeMax} \union 0..ClientsPerThread
    <3>1. numClients[t] # SizeMax => numClients[t] - 1 \in Numbers
      BY <2>1
    <3>2. numClients \in [Threads -> Numbers]
      BY <1>1
    <3> HIDE DEF Numbers
    <3>3. numClients' \in [Threads -> Numbers]
      BY <1>26, <3>1, <3>2 DEF Deactivate
    <3>4. QED
      BY <3>3 DEF Numbers
  <2>3. tPc' \in [Threads -> ThreadPcs]
    BY <1>1, <1>26, ZenonT(30) DEF Deactivate
  <2>4. QED
    BY <1>1, <1>2, <1>26, <2>2, <2>3 DEF Deactivate
<1>27. ASSUME NEW t \in Threads, Pause(t) PROVE TypeOK'
  BY <1>1, <1>2, <1>27, ZenonT(30) DEF Pause, ExitAfterPause
<1>28. ASSUME NEW t \in Threads, PipeWrite(t) PROVE TypeOK'
  <2>1. pipe' \in Seq(Threads)
    BY <1>1, <1>28, Appended DEF PipeWrite
  <2>2. tPc' \in [Threads -> ThreadPcs]
    BY <1>1, <1>28 DEF PipeWrite
  <2>3. QED
    BY <1>1, <1>2, <1>28, <2>1, <2>2 DEF PipeWrite
<1>29. ASSUME NEW t \in Threads, Return(t) PROVE TypeOK'
  BY <1>1, <1>2, <1>29 DEF Return
<1>30. CASE Gone
  BY <1>1, <1>2, <1>30 DEF Gone, vars
<1>31. QED
  BY <1>4, <1>5, <1>6, <1>7, <1>8, <1>9, <1>10, <1>11, <1>12, <1>13, <1>14, <1>15, <1>16,
     <1>17, <1>18, <1>19, <1>20, <1>21, <1>22, <1>23, <1>24, <1>25, <1>26, <1>27, <1>28,
     <1>29, <1>30 DEF Next, ServerStep, Accept, ThreadStep

(* clientDisconnectAll() runs only after the server was told to stop. *)
LEMMA StopStep ==
  ASSUME IndInv, Next
  PROVE  StopKnown'
<1>1. StopKnown
  BY DEF IndInv
<1> USE <1>1 DEF StopKnown, Quiet, AfterEvent, serverVars, appVars
<1>2. CASE Environment
  BY <1>2 DEF Environment, Connect, Stop, Cancel
<1>3. CASE ServerStep
  BY <1>3 DEF ServerStep, ServerLoop, PollTimeout, PipeRead, JoinThread, DispatchQueued,
     DispatchPark, DispatchRetire, DispatchNothing, Accept, AcceptFails, AcceptQueue,
     AcceptServe, ClientsAdd, ClientsAddSpins, Mark, Sweep, Drain, Resume, MakeThreadFor
<1>4. CASE \E t \in Threads : ThreadStep(t)
  BY <1>4 DEF ThreadStep, SemP, CheckExit, WhileExit, Listen, ListenOk, ListenThrows,
     Deactivate, Pause, PipeWrite, Return
<1>5. QED
  BY <1>2, <1>3, <1>4 DEF Next, ServerJoin, Gone, vars

(* A resumed thread has its wakeup, and is nowhere else. *)
LEMMA ResumeHandles ==
  ASSUME TypeOK, Handles, NEW t \in Threads, NEW c \in Conns, Resume(t, c),
         cur' = NoThread, UNCHANGED pipe, Held(t), tPc[t] = "sem", cur \in {t, NoThread},
         IsInjective(queuedThreads'),
         Range(queuedThreads') = Range(queuedThreads) \ {t}, t \notin Range(pipe)
  PROVE  Handles'
<1>1. /\ sem[t] = 0 /\ sem' = [sem EXCEPT ![t] = sem[t] + 1] /\ tPc' = tPc
      /\ sem \in [Threads -> Nat]
  BY DEF TypeOK, Handles, Resume, Wakeup
<1>2. sem'[t] = 1 /\ \A u \in Threads \ {t} : sem'[u] = sem[u]
  BY <1>1
<1>3. \A u \in Threads \ {t} : Held(u)' <=> Held(u)
  BY ConstantFacts DEF Held
<1>4. ~Held(t)'
  BY ConstantFacts DEF Held
<1>5. QED
  BY <1>1, <1>2, <1>3, <1>4, ConstantFacts DEF Handles, Held

(* Every operation keeps a waiting thread in one place. *)
LEMMA HandlesStep ==
  ASSUME IndInv, Next
  PROVE  Handles'
<1>1. TypeOK /\ Handles /\ Hand /\ ConnsApart
  BY DEF IndInv
<1>2. /\ tPc \in [Threads -> ThreadPcs] /\ sem \in [Threads -> Nat]
      /\ pipe \in Seq(Threads) /\ queuedThreads \in Seq(Threads)
  BY <1>1 DEF TypeOK
<1> USE ConstantFacts DEF serverVars, tableVars, appVars, threadVars, ThreadGoto
<1>3. ASSUME UNCHANGED <<pipe, queuedThreads, cur, sem, tPc>> PROVE Handles'
  BY <1>1, <1>3 DEF Handles, Held
<1>4. CASE Environment
  BY <1>3, <1>4 DEF Environment, Connect, Stop, Cancel
<1>5. CASE ServerLoop \/ PollTimeout \/ DispatchNothing \/ ClientsAddSpins
  BY <1>3, <1>5 DEF ServerLoop, PollTimeout, DispatchNothing, ClientsAddSpins
<1>6. CASE Mark \/ Drain \/ ServerJoin \/ Gone
  BY <1>3, <1>6 DEF Mark, Drain, ServerJoin, Gone, vars
<1>7. ASSUME NEW c \in Conns, AcceptFails(c) \/ AcceptQueue(c) PROVE Handles'
  BY <1>3, <1>7 DEF AcceptFails, AcceptQueue
<1>8. CASE PipeRead
  <2>1. /\ Head(pipe) \in Range(pipe) /\ Head(pipe) \in Threads
        /\ IsInjective(pipe') /\ Range(pipe') = Range(pipe) \ {Head(pipe)}
    BY <1>1, <1>8, QueueHeads DEF PipeRead
  <2>2. cur = NoThread /\ cur' = Head(pipe) /\ UNCHANGED <<queuedThreads, sem, tPc>>
    BY <1>1, <1>8 DEF PipeRead, Hand
  <2>3. \A t \in Threads : Held(t)' <=> Held(t)
    BY <2>1, <2>2 DEF Held
  <2>4. QED
    BY <1>1, <2>1, <2>2, <2>3 DEF Handles
<1>9. CASE JoinThread
  BY <1>1, <1>2, <1>9 DEF JoinThread, Hand, Handles, Held
<1>10. CASE DispatchQueued
  <2> DEFINE c == Head(queuedConns)
  <2>1. c \in Conns
    BY <1>1, <1>10, QueueHeads DEF DispatchQueued
  <2>2. CASE cur # NoThread
    <3>1. /\ cur \in Threads /\ tPc[cur] = "sem" /\ cur \notin Range(pipe)
          /\ cur \notin Range(queuedThreads) /\ Held(cur)
      BY <1>1, <1>10, <2>2 DEF TypeOK, Hand, Handles, Held, DispatchQueued
    <3>2. Resume(cur, c) /\ cur' = NoThread /\ UNCHANGED <<pipe, queuedThreads>>
      BY <1>10, <2>2 DEF DispatchQueued
    <3>3. Range(queuedThreads') = Range(queuedThreads) \ {cur} /\ IsInjective(queuedThreads')
      BY <1>1, <3>1, <3>2 DEF Handles
    <3>4. QED
      BY <1>1, <2>1, <3>1, <3>2, <3>3, ResumeHandles
  <2>3. CASE cur = NoThread /\ queuedThreads # <<>>
    <3> DEFINE t == Head(queuedThreads)
    <3>1. /\ t \in Threads /\ t \in Range(queuedThreads)
          /\ IsInjective(Tail(queuedThreads)) /\ Range(Tail(queuedThreads)) = Range(queuedThreads) \ {t}
      BY <1>1, <2>3, QueueHeads
    <3>2. Resume(t, c) /\ cur' = NoThread /\ UNCHANGED pipe /\ queuedThreads' = Tail(queuedThreads)
      BY <1>10, <2>3 DEF DispatchQueued
    <3>3. Held(t) /\ tPc[t] = "sem" /\ t \notin Range(pipe)
      BY <1>1, <3>1 DEF Handles, Held
    <3> HIDE DEF t, c
    <3>4. QED
      BY <1>1, <2>1, <2>3, <3>1, <3>2, <3>3, ResumeHandles
  <2>4. CASE cur = NoThread /\ queuedThreads = <<>>
    BY <1>3, <1>10, <2>4 DEF DispatchQueued, MakeThreadFor
  <2>5. QED
    BY <2>2, <2>3, <2>4
<1>11. CASE DispatchPark
  <2>1. /\ cur \in Threads /\ tPc[cur] = "sem" /\ cur \notin Range(pipe) /\ sem[cur] = 0
        /\ cur \notin Range(queuedThreads)
    BY <1>1, <1>11 DEF TypeOK, Hand, Handles, Held, DispatchPark
  <2>2. /\ Range(queuedThreads') = Range(queuedThreads) \union {cur}
        /\ IsInjective(queuedThreads') /\ cur' = NoThread /\ UNCHANGED <<pipe, sem, tPc>>
    BY <1>1, <1>2, <1>11, <2>1, Appended DEF DispatchPark, Handles
  <2>3. \A t \in Threads : Held(t)' <=> Held(t)
    BY <2>1, <2>2 DEF Held
  <2>4. QED
    BY <1>1, <2>1, <2>2, <2>3 DEF Handles
<1>12. CASE DispatchRetire
  BY <1>1, <1>2, <1>12 DEF DispatchRetire, Wakeup, TypeOK, Hand, Handles, Held
<1>13. ASSUME NEW c \in Conns, AcceptServe(c) PROVE Handles'
  <2>1. cur = NoThread /\ UNCHANGED <<cur, pipe>>
    BY <1>1, <1>13 DEF AcceptServe, Hand
  <2>2. CASE queuedThreads # <<>>
    <3> DEFINE t == Head(queuedThreads)
    <3>1. /\ t \in Threads /\ t \in Range(queuedThreads)
          /\ IsInjective(Tail(queuedThreads)) /\ Range(Tail(queuedThreads)) = Range(queuedThreads) \ {t}
      BY <1>1, <2>2, QueueHeads
    <3>2. Resume(t, c) /\ queuedThreads' = Tail(queuedThreads)
      BY <1>13, <2>2 DEF AcceptServe
    <3>3. Held(t) /\ tPc[t] = "sem" /\ t \notin Range(pipe)
      BY <1>1, <3>1 DEF Handles, Held
    <3> HIDE DEF t
    <3>4. QED
      BY <1>1, <2>1, <3>1, <3>2, <3>3, ResumeHandles
  <2>3. CASE queuedThreads = <<>>
    BY <1>3, <1>13, <2>1, <2>3 DEF AcceptServe, MakeThreadFor
  <2>4. QED
    BY <2>2, <2>3
<1>14. ASSUME NEW t \in Threads, ClientsAdd(t) PROVE Handles'
  BY <1>1, <1>2, <1>14 DEF ClientsAdd, Handles, Held
<1>15. CASE Sweep
  <2>1. /\ Range(queuedThreads') = {} /\ IsInjective(queuedThreads')
        /\ UNCHANGED <<pipe, cur, tPc>>
        /\ \A t \in Threads : sem'[t] = WakeParked(t)
    BY <1>15, NoneLeft DEF Sweep
  <2>2. \A t \in Threads : WakeParked(t) = IF t \in Range(queuedThreads) THEN sem[t] + 1 ELSE sem[t]
    BY DEF WakeParked, Range
  <2>3. QED
    BY <1>1, <2>1, <2>2 DEF Handles, Held
<1>16. ASSUME NEW t \in Threads, SemP(t) PROVE Handles'
  BY <1>1, <1>2, <1>16 DEF SemP, Handles, Held
<1>17. ASSUME NEW t \in Threads, CheckExit(t) \/ WhileExit(t) \/ Listen(t) \/ Deactivate(t) \/ Pause(t)
       PROVE  Handles'
  <2>1. \E to \in ThreadPcs \ {"sem", "returning", "ended"} :
          tPc[t] \notin {"sem", "returning", "ended"} /\ tPc' = [tPc EXCEPT ![t] = to]
    BY <1>17 DEF CheckExit, WhileExit, Listen, ListenOk, ListenThrows, Deactivate, Pause, ThreadPcs
  <2>2. UNCHANGED <<pipe, queuedThreads, cur, sem>>
    BY <1>17 DEF CheckExit, WhileExit, Listen, ListenOk, ListenThrows, Deactivate, Pause
  <2>3. QED
    BY <1>1, <1>2, <2>1, <2>2 DEF Handles, Held
<1>18. ASSUME NEW t \in Threads, PipeWrite(t) PROVE Handles'
  <2>1. tPc[t] = "write" /\ ~Held(t) /\ sem[t] = 0
    BY <1>1, <1>18 DEF PipeWrite, Handles
  <2>2. /\ Range(pipe') = Range(pipe) \union {t} /\ IsInjective(pipe')
        /\ UNCHANGED <<queuedThreads, cur, sem>>
    BY <1>1, <1>2, <1>18, <2>1, Appended DEF PipeWrite, Handles, Held
  <2>3. /\ tPc'[t] \in {"returning", "sem"} /\ \A u \in Threads \ {t} : tPc'[u] = tPc[u]
    BY <1>2, <1>18 DEF PipeWrite
  <2>4. QED
    BY <1>1, <2>1, <2>2, <2>3 DEF Handles, Held
<1>19. ASSUME NEW t \in Threads, Return(t) PROVE Handles'
  BY <1>1, <1>2, <1>19 DEF Return, Handles, Held
<1>20. QED
  BY <1>4, <1>5, <1>6, <1>7, <1>8, <1>9, <1>10, <1>11, <1>12, <1>13, <1>14, <1>15, <1>16,
     <1>17, <1>18, <1>19 DEF Next, ServerStep, Accept, ThreadStep

(* Every operation keeps track of what the server has in its hands. *)
LEMMA HandStep ==
  ASSUME IndInv, Next
  PROVE  Hand'
<1>1. TypeOK /\ Hand /\ Handles /\ Errands
  BY DEF IndInv
<1>2. tPc \in [Threads -> ThreadPcs]
  BY <1>1 DEF TypeOK
<1> USE ConstantFacts DEF serverVars, tableVars, appVars, threadVars, ThreadGoto, AfterEvent
<1>3. CASE Environment
  BY <1>1, <1>3 DEF Environment, Connect, Stop, Cancel, Hand
<1>4. CASE ServerLoop \/ PollTimeout \/ DispatchNothing \/ ClientsAddSpins
  BY <1>1, <1>4 DEF ServerLoop, PollTimeout, DispatchNothing, ClientsAddSpins, Hand
<1>5. CASE Mark \/ Sweep \/ Drain \/ ServerJoin \/ Gone
  BY <1>1, <1>5 DEF Mark, Sweep, Drain, ServerJoin, Gone, vars, Hand
<1>6. CASE DispatchPark \/ DispatchRetire \/ JoinThread
  BY <1>1, <1>2, <1>6 DEF DispatchPark, DispatchRetire, JoinThread, Hand
<1>7. CASE PipeRead
  <2> DEFINE t == Head(pipe)
  <2>1. t \in Threads /\ t \in Range(pipe) /\ curConn = NoConn
    BY <1>1, <1>7, QueueHeads DEF IndInv, PipeRead, Hand
  <2>2. tPc[t] \in {"sem", "returning", "ended"} /\ Errand(t)
    BY <1>1, <2>1 DEF Handles, Held, Errands
  <2>3. numClients'[t] = IF numClients[t] = SizeMax THEN 0 ELSE numClients[t]
    BY <1>1, <1>7, <2>1 DEF PipeRead, TypeOK
  <2>4. numClients'[t] = 0 <=> tPc[t] \in {"returning", "ended"}
    BY <2>2, <2>3 DEF Errand
  <2>5. cur' = t /\ UNCHANGED <<tPc, curConn>> /\ sPc' = IF numClients'[t] = 0 THEN "join" ELSE "dispatch"
    BY <1>7 DEF PipeRead
  <2>6. QED
    BY <2>1, <2>2, <2>4, <2>5 DEF Hand
<1>8. CASE DispatchQueued
  <2>1. Head(queuedConns) # NoConn
    BY <1>1, <1>8, QueueHeads DEF IndInv, DispatchQueued
  <2>2. QED
    BY <1>1, <1>8, <2>1 DEF DispatchQueued, Resume, MakeThreadFor, Hand
<1>9. ASSUME NEW c \in Conns, AcceptFails(c) \/ AcceptQueue(c) \/ AcceptServe(c) PROVE Hand'
  BY <1>1, <1>9 DEF AcceptFails, AcceptQueue, AcceptServe, Resume, MakeThreadFor, Hand
<1>10. ASSUME NEW t \in Threads, ClientsAdd(t) PROVE Hand'
  BY <1>1, <1>10 DEF ClientsAdd, Hand
<1>11. ASSUME NEW t \in Threads, ThreadStep(t) PROVE Hand'
  <2>1. UNCHANGED <<sPc, cur, curConn>>
    BY <1>11 DEF ThreadStep, SemP, CheckExit, WhileExit, Listen, ListenOk, ListenThrows,
       Deactivate, Pause, PipeWrite, Return
  <2>2. CASE cur = t
    <3>1. sem[t] = 0 /\ tPc[t] \in {"sem", "returning", "ended"}
      BY <1>1, <1>11, <2>2 DEF Handles, Held
    <3>2. Return(t)
      BY <1>11, <3>1 DEF ThreadStep, SemP, CheckExit, WhileExit, Listen, ListenOk, ListenThrows,
         Deactivate, Pause, PipeWrite
    <3>3. QED
      BY <1>1, <1>2, <2>1, <2>2, <3>2 DEF Return, Hand
  <2>3. CASE cur # t
    <3>1. \E to \in ThreadPcs : tPc' = [tPc EXCEPT ![t] = to]
      BY <1>11 DEF ThreadStep, SemP, CheckExit, WhileExit, Listen, ListenOk, ListenThrows,
         Deactivate, Pause, PipeWrite, Return, ThreadPcs
    <3>2. QED
      BY <1>1, <1>2, <2>1, <2>3, <3>1 DEF Hand
  <2>4. QED
    BY <2>2, <2>3
<1>12. QED
  BY <1>3, <1>4, <1>5, <1>6, <1>7, <1>8, <1>9, <1>10, <1>11 DEF Next, ServerStep, Accept

(* Every operation keeps _clients exact. *)
LEMMA SlotsStep ==
  ASSUME IndInv, Next
  PROVE  SlotsExact'
<1>1. TypeOK /\ Hand /\ SlotsExact /\ Handles /\ ConnsApart
  BY DEF IndInv
<1>2. /\ tPc \in [Threads -> ThreadPcs] /\ clients \in [Slots -> Threads \union {NoThread}]
  BY <1>1 DEF TypeOK
<1>3. UNCHANGED Slots
  BY SlotsFixed
<1> USE ConstantFacts DEF serverVars, tableVars, appVars, threadVars, ThreadGoto, AfterEvent
<1>4. ASSUME UNCHANGED clients, sPc = "join" <=> sPc' = "join", UNCHANGED cur, Alive' = Alive
      PROVE  SlotsExact'
  BY <1>1, <1>3, <1>4 DEF SlotsExact
<1>5. CASE Environment
  BY <1>4, <1>5 DEF Environment, Connect, Stop, Cancel, Alive
<1>6. CASE ServerLoop \/ PollTimeout \/ DispatchNothing \/ ClientsAddSpins
  BY <1>4, <1>6 DEF ServerLoop, PollTimeout, DispatchNothing, ClientsAddSpins, Alive
<1>7. CASE Mark \/ Sweep \/ Drain \/ ServerJoin \/ Gone
  BY <1>4, <1>7 DEF Mark, Sweep, Drain, ServerJoin, Gone, vars, Alive
<1>8. CASE DispatchPark \/ DispatchRetire
  BY <1>1, <1>3, <1>8 DEF DispatchPark, DispatchRetire, Alive, SlotsExact
<1>9. CASE DispatchQueued
  <2>1. /\ UNCHANGED <<clients, tPc>> /\ sPc # "join" /\ sPc' # "join"
    BY <1>9 DEF DispatchQueued, Resume, MakeThreadFor
  <2>2. QED
    BY <1>1, <1>3, <2>1 DEF SlotsExact, Alive
<1>10. ASSUME NEW c \in Conns, AcceptFails(c) \/ AcceptQueue(c) \/ AcceptServe(c) PROVE SlotsExact'
  BY <1>4, <1>10 DEF AcceptFails, AcceptQueue, AcceptServe, Resume, MakeThreadFor, Alive
<1>11. CASE PipeRead
  <2> DEFINE t == Head(pipe)
  <2>1. t \in Alive /\ sPc # "join"
    BY <1>1, <1>11, QueueHeads DEF PipeRead, Handles, Held, Alive
  <2>2. cur' = t /\ Alive' = Alive
    BY <1>11 DEF PipeRead, Alive
  <2>3. CASE sPc' = "join"
    <3>1. clients' = [i \in Slots |-> IF clients[i] = t THEN NoThread ELSE clients[i]]
      BY <1>11, <2>3 DEF PipeRead, SlotsWithout
    <3> HIDE DEF t
    <3>2. QED
      BY <1>1, <1>3, <2>1, <2>2, <2>3, <3>1 DEF SlotsExact
  <2>4. CASE sPc' # "join"
    BY <1>1, <1>3, <1>11, <2>1, <2>2, <2>4 DEF PipeRead, SlotsExact
  <2>5. QED
    BY <2>3, <2>4
<1>12. CASE JoinThread
  <2>1. cur \in Threads /\ Alive' = Alive \ {cur} /\ UNCHANGED clients /\ sPc' = "dispatch"
    BY <1>1, <1>2, <1>12 DEF JoinThread, Hand, TypeOK, Alive
  <2>2. QED
    BY <1>1, <1>3, <1>12, <2>1 DEF JoinThread, SlotsExact
<1>13. ASSUME NEW t \in Threads, ClientsAdd(t) PROVE SlotsExact'
  <2> DEFINE i == Probe(FirstFree)
  <2>1. i \in Slots /\ clients[i] = NoThread
    BY <1>1, <1>13, FreeFound DEF ClientsAdd
  <2>2. /\ clients' = [clients EXCEPT ![i] = t] /\ Alive' = Alive \union {t} /\ t \notin Alive
        /\ sPc # "join" /\ sPc' # "join"
    BY <1>2, <1>13 DEF ClientsAdd, Alive
  <2> HIDE DEF i
  <2>3. \A j \in Slots : clients[j] # t
    BY <1>1, <2>2 DEF SlotsExact
  <2>4. \A j, k \in Slots : clients'[j] = clients'[k] => j = k \/ clients'[j] = NoThread
    BY <1>1, <1>2, <2>1, <2>2, <2>3 DEF SlotsExact
  <2>5. {clients'[j] : j \in Slots} \ {NoThread} = ({clients[j] : j \in Slots} \ {NoThread}) \union {t}
    BY <1>2, <2>1, <2>2
  <2>6. QED
    BY <1>1, <1>3, <2>2, <2>4, <2>5 DEF SlotsExact
<1>14. ASSUME NEW t \in Threads, ThreadStep(t) PROVE SlotsExact'
  <2>1. UNCHANGED <<sPc, cur, clients>>
    BY <1>14 DEF ThreadStep, SemP, CheckExit, WhileExit, Listen, ListenOk, ListenThrows,
       Deactivate, Pause, PipeWrite, Return
  <2>2. \E to \in ThreadPcs \ {"unborn", "deleted"} :
          tPc[t] \notin {"unborn", "deleted"} /\ tPc' = [tPc EXCEPT ![t] = to]
    BY <1>14 DEF ThreadStep, SemP, CheckExit, WhileExit, Listen, ListenOk, ListenThrows,
       Deactivate, Pause, PipeWrite, Return, ThreadPcs
  <2>3. Alive' = Alive
    BY <1>2, <2>2 DEF Alive
  <2>4. QED
    BY <1>4, <2>1, <2>3
<1>15. QED
  BY <1>5, <1>6, <1>7, <1>8, <1>9, <1>10, <1>11, <1>12, <1>13, <1>14 DEF Next, ServerStep, Accept

(* A resumed thread has a connection, and no order to exit while Quiet. *)
LEMMA ResumeErrands ==
  ASSUME IndInv, Next, NEW t \in Threads, NEW c \in Conns, Resume(t, c), Held(t), tPc[t] = "sem"
  PROVE  Errands'
<1>1. TypeOK /\ Errands /\ Handles
  BY DEF IndInv
<1>2. /\ sem[t] = 0 /\ c # NoConn
      /\ sem \in [Threads -> Nat] /\ socket \in [Threads -> Conns \union {NoConn}]
  BY <1>1, ConstantFacts DEF Handles, TypeOK
<1>3. /\ sem'[t] = 1 /\ socket'[t] = c /\ UNCHANGED <<tPc, numClients, exitFlag>>
      /\ \A u \in Threads \ {t} : sem'[u] = sem[u] /\ socket'[u] = socket[u]
  BY <1>2 DEF Resume, Wakeup
<1>4. ASSUME NEW u \in Threads PROVE Errand(u)'
  BY <1>1, <1>2, <1>3 DEF Errands, Errand
<1>5. ASSUME NEW u \in Threads, Quiet' PROVE QuietErrand(u)'
  <2>1. QuietErrand(u) /\ QuietErrand(t) /\ Errand(t)
    BY <1>1, <1>5, QuietEnds DEF Errands
  <2>2. CASE u = t
    BY <1>2, <1>3, <2>1, <2>2, ConstantFacts DEF QuietErrand, Errand
  <2>3. CASE u # t
    BY <1>3, <2>1, <2>3 DEF QuietErrand
  <2>4. QED
    BY <2>2, <2>3
<1>6. QED
  BY <1>4, <1>5 DEF Errands

(* Every operation leaves each thread with an errand. *)
LEMMA ErrandsStep ==
  ASSUME IndInv, Next
  PROVE  Errands'
<1>1. TypeOK /\ Errands /\ Hand /\ Handles /\ SlotsExact /\ MarkedParked /\ ConnsApart
  BY DEF IndInv
<1>2. /\ tPc \in [Threads -> ThreadPcs] /\ sem \in [Threads -> Nat]
      /\ numClients \in [Threads -> {SizeMax} \union 0..ClientsPerThread]
      /\ exitFlag \in [Threads -> BOOLEAN] /\ socket \in [Threads -> Conns \union {NoConn}]
  BY <1>1 DEF TypeOK
<1>3. Quiet' => Quiet
  BY QuietEnds
<1>4. ASSUME UNCHANGED <<tPc, sem, numClients, exitFlag, socket>> PROVE Errands'
  BY <1>1, <1>3, <1>4 DEF Errands, Errand, QuietErrand
<1>5. ASSUME NEW t \in Threads,
             \A u \in Threads \ {t} :
               /\ tPc'[u] = tPc[u] /\ sem'[u] = sem[u] /\ numClients'[u] = numClients[u]
               /\ exitFlag'[u] = exitFlag[u] /\ socket'[u] = socket[u],
             Errand(t)', Quiet' => QuietErrand(t)'
      PROVE  Errands'
  <2>1. ASSUME NEW u \in Threads PROVE Errand(u)' /\ (Quiet' => QuietErrand(u)')
    <3>1. CASE u = t
      BY <1>5, <3>1
    <3>2. CASE u # t
      BY <1>1, <1>3, <1>5, <3>2 DEF Errands, Errand, QuietErrand
    <3>3. QED
      BY <3>1, <3>2
  <2>2. QED
    BY <2>1 DEF Errands
<1> USE ConstantFacts DEF serverVars, tableVars, appVars, threadVars, ThreadGoto
<1>6. CASE Environment
  BY <1>4, <1>6 DEF Environment, Connect, Stop, Cancel
<1>7. CASE ServerLoop \/ PollTimeout \/ DispatchNothing \/ DispatchPark \/ ClientsAddSpins
  BY <1>4, <1>7 DEF ServerLoop, PollTimeout, DispatchNothing, DispatchPark, ClientsAddSpins
<1>8. CASE Drain \/ ServerJoin \/ Gone
  BY <1>4, <1>8 DEF Drain, ServerJoin, Gone, vars
<1>9. ASSUME NEW c \in Conns, AcceptFails(c) \/ AcceptQueue(c) PROVE Errands'
  BY <1>4, <1>9 DEF AcceptFails, AcceptQueue
<1>10. CASE PipeRead
  <2> PICK t \in Threads : t = Head(pipe)
    BY <1>1, <1>10, QueueHeads DEF PipeRead
  <2>1. tPc[t] \in {"sem", "returning", "ended"} /\ sem[t] = 0
    BY <1>1, <1>10, QueueHeads DEF PipeRead, Handles, Held
  <2>2. /\ numClients'[t] = (IF numClients[t] = SizeMax THEN 0 ELSE numClients[t])
        /\ \A u \in Threads \ {t} : numClients'[u] = numClients[u]
        /\ UNCHANGED <<tPc, sem, exitFlag, socket>>
    BY <1>2, <1>10 DEF PipeRead
  <2>3. Errand(t) /\ (Quiet' => QuietErrand(t))
    BY <1>1, <1>3, <2>1 DEF Errands
  <2>4. Errand(t)' /\ (Quiet' => QuietErrand(t)')
    BY <1>2, <2>1, <2>2, <2>3 DEF Errand, QuietErrand
  <2>5. QED
    BY <1>2, <1>5, <2>1, <2>2, <2>4
<1>11. CASE JoinThread
  <2> PICK t \in Threads : t = cur
    BY <1>1, <1>11 DEF JoinThread, Hand, TypeOK
  <2>1. tPc[t] = "ended" /\ sem[t] = 0
    BY <1>1, <1>11 DEF JoinThread, Handles
  <2>2. /\ tPc'[t] = "deleted" /\ socket'[t] = NoConn /\ UNCHANGED <<sem, numClients, exitFlag>>
        /\ \A u \in Threads \ {t} : tPc'[u] = tPc[u] /\ socket'[u] = socket[u]
    BY <1>2, <1>11, <2>1 DEF JoinThread
  <2>3. Errand(t)' /\ QuietErrand(t)'
    BY <2>1, <2>2 DEF Errand, QuietErrand
  <2>4. QED
    BY <1>5, <2>1, <2>2, <2>3
<1>12. CASE DispatchQueued
  <2> DEFINE c == Head(queuedConns)
  <2>1. c \in Conns
    BY <1>1, <1>12, QueueHeads DEF DispatchQueued
  <2>2. CASE cur # NoThread
    <3>1. cur \in Threads /\ tPc[cur] = "sem" /\ Held(cur) /\ Resume(cur, c)
      BY <1>1, <1>12, <2>2 DEF TypeOK, Hand, Held, DispatchQueued
    <3>2. QED
      BY <2>1, <3>1, ResumeErrands
  <2>3. CASE cur = NoThread /\ queuedThreads # <<>>
    <3> DEFINE t == Head(queuedThreads)
    <3>1. t \in Threads /\ Held(t) /\ tPc[t] = "sem"
      BY <1>1, <2>3, QueueHeads DEF Handles, Held
    <3>2. Resume(t, c)
      BY <1>12, <2>3 DEF DispatchQueued
    <3>3. QED
      BY <2>1, <3>1, <3>2, ResumeErrands
  <2>4. CASE cur = NoThread /\ queuedThreads = <<>>
    BY <1>4, <1>12, <2>4 DEF DispatchQueued, MakeThreadFor
  <2>5. QED
    BY <2>2, <2>3, <2>4
<1>13. CASE DispatchRetire
  <2> PICK t \in Threads : t = cur
    BY <1>1, <1>13 DEF DispatchRetire, TypeOK
  <2>1. tPc[t] = "sem" /\ sem[t] = 0
    BY <1>1, <1>13 DEF DispatchRetire, Hand, Handles, Held
  <2>2. /\ exitFlag'[t] /\ sem'[t] = 1 /\ UNCHANGED <<tPc, numClients, socket>>
        /\ \A u \in Threads \ {t} : exitFlag'[u] = exitFlag[u] /\ sem'[u] = sem[u]
    BY <1>2, <1>13, <2>1 DEF DispatchRetire, Wakeup
  <2>3. Errand(t) /\ (Quiet' => QuietErrand(t))
    BY <1>1, <1>3, <2>1 DEF Errands
  <2>4. Errand(t)' /\ (Quiet' => QuietErrand(t)')
    BY <2>1, <2>2, <2>3 DEF Errand, QuietErrand
  <2>5. QED
    BY <1>5, <2>1, <2>2, <2>4
<1>14. ASSUME NEW c \in Conns, AcceptServe(c) PROVE Errands'
  <2>1. CASE queuedThreads # <<>>
    <3> DEFINE t == Head(queuedThreads)
    <3>1. t \in Threads /\ Held(t) /\ tPc[t] = "sem"
      BY <1>1, <2>1, QueueHeads DEF Handles, Held
    <3>2. Resume(t, c)
      BY <1>14, <2>1 DEF AcceptServe
    <3>3. QED
      BY <3>1, <3>2, ResumeErrands
  <2>2. CASE queuedThreads = <<>>
    BY <1>4, <1>14, <2>2 DEF AcceptServe, MakeThreadFor
  <2>3. QED
    BY <2>1, <2>2
<1>15. ASSUME NEW t \in Threads, ClientsAdd(t) PROVE Errands'
  <2>1. tPc[t] = "unborn" /\ ~exitFlag[t] /\ curConn # NoConn
    BY <1>1, <1>15 DEF ClientsAdd, Errands, Errand, Hand
  <2>2. /\ tPc'[t] = "sem" /\ numClients'[t] = ClientsPerThread /\ sem'[t] = 1
        /\ socket'[t] = curConn /\ UNCHANGED exitFlag
        /\ \A u \in Threads \ {t} : /\ tPc'[u] = tPc[u] /\ numClients'[u] = numClients[u]
                                    /\ sem'[u] = sem[u] /\ socket'[u] = socket[u]
    BY <1>2, <1>15 DEF ClientsAdd
  <2>3. Errand(t)' /\ QuietErrand(t)'
    BY <2>1, <2>2 DEF Errand, QuietErrand
  <2>4. QED
    BY <1>5, <2>1, <2>2, <2>3
<1>16. CASE Mark
  <2>1. UNCHANGED <<tPc, sem, numClients, socket>> /\ ~Quiet'
    BY <1>16 DEF Mark, Quiet
  <2>2. ASSUME NEW u \in Threads PROVE exitFlag'[u] = (exitFlag[u] \/ u = clients[markAt])
    BY <1>16 DEF Mark, Marked
  <2>3. markAt \in Slots
    BY <1>1, <1>16, SlotsExist DEF TypeOK, Mark, Slots
  <2>4. \A u \in Threads : tPc[u] = "unborn" => u # clients[markAt]
    BY <1>1, <2>3 DEF SlotsExact, Alive
  <2>5. ASSUME NEW u \in Threads PROVE Errand(u)'
    BY <1>1, <2>1, <2>2, <2>4 DEF Errands, Errand
  <2>6. QED
    BY <2>1, <2>5 DEF Errands
<1>17. CASE Sweep
  <2>1. UNCHANGED <<tPc, exitFlag, numClients, socket>> /\ ~Quiet'
    BY <1>17 DEF Sweep, Quiet
  <2>2. ASSUME NEW u \in Threads, u \in Range(queuedThreads)
        PROVE  sem[u] = 0 /\ tPc[u] = "sem" /\ exitFlag[u]
    <3>1. sem[u] = 0 /\ tPc[u] = "sem" /\ sPc # "join"
      BY <1>1, <1>17, <2>2 DEF Handles, Held, Sweep
    <3>2. u \in {clients[i] : i \in Slots} \ {NoThread}
      BY <1>1, <3>1 DEF SlotsExact, Alive
    <3>3. PICK i \in Slots : clients[i] = u
      BY <3>2
    <3>4. i < markAt
      BY <1>1, <1>17, SlotsExist DEF TypeOK, Sweep, Slots
    <3>5. QED
      BY <1>1, <1>17, <2>2, <3>1, <3>3, <3>4 DEF MarkedParked, Sweep
  <2>3. ASSUME NEW u \in Threads
        PROVE  sem'[u] = IF u \in Range(queuedThreads) THEN sem[u] + 1 ELSE sem[u]
    BY <1>17 DEF Sweep, WakeParked, Range
  <2>4. ASSUME NEW u \in Threads PROVE Errand(u)'
    <3>1. CASE u \in Range(queuedThreads)
      BY <1>1, <2>1, <2>2, <2>3, <3>1 DEF Errands, Errand
    <3>2. CASE u \notin Range(queuedThreads)
      BY <1>1, <2>1, <2>3, <3>2 DEF Errands, Errand
    <3>3. QED
      BY <3>1, <3>2
  <2>5. QED
    BY <2>1, <2>4 DEF Errands
<1>18. ASSUME NEW t \in Threads, ThreadStep(t) PROVE Errands'
  <2>1. Errand(t) /\ (Quiet' => QuietErrand(t))
    BY <1>1, <1>3 DEF Errands
  <2> USE DEF Errand, QuietErrand
  <2>2. CASE SemP(t)
    BY <1>1, <1>2, <1>5, <2>1, <2>2 DEF SemP, Handles
  <2>3. CASE CheckExit(t)
    BY <1>2, <1>5, <2>1, <2>3 DEF CheckExit
  <2>4. CASE WhileExit(t)
    BY <1>2, <1>5, <2>1, <2>4 DEF WhileExit
  <2>5. CASE Listen(t)
    BY <1>2, <1>5, <2>1, <2>5 DEF Listen, ListenOk, ListenThrows
  <2>6. CASE Deactivate(t)
    BY <1>2, <1>5, <2>1, <2>6 DEF Deactivate
  <2>7. CASE Pause(t)
    BY <1>2, <1>5, <2>1, <2>7 DEF Pause, ExitAfterPause
  <2>8. CASE PipeWrite(t)
    BY <1>1, <1>2, <1>5, <2>1, <2>8 DEF PipeWrite, Handles
  <2>9. CASE Return(t)
    BY <1>2, <1>5, <2>1, <2>9 DEF Return
  <2>10. QED
    BY <1>18, <2>2, <2>3, <2>4, <2>5, <2>6, <2>7, <2>8, <2>9 DEF ThreadStep
<1>19. QED
  BY <1>6, <1>7, <1>8, <1>9, <1>10, <1>11, <1>12, <1>13, <1>14, <1>15, <1>16, <1>17, <1>18
     DEF Next, ServerStep, Accept

(* Every operation keeps the marks on the parked threads. *)
LEMMA MarkedStep ==
  ASSUME IndInv, Next
  PROVE  MarkedParked'
<1>1. TypeOK /\ MarkedParked /\ Handles
  BY DEF IndInv
<1>2. UNCHANGED Slots /\ exitFlag \in [Threads -> BOOLEAN]
      /\ clients \in [Slots -> Threads \union {NoThread}] /\ markAt \in Nat
  BY <1>1, SlotsFixed, SlotsExist DEF TypeOK
<1> USE ConstantFacts DEF serverVars, tableVars, appVars, threadVars, AfterEvent
<1>3. ASSUME UNCHANGED <<sPc, markAt, clients, queuedThreads, exitFlag>> PROVE MarkedParked'
  BY <1>1, <1>2, <1>3 DEF MarkedParked
<1>4. ASSUME sPc' # "mark" PROVE MarkedParked'
  BY <1>4 DEF MarkedParked
<1>5. CASE Environment \/ Gone
  BY <1>3, <1>5 DEF Environment, Connect, Stop, Cancel, Gone, vars
<1>6. CASE ServerLoop \/ ServerJoin
  <2>1. sPc' # "mark" \/ markAt' = 0
    BY <1>6 DEF ServerLoop, ServerJoin
  <2>2. \A i \in Slots : ~(i < 0)
    BY DEF Slots
  <2>3. QED
    BY <1>2, <2>1, <2>2 DEF MarkedParked
<1>7. CASE PollTimeout \/ PipeRead \/ JoinThread \/ DispatchQueued \/ DispatchPark
           \/ DispatchRetire \/ DispatchNothing \/ Accept
  BY <1>4, <1>7 DEF PollTimeout, PipeRead, JoinThread, DispatchQueued, DispatchPark,
     DispatchRetire, DispatchNothing, Accept, AcceptFails, AcceptQueue, AcceptServe,
     Resume, MakeThreadFor
<1>8. CASE ClientsAddSpins \/ (\E t \in Threads : ClientsAdd(t)) \/ Sweep \/ Drain
  BY <1>4, <1>8 DEF ClientsAddSpins, ClientsAdd, Sweep, Drain
<1>9. CASE Mark
  <2>1. /\ UNCHANGED <<sPc, clients, queuedThreads>> /\ markAt' = markAt + 1 /\ sPc = "mark"
        /\ exitFlag' = [t \in Threads |-> exitFlag[t] \/ t = clients[markAt]]
    BY <1>9 DEF Mark, Marked
  <2>2. ASSUME NEW i \in Slots, i < markAt + 1, clients[i] \in Range(queuedThreads)
        PROVE  exitFlag'[clients[i]]
    <3>1. clients[i] \in Threads
      BY <1>1, <2>2, RangeOfSeq DEF TypeOK
    <3>2. i \in Nat /\ (i < markAt \/ i = markAt)
      BY <1>2, <2>2 DEF Slots
    <3>3. QED
      BY <1>1, <2>1, <2>2, <3>1, <3>2 DEF MarkedParked
  <2>3. QED
    BY <1>2, <2>1, <2>2 DEF MarkedParked
<1>10. ASSUME NEW t \in Threads, ThreadStep(t) PROVE MarkedParked'
  <2>1. UNCHANGED <<sPc, markAt, clients, queuedThreads>>
    BY <1>10 DEF ThreadStep, SemP, CheckExit, WhileExit, Listen, ListenOk, ListenThrows,
       Deactivate, Pause, PipeWrite, Return
  <2>2. \A u \in Threads : exitFlag[u] /\ tPc[u] = "sem" => exitFlag'[u]
    BY <1>2, <1>10 DEF ThreadStep, SemP, CheckExit, WhileExit, Listen, ListenOk, ListenThrows,
       Deactivate, Pause, PipeWrite, Return, ThreadGoto
  <2>3. \A u \in Range(queuedThreads) : u \in Threads /\ tPc[u] = "sem"
    BY <1>1, RangeOfSeq DEF TypeOK, Handles
  <2>4. QED
    BY <1>1, <1>2, <2>1, <2>2, <2>3 DEF MarkedParked
<1>11. QED
  BY <1>5, <1>6, <1>7, <1>8, <1>9, <1>10 DEF Next, ServerStep


(* One thread's debts change, and _clientsCount with them. *)
LEMMA PlacesOf ==
  ASSUME IndInv, Next, NEW t \in Threads,
         \A u \in Threads \ {t} :
           /\ tPc'[u] = tPc[u] /\ numClients'[u] = numClients[u] /\ socket'[u] = socket[u]
           /\ u \in Range(pipe)' <=> u \in Range(pipe),
         \/ clientsCount' = clientsCount + (IF t \in Owing' THEN 1 ELSE 0)
                                         - (IF t \in Owing THEN 1 ELSE 0)
         \/ clientsCount' = clientsCount /\ ~Quiet /\ t \notin Owing'
  PROVE  PlacesCounted'
<1>1. PlacesCounted /\ clientsCount \in Nat
  BY DEF IndInv, TypeOK
<1>2. Quiet' => Quiet
  BY QuietEnds
<1>3. Owing \in SUBSET Threads /\ Owing' \in SUBSET Threads
  BY DEF Owing, Alive
<1>4. \A u \in Threads \ {t} : u \in Owing' <=> u \in Owing
  BY DEF Owing, Alive
<1>5. IsFiniteSet(Owing) /\ Cardinality(Owing) \in Nat
  BY <1>3, ConstantFacts, FS_Subset, FS_CardinalityType
<1>6. CASE t \in Owing /\ t \in Owing'
  <2>1. Owing' = Owing
    BY <1>3, <1>4, <1>6
  <2>2. QED
    BY <1>1, <1>2, <1>6, <2>1 DEF PlacesCounted
<1>7. CASE t \notin Owing /\ t \notin Owing'
  <2>1. Owing' = Owing
    BY <1>3, <1>4, <1>7
  <2>2. QED
    BY <1>1, <1>2, <1>7, <2>1 DEF PlacesCounted
<1>8. CASE t \in Owing /\ t \notin Owing'
  <2>1. Owing' = Owing \ {t}
    BY <1>3, <1>4, <1>8
  <2>2. Cardinality(Owing') = Cardinality(Owing) - 1
    BY <1>5, <1>8, <2>1, FS_RemoveElement
  <2>3. QED
    BY <1>1, <1>2, <1>5, <1>8, <2>2 DEF PlacesCounted
<1>9. CASE t \notin Owing /\ t \in Owing'
  <2>1. Owing' = Owing \union {t}
    BY <1>3, <1>4, <1>9
  <2>2. Cardinality(Owing') = Cardinality(Owing) + 1
    BY <1>5, <1>9, <2>1, FS_AddElement
  <2>3. QED
    BY <1>1, <1>2, <1>5, <1>9, <2>2 DEF PlacesCounted
<1>10. QED
  BY <1>6, <1>7, <1>8, <1>9

(* A resumed thread takes a place. *)
LEMMA ResumePlaces ==
  ASSUME IndInv, Next, NEW t \in Threads, NEW c \in Conns, Resume(t, c), UNCHANGED pipe,
         tPc[t] = "sem", Held(t), t \notin Range(pipe)
  PROVE  PlacesCounted'
<1>1. TypeOK /\ Handles /\ Errand(t)
  BY DEF IndInv, Errands
<1>2. /\ sem[t] = 0 /\ socket[t] = NoConn /\ numClients[t] > 0
      /\ numClients[t] \in Int /\ clientsCount \in Nat
      /\ socket \in [Threads -> Conns \union {NoConn}]
  BY <1>1, ConstantFacts DEF Handles, Errand, TypeOK
<1>3. /\ socket'[t] = c /\ UNCHANGED <<tPc, numClients, pipe>> /\ clientsCount' = clientsCount + 1
      /\ \A u \in Threads \ {t} : socket'[u] = socket[u]
  BY <1>2 DEF Resume, CountClient
<1>4. t \notin Owing
  BY <1>2 DEF Owing
<1>5. t \in Owing'
  BY <1>2, <1>3, ConstantFacts DEF Owing, Alive
<1>6. QED
  BY <1>2, <1>3, <1>4, <1>5, PlacesOf

(* Every operation keeps count of the places. *)
LEMMA PlacesStep ==
  ASSUME IndInv, Next
  PROVE  PlacesCounted'
<1>1. TypeOK /\ Errands /\ Hand /\ Handles /\ ConnsApart /\ PlacesCounted
  BY DEF IndInv
<1>2. /\ tPc \in [Threads -> ThreadPcs] /\ pipe \in Seq(Threads) /\ clientsCount \in Nat
      /\ numClients \in [Threads -> {SizeMax} \union 0..ClientsPerThread]
      /\ socket \in [Threads -> Conns \union {NoConn}]
  BY <1>1 DEF TypeOK
<1>3. Quiet' => Quiet
  BY QuietEnds
<1> USE ConstantFacts DEF serverVars, tableVars, appVars, threadVars, ThreadGoto
<1>4. ASSUME UNCHANGED <<pipe, tPc, numClients, socket, clientsCount>> PROVE PlacesCounted'
  BY <1>1, <1>3, <1>4 DEF PlacesCounted, Owing, Alive
<1>5. ASSUME NEW t \in Threads, UNCHANGED clientsCount,
             \A u \in Threads \ {t} :
               /\ tPc'[u] = tPc[u] /\ numClients'[u] = numClients[u] /\ socket'[u] = socket[u]
               /\ u \in Range(pipe)' <=> u \in Range(pipe),
             t \in Owing' <=> t \in Owing
      PROVE  PlacesCounted'
  BY <1>2, <1>5, PlacesOf
<1>6. CASE Environment
  BY <1>4, <1>6 DEF Environment, Connect, Stop, Cancel
<1>7. CASE ServerLoop \/ PollTimeout \/ DispatchNothing \/ DispatchPark \/ DispatchRetire
           \/ ClientsAddSpins
  BY <1>4, <1>7 DEF ServerLoop, PollTimeout, DispatchNothing, DispatchPark, DispatchRetire,
     ClientsAddSpins
<1>8. CASE Mark \/ Sweep \/ Drain \/ ServerJoin \/ Gone
  BY <1>4, <1>8 DEF Mark, Sweep, Drain, ServerJoin, Gone, vars
<1>9. ASSUME NEW c \in Conns, AcceptFails(c) \/ AcceptQueue(c) PROVE PlacesCounted'
  BY <1>4, <1>9 DEF AcceptFails, AcceptQueue
<1>10. CASE PipeRead
  <2> PICK t \in Threads : t = Head(pipe)
    BY <1>1, <1>10, QueueHeads DEF PipeRead
  <2>1. /\ t \in Range(pipe) /\ Range(pipe') = Range(pipe) \ {t}
        /\ UNCHANGED <<tPc, socket>>
        /\ clientsCount' = clientsCount - (IF FreesPlace(t) THEN 1 ELSE 0)
        /\ \A u \in Threads \ {t} : numClients'[u] = numClients[u]
    BY <1>1, <1>2, <1>10, QueueHeads DEF PipeRead
  <2>2. /\ tPc[t] \in {"sem", "returning", "ended"}
        /\ tPc[t] = "sem" => socket[t] = NoConn
    BY <1>1, <2>1 DEF Handles, Held, Errands, Errand
  <2>3. t \in Owing <=> FreesPlace(t)
    BY <2>1, <2>2 DEF Owing, Alive, FreesPlace
  <2>4. t \notin Owing'
    BY <2>1, <2>2 DEF Owing
  <2>5. QED
    BY <1>2, <2>1, <2>3, <2>4, PlacesOf
<1>11. CASE JoinThread
  <2> PICK t \in Threads : t = cur
    BY <1>1, <1>11 DEF JoinThread, Hand, TypeOK
  <2>1. /\ tPc[t] = "ended" /\ t \notin Range(pipe) /\ UNCHANGED <<pipe, numClients, clientsCount>>
        /\ tPc'[t] = "deleted"
        /\ \A u \in Threads \ {t} : tPc'[u] = tPc[u] /\ socket'[u] = socket[u]
    BY <1>1, <1>2, <1>11 DEF JoinThread, Handles
  <2>2. t \notin Owing /\ t \notin Owing'
    BY <2>1 DEF Owing, Alive
  <2>3. QED
    BY <1>5, <2>1, <2>2
<1>12. CASE DispatchQueued
  <2> DEFINE c == Head(queuedConns)
  <2>1. c \in Conns /\ UNCHANGED pipe
    BY <1>1, <1>12, QueueHeads DEF DispatchQueued
  <2>2. CASE cur # NoThread
    <3>1. /\ cur \in Threads /\ tPc[cur] = "sem" /\ Held(cur) /\ cur \notin Range(pipe)
          /\ Resume(cur, c)
      BY <1>1, <1>12, <2>2 DEF TypeOK, Hand, Handles, Held, DispatchQueued
    <3> HIDE DEF c
    <3>2. QED
      BY <2>1, <3>1, ResumePlaces
  <2>3. CASE cur = NoThread /\ queuedThreads # <<>>
    <3> DEFINE t == Head(queuedThreads)
    <3>1. t \in Threads /\ Held(t) /\ tPc[t] = "sem" /\ t \notin Range(pipe)
      BY <1>1, <2>3, QueueHeads DEF Handles, Held
    <3>2. Resume(t, c)
      BY <1>12, <2>3 DEF DispatchQueued
    <3> HIDE DEF c, t
    <3>3. QED
      BY <2>1, <3>1, <3>2, ResumePlaces
  <2>4. CASE cur = NoThread /\ queuedThreads = <<>>
    BY <1>4, <1>12, <2>4 DEF DispatchQueued, MakeThreadFor
  <2>5. QED
    BY <2>2, <2>3, <2>4
<1>13. ASSUME NEW c \in Conns, AcceptServe(c) PROVE PlacesCounted'
  <2>1. CASE queuedThreads # <<>>
    <3> DEFINE t == Head(queuedThreads)
    <3>1. t \in Threads /\ Held(t) /\ tPc[t] = "sem" /\ t \notin Range(pipe)
      BY <1>1, <2>1, QueueHeads DEF Handles, Held
    <3>2. Resume(t, c) /\ UNCHANGED pipe
      BY <1>13, <2>1 DEF AcceptServe
    <3> HIDE DEF t
    <3>3. QED
      BY <3>1, <3>2, ResumePlaces
  <2>2. CASE queuedThreads = <<>>
    BY <1>4, <1>13, <2>2 DEF AcceptServe, MakeThreadFor
  <2>3. QED
    BY <2>1, <2>2
<1>14. ASSUME NEW t \in Threads, ClientsAdd(t) PROVE PlacesCounted'
  <2>1. /\ tPc[t] = "unborn" /\ curConn # NoConn /\ tPc'[t] = "sem"
        /\ numClients'[t] = ClientsPerThread /\ socket'[t] = curConn
        /\ clientsCount' = clientsCount + 1 /\ UNCHANGED pipe
        /\ \A u \in Threads \ {t} : tPc'[u] = tPc[u] /\ numClients'[u] = numClients[u]
                                    /\ socket'[u] = socket[u]
    BY <1>1, <1>2, <1>14 DEF ClientsAdd, Hand, CountClient
  <2>2. t \notin Owing /\ t \in Owing'
    BY <2>1 DEF Owing, Alive
  <2>3. QED
    BY <1>2, <2>1, <2>2, PlacesOf
<1>15. ASSUME NEW t \in Threads, ThreadStep(t) PROVE PlacesCounted'
  <2>1. Errand(t) /\ (Quiet => QuietErrand(t)) /\ (tPc[t] \notin {"sem", "returning", "ended"}
                                                   => t \notin Range(pipe))
    BY <1>1 DEF Errands, Handles, Held
  <2>2. ASSUME UNCHANGED <<pipe, numClients, socket, clientsCount>>,
               NEW to \in ThreadPcs, tPc' = [tPc EXCEPT ![t] = to],
               t \in Owing' <=> t \in Owing
        PROVE  PlacesCounted'
    BY <1>2, <1>5, <2>2
  <2>3. CASE SemP(t)
    BY <1>2, <2>2, <2>3 DEF SemP, Owing, Alive, ThreadPcs
  <2>4. CASE WhileExit(t)
    BY <1>2, <2>2, <2>4 DEF WhileExit, Owing, Alive, ThreadPcs
  <2>5. CASE Listen(t)
    BY <1>2, <2>2, <2>5 DEF Listen, ListenOk, ListenThrows, Owing, Alive, ThreadPcs
  <2>6. CASE Return(t)
    BY <1>2, <2>2, <2>6 DEF Return, Owing, Alive, ThreadPcs
  <2>7. CASE CheckExit(t)
    <3>1. /\ tPc[t] = "check" /\ t \notin Range(pipe) /\ tPc'[t] = "while"
          /\ numClients'[t] = (IF exitFlag[t] THEN SizeMax ELSE numClients[t])
          /\ UNCHANGED <<pipe, socket, clientsCount>>
          /\ \A u \in Threads \ {t} : tPc'[u] = tPc[u] /\ numClients'[u] = numClients[u]
      BY <1>2, <2>1, <2>7 DEF CheckExit
    <3>2. CASE exitFlag[t]
      <4>1. t \notin Owing'
        BY <3>1, <3>2 DEF Owing
      <4>2. Quiet => t \notin Owing
        BY <2>1, <3>1, <3>2 DEF QuietErrand, Owing
      <4>3. QED
        BY <1>2, <3>1, <4>1, <4>2, PlacesOf
    <3>3. CASE ~exitFlag[t]
      BY <1>2, <1>5, <3>1, <3>3 DEF Owing, Alive
    <3>4. QED
      BY <3>2, <3>3
  <2>8. CASE Deactivate(t)
    <3>1. tPc[t] = "deact" /\ t \notin Range(pipe) /\ UNCHANGED <<pipe, socket, clientsCount>>
      BY <2>1, <2>8 DEF Deactivate
    <3>2. /\ IF numClients[t] = SizeMax THEN tPc'[t] = "write" /\ numClients'[t] = SizeMax
                                        ELSE tPc'[t] = "pause" /\ numClients'[t] = numClients[t] - 1
          /\ \A u \in Threads \ {t} : tPc'[u] = tPc[u] /\ numClients'[u] = numClients[u]
      BY <1>2, <2>8 DEF Deactivate
    <3>3. t \in Owing' <=> t \in Owing
      BY <1>2, <2>1, <3>1, <3>2 DEF Owing, Alive, Errand
    <3>4. QED
      BY <1>5, <3>1, <3>2, <3>3
  <2>9. CASE Pause(t)
    <3>1. /\ tPc[t] = "pause" /\ tPc'[t] = "write" /\ UNCHANGED <<pipe, numClients, clientsCount>>
          /\ \A u \in Threads \ {t} : tPc'[u] = tPc[u] /\ socket'[u] = socket[u]
      BY <1>2, <2>9 DEF Pause
    <3>2. t \in Owing' <=> t \in Owing
      BY <2>1, <3>1 DEF Owing, Alive, Errand
    <3>3. QED
      BY <1>5, <3>1, <3>2
  <2>10. CASE PipeWrite(t)
    <3>1. /\ tPc[t] = "write" /\ tPc'[t] \in {"returning", "sem"}
          /\ UNCHANGED <<socket, numClients, clientsCount>>
          /\ Range(pipe') = Range(pipe) \union {t}
          /\ \A u \in Threads \ {t} : tPc'[u] = tPc[u]
      BY <1>2, <2>10, Appended DEF PipeWrite
    <3>2. t \in Owing' <=> t \in Owing
      BY <3>1 DEF Owing, Alive
    <3>3. QED
      BY <1>5, <3>1, <3>2
  <2>11. QED
    BY <1>15, <2>3, <2>4, <2>5, <2>6, <2>7, <2>8, <2>9, <2>10 DEF ThreadStep
<1>16. QED
  BY <1>6, <1>7, <1>8, <1>9, <1>10, <1>11, <1>12, <1>13, <1>14, <1>15
     DEF Next, ServerStep, Accept

(* A connection that waited, or has just been made, is given to a thread. *)
LEMMA GivenConns ==
  ASSUME TypeOK, ConnsApart, Hand, sPc # "add", NEW c \in Conns, conn[c] # "open",
         \/ \E t \in Threads : socket[t] = NoConn /\ Resume(t, c)
         \/ MakeThreadFor(c),
         conn' = [conn EXCEPT ![c] = "open"],
         IsInjective(queuedConns'), Range(queuedConns') = Range(queuedConns) \ {c}
  PROVE  ConnsApart'
<1> USE ConstantFacts
<1>1. /\ curConn = NoConn /\ socket \in [Threads -> Conns \union {NoConn}]
      /\ conn'[c] = "open" /\ \A d \in Conns \ {c} : conn'[d] = conn[d]
      /\ \A t \in Threads : socket[t] # c
  BY DEF TypeOK, Hand, ConnsApart
<1>2. ASSUME NEW d \in Conns PROVE conn'[d] = "queued" <=> d \in Range(queuedConns')
  BY <1>1 DEF ConnsApart
<1>3. CASE MakeThreadFor(c)
  <2>1. curConn' = c /\ UNCHANGED socket
    BY <1>3 DEF MakeThreadFor, threadVars
  <2>2. QED
    BY <1>1, <1>2, <2>1 DEF ConnsApart
<1>4. ASSUME NEW t \in Threads, socket[t] = NoConn, Resume(t, c) PROVE ConnsApart'
  <2>1. /\ UNCHANGED curConn /\ socket'[t] = c
        /\ \A u \in Threads \ {t} : socket'[u] = socket[u]
    BY <1>1, <1>4 DEF Resume
  <2>2. ASSUME NEW d \in Conns
        PROVE  conn'[d] = "open" <=> curConn' = d \/ \E u \in Threads : socket'[u] = d
    BY <1>1, <1>4, <2>1 DEF ConnsApart
  <2>3. ASSUME NEW d \in Conns, NEW u \in Threads, NEW v \in Threads,
               socket'[u] = d, socket'[v] = d
        PROVE  u = v
    BY <1>1, <1>4, <2>1, <2>3 DEF ConnsApart
  <2>4. QED
    BY <1>1, <1>2, <2>1, <2>2, <2>3 DEF ConnsApart
<1>5. QED
  BY <1>3, <1>4

(* Every operation leaves each connection in one place. *)
LEMMA ConnsStep ==
  ASSUME IndInv, Next
  PROVE  ConnsApart'
<1>1. TypeOK /\ Errands /\ Hand /\ Handles /\ ConnsApart
  BY DEF IndInv
<1>2. /\ tPc \in [Threads -> ThreadPcs] /\ queuedConns \in Seq(Conns)
      /\ socket \in [Threads -> Conns \union {NoConn}]
      /\ conn \in [Conns -> {"idle", "pending", "queued", "open", "closed", "dropped"}]
  BY <1>1 DEF TypeOK
<1>3. \A t \in Threads : Held(t) /\ tPc[t] = "sem" => socket[t] = NoConn
  BY <1>1 DEF Handles, Errands, Errand
<1> USE ConstantFacts DEF serverVars, tableVars, appVars, threadVars, Pending
<1>4. ASSUME UNCHANGED <<queuedConns, conn, curConn, socket>> PROVE ConnsApart'
  BY <1>1, <1>4 DEF ConnsApart
<1>5. ASSUME NEW c \in Conns, Connect(c) PROVE ConnsApart'
  BY <1>1, <1>2, <1>5 DEF Connect, ConnsApart
<1>6. CASE Stop \/ Cancel
  BY <1>4, <1>6 DEF Stop, Cancel
<1>7. CASE ServerLoop \/ PollTimeout \/ PipeRead \/ DispatchNothing \/ DispatchPark
           \/ DispatchRetire \/ ClientsAddSpins
  BY <1>4, <1>7 DEF ServerLoop, PollTimeout, PipeRead, DispatchNothing, DispatchPark,
     DispatchRetire, ClientsAddSpins
<1>8. CASE Mark \/ Drain \/ ServerJoin \/ Gone
  BY <1>4, <1>8 DEF Mark, Drain, ServerJoin, Gone, vars
<1>9. CASE JoinThread
  <2>1. cur \in Threads
    BY <1>1, <1>9 DEF JoinThread, Hand, TypeOK
  <2>2. QED
    BY <1>1, <1>2, <1>9, <2>1 DEF JoinThread, ConnsApart
<1>10. CASE DispatchQueued
  <2> DEFINE c == Head(queuedConns)
  <2>1. /\ c \in Conns /\ c \in Range(queuedConns)
        /\ queuedConns' = Tail(queuedConns) /\ conn' = [conn EXCEPT ![c] = "open"]
        /\ IsInjective(queuedConns') /\ Range(queuedConns') = Range(queuedConns) \ {c}
    BY <1>1, <1>10, QueueHeads DEF DispatchQueued
  <2>2. conn[c] # "open" /\ sPc # "add"
    BY <1>1, <1>10, <2>1 DEF DispatchQueued, ConnsApart
  <2>3. (\E t \in Threads : socket[t] = NoConn /\ Resume(t, c)) \/ MakeThreadFor(c)
    <3>1. CASE cur # NoThread
      <4>1. /\ cur \in Threads /\ socket[cur] = NoConn /\ Resume(cur, c)
        BY <1>1, <1>3, <1>10, <3>1 DEF TypeOK, Hand, Held, DispatchQueued
      <4>2. QED
        BY <4>1
    <3>2. CASE cur = NoThread /\ queuedThreads # <<>>
      <4> DEFINE t == Head(queuedThreads)
      <4>1. t \in Threads /\ Held(t) /\ tPc[t] = "sem"
        BY <1>1, <3>2, QueueHeads DEF Handles, Held
      <4>2. Resume(t, c)
        BY <1>10, <3>2 DEF DispatchQueued
      <4>3. QED
        BY <1>3, <4>1, <4>2
    <3>3. CASE cur = NoThread /\ queuedThreads = <<>>
      BY <1>10, <3>3 DEF DispatchQueued
    <3>4. QED
      BY <3>1, <3>2, <3>3
  <2> HIDE DEF c
  <2>4. QED
    BY <1>1, <2>1, <2>2, <2>3, GivenConns
<1>11. ASSUME NEW c \in Conns, AcceptFails(c) PROVE ConnsApart'
  BY <1>1, <1>2, <1>11 DEF AcceptFails, ConnsApart
<1>12. ASSUME NEW c \in Conns, AcceptQueue(c) PROVE ConnsApart'
  <2>1. conn[c] = "pending" /\ conn' = [conn EXCEPT ![c] = "queued"] /\ UNCHANGED <<curConn, socket>>
    BY <1>12 DEF AcceptQueue
  <2>2. c \notin Range(queuedConns)
    BY <1>1, <2>1 DEF ConnsApart
  <2>3. IsInjective(queuedConns') /\ Range(queuedConns') = Range(queuedConns) \union {c}
    BY <1>1, <1>2, <1>12, <2>2, Appended DEF AcceptQueue, ConnsApart
  <2>4. QED
    BY <1>1, <1>2, <2>1, <2>3 DEF ConnsApart
<1>13. ASSUME NEW c \in Conns, AcceptServe(c) PROVE ConnsApart'
  <2>1. /\ conn[c] = "pending" /\ conn' = [conn EXCEPT ![c] = "open"] /\ sPc # "add"
        /\ UNCHANGED queuedConns
    BY <1>13 DEF AcceptServe
  <2>2. IsInjective(queuedConns') /\ Range(queuedConns') = Range(queuedConns) \ {c}
    BY <1>1, <2>1 DEF ConnsApart
  <2>3. (\E t \in Threads : socket[t] = NoConn /\ Resume(t, c)) \/ MakeThreadFor(c)
    <3>1. CASE queuedThreads # <<>>
      <4> DEFINE t == Head(queuedThreads)
      <4>1. t \in Threads /\ Held(t) /\ tPc[t] = "sem"
        BY <1>1, <3>1, QueueHeads DEF Handles, Held
      <4>2. Resume(t, c)
        BY <1>13, <3>1 DEF AcceptServe
      <4>3. QED
        BY <1>3, <4>1, <4>2
    <3>2. CASE queuedThreads = <<>>
      BY <1>13, <3>2 DEF AcceptServe
    <3>3. QED
      BY <3>1, <3>2
  <2>4. QED
    BY <1>1, <2>1, <2>2, <2>3, GivenConns
<1>14. ASSUME NEW t \in Threads, ClientsAdd(t) PROVE ConnsApart'
  <2>1. /\ socket[t] = NoConn /\ curConn \in Conns /\ UNCHANGED <<queuedConns, conn>>
        /\ socket'[t] = curConn /\ curConn' = NoConn
        /\ \A u \in Threads \ {t} : socket'[u] = socket[u]
    BY <1>1, <1>2, <1>14 DEF ClientsAdd, Errands, Errand, Hand, TypeOK
  <2>2. QED
    BY <1>1, <1>2, <2>1 DEF ConnsApart
<1>15. CASE Sweep
  <2>1. Range(queuedConns') = {} /\ IsInjective(queuedConns') /\ UNCHANGED <<curConn, socket>>
    BY <1>15, NoneLeft DEF Sweep
  <2>2. \A c \in Conns : conn'[c] = IF conn[c] = "queued" THEN "dropped" ELSE conn[c]
    BY <1>15 DEF Sweep
  <2>3. QED
    BY <1>1, <2>1, <2>2 DEF ConnsApart
<1>16. ASSUME NEW t \in Threads, ThreadStep(t) PROVE ConnsApart'
  <2>1. CASE Pause(t)
    <3>1. /\ socket[t] \in Conns /\ UNCHANGED <<queuedConns, curConn>> /\ socket'[t] = NoConn
          /\ \A u \in Threads \ {t} : socket'[u] = socket[u]
          /\ conn' = [conn EXCEPT ![socket[t]] = "closed"]
      BY <1>1, <1>2, <2>1 DEF Pause, ThreadGoto, Errands, Errand
    <3>2. QED
      BY <1>1, <1>2, <3>1 DEF ConnsApart
  <2>2. CASE ~Pause(t)
    BY <1>4, <1>16, <2>2 DEF ThreadStep, SemP, CheckExit, WhileExit, Listen, ListenOk,
       ListenThrows, Deactivate, PipeWrite, Return
  <2>3. QED
    BY <2>1, <2>2
<1>17. QED
  BY <1>5, <1>6, <1>7, <1>8, <1>9, <1>10, <1>11, <1>12, <1>13, <1>14, <1>15, <1>16
     DEF Next, Environment, ServerStep, Accept

(* Every operation uses a free place, or has it on the way. *)
LEMMA QueueStep ==
  ASSUME IndInv, Next
  PROVE  QueueWaits'
<1>1. TypeOK /\ Hand /\ QueueWaits /\ Handles /\ ConnsApart
  BY DEF IndInv
<1>2. clientsCount \in Nat /\ UNCHANGED clientsMax /\ clientsMax \in Nat
  BY <1>1, SlotsFixed, ConstantFacts DEF TypeOK
<1>3. Quiet' => Quiet
  BY QuietEnds
<1> USE DEF serverVars, tableVars, appVars, threadVars, AfterEvent
<1>4. ASSUME UNCHANGED <<clientsCount, queuedConns>>,
             sPc \in {"join", "dispatch", "add"} => sPc' \in {"join", "dispatch", "add"}
      PROVE  QueueWaits'
  BY <1>1, <1>2, <1>3, <1>4 DEF QueueWaits
<1>5. ASSUME queuedConns' = <<>> PROVE QueueWaits'
  BY <1>5 DEF QueueWaits
<1>6. CASE Environment
  BY <1>4, <1>6 DEF Environment, Connect, Stop, Cancel
<1>7. CASE ServerLoop \/ PollTimeout \/ ClientsAddSpins \/ Mark \/ Drain \/ ServerJoin \/ JoinThread
  BY <1>4, <1>7 DEF ServerLoop, PollTimeout, ClientsAddSpins, Mark, Drain, ServerJoin, JoinThread
<1>8. CASE DispatchPark \/ DispatchRetire \/ DispatchNothing \/ Sweep
  BY <1>5, <1>8 DEF DispatchPark, DispatchRetire, DispatchNothing, Sweep
<1>9. CASE Gone
  BY <1>4, <1>9 DEF Gone, vars
<1>10. CASE PipeRead
  <2>1. /\ sPc = "poll" /\ sPc' \in {"join", "dispatch"} /\ UNCHANGED queuedConns
        /\ clientsCount' \in {clientsCount, clientsCount - 1}
    BY <1>2, <1>10 DEF PipeRead
  <2>2. QED
    BY <1>1, <1>2, <1>3, <2>1 DEF QueueWaits
<1>11. CASE DispatchQueued
  <2>1. sPc = "dispatch" /\ queuedConns # <<>>
    BY <1>11 DEF DispatchQueued
  <2>2. \/ UNCHANGED clientsCount /\ sPc' = "add"
        \/ clientsCount' = clientsCount + 1
    BY <1>11 DEF DispatchQueued, Resume, CountClient, MakeThreadFor
  <2>3. QED
    BY <1>1, <1>2, <1>3, <2>1, <2>2 DEF QueueWaits
<1>12. ASSUME NEW c \in Conns, AcceptFails(c) PROVE QueueWaits'
  BY <1>4, <1>12 DEF AcceptFails
<1>13. ASSUME NEW c \in Conns, AcceptQueue(c) PROVE QueueWaits'
  BY <1>2, <1>13 DEF AcceptQueue, Full, QueueWaits
<1>14. ASSUME NEW c \in Conns, AcceptServe(c) PROVE QueueWaits'
  <2>1. sPc = "poll" /\ UNCHANGED queuedConns /\ clientsCount' \in {clientsCount, clientsCount + 1}
    BY <1>14 DEF AcceptServe, Resume, CountClient, MakeThreadFor
  <2>2. QED
    BY <1>1, <1>2, <1>3, <2>1 DEF QueueWaits
<1>15. ASSUME NEW t \in Threads, ClientsAdd(t) PROVE QueueWaits'
  <2>1. sPc = "add" /\ UNCHANGED queuedConns /\ clientsCount' = clientsCount + 1
    BY <1>15 DEF ClientsAdd, CountClient
  <2>2. QED
    BY <1>1, <1>2, <1>3, <2>1 DEF QueueWaits
<1>16. ASSUME NEW t \in Threads, ThreadStep(t) PROVE QueueWaits'
  BY <1>4, <1>16 DEF ThreadStep, SemP, CheckExit, WhileExit, Listen, ListenOk, ListenThrows,
     Deactivate, Pause, PipeWrite, Return
<1>17. QED
  BY <1>6, <1>7, <1>8, <1>9, <1>10, <1>11, <1>12, <1>13, <1>14, <1>15, <1>16
     DEF Next, ServerStep, Accept

(* Every step keeps the invariant. *)
LEMMA IndInvStep == IndInv /\ [Next]_vars => IndInv'
<1> SUFFICES ASSUME IndInv, [Next]_vars PROVE IndInv'
  OBVIOUS
<1>1. CASE Next
  BY <1>1, TypeStep, StopStep, HandlesStep, HandStep, SlotsStep, ErrandsStep, MarkedStep,
     PlacesStep, ConnsStep, QueueStep DEF IndInv
<1>2. CASE UNCHANGED vars
  <2> USE <1>2 DEF vars, serverVars, tableVars, appVars, threadVars
  <2>1. UNCHANGED <<ClientsSize, Slots>>
    BY SlotsStay
  <2>2. TypeOK' /\ StopKnown' /\ Hand'
    BY <2>1 DEF IndInv, TypeOK, StopKnown, Quiet, Hand
  <2>3. Handles' /\ SlotsExact' /\ MarkedParked'
    BY <2>1 DEF IndInv, Handles, Held, SlotsExact, Alive, MarkedParked
  <2>4. Errands'
    BY DEF IndInv, Errands, Errand, QuietErrand, Quiet
  <2>5. PlacesCounted' /\ ConnsApart' /\ QueueWaits'
    BY DEF IndInv, PlacesCounted, Owing, Alive, ConnsApart, QueueWaits, Quiet
  <2>6. QED
    BY <2>2, <2>3, <2>4, <2>5 DEF IndInv
<1>3. QED
  BY <1>1, <1>2

-------------------------------------------------------------------------------
(* Slots for all *)

(* While no thread has retired, a parked thread has been counted by what   *)
(* there is room for, and no thread is retired.                            *)
LEMMA RoomToPark ==
  ASSUME IndInv, RoomInv, EnoughSlots, Quiet
  PROVE  ~DispatchRetire
<1> SUFFICES ASSUME DispatchRetire PROVE FALSE
  OBVIOUS
<1>1. TypeOK /\ Handles /\ Hand /\ sPc = "dispatch" /\ cur # NoThread
      /\ Len(queuedThreads) >= pausedMax
  BY DEF IndInv, DispatchRetire
<1>2. cur \in Threads /\ tPc[cur] = "sem" /\ Held(cur)
  BY <1>1 DEF TypeOK, Hand, Held
<1>3. ClientsPerThread # 1
  BY <1>2 DEF RoomInv, Retained
<1>4. /\ queuedThreads \in Seq(Threads) /\ IsInjective(queuedThreads) /\ Len(queuedThreads) \in Nat
      /\ DOMAIN queuedThreads = 1..Len(queuedThreads)
  BY <1>1 DEF TypeOK, Handles
<1>5. Range(queuedThreads) \subseteq Threads
  BY <1>4 DEF Range
<1>6. Range(queuedThreads) \union {cur} \subseteq Alive /\ cur \notin Range(queuedThreads)
  BY <1>1, <1>2, <1>5 DEF Handles, Alive
<1>7. IsFiniteSet(Alive) /\ Cardinality(Alive) \in Nat
  BY ConstantFacts, FS_Subset, FS_CardinalityType DEF Alive
<1>8. IsFiniteSet(Range(queuedThreads)) /\ Cardinality(Range(queuedThreads)) = Len(queuedThreads)
  <2>1. queuedThreads \in Bijection(1..Len(queuedThreads), Range(queuedThreads))
    BY <1>4 DEF Bijection, Injection, Surjection, Range, IsInjective
  <2>2. IsFiniteSet(1..Len(queuedThreads)) /\ Cardinality(1..Len(queuedThreads)) = Len(queuedThreads)
    BY <1>4, FS_Interval, SMTT(30)
  <2>3. QED
    BY <2>1, <2>2, FS_Bijection DEF ExistsBijection
<1>9. Cardinality(Range(queuedThreads) \union {cur}) = Len(queuedThreads) + 1
  BY <1>6, <1>8, FS_AddElement
<1>10. Len(queuedThreads) + 1 <= Cardinality(Alive)
  BY <1>6, <1>7, <1>9, FS_Subset
<1>11. /\ Cardinality(Alive) + (IF ClientAwaited THEN 1 ELSE 0) <= clientsMax
       /\ clientsMax \in ClientsMaxes /\ pausedMax \in PausedMaxes
       /\ clientsMax \in Nat /\ pausedMax \in Nat
  BY <1>1, NetServerAssumption DEF RoomInv, TypeOK
<1>12. clientsMax <= pausedMax
  BY <1>3, <1>11 DEF EnoughSlots
<1>13. QED
  BY <1>1, <1>4, <1>7, <1>10, <1>11, <1>12

(* A thread stays so until the shutdown. *)
LEMMA RetainedStep ==
  ASSUME IndInv, RoomInv, EnoughSlots, Next, Quiet', NEW t \in Threads
  PROVE  Retained(t)'
<1>1. /\ TypeOK /\ Hand /\ Handles /\ ConnsApart /\ Quiet /\ Retained(t) /\ Errand(t)
      /\ QuietErrand(t)
  BY QuietEnds DEF IndInv, RoomInv, Errands
<1>2. /\ tPc \in [Threads -> ThreadPcs] /\ sem \in [Threads -> Nat]
      /\ numClients \in [Threads -> {SizeMax} \union 0..ClientsPerThread]
      /\ exitFlag \in [Threads -> BOOLEAN] /\ pipe \in Seq(Threads) /\ queuedThreads \in Seq(Threads)
  BY <1>1 DEF TypeOK
<1> USE ConstantFacts DEF serverVars, tableVars, appVars, threadVars, ThreadGoto
<1>3. ASSUME UNCHANGED <<tPc, numClients, exitFlag>>, Held(t)' => Held(t) PROVE Retained(t)'
  BY <1>1, <1>3 DEF Retained
<1>4. CASE Environment
  BY <1>3, <1>4 DEF Environment, Connect, Stop, Cancel, Held
<1>5. CASE ServerLoop \/ PollTimeout \/ DispatchNothing \/ ClientsAddSpins
  BY <1>3, <1>5 DEF ServerLoop, PollTimeout, DispatchNothing, ClientsAddSpins, Held
<1>6. CASE Mark \/ Sweep \/ ServerJoin
  BY <1>1, <1>6 DEF Mark, Sweep, ServerJoin, Quiet
<1>7. CASE Drain \/ Gone
  BY <1>3, <1>7 DEF Drain, Gone, vars, Held
<1>8. CASE PipeRead
  <2>1. /\ Head(pipe) \in Range(pipe) /\ Range(pipe') \subseteq Range(pipe) /\ cur' = Head(pipe)
        /\ UNCHANGED <<queuedThreads, tPc, exitFlag>>
    BY <1>1, <1>8, QueueHeads DEF PipeRead
  <2>2. Held(t)' => Held(t)
    BY <2>1 DEF Held
  <2>3. numClients'[t] = numClients[t]
    BY <1>1, <1>2, <1>8 DEF PipeRead, Retained
  <2>4. QED
    BY <1>1, <2>1, <2>2, <2>3 DEF Retained
<1>9. CASE JoinThread
  <2>1. /\ tPc' = [tPc EXCEPT ![cur] = "deleted"] /\ UNCHANGED <<numClients, exitFlag, pipe, queuedThreads>>
        /\ cur' = NoThread
    BY <1>9 DEF JoinThread
  <2>2. Held(t)' => Held(t)
    BY <2>1 DEF Held
  <2>3. tPc'[t] \in {tPc[t], "deleted"}
    BY <1>2, <2>1
  <2>4. QED
    BY <1>1, <2>1, <2>2, <2>3 DEF Retained
<1>10. CASE DispatchQueued
  <2>1. UNCHANGED <<tPc, numClients, exitFlag, pipe>> /\ cur' = NoThread
    BY <1>10 DEF DispatchQueued, Resume, MakeThreadFor
  <2>2. Range(queuedThreads') \subseteq Range(queuedThreads)
    BY <1>1, <1>10, QueueHeads DEF DispatchQueued
  <2>3. QED
    BY <1>3, <2>1, <2>2 DEF Held
<1>11. CASE DispatchPark
  <2>1. /\ UNCHANGED <<tPc, numClients, exitFlag, pipe>> /\ cur' = NoThread /\ cur \in Threads
        /\ queuedThreads' = Append(queuedThreads, cur)
    BY <1>1, <1>11 DEF DispatchPark, TypeOK
  <2>2. Range(queuedThreads') = Range(queuedThreads) \union {cur}
    BY <1>2, <2>1, Appended
  <2>3. QED
    BY <1>3, <2>1, <2>2 DEF Held
<1>12. CASE DispatchRetire
  BY <1>1, <1>12, RoomToPark
<1>13. ASSUME NEW c \in Conns, AcceptFails(c) \/ AcceptQueue(c) PROVE Retained(t)'
  BY <1>3, <1>13 DEF AcceptFails, AcceptQueue, Held
<1>14. ASSUME NEW c \in Conns, AcceptServe(c) PROVE Retained(t)'
  <2>1. UNCHANGED <<tPc, numClients, exitFlag, pipe, cur>>
    BY <1>14 DEF AcceptServe, Resume, MakeThreadFor
  <2>2. Range(queuedThreads') \subseteq Range(queuedThreads)
    BY <1>1, <1>14, QueueHeads DEF AcceptServe
  <2>3. QED
    BY <1>3, <2>1, <2>2 DEF Held
<1>15. ASSUME NEW u \in Threads, ClientsAdd(u) PROVE Retained(t)'
  <2>1. /\ tPc[u] = "unborn" /\ tPc' = [tPc EXCEPT ![u] = "sem"]
        /\ numClients' = [numClients EXCEPT ![u] = ClientsPerThread]
        /\ UNCHANGED <<exitFlag, pipe, queuedThreads, cur>>
    BY <1>15 DEF ClientsAdd
  <2>2. Held(t)' <=> Held(t)
    BY <2>1 DEF Held
  <2>3. CASE t = u
    <3>1. ~Held(t) /\ ~exitFlag[t]
      BY <1>1, <2>1, <2>3 DEF Handles, Errand
    <3>2. tPc'[t] = "sem" /\ numClients'[t] = ClientsPerThread
      BY <1>2, <2>1, <2>3
    <3>3. QED
      BY <2>1, <2>2, <3>1, <3>2 DEF Retained
  <2>4. CASE t # u
    <3>1. tPc'[t] = tPc[t] /\ numClients'[t] = numClients[t]
      BY <1>2, <2>1, <2>4
    <3>2. QED
      BY <1>1, <2>1, <2>2, <3>1 DEF Retained
  <2>5. QED
    BY <2>3, <2>4
<1>16. ASSUME NEW u \in Threads, ThreadStep(u), u # t PROVE Retained(t)'
  <2>1. /\ tPc'[t] = tPc[t] /\ numClients'[t] = numClients[t] /\ exitFlag'[t] = exitFlag[t]
        /\ UNCHANGED <<queuedThreads, cur>>
    BY <1>2, <1>16 DEF ThreadStep, SemP, CheckExit, WhileExit, Listen, ListenOk, ListenThrows,
       Deactivate, Pause, PipeWrite, Return
  <2>2. t \in Range(pipe') => t \in Range(pipe)
    <3>1. UNCHANGED pipe \/ pipe' = Append(pipe, u)
      BY <1>16 DEF ThreadStep, SemP, CheckExit, WhileExit, Listen, ListenOk, ListenThrows,
         Deactivate, Pause, PipeWrite, Return
    <3>2. Range(Append(pipe, u)) = Range(pipe) \union {u}
      BY <1>2, Appended
    <3>3. QED
      BY <1>16, <3>1, <3>2
  <2>3. QED
    BY <1>1, <2>1, <2>2 DEF Retained, Held
<1>17. CASE ThreadStep(t)
  <2>1. CASE SemP(t) \/ CheckExit(t) \/ WhileExit(t) \/ ListenOk(t) \/ ListenThrows(t)
    BY <1>1, <1>2, <2>1 DEF SemP, CheckExit, WhileExit, ListenOk, ListenThrows, Retained, Held
  <2>2. CASE Deactivate(t)
    <3>1. /\ tPc[t] = "deact" /\ tPc'[t] = "pause" /\ numClients'[t] = numClients[t] - 1
          /\ numClients[t] \in 1..ClientsPerThread /\ UNCHANGED exitFlag
      BY <1>1, <1>2, <2>2 DEF Deactivate, Retained, Errand
    <3>2. QED
      BY <1>1, <3>1 DEF Retained
  <2>3. CASE Pause(t)
    <3>1. tPc[t] = "pause" /\ tPc'[t] = "write" /\ UNCHANGED numClients
      BY <1>2, <2>3 DEF Pause
    <3>2. QED
      BY <1>1, <3>1 DEF Retained
  <2>4. CASE PipeWrite(t)
    <3>1. /\ tPc[t] = "write" /\ UNCHANGED <<numClients, exitFlag>> /\ ~exitFlag[t]
          /\ tPc'[t] = IF numClients[t] \in {0, SizeMax} THEN "returning" ELSE "sem"
      BY <1>1, <1>2, <2>4 DEF PipeWrite, Retained, QuietErrand
    <3>2. QED
      BY <1>1, <3>1 DEF Retained
  <2>5. CASE Return(t)
    BY <1>1, <1>2, <2>5 DEF Return, Retained
  <2>6. QED
    BY <1>17, <2>1, <2>2, <2>3, <2>4, <2>5 DEF ThreadStep, Listen
<1>18. QED
  BY <1>4, <1>5, <1>6, <1>7, <1>8, <1>9, <1>10, <1>11, <1>12, <1>13, <1>14, <1>15, <1>16, <1>17
     DEF Next, ServerStep, Accept

(* Once the shutdown has emptied the queues nothing asks for a thread. *)
LEMMA DrainedStep ==
  ASSUME IndInv, Drained, Next
  PROVE  Drained'
<1>1. TypeOK /\ Hand
  BY DEF IndInv
<1> USE <1>1 DEF Drained, AfterEvent, serverVars, tableVars, appVars, threadVars, ThreadGoto
<1>2. CASE Environment
  BY <1>2 DEF Environment, Connect, Stop, Cancel
<1>3. CASE ServerStep
  BY <1>3 DEF ServerStep, ServerLoop, PollTimeout, PipeRead, JoinThread, DispatchQueued,
     DispatchPark, DispatchRetire, DispatchNothing, Accept, AcceptFails, AcceptQueue,
     AcceptServe, Resume, MakeThreadFor, ClientsAdd, ClientsAddSpins, Mark, Sweep, Drain
<1>4. CASE \E t \in Threads : ThreadStep(t)
  BY <1>4 DEF ThreadStep, SemP, CheckExit, WhileExit, Listen, ListenOk, ListenThrows,
     Deactivate, Pause, PipeWrite, Return
<1>5. QED
  BY <1>2, <1>3, <1>4 DEF Next, ServerJoin, Gone, vars

(* There is always room for the thread that is to be made. *)
LEMMA RoomStep ==
  ASSUME IndInv, RoomInv, EnoughSlots, Next
  PROVE  RoomInv'
<1>1. TypeOK /\ Hand /\ Handles /\ ConnsApart /\ PlacesCounted /\ Errands /\ RoomInv
  BY DEF IndInv
<1>2. /\ tPc \in [Threads -> ThreadPcs] /\ IsFiniteSet(Alive) /\ Cardinality(Alive) \in Nat
      /\ clientsMax \in Nat \ {0} /\ clientsCount \in Nat /\ UNCHANGED clientsMax
  BY <1>1, SlotsFixed, ConstantFacts, FS_Subset, FS_CardinalityType DEF TypeOK, Alive
<1> USE ConstantFacts DEF serverVars, tableVars, appVars, threadVars, ThreadGoto
<1>3. Drained'
  BY <1>1, DrainedStep DEF RoomInv
<1>4. SUFFICES ASSUME Quiet'
               PROVE  Cardinality(Alive') + (IF ClientAwaited' THEN 1 ELSE 0) <= clientsMax
  BY <1>2, <1>3, RetainedStep DEF RoomInv
<1>5. Quiet /\ Cardinality(Alive) + (IF ClientAwaited THEN 1 ELSE 0) <= clientsMax
  BY <1>1, <1>4, QuietEnds DEF RoomInv
<1>6. ASSUME Alive' = Alive, ClientAwaited' => ClientAwaited
      PROVE  Cardinality(Alive') + (IF ClientAwaited' THEN 1 ELSE 0) <= clientsMax
  BY <1>2, <1>5, <1>6
<1> USE DEF AfterEvent
<1>7. CASE Environment
  BY <1>6, <1>7 DEF Environment, Connect, Stop, Cancel, Alive, ClientAwaited
<1>8. CASE ServerLoop \/ PollTimeout \/ DispatchNothing \/ ClientsAddSpins \/ Drain
  BY <1>6, <1>8 DEF ServerLoop, PollTimeout, DispatchNothing, ClientsAddSpins, Drain, Alive,
     ClientAwaited
<1>9. CASE Mark \/ Sweep \/ ServerJoin
  BY <1>4, <1>5, <1>9 DEF Mark, Sweep, ServerJoin, Quiet
<1>10. CASE Gone
  BY <1>6, <1>10 DEF Gone, vars, Alive, ClientAwaited
<1>11. CASE PipeRead
  <2>1. cur' \in Threads /\ UNCHANGED tPc /\ sPc' # "add"
    BY <1>1, <1>11, QueueHeads DEF PipeRead
  <2>2. QED
    BY <1>6, <2>1 DEF Alive, ClientAwaited
<1>12. CASE JoinThread
  <2>1. cur \in Alive /\ Alive' = Alive \ {cur} /\ ~ClientAwaited
    BY <1>1, <1>2, <1>12 DEF JoinThread, Hand, TypeOK, Alive, ClientAwaited
  <2>2. Cardinality(Alive') = Cardinality(Alive) - 1
    BY <1>2, <2>1, FS_RemoveElement
  <2>3. QED
    BY <1>2, <1>5, <2>1, <2>2
<1>13. CASE DispatchQueued
  <2>1. UNCHANGED tPc /\ sPc' # "dispatch" /\ (sPc' = "add" => sPc = "dispatch" /\ cur = NoThread)
    BY <1>13 DEF DispatchQueued, Resume, MakeThreadFor
  <2>2. QED
    BY <1>6, <2>1 DEF Alive, ClientAwaited
<1>14. CASE DispatchPark \/ DispatchRetire
  BY <1>6, <1>14 DEF DispatchPark, DispatchRetire, Alive, ClientAwaited
<1>15. ASSUME NEW c \in Conns, AcceptFails(c) \/ AcceptQueue(c)
       PROVE  Cardinality(Alive') + (IF ClientAwaited' THEN 1 ELSE 0) <= clientsMax
  BY <1>6, <1>15 DEF AcceptFails, AcceptQueue, Alive, ClientAwaited
<1>16. ASSUME NEW c \in Conns, AcceptServe(c)
       PROVE  Cardinality(Alive') + (IF ClientAwaited' THEN 1 ELSE 0) <= clientsMax
  <2>1. UNCHANGED tPc /\ sPc = "poll" /\ clientsCount < clientsMax
    BY <1>2, <1>16 DEF AcceptServe, Full, Resume, MakeThreadFor
  <2>2. CASE queuedThreads # <<>>
    <3>1. sPc' \in {"loop", "drain"}
      BY <1>16, <2>2 DEF AcceptServe, Resume
    <3>2. QED
      BY <1>6, <2>1, <3>1 DEF Alive, ClientAwaited
  <2>3. CASE queuedThreads = <<>>
    <3>1. cur = NoThread /\ Range(queuedThreads) = {}
      BY <1>1, <2>1, <2>3, NoneLeft DEF Hand
    <3>2. ASSUME NEW t \in Alive PROVE t \in Owing
      <4>1. Errand(t) /\ QuietErrand(t) /\ Retained(t) /\ t \in Threads /\ tPc[t] \in ThreadPcs
        BY <1>1, <1>2, <1>5 DEF Errands, RoomInv, Alive
      <4>2. Held(t) => t \in Range(pipe)
        BY <3>1, <4>1 DEF Held
      <4>3. /\ tPc[t] = "sem" => Held(t) \/ sem[t] = 1
            /\ tPc[t] \in {"returning", "ended"} => Held(t)
        BY <1>1, <4>1 DEF Handles
      <4>4. QED
        BY <4>1, <4>2, <4>3 DEF Owing, Alive, Errand, QuietErrand, Retained, ThreadPcs
    <3>3. Alive = Owing
      BY <3>2 DEF Owing
    <3>4. Cardinality(Alive) = clientsCount
      BY <1>1, <1>5, <3>3 DEF PlacesCounted
    <3>5. QED
      BY <1>2, <2>1, <3>4 DEF Alive
  <2>4. QED
    BY <2>2, <2>3
<1>17. ASSUME NEW t \in Threads, ClientsAdd(t)
       PROVE  Cardinality(Alive') + (IF ClientAwaited' THEN 1 ELSE 0) <= clientsMax
  <2>1. Alive' = Alive \union {t} /\ t \notin Alive /\ ClientAwaited /\ ~ClientAwaited'
    BY <1>2, <1>17 DEF ClientsAdd, Alive, ClientAwaited
  <2>2. Cardinality(Alive') = Cardinality(Alive) + 1
    BY <1>2, <2>1, FS_AddElement
  <2>3. QED
    BY <1>2, <1>5, <2>1, <2>2
<1>18. ASSUME NEW t \in Threads, ThreadStep(t)
       PROVE  Cardinality(Alive') + (IF ClientAwaited' THEN 1 ELSE 0) <= clientsMax
  <2>1. UNCHANGED <<sPc, cur>>
    BY <1>18 DEF ThreadStep, SemP, CheckExit, WhileExit, Listen, ListenOk, ListenThrows,
       Deactivate, Pause, PipeWrite, Return
  <2>2. \E to \in ThreadPcs \ {"unborn", "deleted"} :
          tPc[t] \notin {"unborn", "deleted"} /\ tPc' = [tPc EXCEPT ![t] = to]
    BY <1>18 DEF ThreadStep, SemP, CheckExit, WhileExit, Listen, ListenOk, ListenThrows,
       Deactivate, Pause, PipeWrite, Return, ThreadPcs
  <2>3. Alive' = Alive
    BY <1>2, <2>2 DEF Alive
  <2>4. QED
    BY <1>6, <2>1, <2>3 DEF ClientAwaited
<1>19. QED
  BY <1>7, <1>8, <1>9, <1>10, <1>11, <1>12, <1>13, <1>14, <1>15, <1>16, <1>17, <1>18
     DEF Next, ServerStep, Accept

(* The server's thread ends, if it was not cancelled, and the server goes  *)
(* away, when the last slot is empty: then no thread is left, and so no    *)
(* connection, and no step makes another.                                  *)
LEMMA EndStep ==
  ASSUME IndInv, EndInv, Next
  PROVE  EndInv'
<1>1. TypeOK /\ Hand /\ ConnsApart /\ SlotsExact /\ Errands /\ StopKnown /\ Drained /\ EndedAlone
  BY DEF IndInv, EndInv
<1>2. tPc \in [Threads -> ThreadPcs] /\ socket \in [Threads -> Conns \union {NoConn}]
  BY <1>1 DEF TypeOK
<1>3. Drained'
  BY <1>1, DrainedStep
<1> DEFINE Over == sPc = "deleted" \/ (sPc = "ended" /\ ~cancelled)
<1>4. SUFFICES ASSUME Over'
               PROVE  Alive' = {} /\ \A c \in Conns : conn'[c] \notin {"queued", "open"}
  BY <1>3 DEF EndInv, EndedAlone
<1> USE ConstantFacts DEF serverVars, tableVars, appVars, threadVars, ThreadGoto, AfterEvent
<1>5. CASE Drain
  <2>1. ~AnyClient /\ sPc = "drain" /\ UNCHANGED <<tPc, conn>>
    BY <1>4, <1>5 DEF Drain
  <2>2. Alive = {}
    BY <1>1, <2>1 DEF SlotsExact, AnyClient
  <2>3. curConn = NoConn /\ \A t \in Threads : socket[t] = NoConn
    BY <1>1, <1>2, <2>1, <2>2 DEF Hand, Errands, Errand, Alive
  <2>4. queuedConns = <<>>
    BY <1>1, <2>1 DEF StopKnown, Drained
  <2>5. Range(queuedConns) = {}
    BY <2>4, NoneLeft
  <2>6. \A c \in Conns : conn[c] \notin {"queued", "open"}
    BY <1>1, <2>3, <2>5 DEF ConnsApart
  <2>7. QED
    BY <2>1, <2>2, <2>6 DEF Alive
<1>6. CASE ~Drain
  <2>1. Over
    BY <1>4, <1>6 DEF Next, Environment, Connect, Stop, Cancel, ServerStep, ServerLoop, PollTimeout,
       PipeRead, JoinThread, DispatchQueued, DispatchPark, DispatchRetire, DispatchNothing, Accept,
       AcceptFails, AcceptQueue, AcceptServe, Resume, MakeThreadFor, ClientsAdd, ClientsAddSpins,
       Mark, Sweep, ServerJoin, ThreadStep, SemP, CheckExit, WhileExit, Listen, ListenOk,
       ListenThrows, Deactivate, Pause, PipeWrite, Return, Gone, vars
  <2>2. Alive = {} /\ \A c \in Conns : conn[c] \notin {"queued", "open"}
    BY <1>1, <2>1 DEF EndedAlone
  <2>3. CASE Environment
    <3>1. UNCHANGED tPc
      BY <2>3 DEF Environment, Connect, Stop, Cancel
    <3>2. \A c \in Conns : conn'[c] = conn[c] \/ conn'[c] = "pending"
      BY <1>1, <2>3 DEF Environment, Connect, Stop, Cancel, TypeOK
    <3>3. QED
      BY <2>2, <3>1, <3>2 DEF Alive
  <2>4. CASE ServerStep \/ ServerJoin
    BY <1>4, <1>6, <2>1, <2>4 DEF ServerStep, ServerLoop, PollTimeout, PipeRead, JoinThread,
       DispatchQueued, DispatchPark, DispatchRetire, DispatchNothing, Accept, AcceptFails,
       AcceptQueue, AcceptServe, ClientsAdd, ClientsAddSpins, Mark, Sweep, ServerJoin
  <2>5. ASSUME NEW t \in Threads, ThreadStep(t) PROVE FALSE
    BY <1>2, <2>2, <2>5 DEF ThreadStep, SemP, CheckExit, WhileExit, Listen, ListenOk, ListenThrows,
       Deactivate, Pause, PipeWrite, Return, Alive
  <2>6. CASE Gone
    BY <2>2, <2>6 DEF Gone, vars, Alive
  <2>7. QED
    BY <2>3, <2>4, <2>5, <2>6 DEF Next
<1>7. QED
  BY <1>5, <1>6

(* clientsAdd() needs no more than one slot for each of clientsMax threads. *)
LEMMA RoomSuffices ==
  ASSUME IndInv, RoomInv
  PROVE  SlotFree
<1> SUFFICES ASSUME sPc = "add" PROVE FreeProbes # {}
  BY DEF SlotFree
<1>1. TypeOK /\ SlotsExact /\ Quiet /\ ClientAwaited
  BY DEF IndInv, RoomInv, Drained, Quiet, ClientAwaited
<1>2. /\ IsFiniteSet(Alive) /\ Cardinality(Alive) \in Nat /\ clientsMax \in Nat
      /\ Cardinality(Alive) + 1 <= clientsMax
  BY <1>1, ConstantFacts, FS_Subset, FS_CardinalityType DEF TypeOK, RoomInv, Alive
<1>3. clientsMax \in ClientsMaxes /\ clientsIndex \in Slots
  BY <1>1 DEF TypeOK
<1>4. PICK k \in 0..clientsMax : ClientsSize = 2 * 2^k /\ 2^k >= clientsMax /\ 2^k \in Nat
  BY <1>3, SizeOfSlots
<1>5. ClientsSize \in Nat /\ Cardinality(Slots) = ClientsSize /\ IsFiniteSet(Slots)
  <2>1. ClientsSize \in Nat \ {0}
    BY <1>3, SlotsExist
  <2>2. IsFiniteSet(0..(ClientsSize - 1)) /\ Cardinality(0..(ClientsSize - 1)) = ClientsSize
    BY <2>1, FS_Interval
  <2>3. QED
    BY <2>1, <2>2 DEF Slots
<1>6. \E i \in Slots : clients[i] = NoThread
  <2> SUFFICES ASSUME \A i \in Slots : clients[i] # NoThread PROVE FALSE
    OBVIOUS
  <2>1. {clients[i] : i \in Slots} = Alive
    BY <1>1 DEF SlotsExact
  <2>2. clients \in Bijection(Slots, Alive)
    <3>1. clients \in [Slots -> Alive] /\ \A t \in Alive : \E i \in Slots : clients[i] = t
      BY <1>1, <2>1 DEF TypeOK
    <3>2. IsInjective(clients)
      BY <1>1, <3>1 DEF SlotsExact, IsInjective
    <3>3. QED
      BY <3>1, <3>2 DEF Bijection, Injection, Surjection, IsInjective
  <2>3. Cardinality(Alive) = Cardinality(Slots)
    BY <1>5, <2>2, FS_Bijection DEF ExistsBijection
  <2>4. QED
    BY <1>2, <1>4, <1>5, <2>3
<1>7. PICK i \in Slots : clients[i] = NoThread
  BY <1>6
<1>8. \E n \in Slots : (clientsIndex + 9 * n) % ClientsSize = i
  BY <1>3, <1>4, ProbesMeetAll DEF Slots
<1>9. QED
  BY <1>7, <1>8 DEF FreeProbes, Probe, Slots

-------------------------------------------------------------------------------
(* The theorems *)

(* In every state the server can reach the invariant holds. *)
THEOREM Invariance == Spec => []IndInv
<1>1. QED
  BY IndInvInit, IndInvStep, PTL DEF Spec

(* Every variable keeps its type: in particular _clientsCount never drops  *)
(* below zero, as a size_t it would wrap.                                  *)
THEOREM TypeCorrect == Spec => []TypeOK
<1>1. IndInv => TypeOK
  BY DEF IndInv
<1>2. QED
  BY <1>1, Invariance, PTL

(* A waiting client thread can be woken from exactly one place: no thread  *)
(* is given two connections, none is lost, no deleted one is written to.   *)
THEOREM WaitingInOnePlace == Spec => []OneHandle
<1>1. ASSUME IndInv PROVE OneHandle
  <2>1. /\ TypeOK /\ Handles
        /\ pipe \in Seq(Threads) /\ queuedThreads \in Seq(Threads)
        /\ IsInjective(pipe) /\ IsInjective(queuedThreads)
        /\ tPc \in [Threads -> ThreadPcs]
    BY <1>1 DEF IndInv, TypeOK, Handles
  <2>2. ASSUME NEW t \in Threads
        PROVE  /\ Count(t, pipe) = (IF t \in Range(pipe) THEN 1 ELSE 0)
               /\ Count(t, queuedThreads) = (IF t \in Range(queuedThreads) THEN 1 ELSE 0)
    BY <2>1, CountedOnce DEF Count
  <2>3. ASSUME NEW t \in Threads
        PROVE  Count(t, pipe) + Count(t, queuedThreads) + InHand(t) = IF Held(t) THEN 1 ELSE 0
    BY <2>1, <2>2 DEF InHand, Held, Handles
  <2>4. ASSUME NEW t \in Threads
        PROVE  /\ t \notin Alive => ~Held(t)
               /\ tPc[t] = "sem" => (Held(t) /\ sem[t] = 0) \/ (~Held(t) /\ sem[t] = 1)
               /\ tPc[t] \in {"returning", "ended"} => Held(t) /\ sem[t] = 0
               /\ t \in Alive /\ tPc[t] \notin {"sem", "returning", "ended"} => ~Held(t) /\ sem[t] = 0
    BY <2>1 DEF Handles, Alive
  <2> HIDE DEF Held
  <2>5. QED
    BY <2>3, <2>4 DEF OneHandle, Alive
<1>2. QED
  BY <1>1, Invariance, PTL

(* _clients holds each thread that exists, in one slot: clientDisconnectAll() *)
(* reaches all of them.                                                       *)
THEOREM ClientsAreExact == Spec => []SlotsExact
<1>1. IndInv => SlotsExact
  BY DEF IndInv
<1>2. QED
  BY <1>1, Invariance, PTL

(* A queued connection is once in the queue, an open one in one socket. *)
THEOREM ConnectionsAreKept == Spec => []ConnectionKept
<1>1. ASSUME IndInv PROVE ConnectionKept
  <2>1. /\ TypeOK /\ ConnsApart /\ queuedConns \in Seq(Conns) /\ IsInjective(queuedConns)
    BY <1>1 DEF IndInv, TypeOK, ConnsApart
  <2>2. ASSUME NEW c \in Conns
        PROVE  Cardinality({i \in DOMAIN queuedConns : queuedConns[i] = c}) =
                 (IF conn[c] = "queued" THEN 1 ELSE 0)
    BY <2>1, CountedOnce DEF ConnsApart
  <2>3. ASSUME NEW c \in Conns
        PROVE  Cardinality({t \in Threads : socket[t] = c}) + (IF curConn = c THEN 1 ELSE 0) =
                 (IF conn[c] = "open" THEN 1 ELSE 0)
    <3> DEFINE With == {t \in Threads : socket[t] = c}
    <3>1. CASE \E t \in Threads : socket[t] = c
      <4>1. PICK t \in Threads : socket[t] = c
        BY <3>1
      <4>2. With = {t} /\ curConn # c /\ conn[c] = "open"
        BY <2>1, <4>1 DEF ConnsApart
      <4>3. Cardinality(With) = 1
        BY <4>2, FS_Singleton
      <4>4. QED
        BY <4>2, <4>3
    <3>2. CASE ~\E t \in Threads : socket[t] = c
      <4>1. Cardinality(With) = 0
        BY <3>2, FS_EmptySet
      <4>2. conn[c] = "open" <=> curConn = c
        BY <2>1, <3>2 DEF ConnsApart
      <4>3. QED
        BY <4>1, <4>2
    <3>3. QED
      BY <3>1, <3>2
  <2>4. QED
    BY <2>2, <2>3 DEF ConnectionKept
<1>2. QED
  BY <1>1, Invariance, PTL

(* _clientsCount is the number of the threads that have a place. *)
THEOREM PlacesAreExact == Spec => []CountExact
<1>1. ASSUME IndInv PROVE CountExact
  <2>1. SUFFICES ASSUME sPc \in {"loop", "poll"}, ~draining PROVE clientsCount = Cardinality(Busy)
    BY DEF CountExact
  <2>2. Quiet /\ PlacesCounted /\ Errands /\ Handles /\ pipe \in Seq(Threads) /\ IsInjective(pipe)
    BY <1>1, <2>1 DEF Quiet, IndInv, TypeOK, Handles
  <2>3. ASSUME NEW t \in Threads PROVE Count(t, pipe) > 0 <=> t \in Range(pipe)
    BY <2>2, CountedOnce DEF Count
  <2>4. ASSUME NEW t \in Threads PROVE t \in Busy <=> t \in Owing
    BY <2>2, <2>3 DEF Busy, Owing, Errands, QuietErrand, Handles, Held
  <2>5. Busy = Owing
    BY <2>4 DEF Busy, Owing, Alive
  <2>6. QED
    BY <2>2, <2>5 DEF PlacesCounted
<1>2. QED
  BY <1>1, Invariance, PTL

(* While connections wait in the queue every place is taken. *)
THEOREM QueueOnlyWhenFull == Spec => []NoIdleQueue
<1>1. ASSUME IndInv PROVE NoIdleQueue
  <2>1. clientsMax \in Nat /\ clientsCount \in Nat /\ QueueWaits
    BY <1>1, ConstantFacts DEF IndInv, TypeOK
  <2>2. QED
    BY <2>1 DEF QueueWaits, Quiet, NoIdleQueue
<1>2. QED
  BY <1>1, Invariance, PTL

(* No connection is dropped before the server was told to stop. *)
THEOREM NothingDroppedEarly == Spec => DroppedOnlyAtShutdown
<1> DEFINE Kept == \A c \in Conns : conn[c] # "dropped" /\ conn'[c] = "dropped" => stop \/ cancelled
<1>1. ASSUME IndInv, [Next]_vars PROVE Kept
  <2>1. TypeOK /\ StopKnown /\ Errands /\ Hand
    BY <1>1 DEF IndInv
  <2>2. conn \in [Conns -> {"idle", "pending", "queued", "open", "closed", "dropped"}]
    BY <2>1 DEF TypeOK
  <2>3. CASE JoinThread
    <3>1. cur \in Threads /\ tPc[cur] = "ended"
      BY <2>1, <2>3 DEF JoinThread, Hand, TypeOK
    <3>2. Quiet => socket[cur] = NoConn
      BY <2>1, <3>1 DEF Errands, QuietErrand
    <3>3. QED
      BY <2>1, <2>3, <3>2, ConstantFacts DEF JoinThread, StopKnown
  <2>4. CASE Sweep
    BY <2>1, <2>4 DEF Sweep, StopKnown, Quiet
  <2>5. CASE Environment
    BY <2>2, <2>5 DEF Environment, Connect, Stop, Cancel
  <2>6. CASE ServerStep /\ ~JoinThread /\ ~Sweep
    BY <2>2, <2>6 DEF ServerStep, ServerLoop, PollTimeout, PipeRead, DispatchQueued, DispatchPark,
       DispatchRetire, DispatchNothing, Accept, AcceptFails, AcceptQueue, AcceptServe,
       ClientsAdd, ClientsAddSpins, Mark, Drain
  <2>7. CASE \E t \in Threads : ThreadStep(t)
    BY <2>2, <2>7 DEF ThreadStep, SemP, CheckExit, WhileExit, Listen, ListenOk, ListenThrows,
       Deactivate, Pause, PipeWrite, Return
  <2>8. CASE ServerJoin \/ Gone \/ UNCHANGED vars
    BY <2>8 DEF ServerJoin, Gone, vars
  <2>9. QED
    BY <1>1, <2>3, <2>4, <2>5, <2>6, <2>7, <2>8 DEF Next
<1>2. QED
  BY <1>1, Invariance, PTL DEF Spec, DroppedOnlyAtShutdown

(* A server that ended without being cancelled, or was deleted, has left no *)
(* client thread and no connection behind.                                  *)
THEOREM EndsAlone == Spec => []EndedAlone
<1>1. Init => EndInv
  BY DEF Init, EndInv, Drained, EndedAlone
<1>2. EndInv /\ UNCHANGED vars => EndInv'
  BY DEF EndInv, Drained, EndedAlone, Alive, vars, serverVars, tableVars, appVars, threadVars
<1>3. IndInv /\ EndInv /\ [Next]_vars => EndInv'
  BY <1>2, EndStep
<1>4. EndInv => EndedAlone
  BY DEF EndInv
<1>5. QED
  BY <1>1, <1>3, <1>4, Invariance, PTL DEF Spec

(* clientsAdd() finds a free slot, and does not spin for ever in the only  *)
(* thread that frees any, in a server with the default of one client per   *)
(* thread, and in one that may park as many threads as it has clients.     *)
THEOREM ClientsAddFindsSlot == ASSUME EnoughSlots PROVE Spec => []SlotFree
<1>1. Init => RoomInv
  <2> SUFFICES ASSUME Init PROVE RoomInv
    OBVIOUS
  <2>1. Alive = {} /\ clientsMax \in Nat
    BY ConstantFacts DEF Init, Alive
  <2>2. Range(pipe) = {} /\ Range(queuedThreads) = {}
    BY NoneLeft DEF Init
  <2>3. \A t \in Threads : Retained(t)
    BY <2>2, ConstantFacts DEF Init, Retained, Held
  <2>4. QED
    BY <2>1, <2>3, FS_EmptySet DEF Init, RoomInv, Drained, ClientAwaited
<1>2. IndInv /\ RoomInv /\ [Next]_vars => RoomInv'
  <2> SUFFICES ASSUME IndInv, RoomInv, [Next]_vars PROVE RoomInv'
    OBVIOUS
  <2>1. CASE UNCHANGED vars
    BY <2>1 DEF vars, serverVars, tableVars, appVars, threadVars, RoomInv, Drained, Quiet, Retained, Held,
       Alive, ClientAwaited
  <2>2. QED
    BY <2>1, RoomStep
<1>3. IndInv /\ RoomInv => SlotFree
  BY RoomSuffices
<1>4. QED
  BY <1>1, <1>2, <1>3, Invariance, PTL DEF Spec
===============================================================================
