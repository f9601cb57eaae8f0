------------------------------- MODULE RingBuffer ------------------------------
(***************************************************************************)
(* utl::RingBuffer (ucc/RingBuffer.h): the fixed-size queue whose enQ and  *)
(* deQ synchronize by atomic operations only.  A call first reserves a     *)
(* place (or an item) in _countUB (or _countLB), backing out when there is *)
(* none, then claims a position with a fetch_add of _tail (or _head), and  *)
(* then waits until that slot of the array is empty (or full).  Each       *)
(* atomic operation is a step of its own; a weak compare_exchange that     *)
(* fails, and an exchange that yields the null value, change nothing.      *)
(*                                                                         *)
(* _countLB starts at 1000000 in the code so that the transient decrements *)
(* of deQ do not wrap it; here it is that word minus 1000000.  _head and   *)
(* _tail are size_t words that only matter modulo _size, which divides     *)
(* 2^64, so they are kept modulo _size.                                    *)
(***************************************************************************)
EXTENDS Integers, FiniteSets

CONSTANTS Threads,    \* the threads that share the buffer
          Producers,  \* those that call enQ ...
          Consumers,  \* ... and those that call deQ
          Values,     \* the values they queue, each accepted at most once and,
                      \* as nothing tells them apart, the least of them first
          NullValue,  \* nullValue, which no caller may queue
          CountMax    \* the size given to set()

ASSUME RingBufferAssumption ==
  /\ IsFiniteSet(Threads) /\ Producers \subseteq Threads /\ Consumers \subseteq Threads
  /\ IsFiniteSet(Values) /\ Values \subseteq Nat /\ NullValue \notin Values
  /\ CountMax \in Nat \ {0}
  \* arithmetic, which the provers do not know of ^
  /\ CountMax <= 2^CountMax /\ \A k \in 0..CountMax : 2^k \in Nat

VARIABLES array,      \* _array
          countLB,    \* _countLB - 1000000
          countUB,    \* _countUB
          head, tail, \* _head, _tail
          pc,         \* where each thread is
          value,      \* each thread's parameter (enQ) or result (deQ)
          pos,        \* each thread's claimed slot
          \* history, for the properties
          accepted,   \* values whose enQ returned true
          delivered,  \* values whose deQ returned true
          precedes,   \* <<x, y>>: enQ(x) had returned when enQ(y) was called
          missed,     \* delivered when each thread's deQ was called
          overtook    \* <<y, x>>: y had been delivered when the deQ of x was called

bufferVars == <<array, countLB, countUB, head, tail>>
history == <<accepted, delivered, precedes, missed, overtook>>
vars == <<bufferVars, pc, value, pos, history>>

-------------------------------------------------------------------------------

(* set(): _size is the least power of two that is >= size *)
Size == CHOOSE p \in {2^k : k \in 0..CountMax} :
          /\ p >= CountMax
          /\ \A q \in {2^k : k \in 0..CountMax} : q >= CountMax => p <= q

Slots == 0..(Size - 1)
Stride == 9

EnqPcs == {"enq_count", "enq_undo", "enq_tail", "enq_store", "enq_done"}
DeqPcs == {"deq_count", "deq_undo", "deq_head", "deq_take", "deq_done"}

TypeOK ==
  /\ array \in [Slots -> Values \union {NullValue}]
  /\ countLB \in Int /\ countUB \in Nat
  /\ head \in Slots /\ tail \in Slots
  /\ pc \in [Threads -> {"idle"} \union EnqPcs \union DeqPcs]
  /\ value \in [Threads -> Values \union {NullValue}]
  /\ pos \in [Threads -> Slots]
  /\ accepted \subseteq Values /\ delivered \subseteq Values
  /\ precedes \subseteq Values \X Values /\ overtook \subseteq Values \X Values
  /\ missed \in [Threads -> SUBSET Values]

Init ==
  /\ array = [i \in Slots |-> NullValue]
  /\ countLB = 0 /\ countUB = 0
  /\ head = 0 /\ tail = 0
  /\ pc = [t \in Threads |-> "idle"]
  /\ value = [t \in Threads |-> NullValue]
  /\ pos = [t \in Threads |-> 0]
  /\ accepted = {} /\ delivered = {} /\ precedes = {} /\ overtook = {}
  /\ missed = [t \in Threads |-> {}]

Goto(t, from, to) == pc[t] = from /\ pc' = [pc EXCEPT ![t] = to]

-------------------------------------------------------------------------------
(* enQ(value) *)

Fresh(v) == v \notin accepted /\ \A t \in Threads : value[t] # v

\* the first look at _countUB finds room (without room: return false)
EnqCall(t, v) ==
  /\ t \in Producers
  /\ Fresh(v) /\ \A w \in Values : Fresh(w) => v <= w
  /\ countUB < CountMax
  /\ Goto(t, "idle", "enq_count")
  /\ value' = [value EXCEPT ![t] = v]
  /\ precedes' = precedes \union (accepted \X {v})
  /\ UNCHANGED <<bufferVars, pos, accepted, delivered, missed, overtook>>

\* mutant: off by one
EnqCountOver(t) ==
  /\ Goto(t, "enq_count", IF countUB > CountMax THEN "enq_undo" ELSE "enq_tail")
  /\ countUB' = countUB + 1
  /\ UNCHANGED <<array, countLB, head, tail, value, pos, history>>

EnqCount(t) ==
  /\ Goto(t, "enq_count", IF countUB >= CountMax THEN "enq_undo" ELSE "enq_tail")
  /\ countUB' = countUB + 1
  /\ UNCHANGED <<array, countLB, head, tail, value, pos, history>>

\* mutant: takes back twice what it reserved
EnqUndoTwice(t) ==
  /\ Goto(t, "enq_undo", "idle")
  /\ countUB' = countUB - 2
  /\ value' = [value EXCEPT ![t] = NullValue]
  /\ precedes' = {p \in precedes : p[2] # value[t]}
  /\ UNCHANGED <<array, countLB, head, tail, pos, accepted, delivered, missed, overtook>>

\* ... return false; the caller has its value back
EnqUndo(t) ==
  /\ Goto(t, "enq_undo", "idle")
  /\ countUB' = countUB - 1
  /\ value' = [value EXCEPT ![t] = NullValue]
  /\ precedes' = {p \in precedes : p[2] # value[t]}
  /\ UNCHANGED <<array, countLB, head, tail, pos, accepted, delivered, missed, overtook>>

\* mutant: "& _mask" is missing
EnqTailUnmasked(t) ==
  /\ Goto(t, "enq_tail", "enq_store")
  /\ pos' = [pos EXCEPT ![t] = tail]
  /\ tail' = tail + Stride
  /\ UNCHANGED <<array, countLB, countUB, head, value, history>>

EnqTail(t) ==
  /\ Goto(t, "enq_tail", "enq_store")
  /\ pos' = [pos EXCEPT ![t] = tail]
  /\ tail' = (tail + Stride) % Size
  /\ UNCHANGED <<array, countLB, countUB, head, value, history>>

\* mutant: stores into its slot without waiting until it is empty
EnqStoreOverwrites(t) ==
  /\ Goto(t, "enq_store", "enq_done")
  /\ array' = [array EXCEPT ![pos[t]] = value[t]]
  /\ UNCHANGED <<countLB, countUB, head, tail, value, pos, history>>

EnqStore(t) ==
  /\ array[pos[t]] = NullValue
  /\ Goto(t, "enq_store", "enq_done")
  /\ array' = [array EXCEPT ![pos[t]] = value[t]]
  /\ UNCHANGED <<countLB, countUB, head, tail, value, pos, history>>

EnqDone(t) ==
  /\ Goto(t, "enq_done", "idle")
  /\ countLB' = countLB + 1
  /\ accepted' = accepted \union {value[t]}
  /\ value' = [value EXCEPT ![t] = NullValue]
  /\ UNCHANGED <<array, countUB, head, tail, pos, delivered, precedes, missed, overtook>>

-------------------------------------------------------------------------------
(* deQ(value) *)

\* the first look at _countLB finds an item (without one: return false)
DeqCall(t) ==
  /\ t \in Consumers
  /\ countLB > 0
  /\ Goto(t, "idle", "deq_count")
  /\ missed' = [missed EXCEPT ![t] = delivered]
  /\ UNCHANGED <<bufferVars, value, pos, accepted, delivered, precedes, overtook>>

DeqCount(t) ==
  /\ Goto(t, "deq_count", IF countLB <= 0 THEN "deq_undo" ELSE "deq_head")
  /\ countLB' = countLB - 1
  /\ UNCHANGED <<array, countUB, head, tail, value, pos, history>>

DeqUndo(t) ==
  /\ Goto(t, "deq_undo", "idle")
  /\ countLB' = countLB + 1
  /\ missed' = [missed EXCEPT ![t] = {}]
  /\ UNCHANGED <<array, countUB, head, tail, value, pos, accepted, delivered, precedes, overtook>>

DeqHead(t) ==
  /\ Goto(t, "deq_head", "deq_take")
  /\ pos' = [pos EXCEPT ![t] = head]
  /\ head' = (head + Stride) % Size
  /\ UNCHANGED <<array, countLB, countUB, tail, value, history>>

\* mutant: does not wait for its own slot, takes any that is full
DeqTakeAny(t) == \E i \in Slots :
  /\ array[i] # NullValue
  /\ Goto(t, "deq_take", "deq_done")
  /\ value' = [value EXCEPT ![t] = array[i]]
  /\ array' = [array EXCEPT ![i] = NullValue]
  /\ UNCHANGED <<countLB, countUB, head, tail, pos, history>>

DeqTake(t) ==
  /\ array[pos[t]] # NullValue
  /\ Goto(t, "deq_take", "deq_done")
  /\ value' = [value EXCEPT ![t] = array[pos[t]]]
  /\ array' = [array EXCEPT ![pos[t]] = NullValue]
  /\ UNCHANGED <<countLB, countUB, head, tail, pos, history>>

DeqDone(t) ==
  /\ Goto(t, "deq_done", "idle")
  /\ countUB' = countUB - 1
  /\ delivered' = delivered \union {value[t]}
  /\ overtook' = overtook \union (missed[t] \X {value[t]})
  /\ missed' = [missed EXCEPT ![t] = {}]
  /\ value' = [value EXCEPT ![t] = NullValue]
  /\ UNCHANGED <<array, countLB, head, tail, pos, accepted, precedes>>

-------------------------------------------------------------------------------

Call(t) == DeqCall(t) \/ \E v \in Values : EnqCall(t, v)

Step(t) ==
  \/ EnqCount(t) \/ EnqUndo(t) \/ EnqTail(t) \/ EnqStore(t) \/ EnqDone(t)
  \/ DeqCount(t) \/ DeqUndo(t) \/ DeqHead(t) \/ DeqTake(t) \/ DeqDone(t)

\* every value has gone through the buffer
Finished == accepted = Values /\ delivered = Values /\ UNCHANGED vars

Next == (\E t \in Threads : Call(t) \/ Step(t)) \/ Finished

Spec == Init /\ [][Next]_vars

(* The scheduler runs every thread that is inside a call; nothing makes a  *)
(* thread call.                                                            *)
Fairness == \A t \in Threads : WF_vars(Step(t))

FairSpec == Spec /\ Fairness

-------------------------------------------------------------------------------
(* Properties *)

Contained == {i \in Slots : array[i] # NullValue}

(* "Sample a lower-bound on the number of contained items": _countLB is    *)
(* one and _countUB an upper bound at every moment of every call, and the  *)
(* buffer never holds more than the size it was given (which may be less   *)
(* than the number of slots).                                              *)
CountsBound ==
  /\ TypeOK
  /\ countLB <= Cardinality(Contained)
  /\ Cardinality(Contained) <= countUB
  /\ Cardinality(Contained) <= CountMax

\* the places where a value can be, from the store to the return of deQ
Places(v) ==
  Cardinality({i \in Slots : array[i] = v})
    + Cardinality({t \in Threads : pc[t] = "deq_done" /\ value[t] = v})

Stored(v) == v \in accepted \/ \E t \in Threads : pc[t] = "enq_done" /\ value[t] = v

(* No value is lost or delivered twice, whatever slots the threads wrap    *)
(* around to: once stored and until its deQ returns, it is in one place.   *)
NoLossNoDuplicate ==
  \A v \in Values :
    Places(v) = IF v \in delivered THEN 0 ELSE IF Stored(v) THEN 1 ELSE 0

(* deQ copies "the head value": when enQ(x) had returned before enQ(y) was *)
(* called, then y is not delivered by a deQ that returned before the deQ   *)
(* of x was called.                                                        *)
FirstInFirstOut == \A x, y \in Values : ~(<<x, y>> \in precedes /\ <<y, x>> \in overtook)

(* An array of one or two slots is such a queue.  In a longer one a call   *)
(* can be overtaken by a lap, and its slot used by a call of the next lap. *)
InOrderUpToTwo == Size <= 2 => FirstInFirstOut

(* Past the back-out test no call can spin for ever: an empty slot that a  *)
(* deQ waits on, or a full one that an enQ waits on, has a partner.        *)
CallsReturn == \A t \in Threads : pc[t] \in {"enq_tail", "deq_head"} ~> pc[t] = "idle"

-------------------------------------------------------------------------------
(* The inductive invariant, which RingBufferProofs proves *)

In(pcs) == {t \in Threads : pc[t] \in pcs}

\* the calls between the array and _countLB, and between _countUB and the array
LBPcs == {"enq_done", "deq_undo", "deq_head", "deq_take"}
UBPcs == {"enq_undo", "enq_tail", "enq_store", "deq_done"}

(* Each counter is the number of items and of the calls that have touched  *)
(* one of the two and not yet the other; only calls that will back out     *)
(* take _countUB past _countMax.                                           *)
CountsExact ==
  /\ countLB + Cardinality(In(LBPcs)) = Cardinality(Contained)
  /\ countUB = Cardinality(Contained) + Cardinality(In(UBPcs))
  /\ countUB <= CountMax + Cardinality(In({"enq_undo"}))

Holds(t, pcs, v) == pc[t] \in pcs /\ value[t] = v

(* A value is with one enQ until that returns, ... *)
EnqValues ==
  \A t \in Threads :
    /\ value[t] \in Values <=> pc[t] \in EnqPcs \union {"deq_done"}
    /\ pc[t] \in EnqPcs => /\ value[t] \notin accepted
                          /\ \A u \in Threads : Holds(u, EnqPcs, value[t]) => u = t

(* ... and from the store until its deQ returns in one slot or one deQ. *)
InArray(v) == \E i \in Slots : array[i] = v
InDeq(v) == \E t \in Threads : Holds(t, {"deq_done"}, v)

StoredValues ==
  /\ \A v \in Values :
       /\ InArray(v) \/ InDeq(v) <=> Stored(v) /\ v \notin delivered
       /\ v \in delivered => Stored(v)
       /\ ~(InArray(v) /\ InDeq(v))
  /\ \A i, j \in Slots : array[i] \in Values /\ array[i] = array[j] => i = j
  /\ \A t, u \in Threads :
       pc[t] = "deq_done" /\ pc[u] = "deq_done" /\ value[t] = value[u] => t = u

IndInv == TypeOK /\ CountsExact /\ EnqValues /\ StoredValues

-------------------------------------------------------------------------------
(* The order of one or two slots, which RingBufferProofs proves too: who   *)
(* has claimed a slot, and what the next claim of it will find there.      *)

Storing(t, i) == pc[t] = "enq_store" /\ pos[t] = i
Taking(t, i)  == pc[t] = "deq_take" /\ pos[t] = i

Full(i)     == array[i] # NullValue
Filling(i)  == \E t \in Threads : Storing(t, i)
Emptying(i) == \E t \in Threads : Taking(t, i)

\* slot i has, or will have, an item that no deQ has claimed
Due(i) == (Full(i) \/ Filling(i)) /\ (Emptying(i) => Full(i) /\ Filling(i))

\* what the running deQ calls have reserved is there
ItemsPromised == 0 <= countLB + Cardinality(In({"deq_undo"}))

\* one enQ and one deQ at a slot; a full one is claimed again when it is to be emptied
ClaimsApart ==
  /\ \A i \in Slots, t, u \in Threads :
       (Storing(t, i) /\ Storing(u, i)) \/ (Taking(t, i) /\ Taking(u, i)) => t = u
  /\ \A i \in Slots : /\ Full(i) /\ Filling(i) => Emptying(i)
                      /\ Emptying(i) => Full(i) \/ Filling(i)

\* the slots take turns: what is due lies from head to before tail
ClaimsInTurn ==
  IF head = tail THEN \A i, j \in Slots : Due(i) <=> Due(j) ELSE \A i \in Slots : Due(i) <=> i = head

HistoryFits ==
  /\ \A t \in Threads : missed[t] \subseteq delivered
  /\ overtook \subseteq delivered \X Values
  /\ \A p \in precedes : p[1] \in accepted /\ p[1] # p[2]

\* y is in slot j or on its way there
Placed(y, j) == array[j] = y \/ \E t \in Threads : Storing(t, j) /\ value[t] = y

\* until the slot of the older value is claimed, nobody gets to the younger one ...
ClaimedFirst(x, y) ==
  \A i \in Slots : array[i] = x /\ ~Emptying(i) =>
    /\ y \notin delivered /\ ~InDeq(y)
    /\ \A j \in Slots : Placed(y, j) => j # i /\ ~Emptying(j) /\ head = i

\* ... and who has claimed it was called before that
CalledFirst(x, y) ==
  y \in delivered =>
    \A t \in Threads : (pc[t] = "deq_take" /\ array[pos[t]] = x) \/ Holds(t, {"deq_done"}, x)
                         => y \notin missed[t]

TurnsKept == \A x, y \in Values : <<x, y>> \in precedes => ClaimedFirst(x, y) /\ CalledFirst(x, y)

OrderInv ==
  /\ IndInv /\ ItemsPromised /\ HistoryFits
  /\ Size <= 2 => ClaimsApart /\ ClaimsInTurn /\ TurnsKept /\ FirstInFirstOut

===============================================================================
