------------------------------- MODULE RWlockLF -------------------------------
(***************************************************************************)
(* utl::RWlockLF (uts/RWlockLF.h, uts/RWlockLF.cpp): the read/write lock   *)
(* made of two atomic words.  _writeLockOwner names the thread that owns   *)
(* or is acquiring the write lock; _numActive counts the threads that hold *)
(* a read lock, or hold the write lock, or are half-way through a call     *)
(* that may yet back out.  Every atomic operation of the code is a step of *)
(* its own, so that the calls of all the threads interleave at the places  *)
(* where they really do.                                                   *)
(*                                                                         *)
(* The callers: a thread may call rdlock or wrlock when it holds nothing,  *)
(* tryrdlock when it holds nothing, trywrlock when it holds nothing or a   *)
(* read lock, and any of the four while it holds the write lock.  (rdlock  *)
(* and wrlock block forever in a thread that already reads, as they do in  *)
(* a pthread rwlock: no caller in the library does that.)                  *)
(***************************************************************************)
EXTENDS Naturals, FiniteSets

CONSTANTS Threads,    \* the threads that share the lock
          NoThread,   \* the null thread handle (0 in the code)
          MaxDepth    \* bound on how often the writer nests (_depth is a size_t)

ASSUME LockAssumption ==
  /\ IsFiniteSet(Threads)
  /\ NoThread \notin Threads
  /\ MaxDepth \in Nat

VARIABLES writeLockOwner,  \* _writeLockOwner
          depth,           \* _depth
          numActive,       \* _numActive
          readers,         \* the threads that a rdlock/tryrdlock gave a read lock
          pc               \* where each thread is in its call

vars == <<writeLockOwner, depth, numActive, readers, pc>>

-------------------------------------------------------------------------------
(* Where a thread can be.  "out": in no call and not the writer (it may    *)
(* hold a read lock).  "writing": in no call, holding the write lock.  The *)
(* other labels name the atomic operation that the thread does next.       *)

RdlockPcs    == {"rd_wait", "rd_add", "rd_check", "rd_undo"}
TryrdlockPcs == {"tryrd_add", "tryrd_check", "tryrd_undo"}
WrlockPcs    == {"wr_cas", "wr_add", "wr_wait"}
TrywrlockPcs == {"trywr_add", "trywr_clear", "trywr_undo"}
Pcs == {"out", "writing", "ul_sub"}
         \union RdlockPcs \union TryrdlockPcs \union WrlockPcs \union TrywrlockPcs

TypeOK ==
  /\ writeLockOwner \in Threads \union {NoThread}
  /\ depth \in Nat
  /\ numActive \in Nat
  /\ readers \subseteq Threads
  /\ pc \in [Threads -> Pcs]

Init ==
  /\ writeLockOwner = NoThread
  /\ depth = 0
  /\ numActive = 0
  /\ readers = {}
  /\ pc = [t \in Threads |-> "out"]

-------------------------------------------------------------------------------
(* Helpers *)

HaveWriteLock(t) == writeLockOwner = t

Goto(t, from, to) == pc[t] = from /\ pc' = [pc EXCEPT ![t] = to]

HoldsNothing(t) == t \notin readers

\* a fetch_add / fetch_sub of _numActive and nothing else
BumpActive(t, from, to) ==
  /\ Goto(t, from, to)
  /\ numActive' = numActive + 1
  /\ UNCHANGED <<writeLockOwner, depth, readers>>

\* mutant: a retreat that gives back more than it took
DropActiveTwice(t, from, to) ==
  /\ Goto(t, from, to)
  /\ numActive' = numActive - 2
  /\ UNCHANGED <<writeLockOwner, depth, readers>>

DropActive(t, from, to) ==
  /\ Goto(t, from, to)
  /\ numActive' = numActive - 1
  /\ UNCHANGED <<writeLockOwner, depth, readers>>

\* mutant: no second look, the unsynchronized one is trusted
RecheckOwnerSkipped(t, from, undo) ==
  /\ Goto(t, from, "out")
  /\ readers' = readers \union {t}
  /\ UNCHANGED <<writeLockOwner, depth, numActive>>

\* the second look at _writeLockOwner, once counted in _numActive
RecheckOwner(t, from, undo) ==
  IF writeLockOwner = NoThread
    THEN /\ Goto(t, from, "out")
         /\ readers' = readers \union {t}
         /\ UNCHANGED <<writeLockOwner, depth, numActive>>
    ELSE /\ Goto(t, from, undo)
         /\ UNCHANGED <<writeLockOwner, depth, numActive, readers>>

\* a compare_exchange that installs t as the owner
ClaimOwner(t, from, to) ==
  /\ writeLockOwner = NoThread
  /\ Goto(t, from, to)
  /\ writeLockOwner' = t
  /\ UNCHANGED <<depth, numActive, readers>>

-------------------------------------------------------------------------------
(* All four lock calls begin with: already hold write lock -> ++_depth.    *)

LockNested(t) ==
  /\ pc[t] = "writing" /\ HaveWriteLock(t)
  /\ depth < MaxDepth
  /\ depth' = depth + 1
  /\ UNCHANGED <<writeLockOwner, numActive, readers, pc>>

-------------------------------------------------------------------------------
(* rdlock() *)

RdlockCall(t) ==
  /\ HoldsNothing(t) /\ ~HaveWriteLock(t)
  /\ Goto(t, "out", "rd_wait")
  /\ UNCHANGED <<writeLockOwner, depth, numActive, readers>>

\* leaves the unsynchronized wait when it sees no owner
RdlockWait(t) ==
  /\ writeLockOwner = NoThread
  /\ Goto(t, "rd_wait", "rd_add")
  /\ UNCHANGED <<writeLockOwner, depth, numActive, readers>>

RdlockAdd(t)   == BumpActive(t, "rd_add", "rd_check")
RdlockCheck(t) == RecheckOwner(t, "rd_check", "rd_undo")

\* mutant: the reader that backs out stays counted
RdlockUndoLeaks(t) ==
  /\ Goto(t, "rd_undo", "rd_wait")
  /\ UNCHANGED <<writeLockOwner, depth, numActive, readers>>

RdlockUndo(t)  == DropActive(t, "rd_undo", "rd_wait")

-------------------------------------------------------------------------------
(* tryrdlock() *)

\* the first load of _writeLockOwner sees no writer (when it sees one, the
\* call returns false and has changed nothing)
TryrdlockCall(t) ==
  /\ HoldsNothing(t)
  /\ writeLockOwner = NoThread
  /\ Goto(t, "out", "tryrd_add")
  /\ UNCHANGED <<writeLockOwner, depth, numActive, readers>>

TryrdlockAdd(t)   == BumpActive(t, "tryrd_add", "tryrd_check")
TryrdlockCheck(t) == RecheckOwner(t, "tryrd_check", "tryrd_undo")

\* mutant: the failed try stays counted
TryrdlockUndoLeaks(t) ==
  /\ Goto(t, "tryrd_undo", "out")
  /\ UNCHANGED <<writeLockOwner, depth, numActive, readers>>

TryrdlockUndo(t)  == DropActive(t, "tryrd_undo", "out")

-------------------------------------------------------------------------------
(* wrlock() *)

WrlockCall(t) ==
  /\ HoldsNothing(t) /\ ~HaveWriteLock(t)
  /\ Goto(t, "out", "wr_cas")
  /\ UNCHANGED <<writeLockOwner, depth, numActive, readers>>

WrlockCas(t) == ClaimOwner(t, "wr_cas", "wr_add")
WrlockAdd(t) == BumpActive(t, "wr_add", "wr_wait")

\* mutant: does not wait for the last reader
WrlockWaitShort(t) ==
  /\ numActive <= 2
  /\ Goto(t, "wr_wait", "writing")
  /\ UNCHANGED <<writeLockOwner, depth, numActive, readers>>

\* leaves the wait when it is the only active thread
WrlockWait(t) ==
  /\ numActive <= 1
  /\ Goto(t, "wr_wait", "writing")
  /\ UNCHANGED <<writeLockOwner, depth, numActive, readers>>

-------------------------------------------------------------------------------
(* trywrlock(), which a reader may call too; when the compare_exchange     *)
(* fails the call returns false and has changed nothing                    *)

TrywrlockCas(t) == ClaimOwner(t, "out", "trywr_add")

\* the fetch_add succeeds in taking the lock when it returns 0
TrywrlockAdd(t) ==
  BumpActive(t, "trywr_add", IF numActive = 0 THEN "writing" ELSE "trywr_clear")

\* mutant: the failed try keeps the owner word
TrywrlockClearForgets(t) ==
  /\ Goto(t, "trywr_clear", "trywr_undo")
  /\ UNCHANGED <<writeLockOwner, depth, numActive, readers>>

TrywrlockClear(t) ==
  /\ Goto(t, "trywr_clear", "trywr_undo")
  /\ writeLockOwner' = NoThread
  /\ UNCHANGED <<depth, numActive, readers>>

TrywrlockUndo(t) == DropActive(t, "trywr_undo", "out")

-------------------------------------------------------------------------------
(* unlock() *)

UnlockNested(t) ==
  /\ pc[t] = "writing" /\ HaveWriteLock(t)
  /\ depth > 0
  /\ depth' = depth - 1
  /\ UNCHANGED <<writeLockOwner, numActive, readers, pc>>

\* mutant: the outermost and the nested unlock are not told apart
UnlockClearAnyDepth(t) ==
  /\ HaveWriteLock(t)
  /\ Goto(t, "writing", "ul_sub")
  /\ writeLockOwner' = NoThread
  /\ UNCHANGED <<depth, numActive, readers>>

\* the writer gives the owner word back first, then its place in _numActive
UnlockClear(t) ==
  /\ HaveWriteLock(t)
  /\ depth = 0
  /\ Goto(t, "writing", "ul_sub")
  /\ writeLockOwner' = NoThread
  /\ UNCHANGED <<depth, numActive, readers>>

UnlockSub(t) == DropActive(t, "ul_sub", "out")

UnlockRead(t) ==
  /\ pc[t] = "out" /\ t \in readers
  /\ ~HaveWriteLock(t)
  /\ readers' = readers \ {t}
  /\ numActive' = numActive - 1
  /\ UNCHANGED <<writeLockOwner, depth, pc>>

-------------------------------------------------------------------------------

Call(t) ==
  \/ RdlockCall(t) \/ TryrdlockCall(t) \/ WrlockCall(t) \/ TrywrlockCas(t)
  \/ LockNested(t)

Step(t) ==
  \/ RdlockWait(t) \/ RdlockAdd(t) \/ RdlockCheck(t) \/ RdlockUndo(t)
  \/ TryrdlockAdd(t) \/ TryrdlockCheck(t) \/ TryrdlockUndo(t)
  \/ WrlockCas(t) \/ WrlockAdd(t) \/ WrlockWait(t)
  \/ TrywrlockAdd(t) \/ TrywrlockClear(t) \/ TrywrlockUndo(t)
  \/ UnlockSub(t)

Unlock(t) == UnlockNested(t) \/ UnlockClear(t) \/ UnlockRead(t)

Next == \E t \in Threads : Call(t) \/ Step(t) \/ Unlock(t)

Spec == Init /\ [][Next]_vars

(* The scheduler runs every thread that is inside a call, and every reader *)
(* gives its lock back; no thread is obliged to call anything else.        *)
Fairness == \A t \in Threads : WF_vars(Step(t)) /\ WF_vars(UnlockRead(t))

FairSpec == Spec /\ Fairness

-------------------------------------------------------------------------------
(* Properties *)

\* the pcs whose thread is counted in _numActive by the call it is in
CountedPcs ==
  {"rd_check", "rd_undo", "tryrd_check", "tryrd_undo", "wr_wait",
   "trywr_clear", "trywr_undo", "writing", "ul_sub"}

\* the pcs whose thread is named by _writeLockOwner
OwnerPcs == {"wr_add", "wr_wait", "trywr_add", "trywr_clear", "writing"}

Counted == {t \in Threads : pc[t] \in CountedPcs}
Writers == {t \in Threads : pc[t] = "writing"}

(* RWlockLF.h: same interface as RWlock, "a writer must have exclusive     *)
(* access".  However the calls of the threads interleave, a thread that    *)
(* wrlock or trywrlock told it owns the lock is alone: no other writer and *)
(* no reader, not even one that slipped past the unsynchronized wait.      *)
Exclusion == \A w \in Writers : Writers = {w} /\ readers = {}

(* _numActive is exactly the read locks held plus the calls in flight that *)
(* have counted themselves: no back-out path of rdlock, tryrdlock or       *)
(* trywrlock leaks or drops a count, which would block every later writer  *)
(* or let one in beside a reader (or wrap the size_t below zero).          *)
ActiveCount == numActive = Cardinality(readers) + Cardinality(Counted)

(* _writeLockOwner names exactly the thread that is past its compare_-     *)
(* exchange and has not given the word back.                               *)
OwnerIsClaimant == \A t \in Threads : HaveWriteLock(t) <=> pc[t] \in OwnerPcs

\* _depth belongs to the current writer: it is zero whenever nobody writes
DepthIsWriters == depth # 0 => Writers # {}

\* a thread that holds a read lock is in no call but trywrlock
ReaderIdle == \A t \in readers : pc[t] \in {"out"} \union TrywrlockPcs

\* the inductive invariant of the proofs (RWlockLFProofs)
IndInv ==
  /\ TypeOK /\ ActiveCount /\ Exclusion /\ OwnerIsClaimant /\ DepthIsWriters /\ ReaderIdle

(* Every step of the implementation is a step of the atomic read/write     *)
(* lock, or leaves it alone: the calls take effect at one point in time.   *)
AbsWriter == IF Writers = {} THEN NoThread ELSE CHOOSE t \in Threads : t \in Writers
Abs == INSTANCE RWlockSpec WITH writer <- AbsWriter, nested <- depth
ImplementsRWlock == Abs!AbsSpec

(* A writer that has claimed the owner word gets the lock: readers that    *)
(* arrive later only count themselves for a moment and back out, and       *)
(* cannot hold it off for ever.                                            *)
WriterGetsIn == \A t \in Threads : pc[t] = "wr_add" ~> pc[t] = "writing"

===============================================================================
