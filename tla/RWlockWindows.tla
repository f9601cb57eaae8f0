------------------------------ MODULE RWlockWindows -----------------------------
(***************************************************************************)
(* utl::RWlock (uts/RWlock) as it is built for Windows: a mutex that       *)
(* writers keep and readers only pass through, a count of readers, an      *)
(* event that is set while there are none, and a word that says who is     *)
(* inside.  unlock() of the last reader changes the last three without the *)
(* mutex, one after the other.                                             *)
(***************************************************************************)
EXTENDS Naturals

CONSTANTS Threads,
          NoThread,          \* the null thread handle
          MaxNested          \* bound on _depth

VARIABLES writeMutex,        \* the holder of _writeMutex
          numReaders,        \* _numReaders
          readEvent,         \* _readEvent, a manual-reset event
          mode,              \* _mode: io_rd, io_wr, or uint_t_max for nobody
          writeLockOwner, depth,
          wPc,               \* where each thread is
          reads              \* the threads that hold a read lock

winVars == <<writeMutex, numReaders, readEvent, mode, writeLockOwner, depth, wPc, reads>>

\* thread t is at statement `from' of its call and goes on to `to'
Step(pc, t, from, to) == pc[t] = from /\ pc' = [pc EXCEPT ![t] = to]

WinInit ==
  /\ writeMutex = NoThread /\ numReaders = 0
  /\ readEvent = FALSE                  \* CreateEvent(..., TRUE, FALSE, ...)
  /\ mode = "nobody"
  /\ writeLockOwner = NoThread /\ depth = 0
  /\ wPc = [t \in Threads |-> "idle"]
  /\ reads = {}

HaveWriteLock(t) == writeLockOwner = t

\* rdlock(), wrlock(), tryrdlock() and trywrlock() of the writer
LockAgain(t) ==
  /\ wPc[t] = "idle" /\ HaveWriteLock(t)
  /\ depth < MaxNested /\ depth' = depth + 1
  /\ UNCHANGED <<writeMutex, numReaders, readEvent, mode, writeLockOwner, wPc, reads>>

-------------------------------------------------------------------------------
(* rdlock(), tryrdlock() *)

\* _writeMutex->lock(), or a trylock() that succeeds
RdMutex(t) ==
  /\ Step(wPc, t, "idle", "increment")
  /\ ~HaveWriteLock(t) /\ t \notin reads
  /\ writeMutex = NoThread /\ writeMutex' = t
  /\ UNCHANGED <<numReaders, readEvent, mode, writeLockOwner, depth, reads>>

RdIncrement(t) ==
  /\ Step(wPc, t, "increment", "reset")
  /\ numReaders' = numReaders + 1
  /\ UNCHANGED <<writeMutex, readEvent, mode, writeLockOwner, depth, reads>>

RdReset(t) ==
  /\ Step(wPc, t, "reset", "setRead")
  /\ readEvent' = FALSE
  /\ UNCHANGED <<writeMutex, numReaders, mode, writeLockOwner, depth, reads>>

\* _mode = io_rd, and _writeMutex->unlock() on the way out
RdMode(t) ==
  /\ Step(wPc, t, "setRead", "idle")
  /\ mode' = "read" /\ writeMutex' = NoThread
  /\ reads' = reads \union {t}
  /\ UNCHANGED <<numReaders, readEvent, writeLockOwner, depth>>

-------------------------------------------------------------------------------
(* wrlock(), trywrlock() *)

WrMutex(t) ==
  /\ \E to \in {"waitReaders", "tryReaders"} : Step(wPc, t, "idle", to)
  /\ ~HaveWriteLock(t) /\ t \notin reads
  /\ writeMutex = NoThread /\ writeMutex' = t
  /\ UNCHANGED <<numReaders, readEvent, mode, writeLockOwner, depth, reads>>

\* wrlock(): if there are readers, WaitForSingleObject(_readEvent)
WrReaders(t) ==
  /\ Step(wPc, t, "waitReaders", IF numReaders > 0 THEN "waitEvent" ELSE "setWrite")
  /\ UNCHANGED <<writeMutex, numReaders, readEvent, mode, writeLockOwner, depth, reads>>

WrEvent(t) ==
  /\ Step(wPc, t, "waitEvent", "setWrite")
  /\ readEvent
  /\ UNCHANGED <<writeMutex, numReaders, readEvent, mode, writeLockOwner, depth, reads>>

\* trywrlock(): if there are readers, _writeMutex->unlock() and return false
TrywrReaders(t) ==
  /\ Step(wPc, t, "tryReaders", IF numReaders > 0 THEN "idle" ELSE "setWrite")
  /\ writeMutex' = IF numReaders > 0 THEN NoThread ELSE writeMutex
  /\ UNCHANGED <<numReaders, readEvent, mode, writeLockOwner, depth, reads>>

\* _mode = io_wr; _writeLockOwner = thisThread
WrMode(t) ==
  /\ Step(wPc, t, "setWrite", "idle")
  /\ mode' = "write" /\ writeLockOwner' = t
  /\ UNCHANGED <<writeMutex, numReaders, readEvent, depth, reads>>

-------------------------------------------------------------------------------
(* unlock() *)

UnlockAgain(t) ==
  /\ wPc[t] = "idle" /\ HaveWriteLock(t)
  /\ depth > 0 /\ depth' = depth - 1
  /\ UNCHANGED <<writeMutex, numReaders, readEvent, mode, writeLockOwner, wPc, reads>>

\* whoever finds _mode = io_rd is taken for a reader, anybody else for the writer
UnlockMode(t) ==
  /\ HaveWriteLock(t) => depth = 0
  /\ HaveWriteLock(t) \/ t \in reads
  /\ Step(wPc, t, "idle", IF mode = "read" THEN "decrement" ELSE "clearWrite")
  /\ writeLockOwner' = IF HaveWriteLock(t) THEN NoThread ELSE writeLockOwner
  /\ reads' = reads \ {t}
  /\ UNCHANGED <<writeMutex, numReaders, readEvent, mode, depth>>

UnlockDecrement(t) ==
  /\ Step(wPc, t, "decrement", IF numReaders = 1 THEN "clearRead" ELSE "idle")
  /\ numReaders' = numReaders - 1
  /\ UNCHANGED <<writeMutex, readEvent, mode, writeLockOwner, depth, reads>>

UnlockClear(t) ==
  /\ \/ Step(wPc, t, "clearRead", "setEvent")
     \/ Step(wPc, t, "clearWrite", "releaseMutex")
  /\ mode' = "nobody"
  /\ UNCHANGED <<writeMutex, numReaders, readEvent, writeLockOwner, depth, reads>>

UnlockEvent(t) ==
  /\ Step(wPc, t, "setEvent", "idle")
  /\ readEvent' = TRUE
  /\ UNCHANGED <<writeMutex, numReaders, mode, writeLockOwner, depth, reads>>

\* _writeMutex->unlock(), by whoever comes here
UnlockMutex(t) ==
  /\ Step(wPc, t, "releaseMutex", "idle")
  /\ writeMutex' = NoThread
  /\ UNCHANGED <<numReaders, readEvent, mode, writeLockOwner, depth, reads>>

-------------------------------------------------------------------------------

WinNext == \E t \in Threads :
  \/ LockAgain(t) \/ RdMutex(t) \/ RdIncrement(t) \/ RdReset(t) \/ RdMode(t)
  \/ WrMutex(t) \/ WrReaders(t) \/ WrEvent(t) \/ TrywrReaders(t) \/ WrMode(t)
  \/ UnlockAgain(t) \/ UnlockMode(t) \/ UnlockDecrement(t) \/ UnlockClear(t)
  \/ UnlockEvent(t) \/ UnlockMutex(t)

WinSpec == WinInit /\ [][WinNext]_winVars

\* "Multiple readers may run concurrently, but a writer must have exclusive
\* access" (RWlock.h): while a thread owns the write lock nobody reads.
WriterExclusive == writeLockOwner # NoThread => reads = {}

===============================================================================
