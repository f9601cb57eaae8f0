------------------------------ MODULE RWlockSpec ------------------------------
(***************************************************************************)
(* What a read/write lock of uts/ promises its callers (RWlock.h,          *)
(* RWlockLF.h): "multiple readers may run concurrently, but a writer must  *)
(* have exclusive access"; the thread that holds the write lock may lock   *)
(* again, in either mode, and each such lock is paid back by an unlock.    *)
(* Every operation is one atomic step: this is the specification that the  *)
(* step-by-step models of the implementations are checked against.         *)
(***************************************************************************)
EXTENDS Naturals

CONSTANTS Threads,    \* the threads that share the lock
          NoThread    \* the null thread handle

VARIABLES readers,    \* the threads that hold a read lock
          writer,     \* the thread that holds the write lock, or NoThread
          nested      \* locks the writer has taken on top of its write lock

absVars == <<readers, writer, nested>>

AbsInit == readers = {} /\ writer = NoThread /\ nested = 0

\* rdlock(), or a tryrdlock() that returned true
AcquireRead(t) ==
  /\ writer = NoThread
  /\ readers' = readers \union {t}
  /\ UNCHANGED <<writer, nested>>

\* wrlock(), or a trywrlock() that returned true
AcquireWrite(t) ==
  /\ writer = NoThread /\ readers = {}
  /\ writer' = t
  /\ UNCHANGED <<readers, nested>>

\* any of the four by the thread that already holds the write lock
AcquireNested(t) ==
  /\ writer = t
  /\ nested' = nested + 1
  /\ UNCHANGED <<readers, writer>>

ReleaseRead(t) ==
  /\ t \in readers
  /\ readers' = readers \ {t}
  /\ UNCHANGED <<writer, nested>>

ReleaseNested(t) ==
  /\ writer = t /\ nested > 0
  /\ nested' = nested - 1
  /\ UNCHANGED <<readers, writer>>

ReleaseWrite(t) ==
  /\ writer = t /\ nested = 0
  /\ writer' = NoThread
  /\ UNCHANGED <<readers, nested>>

AbsNext == \E t \in Threads :
  \/ AcquireRead(t) \/ AcquireWrite(t) \/ AcquireNested(t)
  \/ ReleaseRead(t) \/ ReleaseWrite(t) \/ ReleaseNested(t)

AbsSpec == AbsInit /\ [][AbsNext]_absVars

===============================================================================
