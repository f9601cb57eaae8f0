------------------------------- MODULE ConditionVar -----------------------------
(***************************************************************************)
(* utl::Mutex (uts/Mutex), the recursive mutex, and utl::ConditionVar      *)
(* (uts/ConditionVar), which waits on a pthread condition with the pthread *)
(* mutex inside its Mutex.  wait() gives that pthread mutex away and takes *)
(* it back without the Mutex's knowledge: _owner then names whoever was    *)
(* last in lock(), or nobody, and not the thread that holds the mutex.     *)
(*                                                                         *)
(* The threads use the pair as its class comment says: a predicate is set  *)
(* and signalled with the mutex held, and a thread that waits tests it     *)
(* again when it wakes up, which it may do for no reason.                  *)
(***************************************************************************)
EXTENDS Threads, Naturals

CONSTANTS MaxNested,         \* bound on _depth
          NestAroundWait     \* may a thread nest locks before or after it waits?

VARIABLES pthreadMutex,      \* the holder of _mutex, NoThread without one
          owner, depth,      \* _owner, _depth
          cvPc,              \* where each thread is
          waited,            \* the holder has been in wait() since it locked
          ready              \* the predicate that the threads wait for

mutexVars == <<pthreadMutex, owner, depth, cvPc, waited, ready>>

MutexInit ==
  /\ pthreadMutex = NoThread
  /\ owner = NoThread /\ depth = 0
  /\ cvPc = [t \in Threads |-> "idle"]
  /\ waited = FALSE
  /\ ready = FALSE

\* between its calls the thread holds the mutex, or it does not
Holds(t) == pthreadMutex = t /\ cvPc[t] = "idle"
Outside(t)  == pthreadMutex # t /\ cvPc[t] = "idle"

-------------------------------------------------------------------------------
(* Mutex *)

\* lock() and trylock() of the thread that _owner names, which is not asked
\* whether it holds the mutex
Nest(t) ==
  /\ cvPc[t] = "idle" /\ owner = t
  /\ Holds(t) /\ waited => NestAroundWait
  /\ depth < MaxNested /\ depth' = depth + 1
  /\ UNCHANGED <<pthreadMutex, owner, cvPc, waited, ready>>

\* lock() by a thread that _owner does not name, which may hold the mutex all the same
LockCall(t) ==
  /\ owner # t
  /\ Outside(t) \/ (Holds(t) /\ waited /\ NestAroundWait)
  /\ Step(cvPc, t, "idle", "acquire")
  /\ UNCHANGED <<pthreadMutex, owner, depth, waited, ready>>

\* pthread_mutex_lock()
Acquire(t) ==
  /\ Step(cvPc, t, "acquire", "own")
  /\ pthreadMutex = NoThread /\ pthreadMutex' = t
  /\ UNCHANGED <<owner, depth, waited, ready>>

\* trylock(); where it fails nothing changes
TryLock(t) ==
  /\ Outside(t) /\ owner # t
  /\ Step(cvPc, t, "idle", "own")
  /\ pthreadMutex = NoThread /\ pthreadMutex' = t
  /\ UNCHANGED <<owner, depth, waited, ready>>

SetOwner(t) ==
  /\ Step(cvPc, t, "own", "idle")
  /\ owner' = t
  /\ UNCHANGED <<pthreadMutex, depth, waited, ready>>

UnlockNested(t) ==
  /\ Holds(t)
  /\ depth > 0 /\ depth' = depth - 1
  /\ UNCHANGED <<pthreadMutex, owner, cvPc, waited, ready>>

\* mutant: the owner is left in place
UnlockKeepsOwner(t) ==
  /\ Holds(t) /\ depth = 0
  /\ Step(cvPc, t, "idle", "release")
  /\ UNCHANGED <<pthreadMutex, owner, depth, waited, ready>>

UnlockOwner(t) ==
  /\ Holds(t) /\ depth = 0
  /\ ~(waited /\ ready)             \* it has waited for the predicate: it takes it
  /\ Step(cvPc, t, "idle", "release")
  /\ owner' = NoThread
  /\ UNCHANGED <<pthreadMutex, depth, waited, ready>>

Release(t) ==
  /\ Step(cvPc, t, "release", "idle")
  /\ pthreadMutex' = NoThread /\ waited' = FALSE
  /\ UNCHANGED <<owner, depth, ready>>

-------------------------------------------------------------------------------
(* ConditionVar *)

Waiting == {t \in Threads : cvPc[t] = "waiting"}

\* wait(): pthread_cond_wait() releases the pthread mutex and sleeps in one step
Wait(t) ==
  /\ Holds(t) /\ ~ready
  /\ depth > 0 => NestAroundWait
  /\ Step(cvPc, t, "idle", "waiting")
  /\ pthreadMutex' = NoThread /\ waited' = FALSE
  /\ UNCHANGED <<owner, depth, ready>>

\* woken by a signal, or for no reason
WakeUp(t) ==
  /\ Step(cvPc, t, "waiting", "wake")
  /\ UNCHANGED <<pthreadMutex, owner, depth, waited, ready>>

\* ... and wait() returns with the pthread mutex
WaitReturns(t) ==
  /\ Step(cvPc, t, "wake", "idle")
  /\ pthreadMutex = NoThread /\ pthreadMutex' = t
  /\ waited' = TRUE
  /\ UNCHANGED <<owner, depth, ready>>

\* the threads' predicate
MakeReady(t) ==
  /\ Holds(t) /\ ~ready /\ ready' = TRUE
  /\ \E call \in {"signal", "broadcast"} : Step(cvPc, t, "idle", call)
  /\ UNCHANGED <<pthreadMutex, owner, depth, waited>>

TakeReady(t) ==
  /\ Holds(t) /\ ready /\ ready' = FALSE
  /\ UNCHANGED <<pthreadMutex, owner, depth, cvPc, waited>>

\* mutant: nobody is woken while the caller still holds the mutex
SignalLost(t) ==
  /\ Step(cvPc, t, "signal", "idle")
  /\ UNCHANGED <<pthreadMutex, owner, depth, waited, ready>>

\* pthread_cond_signal(): one of those who wait, if there is one
Signal(t) ==
  /\ cvPc[t] = "signal"
  /\ \E woken \in {W \in SUBSET Waiting : Waiting # {} => W # {}} :
       cvPc' = [u \in Threads |-> IF u = t THEN "idle" ELSE IF u \in woken THEN "wake" ELSE cvPc[u]]
  /\ UNCHANGED <<pthreadMutex, owner, depth, waited, ready>>

Broadcast(t) ==
  /\ cvPc[t] = "broadcast"
  /\ cvPc' = [u \in Threads |-> IF u = t THEN "idle" ELSE IF u \in Waiting THEN "wake" ELSE cvPc[u]]
  /\ UNCHANGED <<pthreadMutex, owner, depth, waited, ready>>

-------------------------------------------------------------------------------

MutexNext == \E t \in Threads :
  \/ Nest(t) \/ LockCall(t) \/ Acquire(t) \/ TryLock(t) \/ SetOwner(t)
  \/ UnlockNested(t) \/ UnlockOwner(t) \/ Release(t)
  \/ Wait(t) \/ WakeUp(t) \/ WaitReturns(t)
  \/ MakeReady(t) \/ TakeReady(t) \/ Signal(t) \/ Broadcast(t)

MutexSpec == MutexInit /\ [][MutexNext]_mutexVars

-------------------------------------------------------------------------------
(* Properties *)

\* lock(), trylock() and unlock() read _owner and _depth without the mutex: a
\* thread that finds its own name there, wherever its last wait() left it, does
\* hold the mutex, and a nesting depth is that of the thread that holds it.
OwnerTrusted ==
  /\ \A t \in Threads : owner = t /\ cvPc[t] \notin {"waiting", "wake"} => pthreadMutex = t
  /\ depth > 0 => owner # NoThread /\ owner = pthreadMutex

\* "The condition cannot be signaled (and thus ignored) between the time a
\* thread locks the mutex and the time it waits" (ConditionVar.h): while the
\* predicate holds and threads still sleep, the signal is on its way or the
\* thread that it woke has not looked yet.
NoLostSignal ==
  ready /\ Waiting # {} =>
    \E t \in Threads : cvPc[t] \in {"signal", "broadcast", "wake"} \/ (Holds(t) /\ waited)

\* ... both of them
ConditionExact == OwnerTrusted /\ NoLostSignal

-------------------------------------------------------------------------------
(* What is proved of the pair as it is used, for any number of threads: no *)
(* thread nests locks around a wait.                                       *)

MutexAssumption == NoThread \notin Threads /\ MaxNested \in Nat /\ ~NestAroundWait

MutexTypes ==
  /\ pthreadMutex \in Threads \cup {NoThread} /\ owner \in Threads \cup {NoThread}
  /\ depth \in Nat /\ waited \in BOOLEAN /\ ready \in BOOLEAN
  /\ cvPc \in [Threads -> {"idle", "acquire", "own", "release", "waiting", "wake",
                           "signal", "broadcast"}]

\* who has the pthread mutex, as far as a thread's place in its call tells
InsideHolds ==
  \A t \in Threads :
    /\ cvPc[t] \in {"own", "release", "signal", "broadcast"} => pthreadMutex = t
    /\ cvPc[t] \in {"acquire", "waiting", "wake"} => pthreadMutex # t

\* _owner names a thread after it has locked and until it unlocks
OwnerNotYet ==
  \A t \in Threads : cvPc[t] \in {"acquire", "own", "release"} => owner # t

MutexInv == MutexTypes /\ InsideHolds /\ OwnerNotYet /\ OwnerTrusted /\ NoLostSignal

===============================================================================
