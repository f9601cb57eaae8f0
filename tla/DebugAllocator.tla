----------------------------- MODULE DebugAllocator -----------------------------
(***************************************************************************)
(* The debug operator new and delete (ubc/gblnew.cpp): every block begins  *)
(* with an AllocRec in a doubly linked list, which a Mutex protects, and a *)
(* counter beside it, which is not updated under the Mutex.                *)
(* memReportLeaks() reads the head of the list, then the counter, and      *)
(* walks as many records as that says, without the Mutex: a call of        *)
(* another thread may come between any two of its steps.                   *)
(*                                                                         *)
(* Blocks are addresses: malloc() returns a freed one again.  Any thread   *)
(* may delete what any thread has allocated, once.  The marks around a     *)
(* block, its size and the count of bytes, which nothing reads, are left   *)
(* out, and so is whether a record has a file name: a report that is not   *)
(* asked for all of them passes over those that have none.                 *)
(***************************************************************************)
EXTENDS Threads, Naturals, FiniteSets

CONSTANTS Blocks,           \* the addresses that malloc() returns
          NullBlock,        \* nullptr
          MaxReports        \* bound on the reports under way at once: they only read

VARIABLES allocated,        \* the blocks that malloc() has given and free() has not got
          next, prev,       \* the links of every block's AllocRec
          allocList,        \* gblnew_allocList
          mutex,            \* the holder of gblnew_mutex
          numBlocks,        \* gblnew_numBlocks
          gPc,              \* the next statement of each thread
          block,            \* the block that a call is about
          inUse,            \* the blocks that were returned and not yet deleted
          cur, left,        \* of a thread's report: its cursor, and the records still to print
          alone,            \* the reports during which no call has made a step
          undisturbed,      \* those whose records no call has touched (see Overlap)
          printed           \* and the blocks that each of these has printed

listVars      == <<allocated, next, prev, allocList, mutex, numBlocks, block, inUse>>
reportVars    == <<cur, left, alone, undisturbed, printed>>
allocatorVars == <<listVars, gPc, reportVars>>

AllocatorInit ==
  /\ allocated = {} /\ inUse = {}
  /\ next = [b \in Blocks |-> NullBlock] /\ prev = [b \in Blocks |-> NullBlock]
  /\ allocList = NullBlock
  /\ mutex = NoThread
  /\ numBlocks = 0
  /\ gPc = [t \in Threads |-> "idle"]
  /\ block = [t \in Threads |-> NullBlock]
  /\ cur = [t \in Threads |-> NullBlock]
  /\ left = [t \in Threads |-> 0]
  /\ printed = [t \in Threads |-> {}]
  /\ alone = {} /\ undisturbed = {}

LockList(t, from, to) ==
  /\ Step(gPc, t, from, to)
  /\ mutex = NoThread /\ mutex' = t
  /\ UNCHANGED <<allocated, next, prev, allocList, numBlocks, block, inUse>>

UnlockList(t, from, to) ==
  /\ Step(gPc, t, from, to)
  /\ mutex' = NoThread
  /\ UNCHANGED <<allocated, next, prev, allocList, numBlocks, block, inUse>>

-------------------------------------------------------------------------------
(* operator new *)

\* malloc(), and the fields of the AllocRec but for _next
Allocate(t) ==
  /\ Step(gPc, t, "idle", "lockForLink")
  /\ \E b \in Blocks \ allocated :
       /\ allocated' = allocated \cup {b}
       /\ prev' = [prev EXCEPT ![b] = NullBlock]
       /\ block' = [block EXCEPT ![t] = b]
  /\ UNCHANGED <<next, allocList, mutex, numBlocks, inUse>>

LockForLink(t) == LockList(t, "lockForLink", "link")

LinkRecord(t) ==
  /\ Step(gPc, t, "link", "unlockLinked")
  /\ next' = [next EXCEPT ![block[t]] = allocList]
  /\ prev' = IF allocList = NullBlock THEN prev ELSE [prev EXCEPT ![allocList] = block[t]]
  /\ allocList' = block[t]
  /\ UNCHANGED <<allocated, mutex, numBlocks, block, inUse>>

UnlockLinked(t) == UnlockList(t, "unlockLinked", "count")

\* the block is counted, and returned
CountBlock(t) ==
  /\ Step(gPc, t, "count", "idle")
  /\ numBlocks' = numBlocks + 1
  /\ inUse' = inUse \cup {block[t]}
  /\ block' = [block EXCEPT ![t] = NullBlock]
  /\ UNCHANGED <<allocated, next, prev, allocList, mutex>>

-------------------------------------------------------------------------------
(* operator delete *)

Delete(t) ==
  /\ Step(gPc, t, "idle", "uncount")
  /\ \E b \in inUse :
       /\ inUse' = inUse \ {b}
       /\ block' = [block EXCEPT ![t] = b]
  /\ UNCHANGED <<allocated, next, prev, allocList, mutex, numBlocks>>

\* mutant: a deleted block stays counted
UncountLater(t) ==
  /\ Step(gPc, t, "uncount", "lockForUnlink")
  /\ UNCHANGED <<allocated, next, prev, allocList, mutex, numBlocks, block, inUse>>

UncountBlock(t) ==
  /\ Step(gPc, t, "uncount", "lockForUnlink")
  /\ numBlocks' = numBlocks - 1
  /\ UNCHANGED <<allocated, next, prev, allocList, mutex, block, inUse>>

LockForUnlink(t) == LockList(t, "lockForUnlink", "unlink")

\* mutant: the first record is taken for one in the middle
UnlinkInside(t) ==
  LET b == block[t]
  IN /\ Step(gPc, t, "unlink", "unlockUnlinked")
     /\ next' = IF prev[b] = NullBlock THEN next ELSE [next EXCEPT ![prev[b]] = next[b]]
     /\ prev' = IF next[b] = NullBlock THEN prev ELSE [prev EXCEPT ![next[b]] = prev[b]]
     /\ UNCHANGED <<allocated, allocList, mutex, numBlocks, block, inUse>>

UnlinkRecord(t) ==
  LET b == block[t]
  IN /\ Step(gPc, t, "unlink", "unlockUnlinked")
     /\ next' = IF prev[b] = NullBlock THEN next ELSE [next EXCEPT ![prev[b]] = next[b]]
     /\ prev' = IF next[b] = NullBlock THEN prev ELSE [prev EXCEPT ![next[b]] = prev[b]]
     /\ allocList' = IF b = allocList THEN next[b] ELSE allocList
     /\ UNCHANGED <<allocated, mutex, numBlocks, block, inUse>>

UnlockUnlinked(t) == UnlockList(t, "unlockUnlinked", "free")

\* what free() leaves in the record is not told apart: nothing that is modelled reads it
FreeBlock(t) ==
  /\ Step(gPc, t, "free", "idle")
  /\ allocated' = allocated \ {block[t]}
  /\ block' = [block EXCEPT ![t] = NullBlock]
  /\ next' = [next EXCEPT ![block[t]] = NullBlock] /\ prev' = [prev EXCEPT ![block[t]] = NullBlock]
  /\ UNCHANGED <<allocList, mutex, numBlocks, inUse>>

-------------------------------------------------------------------------------

(* memReportLeaks() *)

InList(t) == gPc[t] \in {"unlockLinked", "count", "uncount", "lockForUnlink", "unlink"}

Listed == inUse \cup {block[t] : t \in {u \in Threads : InList(u)}}

\* memory that holds an AllocRec: from the record's link until its block is freed
Readable(b) ==
  \/ b \in Listed
  \/ \E t \in Threads : gPc[t] \in {"unlockUnlinked", "free"} /\ block[t] = b

Reporting == {t \in Threads : gPc[t] \in {"readCount", "print"}}

Report(t) ==
  /\ Step(gPc, t, "idle", "readCount")
  /\ Cardinality(Reporting) < MaxReports
  /\ cur' = [cur EXCEPT ![t] = allocList]
  /\ alone' = alone \cup {t} /\ undisturbed' = undisturbed \cup {t}
  /\ UNCHANGED <<listVars, left, printed>>

ReadCount(t) ==
  /\ Step(gPc, t, "readCount", "print")
  /\ left' = [left EXCEPT ![t] = numBlocks]
  /\ UNCHANGED <<listVars, cur, printed, alone, undisturbed>>

PrintRecord(t) ==
  /\ Step(gPc, t, "print", "print")
  /\ left[t] > 0 /\ Readable(cur[t])
  /\ printed' = IF t \in undisturbed THEN [printed EXCEPT ![t] = @ \cup {cur[t]}] ELSE printed
  /\ cur' = [cur EXCEPT ![t] = next[@]]
  /\ left' = [left EXCEPT ![t] = @ - 1]
  /\ UNCHANGED <<listVars, alone, undisturbed>>

\* through a null pointer, or in memory that is no record: what happens then is undefined,
\* and nothing more is said of the program
PrintGarbage(t) ==
  /\ Step(gPc, t, "print", "lost")
  /\ left[t] > 0 /\ ~Readable(cur[t])
  /\ UNCHANGED <<listVars, reportVars>>

Reported(t) ==
  /\ Step(gPc, t, "print", "idle")
  /\ left[t] = 0
  /\ cur' = [cur EXCEPT ![t] = NullBlock]
  /\ printed' = [printed EXCEPT ![t] = {}]
  /\ alone' = alone \ {t} /\ undisturbed' = undisturbed \ {t}
  /\ UNCHANGED <<listVars, left>>

\* What thread t's step in a call is to the reports under way: a record that is unlinked
\* may be one that a report has still to come to, and one that is linked after a report
\* has read the list's head is not met but may be counted.
Overlap(t) ==
  /\ alone' = {}
  /\ undisturbed' = {u \in undisturbed :
                       gPc[t] # "unlink" /\ ~(gPc[t] = "link" /\ gPc[u] = "readCount")}
  /\ printed' = [u \in Threads |-> IF u \in undisturbed' THEN printed[u] ELSE {}]
  /\ UNCHANGED <<cur, left>>

-------------------------------------------------------------------------------

Call(t) ==
  \/ Allocate(t) \/ LockForLink(t) \/ LinkRecord(t) \/ UnlockLinked(t) \/ CountBlock(t)
  \/ Delete(t) \/ UncountBlock(t) \/ LockForUnlink(t) \/ UnlinkRecord(t) \/ UnlockUnlinked(t) \/ FreeBlock(t)

ReportStep(t) ==
  Report(t) \/ ReadCount(t) \/ PrintRecord(t) \/ PrintGarbage(t) \/ Reported(t)

AllocatorNext ==
  /\ \A t \in Threads : gPc[t] # "lost"
  /\ \E t \in Threads : (Call(t) /\ Overlap(t)) \/ ReportStep(t)

AllocatorSpec == AllocatorInit /\ [][AllocatorNext]_allocatorVars

-------------------------------------------------------------------------------
(* Properties *)

\* the records that are met from gblnew_allocList on
Walk[k \in Nat \ {0}] ==
  IF k = 1 THEN allocList
  ELSE LET b == Walk[k - 1] IN IF b = NullBlock THEN NullBlock ELSE next[b]

Linked == {Walk[k] : k \in 1..Cardinality(Blocks)} \ {NullBlock}

\* in operator new or delete
Busy(t) == gPc[t] \notin {"idle", "readCount", "print", "lost"}

\* Whatever threads allocate and delete at once, a record is in the list from its
\* link to its unlink, and never that of a freed block.  memReportLeaks() trusts a
\* counter that the Mutex does not protect, and still finds a record, and another one,
\* at every step of its walk, unless one was unlinked meanwhile or linked between its
\* reading the list's head and the counter (then it may leave the list); called, as it
\* should be, when nobody is allocating or deleting, it prints exactly the blocks in use.
BlocksListed ==
  /\ Linked = Listed
  /\ Linked \subseteq allocated
  /\ \A b \in Linked : IF prev[b] = NullBlock THEN b = allocList ELSE next[prev[b]] = b
  /\ \A t \in undisturbed : gPc[t] = "print" /\ left[t] > 0 => cur[t] \in Linked \ printed[t]
  /\ \A t \in alone :
       gPc[t] = "print" /\ left[t] = 0 /\ (\A u \in Threads : ~Busy(u))
         => printed[t] = inUse

-------------------------------------------------------------------------------
(* The inductive invariant *)

AllocatorAssumption ==
  IsFiniteSet(Blocks) /\ NullBlock \notin Blocks /\ NoThread \notin Threads

AllocatorTypes ==
  /\ allocated \subseteq Blocks
  /\ next \in [Blocks -> Blocks \cup {NullBlock}] /\ prev \in [Blocks -> Blocks \cup {NullBlock}]
  /\ gPc \in [Threads -> {"idle", "lockForLink", "link", "unlockLinked", "count",
                          "uncount", "lockForUnlink", "unlink", "unlockUnlinked", "free",
                          "readCount", "print", "lost"}]
  /\ block \in [Threads -> Blocks \cup {NullBlock}]
  /\ cur \in [Threads -> Blocks \cup {NullBlock}]
  /\ left \in [Threads -> Nat]
  /\ printed \in [Threads -> SUBSET Blocks]

MutexHeld ==
  \A t \in Threads : gPc[t] \in {"link", "unlockLinked", "unlink", "unlockUnlinked"} => mutex = t

\* a block is in use, or one call's
BlocksApart ==
  /\ inUse \subseteq allocated
  /\ \A t \in Threads : Busy(t) => block[t] \in allocated \ inUse
  /\ \A t, u \in Threads : Busy(t) /\ Busy(u) /\ block[t] = block[u] => t = u
  /\ \A t \in Threads : gPc[t] \in {"lockForLink", "link"} => prev[block[t]] = NullBlock

\* n records in the order of the list
IsList(n, list) ==
  /\ \A i, j \in 1..n : list[i] = list[j] => i = j
  /\ {list[i] : i \in 1..n} = Listed
  /\ allocList = IF n = 0 THEN NullBlock ELSE list[1]
  /\ \A i \in 1..n : /\ next[list[i]] = IF i = n THEN NullBlock ELSE list[i + 1]
                     /\ prev[list[i]] = IF i = 1 THEN NullBlock ELSE list[i - 1]

ListWhole == \E n \in 0..Cardinality(Blocks) : \E list \in [1..n -> Blocks] : IsList(n, list)

\* the counter is behind the list: a block is counted after it is linked, and
\* not any more when it is unlinked
CountedBlocks == inUse \cup {block[t] : t \in {u \in Threads : gPc[u] = "uncount"}}

CounterExact == numBlocks = Cardinality(CountedBlocks)

\* from the cursor of t's report on: n linked records that it has not printed, as
\* many as it is to print or more
Ahead(t, n, rest) ==
  /\ left[t] <= n
  /\ cur[t] = IF n = 0 THEN NullBlock ELSE rest[1]
  /\ \A i, j \in 1..n : rest[i] = rest[j] => i = j
  /\ \A i \in 1..n : /\ rest[i] \in Listed \ printed[t]
                     /\ next[rest[i]] = IF i = n THEN NullBlock ELSE rest[i + 1]

ReportsGoOn ==
  /\ alone \subseteq undisturbed /\ undisturbed \subseteq Threads
  /\ \A t \in Threads : gPc[t] \notin {"print", "lost"} => printed[t] = {}
  /\ \A t \in undisturbed :
       \/ gPc[t] = "readCount" /\ cur[t] = allocList
       \/ /\ gPc[t] = "print"
          /\ \E n \in 0..Cardinality(Blocks) : \E rest \in [1..n -> Blocks] : Ahead(t, n, rest)
  /\ \A t \in alone :
       gPc[t] = "print" => printed[t] \subseteq Listed /\ Cardinality(printed[t]) + left[t] = numBlocks

AllocatorInv ==
  AllocatorTypes /\ MutexHeld /\ BlocksApart /\ ListWhole /\ CounterExact /\ ReportsGoOn

===============================================================================
