# TLA+ models of libutl

libutl is a C++ class library: containers, threads and locks, streams and
encoders, sockets and a network server, strings and parsers. This directory
holds TLA+ models of the parts that are hard to get right, the TLC
configurations that check them, and TLAPS proofs about them. `PROJECT.json`
says which lines of the source each definition stands for (`map`), which
changes of a definition each property was seen to catch (`mutants`), what is
hard to test in the code (`hazards`) and what was found (`findings`).

Source paths below are relative to `src/`.

## 1. The system

### Components

| Component | State | Operations | What is hard | What makes it correct |
|---|---|---|---|---|
| **RWlockLF** `uts/RWlockLF` | two atomic words: the owner handle, a count of active threads; a nesting depth | rdlock, wrlock, tryrdlock, trywrlock, unlock | each call is 2-4 atomic operations with back-out paths, and all threads interleave between them | a writer is alone; counts are neither leaked nor dropped; it behaves like an atomic lock; a claimed writer gets in |
| **RWlock** `uts/RWlock` | a pthread rwlock (Windows: a critical section, an event and counters), owner, depth | the same interface | on Windows, an unlock in three steps without the mutex | the same promise |
| **Mutex, ConditionVar** `uts/` | pthread mutex, owner, depth; a condition variable that *is* a mutex | lock, trylock, unlock; wait, signal, broadcast | wait() gives the mutex away while owner and depth stay as they were | haveLock() and the nesting are the caller's; no signal is lost |
| **Semaphore, Thread** `uts/` | a POSIX semaphore; handle, flags (joinable, cancel, started) | up, down; start, join, cancel, testCancel | a detached thread deletes itself | joined once, never used after its end |
| **RingBuffer** `ucc/RingBuffer.h` | array of atomic slots, head, tail, two counters | enQ, deQ | reservation, claim and slot access are separate atomic steps; slots are reused while calls are inside | no loss, no duplicate, order, no call stuck |
| **ConcurrentQueue** `ucc/ConcurrentQueue.h` | linked list with a dummy node, head and tail locks | enQ, deQ | both ends touch the same node when the queue is empty, and neither lock keeps the other end out | it is a FIFO queue; no node is used after its deletion |
| **ObjectRegistry** `ucc/ObjectRegistry` | a tree of reference-counted objects under a RWlock | add, remove | lookup under the read lock, change under the write lock, something may happen in between | an object handed out is the registered one and is not deleted |
| **NetServer, NetServerClient** `ucm/NetServer_linux` | server: tables of client threads, queue of connections, parked threads, a count; per client thread: exit flag, remaining clients, semaphore, socket; between them a pipe | run, listen, clientActivate, clientDeactivate, clientDisconnectAll | flags shared without locks, thread reuse, retirement in two messages, shutdown and cancellation at any moment | no thread, slot, place or connection is lost or used twice; the shutdown ends |
| **NetServer (Windows)** `ucm/NetServer_windows` | slots, two ring buffers (parked, to be joined), an atomic count | the same | client threads take themselves out of service | the same |
| **FastCGIserver** `ucm/FastCGIserver` | the request being read, a stream writer with a buffer | clientReadMsg, the records of a request, the answer | a peer mixes the records of several requests | one answer per request, of its own |
| **BinTree, RBtree** `ucc/` | nodes with parent, child, colour; a root; one shared leaf; a sentinel node | add, addOrFind, addOrUpdate, insert, remove, removeIt, clear, find\*, iterators | rotations, node swaps, scratch pointers in the shared leaf, iterators that survive | balanced, linked, sorted, counted; iterators stay with their objects |
| **SkipList** `ucc/SkipList` | nodes in lists of several levels, a counter, an update vector | the same | links at every level; removeIt() removes another node | the same sorted sequence |
| **Hashtable** `ucc/Hashtable` | an array of slots: nothing, an object, or a list | add, remove, find, reserve, iterate | slots change their kind; the table grows before it looks | a set, or a multi-set; each object in its slot |
| **Heap, PriorityQueue** `ucc/Heap` | an array | add, pop, remove, find | removal from the middle | the first is the greatest |
| **Deque, Queue, Stack** `ucc/Deque` | a ring of blocks, two cursors | the ends, get, iterators | ends that meet; unrolling the ring | a sequence |
| **Array, Vector, List** `ucc/` | cells with holes, a first hole, an increment; nodes and a sentinel | set, add, remove, find, sort, move, grow, cut | holes, allocation, links at the ends | each object once; links both ways; a stable sort |
| **Collection** `ucc/Collection` | the owner flag, the multi-set flag | add, addOrFind, copy, steal, take, remove | who deletes what was refused, replaced or stolen | one owner per object |
| **ObjectCache** `ucc/ObjectCache` | a hash table and a list in order of use | find, add, resize, clear | two structures that name each other | least recently used goes first |
| **SpanCol, SpanAllocator** `uma/` | a tree of disjoint spans, a second one by size, a total | add, remove, allocate | merging and cutting at both ends of a new span | a point belongs to what was last put there; both trees agree |
| **Algorithms** `uoi/algorithms` | - | four sorts, searches, set operations | boundaries of segments and partitions | they sort, find, and do set algebra |
| **BufferedStream** `uio/BufferedStream` | two buffers, positions, limits | read, readLine, write, get, put, flush | short reads and writes, the end of input in the middle of a call | each byte once and in order |
| **LZ, Huffman, arithmetic, RL, BWT encoders** `udc/` | windows, adaptive trees and counts, blocks | encode, finishEncoding, decode | the decoder rebuilds the encoder's state step by step | decode(encode(x)) = x |
| **Regex, RDparser, BBcodeParser** `ust/` | a compiled graph; a list of open tags and contexts | compile, match; parse | backtracking that must restore what it changed | the language that the text says |
| **Debug allocator** `ubc/gblnew` | a locked list of blocks, a counter | new, delete, report | counter updated outside the lock; the report takes no lock | the list is the blocks in use, and a report that nobody disturbs prints them |
| **Blackjack trainer** `apps/bjt` | shoe, hands, bets, cash, statistics | a round, key by key | splits, doubles and side payments | money and cards are somewhere |
| **Base64, MD5, SHA256** `uio/` | a buffer, a count, a block being filled | encode, decode, add, finalize, get | groups and blocks cut by calls of any length | the same result however the input is cut |
| **String** `ust/String` | a character array, owned or borrowed | set, append, insert, remove, replace, searches | a change must copy what is borrowed and grow what is full | the text is the right one, and a borrowed array is not written |
| BitArray, slist, dlist, graphs; numbers, time; path names, URI; sockets, TLS, files, databases; LogMgr; run-time classes, applications | - | - | pure functions, text, system calls, wrappers | not modelled (section 7) |

### How they interact

* `NetServer` derives from `Thread`, and so does `NetServerClient`; the server
  thread starts and joins client threads, wakes them through a `Semaphore`
  each, and hears from them only by the pipe, whose messages are addresses of
  `NetServerClient` objects. The application sees the server through callbacks
  (onClientConnect, clientReadMsg, onClientDisconnect) that run partly in the
  server thread and partly in client threads. `FastCGIserver` is such an
  application: its clientReadMsg() reads one record.
* `NetServer_windows` uses `RingBuffer` where the Linux server uses the pipe.
* `ObjectRegistry` holds a `RBtree` under a `RWlock`.
* `RBtree` and `SkipList` are `SortedCollection`s: searches and updates are
  inherited, or written again for the structure.
* `ObjectCache` holds a `Hashtable` whose objects name nodes of a `List`.
* `SpanAllocator`'s hooks (onAdd, onRemove) keep a second tree beside the one
  that `SpanCol` changes.
* `LZencoder` writes through two `HuffmanEncoder`s, `BWTencoder` through an
  `ArithmeticEncoder`, and all of them through a bit stream over `BufferedStream`.

## 2. Modules

| Module | Models | Relates to |
|---|---|---|
| `RWlockSpec` | the read/write lock as one atomic step per call: what `RWlock.h` promises | abstract |
| `RWlockLF` | `uts/RWlockLF`, one action per atomic operation | implements `RWlockSpec` |
| `RWlockLFProofs` | theorems about `RWlockLF` | extends it |
| `RWlockWindows` | the Windows branch of `uts/RWlock`, step by step | - |
| `Threads` | the set of threads, and a step of one of them, for the modules below that take calls apart | - |
| `ConditionVar` | `uts/Mutex` and `uts/ConditionVar`, pthread branch | extends `Threads` |
| `ConcurrentQueue` | `ucc/ConcurrentQueue.h`, one action per access to shared memory | extends `Threads`; implements the queue of `ObjectSequence` |
| `ObjectRegistry` | `ucc/ObjectRegistry`, over the abstract lock | extends `Threads`; instantiates `RWlockSpec`'s lock |
| `DebugAllocator` | `ubc/gblnew.cpp` | extends `Threads` |
| `ConcurrencyProofs` | theorems about `ConcurrentQueue`, `ConditionVar`, `DebugAllocator` and `ObjectRegistry` | extends them |
| `RingBuffer` | `ucc/RingBuffer.h`, one action per atomic operation | - |
| `RingBufferProofs` | theorems about `RingBuffer` | extends it |
| `NetServer` | `ucm/NetServer_linux.{h,cpp}`, with `Thread` and `Semaphore` as the server uses them | checked with its threads and its connections symmetric |
| `NetServerProofs` | theorems about `NetServer` | extends it |
| `NetServerWindows` | `ucm/NetServer_windows.{h,cpp}`, the ring buffers as queues; with its proof | extends `Threads` |
| `FastCGIserver` | one connection of `ucm/FastCGIserver.cpp` | - |
| `SortedSequence` | what a sorted collection promises: a sequence, and an iterator that is a position in it | abstract |
| `RBtree` | `ucc/{BinTree,BinTreeNode,RBtree,RBtreeNode,BinTreeIt}` and `SortedCollection`, pointer by pointer | implements `SortedSequence` |
| `SkipList` | `ucc/{SkipList,SkipListNode,SkipListIt}`, link by link | implements `SortedSequence` |
| `ObjectSet` | what an unordered collection promises | abstract |
| `Hashtable` | `ucc/Hashtable` and its iterator | implements `ObjectSet` |
| `ObjectSequence` | a sequence with two ends, and the queue that threads share (`FIFOSpec`), one atomic step per call | abstract |
| `Deque` | `ucc/Deque` and its iterator; with its proof | implements `ObjectSequence` |
| `Heap` | `ucc/Heap`; the array's operations are also what heapSort() is built from | - |
| `Array` | `ucc/Array` over `ucc/Vector.h`, the vector as operators on a record | - |
| `List` | `ucc/{List,ListNode,ListIt}`, link by link | - |
| `ObjectCache` | `ucc/ObjectCache` | uses `List` |
| `Collection` | ownership across collections (`ucc/Collection`); with its proof | - |
| `Spans` | `uma/{Span,SpanCol,SpanAllocator}` | - |
| `Algorithms` | `uoi/algorithms.cpp` | uses `Heap` |
| `BufferedStream` | `uio/BufferedStream`; with its proof | - |
| `LZencoder`, `HuffmanEncoder`, `ArithmeticEncoder`, `RLencoder`, `BWTencoder` | the coders of `udc/`; `BlockTags.cfg` has the block sort with two tags | - |
| `Encoder` | `uio/Base64encoder`, and how `uio/MD5` and `uio/SHA256` buffer, pad and count | - |
| `String` | `ust/String` | - |
| `Regex`, `RDparser`, `BBcodeParser` | the compilers, matchers and parsers of `ust/` | - |
| `BlackjackTrainer` | `apps/bjt`: trainer, hands, shoe, round | - |
| `MCComponents` | one model of the eight small components that have proofs, with the algorithms and the blackjack table | extends the eight modules, instantiates `Algorithms` and `BlackjackTrainer` |
| `MCLibrary` | one model of the other collections and small components | instantiates their modules |

Definitions marked `mutant` in the modules are wrong variants of the definition
that follows them. No specification uses them; they exist so that each property
can be seen to fail on a plausible bug.

`MCComponents` and `MCLibrary` put components that share nothing into one
model: the first state chooses one of them, and the others take no step; nothing is
interleaved that the code does not interleave. `MCComponents` extends the modules, so that
what it checks are their own properties and what the theorems assume are their own
assumptions. In `MCLibrary` the variables `s0`...`s9` are those of the component that
was chosen, and a property is that of several modules, each for its component.

Two ways of modelling recur.

* *Machines.* An action is a call of the interface (sequential classes), or one
  access to memory that threads share together with the local work up to the
  next one (concurrent classes). Pointers are addresses that are used again after
  they are freed. Where a class inherits or calls another one of the library, the
  step includes it.
* *Functions on growing inputs.* The algorithms, patterns, grammars, blocks and
  markup texts are data; what the code computes from them is an operator, and a
  behaviour only grows the data, a piece at a time. The invariant compares the
  operator with what it should compute, in every state: for every input up to the
  bound.

### RWlockLF

`writeLockOwner`, `depth` and `numActive` are the three fields. `pc[t]` is the
atomic operation that thread t does next, `readers` the threads that were given
a read lock (only the callers know that in the code). An action is one load,
store, fetch_add or compare_exchange together with the local work up to the next
one. A compare_exchange that fails and a try that returns false change nothing
and have no action. Callers obey the interface: a thread that already reads
calls neither rdlock nor wrlock (both would wait for ever, as in a pthread
rwlock). The memory model is sequential consistency: the code's relaxed
operations are one interleaving each (the hazard at `RWlockLF.cpp:173` says what
this leaves out).

### The other locks, queues and the registry

* `RWlockWindows`: the critical section, the event, `_numReaders` and `_mode` are
  separate variables, and unlock() of the last reader changes the last three in
  three steps.
* `ConditionVar`: `owner` and `depth` are what `Mutex` believes,
  `pthreadMutex` what holds. The threads use the pair as the class comment
  says: the predicate is set and signalled with the mutex held, and a waiter
  tests it again. A spurious wake-up is possible.
* `ConcurrentQueue`: the two spin locks do not exclude each other. The abstract queue's
  contents are read off the list; enQ takes effect when the new node is linked,
  and a deQ that finds nothing when it reads the next pointer.
* `ObjectRegistry`: the lock takes steps as `RWlockSpec` says, so that every
  interleaving of the lock's calls is there and none inside them. `mine` is what
  a thread holds, which only the callers know.
* `DebugAllocator`: the list is linked and unlinked under the mutex, the counter
  changes outside of it, and the report of leaks takes no mutex at all: it reads the
  list's head (`Report`), the counter (`ReadCount`) and one record after the other
  (`PrintRecord`), and any call's step may come in between. A report that leaves the list
  follows a null pointer or prints freed memory (`PrintGarbage`); this is undefined, and
  the behaviour ends there. `alone`, `undisturbed` and `printed` are history: which
  reports no call has met, which ones no call has put at risk (`Overlap`), and what these
  have printed.

### NetServer

The server thread's position is `sPc`: `loop` (run()'s condition and
testCancel()), `poll` (epoll_wait and one event), `dispatch`/`join`
(handlePipeEvent()), `add` (clientMake(), clientsAdd(), start()), `mark`/`drain`
(clientDisconnectAll()), `ended` (run() has returned), `deleted`. A client
thread's is `tPc[t]`: waiting on its semaphore, the two tests of `_exit`,
clientListen(), clientDeactivate(), pause(), the write to the pipe, the return.

* Fields that only the server thread touches change inside its steps; `_exit`,
  `_numClients`, the semaphore and the pipe are shared without a lock, and each
  access to them is a step of its own.
* `SizeMax` is the value size_t_max, by which a thread tells that it retires.
* One `poll` step handles one event. The code reads up to eight addresses of the
  pipe and two epoll events per turn before it looks at exiting() again; that is
  a behaviour of the model too, in which the later writers, or exiting(), are a
  little later. The model has all of the code's behaviours and some more.
* `NetServer_linux.cpp:128`: testCancel() throws. `runner` tells whether the
  server's own (cancellable) thread executes clientDisconnectAll() or whoever
  joins and deletes the server.
* A peer, accept() failing, a command handler that disconnects its own client or
  throws, and a peer that leaves are nondeterministic.
* Each thread object is used for one `new`; deleted ones never come back, so a
  use after deletion shows as a handle to a thread that is not alive.

`NetServerWindows` has the same parties without a pipe: a client thread puts
itself into `_paused` or `_joinable`, and the count is an atomic word that both
sides change. The slots that clientsAdd() tries are all of them, in some order,
until one is free.

### RingBuffer

`countLB` is `_countLB` less its bias of 1000000; head and tail are kept modulo
the size, which divides 2^64. `accepted`, `delivered`, `precedes`, `missed`,
`overtook` are history for the properties and are read by no action. Each value
is queued once, so a duplicate or a loss can be told.

### Trees, lists and tables

* `RBtree`: `heap` maps every node and the leaf to its children, parent and colour. The
  mirrored halves of the code are one definition with a side as parameter
  (`Rotate(h, x, "left")` is rotateLeft()); loops are recursive operators on the
  heap, each turn one call. A node is named by
  its object, since removal exchanges nodes and never contents; addOrUpdate(),
  which does replace a node's object, renames it. The shared leaf's `_parent` is
  kept as the code leaves it, stale values included. `it` is one iterator of the
  caller's, on any node, across any calls; remove() and clear() end the validity
  of an iterator whose node they delete. Deleted nodes are blank in the heap: a
  link to one is caught by `Linked`.
* `SortedSequence` has the same calls with their meaning on a sequence. The
  refinement mapping reads the tree in order, or the skip list's lowest list:
  `Contents` drops the sentinel, `Position` is the iterator's index.
* `SkipList`: the height of a node is the number of trailing zeroes of a counter;
  `update` is the vector that searches leave behind. A new node takes the least
  free address of its key's.
* `Hashtable`: a slot is its chain; what the pointer in it is follows from the
  chain's length. The load factor and the primes are constants.
* `Deque`: the ring is a function from block numbers to blocks of cells; the ends and an
  iterator are cursors in it, a block and an index, as in the code. `Contents` reads the
  objects from the first cursor to past the last.
* `Array`: holes, `_firstNull` and `_items` change in every call as in the code;
  cells past the end keep what they held.
* `Collection`: what is in a collection is a set here; what matters is which call
  deletes, refuses, replaces or hands over which object. `forgotten` is history: the
  objects that stealItems() found in its source and its target refused.

### Coders and parsers

The encoders run on byte values from small sets and scaled limits (window,
look-ahead, counts, words), with the decoder's state beside the encoder's, so
that the invariant is that what has been decoded is what was fed. The streams
between them carry tokens or bits; the layout of LZ tokens in bits is not
modelled. The references that the parsers are compared with are written
independently: for `Regex`, the set of ends of a pattern read as a regular
expression; for `RDparser`, the end of a match without parser state; for
`BBcodeParser`, conditions on the elements and the texts shown.

## 3. Runs

| Run | Instance | Shows |
|---|---|---|
| `rwlock_lf` | 3 threads, nesting up to 2 | every interleaving of every legal call: exclusion, exact count, exact owner, refinement of `RWlockSpec`; under fairness a claimed writer gets in |
| `netserver_pool` | 3 threads, 3 connections; 1 or 2 clients at once, 0 or 1 parked, 2 clients per thread; stop and cancel | threads are made, parked, resumed, used up, stopped; all bookkeeping invariants; nothing is dropped but at shutdown; who ended without being cancelled has left nobody behind |
| `netserver_stop` | 1 client at once, 1 parked, 1 client per thread (the default) | clientsAdd() finds a slot; the shutdown ends; queued connections get their turn |
| `ringbuffer` | 3 threads, 3 values, size 2 | counters bound the contents, no loss, no duplicate, first in first out with up to two slots; no call spins for ever past its claim |
| `components` | `MCComponents`, bounds below | the queue, the mutex, the allocator, the registry and the Windows server in every interleaving; ownership, the deque and the stream under every sequence of calls; algorithms on every small input; the blackjack table over every deal |
| `library` | `MCLibrary`, bounds below | each collection is well-formed and is the sequence or the set that it stands for; coders, strings, patterns, parsers on every small input |
| `netserver_hang`, `rwlock_windows`, `bwt_tags`, `rlencoder`, `ringbuffer_order`, `merge_sort` | small | the findings of section 6 |

What each property of `components` and `library` says stands above it, in the
component's module or in the MC module.

**Bounds.** *RWlockLF*: a race in it has a writer, somebody it excludes, and a
third thread that changes the owner word or the count between their steps
(trywrlock's two-step retreat needs exactly that); nesting 2 tells a nested
unlock from a last one. The proofs remove both bounds. *NetServer*: two places
and three connections let one wait while two are served; three threads let a
parked, a retiring and a fresh one exist together; with one place a table has
two slots, so three threads would exhaust it (SlotFree is about that). A
connection is made at most once, so a run ends; the shutdown may begin at any
moment. *RingBuffer*: values go round while a slow call of the lap before is still
inside; with three threads two can race for one slot while a third holds the
other. *Trees*: nine objects and the sentinel take every branch of both fix-ups,
the climb by two levels included; three keys, two copies each, give equal objects
on both sides of a match. *SkipList*: three levels, so that a link can be
missing in the middle. *Hashtable*: two sizes, so that chains split when it grows.
*Deque*: blocks of two, and up to six objects, so that the ring wraps within a block
and grows more than once. *Heap*: three full rows. *Array*: the first
allocation is outgrown. *Spans*: 0..5 leaves room for a span that covers two, cuts
two, or lies inside one. *Concurrent classes of `components`*: three threads; three queue nodes, so that a freed address returns
while a thread still has it in hand; one report of leaks at a time (`MaxReports`), since a
report only reads. *Collection*: two collections, two objects of each of two keys; the
collections are alike, so the second is a multi-set only if the first is one. *Algorithms*: cutoffs of two where the code has
16 and 10, and arrays of up to eight, so that segments above and below a cutoff
meet; the sort of strings has its cutoff for medians of nine at seven, and strings that are
prefixes of others. *Base64, digests*: pieces of 0, 1, 3, 4, 6 and 9 bytes, four of them, so
that a call ends anywhere in a group or block. *String*: four characters, arrays in steps of
four, so that each change meets an array that is full. *LZ*: the window of eight is passed, and the look-ahead buffer of four is
filled three times. *Huffman, arithmetic*: limits at which the frequencies are
halved every few symbols. *BWT*: short blocks and long ones, periodic or not. *Regex,
RDparser*: every pattern or production of four pieces against every text of three
letters; *BBcode*: every markup of four pieces.

The constants that the code fixes and the models scale are named in
`MCComponents.cfg` and in the MC modules where they are given their values.

**Symmetry** is used for threads, connections, addresses and values in the safety
runs of NetServer, and for threads in MCComponents: no action or property tells one from
another. The runs with liveness use none.

**Fairness.** `RWlockLF`: the scheduler runs a thread that is inside a call, and
a reader unlocks; nobody has to call anything. `NetServer`: the scheduler runs
the server thread and each client thread, select() and epoll_wait() time out after
100 and 200 ms, and the application that stopped its server joins it. No
peer has to connect or leave: `QueueServed` therefore has the premise that peers
do not stay for ever. `RingBuffer`: the scheduler runs a
thread inside a call; no one has to call. Weak fairness is enough everywhere: no
property depends on a thread winning a race again and again. The other modules
state no fairness and no liveness.

**Deadlock** is checked in the lock, server and ring buffer runs;
`NetServer`'s `Gone` and `RingBuffer`'s `Finished` are the states in which the
system may stop. It is not checked where inputs only grow and stop at their bound
(`library`, `bwt_tags`, `rlencoder`, `merge_sort`), and in `components`, where the Windows server stops too.

## 4. Proofs

tlapm proves the theorems below for every value of the constants, not only for
the runs' instances.

| Component | Theorem | Property | Assumes |
|---|---|---|---|
| `RWlockLF` | `Invariance`, `TypeCorrect`, `MutualExclusion`, `ActiveCountExact`, `OwnerExact` | `TypeOK`, `Exclusion`, `ActiveCount`, `OwnerIsClaimant` | `LockAssumption`: finitely many threads, the null handle is none of them, the nesting bound is a number |
| | `Refinement` | `ImplementsRWlock` | the same |
| `RingBuffer` | `Invariance`, `TypeCorrect`, `CountsBoundItems`, `NothingLost`, `InOrder` | `TypeOK`, `CountsBound`, `NoLossNoDuplicate`, `InOrderUpToTwo` | `RingBufferAssumption`: finitely many threads and values, a value is not the null pointer; and that 2^k is a natural number not below k, which tlapm does not know |
| `NetServer` | `Invariance`, `TypeCorrect`, `WaitingInOnePlace`, `ClientsAreExact`, `PlacesAreExact`, `ConnectionsAreKept`, `QueueOnlyWhenFull` | `TypeOK`, `OneHandle`, `SlotsExact`, `CountExact`, `ConnectionKept`, `NoIdleQueue` | `NetServerAssumption`: finitely many threads and connections, no more of these than thread objects (so that `new` does not run out), at least one client allowed; and 2^k |
| | `NothingDroppedEarly`, `EndsAlone` | `DroppedOnlyAtShutdown` (an action property), `EndedAlone` | the same |
| | `ClientsAddFindsSlot` | `SlotFree` | the same; `ProbesMeetAll`: the multiples of 9 meet every slot, which is arithmetic modulo a power of two; and `EnoughSlots`: one client per thread, or room to park as many threads as there are clients |
| `ConcurrentQueue` | `QueueInvariance`, `NodesAreOwned` | `NodesOwned` | `QueueAssumption`: finitely many addresses, null is none |
| | `QueueImplementsFIFO` | `QueueIsFIFO` (a refinement of `ObjectSequence`'s `FIFOSpec`) | the same |
| `ConditionVar` | `ConditionIsExact` | `ConditionExact` | `MutexAssumption`: the null handle is no thread, nobody waits with the mutex locked twice |
| `DebugAllocator` | `BlocksAreListed` | `BlocksListed` | `AllocatorAssumption`: finitely many addresses, null is none |
| `ObjectRegistry` | `RegistryIsExact` | `RegistryExact` | `RegistryAssumption`: finitely many threads and keys, the null handles are none of them, addresses are numbers |
| `NetServerWindows` | `WindowsPoolIsExact` | `WindowsPoolExact` | `PoolAssumption`: finitely many thread objects, the null handle is none of them, at least one slot and one client per thread |
| `Collection` | `ObjectsOwnedOnce` | `OwnedOnce` | nothing: there may be any number of keys and of objects of a key |
| `BufferedStream` | `StreamBytesExact` | `StreamExact` | `StreamAssumption`: the buffers hold at least one byte, the counts of bytes are numbers |
| `Deque` | `DequeImplementsSequence` | `ImplementsObjectSequence` (a refinement of `ObjectSequence`) | `DequeAssumption`: a block holds at least one object, the bound is a number, null is no object |

The type invariants of `RWlockLF` and `RingBuffer` are proved, and no run repeats them: there the exact counts say
more. Each assumption is an ASSUME that TLC evaluates on the run of its module; those of
`ConcurrentQueue` and all below it are assumed in `MCComponents`. The assumption of `MutexAssumption` about nesting is
the library's: wait() gives the pthread mutex away however deep it was locked, and
no caller in the repository locks twice around it.

Each proof has an inductive invariant (`IndInv`; `QueueInv`, `MutexInv`, `AllocatorInv`,
`RegistryInv`, `PoolInv`, `OwnershipInv`, `StreamInv`, `DequeInv`), which TLC checked on a
small instance before it was proved. What it needs beyond the property, and why:

*RWlockLF.* Exclusion alone is not inductive: WrlockWait enters when
`numActive <= 1`, and that means "alone" only because `numActive` counts exactly the
read locks and the threads past their own fetch_add (`ActiveCount`), this thread
among them; RdlockCheck lets a reader in when the owner word is null, and that means
"no writer" only because the word names every thread that writes
(`OwnerIsClaimant`). `ReaderIdle` says where a thread with a read lock can be. The
argument about counts is carried by lemmas on cardinalities (`CountedGrows`,
`CountedShrinks`, ...), each action by the lemma of its kind of step. In the refinement
a call takes effect when a reader sees no owner after it has counted itself, when a
writer leaves its wait (or its fetch_add returns 0), and when unlock() clears the
owner word or drops a reader's count; every other step is a stutter.

*RingBuffer.* `CountsExact`: each of the two counters is the number of stored values
plus the calls between its own step and the slot's; what the caller sees as the count
is between them. `EnqValues` and `StoredValues` say where a value may be, and that no
two calls or slots have the same one: a slot is only ever changed by a
compare_exchange or an exchange, so the argument needs no order of positions.

Order is lost from four slots on (finding 5). That one or two slots keep it is proved from
`OrderInv`, which TLC checked first. Its argument is that claims cannot lap each
other: items and reservations together fit into the slots, and a deQ only claims what
`ItemsPromised` says is there (`RoomFor` draws from the two counts which threads and items
exclude each other). So one enQ and one deQ at most have claimed a slot (`ClaimsApart`), and
`Due`, whether the next deQ at a slot will find an item, decides where head and tail are
(`ClaimsInTurn`). For values x before y, then: until x's slot is claimed, y's is not and x's is the
one at the head (`ClaimedFirst`); and a deQ that has claimed x was called before y was
delivered (`CalledFirst`), which is what being in order means. With four slots a call can claim the slot of one that is
a lap behind (finding 5), and `ClaimsApart` is lost.

*NetServer.* A waiting thread has one handle because each place a handle can be in
excludes the others, and that has to be said together (`Handles`: parked, queued in the
pipe, in the server's hand, in a slot with a connection); `Hand` says what the server
holds at each position of its program; `Errands` what a message in the pipe says about
its sender; `MarkedParked` what is left to wake once the shutdown has marked; `PlacesCounted`
that `_clientsCount` is a cardinality; `ConnsApart` that no connection is in two
places; `QueueWaits` that the queue waits only for places; `StopKnown` that a shutdown
was asked for. None of them is inductive without the others: a message is handled by
the hand that `Hand` describes, on a thread that `Errands` describes.

`EndedAlone` follows from `SlotsExact` when the drain loop finds no slot taken, and stays true because nobody
is left to make a step; `Drained` says that a shutdown that has emptied the queues does not fill them again.

`SlotFree` is not true of every instance: when as many threads retire as there are
spare slots while their messages are in the pipe, clientsAdd() finds none and
spins, in the thread that would read those messages. TLC finds this with two clients
at once, two per thread and nobody parked. `ClientsAddFindsSlot` says where it cannot
happen (`EnoughSlots`; the default of one client per thread is such a case). Its
invariant, `RoomInv`, which TLC checked for both cases, is that until the shutdown no thread is told to
retire (`Retained`), and that the threads that exist, with the one about to be made, are no
more than clientsMax: a thread is only made when nobody is parked, and then every
thread that exists has a place (`Alive = Owing`), so that `clientsCount < clientsMax` bounds them.

*ConcurrentQueue.* `LocksExclude`: each lock has one holder among the calls past it.
`IsChain(Chain, head, heapNodes)`: the nodes reached from `_head` are a sequence without
repetition that ends in null. `TailLast` says that `_tail` is its last node or, between
the link and the advance, its last but one; `TakesNext` that what a deQ has read is
still the head's successor, since only the holder of the head lock moves `_head`;
`NodesApart` and `NodesReady` that a node outside of the chain belongs to one call, and
what is in it. The refinement: the link of a new node is `Put`, the advance of
`_head` is `Take`, the reading of a null next pointer is `Miss`, every other step is a
stutter. That a node's address returns while another thread is inside its call is
covered, since the set of addresses is any.

*ConditionVar.* `InsideHolds`: who is past lock() holds the pthread mutex; `OwnerNotYet`: between
pthread_mutex_lock() and the assignment of `_owner` the word does not name the thread.
NoLostSignal needs both, because the predicate only changes with the mutex held.

*DebugAllocator.* `ListWhole` asserts that *some* sequence of blocks is the doubly
linked list that begins at `allocList`, whose elements are the blocks between their
link and their unlink; `MutexHeld` that only one call is inside. `CounterExact`: the
counter, which is changed outside of the mutex, is the number of blocks counted, and these
are among the linked ones. `ReportsGoOn`: from the cursor of an undisturbed report on there are at
least as many linked records that it has not printed as it is still to print (`Ahead`). Linking
a block keeps this, because the new record comes before the list's head that the report has read, and
so do the steps that count and uncount blocks, because the report has its count already; an
unlink does not, nor a link between the reading of the head and that of the counter, and these are the
overlaps after which a report is no longer `undisturbed` and nothing is claimed of it. Of a report that is
`alone`, what it has printed and what is left add up to the counter, so that at its end, when nobody is inside a
call, it has printed the blocks in use.

*ObjectRegistry.* The references to a key are a set of tokens: those that each caller holds, and
the one that a call of remove() is giving back but has not subtracted yet (`Giving`);
`RefCountExact` says that the count in the tree is its cardinality, or, while a remove()
restores the count that it saw reach zero (`Restoring`), zero. It is inductive only
with `LocksFit` (from where a call is one knows which lock it holds, so that only one
reader upgrades and nobody else changes the tree under the write lock), `LookupsHold`
(what a call has found under a lock that it kept is still so; what it found before it
gave the lock away it finds again), and `ArgumentsApart` (the argument of add() belongs to
one call, and to the tree once it is registered: the duplicate, not the original, is deleted).

*NetServerWindows.* `ThreadFits` says for each place where a client thread can be what it
believes: one that sleeps is in `_paused`, or was resumed and is not woken yet
(`Resumed`), or has been woken exactly once, with a connection or to exit. `QueuesFit` and
`HandFits` keep the two queues and the server's hand apart; `SlotsFit` gives a thread
its slot from clientsAdd() to cleanupJoinable(); `ConnsFit` numbers connections in the order
in which they come; `CountFits` says that `_clientsCount` is the number of threads that have a
place (`Placed`), which a thread gives back before it can be found, and only an
inequality once the shutdown lets threads retire with their connection (`Retire`). The steps
of a thread that nobody has in hand are one lemma, `OwnStep`.

*Collection.* `OwnedOnce` says who deletes an object, and that is not inductive without
what an object is that nobody deletes. `OwnedLive`: what an owner holds, and what the caller
has to delete, is alive; `OwnersApart`: no two of these have the same object;
`LiveOwned`: what is alive belongs to one of them, or was refused when it was stolen and
is nobody's from then on (`ForgottenOwnerless`, section 6). What a collection holds that does not own it
may be dead, so nothing is said of it: the calls that follow its pointers have that as
their guard (`Sound`). Lemmas say what deleting and making do to the memory, and each
call is a step of the owners: what it hands over is taken away elsewhere.

*BufferedStream.* A byte is its number, so that order is an equation: `InputInOrder` says
that the caller's bytes are 1, 2, ... and the buffer's those behind them, `OutputInOrder` the
same of what was written. `CallInOrder` is what the loops of read() and readLine() know
between two turns: what they have got since they began is not enough yet, and has no
line end in it; and that after get() a byte that may be put back was got. `AnswerExact` then
follows when a loop ends.

*Deque.* `Stored(blocks, begin, end, s)`: the sequence s lies in the ring from `begin` up to
`end`, every other cell is empty, and the ring is not closed: the row of `end` is not yet that of
`begin` again (`Row(first[2] + Len(s)) < NumBlocks`). Without the last conjunct a push
would overwrite or a full ring would look like an empty one. That cursors
that are less than a ring apart differ (`CursorsDiffer`), and how a cursor is before
and after another one (`CursorNext`, `NextOfPrev`), is arithmetic on rows and columns, proved from the
division's definition (`RowCol`...). The four ends are a lemma each on `Stored`; growing
unrolls the ring, after which block n is free and the last row is old block n - 1 (`LastRow`,
`GrownStored`, `PushFrontGrown`, `PushBackGrown`). The refinement reads s off the ring
(`ObjectsFrom`); every call is the abstract one of the same name.

### What is only model-checked, and why

* Liveness (`WriterGetsIn`, `CallsReturn`, `Shutdown`, `QueueServed`): needs ENABLED under
  fairness, which this prover does not handle.
* `RBtree`, `List`, `ObjectCache`, `SkipList`, the coders, the parsers, `Algorithms`, `Heap`,
  `Hashtable`, `Array`: RECURSIVE operators, folds or recursive functions over links
  and sequences, whose properties need induction over data, which the prover's libraries
  offer only in a form that it cannot instantiate. `SpansExact` and `BlackjackExact` compare
  a counter with a sum over a set or a sequence of any length, which is such an induction too.
* `RWlockWindows`: its property is violated (finding 2).
* The abstract `SortedSequence` and `ObjectSet`: section 8.

## 5. What the properties are aimed at

The hazards in `PROJECT.json` name the lines. In short:

* *interleavings*: `Exclusion`, `ActiveCount` and `ImplementsRWlock` are violated by
  any back-out path that forgets or repeats a step; `NodesOwned` by a lock that
  does not cover what it must; `RegistryExact` by an upgrade that trusts what was seen
  under the read lock; `ConditionExact` by ownership words left behind;
  `InOrderUpToTwo` and `NoLossNoDuplicate` relate whole calls to each other;
* *bookkeeping over many steps*: `OneHandle` says that a waiting thread can be woken
  from exactly one place, `SlotsExact` that the shutdown can reach every thread,
  `CountExact` that the admission count is what it counts, `NoIdleQueue` and
  `QueueServed` that waiting connections wait for a reason; `WindowsPoolExact` says
  the same of the other server; `EndedAlone` that nobody is left when the server is gone;
* *long sequences of calls*: `TreeShaped` and `TreeIsSorted` (`Linked` says that a climb
  finds what a descent found), `SkipListIsSorted`, `HashtableIsSet`, `ImplementsObjectSequence`,
  `ArraysWhole`, `ListSound`, `OwnedOnce`, `SpansExact` compare every state
  with what the calls should have made of it;
* *two sides that must agree*: `CodersLossless` (encoder and decoder), `StreamExact`
  (buffer and device), `ParsersExact` (request and answer), `SpansExact` (a tree by place and one by
  size), `ListSound` (a table and a list);
* *backing out*: `ParsersExact`.

## 6. Findings

### Shown by a run

1. **The shutdown may not end** (`netserver_hang`, `NetServer_linux.cpp:293`).
   With two or more clients per thread, a thread that finishes with its
   connection while clientDisconnectAll() marks it may be parked by
   the drain loop itself; nobody wakes it, and the loop waits for it. With the
   default of one client per thread this cannot happen (`netserver_stop`).
2. **On Windows a writer may enter beside a reader** (`rwlock_windows`,
   `RWlock.cpp:186`). The last reader's unlock() counts itself out, clears the mode
   and sets the event; a reader that comes in between is overtaken by the last two.
3. **Some blocks do not survive the block sort** (`bwt_tags`, `BWTencoder.cpp:365`).
   A bucket with more than 65536 rotations gives different ones the same tag, and
   compare() takes equal tags for four equal bytes.
4. **Some messages do not survive run-length coding** (`rlencoder`, `RLencoder.cpp:92`):
   those that end in a short run of 0xFF, or in a run whose last byte becomes a run of
   its own. The run `library` shows that all others do.
5. **A RingBuffer of four slots or more is not first in, first out** (`ringbuffer_order`,
   `RingBuffer.h:169`). A slot belongs to every position that is masked to it: an enQ
   that has claimed position 0 and not stored yet is overtaken by the one that claims
   position 4, and a deQ that stalls is overtaken in the same way. Nothing is lost or
   doubled, and the counts stay exact (both are proved).
6. **The merge sort of arrays loses objects** (`merge_sort`, `algorithms.cpp:1002`). The merged
   segment is copied to the front of the array, wherever it came from. This is right for the outermost
   segment only, so that arrays of up to twice the cutoff (32 objects) are sorted; in longer ones
   the right half is itself split, and overwrites the left one. Besides, small segments are sorted in
   the natural ordering whatever the caller asked for (`:957`). `AlgorithmsExact` is
   about the other sorts.

### In the models, as exceptions of a property

* *A cancelled server leaves client threads behind* (`NetServer_linux.cpp:128`, `:293`). The
  comment at `:100` says of the call in run() "get rid of any connected clients", but testCancel()
  throws again inside clientDisconnectAll(), and run() ends. `EndedAlone` excepts a thread that was
  cancelled; the joiner's call in deInit() then ends the clients, so that it holds when the
  server is deleted, and `Shutdown` shows that it is (`netserver_stop`, with cancel).
* *Stolen objects that are refused leak* (`Collection.cpp:309`). stealItems() switches
  both owner flags off, so that a set that refuses an object does not delete it, and the
  clear() of the source does not either. `forgotten` has these objects; `OwnedOnce` says, and
  the proof shows, that they are the only ones that nobody deletes.
* *A report of leaks while others allocate* (`gblnew.cpp:89`, `:103`). memReportLeaks() takes no mutex,
  so a delete during its walk, or a new between its first two reads, takes it off the list's end or
  onto freed memory. `gblnew.h:12` says to call it just before the program exits; `BlocksListed` claims nothing of
  a report after such an overlap, and that all others are harmless.

### Met in reading, and kept out of the models

The models leave out the calls below, or have them as the code has them; where a
module leaves one out its header says so.

* *NetServer*: a retired thread's message frees no place but starts a queued connection
  like any other, so that more than maxClients are served (`NetServer_linux.cpp:187`). On
  Windows: `_joinable` holds maxClients threads and enQ's result is ignored, so that a
  thread may never be joined (`:266`); the shutdown does not wait for a thread that
  has counted itself out but is not queued yet (`:171`); a thread told to exit
  before its first command is never counted out; with maxClients 1 clientsAdd() can spin
  for ever.
* *Algorithms*: reverse() of an even number of objects does not stop where the two ends
  meet (`:1209`); heapSort() of an empty range never ends; the template binarySearch() of an empty range returns begin and
  not size_t_max; isSorted() of an empty range runs past its end; multiKeyQuickSort's stack of
  96 words holds 32 segments.
* *Hashtable*: addOrFind() looks at an uninitialized result on a collision
  (`Hashtable.cpp:215`); an iterator is stale when its slot's list shrinks to one object.
  *Heap*: removeIt() leaves its iterator past the end, or skips an object. *SkipList*:
  add() of a duplicate of a higher node, findLastIt() of an absent key, reverse() from
  the first object, begin() of a const list, `_items` is never counted up. *List*: addBefore()
  at the front loses the new node, moveBefore() of the front leaves `_front`, the merge
  sort leaves the last node's link back wrong, sort() of an empty list follows the
  sentinel's next. *Array*: removeItems() tests `[idx]` where `[i]` is meant (`:575`);
  shuffle(low, high) goes past high; a search with holes for an absent key never ends;
  relocate() leaves `_firstNull`; steal() leaks owned objects. *Vector*: append() of its own
  elements reads freed memory; setSize() of a non-owner exceeds its allocation;
  set(array...) leaks. *BitArray*:
  shrinking and growing within a word shows old bits; setAll() makes padding differ.
  *slist*: removeNode() removes twice (`:308`, `:314`); findNode() of an empty list
  follows a null pointer. *ObjectCache* of size 0 steps before the list's begin.
* *Spans*: the second half of a span cut in two is counted twice in `_totalSize`, clear()
  and removal by key leave it; SpanAllocator::remove(key) compares a deleted span; onAdd()
  is called twice for the right half. (`SpansExact` has the first as the code does:
  the total is exact until a span was cut.)
* *BufferedStream*: read() with no minimum at the end of the input leaves a stale
  position, put() after a failed overflow writes past the buffer, get() counts at
  the end. *Base64*: decode() works in its own buffer, and a read that is not a
  multiple of four overwrites digits that were not read yet. *Huffman*: `delete` of an array; the root's frequency of a lone
  leaf is not bounded. *RL* without end marks loses the last call's bytes. *BWT*: a block
  of one byte leaves `_origin`. *MD5*: an empty message is never finished, so that get() returns the
  initial state; add() takes 32 bits of its length. *SHA256*: finalize() leaves its state.
* *String*: toUpper() and replace() of a character change borrowed characters where they are; a
  replace() that shortens a borrowed string writes to it; nextToken() goes past the end at a
  backslash that ends a quoted token.
* *Regex*: a group that is repeated is not matched again, an operand that may be empty
  is repeated 2^32 times, an empty match at the text's end is not tried, inverse classes
  contain NUL. *RDparser*: compile() drops what follows a syntax error; `{ }` around what may
  match nothing never ends. *BBcodeParser*: a stray end tag returns a context that was
  not set; an upper-case tag is a token that parse() does not find; an
  unterminated bracket gets a `]`; the text of unknown tags is filtered twice.
* *FastCGIserver*: a request that begins inside another gets no answer
  (`FastCGIserver.cpp:207`); after an exception the writer's destructor sends bytes
  without a record header; the lengths of parameters are not checked.
* *URI*: clear() leaves `_port`; any `@` or `:` after the scheme is taken for user info or a
  port; user info is decoded before it is split; setFullPath() deletes the path before it
  throws; percentDecode() of fewer than two characters wraps.
* *Blackjack
  trainer*: mistakes on the first of two split hands are held against none (`:193`), ties are
  not counted, a split is recommended that the player cannot pay for, a negative bet
  is accepted, a player's blackjack beats the dealer's.

## 7. Not modelled

* *Memory order.* The models are sequentially consistent. Where the code relies
  on less, a hazard says so.
* *NetServer*: adding a listening address while it runs, a clientDisconnect() by a
  third thread, failures of system calls other than accept(). *NetServer (Windows)*:
  the order in which clientsAdd() tries the slots.
* *Collections*: copying and serialization (clone and steal are in `Collection`, where
  ownership is what matters), the breadth-first store of trees, ranges of more than one
  object in arrays, the list's merge sort; BitArray, slist, dlist, VectorMD, graphs.
* *Text and data without evolving state*: padding and comparison of strings, tokenizers, path
  names, numbers, dates, the arithmetic of the digests (blocks and padding are modelled), URIs,
  HTTP headers; how a bracket expression of a Regex, a terminal of a grammar or an
  element's output of BBcode is read or written; the LZ coder's bit layout; the
  sorts inside one bucket of the block sort (their result is modelled).
* *Wrappers of system or client libraries*: sockets, TLS, files, processes, the log, the
  database classes. *Reflection, generated headers and applications* other than the
  blackjack trainer.


## 8. Plan

Done: the proofs of section 4. Left:

1. `SortedSequence`: the sequence is always sorted, without duplicates unless
   it is a multi-set, and the position always in range; with the refinements checked
   by `library`, this carries over to the tree and the skip list.
2. More of the models: ranges and merge sort in `List`, bracket expressions in
   `Regex`, scan() in `RDparser`.
