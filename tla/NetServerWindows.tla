---------------------------- MODULE NetServerWindows ----------------------------
(***************************************************************************)
(* NetServer and NetServerClient on Windows (ucm/NetServer_windows.cpp):   *)
(* no pipe and no queue of connections.  A client thread takes itself out  *)
(* of service, through the ring buffers _paused and _joinable, which are   *)
(* queues here, and the atomic word _clientsCount; the server thread takes *)
(* paused threads for new connections and joins those in _joinable.  The   *)
(* slots that clientsAdd() probes are all of them, in some order, until    *)
(* one is free.  A thread is a NetServerClient object; one that is deleted *)
(* can be made again.                                                      *)
(***************************************************************************)
EXTENDS Threads, Integers, Sequences, FiniteSets, FiniteSetTheorems, TLAPS

CONSTANTS
  ClientsMax,         \* _clientsMax, _paused's and _joinable's size
  ClientsSize,        \* _clientsSize: twice the least power of two >= ClientsMax
  ClientsPerThread,   \* _clientsPerThread
  MaxConns            \* bound: connections that are accepted

Slots == 1..ClientsSize
SizeMax == -1
NoConn == 0

VARIABLES
  clientsCount,   \* _clientsCount
  clients,        \* _clients
  paused,         \* _paused
  joinable,       \* _joinable
  server,         \* the server thread: [pc, thread, at]: where it is, the thread and
                  \* the slot it has in hand
  client,         \* each client thread: [pc, conn, left, exit, sem] for where it is,
                  \* _socket, _numClients, _exit and _sem
  conns,          \* connections accepted so far, each a number
  open            \* those that onClientConnect() was told of, and onClientDisconnect() not yet

windowsVars == <<clientsCount, clients, paused, joinable, server, client, conns, open>>

Unmade == [pc |-> "unmade", conn |-> NoConn, left |-> 0, exit |-> FALSE, sem |-> 0]

At(t, pc) == client[t].pc = pc
Go(t, pc) == client' = [client EXCEPT ![t].pc = pc]
KeepServer == UNCHANGED <<server, conns>>

-------------------------------------------------------------------------------
(* The client thread *)

\* _sem.P(), and what clientDisconnectAll() may have told a paused thread
Begin(t) ==
  /\ At(t, "sem") /\ client[t].sem > 0
  /\ client' = [client EXCEPT ![t] = [@ EXCEPT !.sem = client[t].sem - 1, !.pc = "serve",
                                      !.left = IF client[t].exit THEN SizeMax ELSE client[t].left]]
  /\ KeepServer /\ UNCHANGED <<clientsCount, clients, paused, joinable, open>>

\* while (!_exit) ends: it was told to, or the connection broke
Leave(t) ==
  /\ At(t, "serve") /\ Go(t, "deactivate")
  /\ KeepServer /\ UNCHANGED <<clientsCount, clients, paused, joinable, open>>

\* clientDeactivate() of a thread that was woken to exit
Retire(t) ==
  /\ At(t, "deactivate") /\ client[t].left = SizeMax
  /\ client' = [client EXCEPT ![t] = [@ EXCEPT !.left = 0, !.pc = "enqJoinable"]]
  /\ KeepServer /\ UNCHANGED <<clientsCount, clients, paused, joinable, open>>

\* onClientDisconnect() and pause()
Pause(t) ==
  /\ At(t, "deactivate") /\ client[t].left # SizeMax
  /\ open' = open \ {client[t].conn}
  /\ client' = [client EXCEPT ![t] = [@ EXCEPT !.conn = NoConn, !.exit = FALSE, !.pc = "uncount"]]
  /\ KeepServer /\ UNCHANGED <<clientsCount, clients, paused, joinable>>

\* mutant: the thread can be found before its count is given back
UncountLate(t) ==
  /\ At(t, "uncount") /\ clientsCount' = clientsCount
  /\ client' = [client EXCEPT ![t] = [@ EXCEPT !.left = client[t].left - 1,
                                      !.pc = IF client[t].left > 1 THEN "enqPaused" ELSE "enqJoinable"]]
  /\ KeepServer /\ UNCHANGED <<clients, paused, joinable, open>>

Uncount(t) ==
  /\ At(t, "uncount") /\ clientsCount' = clientsCount - 1
  /\ client' = [client EXCEPT ![t] = [@ EXCEPT !.left = client[t].left - 1,
                                      !.pc = IF client[t].left > 1 THEN "enqPaused" ELSE "enqJoinable"]]
  /\ KeepServer /\ UNCHANGED <<clients, paused, joinable, open>>

EnqPaused(t) ==
  /\ At(t, "enqPaused")
  /\ IF Len(paused) < ClientsMax
     THEN paused' = Append(paused, t) /\ Go(t, "sem")
     ELSE client' = [client EXCEPT ![t] = [@ EXCEPT !.left = 0, !.pc = "enqJoinable"]] /\ UNCHANGED paused
  /\ KeepServer /\ UNCHANGED <<clientsCount, clients, joinable, open>>

\* the last thing the thread does; nobody looks at what enQ() answers
EnqJoinable(t) ==
  /\ At(t, "enqJoinable") /\ Go(t, "ended")
  /\ joinable' = IF Len(joinable) < ClientsMax THEN Append(joinable, t) ELSE joinable
  /\ KeepServer /\ UNCHANGED <<clientsCount, clients, paused, open>>

\* a handler that calls clientDisconnect() on its own client
Exit(t) ==
  /\ At(t, "serve") /\ ~client[t].exit
  /\ client' = [client EXCEPT ![t].exit = TRUE]
  /\ KeepServer /\ UNCHANGED <<clientsCount, clients, paused, joinable, open>>

ClientStep(t) ==
  \/ Begin(t) \/ Leave(t) \/ Retire(t) \/ Pause(t) \/ Uncount(t)
  \/ EnqPaused(t) \/ EnqJoinable(t) \/ Exit(t)

-------------------------------------------------------------------------------
(* The server thread *)

ServerAt(pc) == server.pc = pc
Serve(pc, t) == server' = [pc |-> pc, thread |-> t, at |-> 0]

\* listen() accepts a connection: the place is counted first, and given back when there
\* was none
Accept ==
  /\ ServerAt("listen") /\ conns < MaxConns /\ clientsCount < ClientsMax
  /\ clientsCount' = clientsCount + 1 /\ conns' = conns + 1
  /\ Serve("choose", NoThread)
  /\ UNCHANGED <<clients, paused, joinable, client, open>>

\* a paused thread is resumed, told of the connection and woken
Resume ==
  /\ ServerAt("choose") /\ paused # <<>>
  /\ LET t == Head(paused)
     IN  /\ client' = [client EXCEPT ![t].conn = conns]
         /\ Serve("wakeup", t)
  /\ open' = open \cup {conns} /\ paused' = Tail(paused)
  /\ UNCHANGED <<clientsCount, clients, joinable, conns>>

Wakeup ==
  /\ ServerAt("wakeup")
  /\ client' = [client EXCEPT ![server.thread].sem = @ + 1]
  /\ Serve("cleanup", NoThread)
  /\ UNCHANGED <<clientsCount, clients, paused, joinable, conns, open>>

\* clientMake(): the thread's semaphore starts at 1
Make(t) ==
  /\ ServerAt("choose") /\ paused = <<>> /\ At(t, "unmade")
  /\ client' = [client EXCEPT ![t] = [pc |-> "made", conn |-> conns, left |-> ClientsPerThread,
                                      exit |-> FALSE, sem |-> 1]]
  /\ Serve("add", t)
  /\ UNCHANGED <<clientsCount, clients, paused, joinable, conns, open>>

\* clientsAdd(), onClientConnect() and start()
ClientsAdd(slot) ==
  /\ ServerAt("add") /\ clients[slot] = NoThread
  /\ clients' = [clients EXCEPT ![slot] = server.thread]
  /\ open' = open \cup {client[server.thread].conn}
  /\ Go(server.thread, "sem")
  /\ Serve("cleanup", NoThread)
  /\ UNCHANGED <<clientsCount, paused, joinable, conns>>

\* mutant: the slot keeps the thread
ForgetNot(t) == UNCHANGED clients

\* cleanupJoinable(): the slot is freed, then the thread is joined
Forget(t) == clients' = [slot \in Slots |-> IF clients[slot] = t THEN NoThread ELSE clients[slot]]

CleanupJoinable ==
  /\ server.pc \in {"cleanup", "drain"} /\ server.thread = NoThread /\ joinable # <<>>
  /\ Serve(server.pc, Head(joinable))
  /\ Forget(Head(joinable))
  /\ joinable' = Tail(joinable)
  /\ UNCHANGED <<clientsCount, paused, client, conns, open>>

Join ==
  /\ server.pc \in {"cleanup", "drain"} /\ server.thread # NoThread /\ At(server.thread, "ended")
  /\ client' = [client EXCEPT ![server.thread] = Unmade]
  /\ Serve(server.pc, NoThread)
  /\ UNCHANGED <<clientsCount, clients, paused, joinable, conns, open>>

EndCleanup ==
  /\ ServerAt("cleanup") /\ server.thread = NoThread /\ joinable = <<>>
  /\ Serve("listen", NoThread)
  /\ UNCHANGED <<clientsCount, clients, paused, joinable, client, conns, open>>

\* exiting() or an exception: run() leaves its loop for clientDisconnectAll()
Stop ==
  /\ ServerAt("listen") /\ server' = [server EXCEPT !.pc = "mark", !.at = 1]
  /\ UNCHANGED <<clientsCount, clients, paused, joinable, client, conns, open>>

\* which tells the threads to exit, slot by slot
Mark ==
  /\ ServerAt("mark")
  /\ client' = [t \in Threads |-> IF clients[server.at] = t THEN [client[t] EXCEPT !.exit = TRUE]
                                  ELSE client[t]]
  /\ server' = IF server.at = ClientsSize THEN [server EXCEPT !.pc = "drain"]
               ELSE [server EXCEPT !.at = @ + 1]
  /\ UNCHANGED <<clientsCount, clients, paused, joinable, conns, open>>

\* cleanupPaused(): a paused thread is told to exit and woken
CleanupPaused ==
  /\ ServerAt("drain") /\ server.thread = NoThread /\ paused # <<>>
  /\ client' = [client EXCEPT ![Head(paused)] =
                 [@ EXCEPT !.exit = TRUE, !.sem = client[Head(paused)].sem + 1]]
  /\ paused' = Tail(paused)
  /\ UNCHANGED <<clientsCount, clients, joinable, server, conns, open>>

\* "now wait until clients are all gone"
AllGone ==
  /\ ServerAt("drain") /\ server.thread = NoThread
  /\ clientsCount = 0 /\ paused = <<>> /\ joinable = <<>>
  /\ Serve("gone", NoThread)
  /\ UNCHANGED <<clientsCount, clients, paused, joinable, client, conns, open>>

ServerStep ==
  \/ Accept \/ Resume \/ Wakeup \/ CleanupJoinable \/ Join \/ EndCleanup
  \/ Stop \/ Mark \/ CleanupPaused \/ AllGone
  \/ \E t \in Threads : Make(t)
  \/ \E slot \in Slots : ClientsAdd(slot)

PoolInit ==
  /\ clientsCount = 0 /\ clients = [slot \in Slots |-> NoThread]
  /\ paused = <<>> /\ joinable = <<>>
  /\ server = [pc |-> "listen", thread |-> NoThread, at |-> 0]
  /\ client = [t \in Threads |-> Unmade]
  /\ conns = 0 /\ open = {}

PoolNext == ServerStep \/ \E t \in Threads : ClientStep(t)

PoolSpec == PoolInit /\ [][PoolNext]_windowsVars

-------------------------------------------------------------------------------
(* Properties *)

Serving(t) == client[t].conn # NoConn
Stopping == server.pc \in {"mark", "drain", "gone"}
Placed == {t \in Threads : Serving(t) \/ At(t, "uncount")}
Counted == Cardinality(Placed) + (IF ServerAt("choose") THEN 1 ELSE 0)

\* t is being joined: its slot has been freed
Leaving(t) == server.pc \in {"cleanup", "drain"} /\ server.thread = t

\* Threads and connections are accounted for while three parties move them about: a
\* place is counted for every connection in service, and until the shutdown for no
\* other; no two threads have the same connection; a thread is paused or joinable at
\* most once, with no connection, and not woken before it was resumed, which is what
\* resume() asserts; and each thread that was made keeps one slot until it is joined.
WindowsPoolExact ==
  /\ clientsCount >= Counted /\ (clientsCount = Counted \/ Stopping)
  /\ clientsCount <= ClientsMax
  /\ \A t, u \in Threads : Serving(t) /\ client[t].conn = client[u].conn => t = u
  /\ \A q \in {paused \o joinable} : \A i, j \in DOMAIN q : q[i] = q[j] => i = j
  /\ \A i \in DOMAIN paused :
       LET c == client[paused[i]] IN c.pc = "sem" /\ c.conn = NoConn /\ c.sem = 0 /\ c.left > 0
  /\ \A t \in Threads :
       Cardinality({slot \in Slots : clients[slot] = t})
       = IF client[t].pc \in {"unmade", "made"} \/ Leaving(t) THEN 0 ELSE 1

-------------------------------------------------------------------------------
(* What is proved, for any number of threads and any limits *)

PoolAssumption ==
  /\ IsFiniteSet(Threads) /\ NoThread \notin Threads
  /\ ClientsMax \in Nat /\ ClientsSize \in Nat \ {0}
  /\ ClientsPerThread \in Nat \ {0} /\ MaxConns \in Nat

ClientPcs == {"unmade", "made", "sem", "serve", "deactivate", "uncount", "enqPaused",
              "enqJoinable", "ended"}
ServerPcs == {"listen", "choose", "wakeup", "add", "cleanup", "mark", "drain", "gone"}

PoolTypes ==
  /\ clientsCount \in Int /\ conns \in 0..MaxConns
  /\ clients \in [Slots -> Threads \union {NoThread}]
  /\ paused \in Seq(Threads) /\ joinable \in Seq(Threads)
  /\ server \in [pc : ServerPcs, thread : Threads \union {NoThread}, at : 0..ClientsSize]
  /\ client \in [Threads -> [pc : ClientPcs, conn : 0..MaxConns, left : Nat \union {SizeMax},
                            exit : BOOLEAN, sem : Nat]]

Elements(q) == {q[i] : i \in DOMAIN q}
Distinct(q) == \A i, j \in DOMAIN q : q[i] = q[j] => i = j

\* the two queues hold different threads, which wait or have ended
QueuesFit ==
  /\ Distinct(paused) /\ \A t \in Elements(paused) : At(t, "sem")
  /\ Distinct(joinable) /\ \A t \in Elements(joinable) : At(t, "ended")

\* what the server thread has in hand
HandFits ==
  /\ server.pc \in {"listen", "choose", "mark", "gone"} => server.thread = NoThread
  /\ ServerAt("mark") => server.at \in 1..ClientsSize
  /\ ServerAt("wakeup") =>
       server.thread \in Threads /\ At(server.thread, "sem") /\ server.thread \notin Elements(paused)
  /\ ServerAt("add") => server.thread \in Threads /\ At(server.thread, "made")
  /\ \A t \in Threads : Leaving(t) => At(t, "ended") /\ t \notin Elements(joinable)

Resumed(t) == ServerAt("wakeup") /\ server.thread = t

\* what a client thread believes, wherever it is: a thread that sleeps is paused, or was
\* resumed and is not woken yet, or has been woken once, with a connection or to exit
ThreadFits(t) ==
  LET c == client[t]
  IN  /\ c.exit => Stopping \/ c.pc \in {"serve", "deactivate"}
      /\ c.pc = "unmade" => c = Unmade
      /\ c.pc = "made" => /\ c.conn # NoConn /\ c.sem = 1 /\ c.left > 0
                          /\ ServerAt("add") /\ server.thread = t
      /\ c.pc = "sem" =>
           /\ c.left > 0
           /\ t \in Elements(paused) => c.conn = NoConn /\ c.sem = 0
           /\ Resumed(t) => c.conn # NoConn /\ c.sem = 0
           /\ t \notin Elements(paused) /\ ~Resumed(t) => c.sem = 1 /\ (c.conn # NoConn \/ c.exit)
      /\ c.pc \in {"serve", "deactivate"} =>
           /\ c.sem = 0
           /\ IF c.left = SizeMax THEN Stopping ELSE c.left > 0 /\ c.conn # NoConn
      /\ c.pc \in {"uncount", "enqPaused"} => c.sem = 0 /\ c.left > 0 /\ c.conn = NoConn
      /\ c.pc \in {"enqJoinable", "ended"} => c.sem = 0 /\ (c.conn = NoConn \/ Stopping)

\* a thread has a slot from clientsAdd() to cleanupJoinable(), and no other
SlotsFit ==
  /\ \A i, j \in Slots : clients[i] = clients[j] /\ clients[i] # NoThread => i = j
  /\ \A t \in Threads :
       (\E i \in Slots : clients[i] = t) <=> client[t].pc \notin {"unmade", "made"} /\ ~Leaving(t)

\* connections are numbered as they come
ConnsFit ==
  /\ \A t, u \in Threads : Serving(t) /\ client[t].conn = client[u].conn => t = u
  /\ \A t \in Threads : client[t].conn <= conns /\ (ServerAt("choose") => client[t].conn < conns)

CountFits ==
  clientsCount >= Counted /\ (clientsCount = Counted \/ Stopping) /\ clientsCount <= ClientsMax

PoolInv ==
  /\ PoolTypes /\ QueuesFit /\ HandFits /\ (\A t \in Threads : ThreadFits(t))
  /\ SlotsFit /\ ConnsFit /\ CountFits

-------------------------------------------------------------------------------
(* Proofs: queues and sets *)

LEMMA Appended ==
  ASSUME NEW T, NEW q \in Seq(T), NEW x \in T
  PROVE  /\ Append(q, x) \in Seq(T)
         /\ Elements(Append(q, x)) = Elements(q) \union {x}
         /\ Distinct(q) /\ x \notin Elements(q) => Distinct(Append(q, x))
<1>1. /\ Append(q, x) \in Seq(T) /\ DOMAIN Append(q, x) = 1..(Len(q) + 1)
      /\ DOMAIN q = 1..Len(q) /\ Len(q) \in Nat
      /\ Append(q, x)[Len(q) + 1] = x /\ \A i \in 1..Len(q) : Append(q, x)[i] = q[i]
  OBVIOUS
<1>2. Elements(Append(q, x)) = Elements(q) \union {x}
  <2>1. Elements(Append(q, x)) \subseteq Elements(q) \union {x}
    BY <1>1 DEF Elements
  <2>2. ASSUME NEW y \in Elements(q) PROVE y \in Elements(Append(q, x))
    <3>1. PICK i \in 1..Len(q) : y = q[i]
      BY <1>1 DEF Elements
    <3>2. i \in 1..(Len(q) + 1) /\ y = Append(q, x)[i]
      BY <1>1, <3>1
    <3>3. QED
      BY <1>1, <3>2 DEF Elements
  <2>3. x \in Elements(Append(q, x))
    BY <1>1 DEF Elements
  <2>4. QED
    BY <2>1, <2>2, <2>3
<1>3. ASSUME Distinct(q), x \notin Elements(q) PROVE Distinct(Append(q, x))
  BY <1>1, <1>3 DEF Distinct, Elements
<1>4. QED
  BY <1>1, <1>2, <1>3

LEMMA FirstTaken ==
  ASSUME NEW T, NEW q \in Seq(T), q # <<>>
  PROVE  /\ Head(q) \in T /\ Head(q) \in Elements(q) /\ Tail(q) \in Seq(T)
         /\ Distinct(q) => Distinct(Tail(q)) /\ Elements(Tail(q)) = Elements(q) \ {Head(q)}
<1>1. /\ Head(q) = q[1] /\ Tail(q) \in Seq(T) /\ Len(q) \in Nat \ {0} /\ DOMAIN q = 1..Len(q)
      /\ DOMAIN Tail(q) = 1..(Len(q) - 1) /\ \A i \in 1..(Len(q) - 1) : Tail(q)[i] = q[i + 1]
  OBVIOUS
<1>2. Head(q) \in T /\ Head(q) \in Elements(q)
  BY <1>1 DEF Elements
<1>3. ASSUME Distinct(q) PROVE Distinct(Tail(q)) /\ Elements(Tail(q)) = Elements(q) \ {Head(q)}
  <2>1. Distinct(Tail(q))
    BY <1>1, <1>3 DEF Distinct
  <2>2. ASSUME NEW y \in Elements(Tail(q)) PROVE y \in Elements(q) \ {Head(q)}
    <3>1. PICK i \in 1..(Len(q) - 1) : y = q[i + 1]
      BY <1>1 DEF Elements
    <3>2. i + 1 \in 1..Len(q) /\ i + 1 # 1
      BY <1>1, <3>1
    <3>3. QED
      BY <1>1, <1>3, <3>1, <3>2 DEF Elements, Distinct
  <2>3. ASSUME NEW y \in Elements(q), y # Head(q) PROVE y \in Elements(Tail(q))
    <3>1. PICK i \in 1..Len(q) : y = q[i] /\ i # 1
      BY <1>1, <2>3 DEF Elements
    <3>2. i - 1 \in 1..(Len(q) - 1) /\ Tail(q)[i - 1] = y
      BY <1>1, <3>1
    <3>3. QED
      BY <1>1, <3>2 DEF Elements
  <2>4. QED
    BY <2>1, <2>2, <2>3
<1>4. QED
  BY <1>1, <1>2, <1>3

LEMMA PlacedFinite ==
  ASSUME PoolAssumption
  PROVE  IsFiniteSet(Placed) /\ Cardinality(Placed) \in Nat
  BY FS_Subset, FS_CardinalityType DEF PoolAssumption, Placed

(* How the places change: by one thread, or not. *)
LEMMA PlacesMove ==
  ASSUME PoolAssumption, PoolTypes, NEW t \in Threads,
         \A u \in Threads : u # t => (u \in Placed' <=> u \in Placed)
  PROVE  /\ (t \in Placed' <=> t \in Placed) => Cardinality(Placed)' = Cardinality(Placed)
         /\ t \in Placed' /\ t \notin Placed => Cardinality(Placed)' = Cardinality(Placed) + 1
         /\ t \notin Placed' /\ t \in Placed => Cardinality(Placed)' = Cardinality(Placed) - 1
<1>0. Placed \subseteq Threads /\ Placed' \subseteq Threads
  BY DEF Placed
<1>1. ASSUME t \in Placed' <=> t \in Placed PROVE Placed' = Placed
  BY <1>0, <1>1
<1>2. ASSUME t \in Placed', t \notin Placed PROVE Placed' = Placed \union {t}
  BY <1>0, <1>2
<1>3. ASSUME t \notin Placed', t \in Placed PROVE Placed' = Placed \ {t}
  BY <1>0, <1>3
<1>4. QED
  BY <1>1, <1>2, <1>3, PlacedFinite, FS_AddElement, FS_RemoveElement

-------------------------------------------------------------------------------
(* Proofs: the inductive invariant *)

LEMMA PoolInvariantInit == ASSUME PoolAssumption, PoolInit PROVE PoolInv
<1>1. /\ paused = <<>> /\ joinable = <<>> /\ clientsCount = 0 /\ conns = 0
      /\ server = [pc |-> "listen", thread |-> NoThread, at |-> 0]
      /\ \A t \in Threads : client[t] = Unmade
      /\ \A i \in Slots : clients[i] = NoThread
  BY DEF PoolInit
<1>2. PoolTypes
  BY DEF PoolInit, PoolTypes, PoolAssumption, Unmade, ClientPcs, ServerPcs, NoConn, Slots
<1>3. QueuesFit /\ HandFits
  BY <1>1 DEF QueuesFit, HandFits, Distinct, Elements, ServerAt, Leaving, PoolAssumption
<1>4. \A t \in Threads : ThreadFits(t)
  <2>1. Unmade.pc = "unmade" /\ Unmade.exit = FALSE
    BY DEF Unmade
  <2>2. QED
    BY <1>1, <2>1 DEF ThreadFits
<1>5. SlotsFit
  BY <1>1 DEF SlotsFit, PoolAssumption, Unmade
<1>6. ConnsFit
  BY <1>1 DEF ConnsFit, Serving, Unmade, NoConn, ServerAt
<1>7. CountFits
  <2>1. Placed = {}
    BY <1>1 DEF Placed, Serving, At, Unmade
  <2>2. QED
    BY <1>1, <2>1, FS_EmptySet DEF CountFits, Counted, ServerAt, PoolAssumption
<1>8. QED
  BY <1>2, <1>3, <1>4, <1>5, <1>6, <1>7 DEF PoolInv

-------------------------------------------------------------------------------
(* Proofs: the steps of a client thread *)

ClientRecords == [pc : ClientPcs, conn : 0..MaxConns, left : Nat \union {SizeMax},
                  exit : BOOLEAN, sem : Nat]

(* A thread that nobody has in hand changes what is its own: what it must  *)
(* show is that it is right itself, and that it changes the count with the *)
(* place it has.                                                           *)
LEMMA OwnStep ==
  ASSUME PoolAssumption, PoolInv, NEW t \in Threads, NEW c \in ClientRecords,
         client' = [client EXCEPT ![t] = c],
         UNCHANGED <<clients, paused, joinable, server, conns>>, clientsCount' \in Int,
         t \notin Elements(paused), ~Resumed(t),
         client[t].pc \notin {"unmade", "made", "ended"}, c.pc \notin {"unmade", "made"},
         c.conn \in {client[t].conn, NoConn}, ThreadFits(t)',
         \/ clientsCount' = clientsCount /\ (t \in Placed' <=> t \in Placed)
         \/ clientsCount' = clientsCount - 1 /\ t \in Placed /\ t \notin Placed'
  PROVE  PoolInv'
<1>0. /\ PoolTypes /\ QueuesFit /\ HandFits /\ SlotsFit /\ ConnsFit /\ CountFits
      /\ \A u \in Threads : ThreadFits(u)
  BY DEF PoolInv
<1>1. client'[t] = c /\ \A u \in Threads : u # t => client'[u] = client[u]
  BY <1>0 DEF PoolTypes
<1>2. PoolTypes'
  BY <1>0 DEF PoolTypes, ClientRecords
<1>3. QueuesFit'
  <2>1. t \notin Elements(joinable)
    BY <1>0 DEF QueuesFit, At
  <2>2. Elements(paused) \subseteq Threads /\ Elements(joinable) \subseteq Threads
    BY <1>0, SMTT(30) DEF PoolTypes, Elements
  <2>3. QED
    BY <1>0, <1>1, <2>1, <2>2 DEF QueuesFit, At, Elements, Distinct
<1>4. HandFits'
  BY <1>0, <1>1 DEF HandFits, ServerAt, At, Leaving, Resumed, Elements
<1>5. ASSUME NEW u \in Threads PROVE ThreadFits(u)'
  <2>1. CASE u = t
    BY <2>1
  <2>2. CASE u # t
    BY <1>0, <1>1, <2>2 DEF ThreadFits, Stopping, ServerAt, Resumed, Elements
  <2>3. QED
    BY <2>1, <2>2
<1>6. SlotsFit'
  BY <1>0, <1>1 DEF SlotsFit, Leaving
<1>7. ConnsFit'
  <2>1. \A u \in Threads : client'[u].conn \in {client[u].conn, NoConn}
    BY <1>1
  <2>2. \A u \in Threads : client'[u].conn <= client[u].conn /\ client'[u].conn \in Nat /\ client[u].conn \in Nat
    BY <1>0, <2>1 DEF PoolTypes, NoConn, PoolAssumption
  <2>3. \A u, v \in Threads : Serving(u)' /\ client'[u].conn = client'[v].conn => u = v
    BY <1>0, <2>1 DEF ConnsFit, Serving
  <2>4. conns \in Nat
    BY <1>0 DEF PoolTypes, PoolAssumption
  <2>5. QED
    BY <1>0, <2>2, <2>3, <2>4 DEF ConnsFit, ServerAt
<1>8. CountFits'
  <2>1. \A u \in Threads : u # t => (u \in Placed' <=> u \in Placed)
    BY <1>1 DEF Placed, Serving, At
  <2>2. Cardinality(Placed) \in Nat
    BY PlacedFinite
  <2>3. CASE clientsCount' = clientsCount /\ (t \in Placed' <=> t \in Placed)
    BY <1>0, <2>1, <2>3, PlacesMove DEF CountFits, Counted, ServerAt, Stopping
  <2>4. CASE clientsCount' = clientsCount - 1 /\ t \in Placed /\ t \notin Placed'
    <3>1. Cardinality(Placed)' = Cardinality(Placed) - 1
      BY <1>0, <2>1, <2>4, PlacesMove
    <3>2. clientsCount \in Int /\ ClientsMax \in Int /\ UNCHANGED server
      BY <1>0 DEF PoolTypes, PoolAssumption
    <3>3. QED
      BY <1>0, <2>2, <2>4, <3>1, <3>2 DEF CountFits, Counted, ServerAt, Stopping
  <2>5. QED
    BY <2>3, <2>4
<1>9. QED
  BY <1>2, <1>3, <1>4, <1>5, <1>6, <1>7, <1>8 DEF PoolInv

(* A thread that does not sleep is in nobody's hand. *)
LEMMA Awake ==
  ASSUME PoolInv, NEW t \in Threads, client[t].pc # "sem"
  PROVE  t \notin Elements(paused) /\ ~Resumed(t)
  BY DEF PoolInv, QueuesFit, HandFits, Resumed, At

LEMMA BeginStep == ASSUME PoolAssumption, PoolInv, NEW t \in Threads, Begin(t) PROVE PoolInv'
<1> DEFINE c == [client[t] EXCEPT !.sem = client[t].sem - 1, !.pc = "serve",
                                  !.left = IF client[t].exit THEN SizeMax ELSE client[t].left]
<1>1. ThreadFits(t) /\ PoolTypes /\ client[t] \in ClientRecords
  BY DEF PoolInv, PoolTypes, ClientRecords
<1>2. /\ client[t].pc = "sem" /\ client[t].sem > 0 /\ client' = [client EXCEPT ![t] = c]
      /\ UNCHANGED <<clientsCount, clients, paused, joinable, server, conns>>
  BY DEF Begin, At, KeepServer
<1>3. t \notin Elements(paused) /\ ~Resumed(t) /\ client[t].sem = 1 /\ client[t].left > 0
      /\ (client[t].conn # NoConn \/ client[t].exit)
  BY <1>1, <1>2 DEF ThreadFits
<1>4. c \in ClientRecords /\ client'[t] = c
  <2>1. client[t].sem - 1 \in Nat /\ "serve" \in ClientPcs
        /\ (IF client[t].exit THEN SizeMax ELSE client[t].left) \in Nat \union {SizeMax}
    BY <1>1, <1>3 DEF ClientRecords, ClientPcs
  <2>2. QED
    BY <1>1, <1>2, <2>1 DEF ClientRecords, PoolTypes
<1>5. /\ c.pc = "serve" /\ c.sem = 0 /\ c.conn = client[t].conn /\ c.exit = client[t].exit
      /\ c.left = IF client[t].exit THEN SizeMax ELSE client[t].left
  BY <1>1, <1>3 DEF ClientRecords
<1>6. ThreadFits(t)'
  <2>1. c.exit => Stopping
    BY <1>1, <1>2, <1>5 DEF ThreadFits
  <2>2. c.left = SizeMax => Stopping
    BY <1>1, <1>3, <1>5, <2>1 DEF SizeMax, ClientRecords
  <2>3. c.left # SizeMax => c.left > 0 /\ c.conn # NoConn
    BY <1>3, <1>5
  <2>4. QED
    BY <1>2, <1>4, <1>5, <2>1, <2>2, <2>3 DEF ThreadFits, Stopping
<1>7. t \in Placed' <=> t \in Placed
  BY <1>2, <1>4, <1>5 DEF Placed, Serving, At
<1>8. clientsCount' \in Int
  BY <1>1, <1>2 DEF PoolTypes
<1>9. QED
  BY <1>2, <1>3, <1>4, <1>5, <1>6, <1>7, <1>8, OwnStep

LEMMA LeaveStep == ASSUME PoolAssumption, PoolInv, NEW t \in Threads, Leave(t) PROVE PoolInv'
<1> DEFINE c == [client[t] EXCEPT !.pc = "deactivate"]
<1>1. ThreadFits(t) /\ PoolTypes /\ client[t] \in ClientRecords
  BY DEF PoolInv, PoolTypes, ClientRecords
<1>2. /\ client[t].pc = "serve" /\ client' = [client EXCEPT ![t] = c] /\ clientsCount' = clientsCount
      /\ UNCHANGED <<clients, paused, joinable, server, conns>>
  BY DEF Leave, At, Go, KeepServer
<1>3. t \notin Elements(paused) /\ ~Resumed(t)
  BY <1>2, Awake
<1>4. c \in ClientRecords /\ client'[t] = c
  <2>1. "deactivate" \in ClientPcs
    BY <1>1, <1>2 DEF ClientRecords, ClientPcs, ThreadFits, NoConn, PoolAssumption, SizeMax
  <2>2. QED
    BY <1>1, <1>2, <2>1 DEF ClientRecords, PoolTypes
<1>5. /\ c.pc = "deactivate" /\ c.sem = client[t].sem /\ c.conn = client[t].conn
      /\ c.exit = client[t].exit /\ c.left = client[t].left
  BY <1>1 DEF ClientRecords
<1>6. ThreadFits(t)'
  BY <1>1, <1>2, <1>4, <1>5 DEF ThreadFits, Stopping, SizeMax
<1>7. t \in Placed' <=> t \in Placed
  BY <1>1, <1>2, <1>4, <1>5 DEF Placed, Serving, At, NoConn, ThreadFits
<1>8. clientsCount' \in Int
  BY <1>1, <1>2 DEF PoolTypes
<1>9. QED
  BY <1>2, <1>3, <1>4, <1>5, <1>6, <1>7, <1>8, OwnStep

LEMMA ExitStep == ASSUME PoolAssumption, PoolInv, NEW t \in Threads, Exit(t) PROVE PoolInv'
<1> DEFINE c == [client[t] EXCEPT !.exit = TRUE]
<1>1. ThreadFits(t) /\ PoolTypes /\ client[t] \in ClientRecords
  BY DEF PoolInv, PoolTypes, ClientRecords
<1>2. /\ client[t].pc = "serve" /\ client' = [client EXCEPT ![t] = c] /\ clientsCount' = clientsCount
      /\ UNCHANGED <<clients, paused, joinable, server, conns>>
  BY DEF Exit, At, Go, KeepServer
<1>3. t \notin Elements(paused) /\ ~Resumed(t)
  BY <1>2, Awake
<1>4. c \in ClientRecords /\ client'[t] = c
  <2>1. TRUE \in BOOLEAN
    BY <1>1, <1>2 DEF ClientRecords, ClientPcs, ThreadFits, NoConn, PoolAssumption, SizeMax
  <2>2. QED
    BY <1>1, <1>2, <2>1 DEF ClientRecords, PoolTypes
<1>5. /\ c.pc = client[t].pc /\ c.sem = client[t].sem /\ c.conn = client[t].conn
      /\ c.exit = TRUE /\ c.left = client[t].left
  BY <1>1 DEF ClientRecords
<1>6. ThreadFits(t)'
  BY <1>1, <1>2, <1>4, <1>5 DEF ThreadFits, Stopping, SizeMax
<1>7. t \in Placed' <=> t \in Placed
  BY <1>1, <1>2, <1>4, <1>5 DEF Placed, Serving, At, NoConn, ThreadFits
<1>8. clientsCount' \in Int
  BY <1>1, <1>2 DEF PoolTypes
<1>9. QED
  BY <1>2, <1>3, <1>4, <1>5, <1>6, <1>7, <1>8, OwnStep

LEMMA RetireStep == ASSUME PoolAssumption, PoolInv, NEW t \in Threads, Retire(t) PROVE PoolInv'
<1> DEFINE c == [client[t] EXCEPT !.left = 0, !.pc = "enqJoinable"]
<1>1. ThreadFits(t) /\ PoolTypes /\ client[t] \in ClientRecords
  BY DEF PoolInv, PoolTypes, ClientRecords
<1>2. /\ client[t].pc = "deactivate" /\ client' = [client EXCEPT ![t] = c] /\ clientsCount' = clientsCount
      /\ UNCHANGED <<clients, paused, joinable, server, conns>>
  BY DEF Retire, At, Go, KeepServer
<1>3. t \notin Elements(paused) /\ ~Resumed(t)
  BY <1>2, Awake
<1>4. c \in ClientRecords /\ client'[t] = c
  <2>1. 0 \in Nat /\ "enqJoinable" \in ClientPcs
    BY <1>1, <1>2 DEF ClientRecords, ClientPcs, ThreadFits, NoConn, PoolAssumption, SizeMax
  <2>2. QED
    BY <1>1, <1>2, <2>1 DEF ClientRecords, PoolTypes
<1>5. /\ c.pc = "enqJoinable" /\ c.sem = client[t].sem /\ c.conn = client[t].conn
      /\ c.exit = client[t].exit /\ c.left = 0 /\ client[t].left = SizeMax
  BY <1>1 DEF ClientRecords, Retire
<1>6. ThreadFits(t)'
  BY <1>1, <1>2, <1>4, <1>5 DEF ThreadFits, Stopping, SizeMax
<1>7. t \in Placed' <=> t \in Placed
  BY <1>1, <1>2, <1>4, <1>5 DEF Placed, Serving, At, NoConn, ThreadFits
<1>8. clientsCount' \in Int
  BY <1>1, <1>2 DEF PoolTypes
<1>9. QED
  BY <1>2, <1>3, <1>4, <1>5, <1>6, <1>7, <1>8, OwnStep

LEMMA PauseStep == ASSUME PoolAssumption, PoolInv, NEW t \in Threads, Pause(t) PROVE PoolInv'
<1> DEFINE c == [client[t] EXCEPT !.conn = NoConn, !.exit = FALSE, !.pc = "uncount"]
<1>1. ThreadFits(t) /\ PoolTypes /\ client[t] \in ClientRecords
  BY DEF PoolInv, PoolTypes, ClientRecords
<1>2. /\ client[t].pc = "deactivate" /\ client' = [client EXCEPT ![t] = c] /\ clientsCount' = clientsCount
      /\ UNCHANGED <<clients, paused, joinable, server, conns>>
  BY DEF Pause, At, Go, KeepServer
<1>3. t \notin Elements(paused) /\ ~Resumed(t)
  BY <1>2, Awake
<1>4. c \in ClientRecords /\ client'[t] = c
  <2>1. NoConn \in 0..MaxConns /\ FALSE \in BOOLEAN /\ "uncount" \in ClientPcs
    BY <1>1, <1>2 DEF ClientRecords, ClientPcs, ThreadFits, NoConn, PoolAssumption, SizeMax
  <2>2. QED
    BY <1>1, <1>2, <2>1 DEF ClientRecords, PoolTypes
<1>5. /\ c.pc = "uncount" /\ c.sem = client[t].sem /\ c.conn = NoConn
      /\ c.exit = FALSE /\ c.left = client[t].left /\ client[t].left # SizeMax
  BY <1>1 DEF ClientRecords, Pause
<1>6. ThreadFits(t)'
  BY <1>1, <1>2, <1>4, <1>5 DEF ThreadFits, Stopping, SizeMax
<1>7. t \in Placed' <=> t \in Placed
  BY <1>1, <1>2, <1>4, <1>5 DEF Placed, Serving, At, NoConn, ThreadFits
<1>8. clientsCount' \in Int
  BY <1>1, <1>2 DEF PoolTypes
<1>9. QED
  BY <1>2, <1>3, <1>4, <1>5, <1>6, <1>7, <1>8, OwnStep

LEMMA UncountStep == ASSUME PoolAssumption, PoolInv, NEW t \in Threads, Uncount(t) PROVE PoolInv'
<1> DEFINE c == [client[t] EXCEPT !.left = client[t].left - 1,
                      !.pc = IF client[t].left > 1 THEN "enqPaused" ELSE "enqJoinable"]
<1>1. ThreadFits(t) /\ PoolTypes /\ client[t] \in ClientRecords
  BY DEF PoolInv, PoolTypes, ClientRecords
<1>2. /\ client[t].pc = "uncount" /\ client' = [client EXCEPT ![t] = c] /\ clientsCount' = clientsCount - 1
      /\ UNCHANGED <<clients, paused, joinable, server, conns>>
  BY DEF Uncount, At, Go, KeepServer
<1>3. t \notin Elements(paused) /\ ~Resumed(t)
  BY <1>2, Awake
<1>4. c \in ClientRecords /\ client'[t] = c
  <2>1. client[t].left \in Nat \ {0} /\ client[t].left - 1 \in Nat
        /\ (IF client[t].left > 1 THEN "enqPaused" ELSE "enqJoinable") \in ClientPcs
    BY <1>1, <1>2 DEF ClientRecords, ClientPcs, ThreadFits, NoConn, PoolAssumption, SizeMax
  <2>2. QED
    BY <1>1, <1>2, <2>1 DEF ClientRecords, PoolTypes
<1>5. /\ c.pc = (IF client[t].left > 1 THEN "enqPaused" ELSE "enqJoinable") /\ c.sem = client[t].sem
      /\ c.conn = client[t].conn /\ c.exit = client[t].exit /\ c.left = client[t].left - 1
      /\ client[t].left \in Nat \ {0} /\ client[t].conn = NoConn
  BY <1>1, <1>2 DEF ClientRecords, ThreadFits, SizeMax
<1>5a. /\ c.pc \in {"enqPaused", "enqJoinable"} /\ (c.pc = "enqPaused" => c.left > 0)
       /\ c.sem = 0 /\ c.conn = NoConn /\ (c.exit => Stopping)
  BY <1>1, <1>2, <1>5 DEF ThreadFits
<1> HIDE DEF c
<1>6. ThreadFits(t)'
  BY <1>2, <1>4, <1>5a DEF ThreadFits, Stopping, ServerAt, Resumed
<1>7. t \in Placed /\ t \notin Placed'
  BY <1>2, <1>4, <1>5a DEF Placed, Serving, At
<1>8. clientsCount' \in Int
  BY <1>1, <1>2 DEF PoolTypes
<1>9. QED
  BY <1>2, <1>3, <1>4, <1>5, <1>6, <1>7, <1>8, OwnStep

LEMMA EnqPausedFullStep == ASSUME PoolAssumption, PoolInv, NEW t \in Threads, EnqPaused(t), ~(Len(paused) < ClientsMax) PROVE PoolInv'
<1> DEFINE c == [client[t] EXCEPT !.left = 0, !.pc = "enqJoinable"]
<1>1. ThreadFits(t) /\ PoolTypes /\ client[t] \in ClientRecords
  BY DEF PoolInv, PoolTypes, ClientRecords
<1>2. /\ client[t].pc = "enqPaused" /\ client' = [client EXCEPT ![t] = c] /\ clientsCount' = clientsCount
      /\ UNCHANGED <<clients, paused, joinable, server, conns>>
  BY DEF EnqPaused, At, Go, KeepServer
<1>3. t \notin Elements(paused) /\ ~Resumed(t)
  BY <1>2, Awake
<1>4. c \in ClientRecords /\ client'[t] = c
  <2>1. 0 \in Nat /\ "enqJoinable" \in ClientPcs
    BY <1>1, <1>2 DEF ClientRecords, ClientPcs, ThreadFits, NoConn, PoolAssumption, SizeMax
  <2>2. QED
    BY <1>1, <1>2, <2>1 DEF ClientRecords, PoolTypes
<1>5. /\ c.pc = "enqJoinable" /\ c.sem = client[t].sem /\ c.conn = client[t].conn
      /\ c.exit = client[t].exit /\ c.left = 0
  BY <1>1 DEF ClientRecords
<1>6. ThreadFits(t)'
  BY <1>1, <1>2, <1>4, <1>5 DEF ThreadFits, Stopping, SizeMax
<1>7. t \in Placed' <=> t \in Placed
  BY <1>1, <1>2, <1>4, <1>5 DEF Placed, Serving, At, NoConn, ThreadFits
<1>8. clientsCount' \in Int
  BY <1>1, <1>2 DEF PoolTypes
<1>9. QED
  BY <1>2, <1>3, <1>4, <1>5, <1>6, <1>7, <1>8, OwnStep

-------------------------------------------------------------------------------
(* A thread that puts itself into a queue *)

LEMMA EnqPausedStep ==
  ASSUME PoolAssumption, PoolInv, NEW t \in Threads, EnqPaused(t), Len(paused) < ClientsMax
  PROVE  PoolInv'
<1>0. /\ PoolTypes /\ QueuesFit /\ HandFits /\ SlotsFit /\ ConnsFit /\ CountFits
      /\ \A u \in Threads : ThreadFits(u)
  BY DEF PoolInv
<1>1. /\ client[t].pc = "enqPaused" /\ client' = [client EXCEPT ![t].pc = "sem"]
      /\ UNCHANGED <<clientsCount, clients, joinable, server, conns>>
  BY DEF EnqPaused, At, Go, KeepServer
<1>1a. /\ client'[t].pc = "sem" /\ client'[t].conn = client[t].conn /\ client'[t].left = client[t].left
       /\ client'[t].exit = client[t].exit /\ client'[t].sem = client[t].sem
       /\ \A u \in Threads : u # t => client'[u] = client[u]
  BY <1>0, <1>1 DEF PoolTypes
<1>1b. /\ t \notin Elements(paused) /\ ~Resumed(t) /\ t \notin Elements(joinable)
       /\ client[t].sem = 0 /\ client[t].left > 0 /\ client[t].conn = NoConn
  BY <1>0, <1>1, Awake DEF ThreadFits, QueuesFit, At
<1>1c. /\ paused' \in Seq(Threads) /\ Elements(paused') = Elements(paused) \union {t}
       /\ Distinct(paused')
  <2>1. paused' = Append(paused, t)
    BY DEF EnqPaused
  <2>2. paused \in Seq(Threads) /\ Distinct(paused)
    BY <1>0 DEF PoolTypes, QueuesFit
  <2>3. QED
    BY <1>1b, <2>1, <2>2, Appended
<1>1d. Elements(paused) \subseteq Threads /\ Elements(joinable) \subseteq Threads
  BY <1>0 DEF PoolTypes, Elements
<1>2. PoolTypes'
  BY <1>0, <1>1, <1>1c, ZenonT(30) DEF PoolTypes, ClientPcs
<1>3. QueuesFit'
  BY <1>0, <1>1, <1>1a, <1>1b, <1>1c, <1>1d DEF QueuesFit, At
<1>4. HandFits'
  BY <1>0, <1>1, <1>1a, <1>1b, <1>1c DEF HandFits, ServerAt, At, Leaving, Resumed
<1>5. ASSUME NEW u \in Threads PROVE ThreadFits(u)'
  <2>0. Elements(paused)' = Elements(paused')
    BY DEF Elements
  <2>1. CASE u = t
    BY <1>0, <1>1, <1>1a, <1>1b, <1>1c, <2>0, <2>1 DEF ThreadFits, Stopping, ServerAt, Resumed
  <2>2. CASE u # t
    BY <1>0, <1>1, <1>1a, <1>1c, <2>0, <2>2 DEF ThreadFits, Stopping, ServerAt, Resumed
  <2>3. QED
    BY <2>1, <2>2
<1>6. SlotsFit'
  BY <1>0, <1>1, <1>1a DEF SlotsFit, Leaving
<1>7. ConnsFit'
  <2>1. \A u \in Threads : client'[u].conn = client[u].conn
    BY <1>1a
  <2>2. QED
    BY <1>0, <1>1, <2>1 DEF ConnsFit, Serving, ServerAt
<1>8. CountFits'
  <2>1. Placed' = Placed
    BY <1>1, <1>1a DEF Placed, Serving, At
  <2>2. QED
    BY <1>0, <1>1, <2>1 DEF CountFits, Counted, ServerAt, Stopping
<1>20. QED
  BY <1>2, <1>3, <1>4, <1>5, <1>6, <1>7, <1>8 DEF PoolInv

LEMMA EnqJoinableStep ==
  ASSUME PoolAssumption, PoolInv, NEW t \in Threads, EnqJoinable(t)
  PROVE  PoolInv'
<1>0. /\ PoolTypes /\ QueuesFit /\ HandFits /\ SlotsFit /\ ConnsFit /\ CountFits
      /\ \A u \in Threads : ThreadFits(u)
  BY DEF PoolInv
<1>1. /\ client[t].pc = "enqJoinable" /\ client' = [client EXCEPT ![t].pc = "ended"]
      /\ UNCHANGED <<clientsCount, clients, paused, server, conns>>
  BY DEF EnqJoinable, At, Go, KeepServer
<1>1a. /\ client'[t].pc = "ended" /\ client'[t].conn = client[t].conn /\ client'[t].left = client[t].left
       /\ client'[t].exit = client[t].exit /\ client'[t].sem = client[t].sem
       /\ \A u \in Threads : u # t => client'[u] = client[u]
  BY <1>0, <1>1 DEF PoolTypes
<1>1b. /\ t \notin Elements(paused) /\ ~Resumed(t) /\ t \notin Elements(joinable)
       /\ client[t].sem = 0 /\ (client[t].conn = NoConn \/ Stopping)
  BY <1>0, <1>1, Awake DEF ThreadFits, QueuesFit, At
<1>1c. /\ joinable' \in Seq(Threads) /\ Distinct(joinable')
       /\ Elements(joinable') \subseteq Elements(joinable) \union {t}
  <2>1. CASE Len(joinable) < ClientsMax
    BY <1>0, <1>1b, <2>1, Appended DEF EnqJoinable, PoolTypes, QueuesFit
  <2>2. CASE ~(Len(joinable) < ClientsMax)
    BY <1>0, <2>2 DEF EnqJoinable, PoolTypes, QueuesFit
  <2>3. QED
    BY <2>1, <2>2
<1>1d. Elements(paused) \subseteq Threads /\ Elements(joinable) \subseteq Threads
  BY <1>0 DEF PoolTypes, Elements
<1>2. PoolTypes'
  BY <1>0, <1>1, <1>1c, ZenonT(30) DEF PoolTypes, ClientPcs
<1>3. QueuesFit'
  BY <1>0, <1>1, <1>1a, <1>1b, <1>1c, <1>1d DEF QueuesFit, At
<1>4. HandFits'
  BY <1>0, <1>1, <1>1a, <1>1b, <1>1c DEF HandFits, ServerAt, At, Leaving, Resumed
<1>5. ASSUME NEW u \in Threads PROVE ThreadFits(u)'
  <2>1. CASE u = t
    BY <1>0, <1>1, <1>1a, <1>1b, <2>1 DEF ThreadFits, Stopping
  <2>2. CASE u # t
    BY <1>0, <1>1, <1>1a, <2>2 DEF ThreadFits, Stopping, ServerAt, Resumed, Elements
  <2>3. QED
    BY <2>1, <2>2
<1>6. SlotsFit'
  BY <1>0, <1>1, <1>1a DEF SlotsFit, Leaving
<1>7. ConnsFit'
  <2>1. \A u \in Threads : client'[u].conn = client[u].conn
    BY <1>1a
  <2>2. QED
    BY <1>0, <1>1, <2>1 DEF ConnsFit, Serving, ServerAt
<1>8. CountFits'
  <2>1. Placed' = Placed
    BY <1>1, <1>1a DEF Placed, Serving, At
  <2>2. QED
    BY <1>0, <1>1, <2>1 DEF CountFits, Counted, ServerAt, Stopping
<1>20. QED
  BY <1>2, <1>3, <1>4, <1>5, <1>6, <1>7, <1>8 DEF PoolInv

LEMMA ClientKeeps ==
  ASSUME PoolAssumption, PoolInv, NEW t \in Threads, ClientStep(t) PROVE PoolInv'
<1>1. CASE EnqPaused(t)
  BY <1>1, EnqPausedStep, EnqPausedFullStep
<1>2. QED
  BY <1>1, BeginStep, LeaveStep, RetireStep, PauseStep, UncountStep, EnqJoinableStep, ExitStep
     DEF ClientStep

-------------------------------------------------------------------------------
(* Proofs: the steps of the server thread *)

(* Steps that only count a connection or turn to something else *)
LEMMA TurnStep ==
  ASSUME PoolAssumption, PoolInv, Accept \/ EndCleanup \/ Stop \/ AllGone PROVE PoolInv'
<1>0. /\ PoolTypes /\ QueuesFit /\ HandFits /\ SlotsFit /\ ConnsFit /\ CountFits
      /\ \A u \in Threads : ThreadFits(u)
  BY DEF PoolInv
<1>1. /\ UNCHANGED <<clients, paused, joinable, client>>
      /\ server.pc \in {"listen", "cleanup", "drain"} /\ server.thread = NoThread
      /\ server'.pc \in {"choose", "listen", "mark", "gone"} /\ server'.thread = NoThread
      /\ server' \in [pc : ServerPcs, thread : Threads \union {NoThread}, at : 0..ClientsSize]
      /\ server'.pc = "mark" => server'.at = 1
      /\ Stopping => Stopping'
      /\ IF server'.pc = "choose"
         THEN /\ ServerAt("listen") /\ conns' = conns + 1 /\ conns' \in 0..MaxConns
              /\ clientsCount' = clientsCount + 1 /\ clientsCount < ClientsMax
         ELSE UNCHANGED <<conns, clientsCount>>
  <2>1. CASE Accept
    BY <1>0, <2>1 DEF Accept, ServerAt, Serve, ServerPcs, PoolTypes, HandFits, Stopping, PoolAssumption
  <2>2. CASE EndCleanup
    BY <1>0, <2>2 DEF EndCleanup, ServerAt, Serve, ServerPcs, Stopping, PoolAssumption
  <2>3. CASE Stop
    <3>1. /\ server.pc = "listen" /\ server' = [server EXCEPT !.pc = "mark", !.at = 1]
          /\ UNCHANGED <<clientsCount, clients, paused, joinable, client, conns>>
      BY <2>3 DEF Stop, ServerAt
    <3>2. "mark" \in ServerPcs /\ 1 \in 0..ClientsSize
      BY DEF ServerPcs, PoolAssumption
    <3>3. /\ server'.pc = "mark" /\ server'.at = 1 /\ server'.thread = server.thread
          /\ server' \in [pc : ServerPcs, thread : Threads \union {NoThread}, at : 0..ClientsSize]
      BY <1>0, <3>1, <3>2 DEF PoolTypes
    <3>4. QED
      BY <1>0, <3>1, <3>3 DEF HandFits, Stopping
  <2>4. CASE AllGone
    BY <1>0, <2>4 DEF AllGone, ServerAt, Serve, ServerPcs, Stopping, PoolAssumption
  <2>5. QED
    BY <2>1, <2>2, <2>3, <2>4
<1>2. PoolTypes'
  BY <1>0, <1>1 DEF PoolTypes
<1>3. QueuesFit'
  BY <1>0, <1>1 DEF QueuesFit, At, Elements, Distinct
<1>4. HandFits'
  <2>1. /\ server'.thread = NoThread /\ server'.pc \notin {"wakeup", "add", "cleanup", "drain"}
        /\ server'.pc = "mark" => server'.at = 1
    BY <1>1
  <2>2. 1 \in 1..ClientsSize
    BY DEF PoolAssumption
  <2>3. QED
    BY <2>1, <2>2 DEF HandFits, ServerAt, Leaving
<1>5. ASSUME NEW u \in Threads PROVE ThreadFits(u)'
  BY <1>0, <1>1 DEF ThreadFits, ServerAt, Resumed, Elements, Stopping, HandFits, At
<1>6. SlotsFit'
  BY <1>0, <1>1 DEF SlotsFit, Leaving, PoolAssumption
<1>7. ConnsFit'
  <2>1. \A u \in Threads : client[u].conn \in Nat /\ client[u].conn <= conns /\ conns \in Nat
    <3>1. conns \in Nat
      BY <1>0 DEF PoolTypes, PoolAssumption
    <3>2. \A u \in Threads : client[u].conn \in Nat
      <4>1. \A u \in Threads : client[u].conn \in 0..MaxConns
        BY <1>0 DEF PoolTypes
      <4>2. 0..MaxConns \subseteq Nat
        BY DEF PoolAssumption
      <4>3. QED
        BY <4>1, <4>2
    <3>3. \A u \in Threads : client[u].conn <= conns
      BY <1>0 DEF ConnsFit
    <3>4. QED
      BY <3>1, <3>2, <3>3
  <2>2. QED
    BY <1>0, <1>1, <2>1 DEF ConnsFit, Serving, ServerAt
<1>8. CountFits'
  <2>1. Placed' = Placed /\ Cardinality(Placed) \in Nat
    BY <1>1, PlacedFinite DEF Placed, Serving, At
  <2>2. clientsCount \in Int /\ ClientsMax \in Nat
    BY <1>0 DEF PoolTypes, PoolAssumption
  <2>3. QED
    BY <1>0, <1>1, <2>1, <2>2 DEF CountFits, Counted, ServerAt, Stopping
<1>20. QED
  BY <1>2, <1>3, <1>4, <1>5, <1>6, <1>7, <1>8 DEF PoolInv


LEMMA QueuesOwned ==
  ASSUME PoolTypes PROVE Elements(paused) \subseteq Threads /\ Elements(joinable) \subseteq Threads
  BY DEF PoolTypes, Elements

LEMMA ResumeStep == ASSUME PoolAssumption, PoolInv, Resume PROVE PoolInv'
<1> DEFINE t == Head(paused)
<1>0. /\ PoolTypes /\ QueuesFit /\ HandFits /\ SlotsFit /\ ConnsFit /\ CountFits
      /\ \A u \in Threads : ThreadFits(u)
  BY DEF PoolInv
<1>1. /\ server.pc = "choose" /\ paused # <<>> /\ client' = [client EXCEPT ![t].conn = conns]
      /\ server' = [pc |-> "wakeup", thread |-> t, at |-> 0] /\ paused' = Tail(paused)
      /\ UNCHANGED <<clientsCount, clients, joinable, conns>>
  BY DEF Resume, ServerAt, Serve
<1>1a. /\ t \in Threads /\ t \in Elements(paused) /\ paused' \in Seq(Threads)
       /\ Distinct(paused') /\ Elements(paused') = Elements(paused) \ {t}
  BY <1>0, <1>1, FirstTaken DEF PoolTypes, QueuesFit
<1> HIDE DEF t
<1>1b. Elements(paused)' = Elements(paused')
  BY DEF Elements
<1>1c. /\ client[t].pc = "sem" /\ client[t].conn = NoConn /\ client[t].sem = 0 /\ client[t].left > 0
       /\ ~client[t].exit
  BY <1>0, <1>1, <1>1a DEF QueuesFit, At, ThreadFits, Stopping
<1>1d. /\ client'[t].pc = "sem" /\ client'[t].conn = conns /\ client'[t].left = client[t].left
       /\ client'[t].exit = client[t].exit /\ client'[t].sem = 0
       /\ \A u \in Threads : u # t => client'[u] = client[u]
  BY <1>0, <1>1, <1>1a, <1>1c DEF PoolTypes
<1>1e. conns \in Nat /\ conns # NoConn /\ \A u \in Threads : client[u].conn \in Nat /\ client[u].conn < conns
  BY <1>0, <1>1, <1>1a, SMTT(30) DEF PoolTypes, PoolAssumption, ConnsFit, ServerAt, NoConn
<1>2. PoolTypes'
  <2>1. server' \in [pc : ServerPcs, thread : Threads \union {NoThread}, at : 0..ClientsSize]
    BY <1>1, <1>1a DEF ServerPcs, PoolAssumption
  <2>2. conns \in 0..MaxConns
    BY <1>0 DEF PoolTypes
  <2>3. client' \in [Threads -> ClientRecords]
    BY <1>0, <1>1, <1>1a, <2>2 DEF PoolTypes, ClientRecords
  <2>4. QED
    BY <1>0, <1>1, <1>1a, <2>1, <2>3 DEF PoolTypes, ClientRecords
<1>3. QueuesFit'
  BY <1>0, <1>1, <1>1a, <1>1b, <1>1d, QueuesOwned DEF QueuesFit, At, Elements
<1>4. HandFits'
  BY <1>0, <1>1, <1>1a, <1>1b, <1>1d DEF HandFits, ServerAt, At, Leaving
<1>5. ASSUME NEW u \in Threads PROVE ThreadFits(u)'
  <2>1. CASE u = t
    BY <1>1, <1>1a, <1>1b, <1>1c, <1>1d, <1>1e, <2>1 DEF ThreadFits, ServerAt, Resumed
  <2>2. CASE u # t
    BY <1>0, <1>1, <1>1a, <1>1b, <1>1d, <2>2 DEF ThreadFits, Stopping, ServerAt, Resumed
  <2>3. QED
    BY <2>1, <2>2
<1>6. SlotsFit'
  BY <1>0, <1>1, <1>1c, <1>1d DEF SlotsFit, Leaving
<1>7. ConnsFit'
  BY <1>0, <1>1, <1>1d, <1>1e DEF ConnsFit, Serving, ServerAt
<1>8. CountFits'
  <2>1. \A u \in Threads : u # t => (u \in Placed' <=> u \in Placed)
    BY <1>1d DEF Placed, Serving, At
  <2>2. t \notin Placed /\ t \in Placed'
    BY <1>1a, <1>1c, <1>1d, <1>1e DEF Placed, Serving, At
  <2>3. Cardinality(Placed)' = Cardinality(Placed) + 1 /\ Cardinality(Placed) \in Nat
    BY <1>0, <1>1a, <2>1, <2>2, PlacesMove, PlacedFinite
  <2>4. QED
    BY <1>0, <1>1, <2>3 DEF CountFits, Counted, ServerAt, Stopping
<1>20. QED
  BY <1>2, <1>3, <1>4, <1>5, <1>6, <1>7, <1>8 DEF PoolInv

LEMMA WakeupStep == ASSUME PoolAssumption, PoolInv, Wakeup PROVE PoolInv'
<1> DEFINE t == server.thread
<1>0. /\ PoolTypes /\ QueuesFit /\ HandFits /\ SlotsFit /\ ConnsFit /\ CountFits
      /\ \A u \in Threads : ThreadFits(u)
  BY DEF PoolInv
<1>1. /\ server.pc = "wakeup" /\ client' = [client EXCEPT ![t].sem = client[t].sem + 1]
      /\ server' = [pc |-> "cleanup", thread |-> NoThread, at |-> 0]
      /\ UNCHANGED <<clientsCount, clients, paused, joinable, conns>>
  BY <1>0 DEF Wakeup, ServerAt, Serve, HandFits, PoolTypes
<1>1a. t \in Threads /\ client[t].pc = "sem" /\ t \notin Elements(paused) /\ Resumed(t)
  BY <1>0, <1>1 DEF HandFits, ServerAt, At, Resumed
<1>1b. \A u \in Threads : Resumed(u) => u = t
  BY DEF Resumed
<1>1c. client[t].conn # NoConn /\ client[t].sem = 0 /\ client[t].left > 0 /\ ~client[t].exit
  BY <1>0, <1>1, <1>1a DEF ThreadFits, Stopping
<1> HIDE DEF t
<1>1d. /\ client'[t].pc = "sem" /\ client'[t].conn = client[t].conn /\ client'[t].left = client[t].left
       /\ client'[t].exit = client[t].exit /\ client'[t].sem = 1
       /\ \A u \in Threads : u # t => client'[u] = client[u]
  BY <1>0, <1>1, <1>1a, <1>1c DEF PoolTypes
<1>2. PoolTypes'
  <2>1. server' \in [pc : ServerPcs, thread : Threads \union {NoThread}, at : 0..ClientsSize]
    BY <1>1 DEF ServerPcs, PoolAssumption
  <2>2. client[t].sem + 1 \in Nat
    BY <1>1c
  <2>3. client' \in [Threads -> ClientRecords]
    BY <1>0, <1>1, <1>1a, <2>2 DEF PoolTypes, ClientRecords
  <2>4. QED
    BY <1>0, <1>1, <2>1, <2>3 DEF PoolTypes, ClientRecords
<1>3. QueuesFit'
  BY <1>0, <1>1, <1>1a, <1>1d, QueuesOwned DEF QueuesFit, At, Elements, Distinct
<1>4. HandFits'
  BY <1>0, <1>1, <1>1a, <1>1d DEF HandFits, ServerAt, At, Leaving, PoolAssumption
<1>5. ASSUME NEW u \in Threads PROVE ThreadFits(u)'
  <2>0. Elements(paused)' = Elements(paused) /\ ~Resumed(u)' /\ ~Stopping
    BY <1>1 DEF Elements, Resumed, ServerAt, Stopping
  <2>1. CASE u = t
    BY <1>1, <1>1a, <1>1c, <1>1d, <2>0, <2>1 DEF ThreadFits
  <2>2. CASE u # t
    BY <1>0, <1>1, <1>1b, <1>1d, <2>0, <2>2 DEF ThreadFits, ServerAt
  <2>3. QED
    BY <2>1, <2>2
<1>6. SlotsFit'
  BY <1>0, <1>1, <1>1a, <1>1d DEF SlotsFit, Leaving, PoolAssumption
<1>7. ConnsFit'
  <2>1. \A u \in Threads : client'[u].conn = client[u].conn
    BY <1>1d
  <2>2. QED
    BY <1>0, <1>1, <2>1 DEF ConnsFit, Serving, ServerAt
<1>8. CountFits'
  <2>1. Placed' = Placed
    BY <1>1a, <1>1d DEF Placed, Serving, At
  <2>2. QED
    BY <1>0, <1>1, <2>1 DEF CountFits, Counted, ServerAt, Stopping
<1>20. QED
  BY <1>2, <1>3, <1>4, <1>5, <1>6, <1>7, <1>8 DEF PoolInv

LEMMA MakeStep ==
  ASSUME PoolAssumption, PoolInv, NEW t \in Threads, Make(t) PROVE PoolInv'
<1>0. /\ PoolTypes /\ QueuesFit /\ HandFits /\ SlotsFit /\ ConnsFit /\ CountFits
      /\ \A u \in Threads : ThreadFits(u)
  BY DEF PoolInv
<1>1. /\ server.pc = "choose" /\ client[t].pc = "unmade"
      /\ client' = [client EXCEPT ![t] = [pc |-> "made", conn |-> conns, left |-> ClientsPerThread,
                                          exit |-> FALSE, sem |-> 1]]
      /\ server' = [pc |-> "add", thread |-> t, at |-> 0]
      /\ UNCHANGED <<clientsCount, clients, paused, joinable, conns>>
  BY DEF Make, ServerAt, Serve, At
<1>1c. client[t].conn = NoConn
  BY <1>0, <1>1 DEF ThreadFits, Unmade
<1>1d. /\ client'[t] = [pc |-> "made", conn |-> conns, left |-> ClientsPerThread,
                        exit |-> FALSE, sem |-> 1]
       /\ \A u \in Threads : u # t => client'[u] = client[u]
  BY <1>0, <1>1 DEF PoolTypes
<1>1e. conns \in Nat /\ conns # NoConn /\ \A u \in Threads : client[u].conn \in Nat /\ client[u].conn < conns
  BY <1>0, <1>1 DEF PoolTypes, PoolAssumption, ConnsFit, ServerAt, NoConn
<1>2. PoolTypes'
  BY <1>0, <1>1 DEF PoolTypes, ServerPcs, ClientPcs, PoolAssumption
<1>3. QueuesFit'
  BY <1>0, <1>1, <1>1d, QueuesOwned DEF QueuesFit, At, Elements, Distinct
<1>4. HandFits'
  BY <1>0, <1>1, <1>1d DEF HandFits, ServerAt, At, Leaving
<1>5. ASSUME NEW u \in Threads PROVE ThreadFits(u)'
  <2>0. Elements(paused)' = Elements(paused) /\ ~Resumed(u)' /\ ~Resumed(u) /\ ~Stopping
    BY <1>1 DEF Elements, Resumed, ServerAt, Stopping
  <2>1. CASE u = t
    BY <1>1, <1>1d, <1>1e, <2>1 DEF ThreadFits, ServerAt, PoolAssumption
  <2>2. CASE u # t
    BY <1>0, <1>1, <1>1d, <2>0, <2>2 DEF ThreadFits, ServerAt
  <2>3. QED
    BY <2>1, <2>2
<1>6. SlotsFit'
  BY <1>0, <1>1, <1>1d DEF SlotsFit, Leaving
<1>7. ConnsFit'
  BY <1>0, <1>1, <1>1d, <1>1e DEF ConnsFit, Serving, ServerAt
<1>8. CountFits'
  <2>1. \A u \in Threads : u # t => (u \in Placed' <=> u \in Placed)
    BY <1>1d DEF Placed, Serving, At
  <2>2. t \notin Placed /\ t \in Placed'
    BY <1>1, <1>1c, <1>1d, <1>1e DEF Placed, Serving, At
  <2>3. Cardinality(Placed)' = Cardinality(Placed) + 1 /\ Cardinality(Placed) \in Nat
    BY <1>0, <2>1, <2>2, PlacesMove, PlacedFinite
  <2>4. QED
    BY <1>0, <1>1, <2>3 DEF CountFits, Counted, ServerAt, Stopping
<1>20. QED
  BY <1>2, <1>3, <1>4, <1>5, <1>6, <1>7, <1>8 DEF PoolInv

LEMMA ClientsAddStep ==
  ASSUME PoolAssumption, PoolInv, NEW slot \in Slots, ClientsAdd(slot) PROVE PoolInv'
<1> DEFINE t == server.thread
<1>0. /\ PoolTypes /\ QueuesFit /\ HandFits /\ SlotsFit /\ ConnsFit /\ CountFits
      /\ \A u \in Threads : ThreadFits(u)
  BY DEF PoolInv
<1>1. /\ server.pc = "add" /\ clients[slot] = NoThread /\ clients' = [clients EXCEPT ![slot] = t]
      /\ client' = [client EXCEPT ![t].pc = "sem"]
      /\ server' = [pc |-> "cleanup", thread |-> NoThread, at |-> 0]
      /\ UNCHANGED <<clientsCount, paused, joinable, conns>>
  BY DEF ClientsAdd, ServerAt, Serve, Go
<1>1a. t \in Threads /\ client[t].pc = "made" /\ t \notin Elements(paused) /\ ~Stopping
  BY <1>0, <1>1 DEF HandFits, ServerAt, At, QueuesFit, Stopping
<1>1c. /\ client[t].conn # NoConn /\ client[t].sem = 1 /\ client[t].left > 0 /\ ~client[t].exit
       /\ \A u \in Threads : u # t => client[u].pc # "made"
  BY <1>0, <1>1, <1>1a DEF ThreadFits
<1> HIDE DEF t
<1>1d. /\ client'[t].pc = "sem" /\ client'[t].conn = client[t].conn /\ client'[t].left = client[t].left
       /\ client'[t].exit = client[t].exit /\ client'[t].sem = 1
       /\ \A u \in Threads : u # t => client'[u] = client[u]
  BY <1>0, <1>1, <1>1a, <1>1c DEF PoolTypes
<1>1e. clients'[slot] = t /\ \A i \in Slots : i # slot => clients'[i] = clients[i]
  BY <1>0, <1>1 DEF PoolTypes
<1>2. PoolTypes'
  <2>1. server' \in [pc : ServerPcs, thread : Threads \union {NoThread}, at : 0..ClientsSize]
    BY <1>1 DEF ServerPcs, PoolAssumption
  <2>2. "sem" \in ClientPcs
    BY DEF ClientPcs
  <2>3. client' \in [Threads -> ClientRecords]
    BY <1>0, <1>1, <1>1a, <2>2 DEF PoolTypes, ClientRecords
  <2>4. clients' \in [Slots -> Threads \union {NoThread}]
    BY <1>0, <1>1, <1>1a DEF PoolTypes
  <2>5. QED
    BY <1>0, <1>1, <2>1, <2>3, <2>4 DEF PoolTypes, ClientRecords
<1>3. QueuesFit'
  BY <1>0, <1>1, <1>1a, <1>1d, QueuesOwned DEF QueuesFit, At, Elements, Distinct
<1>4. HandFits'
  BY <1>0, <1>1 DEF HandFits, ServerAt, Leaving, PoolAssumption
<1>5. ASSUME NEW u \in Threads PROVE ThreadFits(u)'
  <2>0. Elements(paused)' = Elements(paused) /\ ~Resumed(u)' /\ ~Resumed(u)
    BY <1>1 DEF Elements, Resumed, ServerAt
  <2>1. CASE u = t
    BY <1>1, <1>1a, <1>1c, <1>1d, <2>0, <2>1 DEF ThreadFits
  <2>2. CASE u # t
    BY <1>0, <1>1, <1>1a, <1>1c, <1>1d, <2>0, <2>2 DEF ThreadFits
  <2>3. QED
    BY <2>1, <2>2
<1>6. SlotsFit'
  <2>1. \A i \in Slots : clients[i] # t
    BY <1>0, <1>1a DEF SlotsFit
  <2>2. \A i, j \in Slots : clients'[i] = clients'[j] /\ clients'[i] # NoThread => i = j
    BY <1>0, <1>1e, <2>1 DEF SlotsFit
  <2>3. \A u \in Threads : ~Leaving(u) /\ ~Leaving(u)'
    BY <1>1 DEF Leaving, PoolAssumption
  <2>4. ASSUME NEW u \in Threads, u # t
        PROVE  (\E i \in Slots : clients'[i] = u) <=> client'[u].pc \notin {"unmade", "made"}
    <3>1. (\E i \in Slots : clients'[i] = u) <=> (\E i \in Slots : clients[i] = u)
      BY <1>1, <1>1e, <2>4 DEF PoolAssumption
    <3>2. QED
      BY <1>0, <1>1d, <2>3, <2>4, <3>1 DEF SlotsFit
  <2>5. QED
    BY <1>1d, <1>1e, <2>2, <2>3, <2>4 DEF SlotsFit
<1>7. ConnsFit'
  <2>1. \A u \in Threads : client'[u].conn = client[u].conn
    BY <1>1d
  <2>2. QED
    BY <1>0, <1>1, <2>1 DEF ConnsFit, Serving, ServerAt
<1>8. CountFits'
  <2>1. Placed' = Placed
    BY <1>1a, <1>1d DEF Placed, Serving, At
  <2>2. QED
    BY <1>0, <1>1, <2>1 DEF CountFits, Counted, ServerAt, Stopping
<1>20. QED
  BY <1>2, <1>3, <1>4, <1>5, <1>6, <1>7, <1>8 DEF PoolInv

LEMMA CleanupJoinableStep == ASSUME PoolAssumption, PoolInv, CleanupJoinable PROVE PoolInv'
<1> DEFINE t == Head(joinable)
<1>0. /\ PoolTypes /\ QueuesFit /\ HandFits /\ SlotsFit /\ ConnsFit /\ CountFits
      /\ \A u \in Threads : ThreadFits(u)
  BY DEF PoolInv
<1>1. /\ server.pc \in {"cleanup", "drain"} /\ server.thread = NoThread /\ joinable # <<>>
      /\ server' = [pc |-> server.pc, thread |-> t, at |-> 0] /\ joinable' = Tail(joinable)
      /\ clients' = [slot \in Slots |-> IF clients[slot] = t THEN NoThread ELSE clients[slot]]
      /\ UNCHANGED <<clientsCount, paused, client, conns>>
  BY DEF CleanupJoinable, Serve, Forget
<1>1a. /\ t \in Threads /\ t \in Elements(joinable) /\ joinable' \in Seq(Threads)
       /\ Distinct(joinable') /\ Elements(joinable') = Elements(joinable) \ {t}
  BY <1>0, <1>1, FirstTaken DEF PoolTypes, QueuesFit
<1> HIDE DEF t
<1>1b. /\ Elements(joinable)' = Elements(joinable') /\ Elements(paused)' = Elements(paused)
       /\ t # NoThread
  BY <1>1, <1>1a DEF Elements, PoolAssumption
<1>1c. client[t].pc = "ended"
  BY <1>0, <1>1a DEF QueuesFit, At
<1>2. PoolTypes'
  <2>1. server' \in [pc : ServerPcs, thread : Threads \union {NoThread}, at : 0..ClientsSize]
    BY <1>1, <1>1a DEF ServerPcs, PoolAssumption
  <2>2. clients' \in [Slots -> Threads \union {NoThread}]
    BY <1>0, <1>1 DEF PoolTypes
  <2>3. QED
    BY <1>0, <1>1, <1>1a, <2>1, <2>2 DEF PoolTypes
<1>3. QueuesFit'
  BY <1>0, <1>1, <1>1a, <1>1b DEF QueuesFit, At, Distinct
<1>4. HandFits'
  BY <1>1, <1>1a, <1>1b, <1>1c DEF HandFits, ServerAt, At, Leaving
<1>5. ASSUME NEW u \in Threads PROVE ThreadFits(u)'
  <2>1. ~Resumed(u) /\ ~Resumed(u)' /\ (Stopping' <=> Stopping) /\ ThreadFits(u)
    BY <1>0, <1>1 DEF Resumed, ServerAt, Stopping
  <2>2. client[u].pc # "made"
    BY <1>1, <2>1 DEF ThreadFits, ServerAt
  <2>3. QED
    BY <1>1, <1>1b, <2>1, <2>2 DEF ThreadFits
<1>6. SlotsFit'
  <2>1. \A i \in Slots : clients'[i] = IF clients[i] = t THEN NoThread ELSE clients[i]
    BY <1>1
  <2>2. \A u \in Threads : ~Leaving(u) /\ (Leaving(u)' <=> u = t)
    BY <1>1 DEF Leaving, PoolAssumption
  <2>3. \A i, j \in Slots : clients'[i] = clients'[j] /\ clients'[i] # NoThread => i = j
    BY <1>0, <2>1 DEF SlotsFit
  <2>4. ~\E i \in Slots : clients'[i] = t
    BY <1>1b, <2>1
  <2>5. ASSUME NEW u \in Threads, u # t
        PROVE  (\E i \in Slots : clients'[i] = u) <=> (\E i \in Slots : clients[i] = u)
    BY <2>1, <2>5 DEF PoolAssumption
  <2>6. QED
    BY <1>0, <1>1, <2>2, <2>3, <2>4, <2>5 DEF SlotsFit
<1>7. ConnsFit'
  BY <1>0, <1>1 DEF ConnsFit, Serving, ServerAt
<1>8. CountFits'
  <2>1. Placed' = Placed
    BY <1>1 DEF Placed, Serving, At
  <2>2. QED
    BY <1>0, <1>1, <2>1 DEF CountFits, Counted, ServerAt, Stopping
<1>20. QED
  BY <1>2, <1>3, <1>4, <1>5, <1>6, <1>7, <1>8 DEF PoolInv

LEMMA JoinStep == ASSUME PoolAssumption, PoolInv, Join PROVE PoolInv'
<1> DEFINE t == server.thread
<1>0. /\ PoolTypes /\ QueuesFit /\ HandFits /\ SlotsFit /\ ConnsFit /\ CountFits
      /\ \A u \in Threads : ThreadFits(u)
  BY DEF PoolInv
<1>1. /\ server.pc \in {"cleanup", "drain"} /\ client[t].pc = "ended"
      /\ client' = [client EXCEPT ![t] = Unmade]
      /\ server' = [pc |-> server.pc, thread |-> NoThread, at |-> 0]
      /\ UNCHANGED <<clientsCount, clients, paused, joinable, conns>>
  BY DEF Join, Serve, At
<1>1a. t \in Threads /\ Leaving(t) /\ \A u \in Threads : Leaving(u) => u = t
  BY <1>0, <1>1 DEF PoolTypes, Leaving, Join
<1>1b. t \notin Elements(joinable) /\ t \notin Elements(paused)
  BY <1>0, <1>1, <1>1a DEF HandFits, QueuesFit, At
<1> HIDE DEF t
<1>1c. /\ Elements(joinable)' = Elements(joinable) /\ Elements(paused)' = Elements(paused)
       /\ \A u \in Threads : ~Leaving(u)'
  BY <1>1 DEF Elements, Leaving, PoolAssumption
<1>1d. client'[t] = Unmade /\ \A u \in Threads : u # t => client'[u] = client[u]
  BY <1>0, <1>1, <1>1a DEF PoolTypes
<1>1e. Unmade.pc = "unmade" /\ Unmade.conn = NoConn /\ Unmade.exit = FALSE
  BY DEF Unmade
<1>2. PoolTypes'
  <2>1. server' \in [pc : ServerPcs, thread : Threads \union {NoThread}, at : 0..ClientsSize]
    BY <1>1 DEF ServerPcs, PoolAssumption
  <2>2. Unmade \in ClientRecords
    BY DEF Unmade, ClientRecords, ClientPcs, NoConn, PoolAssumption
  <2>3. client' \in [Threads -> ClientRecords]
    BY <1>0, <1>1, <1>1a, <2>2 DEF PoolTypes, ClientRecords
  <2>4. QED
    BY <1>0, <1>1, <2>1, <2>3 DEF PoolTypes, ClientRecords
<1>3. QueuesFit'
  BY <1>0, <1>1, <1>1b, <1>1c, <1>1d, QueuesOwned DEF QueuesFit, At, Distinct
<1>4. HandFits'
  BY <1>1, <1>1c DEF HandFits, ServerAt, At
<1>5. ASSUME NEW u \in Threads PROVE ThreadFits(u)'
  <2>1. ~Resumed(u) /\ ~Resumed(u)' /\ (Stopping' <=> Stopping) /\ ThreadFits(u)
    BY <1>0, <1>1 DEF Resumed, ServerAt, Stopping
  <2>2. CASE u = t
    BY <1>1d, <1>1e, <2>2 DEF ThreadFits
  <2>3. CASE u # t
    <3>1. client[u].pc # "made"
      BY <1>1, <2>1 DEF ThreadFits, ServerAt
    <3>2. QED
      BY <1>1c, <1>1d, <2>1, <2>3, <3>1 DEF ThreadFits
  <2>4. QED
    BY <2>2, <2>3
<1>6. SlotsFit'
  BY <1>0, <1>1, <1>1a, <1>1c, <1>1d, <1>1e DEF SlotsFit
<1>7. ConnsFit'
  BY <1>0, <1>1, <1>1a, <1>1d, <1>1e DEF ConnsFit, Serving, ServerAt, PoolTypes, PoolAssumption, NoConn
<1>8. CountFits'
  <2>1. \A u \in Threads : u # t => (u \in Placed' <=> u \in Placed)
    BY <1>1d DEF Placed, Serving, At
  <2>2. t \notin Placed'
    BY <1>1d, <1>1e DEF Placed, Serving, At
  <2>3. Cardinality(Placed) \in Nat
    BY PlacedFinite
  <2>4. ~ServerAt("choose") /\ ~ServerAt("choose")' /\ (Stopping' <=> Stopping)
    BY <1>1 DEF ServerAt, Stopping
  <2>5. CASE t \notin Placed
    <3>1. Cardinality(Placed)' = Cardinality(Placed)
      BY <1>0, <1>1a, <2>1, <2>2, <2>5, PlacesMove
    <3>2. QED
      BY <1>0, <1>1, <2>4, <3>1 DEF CountFits, Counted
  <2>6. CASE t \in Placed
    <3>1. Cardinality(Placed)' = Cardinality(Placed) - 1
      BY <1>0, <1>1a, <2>1, <2>2, <2>6, PlacesMove
    <3>2. Stopping
      BY <1>0, <1>1, <1>1a, <2>6 DEF ThreadFits, Placed, Serving, At
    <3>3. clientsCount \in Int
      BY <1>0 DEF PoolTypes
    <3>4. QED
      BY <1>0, <1>1, <2>3, <2>4, <3>1, <3>2, <3>3 DEF CountFits, Counted
  <2>7. QED
    BY <2>5, <2>6
<1>20. QED
  BY <1>2, <1>3, <1>4, <1>5, <1>6, <1>7, <1>8 DEF PoolInv

LEMMA MarkStep == ASSUME PoolAssumption, PoolInv, Mark PROVE PoolInv'
<1>0. /\ PoolTypes /\ QueuesFit /\ HandFits /\ SlotsFit /\ ConnsFit /\ CountFits
      /\ \A u \in Threads : ThreadFits(u)
  BY DEF PoolInv
<1>1. /\ server.pc = "mark" /\ server.thread = NoThread /\ server.at \in 1..ClientsSize
      /\ client' = [t \in Threads |-> IF clients[server.at] = t THEN [client[t] EXCEPT !.exit = TRUE]
                                      ELSE client[t]]
      /\ server' = IF server.at = ClientsSize THEN [server EXCEPT !.pc = "drain"]
                   ELSE [server EXCEPT !.at = server.at + 1]
      /\ UNCHANGED <<clientsCount, clients, paused, joinable, conns>>
  BY <1>0 DEF Mark, HandFits, ServerAt, PoolTypes
<1>1a. /\ server'.pc \in {"mark", "drain"} /\ server'.thread = NoThread
       /\ server'.pc = "mark" => server'.at \in 1..ClientsSize
       /\ server' \in [pc : ServerPcs, thread : Threads \union {NoThread}, at : 0..ClientsSize]
  <2>1. CASE server.at = ClientsSize
    <3>1. "drain" \in ServerPcs /\ server' = [server EXCEPT !.pc = "drain"]
      BY <1>1, <2>1 DEF ServerPcs
    <3>2. QED
      BY <1>0, <1>1, <3>1 DEF PoolTypes
  <2>2. CASE server.at # ClientsSize
    <3>1. /\ server.at + 1 \in 1..ClientsSize /\ server.at + 1 \in 0..ClientsSize
          /\ server' = [server EXCEPT !.at = server.at + 1]
      BY <1>1, <2>2 DEF PoolAssumption
    <3>2. QED
      BY <1>0, <1>1, <3>1 DEF PoolTypes
  <2>3. QED
    BY <2>1, <2>2
<1>1b. \A u \in Threads : clients[server.at] = u => client[u].pc # "unmade"
  BY <1>0, <1>1 DEF SlotsFit, Slots
<1>1c. \A u \in Threads :
         /\ client'[u].pc = client[u].pc /\ client'[u].conn = client[u].conn
         /\ client'[u].left = client[u].left /\ client'[u].sem = client[u].sem
         /\ client[u].pc = "unmade" => client'[u] = client[u]
         /\ client'[u] \in ClientRecords
  <2>1. SUFFICES ASSUME NEW u \in Threads
                 PROVE  /\ client'[u].pc = client[u].pc /\ client'[u].conn = client[u].conn
                        /\ client'[u].left = client[u].left /\ client'[u].sem = client[u].sem
                        /\ client[u].pc = "unmade" => client'[u] = client[u]
                        /\ client'[u] \in ClientRecords
    OBVIOUS
  <2>2. client[u] \in ClientRecords
    BY <1>0 DEF PoolTypes, ClientRecords
  <2>3. CASE clients[server.at] = u
    <3>1. client'[u] = [client[u] EXCEPT !.exit = TRUE] /\ client[u].pc # "unmade"
      BY <1>1, <1>1b, <2>3
    <3>2. QED
      BY <2>2, <3>1 DEF ClientRecords
  <2>4. CASE clients[server.at] # u
    BY <1>1, <2>2, <2>4
  <2>5. QED
    BY <2>3, <2>4
<1>1d. /\ Elements(joinable)' = Elements(joinable) /\ Elements(paused)' = Elements(paused)
       /\ \A u \in Threads : ~Leaving(u) /\ ~Leaving(u)'
       /\ Stopping /\ Stopping'
  BY <1>1, <1>1a DEF Elements, Leaving, Stopping, PoolAssumption
<1>2. PoolTypes'
  <2>1. client' \in [Threads -> ClientRecords]
    BY <1>1, <1>1c
  <2>2. QED
    BY <1>0, <1>1, <1>1a, <2>1 DEF PoolTypes, ClientRecords
<1>3. QueuesFit'
  BY <1>0, <1>1, <1>1c, <1>1d, QueuesOwned DEF QueuesFit, At, Distinct
<1>4. HandFits'
  BY <1>1a, <1>1d DEF HandFits, ServerAt
<1>5. ASSUME NEW u \in Threads PROVE ThreadFits(u)'
  <2>1. ~Resumed(u) /\ ~Resumed(u)' /\ ThreadFits(u)
    BY <1>0, <1>1, <1>1a DEF Resumed, ServerAt
  <2>2. client[u].pc # "made" /\ (client[u].pc = "unmade" => client'[u] = client[u])
    BY <1>1, <1>1c, <2>1 DEF ThreadFits, ServerAt
  <2>3. client'[u].exit \/ client'[u].exit = client[u].exit
    BY <1>0, <1>1 DEF PoolTypes
  <2>4. QED
    BY <1>1c, <1>1d, <2>1, <2>2, <2>3 DEF ThreadFits
<1>6. SlotsFit'
  BY <1>0, <1>1, <1>1c, <1>1d DEF SlotsFit
<1>7. ConnsFit'
  BY <1>0, <1>1, <1>1a, <1>1c DEF ConnsFit, Serving, ServerAt
<1>8. CountFits'
  <2>1. Placed' = Placed
    BY <1>1c DEF Placed, Serving, At
  <2>2. QED
    BY <1>0, <1>1, <1>1a, <1>1d, <2>1 DEF CountFits, Counted, ServerAt
<1>20. QED
  BY <1>2, <1>3, <1>4, <1>5, <1>6, <1>7, <1>8 DEF PoolInv

LEMMA CleanupPausedStep == ASSUME PoolAssumption, PoolInv, CleanupPaused PROVE PoolInv'
<1> DEFINE t == Head(paused)
<1>0. /\ PoolTypes /\ QueuesFit /\ HandFits /\ SlotsFit /\ ConnsFit /\ CountFits
      /\ \A u \in Threads : ThreadFits(u)
  BY DEF PoolInv
<1>1. /\ server.pc = "drain" /\ server.thread = NoThread /\ paused # <<>>
      /\ client' = [client EXCEPT ![t] = [client[t] EXCEPT !.exit = TRUE, !.sem = client[t].sem + 1]]
      /\ paused' = Tail(paused)
      /\ UNCHANGED <<clientsCount, clients, joinable, server, conns>>
  BY DEF CleanupPaused, ServerAt
<1>1a. /\ t \in Threads /\ t \in Elements(paused) /\ paused' \in Seq(Threads)
       /\ Distinct(paused') /\ Elements(paused') = Elements(paused) \ {t}
  BY <1>0, <1>1, FirstTaken DEF PoolTypes, QueuesFit
<1> HIDE DEF t
<1>1b. /\ Elements(joinable)' = Elements(joinable) /\ Elements(paused)' = Elements(paused')
       /\ \A u \in Threads : ~Leaving(u) /\ ~Leaving(u)' /\ ~Resumed(u) /\ ~Resumed(u)'
       /\ Stopping /\ Stopping'
  BY <1>1 DEF Elements, Leaving, Resumed, ServerAt, Stopping, PoolAssumption
<1>1c. client[t].pc = "sem" /\ client[t].sem = 0 /\ client[t].left > 0
  BY <1>0, <1>1a DEF QueuesFit, At, ThreadFits
<1>1d. /\ client'[t].pc = "sem" /\ client'[t].conn = client[t].conn /\ client'[t].left = client[t].left
       /\ client'[t].exit = TRUE /\ client'[t].sem = 1
       /\ \A u \in Threads : u # t => client'[u] = client[u]
  BY <1>0, <1>1, <1>1a, <1>1c DEF PoolTypes
<1>2. PoolTypes'
  <2>1. [client[t] EXCEPT !.exit = TRUE, !.sem = client[t].sem + 1] \in ClientRecords
    <3>1. client[t] \in ClientRecords /\ client[t].sem + 1 \in Nat
      BY <1>0, <1>1a, <1>1c DEF PoolTypes, ClientRecords
    <3>2. QED
      BY <3>1 DEF ClientRecords
  <2>2. client' \in [Threads -> ClientRecords]
    BY <1>0, <1>1, <1>1a, <2>1 DEF PoolTypes, ClientRecords
  <2>3. QED
    BY <1>0, <1>1, <1>1a, <2>2 DEF PoolTypes, ClientRecords
<1>3. QueuesFit'
  BY <1>0, <1>1, <1>1a, <1>1b, <1>1d, QueuesOwned DEF QueuesFit, At, Distinct
<1>4. HandFits'
  BY <1>0, <1>1, <1>1b, <1>1d DEF HandFits, ServerAt
<1>5. ASSUME NEW u \in Threads PROVE ThreadFits(u)'
  <2>1. CASE u = t
    BY <1>1a, <1>1b, <1>1c, <1>1d, <2>1 DEF ThreadFits
  <2>2. CASE u # t
    BY <1>0, <1>1, <1>1a, <1>1b, <1>1d, <2>2 DEF ThreadFits, ServerAt
  <2>3. QED
    BY <2>1, <2>2
<1>6. SlotsFit'
  BY <1>0, <1>1, <1>1b, <1>1c, <1>1d DEF SlotsFit
<1>7. ConnsFit'
  <2>1. \A u \in Threads : client'[u].conn = client[u].conn
    BY <1>1d
  <2>2. QED
    BY <1>0, <1>1, <2>1 DEF ConnsFit, Serving, ServerAt
<1>8. CountFits'
  <2>1. Placed' = Placed
    BY <1>1c, <1>1d DEF Placed, Serving, At
  <2>2. QED
    BY <1>0, <1>1, <2>1 DEF CountFits, Counted, ServerAt, Stopping
<1>20. QED
  BY <1>2, <1>3, <1>4, <1>5, <1>6, <1>7, <1>8 DEF PoolInv

LEMMA PoolInvariantStep ==
  ASSUME PoolAssumption, PoolInv, [PoolNext]_windowsVars PROVE PoolInv'
<1>1. CASE UNCHANGED windowsVars
  <2>1. UNCHANGED <<PoolTypes, QueuesFit, HandFits, SlotsFit>>
    BY <1>1 DEF windowsVars, PoolTypes, QueuesFit, HandFits, SlotsFit, Elements, Distinct, At,
                ServerAt, Leaving
  <2>2. UNCHANGED <<ConnsFit, CountFits>> /\ \A t \in Threads : ThreadFits(t)' <=> ThreadFits(t)
    BY <1>1 DEF windowsVars, ConnsFit, CountFits, Counted, Placed, Serving, At, ServerAt,
                ThreadFits, Elements, Resumed, Stopping
  <2>3. QED
    BY <2>1, <2>2 DEF PoolInv
<1>2. CASE ServerStep
  BY <1>2, TurnStep, ResumeStep, WakeupStep, CleanupJoinableStep, JoinStep, MarkStep,
     CleanupPausedStep, MakeStep, ClientsAddStep DEF ServerStep
<1>3. ASSUME NEW t \in Threads, ClientStep(t) PROVE PoolInv'
  BY <1>3, ClientKeeps
<1>4. QED
  BY <1>1, <1>2, <1>3 DEF PoolNext

(* What the inductive invariant says of the pool. *)
LEMMA PoolInvariantSuffices ==
  ASSUME PoolAssumption, PoolInv PROVE WindowsPoolExact
<1>0. /\ PoolTypes /\ QueuesFit /\ HandFits /\ SlotsFit /\ ConnsFit /\ CountFits
      /\ \A u \in Threads : ThreadFits(u)
  BY DEF PoolInv
<1>1. ASSUME NEW i \in DOMAIN (paused \o joinable), NEW j \in DOMAIN (paused \o joinable),
             (paused \o joinable)[i] = (paused \o joinable)[j]
      PROVE  i = j
  <2>1. /\ DOMAIN paused = 1..Len(paused) /\ DOMAIN joinable = 1..Len(joinable)
        /\ Len(paused) \in Nat /\ Len(joinable) \in Nat
        /\ DOMAIN (paused \o joinable) = 1..(Len(paused) + Len(joinable))
        /\ \A k \in 1..(Len(paused) + Len(joinable)) :
             (paused \o joinable)[k] = IF k <= Len(paused) THEN paused[k] ELSE joinable[k - Len(paused)]
    BY <1>0 DEF PoolTypes
  <2>2. /\ \A k \in DOMAIN paused : client[paused[k]].pc = "sem"
        /\ \A k \in DOMAIN joinable : client[joinable[k]].pc = "ended"
    BY <1>0 DEF QueuesFit, Elements, At
  <2>3. Distinct(paused) /\ Distinct(joinable)
    BY <1>0 DEF QueuesFit
  <2>4. CASE i <= Len(paused) /\ j <= Len(paused)
    BY <1>1, <2>1, <2>3, <2>4 DEF Distinct
  <2>5. CASE ~(i <= Len(paused)) /\ ~(j <= Len(paused))
    <3>1. /\ i - Len(paused) \in DOMAIN joinable /\ j - Len(paused) \in DOMAIN joinable
          /\ joinable[i - Len(paused)] = joinable[j - Len(paused)]
      BY <1>1, <2>1, <2>5
    <3>2. i - Len(paused) = j - Len(paused)
      BY <2>3, <3>1 DEF Distinct
    <3>3. QED
      BY <2>1, <3>2
  <2>6. CASE i <= Len(paused) /\ ~(j <= Len(paused))
    <3>1. /\ i \in DOMAIN paused /\ j - Len(paused) \in DOMAIN joinable
          /\ paused[i] = joinable[j - Len(paused)]
      BY <1>1, <2>1, <2>6
    <3>2. QED
      BY <2>2, <3>1
  <2>7. CASE ~(i <= Len(paused)) /\ j <= Len(paused)
    <3>1. /\ j \in DOMAIN paused /\ i - Len(paused) \in DOMAIN joinable
          /\ paused[j] = joinable[i - Len(paused)]
      BY <1>1, <2>1, <2>7
    <3>2. QED
      BY <2>2, <3>1
  <2>8. QED
    BY <2>4, <2>5, <2>6, <2>7
<1>2. ASSUME NEW i \in DOMAIN paused
      PROVE  LET c == client[paused[i]]
             IN  c.pc = "sem" /\ c.conn = NoConn /\ c.sem = 0 /\ c.left > 0
  <2>1. paused[i] \in Elements(paused) /\ paused[i] \in Threads
    BY <1>0 DEF Elements, PoolTypes
  <2>2. client[paused[i]].pc = "sem"
    BY <1>0, <2>1 DEF QueuesFit, At
  <2>3. QED
    BY <1>0, <2>1, <2>2 DEF ThreadFits
<1>3. ASSUME NEW t \in Threads
      PROVE  Cardinality({slot \in Slots : clients[slot] = t})
             = IF client[t].pc \in {"unmade", "made"} \/ Leaving(t) THEN 0 ELSE 1
  <2>1. CASE client[t].pc \in {"unmade", "made"} \/ Leaving(t)
    <3>1. {slot \in Slots : clients[slot] = t} = {}
      BY <1>0, <2>1 DEF SlotsFit
    <3>2. QED
      BY <2>1, <3>1, FS_EmptySet
  <2>2. CASE ~(client[t].pc \in {"unmade", "made"} \/ Leaving(t))
    <3>1. PICK s \in Slots : clients[s] = t
      BY <1>0, <2>2 DEF SlotsFit
    <3>2. {slot \in Slots : clients[slot] = t} = {s}
      BY <1>0, <3>1 DEF SlotsFit, PoolAssumption
    <3>3. QED
      BY <2>2, <3>2, FS_Singleton
  <2>3. QED
    BY <2>1, <2>2
<1>4. QED
  BY <1>0, <1>1, <1>2, <1>3 DEF WindowsPoolExact, CountFits, ConnsFit

\* Threads and connections are accounted for in every state of the pool, whatever its
\* limits, while the accepting thread, the client threads and the shutdown move them about
\* (NetServer_windows.cpp: run(), clientDeactivate(), cleanupJoinable(), clientDisconnectAll()).
THEOREM WindowsPoolIsExact == ASSUME PoolAssumption PROVE PoolSpec => []WindowsPoolExact
<1>1. PoolInit => PoolInv
  BY PoolInvariantInit
<1>2. PoolInv /\ [PoolNext]_windowsVars => PoolInv'
  BY PoolInvariantStep
<1>3. PoolInv => WindowsPoolExact
  BY PoolInvariantSuffices
<1>4. QED
  BY <1>1, <1>2, <1>3, PTL DEF PoolSpec

===============================================================================
