------------------------------- MODULE NetServer -------------------------------
(***************************************************************************)
(* utl::NetServer and utl::NetServerClient on Linux (ucm/NetServer_linux.h,*)
(* ucm/NetServer_linux.cpp): one server thread accepts connections and     *)
(* hands each to a client thread; a client thread that has finished with a *)
(* connection tells the server so by writing its own address to a pipe,    *)
(* and the server then gives it another connection, parks it for later,    *)
(* or joins it.  clientDisconnectAll() ends all of this.                   *)
(*                                                                         *)
(* The server thread and the client threads share, without a lock, the     *)
(* _exit flag and the _numClients counter of each NetServerClient, its     *)
(* semaphore, and the pipe: each access to those is a step of its own.     *)
(* What only the server thread touches (_queuedConnections,                *)
(* _queuedThreads, _clientsCount, _clients) changes inside its steps.      *)
(***************************************************************************)
EXTENDS Integers, Sequences, FiniteSets, Functions, TLC

CONSTANTS
  Threads,           \* NetServerClient objects, each used for one "new"
  Conns,             \* connections that peers may make, each at most once
  NoThread, NoConn,  \* null pointers
  ClientsMaxes,      \* the values that init() may give _clientsMax,
  PausedMaxes,       \* ... and _pausedMax
  ClientsPerThread,  \* _clientsPerThread
  MayCancel          \* does the application call NetServer::cancel()?

ASSUME NetServerAssumption ==
  /\ IsFiniteSet(Threads) /\ NoThread \notin Threads
  /\ IsFiniteSet(Conns) /\ NoConn \notin Conns
  /\ Cardinality(Conns) <= Cardinality(Threads)   \* "new" never runs out
  /\ ClientsMaxes \subseteq Nat \ {0} /\ ClientsMaxes # {}
  \* arithmetic, which the provers do not know of ^
  /\ \A m \in ClientsMaxes : m <= 2^m /\ \A k \in 0..m : 2^k \in Nat
  /\ PausedMaxes \subseteq Nat /\ PausedMaxes # {}
  /\ ClientsPerThread \in Nat \ {0}
  /\ MayCancel \in BOOLEAN

\* more arithmetic: 9 is odd, so its multiples meet every slot
ASSUME ProbesMeetAll ==
  \A m \in ClientsMaxes : \A k \in 0..m : \A i, j \in 0..(2 * 2^k - 1) :
    \E n \in 0..(2 * 2^k - 1) : (i + 9 * n) % (2 * 2^k) = j

SizeMax == -1      \* size_t_max: "paused client is now becoming joinable"

VARIABLES
  \* the server thread
  sPc,             \* where it is
  cur,             \* the thread whose message is being handled, or null
  curConn,         \* the connection a new thread is being made for
  markAt,          \* position of clientDisconnectAll's first loop
  draining,        \* has clientDisconnectAll emptied the epoll set?
  runner,          \* who executes: the server "thread", or its "joiner"
  clientsCount,    \* _clientsCount
  clients,         \* _clients: slot -> thread
  clientsIndex,    \* _clientsIndex (only its value & _clientsMask matters)
  queuedConns,     \* _queuedConnections
  queuedThreads,   \* _queuedThreads: the parked threads
  \* shared with the application
  stop,            \* what exiting() answers
  cancelled,       \* flg_cancel of the server's Thread
  clientsMax, pausedMax,  \* _clientsMax, _pausedMax: nothing changes them after init()
  \* shared between the server and the client threads
  pipe,            \* addresses written and not yet read
  tPc,             \* where each client thread is
  numClients,      \* NetServerClient::_numClients
  exitFlag,        \* NetServerClient::_exit
  sem,             \* NetServerClient::_sem
  socket,          \* NetServerClient::_socket
  \* the peers
  conn             \* what has become of each connection

serverVars == <<sPc, cur, curConn, markAt, draining, runner>>
tableVars  == <<clientsCount, clients, clientsIndex, queuedConns, queuedThreads>>
appVars    == <<stop, cancelled, clientsMax, pausedMax>>
threadVars == <<tPc, numClients, exitFlag, sem, socket>>
vars == <<serverVars, tableVars, appVars, pipe, threadVars, conn>>

-------------------------------------------------------------------------------

ServerPcs == {"loop", "poll", "dispatch", "join", "add", "mark", "drain",
              "ended", "deleted"}
ThreadPcs == {"unborn", "sem", "check", "while", "listen", "deact", "pause",
              "write", "returning", "ended", "deleted"}

(* _clientsSize: twice the least power of two that is >= maxClients *)
ClientsSize ==
  2 * (CHOOSE p \in {2^k : k \in 0..clientsMax} :
         /\ p >= clientsMax
         /\ \A q \in {2^k : k \in 0..clientsMax} : q >= clientsMax => p <= q)

Slots == 0..(ClientsSize - 1)

TypeOK ==
  /\ sPc \in ServerPcs
  /\ cur \in Threads \union {NoThread}
  /\ curConn \in Conns \union {NoConn}
  /\ markAt \in 0..ClientsSize
  /\ draining \in BOOLEAN /\ stop \in BOOLEAN /\ cancelled \in BOOLEAN
  /\ clientsMax \in ClientsMaxes /\ pausedMax \in PausedMaxes
  /\ runner \in {"thread", "joiner"}
  /\ clientsCount \in Nat
  /\ clients \in [Slots -> Threads \union {NoThread}]
  /\ clientsIndex \in Slots
  /\ queuedConns \in Seq(Conns)
  /\ queuedThreads \in Seq(Threads)
  /\ pipe \in Seq(Threads)
  /\ tPc \in [Threads -> ThreadPcs]
  /\ numClients \in [Threads -> {SizeMax} \union 0..ClientsPerThread]
  /\ exitFlag \in [Threads -> BOOLEAN]
  /\ sem \in [Threads -> Nat]
  /\ socket \in [Threads -> Conns \union {NoConn}]
  /\ conn \in [Conns -> {"idle", "pending", "queued", "open", "closed", "dropped"}]

Init ==
  /\ clientsMax \in ClientsMaxes /\ pausedMax \in PausedMaxes
  /\ sPc = "loop" /\ cur = NoThread /\ curConn = NoConn /\ markAt = 0
  /\ draining = FALSE /\ runner = "thread"
  /\ clientsCount = 0
  /\ clients = [i \in Slots |-> NoThread]
  /\ clientsIndex = 0
  /\ queuedConns = <<>> /\ queuedThreads = <<>>
  /\ stop = FALSE /\ cancelled = FALSE
  /\ pipe = <<>>
  /\ tPc = [t \in Threads |-> "unborn"]
  /\ numClients = [t \in Threads |-> 0]
  /\ exitFlag = [t \in Threads |-> FALSE]
  /\ sem = [t \in Threads |-> 0]
  /\ socket = [t \in Threads |-> NoConn]
  /\ conn = [c \in Conns |-> "idle"]

-------------------------------------------------------------------------------
(* The peers and the application *)

Connect(c) ==
  /\ conn[c] = "idle"
  /\ conn' = [conn EXCEPT ![c] = "pending"]
  /\ UNCHANGED <<serverVars, tableVars, appVars, pipe, threadVars>>

\* exiting() starts to answer true
Stop ==
  /\ ~stop /\ stop' = TRUE
  /\ UNCHANGED <<serverVars, tableVars, cancelled, clientsMax, pausedMax, pipe, threadVars, conn>>

Cancel ==
  /\ MayCancel
  /\ ~cancelled /\ cancelled' = TRUE
  /\ UNCHANGED <<serverVars, tableVars, stop, clientsMax, pausedMax, pipe, threadVars, conn>>

-------------------------------------------------------------------------------
(* The server thread: run() and listen() *)

AfterEvent == IF draining THEN "drain" ELSE "loop"

\* run()'s loop condition, and the testCancel() that listen() starts with,
\* whose exception run() catches
ServerLoop ==
  /\ sPc = "loop"
  /\ IF stop \/ cancelled
       THEN sPc' = "mark" /\ markAt' = 0
       ELSE sPc' = "poll" /\ UNCHANGED markAt
  /\ UNCHANGED <<cur, curConn, draining, runner, tableVars, appVars, pipe, threadVars, conn>>

Pending == {c \in Conns : conn[c] = "pending"}

\* epoll_wait gives up after 200 ms
PollTimeout ==
  /\ sPc = "poll"
  /\ pipe = <<>>
  /\ draining \/ Pending = {}
  /\ sPc' = AfterEvent
  /\ UNCHANGED <<cur, curConn, markAt, draining, runner, tableVars, appVars, pipe, threadVars, conn>>

\* NetServerClient::wakeup()
\* mutant: the wakeup is lost
WakeupLost(t) == UNCHANGED sem

Wakeup(t) == sem' = [sem EXCEPT ![t] = @ + 1]

\* clientActivate() ends with ++_clientsCount
\* mutant: it does not
CountClientForgets == UNCHANGED clientsCount

CountClient == clientsCount' = clientsCount + 1

(* clientActivate() with a parked thread: resume(), onClientConnect(),     *)
(* wakeup(); with a null thread clientMake() first, at "add"               *)
Resume(t, c) ==
  /\ socket' = [socket EXCEPT ![t] = c]
  /\ Wakeup(t)
  /\ CountClient
  /\ sPc' = AfterEvent
  /\ UNCHANGED <<curConn, tPc, numClients, exitFlag>>

MakeThreadFor(c) ==
  /\ curConn' = c
  /\ sPc' = "add"
  /\ UNCHANGED <<clientsCount, threadVars>>

\* the message of a retired thread frees no place: it has freed it before
\* mutant: every message frees a place
FreesPlaceAlways(t) == TRUE

FreesPlace(t) == numClients[t] # SizeMax

\* mutant: the slot of a thread to be joined stays taken
SlotsWithoutNobody(t) == clients

SlotsWithout(t) == [i \in Slots |-> IF clients[i] = t THEN NoThread ELSE clients[i]]

(* handlePipeEvent(): take one address from the pipe *)
PipeRead ==
  LET t == Head(pipe)
  IN  /\ sPc = "poll" /\ pipe # <<>>
      /\ pipe' = Tail(pipe)
      /\ cur' = t
      /\ clientsCount' = clientsCount - (IF FreesPlace(t) THEN 1 ELSE 0)
      /\ numClients' = [numClients EXCEPT ![t] = IF @ = SizeMax THEN 0 ELSE @]
      /\ IF numClients'[t] = 0
           THEN clients' = SlotsWithout(t) /\ sPc' = "join"
           ELSE sPc' = "dispatch" /\ UNCHANGED clients
      /\ UNCHANGED <<curConn, markAt, draining, runner, clientsIndex, queuedConns,
                     queuedThreads, appVars, tPc, exitFlag, sem, socket, conn>>

\* mutant: "thread = nullptr" is missing after the join
JoinThreadKeepsPointer ==
  /\ sPc = "join" /\ tPc[cur] = "ended"
  /\ tPc' = [tPc EXCEPT ![cur] = "deleted"]
  /\ socket' = [socket EXCEPT ![cur] = NoConn]
  /\ conn' = [c \in Conns |-> IF c = socket[cur] THEN "dropped" ELSE conn[c]]
  /\ sPc' = "dispatch"
  /\ UNCHANGED <<cur, curConn, markAt, draining, runner, tableVars, appVars, pipe,
                 numClients, exitFlag, sem>>

\* join() waits for the thread to return from run(), and deletes it with
\* the socket it may still have
JoinThread ==
  /\ sPc = "join" /\ tPc[cur] = "ended"
  /\ tPc' = [tPc EXCEPT ![cur] = "deleted"]
  /\ socket' = [socket EXCEPT ![cur] = NoConn]
  /\ conn' = [c \in Conns |-> IF c = socket[cur] THEN "dropped" ELSE conn[c]]
  /\ cur' = NoThread
  /\ sPc' = "dispatch"
  /\ UNCHANGED <<curConn, markAt, draining, runner, tableVars, appVars, pipe,
                 numClients, exitFlag, sem>>

\* mutant: the connection is served and stays in the queue
DispatchQueuedPeeks ==
  LET c == Head(queuedConns)
  IN  /\ sPc = "dispatch" /\ queuedConns # <<>>
      /\ conn' = [conn EXCEPT ![c] = "open"]
      /\ cur # NoThread /\ cur' = NoThread
      /\ Resume(cur, c)
      /\ UNCHANGED <<queuedThreads, queuedConns, markAt, draining, runner, clients,
                     clientsIndex, appVars, pipe>>

(* handlePipeEvent(): the rest of the handling of one address *)
DispatchQueued ==
  LET c == Head(queuedConns)
  IN  /\ sPc = "dispatch" /\ queuedConns # <<>>
      /\ queuedConns' = Tail(queuedConns)
      /\ conn' = [conn EXCEPT ![c] = "open"]
      /\ cur' = NoThread
      /\ \/ /\ cur # NoThread
            /\ Resume(cur, c)
            /\ UNCHANGED queuedThreads
         \/ /\ cur = NoThread /\ queuedThreads # <<>>
            /\ Resume(Head(queuedThreads), c)
            /\ queuedThreads' = Tail(queuedThreads)
         \/ /\ cur = NoThread /\ queuedThreads = <<>>
            /\ MakeThreadFor(c)
            /\ UNCHANGED queuedThreads
      /\ UNCHANGED <<markAt, draining, runner, clients, clientsIndex, appVars, pipe>>

DispatchPark ==
  /\ sPc = "dispatch" /\ queuedConns = <<>>
  /\ cur # NoThread /\ Len(queuedThreads) < pausedMax
  /\ queuedThreads' = Append(queuedThreads, cur)
  /\ cur' = NoThread /\ sPc' = AfterEvent
  /\ UNCHANGED <<curConn, markAt, draining, runner, clientsCount, clients, clientsIndex,
                 queuedConns, appVars, pipe, threadVars, conn>>

DispatchRetire ==
  /\ sPc = "dispatch" /\ queuedConns = <<>>
  /\ cur # NoThread /\ Len(queuedThreads) >= pausedMax
  /\ exitFlag' = [exitFlag EXCEPT ![cur] = TRUE]
  /\ Wakeup(cur)
  /\ cur' = NoThread /\ sPc' = AfterEvent
  /\ UNCHANGED <<curConn, markAt, draining, runner, tableVars, appVars, pipe,
                 tPc, numClients, socket, conn>>

\* mutant: only a thread that comes back serves the queue, a joined one not
DispatchNothingAnyQueue ==
  /\ sPc = "dispatch" /\ cur = NoThread
  /\ sPc' = AfterEvent
  /\ UNCHANGED <<cur, curConn, markAt, draining, runner, tableVars, appVars, pipe,
                 threadVars, conn>>

DispatchNothing ==
  /\ sPc = "dispatch" /\ queuedConns = <<>> /\ cur = NoThread
  /\ sPc' = AfterEvent
  /\ UNCHANGED <<cur, curConn, markAt, draining, runner, tableVars, appVars, pipe,
                 threadVars, conn>>

-------------------------------------------------------------------------------
(* handleServerSocketEvent() *)

\* "too many clients already running?"
\* mutant: off by one, the last place is never given
FullEarly == clientsCount + 1 >= clientsMax

Full == clientsCount >= clientsMax

AcceptFails(c) ==
  /\ sPc = "poll" /\ ~draining /\ c \in Pending
  /\ conn' = [conn EXCEPT ![c] = "closed"]
  /\ sPc' = AfterEvent
  /\ UNCHANGED <<cur, curConn, markAt, draining, runner, tableVars, appVars, pipe, threadVars>>

AcceptQueue(c) ==
  /\ sPc = "poll" /\ ~draining /\ c \in Pending
  /\ Full
  /\ queuedConns' = Append(queuedConns, c)
  /\ conn' = [conn EXCEPT ![c] = "queued"]
  /\ sPc' = AfterEvent
  /\ UNCHANGED <<cur, curConn, markAt, draining, runner, clientsCount, clients,
                 clientsIndex, queuedThreads, appVars, pipe, threadVars>>

AcceptServe(c) ==
  /\ sPc = "poll" /\ ~draining /\ c \in Pending
  /\ ~Full
  /\ conn' = [conn EXCEPT ![c] = "open"]
  /\ \/ /\ queuedThreads # <<>>
        /\ Resume(Head(queuedThreads), c)
        /\ queuedThreads' = Tail(queuedThreads)
     \/ /\ queuedThreads = <<>>
        /\ MakeThreadFor(c)
        /\ UNCHANGED queuedThreads
  /\ UNCHANGED <<cur, markAt, draining, runner, clients, clientsIndex, queuedConns,
                 appVars, pipe>>

-------------------------------------------------------------------------------
(* clientActivate() with a null thread: clientMake(), setNumClients(),     *)
(* clientsAdd(), onClientConnect(), start().  clientsAdd() probes every    *)
(* ninth slot until it finds a free one: the stride is odd and the size a  *)
(* power of two, so it meets every slot; with none free it spins for ever. *)

Probe(k) == (clientsIndex + 9 * k) % ClientsSize

FreeProbes == {k \in 0..(ClientsSize - 1) : clients[Probe(k)] = NoThread}

\* mutant: the first slot probed is taken, free or not
FirstFreeUnchecked == 0

FirstFree == CHOOSE k \in FreeProbes : \A j \in FreeProbes : k <= j

ClientsAdd(t) ==
  /\ sPc = "add" /\ tPc[t] = "unborn"
  /\ FreeProbes # {}
  /\ clients' = [clients EXCEPT ![Probe(FirstFree)] = t]
  /\ clientsIndex' = Probe(FirstFree + 1)
  /\ tPc' = [tPc EXCEPT ![t] = "sem"]
  /\ numClients' = [numClients EXCEPT ![t] = ClientsPerThread]
  /\ sem' = [sem EXCEPT ![t] = 1]
  /\ socket' = [socket EXCEPT ![t] = curConn]
  /\ CountClient
  /\ curConn' = NoConn /\ sPc' = AfterEvent
  /\ UNCHANGED <<cur, markAt, draining, runner, queuedConns, queuedThreads,
                 appVars, pipe, exitFlag, conn>>

ClientsAddSpins ==
  /\ sPc = "add" /\ FreeProbes = {}
  /\ clientsIndex' = Probe(1)
  /\ UNCHANGED <<serverVars, clientsCount, clients, queuedConns, queuedThreads,
                 appVars, pipe, threadVars, conn>>

-------------------------------------------------------------------------------
(* clientDisconnectAll(), run by the server thread when run() leaves its   *)
(* loop and again by whoever deletes the server                            *)

\* mutant: the loop starts at the second slot
MarkedNotFirst(t) == t = clients[markAt] /\ markAt > 0

Marked(t) == t = clients[markAt]

\* tell one client thread to exit
Mark ==
  /\ sPc = "mark" /\ markAt < ClientsSize
  /\ exitFlag' = [t \in Threads |-> exitFlag[t] \/ Marked(t)]
  /\ markAt' = markAt + 1
  /\ UNCHANGED <<sPc, cur, curConn, draining, runner, tableVars, appVars, pipe,
                 tPc, numClients, sem, socket, conn>>

WakeParked(t) ==
  IF \E i \in DOMAIN queuedThreads : queuedThreads[i] = t THEN sem[t] + 1 ELSE sem[t]

\* close the queued connections, wake the parked threads, and make a new
\* epoll set that holds the pipe only
Sweep ==
  /\ sPc = "mark" /\ markAt = ClientsSize
  /\ conn' = [c \in Conns |-> IF conn[c] = "queued" THEN "dropped" ELSE conn[c]]
  /\ queuedConns' = <<>>
  /\ sem' = [t \in Threads |-> WakeParked(t)]
  /\ queuedThreads' = <<>>
  /\ draining' = TRUE
  /\ sPc' = "drain"
  /\ UNCHANGED <<cur, curConn, markAt, runner, clientsCount, clients, clientsIndex,
                 appVars, pipe, tPc, numClients, exitFlag, socket>>

\* mutant: the loop over _clients begins behind the first slot
AnyClientButFirst == \E i \in Slots \ {0} : clients[i] # NoThread

AnyClient == \E i \in Slots : clients[i] # NoThread

\* "process events on the pipe until no client threads exist": listen()
\* begins with testCancel(), which throws when the thread that executes it
\* was cancelled, out of clientDisconnectAll() and of run()
Drain ==
  /\ sPc = "drain"
  /\ sPc' = IF ~AnyClient THEN (IF runner = "thread" THEN "ended" ELSE "deleted")
            ELSE IF cancelled /\ runner = "thread" THEN "ended"
            ELSE "poll"
  /\ UNCHANGED <<cur, curConn, markAt, draining, runner, tableVars, appVars, pipe,
                 threadVars, conn>>

\* the application joins the server: join() deletes it, and deInit() calls
\* clientDisconnectAll() in the application's thread
ServerJoin ==
  /\ sPc = "ended"
  /\ runner' = "joiner" /\ markAt' = 0 /\ sPc' = "mark"
  /\ UNCHANGED <<cur, curConn, draining, tableVars, appVars, pipe, threadVars, conn>>

-------------------------------------------------------------------------------
(* A client thread: NetServerClient::run() and clientDeactivate()          *)

ThreadGoto(t, from, to) == tPc[t] = from /\ tPc' = [tPc EXCEPT ![t] = to]

SemP(t) ==
  /\ ThreadGoto(t, "sem", "check")
  /\ sem[t] > 0
  /\ sem' = [sem EXCEPT ![t] = @ - 1]
  /\ UNCHANGED <<serverVars, tableVars, appVars, pipe, numClients, exitFlag, socket, conn>>

\* "in case we got woken up by clientDisconnectAll()"
CheckExit(t) ==
  /\ ThreadGoto(t, "check", "while")
  /\ numClients' = [numClients EXCEPT ![t] = IF exitFlag[t] THEN SizeMax ELSE @]
  /\ UNCHANGED <<serverVars, tableVars, appVars, pipe, exitFlag, sem, socket, conn>>

WhileExit(t) ==
  /\ ThreadGoto(t, "while", IF exitFlag[t] THEN "deact" ELSE "listen")
  /\ UNCHANGED <<serverVars, tableVars, appVars, pipe, numClients, exitFlag, sem, socket, conn>>

\* a command was handled or nothing happened for 100 ms; the handler may
\* call clientDisconnect() on its own client (FastCGI without keep-alive)
ListenOk(t) ==
  /\ ThreadGoto(t, "listen", "while")
  /\ \E e \in {exitFlag[t], TRUE} : exitFlag' = [exitFlag EXCEPT ![t] = e]
  /\ UNCHANGED <<serverVars, tableVars, appVars, pipe, numClients, sem, socket, conn>>

\* the peer is gone or sent nonsense: an exception leaves the loop, on its
\* way out through a handler that may call clientDisconnect()
ListenThrows(t) ==
  /\ ThreadGoto(t, "listen", "deact")
  /\ \E e \in {exitFlag[t], TRUE} : exitFlag' = [exitFlag EXCEPT ![t] = e]
  /\ UNCHANGED <<serverVars, tableVars, appVars, pipe, numClients, sem, socket, conn>>

\* clientDeactivate() up to onClientDisconnect()
Deactivate(t) ==
  /\ IF numClients[t] = SizeMax
       THEN ThreadGoto(t, "deact", "write") /\ UNCHANGED numClients
       ELSE /\ ThreadGoto(t, "deact", "pause")
            /\ numClients' = [numClients EXCEPT ![t] = @ - 1]
  /\ UNCHANGED <<serverVars, tableVars, appVars, pipe, exitFlag, sem, socket, conn>>

\* mutant: _exit survives the pause
ExitAfterPauseKept(t) == exitFlag[t]

ExitAfterPause(t) == FALSE

Pause(t) ==
  /\ ThreadGoto(t, "pause", "write")
  /\ conn' = [conn EXCEPT ![socket[t]] = "closed"]
  /\ socket' = [socket EXCEPT ![t] = NoConn]
  /\ exitFlag' = [exitFlag EXCEPT ![t] = ExitAfterPause(t)]
  /\ UNCHANGED <<serverVars, tableVars, appVars, pipe, numClients, sem>>

PipeWrite(t) ==
  /\ ThreadGoto(t, "write", IF numClients[t] \in {0, SizeMax} THEN "returning" ELSE "sem")
  /\ pipe' = Append(pipe, t)
  /\ UNCHANGED <<serverVars, tableVars, appVars, numClients, exitFlag, sem, socket, conn>>

Return(t) ==
  /\ ThreadGoto(t, "returning", "ended")
  /\ UNCHANGED <<serverVars, tableVars, appVars, pipe, numClients, exitFlag, sem, socket, conn>>

-------------------------------------------------------------------------------

Environment == (\E c \in Conns : Connect(c)) \/ Stop \/ Cancel

Accept == \E c \in Conns : AcceptFails(c) \/ AcceptQueue(c) \/ AcceptServe(c)

ServerStep ==
  \/ ServerLoop \/ PollTimeout \/ PipeRead \/ JoinThread
  \/ DispatchQueued \/ DispatchPark \/ DispatchRetire \/ DispatchNothing
  \/ Accept
  \/ \E t \in Threads : ClientsAdd(t)
  \/ ClientsAddSpins
  \/ Mark \/ Sweep \/ Drain

Listen(t) == ListenOk(t) \/ ListenThrows(t)

ThreadStep(t) ==
  \/ SemP(t) \/ CheckExit(t) \/ WhileExit(t) \/ Listen(t)
  \/ Deactivate(t) \/ Pause(t) \/ PipeWrite(t) \/ Return(t)

\* nothing is left to do but for the peers
Gone == sPc = "deleted" /\ UNCHANGED vars

Next ==
  \/ Environment \/ ServerStep \/ ServerJoin
  \/ \E t \in Threads : ThreadStep(t)
  \/ Gone

Spec == Init /\ [][Next]_vars

(* The scheduler runs the server thread and every client thread, select()  *)
(* returns after 100 ms at the latest, and an application that stops its   *)
(* server joins it.  Nothing makes a peer connect or leave.                *)
Fairness ==
  /\ WF_vars(ServerStep)
  /\ WF_vars(ServerJoin)
  /\ \A t \in Threads : WF_vars(ThreadStep(t))

FairSpec == Spec /\ Fairness

-------------------------------------------------------------------------------
(* Properties *)

Alive == {t \in Threads : tPc[t] \notin {"unborn", "deleted"}}

Count(t, seq) == Cardinality({i \in DOMAIN seq : seq[i] = t})

InHand(t) == IF cur = t THEN 1 ELSE 0

(* A thread that waits on its semaphore is in exactly one place from where *)
(* it can be woken: its wakeup was already given, or its address is in the *)
(* pipe, or among the parked threads, or in the server's hand.  A thread   *)
(* in two places would be given two connections, a deleted one would be    *)
(* written to.                                                             *)
OneHandle ==
  \A t \in Threads :
    LET places == Count(t, pipe) + Count(t, queuedThreads) + InHand(t)
    IN  CASE t \notin Alive                     -> places = 0
          [] tPc[t] = "sem"                     -> places + sem[t] = 1
          [] tPc[t] \in {"returning", "ended"}  -> places = 1 /\ sem[t] = 0
          [] OTHER                              -> places = 0 /\ sem[t] = 0

(* _clients holds every thread that exists, once, from clientsAdd() until  *)
(* the server has taken its last message: this is what makes               *)
(* clientDisconnectAll() reach all of them, and wait for all of them.      *)
SlotsExact ==
  /\ \A i, j \in Slots : clients[i] = clients[j] => i = j \/ clients[i] = NoThread
  /\ {clients[i] : i \in Slots} \ {NoThread} =
       Alive \ (IF sPc = "join" THEN {cur} ELSE {})

\* the threads whose connection _clientsCount counts
Busy == {t \in Alive :
           \/ socket[t] # NoConn
           \/ numClients[t] # SizeMax /\ (tPc[t] = "write" \/ Count(t, pipe) > 0)}

(* _clientsCount, which admits new clients, is the number of threads that  *)
(* serve a connection or have reported its end in a message not yet read:  *)
(* retiring and parking a thread neither leaks a place nor frees it twice. *)
CountExact == sPc \in {"loop", "poll"} /\ ~draining => clientsCount = Cardinality(Busy)

(* Every accepted connection is in one place: a queued one once in         *)
(* _queuedConnections, an open one in the socket of one thread (or about   *)
(* to be).                                                                 *)
ConnectionKept ==
  \A c \in Conns :
    /\ Cardinality({i \in DOMAIN queuedConns : queuedConns[i] = c}) =
         (IF conn[c] = "queued" THEN 1 ELSE 0)
    /\ Cardinality({t \in Threads : socket[t] = c}) + (IF curConn = c THEN 1 ELSE 0) =
         (IF conn[c] = "open" THEN 1 ELSE 0)

(* A connection is closed without having been served only because the      *)
(* server is being stopped: a wakeup never makes a thread quit with a      *)
(* connection in its hands.                                                *)
DroppedOnlyAtShutdown ==
  [][\A c \in Conns : conn[c] # "dropped" /\ conn'[c] = "dropped" => stop \/ cancelled]_vars

(* Connections wait in the queue only while maxClients are being served.   *)
NoIdleQueue ==
  sPc \in {"loop", "poll"} /\ ~draining /\ queuedConns # <<>> => clientsCount >= clientsMax

(* clientsAdd() always has a free slot to find, or it would spin for ever  *)
(* in the only thread that can free one.                                   *)
SlotFree == sPc = "add" => FreeProbes # {}

(* run(): "get rid of any connected clients", and deInit(): when the       *)
(* server's thread has ended no client thread is left, and no connection   *)
(* that it had accepted; but for a thread that was cancelled, which leaves *)
(* clientDisconnectAll() by testCancel()'s exception.  Whoever joins it    *)
(* gets rid of the clients then, before the server is deleted.             *)
EndedAlone ==
  sPc = "deleted" \/ (sPc = "ended" /\ ~cancelled) =>
    Alive = {} /\ \A c \in Conns : conn[c] \notin {"queued", "open"}

(* A server that is told to stop, or cancelled, and joined, goes away: its *)
(* loop over the pipe ends.                                                *)
Shutdown == stop \/ cancelled ~> sPc = "deleted"

\* no peer stays connected for ever
PeersLeave == \A t \in Threads : []<>(tPc[t] \notin {"while", "listen"})

(* If peers do not stay for ever, a queued connection gets its turn.       *)
QueueServed == PeersLeave => \A c \in Conns : conn[c] = "queued" ~> conn[c] # "queued"

-------------------------------------------------------------------------------
(* The inductive invariant, which NetServerProofs proves *)

\* clientDisconnectAll() has not begun
Quiet == ~draining /\ sPc # "mark"

StopKnown ==
  /\ ~Quiet => stop \/ cancelled
  /\ sPc \in {"drain", "ended", "deleted"} => draining

(* OneHandle, place by place *)
Held(t) == t \in Range(pipe) \/ t \in Range(queuedThreads) \/ cur = t

Handles ==
  /\ IsInjective(pipe) /\ IsInjective(queuedThreads)
  /\ \A t \in Threads :
       /\ sem[t] \in {0, 1}
       /\ Held(t) => sem[t] = 0 /\ tPc[t] \in {"sem", "returning", "ended"}
       /\ t \in Range(pipe) => t \notin Range(queuedThreads) /\ cur # t
       /\ t \in Range(queuedThreads) => cur # t /\ tPc[t] = "sem"
       /\ tPc[t] = "sem" => Held(t) \/ sem[t] = 1
       /\ tPc[t] # "sem" => sem[t] = 0
       /\ tPc[t] \in {"returning", "ended"} => Held(t)

(* what the server thread has in its hands *)
Hand ==
  /\ sPc = "join" => cur # NoThread
  /\ sPc \notin {"join", "dispatch"} => cur = NoThread
  /\ cur # NoThread => IF sPc = "join" THEN tPc[cur] \in {"returning", "ended"}
                                       ELSE tPc[cur] = "sem"
  /\ curConn # NoConn <=> sPc = "add"

(* A client thread gets as far as its socket and its counter allow: without *)
(* a connection it was told to exit, and knows it before it would listen.   *)
Errand(t) ==
  /\ tPc[t] \in {"unborn", "deleted"} => socket[t] = NoConn
  /\ tPc[t] = "unborn" => ~exitFlag[t]
  /\ tPc[t] = "sem" => IF sem[t] = 0 THEN socket[t] = NoConn
                                     ELSE socket[t] # NoConn \/ exitFlag[t]
  /\ tPc[t] = "check" => socket[t] # NoConn \/ exitFlag[t]
  /\ tPc[t] \in {"sem", "check", "listen"} => numClients[t] > 0
  /\ tPc[t] \in {"while", "deact"} =>
       IF numClients[t] = SizeMax THEN exitFlag[t] ELSE numClients[t] > 0 /\ socket[t] # NoConn
  /\ tPc[t] \in {"listen", "pause"} => socket[t] # NoConn /\ numClients[t] # SizeMax
  /\ tPc[t] = "write" => numClients[t] = SizeMax \/ socket[t] = NoConn
  /\ tPc[t] \in {"returning", "ended"} => numClients[t] \in {0, SizeMax}

(* Until the server is stopped a thread is told to exit only by itself,    *)
(* which pause() forgets, or when it is retired, without a connection.     *)
QuietErrand(t) ==
  /\ exitFlag[t] /\ tPc[t] \in {"sem", "check"} => socket[t] = NoConn
  /\ numClients[t] = SizeMax => socket[t] = NoConn
  /\ tPc[t] \in {"write", "returning", "ended"} => socket[t] = NoConn
  /\ tPc[t] = "sem" /\ sem[t] = 0 => ~exitFlag[t]
  /\ tPc[t] = "write" /\ numClients[t] # SizeMax => ~exitFlag[t]

Errands == \A t \in Threads : Errand(t) /\ (Quiet => QuietErrand(t))

(* the first loop of clientDisconnectAll() reaches the parked threads *)
MarkedParked ==
  sPc = "mark" =>
    \A i \in Slots : i < markAt /\ clients[i] \in Range(queuedThreads) => exitFlag[clients[i]]

(* the threads that will still send a message that frees a place *)
Owing == {t \in Alive :
            /\ numClients[t] # SizeMax
            /\ \/ tPc[t] = "write" \/ t \in Range(pipe)
               \/ socket[t] # NoConn /\ tPc[t] \notin {"returning", "ended"}}

(* After Stop a thread can leave without having freed its place; before it *)
(* none does.                                                              *)
PlacesCounted ==
  /\ Cardinality(Owing) <= clientsCount
  /\ Quiet => Cardinality(Owing) = clientsCount

(* ConnectionKept, place by place *)
ConnsApart ==
  /\ IsInjective(queuedConns)
  /\ \A c \in Conns :
       /\ conn[c] = "queued" <=> c \in Range(queuedConns)
       /\ conn[c] = "open" <=> curConn = c \/ \E t \in Threads : socket[t] = c
       /\ curConn = c => \A t \in Threads : socket[t] # c
       /\ \A t, u \in Threads : socket[t] = c /\ socket[u] = c => t = u

(* a place that is free while connections wait is being given away *)
QueueWaits ==
  Quiet /\ queuedConns # <<>> =>
    clientsCount >= clientsMax - (IF sPc \in {"join", "dispatch", "add"} THEN 1 ELSE 0)

IndInv ==
  /\ TypeOK /\ StopKnown /\ Handles /\ Hand /\ SlotsExact /\ Errands /\ MarkedParked
  /\ PlacesCounted /\ ConnsApart /\ QueueWaits

(* SlotFree holds where the slots are enough: a thread serves one client,  *)
(* which is the default, or all threads that there can be may be parked.   *)
(* Then none is retired while it still has its slot.                       *)
EnoughSlots ==
  ClientsPerThread = 1 \/ \A m \in ClientsMaxes, p \in PausedMaxes : m <= p

Retained(t) ==
  /\ numClients[t] # SizeMax
  /\ exitFlag[t] => tPc[t] \notin {"sem", "check"}
  /\ ClientsPerThread = 1 =>
       /\ Held(t) => tPc[t] # "sem"
       /\ tPc[t] \in {"pause", "write"} => numClients[t] = 0

\* a new thread is made only when there are fewer than clientsMax
ClientAwaited == sPc = "add" \/ (sPc = "dispatch" /\ cur = NoThread)

\* once the shutdown has emptied the queues nothing asks for a thread
Drained == draining => queuedConns = <<>> /\ sPc # "add"

\* what EndedAlone needs besides IndInv
EndInv == Drained /\ EndedAlone

RoomInv ==
  /\ Drained
  /\ Quiet => /\ \A t \in Threads : Retained(t)
              /\ Cardinality(Alive) + (IF ClientAwaited THEN 1 ELSE 0) <= clientsMax

\* every thread object is like the others, and so is every connection
Perms == Permutations(Threads) \union Permutations(Conns)

===============================================================================
