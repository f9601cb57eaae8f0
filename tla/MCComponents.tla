------------------------------ MODULE MCComponents -----------------------------
(***************************************************************************)
(* The small components that the theorems are about, which share nothing,  *)
(* in one model, with the algorithms and the blackjack table: a behaviour  *)
(* is one of the component that the first state chooses, while the others  *)
(* stay in a first state.  s0..s9 are the variables of the algorithms or   *)
(* of the table, in the order of the module.                               *)
(***************************************************************************)
EXTENDS ConcurrentQueue, ConditionVar, DebugAllocator, ObjectRegistry, NetServerWindows,
        Collection, Deque, BufferedStream, TLC

CONSTANT Components   \* those that are looked at

VARIABLES component, s0, s1, s2, s3, s4, s5, s6, s7, s8, s9

threadVars == <<queueVars, mutexVars, allocatorVars, registryVars, windowsVars>>
objectVars == <<ownershipVars, dequeVars, streamVars>>
chosenVars == <<s0, s1, s2, s3, s4, s5, s6, s7, s8, s9>>
componentVars == <<component, threadVars, objectVars, chosenVars>>

ASSUME QueueAssumption /\ MutexAssumption /\ AllocatorAssumption
ASSUME RegistryAssumption /\ PoolAssumption
ASSUME DequeAssumption /\ StreamAssumption

\* seven cards of three kinds, and money for a split or a double
Table == INSTANCE BlackjackTrainer WITH
  Value <- [A |-> 11, T |-> 10, six |-> 6], Ace <- "A",
  Decks <- [A |-> 2, T |-> 2, six |-> 3], Reserve <- 4,
  FirstCash <- 8, Bets <- {2}, MaxHands <- 2,
  shoe <- s0, used <- s1, cash <- s2, prevBet <- s3, stats <- s4, turn <- s5,
  dealt <- s6, bets <- s7, correct <- s8, split <- s9

Alg == INSTANCE Algorithms WITH
  SortKeys <- {1, 2, 3}, MaxSort <- 8, MaxSet <- 4, Orders <- {1, -1}, MergeCutoff <- 2, QuickCutoff <- 2, NineCutoff <- 7,
  lhs <- s0, rhs <- s1

-------------------------------------------------------------------------------

Init ==
  /\ component \in Components
  /\ QueueInit /\ MutexInit /\ AllocatorInit /\ RegistryInit /\ PoolInit
  /\ OwnershipInit /\ DequeInit /\ StreamInit
  \* the addresses are alike, and so are the collections; the flags only vary where they matter
  /\ head = CHOOSE n \in Nodes : TRUE
  /\ isMultiSet[2] => isMultiSet[1]
  /\ component = "owners" \/ \A c \in Collections : ~isOwner[c] /\ ~isMultiSet[c]
  /\ component = "deque" \/ ~multiSet
  /\ IF component = "table" THEN Table!Init
     ELSE /\ IF component = "algorithms" THEN Alg!Inputs ELSE s0 = 0 /\ s1 = 0
          /\ s2 = 0 /\ s3 = 0 /\ s4 = 0 /\ s5 = 0 /\ s6 = 0 /\ s7 = 0 /\ s8 = 0 /\ s9 = 0

KeepThreads == UNCHANGED <<component, objectVars, chosenVars>>
KeepObjects == UNCHANGED <<component, threadVars, chosenVars>>
KeepOwn     == UNCHANGED <<component, threadVars, objectVars>>

QueueStep ==
  /\ component = "queue" /\ QueueNext
  /\ KeepThreads /\ UNCHANGED <<mutexVars, allocatorVars, registryVars, windowsVars>>

ConditionStep ==
  /\ component = "condition" /\ MutexNext
  /\ KeepThreads /\ UNCHANGED <<queueVars, allocatorVars, registryVars, windowsVars>>

AllocatorStep ==
  /\ component = "allocator" /\ AllocatorNext
  /\ KeepThreads /\ UNCHANGED <<queueVars, mutexVars, registryVars, windowsVars>>

RegistryStep ==
  /\ component = "registry" /\ RegistryNext
  /\ KeepThreads /\ UNCHANGED <<queueVars, mutexVars, allocatorVars, windowsVars>>

WindowsStep ==
  /\ component = "windows" /\ PoolNext
  /\ KeepThreads /\ UNCHANGED <<queueVars, mutexVars, allocatorVars, registryVars>>

OwnersStep ==
  component = "owners" /\ OwnershipNext /\ KeepObjects /\ UNCHANGED <<dequeVars, streamVars>>
DequeStep ==
  component = "deque" /\ DequeNext /\ KeepObjects /\ UNCHANGED <<ownershipVars, streamVars>>
StreamStep ==
  component = "stream" /\ StreamNext /\ KeepObjects /\ UNCHANGED <<ownershipVars, dequeVars>>

TableStep == component = "table" /\ Table!Next /\ KeepOwn
AlgStep ==
  component = "algorithms" /\ Alg!GrowInputs /\ KeepOwn /\ UNCHANGED <<s2, s3, s4, s5, s6, s7, s8, s9>>

Next ==
  \/ QueueStep \/ ConditionStep \/ AllocatorStep \/ RegistryStep \/ WindowsStep
  \/ OwnersStep \/ DequeStep \/ StreamStep
  \/ TableStep \/ AlgStep

Spec == Init /\ [][Next]_componentVars

\* the threads are alike
Alike == Permutations(Threads)

-------------------------------------------------------------------------------
(* Properties: those of the modules that are extended are checked as they *)
(* stand there.                                                            *)

\* The sorts of uoi/algorithms, but for mergeSort(), sort, insertionSort() stably; its
\* searches find an object that matches if there is one, or its place; and its set
\* operations on sorted arrays return what set algebra says.
AlgorithmsExact ==
  component = "algorithms" => Alg!SortsSort /\ Alg!TextsSort /\ Alg!SearchesFind /\ Alg!SetOperationsExact

\* However a blackjack hand is split, doubled and paid, the money and the cards are
\* somewhere; the dealer plays whenever that can matter; and what the trainer
\* recommends is allowed.
BlackjackExact == component = "table" => Table!BlackjackExact

===============================================================================
