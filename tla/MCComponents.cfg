\* three threads
CONSTANTS
  Threads = {t1, t2, t3}
  NoThread = NoThread
  Null = Null
  \* the concurrent queue
  Nodes = {q1, q2, q3}
  Values = {v1, v2}
  NullNode = Null
  Nothing = Null
  \* the mutex with its condition variable
  MaxNested = 1
  NestAroundWait = FALSE
  \* the debug allocator
  Blocks = {q1, q2, q3}
  NullBlock = Null
  MaxReports = 1
  \* the registry: one key, and an object for it and for every thread
  Keys = {0}
  Objects = {1, 2, 3, 4}
  NoObject = Null
  NoKey = Null
  MaxRefs = 2
  \* the Windows server: two places, served by threads for two clients each
  ClientsMax = 2
  ClientsSize = 4
  ClientsPerThread = 2
  MaxConns = 3
  \* two collections and two objects of each of two keys
  NumKeys = 2
  Copies = 2
  \* a ring of blocks of two, up to eight of them
  DequeObjects = {1, 2}
  BlockSize = 2
  MaxItems = 6
  \* five bytes in buffers of two, and a line's end among them
  InBytes = 5
  LineEnds = {3}
  OutBytes = 3
  InSize = 2
  OutSize = 2
  \* bounds that are not here are in the module
  Components = {
    "queue", "condition", "allocator", "registry", "windows", "owners", "deque", "stream",
    "table", "algorithms"}

SPECIFICATION Spec
SYMMETRY Alike

INVARIANTS
  NodesOwned
  BlocksListed
  ConditionExact
  RegistryExact
  WindowsPoolExact
  OwnedOnce
  StreamExact
  AlgorithmsExact
  BlackjackExact

PROPERTIES
  QueueIsFIFO
  ImplementsObjectSequence

\* the Windows server stops, and may never finish its shutdown; the inputs stop growing
CHECK_DEADLOCK FALSE
