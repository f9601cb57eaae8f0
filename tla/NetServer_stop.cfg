CONSTANTS
  Threads = {t1, t2, t3}
  Conns = {c1, c2, c3}
  NoThread = NoThread
  NoConn = NoConn
  ClientsMaxes = {1}
  PausedMaxes = {1}
  ClientsPerThread = 1
  MayCancel = TRUE
SPECIFICATION FairSpec
INVARIANTS SlotFree 
PROPERTIES Shutdown QueueServed
