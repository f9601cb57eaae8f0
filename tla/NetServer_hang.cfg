CONSTANTS
  Threads = {t1, t2}
  Conns = {c1, c2}
  NoThread = NoThread
  NoConn = NoConn
  ClientsMaxes = {1}
  PausedMaxes = {1}
  ClientsPerThread = 2
  MayCancel = FALSE
SPECIFICATION FairSpec
PROPERTY Shutdown
