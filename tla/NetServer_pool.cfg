CONSTANTS
  Threads = {t1, t2, t3}
  Conns = {c1, c2, c3}
  NoThread = NoThread
  NoConn = NoConn
  ClientsMaxes = {1, 2}
  PausedMaxes = {0, 1}
  ClientsPerThread = 2
  MayCancel = TRUE
SPECIFICATION Spec
INVARIANTS TypeOK OneHandle SlotsExact CountExact ConnectionKept NoIdleQueue EndedAlone
PROPERTY DroppedOnlyAtShutdown
SYMMETRY Perms
