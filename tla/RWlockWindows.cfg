CONSTANTS
  Threads = {t1, t2, t3}
  NoThread = NoThread
  MaxNested = 1
SPECIFICATION WinSpec
INVARIANT WriterExclusive
