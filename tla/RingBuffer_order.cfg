\* four slots: one producer and one consumer that can be overtaken by a lap of
\* the third thread, which does both
CONSTANTS
  Threads = {t1, t2, t3}
  Producers = {t1, t2}
  Consumers = {t2, t3}
  Values = {1, 2, 3, 4, 5}
  NullValue = NullValue
  CountMax = 3

SPECIFICATION Spec

INVARIANT FirstInFirstOut
