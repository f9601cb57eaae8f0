\* every thread both produces and consumes
CONSTANTS
  Threads = {t1, t2, t3}
  Producers = {t1, t2, t3}
  Consumers = {t1, t2, t3}
  Values = {1, 2, 3}
  NullValue = NullValue
  CountMax = 2

SPECIFICATION FairSpec

INVARIANTS CountsBound NoLossNoDuplicate InOrderUpToTwo

PROPERTY CallsReturn
