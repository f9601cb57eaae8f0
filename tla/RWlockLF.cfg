CONSTANTS
  Threads = {t1, t2, t3}
  NoThread = NoThread
  MaxDepth = 2
SPECIFICATION FairSpec
INVARIANTS
  ActiveCount
  Exclusion
  OwnerIsClaimant
PROPERTIES
  ImplementsRWlock
  WriterGetsIn
