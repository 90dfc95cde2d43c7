CONSTANTS
  t1 = t1
  t2 = t2
  t3 = t3
  NoThread = NoThread
  Threads <- MCThreads
SPECIFICATION FairSpec
INVARIANTS MutualExclusion NoLostWaiter
PROPERTIES ImplementsFifoLock EveryWaiterGetsIn
