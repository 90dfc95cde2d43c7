CONSTANTS
  l1 = l1
  l2 = l2
  NoLock = NoLock
  Locks <- MCLocks
  t1 = t1
  t2 = t2
  t3 = t3
  n1 = n1
  n2 = n2
  n3 = n3
  NoThread = NoThread
  Nil = Nil
  Threads <- MCThreads
  Nodes <- MCNodes
SPECIFICATION Spec
INVARIANTS WaitersListed
CHECK_DEADLOCK FALSE
