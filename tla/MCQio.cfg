CONSTANTS
  r1 = r1
  w1 = w1
  c1 = c1
  d1 = d1
  NoThread = NoThread
  Readers <- OneReader
  Writers <- OneWriter
  Controllers <- OneCtl
  Drivers <- OneDriver
  Queues <- MCQueues
  Limit = 4
  NewLimits <- NewLim
  MaxAtomic = 2
  Hdrspc = 1
  PrintLimit = 3
SPECIFICATION FairSpec
INVARIANTS QueueInv FlowBounded DeliveredInOrder
PROPERTIES StreamGrows NonblockingWriteReturns
CHECK_DEADLOCK FALSE
