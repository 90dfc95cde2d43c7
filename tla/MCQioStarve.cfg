CONSTANTS
  r1 = r1
  w1 = w1
  c1 = c1
  d1 = d1
  NoThread = NoThread
  Readers <- OneReader
  Writers <- OneWriter
  Controllers <- OneCtl
  Drivers <- OneDriver
  Queues <- Pipes
  Limit = 4
  NewLimits <- NewLim
  MaxAtomic = 2
  Hdrspc = 1
  PrintLimit = 3
SPECIFICATION FairSpec
PROPERTIES ReaderAwakened
CHECK_DEADLOCK FALSE
