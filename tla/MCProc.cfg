CONSTANTS
  NProc = 3
  NCore = 1
  Threads <- MCThreads
  MaxWait = 1
  HtSize = 2
  Calls <- MCCalls
  NoThread = NoThread
SPECIFICATION FairSpec
INVARIANTS ProcInv ReapedRightly NoNilref SendsMeet
PROPERTY ExitEnds
CHECK_DEADLOCK FALSE
