CONSTANTS
  p1 = p1
  p2 = p2
  t1 = t1
  t2 = t2
  t3 = t3
  Procs <- MCProcs
  Boot = p1
  Threads <- MCThreads
  ProcOf <- MCProcOf
  DELTAFD = 1
  MaxNfd = 2
  ONERR <- MCOnerr
  Ops <- MCOps
  OpenModes = {"OWRITE"}
  MaxOps = 3
SYMMETRY Symm
SPECIFICATION Spec
INVARIANTS FgrpInv TableStays WriteOffsetExact
CHECK_DEADLOCK FALSE
