CONSTANTS
  t1 = t1
  t2 = t2
  t3 = t3
  p1 = p1
  p2 = p2
  NoThread = NoThread
  NoProc = NoProc
  Threads <- MCThreads
  ProcOf <- MCProcOf
  NTag = 3
  MaxFree = 1
  MaxRpc = 3
  MaxFaults = 1
SPECIFICATION Spec
SYMMETRY Symm
INVARIANTS RpcInv OwnReply OneReader SendsMeet
CHECK_DEADLOCK FALSE
