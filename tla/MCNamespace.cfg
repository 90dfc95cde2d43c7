CONSTANTS
  p1 = p1
  p2 = p2
  a = a
  b = b
  NoProc = NoProc
  NoQid = NoQid
  SrvQid = SrvQid
  Procs <- MCProcs
  Qids <- MCQids
  Uses <- MCUses
  MaxOps = 3
SPECIFICATION Spec
INVARIANTS RefInv FindmountFinds CopyOrdered NobodyStuck
CHECK_DEADLOCK FALSE
