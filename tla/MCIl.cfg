SPECIFICATION Spec
CONSTANTS
  Window = 2
  MaxRexmit = 0
  FastTries = 0
  Nqt = 1
  Maxrq = 1
  Cases <- MCCases
INVARIANTS InOrder AckedReceived StartsAgree
PROPERTIES ComesToRest
CHECK_DEADLOCK FALSE
