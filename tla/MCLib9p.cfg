CONSTANTS
  w1 = w1
  Nobody = Nobody
  Tags = {1, 2, 3}
  Fids = {1, 2}
  Workers <- MCWorkers
  Uses <- MCUses
SPECIFICATION Spec
INVARIANTS RefsExact FidsAgree
PROPERTIES ImplementsServer9p FlushAnswered
CHECK_DEADLOCK FALSE
