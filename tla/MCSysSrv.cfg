CONSTANTS
  c1 = c1
  c2 = c2
  k1 = k1
  k2 = k2
  NoClient = NoClient
  NoClerk = NoClerk
  MaxEvents = 1
  Clients <- MCClients
  Main <- MCMain
  Clerks <- MCClerks
  Calls <- MCCalls
SPECIFICATION FairSpec
INVARIANTS PoolExact AnswersOwnCall
PROPERTIES JobKept WorkAnswered
CHECK_DEADLOCK FALSE
