CONSTANTS
  c1 = c1
  c2 = c2
  c3 = c3
  s1 = s1
  None = None
  Calls = {c1, c2, c3}
  ServerCalls = {s1}
  Ids = {1, 2, 3}
  IdOf <- BothCountIds
  CallerOf <- ServesFirst
  Refused <- LastRefused
  Unlogged <- LogMayFail
  Unstored <- StoreMayFail
  MaxTime = 1
  StaleAfter = 1
SPECIFICATION FairSpec
CHECK_DEADLOCK FALSE
INVARIANTS
  UniqueIdsPaired
  NothingLost
PROPERTIES
  ImplementsExchanges
  CallsAnswered
