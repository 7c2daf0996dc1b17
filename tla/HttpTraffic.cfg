\* Three requests of two teams, with ids of their own or all with the same one;
\* one is refused if it has an id and is a notification with an empty answer
\* otherwise; clients hang up, the server fails,
\* and so do some captures.
CONSTANTS
  r1 = r1
  r2 = r2
  r3 = r3
  None = None
  Requests = {r1, r2, r3}
  Teams = {"alpha", "beta"}
  Ids = {1, 2}
  IdChoices <- SomeIds
  TeamOf <- TwoTeams
  Unreadable = {r3}
  Refused = {r3}
  Unlogged <- LogMayFail
  Unstored <- StoreMayFail
  Faults = {"upstream", "client"}
  MaxTime = 1
  StaleAfter = 0
SPECIFICATION FairSpec
CHECK_DEADLOCK FALSE
INVARIANTS
  PairedWithOwnAnswer
  PromptCallsTraced
PROPERTIES
  ImplementsExchanges
  CallsAnswered
