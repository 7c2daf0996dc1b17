CONSTANTS
  m1 = m1
  m2 = m2
  r1 = r1
  r2 = r2
  r3 = r3
  r4 = r4
  None = None
  Managers = {m1, m2}
  Stdio = {m2}
  Requests = {r1, r2, r3}
  Teams = {"alpha", "default"}
  Default = "default"
  ManagerOf <- TwoWorkers
  TeamOf <- OneTeam
  TokensOf <- AllTalk
  CallLimit <- OneAnHour
  TokenLimit <- OneTokenADay
  HoursPerDay = 2
  MaxResets = 0
  MaxHour = 0
  Faults = {"store", "crash"}
SPECIFICATION FairSpec
CHECK_DEADLOCK FALSE
INVARIANTS
  OvershootBounded
PROPERTY Decided
