CONSTANTS
  m1 = m1
  m2 = m2
  r1 = r1
  r2 = r2
  r3 = r3
  r4 = r4
  None = None
  Managers = {m1}
  Stdio = {m1}
  Requests = {r1, r2, r3, r4}
  Teams = {"alpha", "default"}
  Default = "default"
  ManagerOf <- OneWorker
  TeamOf <- TwoTeams
  TokensOf <- OneTalks
  CallLimit <- OneAnHourTwoADay
  TokenLimit <- OneTokenADay
  HoursPerDay = 2
  MaxResets = 1
  MaxHour = 1
  Faults = {"store", "crash", "reset"}
SPECIFICATION Spec
CHECK_DEADLOCK FALSE
SYMMETRY Twins
INVARIANTS
  CallLimitHeld
  LedgerExact
  ChargeMatchesVerdict
PROPERTY ImplementsQuota
