\* Two captures, a rule that is edited and deleted, failing targets, a client
\* that hangs up.
CONSTANTS
  e1 = e1  e2 = e2
  RuleIds = {"ra"}
  RuleForms <- SomeForms
  Evaluations = {e1, e2}
  TraceForms <- SomeTraces
  Webhooks = 1  Slacks = 1  PagerDuties = 0
  Retries = 2
  Disturbances = {"notify", "client", "edit"}
SPECIFICATION SpecAlerts
INVARIANTS
  AlertsTypeOK
  EvaluationsCorrect
  RepeatsOverlap
  NotifiedIsRecorded
PROPERTY SettledWhenAlone
CHECK_DEADLOCK FALSE
