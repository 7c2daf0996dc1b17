\* Two rules with two names or one, a channel that fails for a while, and a
\* process that may be restarted at any time.
CONSTANTS
  RuleLists <- SomeLists
  Samples <- TwoSamples
  Window = 1
  Cooldown = 2
  Lag = 2
  Horizon = 6
  Fragile = {"slack"}
  Faults = {"store"}
SPECIFICATION Spec
INVARIANTS
  HealthyChannelTold
  LastingAlertHeard
PROPERTY CooldownHeld
CHECK_DEADLOCK FALSE
