\* Every pair of schemas, over both transports, with every fault.
CONSTANTS
  Versions <- AllVersions
  Types <- TwoTypes
  Transports = {"stdio", "http"}
  Faults = {"chatty", "acks", "error", "silent", "empty", "exit"}
  MaxStray = 1
SPECIFICATION FairSpec
INVARIANTS
  SnapshotFaithful
  BreakingBlocked
  UnchangedPasses
PROPERTY HttpCheckEnds
CHECK_DEADLOCK FALSE
