CONSTANTS
  Fleets <- BinaryFleets
  Requests = {"q1"}
  Names <- SomeNames
  BasePorts = {5}
  Dashboard = 5
  MaxPort = 9
  Takeable = {}
  Faults = {}
SPECIFICATION Spec
INVARIANT BinariesServed
CHECK_DEADLOCK FALSE
