\* URLs and a binary; a name that falls together with another; base ports before, at and
\* after the dashboard's and at the last ones; one request, since
\* requests do not meet.
CONSTANTS
  Fleets <- AllFleets
  Requests = {"q1"}
  Names <- SomeNames
  BasePorts = {1, 2, 7, 8}
  Dashboard = 2
  MaxPort = 9
  Takeable = {2, 4, 8}
  Faults = {"listener", "missing", "silent", "client"}
SPECIFICATION FairSpec
INVARIANTS
  AnsweredByNamed
  WorkersReachable
  ServesOn
PROPERTIES
  WholeOrEnded
  RequestsDecided
CHECK_DEADLOCK FALSE
