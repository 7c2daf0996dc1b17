\* More frames than two pipes hold; both ends may die; the budget may refuse and
\* the store fail.
CONSTANTS
  Frames = 6
  Capacity = 2
  Faults = {"client", "server", "budget", "store"}
SPECIFICATION FairSession
INVARIANTS
  NothingCutOff
PROPERTY SessionEnds
CHECK_DEADLOCK FALSE
