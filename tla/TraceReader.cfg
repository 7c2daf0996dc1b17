\* Two traces of the proxy and one that an SDK posts twice, under an id and with a
\* time of its choice, the future included, a cap of two, and a reader with pages of one.
CONSTANTS
  t1 = t1  t2 = t2  s1 = s1  s2 = s2
  Records = {t1, t2, s1, s2}
  Sdk = {s1, s2}
  IdOf <- OneRetried
  MaxAge = 1
  MaxCount = 2
  MaxTime = 2
  Faults = {"store", "future"}
  Wanted = {t1, t2, s1, s2}
  Limit = 1
SPECIFICATION SpecReader
CHECK_DEADLOCK FALSE
SYMMETRY Swaps
INVARIANTS
  CapHeld
  NothingSkipped
PROPERTY OnlyOldDeleted
