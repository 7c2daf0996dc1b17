CONSTANTS
  p1 = p1
  p2 = p2
  s1 = s1
  s2 = s2
  None = None
  Publishers = {p1, p2}
  Traces <- TwoAndOne
  Sessions = {s1, s2}
  Buffer = 1
  Wants <- OneFilters
  Faults = {"client"}
SPECIFICATION FairSpec
CHECK_DEADLOCK FALSE
INVARIANTS
  NoSendOnClosed
  FeedFaithful
PROPERTIES
  PublishEnds
  SessionsServed
