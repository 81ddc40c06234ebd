SPECIFICATION FairSpec
CONSTANTS
  c1 = c1 c2 = c2
  Caller = {c1, c2}
  TokenBound = 2
  ReconnectBound = 2
  NoCaller = NoCaller
INVARIANTS TypeOK OneRefreshPerVersion Usable
PROPERTIES MarkedRightly CallsAnswered
CHECK_DEADLOCK FALSE
