SPECIFICATION Spec
CONSTANTS
  film = film clip = clip short = short long = long junk = junk r1 = r1 r2 = r2
  Key = {film}
  SegmentCount = 2
  SegmentsPerWindow = 2
  Content = {short, long, junk}
  Encoded = {short, long}
  sizeOf <- MCSizeOf
  CacheMaxBytes = 3
  Reader = {r1}
  PinBound = 2
  NoKey = NoKey NoContent = NoContent
SYMMETRY Symmetry
INVARIANT CompleteIsWhole
PROPERTY RecoveryAgrees
CHECK_DEADLOCK FALSE
