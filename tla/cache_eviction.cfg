SPECIFICATION Spec
CONSTANTS
  film = film clip = clip short = short long = long junk = junk r1 = r1 r2 = r2
  Key = {film, clip}
  SegmentCount = 1
  SegmentsPerWindow = 1
  Content = {short, long, junk}
  Encoded = {short, long}
  sizeOf <- MCSizeOf
  CacheMaxBytes = 2
  Reader = {r1}
  PinBound = 2
  NoKey = NoKey NoContent = NoContent
SYMMETRY Symmetry
INVARIANTS TypeOK AccountingExact CapRespected
CHECK_DEADLOCK FALSE
