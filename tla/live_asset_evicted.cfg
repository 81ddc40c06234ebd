SPECIFICATION Spec
CONSTANTS
  tvA = tvA tvB = tvB film = film clip = clip
  aFilm = aFilm aClip = aClip aRenewed = aRenewed bFilm = bFilm bClip = bClip
  s1 = s1 s2 = s2 s3 = s3 c1 = c1 c2 = c2 r1 = r1 r2 = r2
  Binding = {aFilm, aClip}
  Device = {tvA, tvB}
  Key = {film, clip}
  SessionId = {s1, s2, s3}
  Call = {c1}
  Request = {r1}
  SegmentCount = 1
  SegmentsPerWindow = 1
  LeaseTicks = 1
  Fragile = {}
  Failing = {}
  deviceOf <- MCDeviceOf
  keyOf <- MCKeyOf
  NoSession = NoSession NoJob = NoJob NoCall = NoCall NoBinding = NoBinding NoKey = NoKey
SYMMETRY Symmetry
INVARIANTS LiveAssetIsKept
CHECK_DEADLOCK FALSE
