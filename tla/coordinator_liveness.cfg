SPECIFICATION FairSpec
CONSTANTS
  tvA = tvA tvB = tvB film = film clip = clip
  aFilm = aFilm aClip = aClip aRenewed = aRenewed bFilm = bFilm bClip = bClip
  s1 = s1 s2 = s2 s3 = s3 c1 = c1 c2 = c2 r1 = r1 r2 = r2
  Binding = {aFilm}
  Device = {tvA, tvB}
  Key = {film}
  SessionId = {s1}
  Call = {c1}
  Request = {r1, r2}
  SegmentCount = 1
  SegmentsPerWindow = 1
  LeaseTicks = 1
  Fragile = {}
  Failing = {r1, r2}
  deviceOf <- MCDeviceOf
  keyOf <- MCKeyOf
  NoSession = NoSession NoJob = NoJob NoCall = NoCall NoBinding = NoBinding NoKey = NoKey
INVARIANT NoLostWakeup
PROPERTIES ActiveDemandSettles EncoderIsReleased
CHECK_DEADLOCK FALSE
