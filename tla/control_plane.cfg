SPECIFICATION Spec
CONSTANTS
  q1 = q1 q2 = q2 q3 = q3 d1 = d1 d2 = d2 source1 = source1 root1 = root1 c1 = c1 c2 = c2
  Request = {q1, q2, q3}
  Device = {d1, d2}
  Source = {source1}
  Root = {root1}
  sourceOf <- MCSourceOf
  Client = {c1, c2}
  RequestLimit = 2
  DeviceLimit = 2
  SourceLimit = 1
  RootLimit = 1
  NoRequest = NoRequest NoDevice = NoDevice
SYMMETRY Symmetry
INVARIANT DocumentIsValid
PROPERTIES ResolvedOnce EnrollmentIsSafe
CHECK_DEADLOCK FALSE
