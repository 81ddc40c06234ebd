SPECIFICATION Spec
CONSTANTS
  Kinds <- MCKinds
  RequestBound = 3
  UserBound = 2
  Grant = {"s1", "s2"}
  urlOf <- MCUrlOf
  Element = {"e1"}
  MaxGrants = 1
  MaxMutations = 1
  RestartBound = 1
INVARIANTS
  TypeOK AnswerIsTheLatest SessionsAccountedFor RefreshedOnce LoadingIsAsked
  RevokedStaysRevoked
CHECK_DEADLOCK FALSE
