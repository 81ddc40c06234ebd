SPECIFICATION Spec
CONSTANTS
  Call = {c1, c2}
  Route = {"bootstrap", "adminLogin", "oauthCallback", "adminPassphrase", "adminDevice", "mediaUrl", "transcodeMutation"}
  Limit = 1
  KeyBound = 1
  PassBound = 2
  ClockBound = 1
  ArrivalBound = 3
  ServiceCode = {"CONTROL_PLANE_CONFLICT"}
  State = {"s1", "s2"}
  Callback = {"k1", "k2"}
  StateLife = 1
  RevisionBound = 3
  NoState = "none"
  NoCallback = "none"
  Node = {"root", "folder", "video"}
  Folder = {"root", "folder"}
  RootNode = "root"
  HandleLife = 1
  VersionBound = 2
  TickBound = 1
  Nowhere = "none"
  Items = 4
  Groups = 2
  Workers = 2
  Capability = {"g1", "g2"}
  Fetcher = {"f1", "f2"}
  ActiveLimit = 1
  CredentialBound = 2
  Directory = {"d1", "d2"}
  ProviderRoot = "root"
  Outside = "outside"
  AncestryLimit = 2
  Claimant = {"a1", "a2"}
  Newest = 2
  BootBound = 3
  Nobody = "nobody"
SYMMETRY Symmetry
INVARIANTS
  TypeOK AdmittedProvesCurrent BudgetRespected 
  OneCompletionPerState IssuedIsAccepted HeldWasReached
  SharedRefresh RevokedIsAborted FetchIsAuthorized StoredPathExisted
  ClaimIsAtomic
PROPERTIES NothingChangedSinceBegin
CHECK_DEADLOCK FALSE
