------------------------------- MODULE MCServer -------------------------------
(***************************************************************************)
(* The parts of the server that share no state but the control document    *)
(* and the credentials, each with an abstraction of these of its own, on   *)
(* small instances.  A behaviour is one of one part: `part' says which, and *)
(* the variables of the others stay Unused.                                *)
(***************************************************************************)
EXTENDS Integers, FiniteSets, TLC

CONSTANTS
  Call, Route, Limit, KeyBound, PassBound, ClockBound, ArrivalBound, ServiceCode,
  State, Callback, StateLife, RevisionBound, NoState, NoCallback,
  Node, Folder, RootNode, HandleLife, VersionBound, TickBound, Nowhere,
  Items, Groups, Workers,
  Capability, Fetcher, ActiveLimit, CredentialBound,
  Directory, ProviderRoot, Outside, AncestryLimit,
  Claimant, Newest, BootBound, Nobody

Symmetry == Permutations(Call)

VARIABLES
  part,
  pass, revoked, jar, call, windows, granted, clock, arrivals,
  revision, credential, claims, stateCookie, callback, completing, marker, commits, untouched,
  parent, reached, version, standing, held, cursor, browse, tick,
  group, thumb, batch, refreshes,
  gateway, grants, active, fetcher, document, unchanged,
  above, edges, account, resolving, made,
  disk, process, log, claim, winner

Api == INSTANCE ControlApi
OAuth == INSTANCE OAuthFlow WITH Life <- StateLife
Browse == INSTANCE LiveBrowse WITH Life <- HandleLife
Thumbnails == INSTANCE ThumbnailBatch
Gateway == INSTANCE SourceGateway
Folders == INSTANCE ProviderFolders
Host == INSTANCE SelfHosted

(* What the bounds of an instance have to be for a part to make sense.     *)
ASSUME ServerAssumption ==
  /\ Route \subseteq Api!Routes /\ Limit \in Nat
  /\ PassBound \in Nat \ {0} /\ ClockBound \in Nat /\ ArrivalBound \in Nat
  /\ StateLife \in Nat /\ RevisionBound \in Nat \ {0}
  /\ Groups \in Nat \ {0}
  /\ Capability # {} /\ CredentialBound \in Nat \ {0}
  /\ Newest \in Nat /\ BootBound \in Nat
  /\ RootNode \in Folder /\ Folder \subseteq Node /\ Nowhere \notin Node
  /\ HandleLife \in Nat /\ VersionBound \in Nat \ {0} /\ TickBound \in Nat
  /\ ProviderRoot \notin Directory /\ Outside \notin Directory /\ Outside # ProviderRoot
  /\ AncestryLimit \in Nat \ {0}

Unused == "unused"
apiVars == <<pass, revoked, jar, call, windows, granted, clock, arrivals>>
oauthVars == <<revision, credential, claims, stateCookie, callback, completing, marker, commits,
              untouched>>
browseVars == <<parent, reached, version, standing, held, cursor, browse, tick>>
batchVars == <<group, thumb, batch, refreshes>>
gatewayVars == <<gateway, grants, active, fetcher, document, unchanged>>
foldersVars == <<above, edges, account, resolving, made>>
hostVars == <<disk, process, log, claim, winner>>
vars == <<part, apiVars, oauthVars, browseVars, batchVars, gatewayVars, foldersVars, hostVars>>

NoApi == pass = Unused /\ revoked = Unused /\ jar = Unused /\ call = Unused /\ windows = Unused
         /\ granted = Unused /\ clock = Unused /\ arrivals = Unused
NoOAuth == revision = Unused /\ credential = Unused /\ claims = Unused /\ stateCookie = Unused
           /\ callback = Unused /\ completing = Unused /\ marker = Unused /\ commits = Unused
           /\ untouched = Unused
NoBrowse == parent = Unused /\ reached = Unused /\ version = Unused /\ standing = Unused
            /\ held = Unused /\ cursor = Unused /\ browse = Unused /\ tick = Unused
NoBatch == group = Unused /\ thumb = Unused /\ batch = Unused /\ refreshes = Unused
NoGateway == gateway = Unused /\ grants = Unused /\ active = Unused /\ fetcher = Unused
             /\ document = Unused /\ unchanged = Unused
NoFolders == above = Unused /\ edges = Unused /\ account = Unused /\ resolving = Unused
             /\ made = Unused
NoHost == disk = Unused /\ process = Unused /\ log = Unused /\ claim = Unused /\ winner = Unused

Init ==
  \/ part = "api" /\ Api!Init
     /\ NoOAuth /\ NoBrowse /\ NoBatch /\ NoGateway /\ NoFolders /\ NoHost
  \/ part = "oauth" /\ OAuth!Init
     /\ NoApi /\ NoBrowse /\ NoBatch /\ NoGateway /\ NoFolders /\ NoHost
  \/ part = "browse" /\ Browse!Init
     /\ NoApi /\ NoOAuth /\ NoBatch /\ NoGateway /\ NoFolders /\ NoHost
  \/ part = "thumbnails" /\ Thumbnails!Init
     /\ NoApi /\ NoOAuth /\ NoBrowse /\ NoGateway /\ NoFolders /\ NoHost
  \/ part = "gateway" /\ Gateway!Init
     /\ NoApi /\ NoOAuth /\ NoBrowse /\ NoBatch /\ NoFolders /\ NoHost
  \/ part = "folders" /\ Folders!Init
     /\ NoApi /\ NoOAuth /\ NoBrowse /\ NoBatch /\ NoGateway /\ NoHost
  \/ part = "host" /\ Host!Init
     /\ NoApi /\ NoOAuth /\ NoBrowse /\ NoBatch /\ NoGateway /\ NoFolders

Next ==
  /\ UNCHANGED part
  /\ \/ /\ part = "api" /\ Api!Next
        /\ UNCHANGED <<oauthVars, browseVars, batchVars, gatewayVars, foldersVars, hostVars>>
     \/ /\ part = "oauth" /\ OAuth!Next
        /\ UNCHANGED <<apiVars, browseVars, batchVars, gatewayVars, foldersVars, hostVars>>
     \/ /\ part = "browse" /\ Browse!Next
        /\ UNCHANGED <<apiVars, oauthVars, batchVars, gatewayVars, foldersVars, hostVars>>
     \/ /\ part = "thumbnails" /\ Thumbnails!Next
        /\ UNCHANGED <<apiVars, oauthVars, browseVars, gatewayVars, foldersVars, hostVars>>
     \/ /\ part = "gateway" /\ Gateway!Next
        /\ UNCHANGED <<apiVars, oauthVars, browseVars, batchVars, foldersVars, hostVars>>
     \/ /\ part = "folders" /\ Folders!Next
        /\ UNCHANGED <<apiVars, oauthVars, browseVars, batchVars, gatewayVars, hostVars>>
     \/ /\ part = "host" /\ Host!Next
        /\ UNCHANGED <<apiVars, oauthVars, browseVars, batchVars, gatewayVars, foldersVars>>

Spec == Init /\ [][Next]_vars

-------------------------------------------------------------------------------
(* Every variable of a part keeps its shape.                                *)
TypeOK ==
  /\ part = "api" => Api!TypeOK
  /\ part = "oauth" => OAuth!TypeOK
  /\ part = "browse" => Browse!TypeOK
  /\ part = "thumbnails" => Thumbnails!TypeOK
  /\ part = "gateway" => Gateway!TypeOK
  /\ part = "folders" => Folders!TypeOK
  /\ part = "host" => Host!TypeOK

(* ControlApi: whoever is let in has proved what was current when the       *)
(* request arrived or since.                                                *)
AdmittedProvesCurrent == part = "api" => Api!AdmittedProvesCurrent

(* ControlApi: a budget holds although expired windows are dropped.         *)
BudgetRespected == part = "api" => Api!BudgetRespected

(* ControlApi: every change was guarded, whatever the answer says.          *)
ChangesAreGuarded == part = "api" => Api!ChangesAreGuarded

(* OAuthFlow: one state completes at most one connection (oauth_replay).    *)
OneCompletionPerState == part = "oauth" => OAuth!OneCompletionPerState

(* OAuthFlow: a connection overwrites nothing changed since it was begun.   *)
NothingChangedSinceBegin == [][part = "oauth" => OAuth!CommitsOnTheUntouched]_vars

(* LiveBrowse: what a folder lists can be opened with the handles it gave.  *)
IssuedIsAccepted == part = "browse" => Browse!IssuedIsAccepted

(* LiveBrowse: a TV is given handles only of what it could reach.           *)
HeldWasReached == part = "browse" => Browse!HeldWasReached

(* ThumbnailBatch: concurrent items share one refresh of the credentials.   *)
SharedRefresh == part = "thumbnails" => Thumbnails!SharedRefresh

(* SourceGateway: revoking a capability aborts every request made under it. *)
RevokedIsAborted == part = "gateway" => Gateway!RevokedIsAborted

(* SourceGateway: bytes are fetched only for what is authorized.            *)
FetchIsAuthorized == part = "gateway" => Gateway!FetchIsAuthorized

(* ProviderFolders: the ancestry stored with a root was that of the folder. *)
StoredPathExisted == part = "folders" => Folders!StoredPathExisted

(* SelfHosted: one claim of an installation is accepted, and it is stored.  *)
ClaimIsAtomic == part = "host" => Host!ClaimIsAtomic
===============================================================================
