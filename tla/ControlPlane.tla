---------------------------- MODULE ControlPlane ----------------------------
(***************************************************************************)
(* The control document of the server: enrollment requests, devices,       *)
(* sources and selected roots (control-plane/mutations.ts), and the        *)
(* clients, administrators and background work that change it through the  *)
(* one mutate() of the SQLite store (sqlite/control-store.ts).             *)
(*                                                                         *)
(* A reducer runs in one transaction and without an await, on the document *)
(* of that moment; what a call has read before its awaits may be old when  *)
(* its reducer runs.  An error thrown in a reducer rolls back everything,  *)
(* also the expired requests the reducer has dropped by then: a refused    *)
(* call is no step here.                                                   *)
(*                                                                         *)
(* Ids are random and used once.  Roots are never disabled by this code,   *)
(* so "enabled" of a root is left out.                                     *)
(***************************************************************************)
EXTENDS Integers, FiniteSets

CONSTANTS
  Request, Device, Source, Root,   \* ids
  sourceOf,                        \* the source a root id is derived from
  Client,                          \* pages of TVs, each with the cookies of its browser
  RequestLimit, DeviceLimit, SourceLimit, RootLimit,
  NoRequest, NoDevice

ASSUME LimitAssumption ==
  RequestLimit \in Nat /\ DeviceLimit \in Nat /\ SourceLimit \in Nat /\ RootLimit \in Nat
ASSUME SourceAssumption == sourceOf \in [Root -> Source]
ASSUME FiniteAssumption ==
  IsFiniteSet(Request) /\ IsFiniteSet(Device) /\ IsFiniteSet(Source) /\ IsFiniteSet(Root)
ASSUME SentinelAssumption == NoRequest \notin Request /\ NoDevice \notin Device

VARIABLES
  allow,      \* household.allowNewDeviceRequests
  requests,   \* pendingDeviceRequests: status, expiry passed, approvedDeviceId
  devices,    \* devices: sessionVersion (0: no such device), enabled, revokedAt, roots
  sources,    \* status of each source
  roots,      \* the selected roots
  client,     \* the status() calls of the clients, and their sessions
  adding      \* roots whose createRoot() is at its provider calls

document == <<allow, requests, devices, sources, roots>>
vars == <<allow, requests, devices, sources, roots, client, adding>>

Unused == [status |-> "none", late |-> FALSE, device |-> NoDevice]
Dropped == [Unused EXCEPT !.status = "gone"]
NewRequest == [Unused EXCEPT !.status = "pending"]
NotApproved == [version |-> 0, enabled |-> FALSE, revoked |-> FALSE, roots |-> {}]
IdleClient == [pc |-> "idle", request |-> NoRequest, device |-> NoDevice, version |-> 0]

RequestState == [status : {"none", "pending", "approved", "denied", "expired", "gone"},
                 late : BOOLEAN, device : Device \cup {NoDevice}]
DeviceState == [version : 0 .. 2, enabled : BOOLEAN, revoked : BOOLEAN, roots : SUBSET Root]
ClientState == [pc : {"idle", "claiming", "answered", "enrolled"},
                request : Request \cup {NoRequest},
                device : Device \cup {NoDevice}, version : 0 .. 2]

TypeOK ==
  /\ allow \in BOOLEAN
  /\ requests \in [Request -> RequestState]
  /\ devices \in [Device -> DeviceState]
  /\ sources \in [Source -> {"none", "healthy", "reauth-required", "removed"}]
  /\ roots \subseteq Root
  /\ client \in [Client -> ClientState]
  /\ adding \subseteq Root

Init ==
  /\ allow = TRUE
  /\ requests = [q \in Request |-> Unused]
  /\ devices = [d \in Device |-> NotApproved]
  /\ sources = [s \in Source |-> "none"]
  /\ roots = {}
  /\ client = [c \in Client |-> IdleClient]
  /\ adding = {}

-----------------------------------------------------------------------------
(* The document.                                                           *)

Stored(rs) == {q \in Request : rs[q].status \notin {"none", "gone"}}
Late == {q \in Stored(requests) : requests[q].late}
Devices == {d \in Device : devices[d].version > 0}
Sources == {s \in Source : sources[s] \in {"healthy", "reauth-required"}}

(* pruneExpired, for a clock at which the requests of late have expired:   *)
(* the clock of a call is read before its awaits.                          *)
Pruned(late, kept) ==
  [q \in Request |-> IF q \in late \ {kept} THEN Dropped ELSE requests[q]]

-----------------------------------------------------------------------------
(* Enrollment requests.                                                    *)

CreateRequest(q, late) ==
  /\ requests[q].status = "none"
  /\ allow
  /\ Cardinality(Stored(Pruned(late, q))) < RequestLimit
  /\ requests' = [Pruned(late, q) EXCEPT ![q] = NewRequest]
  /\ UNCHANGED <<allow, devices, sources, roots, client, adding>>

RequestExpires(q) ==
  /\ q \in Stored(requests) \ Late
  /\ requests' = [requests EXCEPT ![q].late = TRUE]
  /\ UNCHANGED <<allow, devices, sources, roots, client, adding>>

UpdateSettings ==
  /\ allow' = ~allow
  /\ UNCHANGED <<requests, devices, sources, roots, client, adding>>

(* Mutant: a request that is resolved can be approved again.               *)
ApproveErrorUnresolved(q, assigned, late) ==
  CASE q \notin Stored(requests) -> "DEVICE_REQUEST_NOT_FOUND"
    [] q \in Stored(requests) /\ q \in late -> "DEVICE_REQUEST_EXPIRED"
    [] q \in Stored(requests) /\ q \notin late /\ ~(assigned \subseteq roots) ->
         "INVALID_ROOT_ASSIGNMENT"
    [] q \in Stored(requests) /\ q \notin late /\ assigned \subseteq roots
         /\ Cardinality(Devices) >= DeviceLimit -> "CONTROL_PLANE_LIMIT_EXCEEDED"
    [] OTHER -> "OK"

(* Checks of approveDeviceRequestMutation, in the order of the code.       *)
ApproveError(q, assigned, late) ==
  CASE q \notin Stored(requests) -> "DEVICE_REQUEST_NOT_FOUND"
    [] q \in Stored(requests) /\ requests[q].status # "pending" -> "DEVICE_REQUEST_RESOLVED"
    [] requests[q].status = "pending" /\ q \in late -> "DEVICE_REQUEST_EXPIRED"
    [] requests[q].status = "pending" /\ q \notin late /\ ~(assigned \subseteq roots) ->
         "INVALID_ROOT_ASSIGNMENT"
    [] requests[q].status = "pending" /\ q \notin late /\ assigned \subseteq roots
         /\ Cardinality(Devices) >= DeviceLimit -> "CONTROL_PLANE_LIMIT_EXCEEDED"
    [] OTHER -> "OK"

Approve(q, d, assigned, late) ==
  /\ devices[d].version = 0
  /\ ApproveError(q, assigned, late) = "OK"
  /\ devices' = [devices EXCEPT ![d] = [version |-> 1, enabled |-> TRUE, revoked |-> FALSE,
                                        roots |-> assigned]]
  /\ requests' = [Pruned(late, q) EXCEPT ![q].status = "approved", ![q].device = d]
  /\ UNCHANGED <<allow, sources, roots, client, adding>>

(* resolveDeviceRequestMutation, called with "denied".                     *)
Deny(q, late) ==
  LET status == IF requests[q].status = "pending" /\ q \in late THEN "expired" ELSE "denied" IN
  /\ q \in Stored(requests)
  /\ requests[q].status \in {"pending", status}
  /\ requests' = [Pruned(late, q) EXCEPT ![q].status = status]
  /\ UNCHANGED <<allow, devices, sources, roots, client, adding>>

-----------------------------------------------------------------------------
(* status() of a client that holds the cookie of a request.  The answers   *)
(* that change nothing are left out; for an approved request it goes on to *)
(* the mutation that claims it.                                            *)

Usable(d) == devices[d].enabled /\ ~devices[d].revoked

StartClaim(c, q) ==
  /\ client[c].pc = "idle"
  /\ requests[q].status = "approved"
  /\ ~requests[q].late
  /\ Usable(requests[q].device)
  /\ client' = [client EXCEPT ![c] = [IdleClient EXCEPT !.pc = "claiming", !.request = q,
                                                        !.device = requests[q].device]]
  /\ UNCHANGED <<document, adding>>

(* Mutant: the claim trusts the document status() has loaded.              *)
StillApprovedAsRead(c) == client[c].request \in Request

(* The clock of the call has not changed, so expiry is not seen here.      *)
StillApproved(c) ==
  /\ requests[client[c].request].status = "approved"
  /\ requests[client[c].request].device = client[c].device

Claim(c) ==
  LET q == client[c].request
      d == client[c].device
  IN  /\ client[c].pc = "claiming"
      /\ StillApproved(c)
      /\ Usable(d)
      /\ requests' = [requests EXCEPT ![q] = Dropped]
      /\ client' = [client EXCEPT ![c] = [IdleClient EXCEPT !.pc = "answered", !.device = d,
                                                            !.version = devices[d].version]]
      /\ UNCHANGED <<allow, devices, sources, roots, adding>>

ClaimRefused(c) ==
  /\ client[c].pc = "claiming"
  /\ ~(StillApproved(c) /\ Usable(client[c].device))
  /\ client' = [client EXCEPT ![c] = IdleClient]
  /\ UNCHANGED <<document, adding>>

AnswerArrives(c) ==
  /\ client[c].pc = "answered"
  /\ client' = [client EXCEPT ![c].pc = "enrolled"]
  /\ UNCHANGED <<document, adding>>

(* The answer is lost, or the session expires or is cleared.               *)
SessionEnds(c) ==
  /\ client[c].pc \in {"answered", "enrolled"}
  /\ client' = [client EXCEPT ![c] = IdleClient]
  /\ UNCHANGED <<document, adding>>

(* authenticateControlDevice.                                              *)
Accepted(c) ==
  /\ client[c].pc = "enrolled"
  /\ Usable(client[c].device)
  /\ client[c].version = devices[client[c].device].version

-----------------------------------------------------------------------------
(* Devices.                                                                *)

UpdateError(d, enabled, assigned) ==
  CASE d \notin Devices -> "DEVICE_NOT_FOUND"
    [] d \in Devices /\ devices[d].revoked /\ enabled -> "DEVICE_REVOKED"
    [] d \in Devices /\ ~(devices[d].revoked /\ enabled) /\ ~(assigned \subseteq roots) ->
         "INVALID_ROOT_ASSIGNMENT"
    [] OTHER -> "OK"

(* A patch names any of the fields; one it leaves out keeps its value.     *)
UpdateDevice(d, enabled, assigned) ==
  /\ UpdateError(d, enabled, assigned) = "OK"
  /\ devices' = [devices EXCEPT ![d].enabled = enabled, ![d].roots = assigned]
  /\ UNCHANGED <<allow, requests, sources, roots, client, adding>>

RevokeDevice(d, late) ==
  /\ d \in Devices
  /\ requests' = Pruned(late, NoRequest)
  /\ devices' = IF devices[d].revoked /\ ~devices[d].enabled THEN devices
                ELSE [devices EXCEPT ![d].enabled = FALSE, ![d].revoked = TRUE, ![d].version = @ + 1]
  /\ UNCHANGED <<allow, sources, roots, client, adding>>

-----------------------------------------------------------------------------
(* Sources and roots.                                                      *)

ConnectSource(s) ==
  /\ sources[s] = "none"
  /\ Cardinality(Sources) < SourceLimit
  /\ sources' = [sources EXCEPT ![s] = "healthy"]
  /\ UNCHANGED <<allow, requests, devices, roots, client, adding>>

ReconnectSource(s) ==
  /\ s \in Sources
  /\ sources' = [sources EXCEPT ![s] = "healthy"]
  /\ UNCHANGED <<allow, requests, devices, roots, client, adding>>

MarkSourceReauthRequired(s) ==
  /\ s \in Sources
  /\ sources' = [sources EXCEPT ![s] = "reauth-required"]
  /\ UNCHANGED <<allow, requests, devices, roots, client, adding>>

WithoutRoots(removed) == [d \in Device |-> [devices[d] EXCEPT !.roots = @ \ removed]]

RemoveSource(s) ==
  LET removed == {r \in roots : sourceOf[r] = s} IN
  /\ s \in Sources
  /\ sources' = [sources EXCEPT ![s] = "removed"]
  /\ roots' = roots \ removed
  /\ devices' = WithoutRoots(removed)
  /\ UNCHANGED <<allow, requests, client, adding>>

RemoveRoot(r) ==
  /\ r \in roots
  /\ roots' = roots \ {r}
  /\ devices' = WithoutRoots({r})
  /\ UNCHANGED <<allow, requests, sources, client, adding>>

(* createRoot: the source is read, the provider is asked for the folder    *)
(* and its ancestors, and the reducer looks at the source again.           *)
StartRoot(r) ==
  /\ r \notin adding
  /\ sources[sourceOf[r]] = "healthy"
  /\ adding' = adding \cup {r}
  /\ UNCHANGED <<document, client>>

(* Mutant: the reducer does not look at the source again.                  *)
AddRootErrorAsRead(r) ==
  IF r \notin roots /\ Cardinality(roots) >= RootLimit THEN "CONTROL_PLANE_LIMIT_EXCEEDED" ELSE "OK"

AddRootError(r) ==
  CASE sources[sourceOf[r]] # "healthy" -> "SOURCE_CHANGED"
    [] sources[sourceOf[r]] = "healthy" /\ r \notin roots /\ Cardinality(roots) >= RootLimit ->
         "CONTROL_PLANE_LIMIT_EXCEEDED"
    [] OTHER -> "OK"

AddRoot(r) ==
  /\ r \in adding
  /\ adding' = adding \ {r}
  /\ AddRootError(r) = "OK"
  /\ roots' = roots \cup {r}
  /\ UNCHANGED <<allow, requests, devices, sources, client>>

(* A provider call fails, or the reducer throws.                           *)
AddRootRefused(r) ==
  /\ r \in adding
  /\ adding' = adding \ {r}
  /\ UNCHANGED <<document, client>>

(* Calls under way die; the document and the cookies stay.                 *)
Crash ==
  /\ client' = [c \in Client |-> IF client[c].pc = "enrolled" THEN client[c] ELSE IdleClient]
  /\ adding' = {}
  /\ UNCHANGED document

-----------------------------------------------------------------------------
AdministratorStep ==
  \/ UpdateSettings
  \/ \E q \in Request, late \in SUBSET Late :
       Deny(q, late) \/ \E d \in Device, assigned \in SUBSET Root : Approve(q, d, assigned, late)
  \/ \E d \in Device, enabled \in BOOLEAN, assigned \in SUBSET Root :
       UpdateDevice(d, enabled, assigned)
  \/ \E d \in Device, late \in SUBSET Late : RevokeDevice(d, late)
  \/ \E s \in Source : RemoveSource(s)
  \/ \E r \in Root : RemoveRoot(r) \/ StartRoot(r) \/ AddRoot(r) \/ AddRootRefused(r)

SourceStep ==
  \E s \in Source : ConnectSource(s) \/ ReconnectSource(s) \/ MarkSourceReauthRequired(s)

ClientStep ==
  \/ \E q \in Request, late \in SUBSET Late : CreateRequest(q, late)
  \/ \E c \in Client :
       \/ \E q \in Request : StartClaim(c, q)
       \/ Claim(c) \/ ClaimRefused(c) \/ AnswerArrives(c) \/ SessionEnds(c)

Next ==
  \/ AdministratorStep \/ SourceStep \/ ClientStep \/ Crash
  \/ \E q \in Request : RequestExpires(q)

Spec == Init /\ [][Next]_vars

-----------------------------------------------------------------------------
(* Properties.                                                             *)

(* Every assigned root is selected and every selected root has its source: *)
(* parseControlPlaneDocument refuses a document in which one of them is    *)
(* missing, so a mutation that left one behind could not be stored, and a  *)
(* createRoot() under way while its source is removed would be its chance. *)
ReferencesIntact ==
  /\ \A d \in Device : devices[d].roots \subseteq roots
  /\ \A r \in roots : sourceOf[r] \in Sources

(* The collections keep the limits of CONTROL_PLANE_LIMITS, which the same *)
(* parser enforces, with the expired requests dropped before the check.    *)
WithinLimits ==
  /\ Cardinality(Stored(requests)) <= RequestLimit
  /\ Cardinality(Devices) <= DeviceLimit
  /\ Cardinality(Sources) <= SourceLimit
  /\ Cardinality(roots) <= RootLimit

(* The document stays one that parseControlPlaneDocument accepts: the next *)
(* load of anything else would fail, and with it every request.            *)
DocumentIsValid == TypeOK /\ ReferencesIntact /\ WithinLimits

StaysResolved(q) ==
  requests[q].status \in {"approved", "denied", "expired"} =>
    /\ requests'[q].status \in {requests[q].status, "gone"}
    /\ requests'[q].device \in {requests[q].device, NoDevice}

(* A request is resolved once: approved, denied or found expired, it stays *)
(* so until it is dropped, whichever administrators and clients race.      *)
ResolvedOnce == [][\A q \in Request : StaysResolved(q)]_vars

(* The clients that hold a session of a device, or are being given one.    *)
HasSession(c, d) == client[c].pc \in {"answered", "enrolled"} /\ client[c].device = d
Holders(d) == {c \in Client : HasSession(c, d)}

Offered(d) == \E q \in Request : requests[q].status = "approved" /\ requests[q].device = d

Standing(d) ==
  IF devices[d].version = 0 THEN "none"
  ELSE IF devices[d].revoked THEN "revoked"
  ELSE IF Offered(d) THEN "offered" ELSE "settled"

Admitted(d) == {c \in Client : client[c].device = d /\ Accepted(c)}

Access == INSTANCE DeviceAccess WITH
  access <- [d \in Device |-> Standing(d)],
  holders <- [d \in Device |-> Holders(d)],
  admitted <- [d \in Device |-> Admitted(d)]

(* Enrollment implements DeviceAccess: a device is offered once and its    *)
(* session is given to one client at most, whatever polls run into each    *)
(* other, into a revocation, a denial, an expiry or a crash; a revoked     *)
(* device gets none and its session is refused, and revocation is final.   *)
EnrollmentIsSafe == Access!Spec

(* Why it does: the conjuncts of the inductive invariant.                  *)

(* A device is revoked when its session version has gone up, and then      *)
(* disabled for good; what was never approved has nothing.                 *)
DevicesConsistent ==
  \A d \in Device :
    /\ devices[d].revoked <=> devices[d].version = 2
    /\ devices[d].revoked => ~devices[d].enabled
    /\ devices[d].version = 0 => ~devices[d].enabled

(* Exactly the approved requests name a device; each names its own, which  *)
(* exists and of which nobody has a session yet.                           *)
RequestsConsistent ==
  /\ \A q \in Request :
       /\ requests[q].status = "approved" => requests[q].device \in Devices
       /\ requests[q].status # "approved" => requests[q].device = NoDevice
       /\ requests[q].status = "approved" => \A c \in Client : ~HasSession(c, requests[q].device)
  /\ \A q, p \in Request :
       requests[q].status = "approved" /\ requests[p].status = "approved"
       /\ requests[q].device = requests[p].device => q = p

(* A call that claims knows its request and device; a session is one of a  *)
(* device that exists, and is its only one.                                *)
ClientsConsistent ==
  /\ \A c \in Client :
       /\ client[c].pc = "claiming" => client[c].request \in Request /\ client[c].device \in Device
       /\ client[c].pc \in {"answered", "enrolled"} => client[c].device \in Devices
  /\ \A c, b \in Client, d \in Device : HasSession(c, d) /\ HasSession(b, d) => c = b

Inv ==
  /\ TypeOK
  /\ ReferencesIntact
  /\ DevicesConsistent
  /\ RequestsConsistent
  /\ ClientsConsistent
=============================================================================
