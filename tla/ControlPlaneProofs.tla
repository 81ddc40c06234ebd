------------------------ MODULE ControlPlaneProofs ------------------------
(***************************************************************************)
(* Theorems about the control document and enrollment, for every set of    *)
(* requests, devices, sources, roots and clients and for all limits.       *)
(*                                                                         *)
(* First, one lemma per action says that it keeps Inv; where the action    *)
(* leaves a conjunct's variables alone its step is one line.  Then the     *)
(* steps are mapped to DeviceAccess: most of them only take offers away    *)
(* from a device (FewerOffers), and the others have a lemma of their own.  *)
(***************************************************************************)
EXTENDS ControlPlane, FiniteSetTheorems, TLAPS

(* A new request names no device, and those it drops name none any more.   *)
LEMMA CreateRequestInv ==
  ASSUME Inv, NEW q \in Request, NEW late \in SUBSET Late, CreateRequest(q, late)
  PROVE  Inv'
<1> USE SourceAssumption, SentinelAssumption DEF Inv, TypeOK, Devices
<1>1. TypeOK'
  <2>1. ASSUME NEW x \in Request PROVE requests'[x] \in RequestState
    BY DEF CreateRequest, Pruned, Dropped, Unused, NewRequest, Late, Stored, RequestState
  <2> QED BY <2>1 DEF CreateRequest, Pruned, Dropped, Unused, NewRequest, Late, Stored
<1>2. ReferencesIntact'
  BY DEF ReferencesIntact, CreateRequest, Sources, DeviceState
<1>3. DevicesConsistent'
  BY DEF DevicesConsistent, CreateRequest, DeviceState
<1>4. RequestsConsistent'
  BY DEF RequestsConsistent, CreateRequest, Pruned, Dropped, Unused, NewRequest, Late, Stored, HasSession, RequestState, DeviceState, ClientState
<1>5. ClientsConsistent'
  BY DEF ClientsConsistent, CreateRequest, DeviceState, ClientState, HasSession
<1> QED BY <1>1, <1>2, <1>3, <1>4, <1>5 DEF Inv

(* Only the clock changes.                                                 *)
LEMMA RequestExpiresInv ==
  ASSUME Inv, NEW q \in Request, RequestExpires(q)
  PROVE  Inv'
<1> USE SourceAssumption, SentinelAssumption DEF Inv, TypeOK, Devices
<1>1. TypeOK'
  <2>1. ASSUME NEW x \in Request PROVE requests'[x] \in RequestState
    <3>1. requests[x] \in RequestState
      OBVIOUS
    <3>2. CASE x = q
      BY <3>1, <3>2 DEF RequestExpires, Stored, Late, RequestState
    <3>3. CASE x # q
      BY <3>1, <3>3 DEF RequestExpires, Stored, Late, RequestState
    <3> QED BY <3>2, <3>3
  <2> QED BY <2>1 DEF RequestExpires, Stored, Late
<1>2. ReferencesIntact'
  BY DEF ReferencesIntact, RequestExpires, Sources, DeviceState
<1>3. DevicesConsistent'
  BY DEF DevicesConsistent, RequestExpires, DeviceState
<1>4. RequestsConsistent'
  BY DEF RequestsConsistent, RequestExpires, Stored, Late, HasSession, RequestState, DeviceState, ClientState
<1>5. ClientsConsistent'
  BY DEF ClientsConsistent, RequestExpires, DeviceState, ClientState, HasSession
<1> QED BY <1>1, <1>2, <1>3, <1>4, <1>5 DEF Inv

(* Only a setting changes.                                                 *)
LEMMA UpdateSettingsInv ==
  ASSUME Inv, UpdateSettings
  PROVE  Inv'
<1> USE SourceAssumption, SentinelAssumption DEF Inv, TypeOK, Devices
<1>1. TypeOK'
  BY DEF UpdateSettings, Sources
<1>2. ReferencesIntact'
  BY DEF ReferencesIntact, UpdateSettings, Sources, DeviceState
<1>3. DevicesConsistent'
  BY DEF DevicesConsistent, UpdateSettings, DeviceState
<1>4. RequestsConsistent'
  BY DEF RequestsConsistent, UpdateSettings, HasSession, RequestState, DeviceState, ClientState
<1>5. ClientsConsistent'
  BY DEF ClientsConsistent, UpdateSettings, DeviceState, ClientState, HasSession
<1> QED BY <1>1, <1>2, <1>3, <1>4, <1>5 DEF Inv

(* The device of an approval is new: nobody has a session of it, and no    *)
(* other request names it.                                                 *)
LEMMA ApproveInv ==
  ASSUME Inv, NEW q \in Request, NEW d \in Device, NEW assigned \in SUBSET Root, NEW late \in SUBSET Late, Approve(q, d, assigned, late)
  PROVE  Inv'
<1> USE SourceAssumption, SentinelAssumption DEF Inv, TypeOK, Devices
<1>1. TypeOK'
  <2>1. ASSUME NEW x \in Request PROVE requests'[x] \in RequestState
    <3>1. requests[x] \in RequestState
      OBVIOUS
    <3>2. CASE x = q
      BY <3>1, <3>2 DEF Approve, ApproveError, Pruned, Dropped, Unused, Late, Stored, RequestState
    <3>3. CASE x # q
      BY <3>1, <3>3 DEF Approve, ApproveError, Pruned, Dropped, Unused, Late, Stored, RequestState
    <3> QED BY <3>2, <3>3
  <2>2. ASSUME NEW y \in Device PROVE devices'[y] \in DeviceState
    BY DEF Approve, ApproveError, Pruned, Dropped, Unused, Late, Stored, DeviceState
  <2> QED BY <2>1, <2>2 DEF Approve, ApproveError, Pruned, Dropped, Unused, Late, Stored
<1>2. ReferencesIntact'
  BY DEF ReferencesIntact, Approve, ApproveError, Pruned, Dropped, Unused, Late, Stored, Sources, DeviceState
<1>3. DevicesConsistent'
  BY DEF DevicesConsistent, Approve, ApproveError, Pruned, Dropped, Unused, Late, Stored, DeviceState
<1>4. RequestsConsistent'
  <2>1. requests' = [Pruned(late, q) EXCEPT ![q].status = "approved", ![q].device = d]
        /\ client' = client /\ devices[d].version = 0 /\ devices'[d].version = 1
    BY DEF Approve, DeviceState
  <2>2. \A x \in Request : requests[x].status = "approved" => requests[x].device # d
    BY <2>1 DEF RequestsConsistent
  <2>3. \A y \in Device : y # d => devices'[y] = devices[y]
    BY DEF Approve
  <2>4. requests'[q].status = "approved" /\ requests'[q].device = d
    <3>1. Pruned(late, q) \in [Request -> RequestState] /\ Pruned(late, q)[q] = requests[q]
      BY DEF Pruned, Dropped, Unused, RequestState
    <3>2. requests'[q] = [requests[q] EXCEPT !.status = "approved", !.device = d]
      BY <2>1, <3>1
    <3> QED BY <3>2 DEF RequestState
  <2>5. \A x \in Request : x # q => requests'[x] \in {requests[x], Dropped}
    BY <2>1 DEF Pruned
  <2>6. \A c \in Client : ~HasSession(c, d)'
    BY <2>1 DEF HasSession, ClientsConsistent
  <2>7. \A x \in Request : x # q /\ requests'[x].status = "approved" =>
          requests'[x] = requests[x] /\ requests[x].device \in Device \ {d}
    BY <2>2, <2>5 DEF Dropped, Unused, RequestsConsistent
  <2>8. \A c \in Client, y \in Device : HasSession(c, y)' <=> HasSession(c, y)
    BY <2>1 DEF HasSession
  <2>9. \A x \in Request : requests'[x].status # "approved" => requests'[x].device = NoDevice
    BY <2>4, <2>5 DEF RequestsConsistent, Dropped, Unused
  <2>10. ASSUME NEW x \in Request, requests'[x].status = "approved"
         PROVE  (requests[x].device \in Devices)' /\ (\A c \in Client : ~HasSession(c, requests[x].device))'
    <3>1. CASE x = q
      <4>1. requests'[x].device = d
        BY <2>4, <3>1
      <4>2. (requests[x].device \in Devices)'
        BY <2>1, <4>1
      <4>3. \A c \in Client : ~HasSession(c, requests[x].device)'
        BY <2>6, <4>1 DEF HasSession
      <4> QED BY <4>2, <4>3
    <3>2. CASE x # q
      <4>1. requests'[x] = requests[x] /\ requests[x].device \in Device \ {d}
        BY <2>7, <2>10, <3>2
      <4>2. requests[x].device \in Devices /\ \A c \in Client : ~HasSession(c, requests[x].device)
        BY <2>10, <4>1 DEF RequestsConsistent
      <4> QED BY <2>1, <2>3, <4>1, <4>2 DEF HasSession
    <3> QED BY <3>1, <3>2
  <2>11. ASSUME NEW x \in Request, NEW p \in Request, requests'[x].status = "approved",
                requests'[p].status = "approved", requests'[x].device = requests'[p].device
         PROVE  x = p
    BY <2>4, <2>7, <2>11 DEF RequestsConsistent
  <2> QED BY <2>9, <2>10, <2>11 DEF RequestsConsistent
<1>5. ClientsConsistent'
  BY DEF ClientsConsistent, Approve, ApproveError, Pruned, Dropped, Unused, Late, Stored, DeviceState, ClientState, HasSession
<1> QED BY <1>1, <1>2, <1>3, <1>4, <1>5 DEF Inv

(* A request that is denied or found expired names no device.              *)
LEMMA DenyInv ==
  ASSUME Inv, NEW q \in Request, NEW late \in SUBSET Late, Deny(q, late)
  PROVE  Inv'
<1> USE SourceAssumption, SentinelAssumption DEF Inv, TypeOK, Devices
<1>1. TypeOK'
  <2>1. ASSUME NEW x \in Request PROVE requests'[x] \in RequestState
    <3>1. requests[x] \in RequestState
      OBVIOUS
    <3>2. CASE x = q
      BY <3>1, <3>2 DEF Deny, Pruned, Dropped, Unused, Late, Stored, RequestState
    <3>3. CASE x # q
      BY <3>1, <3>3 DEF Deny, Pruned, Dropped, Unused, Late, Stored, RequestState
    <3> QED BY <3>2, <3>3
  <2> QED BY <2>1 DEF Deny, Pruned, Dropped, Unused, Late, Stored
<1>2. ReferencesIntact'
  BY DEF ReferencesIntact, Deny, Sources, DeviceState
<1>3. DevicesConsistent'
  BY DEF DevicesConsistent, Deny, DeviceState
<1>4. RequestsConsistent'
  <2>1. requests'[q].status # "approved" /\ requests'[q].device = NoDevice
    BY DEF Deny, Pruned, Dropped, Unused, RequestState, RequestsConsistent
  <2>2. \A x \in Request : x # q => requests'[x] \in {requests[x], Dropped}
    BY DEF Deny, Pruned
  <2>3. client' = client /\ devices' = devices
    BY DEF Deny
  <2> QED BY <2>1, <2>2, <2>3 DEF RequestsConsistent, Dropped, Unused, HasSession
<1>5. ClientsConsistent'
  BY DEF ClientsConsistent, Deny, DeviceState, ClientState, HasSession
<1> QED BY <1>1, <1>2, <1>3, <1>4, <1>5 DEF Inv

(* The claim takes request and device from the document.                   *)
LEMMA StartClaimInv ==
  ASSUME Inv, NEW c \in Client, NEW q \in Request, StartClaim(c, q)
  PROVE  Inv'
<1> USE SourceAssumption, SentinelAssumption DEF Inv, TypeOK, Devices
<1>1. TypeOK'
  <2>1. ASSUME NEW z \in Client PROVE client'[z] \in ClientState
    <3>1. client[z] \in ClientState
      OBVIOUS
    <3>2. CASE z = c
      <4>1. requests[q].device \in Device \cup {NoDevice}
        BY DEF RequestState
      <4>2. client'[c] = [pc |-> "claiming", request |-> q, device |-> requests[q].device, version |-> 0]
        BY DEF StartClaim, IdleClient
      <4> QED BY <3>2, <4>1, <4>2 DEF ClientState
    <3>3. CASE z # c
      BY <3>1, <3>3 DEF StartClaim, IdleClient, document, ClientState
    <3> QED BY <3>2, <3>3
  <2> QED BY <2>1 DEF StartClaim, IdleClient, document
<1>2. ReferencesIntact'
  BY DEF ReferencesIntact, StartClaim, document, Sources, DeviceState
<1>3. DevicesConsistent'
  BY DEF DevicesConsistent, StartClaim, document, DeviceState
<1>4. RequestsConsistent'
  BY DEF RequestsConsistent, ClientsConsistent, StartClaim, IdleClient, document, HasSession, RequestState, DeviceState, ClientState
<1>5. ClientsConsistent'
  BY DEF ClientsConsistent, RequestsConsistent, StartClaim, IdleClient, document, DeviceState, ClientState, HasSession
<1> QED BY <1>1, <1>2, <1>3, <1>4, <1>5 DEF Inv

(* The device that is claimed had no session, and its request goes.        *)
LEMMA ClaimInv ==
  ASSUME Inv, NEW c \in Client, Claim(c)
  PROVE  Inv'
<1> USE SourceAssumption, SentinelAssumption DEF Inv, TypeOK, Devices
<1>1. TypeOK'
  <2>1. ASSUME NEW x \in Request PROVE requests'[x] \in RequestState
    BY DEF Claim, StillApproved, Usable, Dropped, Unused, IdleClient, RequestState
  <2>2. ASSUME NEW z \in Client PROVE client'[z] \in ClientState
    BY DEF Claim, StillApproved, Usable, Dropped, Unused, IdleClient, ClientState, DeviceState, ClientsConsistent
  <2> QED BY <2>1, <2>2 DEF Claim, StillApproved, Usable, Dropped, Unused, IdleClient
<1>2. ReferencesIntact'
  BY DEF ReferencesIntact, Claim, Sources, DeviceState
<1>3. DevicesConsistent'
  BY DEF DevicesConsistent, Claim, DeviceState
<1>4. RequestsConsistent'
  BY DEF RequestsConsistent, ClientsConsistent, Claim, StillApproved, Usable, Dropped, Unused, IdleClient, HasSession, RequestState, DeviceState, ClientState
<1>5. ClientsConsistent'
  <2>1. client[c].device \in Devices
    BY DEF Claim, StillApproved, ClientsConsistent, RequestsConsistent
  <2>2. PICK d \in Device : d = client[c].device
    BY <2>1
  <2>3. d \in Devices /\ (\A b \in Client : ~HasSession(b, d)) /\ devices' = devices
    BY <2>2 DEF Claim, StillApproved, ClientsConsistent, RequestsConsistent
  <2>4. client'[c] = [IdleClient EXCEPT !.pc = "answered", !.device = d, !.version = devices[d].version]
    BY <2>2 DEF Claim
  <2>5. client'[c].pc = "answered" /\ client'[c].device = d
    BY <2>4 DEF IdleClient
  <2>6. \A b \in Client : b # c => client'[b] = client[b]
    BY DEF Claim
  <2>7. \A b \in Client : b # c => ~HasSession(b, d)'
    BY <2>3, <2>6 DEF HasSession
  <2> QED BY <2>3, <2>5, <2>6, <2>7 DEF ClientsConsistent, HasSession
<1> QED BY <1>1, <1>2, <1>3, <1>4, <1>5 DEF Inv

(* A refused claim forgets what it has read.                               *)
LEMMA ClaimRefusedInv ==
  ASSUME Inv, NEW c \in Client, ClaimRefused(c)
  PROVE  Inv'
<1> USE SourceAssumption, SentinelAssumption DEF Inv, TypeOK, Devices
<1>1. TypeOK'
  <2>1. ASSUME NEW z \in Client PROVE client'[z] \in ClientState
    BY DEF ClaimRefused, IdleClient, document, ClientState
  <2> QED BY <2>1 DEF ClaimRefused, IdleClient, document
<1>2. ReferencesIntact'
  BY DEF ReferencesIntact, ClaimRefused, document, Sources, DeviceState
<1>3. DevicesConsistent'
  BY DEF DevicesConsistent, ClaimRefused, document, DeviceState
<1>4. RequestsConsistent'
  BY DEF RequestsConsistent, ClaimRefused, IdleClient, document, HasSession, RequestState, DeviceState, ClientState
<1>5. ClientsConsistent'
  BY DEF ClientsConsistent, ClaimRefused, IdleClient, document, DeviceState, ClientState, HasSession
<1> QED BY <1>1, <1>2, <1>3, <1>4, <1>5 DEF Inv

(* The session of the answer becomes one of the client.                    *)
LEMMA AnswerArrivesInv ==
  ASSUME Inv, NEW c \in Client, AnswerArrives(c)
  PROVE  Inv'
<1> USE SourceAssumption, SentinelAssumption DEF Inv, TypeOK, Devices
<1>1. TypeOK'
  <2>1. ASSUME NEW z \in Client PROVE client'[z] \in ClientState
    BY DEF AnswerArrives, document, ClientState
  <2> QED BY <2>1 DEF AnswerArrives, document
<1>2. ReferencesIntact'
  BY DEF ReferencesIntact, AnswerArrives, document, Sources, DeviceState
<1>3. DevicesConsistent'
  BY DEF DevicesConsistent, AnswerArrives, document, DeviceState
<1>4. RequestsConsistent'
  BY DEF RequestsConsistent, ClientsConsistent, AnswerArrives, document, HasSession, RequestState, DeviceState, ClientState
<1>5. ClientsConsistent'
  BY DEF ClientsConsistent, AnswerArrives, document, DeviceState, ClientState, HasSession
<1> QED BY <1>1, <1>2, <1>3, <1>4, <1>5 DEF Inv

(* One session less.                                                       *)
LEMMA SessionEndsInv ==
  ASSUME Inv, NEW c \in Client, SessionEnds(c)
  PROVE  Inv'
<1> USE SourceAssumption, SentinelAssumption DEF Inv, TypeOK, Devices
<1>1. TypeOK'
  <2>1. ASSUME NEW z \in Client PROVE client'[z] \in ClientState
    BY DEF SessionEnds, IdleClient, document, ClientState
  <2> QED BY <2>1 DEF SessionEnds, IdleClient, document
<1>2. ReferencesIntact'
  BY DEF ReferencesIntact, SessionEnds, document, Sources, DeviceState
<1>3. DevicesConsistent'
  BY DEF DevicesConsistent, SessionEnds, document, DeviceState
<1>4. RequestsConsistent'
  BY DEF RequestsConsistent, ClientsConsistent, SessionEnds, IdleClient, document, HasSession, RequestState, DeviceState, ClientState
<1>5. ClientsConsistent'
  BY DEF ClientsConsistent, SessionEnds, IdleClient, document, DeviceState, ClientState, HasSession
<1> QED BY <1>1, <1>2, <1>3, <1>4, <1>5 DEF Inv

(* A revoked device stays disabled, and only selected roots are assigned.  *)
LEMMA UpdateDeviceInv ==
  ASSUME Inv, NEW d \in Device, NEW enabled \in BOOLEAN, NEW assigned \in SUBSET Root, UpdateDevice(d, enabled, assigned)
  PROVE  Inv'
<1> USE SourceAssumption, SentinelAssumption DEF Inv, TypeOK, Devices
<1>1. TypeOK'
  <2>1. ASSUME NEW y \in Device PROVE devices'[y] \in DeviceState
    <3>1. devices[y] \in DeviceState
      OBVIOUS
    <3>2. CASE y = d
      BY <3>1, <3>2 DEF UpdateDevice, UpdateError, DeviceState
    <3>3. CASE y # d
      BY <3>1, <3>3 DEF UpdateDevice, UpdateError, DeviceState
    <3> QED BY <3>2, <3>3
  <2> QED BY <2>1 DEF UpdateDevice, UpdateError
<1>2. ReferencesIntact'
  BY DEF ReferencesIntact, UpdateDevice, UpdateError, Sources, DeviceState
<1>3. DevicesConsistent'
  BY DEF DevicesConsistent, UpdateDevice, UpdateError, DeviceState
<1>4. RequestsConsistent'
  BY DEF RequestsConsistent, UpdateDevice, UpdateError, HasSession, RequestState, DeviceState, ClientState
<1>5. ClientsConsistent'
  BY DEF ClientsConsistent, UpdateDevice, UpdateError, DeviceState, ClientState, HasSession
<1> QED BY <1>1, <1>2, <1>3, <1>4, <1>5 DEF Inv

(* Revocation raises the version once.                                     *)
LEMMA RevokeDeviceInv ==
  ASSUME Inv, NEW d \in Device, NEW late \in SUBSET Late, RevokeDevice(d, late)
  PROVE  Inv'
<1> USE SourceAssumption, SentinelAssumption DEF Inv, TypeOK, Devices
<1>1. TypeOK'
  <2>1. ASSUME NEW x \in Request PROVE requests'[x] \in RequestState
    BY DEF RevokeDevice, Pruned, Dropped, Unused, Late, Stored, RequestState
  <2>2. ASSUME NEW y \in Device PROVE devices'[y] \in DeviceState
    BY DEF RevokeDevice, Pruned, Dropped, Unused, Late, Stored, DeviceState, DevicesConsistent
  <2> QED BY <2>1, <2>2 DEF RevokeDevice, Pruned, Dropped, Unused, Late, Stored
<1>2. ReferencesIntact'
  BY DEF ReferencesIntact, RevokeDevice, Pruned, Dropped, Unused, Late, Stored, Sources, DeviceState
<1>3. DevicesConsistent'
  BY DEF DevicesConsistent, RevokeDevice, Pruned, Dropped, Unused, Late, Stored, DeviceState
<1>4. RequestsConsistent'
  BY DEF RequestsConsistent, RevokeDevice, Pruned, Dropped, Unused, Late, Stored, HasSession, RequestState, DeviceState, ClientState
<1>5. ClientsConsistent'
  BY DEF ClientsConsistent, RevokeDevice, Pruned, Dropped, Unused, Late, Stored, DeviceState, ClientState, HasSession
<1> QED BY <1>1, <1>2, <1>3, <1>4, <1>5 DEF Inv

(* One source more.                                                        *)
LEMMA ConnectSourceInv ==
  ASSUME Inv, NEW s \in Source, ConnectSource(s)
  PROVE  Inv'
<1> USE SourceAssumption, SentinelAssumption DEF Inv, TypeOK, Devices
<1>1. TypeOK'
  BY DEF ConnectSource, Sources
<1>2. ReferencesIntact'
  BY DEF ReferencesIntact, ConnectSource, Sources, DeviceState
<1>3. DevicesConsistent'
  BY DEF DevicesConsistent, ConnectSource, DeviceState
<1>4. RequestsConsistent'
  BY DEF RequestsConsistent, ConnectSource, HasSession, RequestState, DeviceState, ClientState
<1>5. ClientsConsistent'
  BY DEF ClientsConsistent, ConnectSource, DeviceState, ClientState, HasSession
<1> QED BY <1>1, <1>2, <1>3, <1>4, <1>5 DEF Inv

(* A source stays one.                                                     *)
LEMMA ReconnectSourceInv ==
  ASSUME Inv, NEW s \in Source, ReconnectSource(s)
  PROVE  Inv'
<1> USE SourceAssumption, SentinelAssumption DEF Inv, TypeOK, Devices
<1>1. TypeOK'
  BY DEF ReconnectSource, Sources
<1>2. ReferencesIntact'
  BY DEF ReferencesIntact, ReconnectSource, Sources, DeviceState
<1>3. DevicesConsistent'
  BY DEF DevicesConsistent, ReconnectSource, DeviceState
<1>4. RequestsConsistent'
  BY DEF RequestsConsistent, ReconnectSource, HasSession, RequestState, DeviceState, ClientState
<1>5. ClientsConsistent'
  BY DEF ClientsConsistent, ReconnectSource, DeviceState, ClientState, HasSession
<1> QED BY <1>1, <1>2, <1>3, <1>4, <1>5 DEF Inv

(* A source stays one.                                                     *)
LEMMA MarkSourceReauthRequiredInv ==
  ASSUME Inv, NEW s \in Source, MarkSourceReauthRequired(s)
  PROVE  Inv'
<1> USE SourceAssumption, SentinelAssumption DEF Inv, TypeOK, Devices
<1>1. TypeOK'
  BY DEF MarkSourceReauthRequired, Sources
<1>2. ReferencesIntact'
  BY DEF ReferencesIntact, MarkSourceReauthRequired, Sources, DeviceState
<1>3. DevicesConsistent'
  BY DEF DevicesConsistent, MarkSourceReauthRequired, DeviceState
<1>4. RequestsConsistent'
  BY DEF RequestsConsistent, MarkSourceReauthRequired, HasSession, RequestState, DeviceState, ClientState
<1>5. ClientsConsistent'
  BY DEF ClientsConsistent, MarkSourceReauthRequired, DeviceState, ClientState, HasSession
<1> QED BY <1>1, <1>2, <1>3, <1>4, <1>5 DEF Inv

(* A source takes its roots with it, and those their assignments.          *)
LEMMA RemoveSourceInv ==
  ASSUME Inv, NEW s \in Source, RemoveSource(s)
  PROVE  Inv'
<1> USE SourceAssumption, SentinelAssumption DEF Inv, TypeOK, Devices
<1>1. TypeOK'
  <2>1. ASSUME NEW y \in Device PROVE devices'[y] \in DeviceState
    BY DEF RemoveSource, WithoutRoots, DeviceState
  <2> QED BY <2>1 DEF RemoveSource, WithoutRoots
<1>2. ReferencesIntact'
  BY DEF ReferencesIntact, RemoveSource, WithoutRoots, Sources, DeviceState
<1>3. DevicesConsistent'
  BY DEF DevicesConsistent, RemoveSource, WithoutRoots, DeviceState
<1>4. RequestsConsistent'
  BY DEF RequestsConsistent, RemoveSource, WithoutRoots, HasSession, RequestState, DeviceState, ClientState
<1>5. ClientsConsistent'
  BY DEF ClientsConsistent, RemoveSource, WithoutRoots, DeviceState, ClientState, HasSession
<1> QED BY <1>1, <1>2, <1>3, <1>4, <1>5 DEF Inv

(* A root takes its assignments with it.                                   *)
LEMMA RemoveRootInv ==
  ASSUME Inv, NEW r \in Root, RemoveRoot(r)
  PROVE  Inv'
<1> USE SourceAssumption, SentinelAssumption DEF Inv, TypeOK, Devices
<1>1. TypeOK'
  <2>1. ASSUME NEW y \in Device PROVE devices'[y] \in DeviceState
    BY DEF RemoveRoot, WithoutRoots, DeviceState
  <2> QED BY <2>1 DEF RemoveRoot, WithoutRoots
<1>2. ReferencesIntact'
  BY DEF ReferencesIntact, RemoveRoot, WithoutRoots, Sources, DeviceState
<1>3. DevicesConsistent'
  BY DEF DevicesConsistent, RemoveRoot, WithoutRoots, DeviceState
<1>4. RequestsConsistent'
  BY DEF RequestsConsistent, RemoveRoot, WithoutRoots, HasSession, RequestState, DeviceState, ClientState
<1>5. ClientsConsistent'
  BY DEF ClientsConsistent, RemoveRoot, WithoutRoots, DeviceState, ClientState, HasSession
<1> QED BY <1>1, <1>2, <1>3, <1>4, <1>5 DEF Inv

(* The document does not change.                                           *)
LEMMA StartRootInv ==
  ASSUME Inv, NEW r \in Root, StartRoot(r)
  PROVE  Inv'
<1> USE SourceAssumption, SentinelAssumption DEF Inv, TypeOK, Devices
<1>1. TypeOK'
  BY DEF StartRoot, document, Sources
<1>2. ReferencesIntact'
  BY DEF ReferencesIntact, StartRoot, document, Sources, DeviceState
<1>3. DevicesConsistent'
  BY DEF DevicesConsistent, StartRoot, document, DeviceState
<1>4. RequestsConsistent'
  BY DEF RequestsConsistent, StartRoot, document, HasSession, RequestState, DeviceState, ClientState
<1>5. ClientsConsistent'
  BY DEF ClientsConsistent, StartRoot, document, DeviceState, ClientState, HasSession
<1> QED BY <1>1, <1>2, <1>3, <1>4, <1>5 DEF Inv

(* The reducer has found the source healthy.                               *)
LEMMA AddRootInv ==
  ASSUME Inv, NEW r \in Root, AddRoot(r)
  PROVE  Inv'
<1> USE SourceAssumption, SentinelAssumption DEF Inv, TypeOK, Devices
<1>1. TypeOK'
  BY DEF AddRoot, AddRootError, Sources
<1>2. ReferencesIntact'
  BY DEF ReferencesIntact, AddRoot, AddRootError, Sources, DeviceState
<1>3. DevicesConsistent'
  BY DEF DevicesConsistent, AddRoot, AddRootError, DeviceState
<1>4. RequestsConsistent'
  BY DEF RequestsConsistent, AddRoot, AddRootError, HasSession, RequestState, DeviceState, ClientState
<1>5. ClientsConsistent'
  BY DEF ClientsConsistent, AddRoot, AddRootError, DeviceState, ClientState, HasSession
<1> QED BY <1>1, <1>2, <1>3, <1>4, <1>5 DEF Inv

(* The document does not change.                                           *)
LEMMA AddRootRefusedInv ==
  ASSUME Inv, NEW r \in Root, AddRootRefused(r)
  PROVE  Inv'
<1> USE SourceAssumption, SentinelAssumption DEF Inv, TypeOK, Devices
<1>1. TypeOK'
  BY DEF AddRootRefused, document, Sources
<1>2. ReferencesIntact'
  BY DEF ReferencesIntact, AddRootRefused, document, Sources, DeviceState
<1>3. DevicesConsistent'
  BY DEF DevicesConsistent, AddRootRefused, document, DeviceState
<1>4. RequestsConsistent'
  BY DEF RequestsConsistent, AddRootRefused, document, HasSession, RequestState, DeviceState, ClientState
<1>5. ClientsConsistent'
  BY DEF ClientsConsistent, AddRootRefused, document, DeviceState, ClientState, HasSession
<1> QED BY <1>1, <1>2, <1>3, <1>4, <1>5 DEF Inv

(* Calls are forgotten; the sessions that have arrived stay.               *)
LEMMA CrashInv ==
  ASSUME Inv, Crash
  PROVE  Inv'
<1> USE SourceAssumption, SentinelAssumption DEF Inv, TypeOK, Devices
<1>1. TypeOK'
  <2>1. ASSUME NEW z \in Client PROVE client'[z] \in ClientState
    BY DEF Crash, IdleClient, document, ClientState
  <2> QED BY <2>1 DEF Crash, IdleClient, document
<1>2. ReferencesIntact'
  BY DEF ReferencesIntact, Crash, document, Sources, DeviceState
<1>3. DevicesConsistent'
  BY DEF DevicesConsistent, Crash, document, DeviceState
<1>4. RequestsConsistent'
  BY DEF RequestsConsistent, Crash, IdleClient, document, HasSession, RequestState, DeviceState, ClientState
<1>5. ClientsConsistent'
  BY DEF ClientsConsistent, Crash, IdleClient, document, DeviceState, ClientState, HasSession
<1> QED BY <1>1, <1>2, <1>3, <1>4, <1>5 DEF Inv

-----------------------------------------------------------------------------
(* The document starts empty.                                              *)
LEMMA InitInv == Init => Inv
  BY SentinelAssumption
  DEF Init, Inv, TypeOK, ReferencesIntact, DevicesConsistent, RequestsConsistent,
      ClientsConsistent, RequestState, DeviceState, ClientState, Unused, NotApproved,
      IdleClient, HasSession, Devices, Sources

(* Inv depends on the variables only.                                      *)
LEMMA StutterInv == Inv /\ UNCHANGED vars => Inv'
  BY DEF vars, document, Inv, TypeOK, ReferencesIntact, DevicesConsistent, RequestsConsistent,
         ClientsConsistent, HasSession, Devices, Sources

(* Every step keeps Inv.                                                   *)
LEMMA StepInv == Inv /\ [Next]_vars => Inv'
<1> SUFFICES ASSUME Inv, [Next]_vars PROVE Inv'
  OBVIOUS
<1>1. CASE AdministratorStep
  BY <1>1, UpdateSettingsInv, DenyInv, ApproveInv, UpdateDeviceInv, RevokeDeviceInv,
     RemoveSourceInv, RemoveRootInv, StartRootInv, AddRootInv, AddRootRefusedInv
  DEF AdministratorStep
<1>2. CASE SourceStep
  BY <1>2, ConnectSourceInv, ReconnectSourceInv, MarkSourceReauthRequiredInv DEF SourceStep
<1>3. CASE ClientStep
  BY <1>3, CreateRequestInv, StartClaimInv, ClaimInv, ClaimRefusedInv, AnswerArrivesInv,
     SessionEndsInv DEF ClientStep
<1>4. CASE Crash
  BY <1>4, CrashInv
<1>5. CASE \E q \in Request : RequestExpires(q)
  BY <1>5, RequestExpiresInv
<1>6. CASE UNCHANGED vars
  BY <1>6, StutterInv
<1> QED BY <1>1, <1>2, <1>3, <1>4, <1>5, <1>6 DEF Next

(* The inductive invariant of the control document and its clients.        *)
THEOREM Invariant == Spec => []Inv
  BY InitInv, StepInv, PTL DEF Spec

(* The variables have their types.                                         *)
THEOREM TypeCorrect == Spec => []TypeOK
<1>1. Inv => TypeOK
  BY DEF Inv
<1> QED BY <1>1, Invariant, PTL

(* No mutation leaves a root without its source or an assignment without   *)
(* its root, so the store never refuses a document for that.               *)
THEOREM ReferencesAreIntact == Spec => []ReferencesIntact
<1>1. Inv => ReferencesIntact
  BY DEF Inv
<1> QED BY <1>1, Invariant, PTL

-----------------------------------------------------------------------------
(* The limits.  A mutation that adds to a collection has compared its size *)
(* with the limit; the others only take something away.                    *)

(* A limit that holds also holds for what is left.                         *)
LEMMA LimitKept ==
  ASSUME NEW S, IsFiniteSet(S), NEW T \in SUBSET S, NEW n \in Nat, Cardinality(S) <= n
  PROVE  Cardinality(T) <= n
<1>1. Cardinality(T) \in Nat /\ Cardinality(S) \in Nat /\ Cardinality(T) <= Cardinality(S)
  BY FS_Subset, FS_CardinalityType
<1> QED BY <1>1

(* Below the limit there is room for one more.                             *)
LEMMA RoomForOne ==
  ASSUME NEW S, IsFiniteSet(S), NEW x, NEW n \in Nat, ~(Cardinality(S) >= n)
  PROVE  Cardinality(S \cup {x}) <= n
<1>1. Cardinality(S) \in Nat
  BY FS_CardinalityType
<1>2. Cardinality(S \cup {x}) = IF x \in S THEN Cardinality(S) ELSE Cardinality(S) + 1
  BY FS_AddElement
<1>3. Cardinality(S \cup {x}) = Cardinality(S) \/ Cardinality(S \cup {x}) = Cardinality(S) + 1
  BY <1>2
<1> QED BY <1>1, <1>3

(* What the collections of a document are made of is finite.               *)
LEMMA Finite ==
  ASSUME TypeOK
  PROVE  /\ IsFiniteSet(Stored(requests)) /\ IsFiniteSet(Devices)
         /\ IsFiniteSet(Sources) /\ IsFiniteSet(roots)
         /\ \A late, kept : IsFiniteSet(Stored(Pruned(late, kept)))
<1>1. Stored(requests) \subseteq Request /\ Devices \subseteq Device
      /\ Sources \subseteq Source /\ roots \subseteq Root
  BY DEF Stored, Devices, Sources, TypeOK
<1>2. \A late, kept : IsFiniteSet(Stored(Pruned(late, kept)))
  <2> TAKE late, kept
  <2>1. Stored(Pruned(late, kept)) \subseteq Request
    BY DEF Stored
  <2> QED BY <2>1, FiniteAssumption, FS_Subset
<1> QED BY <1>1, <1>2, FiniteAssumption, FS_Subset

(* Only createRequest() adds a request.                                    *)
LEMMA StoredSteps ==
  ASSUME Inv, [Next]_vars,
         ~\E q \in Request, late \in SUBSET Late : CreateRequest(q, late)
  PROVE  Stored(requests)' \subseteq Stored(requests)
<1> USE DEF Inv, TypeOK
<1>1. ASSUME NEW q \in Request, NEW late \in SUBSET Late, Deny(q, late)
      PROVE  Stored(requests)' \subseteq Stored(requests)
  <2>1. Pruned(late, q) \in [Request -> RequestState]
    BY DEF Pruned, Dropped, Unused, RequestState
  <2>2. \A x \in Request : x # q => requests'[x] \in {requests[x], Dropped}
    BY <1>1, <2>1 DEF Deny, Pruned
  <2> QED BY <1>1, <2>2 DEF Deny, Stored, Dropped, Unused
<1>2. ASSUME NEW q \in Request, NEW d \in Device, NEW assigned \in SUBSET Root,
             NEW late \in SUBSET Late, Approve(q, d, assigned, late)
      PROVE  Stored(requests)' \subseteq Stored(requests)
  <2>1. Pruned(late, q) \in [Request -> RequestState]
    BY DEF Pruned, Dropped, Unused, RequestState
  <2>2. \A x \in Request : x # q => requests'[x] \in {requests[x], Dropped}
    BY <1>2, <2>1 DEF Approve, Pruned
  <2>3. q \in Stored(requests)
    BY <1>2 DEF Approve, ApproveError
  <2> QED BY <1>2, <2>2, <2>3 DEF Stored, Dropped, Unused
<1>3. ASSUME NEW d \in Device, NEW late \in SUBSET Late, RevokeDevice(d, late)
      PROVE  Stored(requests)' \subseteq Stored(requests)
  BY <1>3 DEF RevokeDevice, Pruned, Stored, Dropped, Unused
<1>4. ASSUME NEW c \in Client, Claim(c)
      PROVE  Stored(requests)' \subseteq Stored(requests)
  BY <1>4 DEF Claim, Stored, Dropped, Unused, RequestState
<1>5. ASSUME NEW q \in Request, RequestExpires(q)
      PROVE  Stored(requests)' \subseteq Stored(requests)
  BY <1>5 DEF RequestExpires, Stored, Late, RequestState
<1>6. CASE UNCHANGED requests
  BY <1>6 DEF Stored
<1>7. CASE AdministratorStep
  BY <1>7, <1>1, <1>2, <1>3, <1>6
  DEF AdministratorStep, UpdateSettings, UpdateDevice, RemoveSource, RemoveRoot, StartRoot,
      AddRoot, AddRootRefused, document
<1>8. CASE SourceStep
  BY <1>8, <1>6 DEF SourceStep, ConnectSource, ReconnectSource, MarkSourceReauthRequired
<1>9. CASE ClientStep
  BY <1>9, <1>4, <1>6
  DEF ClientStep, StartClaim, ClaimRefused, AnswerArrives, SessionEnds, document
<1> QED BY <1>5, <1>6, <1>7, <1>8, <1>9 DEF Next, Crash, document, vars

LEMMA RequestsWithinLimit ==
  ASSUME Inv, [Next]_vars, Cardinality(Stored(requests)) <= RequestLimit
  PROVE  Cardinality(Stored(requests))' <= RequestLimit
<1>1. TypeOK
  BY DEF Inv
<1>2. ASSUME NEW q \in Request, NEW late \in SUBSET Late, CreateRequest(q, late)
      PROVE  Cardinality(Stored(requests))' <= RequestLimit
  <2> DEFINE rest == Stored(Pruned(late, q))
  <2>1. IsFiniteSet(rest) /\ Cardinality(rest) \in Nat
    BY <1>1, Finite, FS_CardinalityType
  <2>2. ~(Cardinality(rest) >= RequestLimit)
    BY <1>2, <2>1, LimitAssumption DEF CreateRequest
  <2>3. Cardinality(rest \cup {q}) <= RequestLimit
    BY <2>1, <2>2, RoomForOne, LimitAssumption
  <2>4. Stored(requests') \subseteq rest \cup {q}
    BY <1>2 DEF CreateRequest, Stored, Pruned
  <2>5. IsFiniteSet(rest \cup {q})
    BY <2>1, FS_AddElement
  <2> HIDE DEF rest
  <2>6. Cardinality(Stored(requests')) <= RequestLimit
    BY <2>3, <2>4, <2>5, LimitKept, LimitAssumption
  <2> QED BY <2>6
<1>3. CASE ~\E q \in Request, late \in SUBSET Late : CreateRequest(q, late)
  BY <1>1, <1>3, StoredSteps, Finite, LimitKept, LimitAssumption
<1> QED BY <1>2, <1>3

(* Only an approval adds a device.                                         *)
LEMMA DevicesWithinLimit ==
  ASSUME Inv, [Next]_vars, Cardinality(Devices) <= DeviceLimit
  PROVE  Cardinality(Devices)' <= DeviceLimit
<1> USE DEF Inv, TypeOK
<1>1. IsFiniteSet(Devices) /\ Cardinality(Devices) \in Nat
  BY Finite, FS_CardinalityType
<1>2. ASSUME NEW q \in Request, NEW d \in Device, NEW assigned \in SUBSET Root,
             NEW late \in SUBSET Late, Approve(q, d, assigned, late)
      PROVE  Cardinality(Devices)' <= DeviceLimit
  <2>1. ~(Cardinality(Devices) >= DeviceLimit)
    BY <1>2 DEF Approve, ApproveError
  <2>2. Cardinality(Devices \cup {d}) <= DeviceLimit /\ IsFiniteSet(Devices \cup {d})
    <3> HIDE DEF Inv, TypeOK
    <3> QED BY <1>1, <2>1, RoomForOne, FS_AddElement, LimitAssumption
  <2>3. Devices' \subseteq Devices \cup {d}
    BY <1>2 DEF Approve, Devices
  <2> HIDE DEF Inv, TypeOK
  <2> QED BY <2>2, <2>3, LimitKept, LimitAssumption
<1>3. CASE \A d \in Device : devices'[d].version > 0 => devices[d].version > 0
  <2>1. Devices' \subseteq Devices
    BY <1>3 DEF Devices
  <2> HIDE DEF Inv, TypeOK
  <2> QED BY <1>1, <2>1, LimitKept, LimitAssumption
<1>4. ASSUME NEW d \in Device, NEW enabled \in BOOLEAN, NEW assigned \in SUBSET Root,
             UpdateDevice(d, enabled, assigned)
      PROVE  Cardinality(Devices)' <= DeviceLimit
  BY <1>3, <1>4 DEF UpdateDevice, DeviceState
<1>5. ASSUME NEW d \in Device, NEW late \in SUBSET Late, RevokeDevice(d, late)
      PROVE  Cardinality(Devices)' <= DeviceLimit
  BY <1>3, <1>5 DEF RevokeDevice, DeviceState, Devices
<1>6. ASSUME NEW s \in Source, RemoveSource(s)
      PROVE  Cardinality(Devices)' <= DeviceLimit
  BY <1>3, <1>6 DEF RemoveSource, WithoutRoots, DeviceState
<1>7. ASSUME NEW r \in Root, RemoveRoot(r)
      PROVE  Cardinality(Devices)' <= DeviceLimit
  BY <1>3, <1>7 DEF RemoveRoot, WithoutRoots, DeviceState
<1>8. CASE UNCHANGED devices
  BY <1>3, <1>8
<1>9. CASE AdministratorStep
  BY <1>2, <1>4, <1>5, <1>6, <1>7, <1>8, <1>9
  DEF AdministratorStep, UpdateSettings, Deny, StartRoot, AddRoot, AddRootRefused, document
<1>10. CASE SourceStep
  BY <1>8, <1>10 DEF SourceStep, ConnectSource, ReconnectSource, MarkSourceReauthRequired
<1>11. CASE ClientStep
  BY <1>8, <1>11
  DEF ClientStep, CreateRequest, StartClaim, Claim, ClaimRefused, AnswerArrives, SessionEnds,
      document
<1> QED BY <1>8, <1>9, <1>10, <1>11 DEF Next, RequestExpires, Crash, document, vars

(* Only a connection adds a source; one that is reconnected exists.        *)
LEMMA SourcesWithinLimit ==
  ASSUME Inv, [Next]_vars, Cardinality(Sources) <= SourceLimit
  PROVE  Cardinality(Sources)' <= SourceLimit
<1>1. IsFiniteSet(Sources) /\ Cardinality(Sources) \in Nat
  BY Finite, FS_CardinalityType DEF Inv
<1>2. ASSUME NEW s \in Source, ConnectSource(s)
      PROVE  Cardinality(Sources)' <= SourceLimit
  <2>1. ~(Cardinality(Sources) >= SourceLimit)
    BY <1>1, <1>2, LimitAssumption DEF ConnectSource
  <2>2. Cardinality(Sources \cup {s}) <= SourceLimit /\ IsFiniteSet(Sources \cup {s})
    BY <1>1, <2>1, RoomForOne, FS_AddElement, LimitAssumption
  <2>3. Sources' \subseteq Sources \cup {s}
    BY <1>2 DEF ConnectSource, Sources, Inv, TypeOK
  <2> QED BY <2>2, <2>3, LimitKept, LimitAssumption
<1>3. CASE Sources' \subseteq Sources
  BY <1>1, <1>3, LimitKept, LimitAssumption
<1>4. ASSUME NEW s \in Source, ReconnectSource(s) \/ MarkSourceReauthRequired(s) \/ RemoveSource(s)
      PROVE  Cardinality(Sources)' <= SourceLimit
  <2>1. Sources' \subseteq Sources
    BY <1>4 DEF ReconnectSource, MarkSourceReauthRequired, RemoveSource, Sources, Inv, TypeOK
  <2> QED BY <1>3, <2>1
<1>5. CASE UNCHANGED sources
  <2>1. Sources' \subseteq Sources
    BY <1>5 DEF Sources
  <2> QED BY <1>3, <2>1
<1>6. CASE AdministratorStep
  BY <1>4, <1>5, <1>6
  DEF AdministratorStep, UpdateSettings, Deny, Approve, UpdateDevice, RevokeDevice, RemoveRoot,
      StartRoot, AddRoot, AddRootRefused, document
<1>7. CASE SourceStep
  BY <1>2, <1>4, <1>7 DEF SourceStep
<1>8. CASE ClientStep
  BY <1>5, <1>8
  DEF ClientStep, CreateRequest, StartClaim, Claim, ClaimRefused, AnswerArrives, SessionEnds,
      document
<1> QED BY <1>5, <1>6, <1>7, <1>8 DEF Next, RequestExpires, Crash, document, vars

(* Only createRoot() adds a root.                                          *)
LEMMA RootsWithinLimit ==
  ASSUME Inv, [Next]_vars, Cardinality(roots) <= RootLimit
  PROVE  Cardinality(roots)' <= RootLimit
<1>1. IsFiniteSet(roots) /\ Cardinality(roots) \in Nat
  BY Finite, FS_CardinalityType DEF Inv
<1>2. ASSUME NEW r \in Root, AddRoot(r)
      PROVE  Cardinality(roots)' <= RootLimit
  <2>1. CASE r \in roots
    <3>1. roots' = roots
      BY <1>2, <2>1 DEF AddRoot
    <3> QED BY <3>1
  <2>2. CASE r \notin roots
    <3>1. ~(Cardinality(roots) >= RootLimit) /\ roots' = roots \cup {r}
      BY <1>2, <2>2 DEF AddRoot, AddRootError
    <3> QED BY <1>1, <3>1, RoomForOne, LimitAssumption
  <2> QED BY <2>1, <2>2
<1>3. CASE roots' \subseteq roots
  BY <1>1, <1>3, LimitKept, LimitAssumption
<1>4. CASE AdministratorStep
  BY <1>2, <1>3, <1>4
  DEF AdministratorStep, UpdateSettings, Deny, Approve, UpdateDevice, RevokeDevice, RemoveSource,
      RemoveRoot, StartRoot, AddRootRefused, document
<1>5. CASE SourceStep
  BY <1>3, <1>5 DEF SourceStep, ConnectSource, ReconnectSource, MarkSourceReauthRequired
<1>6. CASE ClientStep
  BY <1>3, <1>6
  DEF ClientStep, CreateRequest, StartClaim, Claim, ClaimRefused, AnswerArrives, SessionEnds,
      document
<1> QED BY <1>3, <1>4, <1>5, <1>6 DEF Next, RequestExpires, Crash, document, vars

(* The document is always one the parser accepts: its references are       *)
(* intact and no collection is over its limit.                             *)
THEOREM DocumentStaysValid == Spec => []DocumentIsValid
<1> DEFINE IInv == Inv /\ WithinLimits
<1>1. Init => IInv
  <2> SUFFICES ASSUME Init PROVE IInv
    OBVIOUS
  <2>1. Stored(requests) = {} /\ Devices = {} /\ Sources = {} /\ roots = {}
    BY DEF Init, Stored, Devices, Sources, Unused, NotApproved
  <2>2. WithinLimits
    BY <2>1, FS_EmptySet, LimitAssumption DEF WithinLimits
  <2> QED BY <2>2, InitInv
<1>2. IInv /\ [Next]_vars => IInv'
  BY StepInv, RequestsWithinLimit, DevicesWithinLimit, SourcesWithinLimit, RootsWithinLimit
  DEF WithinLimits
<1>3. IInv => DocumentIsValid
  BY DEF Inv, DocumentIsValid
<1> QED BY <1>1, <1>2, <1>3, PTL DEF Spec

(* Only approvals, denials, claims and the dropping of expired requests    *)
(* touch a stored request, and the first two look at its status.           *)
LEMMA StepStaysResolved ==
  ASSUME Inv, [Next]_vars, NEW q \in Request
  PROVE  StaysResolved(q)
<1> USE SentinelAssumption DEF Inv, TypeOK, StaysResolved
<1>1. CASE requests' = requests
  BY <1>1
<1>2. ASSUME NEW p \in Request, NEW late \in SUBSET Late, CreateRequest(p, late) \/ Deny(p, late)
      PROVE  StaysResolved(q)
  <2>1. CASE q = p
    BY <1>2, <2>1 DEF CreateRequest, Deny, NewRequest, Pruned, Dropped, Unused, RequestState, Stored
  <2>2. CASE q # p
    <3>1. requests'[q] \in {requests[q], Dropped}
      BY <1>2, <2>2 DEF CreateRequest, Deny, Pruned
    <3> QED BY <3>1 DEF Dropped, Unused
  <2> QED BY <2>1, <2>2
<1>3. ASSUME NEW p \in Request, NEW d \in Device, NEW assigned \in SUBSET Root,
             NEW late \in SUBSET Late, Approve(p, d, assigned, late)
      PROVE  StaysResolved(q)
  <2>1. requests[p].status = "pending"
    BY <1>3 DEF Approve, ApproveError, Stored
  <2>2. CASE q = p
    BY <2>1, <2>2
  <2>3. CASE q # p
    BY <1>3, <2>3 DEF Approve, Pruned, Dropped, Unused, RequestState
  <2> QED BY <2>2, <2>3
<1>4. ASSUME NEW d \in Device, NEW late \in SUBSET Late, RevokeDevice(d, late)
      PROVE  StaysResolved(q)
  BY <1>4 DEF RevokeDevice, Pruned, Dropped, Unused
<1>5. ASSUME NEW c \in Client, Claim(c)
      PROVE  StaysResolved(q)
  BY <1>5 DEF Claim, Dropped, Unused, ClientsConsistent
<1>6. ASSUME NEW p \in Request, RequestExpires(p)
      PROVE  StaysResolved(q)
  <2>1. requests' = [requests EXCEPT ![p].late = TRUE]
    BY <1>6 DEF RequestExpires
  <2>2. requests'[q].status = requests[q].status /\ requests'[q].device = requests[q].device
    BY <2>1 DEF RequestState
  <2> QED BY <2>2
<1> QED BY <1>1, <1>2, <1>3, <1>4, <1>5, <1>6
  DEF Next, AdministratorStep, SourceStep, ClientStep, vars, document, UpdateSettings, UpdateDevice,
      RemoveSource, RemoveRoot, StartRoot, AddRoot, AddRootRefused, ConnectSource, ReconnectSource,
      MarkSourceReauthRequired, StartClaim, ClaimRefused, AnswerArrives, SessionEnds, Crash

(* A request is resolved once.                                             *)
THEOREM RequestsAreResolvedOnce == Spec => ResolvedOnce
<1>1. Inv /\ [Next]_vars => \A q \in Request : StaysResolved(q)
  BY StepStaysResolved
<1> QED BY <1>1, Invariant, PTL DEF Spec, ResolvedOnce

-----------------------------------------------------------------------------
(* The steps of DeviceAccess.                                              *)

(* Nobody is let in without a session, nor with one of a revoked device.   *)
LEMMA OnlyHoldersAdmitted ==
  ASSUME Inv', NEW d \in Device
  PROVE  Access!Admits(d)
<1>1. Admitted(d)' \subseteq Holders(d)'
  BY DEF Admitted, Holders, HasSession, Accepted
<1>2. Standing(d)' = "revoked" => Admitted(d)' = {}
  BY DEF Standing, Admitted, Accepted, Usable
<1> QED BY <1>1, <1>2 DEF Access!Admits

(* A device that keeps its version, its revocation and its sessions, and   *)
(* gets no offer, stays where it is or lets its offer lapse.               *)
LEMMA FewerOffers ==
  ASSUME NEW d \in Device,
         devices'[d].version = devices[d].version,
         devices'[d].revoked = devices[d].revoked,
         Offered(d)' => Offered(d),
         \A c \in Client : HasSession(c, d)' <=> HasSession(c, d)
  PROVE  Access!Step(d)
<1>1. Holders(d)' = Holders(d)
  BY DEF Holders
<1>2. Standing(d)' = Standing(d) \/ (Standing(d) = "offered" /\ Standing(d)' = "settled")
  BY DEF Standing
<1> QED BY <1>1, <1>2
  DEF Access!Step, Access!Keep, Access!KeepHolders, Access!Lapse

(* Requests that are new, denied, found expired or dropped offer nothing.  *)
LEMMA NoNewOffer ==
  ASSUME Inv, NEW d \in Device, NEW q \in Request, NEW late \in SUBSET Late,
         CreateRequest(q, late) \/ Deny(q, late) \/ RequestExpires(q)
  PROVE  Access!Step(d)
<1> USE SentinelAssumption DEF Inv, TypeOK
<1>1. \A p \in Request : p # q => requests'[p] \in {requests[p], Dropped}
  BY DEF CreateRequest, Deny, RequestExpires, Pruned
<1>2. requests'[q].status = "approved" =>
        requests[q].status = "approved" /\ requests'[q].device = requests[q].device
  BY DEF CreateRequest, Deny, RequestExpires, NewRequest, Pruned, Unused, RequestState
<1>3. Offered(d)' => Offered(d)
  BY <1>1, <1>2 DEF Offered, Dropped, Unused
<1>4. devices' = devices /\ client' = client
  BY DEF CreateRequest, Deny, RequestExpires
<1> QED BY <1>3, <1>4, FewerOffers DEF HasSession

(* The device of an approval is offered; requests it drops lapse.          *)
LEMMA ApproveOffers ==
  ASSUME Inv, Inv', NEW d \in Device, NEW q \in Request, NEW e \in Device,
         NEW assigned \in SUBSET Root, NEW late \in SUBSET Late,
         Approve(q, e, assigned, late)
  PROVE  Access!Step(d)
<1> USE SentinelAssumption DEF Inv, TypeOK
<1>1. client' = client
  BY DEF Approve
<1>2. CASE d = e
  <2>1. Standing(d) = "none"
    BY <1>2 DEF Approve, Standing
  <2>2. requests'[q].status = "approved" /\ requests'[q].device = d
    <3>1. Pruned(late, q) \in [Request -> RequestState]
      BY DEF Pruned, Dropped, Unused, RequestState
    <3> QED BY <1>2, <3>1 DEF Approve, RequestState
  <2>3. Standing(d)' = "offered"
    BY <1>2, <2>2 DEF Approve, Standing, Offered, DeviceState
  <2>4. Holders(d)' = Holders(d)
    BY <1>1 DEF Holders, HasSession
  <2> QED BY <2>1, <2>3, <2>4 DEF Access!Step, Access!Offer, Access!KeepHolders
<1>3. CASE d # e
  <2>1. devices'[d] = devices[d]
    BY <1>3 DEF Approve
  <2>2. requests'[q].device = e
    <3>1. Pruned(late, q) \in [Request -> RequestState]
      BY DEF Pruned, Dropped, Unused, RequestState
    <3> QED BY <3>1 DEF Approve, RequestState
  <2>3. \A p \in Request : p # q => requests'[p] \in {requests[p], Dropped}
    BY DEF Approve, Pruned
  <2>4. Offered(d)' => Offered(d)
    BY <1>3, <2>2, <2>3 DEF Offered, Dropped, Unused
  <2> QED BY <1>1, <2>1, <2>4, FewerOffers DEF HasSession
<1> QED BY <1>2, <1>3

(* Revocation ends an offer, and is final.                                 *)
LEMMA RevokeRevokes ==
  ASSUME Inv, Inv', NEW d \in Device, NEW e \in Device, NEW late \in SUBSET Late,
         RevokeDevice(e, late)
  PROVE  Access!Step(d)
<1> USE SentinelAssumption DEF Inv, TypeOK
<1>1. client' = client /\ \A p \in Request : requests'[p] \in {requests[p], Dropped}
  BY DEF RevokeDevice, Pruned
<1>2. Offered(d)' => Offered(d)
  BY <1>1 DEF Offered, Dropped, Unused
<1>3. CASE devices' = devices \/ d # e
  <2>1. devices'[d] = devices[d]
    BY <1>3 DEF RevokeDevice
  <2> QED BY <1>1, <1>2, <2>1, FewerOffers DEF HasSession
<1>4. CASE devices' # devices /\ d = e
  <2>1. Standing(d) \in {"offered", "settled"}
    BY <1>4 DEF RevokeDevice, Standing, Devices, DevicesConsistent, DeviceState
  <2>2. devices'[d].revoked = TRUE /\ devices'[d].version # 0
    BY <1>4 DEF RevokeDevice, Devices, DeviceState
  <2>3. Standing(d)' = "revoked"
    BY <2>2 DEF Standing
  <2>4. Holders(d)' = Holders(d)
    BY <1>1 DEF Holders, HasSession
  <2> QED BY <2>1, <2>3, <2>4 DEF Access!Step, Access!Revoke, Access!KeepHolders
<1> QED BY <1>3, <1>4

(* A claim takes the offer of its device, which nobody has taken.          *)
LEMMA ClaimTakes ==
  ASSUME Inv, Inv', NEW d \in Device, NEW c \in Client, Claim(c)
  PROVE  Access!Step(d)
<1> USE SentinelAssumption DEF Inv, TypeOK
<1>1. PICK q \in Request : q = client[c].request
  BY DEF Claim, ClientsConsistent
<1>2. PICK e \in Device : e = client[c].device
  BY DEF Claim, ClientsConsistent
<1>3. requests[q].status = "approved" /\ requests[q].device = e
      /\ requests' = [requests EXCEPT ![q] = Dropped] /\ devices' = devices /\ Usable(e)
  BY <1>1, <1>2 DEF Claim, StillApproved
<1>4. client'[c].pc = "answered" /\ client'[c].device = e
  BY <1>2 DEF Claim, IdleClient
<1>5. \A b \in Client : b # c => client'[b] = client[b]
  BY DEF Claim
<1>6. CASE d = e
  <2>1. Holders(d) = {}
    BY <1>3, <1>6 DEF Holders, RequestsConsistent
  <2>2. \A b \in Client : HasSession(b, d)' <=> b = c
    BY <1>4, <1>5, <1>6, <2>1 DEF Holders, HasSession
  <2>3. Holders(d)' = {c}
    BY <2>2 DEF Holders
  <2>4. Standing(d) = "offered"
    BY <1>3, <1>6 DEF Standing, Offered, Usable, RequestsConsistent, Devices
  <2>5. ~Offered(d)'
    BY <1>3, <1>6 DEF Offered, RequestsConsistent, Dropped, Unused
  <2>6. Standing(d)' = "settled"
    BY <1>3, <2>4, <2>5 DEF Standing
  <2> QED BY <2>1, <2>3, <2>4, <2>6 DEF Access!Step, Access!Take
<1>7. CASE d # e
  <2>1. \A b \in Client : HasSession(b, d)' <=> HasSession(b, d)
    BY <1>2, <1>4, <1>5, <1>7 DEF HasSession, Claim
  <2>2. Offered(d)' => Offered(d)
    BY <1>3 DEF Offered, Dropped, Unused
  <2> QED BY <1>3, <2>1, <2>2, FewerOffers
<1> QED BY <1>6, <1>7

(* Sessions end one at a time, or with the crash of the call that gives    *)
(* them; a device has one at most, so it loses it or keeps it.             *)
LEMMA SessionsEnd ==
  ASSUME Inv, NEW d \in Device, Crash \/ \E c \in Client : SessionEnds(c)
  PROVE  Access!Step(d)
<1> USE DEF Inv, TypeOK
<1>1. requests' = requests /\ devices' = devices
  BY DEF Crash, SessionEnds, document
<1>2. Standing(d)' = Standing(d)
  BY <1>1 DEF Standing, Offered
<1>3. \A c \in Client : HasSession(c, d)' => HasSession(c, d)
  BY DEF Crash, SessionEnds, IdleClient, HasSession
<1>4. CASE \A c \in Client : ~HasSession(c, d)'
  BY <1>2, <1>4 DEF Holders, Access!Step, Access!End, Access!Keep
<1>5. CASE \E c \in Client : HasSession(c, d)'
  <2>1. PICK c \in Client : HasSession(c, d)'
    BY <1>5
  <2>2. \A b \in Client : HasSession(b, d) => b = c
    BY <1>3, <2>1 DEF ClientsConsistent
  <2>3. \A b \in Client : HasSession(b, d)' <=> HasSession(b, d)
    BY <1>3, <2>1, <2>2
  <2>4. Holders(d)' = Holders(d)
    BY <2>3 DEF Holders
  <2> QED BY <1>2, <2>4 DEF Access!Step, Access!Keep, Access!KeepHolders
<1> QED BY <1>4, <1>5

(* The other calls of a client give and take no session.                   *)
LEMMA ClientWaits ==
  ASSUME Inv, NEW d \in Device, NEW c \in Client,
         ClaimRefused(c) \/ AnswerArrives(c) \/ \E q \in Request : StartClaim(c, q)
  PROVE  Access!Step(d)
<1> USE DEF Inv, TypeOK
<1>1. requests' = requests /\ devices' = devices
  BY DEF ClaimRefused, AnswerArrives, StartClaim, document
<1>2. \A b \in Client : b # c => client'[b] = client[b]
  BY DEF ClaimRefused, AnswerArrives, StartClaim
<1>3. HasSession(c, d)' <=> HasSession(c, d)
  <2>1. CASE AnswerArrives(c)
    BY <2>1 DEF AnswerArrives, HasSession, ClientState
  <2>2. CASE ClaimRefused(c)
    BY <2>2 DEF ClaimRefused, IdleClient, HasSession
  <2>3. ASSUME NEW q \in Request, StartClaim(c, q)
        PROVE  HasSession(c, d)' <=> HasSession(c, d)
    BY <2>3 DEF StartClaim, IdleClient, HasSession
  <2> QED BY <2>1, <2>2, <2>3
<1>4. \A b \in Client : HasSession(b, d)' <=> HasSession(b, d)
  BY <1>2, <1>3 DEF HasSession
<1>5. Offered(d)' => Offered(d)
  BY <1>1 DEF Offered
<1> QED BY <1>1, <1>4, <1>5, FewerOffers

(* Settings, sources, roots and assignments do not touch access.           *)
LEMMA OthersKeepAccess ==
  ASSUME Inv, NEW d \in Device, requests' = requests, client' = client,
         \/ devices' = devices
         \/ \E e \in Device, enabled \in BOOLEAN, assigned \in SUBSET Root :
              UpdateDevice(e, enabled, assigned)
         \/ \E removed \in SUBSET Root : devices' = WithoutRoots(removed)
  PROVE  Access!Step(d)
<1> USE DEF Inv, TypeOK
<1>1. devices'[d].version = devices[d].version /\ devices'[d].revoked = devices[d].revoked
  <2>1. ASSUME NEW e \in Device, NEW enabled \in BOOLEAN, NEW assigned \in SUBSET Root,
               UpdateDevice(e, enabled, assigned)
        PROVE  devices'[d].version = devices[d].version /\ devices'[d].revoked = devices[d].revoked
    <3>1. devices' = [devices EXCEPT ![e].enabled = enabled, ![e].roots = assigned]
      BY <2>1 DEF UpdateDevice
    <3>2. CASE d = e
      BY <3>1, <3>2 DEF DeviceState
    <3>3. CASE d # e
      BY <3>1, <3>3
    <3> QED BY <3>2, <3>3
  <2>2. ASSUME NEW removed \in SUBSET Root, devices' = WithoutRoots(removed)
        PROVE  devices'[d].version = devices[d].version /\ devices'[d].revoked = devices[d].revoked
    <3>1. devices'[d] = [devices[d] EXCEPT !.roots = @ \ removed]
      BY <2>2 DEF WithoutRoots
    <3> QED BY <3>1 DEF DeviceState
  <2> QED BY <2>1, <2>2
<1> QED BY <1>1, FewerOffers DEF Offered, HasSession

(* Every step is one of DeviceAccess for each device.                      *)
LEMMA StepIsAccessStep ==
  ASSUME Inv, Inv', [Next]_vars, NEW d \in Device
  PROVE  Access!Step(d)
<1>1. CASE AdministratorStep
  <2>1. ASSUME NEW q \in Request, NEW late \in SUBSET Late, Deny(q, late)
        PROVE  Access!Step(d)
    BY <2>1, NoNewOffer
  <2>2. ASSUME NEW q \in Request, NEW late \in SUBSET Late, NEW e \in Device,
               NEW assigned \in SUBSET Root, Approve(q, e, assigned, late)
        PROVE  Access!Step(d)
    BY <2>2, ApproveOffers
  <2>3. ASSUME NEW e \in Device, NEW late \in SUBSET Late, RevokeDevice(e, late)
        PROVE  Access!Step(d)
    BY <2>3, RevokeRevokes
  <2>4. ASSUME NEW e \in Device, NEW enabled \in BOOLEAN, NEW assigned \in SUBSET Root,
               UpdateDevice(e, enabled, assigned)
        PROVE  Access!Step(d)
    BY <2>4, OthersKeepAccess DEF UpdateDevice
  <2>5. ASSUME NEW s \in Source, RemoveSource(s)
        PROVE  Access!Step(d)
    <3>1. {r \in roots : sourceOf[r] = s} \in SUBSET Root
      BY DEF Inv, TypeOK
    <3> QED BY <2>5, <3>1, OthersKeepAccess DEF RemoveSource
  <2>6. ASSUME NEW r \in Root, RemoveRoot(r) \/ StartRoot(r) \/ AddRoot(r) \/ AddRootRefused(r)
        PROVE  Access!Step(d)
    BY <2>6, OthersKeepAccess DEF RemoveRoot, StartRoot, AddRoot, AddRootRefused, document
  <2>7. CASE UpdateSettings
    BY <2>7, OthersKeepAccess DEF UpdateSettings
  <2> QED BY <1>1, <2>1, <2>2, <2>3, <2>4, <2>5, <2>6, <2>7 DEF AdministratorStep
<1>2. CASE SourceStep
  BY <1>2, OthersKeepAccess
  DEF SourceStep, ConnectSource, ReconnectSource, MarkSourceReauthRequired
<1>3. CASE ClientStep
  <2>1. ASSUME NEW q \in Request, NEW late \in SUBSET Late, CreateRequest(q, late)
        PROVE  Access!Step(d)
    BY <2>1, NoNewOffer
  <2>2. ASSUME NEW c \in Client, Claim(c)
        PROVE  Access!Step(d)
    BY <2>2, ClaimTakes
  <2>3. ASSUME NEW c \in Client, SessionEnds(c)
        PROVE  Access!Step(d)
    BY <2>3, SessionsEnd
  <2>4. ASSUME NEW c \in Client,
               ClaimRefused(c) \/ AnswerArrives(c) \/ \E q \in Request : StartClaim(c, q)
        PROVE  Access!Step(d)
    BY <2>4, ClientWaits
  <2> QED BY <1>3, <2>1, <2>2, <2>3, <2>4 DEF ClientStep
<1>4. CASE Crash
  BY <1>4, SessionsEnd
<1>5. ASSUME NEW q \in Request, RequestExpires(q)
      PROVE  Access!Step(d)
  BY <1>5, NoNewOffer
<1>6. CASE UNCHANGED vars
  BY <1>6, OthersKeepAccess DEF vars, document
<1> QED BY <1>1, <1>2, <1>3, <1>4, <1>5, <1>6 DEF Next

(* Enrollment implements DeviceAccess: each device is offered once, taken  *)
(* by one client at most, and closed for good by its revocation.           *)
THEOREM EnrollmentImplementsAccess == Spec => EnrollmentIsSafe
<1>1. Init => Access!Init
  BY DEF Init, Access!Init, Standing, Holders, HasSession, Admitted, Accepted, NotApproved, IdleClient
<1>2. Inv /\ Inv' /\ [Next]_vars => [Access!Next]_Access!vars
  BY OnlyHoldersAdmitted, StepIsAccessStep DEF Access!Next
<1> QED BY <1>1, <1>2, Invariant, PTL DEF Spec, EnrollmentIsSafe, Access!Spec
=============================================================================
