---------------------------- MODULE SourceGateway ----------------------------
(***************************************************************************)
(* The source gateway (transcode/source-gateway.ts) and the authorizer     *)
(* behind it (transcode/source-authorizer.ts).                             *)
(*                                                                         *)
(* An encoder reads its film through a capability on a local server.  The  *)
(* capability is granted to one job, for two minutes, and revoked when the *)
(* job ends; each request it is used for is authorized anew against the    *)
(* document of the moment, and the bytes are then fetched at the provider. *)
(* Between the arrival of a request and its fetch there are five awaits,   *)
(* and nothing looks at the signal of the request during them.             *)
(***************************************************************************)
EXTENDS Integers, FiniteSets

CONSTANTS
  Capability,    \* capabilities that are granted
  Fetcher,       \* requests under way
  ActiveLimit,   \* requests of one capability at a time (2)
  CredentialBound

VARIABLES
  gateway,       \* "stopped", "started" or "closing"
  grants,        \* state of each capability
  active,        \* AbortControllers of each capability
  fetcher,       \* the requests
  document,      \* whether the device is authorized, and the version of the source
  unchanged      \* whether the film is still the one the session was bound to

gatewayVars == <<gateway, grants, active, fetcher, document, unchanged>>

Idle == [pc |-> "idle", cap |-> CHOOSE c \in Capability : TRUE, aborted |-> FALSE,
         retried |-> FALSE, valid |-> FALSE]

(* bind() has validated the binding of the session: version 1, authorized. *)
BoundVersion == 1

(* What validateCurrent() asks of a document: the device, the root and the *)
(* source of the binding, and the version of its credential.  It is asked  *)
(* of the document of the moment, whatever was so before.                  *)
Valid(d) == d.authorized /\ d.version = BoundVersion

Init ==
  /\ gateway = "stopped"
  /\ grants = [c \in Capability |-> "new"]
  /\ active = [c \in Capability |-> {}]
  /\ fetcher = [f \in Fetcher |-> Idle]
  /\ document = [authorized |-> TRUE, version |-> BoundVersion]
  /\ unchanged = TRUE

-----------------------------------------------------------------------------
(* Grants.                                                                 *)

Start ==
  /\ gateway = "stopped"
  /\ gateway' = "started"
  /\ UNCHANGED <<grants, active, fetcher, document, unchanged>>

Grant(c) ==
  /\ gateway # "stopped" /\ grants[c] = "new"
  /\ grants' = [grants EXCEPT ![c] = "granted"]
  /\ UNCHANGED <<gateway, active, fetcher, document, unchanged>>

Expire(c) ==
  /\ grants[c] = "granted"
  /\ grants' = [grants EXCEPT ![c] = "expired"]
  /\ UNCHANGED <<gateway, active, fetcher, document, unchanged>>

Held(c) == grants[c] \in {"granted", "expired"}

(* An aborted request that is at its fetch is rejected there; one that is  *)
(* being authorized goes on until it reaches it.                           *)
Aborted(controllers) ==
  [f \in Fetcher |-> IF f \in controllers THEN [fetcher[f] EXCEPT !.aborted = TRUE] ELSE fetcher[f]]

(* The encoder has ended and its job takes its capability back.            *)
Revoke(c) ==
  /\ Held(c)
  /\ grants' = [grants EXCEPT ![c] = "revoked"]
  /\ fetcher' = Aborted(active[c])
  /\ UNCHANGED <<gateway, active, document, unchanged>>

(* close() revokes all, and waits until the last connection is closed.     *)
CloseBegins ==
  /\ gateway = "started"
  /\ gateway' = "closing"
  /\ grants' = [c \in Capability |-> IF Held(c) THEN "revoked" ELSE grants[c]]
  /\ fetcher' = Aborted(UNION {active[c] : c \in {d \in Capability : Held(d)}})
  /\ UNCHANGED <<active, document, unchanged>>

CloseEnds ==
  /\ gateway = "closing"
  /\ \A f \in Fetcher : fetcher[f].pc = "idle"
  /\ gateway' = "stopped"
  /\ UNCHANGED <<grants, active, fetcher, document, unchanged>>

-----------------------------------------------------------------------------
(* Requests.                                                               *)

(* Mutant: the request is counted when it comes to its fetch.              *)
RegisterNobody(f, c) == UNCHANGED active

(* handle(): the controller is in the set of the grant before the first    *)
(* await.                                                                  *)
Register(f, c) == active' = [active EXCEPT ![c] = @ \cup {f}]

(* A request whose peer, method, path or range is wrong, whose grant is    *)
(* gone or expired, or that is one too many, is answered at once.  `valid' *)
(* is history: whether the binding has been valid since this attempt at    *)
(* the film was begun.                                                     *)
Handle(f, c) ==
  /\ gateway = "started" /\ fetcher[f].pc = "idle"
  /\ grants[c] = "granted" /\ Cardinality(active[c]) < ActiveLimit
  /\ fetcher' = [fetcher EXCEPT ![f] = [Idle EXCEPT !.pc = "loading", !.cap = c,
       !.valid = Valid(document)]]
  /\ Register(f, c)
  /\ UNCHANGED <<gateway, grants, document, unchanged>>

(* The finally block: whatever the answer.                                 *)
Finish(f) ==
  /\ fetcher' = [fetcher EXCEPT ![f] = Idle]
  /\ active' = [active EXCEPT ![fetcher[f].cap] = @ \ {f}]
  /\ UNCHANGED <<gateway, grants, unchanged>>

GoOn(f, pc) ==
  /\ fetcher' = [fetcher EXCEPT ![f].pc = pc]
  /\ UNCHANGED <<gateway, grants, active, unchanged>>

(* withReauthorizedItem: the document is loaded and validateCurrent() is   *)
(* applied to it.                                                          *)
Validate(f) ==
  /\ fetcher[f].pc = "loading"
  /\ IF Valid(document) THEN GoOn(f, "credentials") ELSE Finish(f)
  /\ UNCHANGED document

(* The broker gives credentials, perhaps of a rotated token.               *)
Credentials(f) ==
  /\ fetcher[f].pc = "credentials"
  /\ \E v \in {document.version, document.version + 1} :
       /\ v <= CredentialBound
       /\ document' = [document EXCEPT !.version = v]
       /\ IF v = BoundVersion THEN GoOn(f, "node") ELSE Finish(f)

(* getNode: the film must have the revision and size of the session.       *)
GetNode(f) ==
  /\ fetcher[f].pc = "node"
  /\ IF unchanged THEN GoOn(f, "resolving") ELSE Finish(f)
  /\ UNCHANGED document

(* mediaSources.resolve: it asks the broker again (for refreshed           *)
(* credentials after a 401) and the provider for the address.              *)
Resolve(f) ==
  /\ fetcher[f].pc = "resolving"
  /\ \E v \in {document.version, document.version + 1} :
       /\ v <= CredentialBound
       /\ document' = [document EXCEPT !.version = v]
       /\ IF v = BoundVersion THEN GoOn(f, "requesting") ELSE Finish(f)

DependencyFails(f) ==
  /\ fetcher[f].pc \in {"loading", "credentials", "node", "resolving"}
  /\ Finish(f)
  /\ UNCHANGED document

(* requestUpstream: fetch() rejects at once when its signal is aborted.    *)
RequestUpstream(f) ==
  /\ fetcher[f].pc = "requesting"
  /\ IF fetcher[f].aborted THEN Finish(f) ELSE GoOn(f, "fetching")
  /\ UNCHANGED document

(* Mutant: the new address is fetched without authorizing again.           *)
ReauthorizeNot(f) ==
  fetcher' = [fetcher EXCEPT ![f].pc = "resolving", ![f].retried = TRUE, ![f].valid = Valid(document)]

(* After a 401 or 403 the item is authorized again, once: a second attempt.*)
Reauthorize(f) ==
  fetcher' = [fetcher EXCEPT ![f].pc = "loading", ![f].retried = TRUE, ![f].valid = Valid(document)]

UpstreamRejectsToken(f) ==
  /\ fetcher[f].pc = "fetching" /\ ~fetcher[f].aborted /\ ~fetcher[f].retried
  /\ Reauthorize(f)
  /\ UNCHANGED <<gateway, grants, active, document, unchanged>>

(* The answer of the provider, a second 401 included, is passed on.        *)
UpstreamAnswers(f) ==
  /\ fetcher[f].pc = "fetching" /\ ~fetcher[f].aborted
  /\ GoOn(f, "streaming")
  /\ UNCHANGED document

(* The fetch or the pipeline rejects, because it was aborted or by itself. *)
Ends(f) ==
  /\ fetcher[f].pc \in {"fetching", "streaming"}
  /\ Finish(f)
  /\ UNCHANGED document

(* The encoder closes its connection: abortOnClose.                        *)
Disconnect(f) ==
  /\ fetcher[f].pc # "idle" /\ ~fetcher[f].aborted
  /\ fetcher' = [fetcher EXCEPT ![f].aborted = TRUE]
  /\ UNCHANGED <<gateway, grants, active, document, unchanged>>

-----------------------------------------------------------------------------
(* Around it.                                                              *)

(* An administrator takes the root from the device or disables it, or the  *)
(* source is marked; and the root is given back as it was.  Requests see   *)
(* neither unless they load the document.                                  *)
Withdraw ==
  /\ document.authorized
  /\ document' = [document EXCEPT !.authorized = FALSE]
  /\ UNCHANGED <<gateway, grants, active, fetcher, unchanged>>

Regrant ==
  /\ ~document.authorized
  /\ document' = [document EXCEPT !.authorized = TRUE]
  /\ fetcher' = [f \in Fetcher |->
       [fetcher[f] EXCEPT !.valid = @ \/ (fetcher[f].pc # "idle" /\ Valid(document'))]]
  /\ UNCHANGED <<gateway, grants, active, unchanged>>

Replace ==
  /\ unchanged /\ unchanged' = FALSE
  /\ UNCHANGED <<gateway, grants, active, fetcher, document>>

Next ==
  \/ \E c \in Capability :
       Grant(c) \/ Expire(c) \/ Revoke(c) \/ \E f \in Fetcher : Handle(f, c)
  \/ \E f \in Fetcher :
       \/ Validate(f) \/ Credentials(f) \/ GetNode(f) \/ Resolve(f) \/ DependencyFails(f)
       \/ RequestUpstream(f) \/ UpstreamRejectsToken(f) \/ UpstreamAnswers(f) \/ Ends(f)
       \/ Disconnect(f)
  \/ Start \/ CloseBegins \/ CloseEnds \/ Withdraw \/ Regrant \/ Replace

Spec == Init /\ [][Next]_gatewayVars

-----------------------------------------------------------------------------
Pcs == {"idle", "loading", "credentials", "node", "resolving", "requesting", "fetching", "streaming"}

TypeOK ==
  /\ gateway \in {"stopped", "started", "closing"}
  /\ grants \in [Capability -> {"new", "granted", "expired", "revoked"}]
  /\ active \in [Capability -> SUBSET Fetcher]
  /\ \A f \in Fetcher : fetcher[f].pc \in Pcs /\ fetcher[f].cap \in Capability
                       /\ fetcher[f].valid \in BOOLEAN
  /\ document \in [authorized : BOOLEAN, version : 1 .. CredentialBound]
  /\ unchanged \in BOOLEAN

(* Once a job has given its capability back, or the gateway is closing, no *)
(* request of it reads the film: what is being fetched has been aborted,   *)
(* and what was still being authorized will not be fetched.                *)
RevokedIsAborted ==
  \A f \in Fetcher :
    fetcher[f].pc # "idle" /\ grants[fetcher[f].cap] = "revoked" => fetcher[f].aborted

(* The film is only fetched by an attempt during which its binding was     *)
(* valid: the device had the root, and the credential was that of the      *)
(* session, at some moment after the request arrived or, for the second    *)
(* attempt, after the provider rejected the first.  An authorization that  *)
(* was taken away before that does not serve, however the document went    *)
(* back and forth meanwhile.                                               *)
FetchIsAuthorized ==
  \A f \in Fetcher :
    fetcher[f].pc \in {"requesting", "fetching", "streaming"} => fetcher[f].valid
=============================================================================
