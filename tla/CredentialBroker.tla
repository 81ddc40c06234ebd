-------------------------- MODULE CredentialBroker --------------------------
(***************************************************************************)
(* The credential broker of the server (services/credential-broker.ts) for *)
(* one source: access tokens from the process-local cache, from the        *)
(* bootstrap token of the last connection, or from a refresh at the        *)
(* provider, which may hand out a new refresh token and end the old one.   *)
(*                                                                         *)
(* A caller works on the control document its request loaded, which may be *)
(* old by then.  Its refreshes are promises in the map "refreshes", keyed  *)
(* by credential version; a refresh that lost against a newer version goes *)
(* on with a promise for that one, inside its own, so the promises of a    *)
(* caller settle together and "owner" records the caller of each version.  *)
(* Reducers of the control store run to their end without an await.        *)
(***************************************************************************)
EXTENDS Integers, FiniteSets

CONSTANTS
  Caller,             \* concurrent get() and refresh() calls
  TokenBound,         \* bound: refresh tokens the provider issues
  ReconnectBound,     \* bound: versions up to which the admin reconnects
  NoCaller

ASSUME BoundAssumption == TokenBound \in Nat /\ ReconnectBound \in Nat
ASSUME SentinelAssumption == NoCaller \notin Caller

Token == 0 .. TokenBound
Version == 1 .. (ReconnectBound + TokenBound + 1)

(* credentialVersion, encryptedRefreshToken, status, and whether the       *)
(* encrypted bootstrap access token is still usable.                       *)
Source == [version : Version, token : Token, bootstrap : BOOLEAN,
           status : {"healthy", "reauth-required", "removed"}]

VARIABLES
  source,     \* the source in the control document
  good,       \* refresh tokens the provider accepts
  issued,     \* the last refresh token issued
  cached,     \* versions with an access token in the cache
  owner,      \* refreshes: the caller whose promise is registered for a version
  call        \* the callers: their await, the source they hold, the answer

VARIABLE lost \* history: why the stored token may be of no use, see Usable

vars == <<source, good, issued, cached, owner, call, lost>>

Answer == {"none", "ok", "reauth", "unavailable", "failed"}
Idle == [pc |-> "idle", source |-> [version |-> 1, token |-> 0, bootstrap |-> FALSE, status |-> "healthy"],
         from |-> "none", new |-> 0, on |-> NoCaller, answer |-> "none"]

TypeOK ==
  /\ source \in Source
  /\ good \subseteq Token
  /\ issued \in Token
  /\ cached \subseteq Version
  /\ owner \in [Version -> Caller \cup {NoCaller}]
  /\ call \in [Caller ->
       [pc : {"idle", "called", "reading", "asking", "answered", "caching", "joined", "resumed", "done"},
        source : Source, from : {"none", "get", "winner", "same", "rotated", "invalid_grant", "failed"},
        new : Token, on : Caller \cup {NoCaller}, answer : Answer]]
  /\ lost \in BOOLEAN

Init ==
  /\ source = [version |-> 1, token |-> 0, bootstrap |-> TRUE, status |-> "healthy"]
  /\ good = {0}
  /\ issued = 0
  /\ cached = {}
  /\ owner = [v \in Version |-> NoCaller]
  /\ call = [c \in Caller |-> Idle]
  /\ lost = FALSE

-----------------------------------------------------------------------------
(* A caller is answered: the promises it owns settle and leave the map,    *)
(* and who joined one of them resumes with the same answer.                *)
SettleKeepingPromise(c, a) ==                 \* mutant: the promise stays in the map
  /\ call' = [d \in Caller |->
       CASE d = c -> [Idle EXCEPT !.pc = "done", !.answer = a]
         [] d # c /\ call[d].pc = "joined" /\ call[d].on = c ->
              [call[d] EXCEPT !.pc = "resumed", !.answer = a]
         [] OTHER -> call[d]]
  /\ UNCHANGED owner

Settle(c, a) ==
  /\ call' = [d \in Caller |->
       CASE d = c -> [Idle EXCEPT !.pc = "done", !.answer = a]
         [] d # c /\ call[d].pc = "joined" /\ call[d].on = c ->
              [call[d] EXCEPT !.pc = "resumed", !.answer = a]
         [] OTHER -> call[d]]
  /\ owner' = [v \in Version |-> IF owner[v] = c THEN NoCaller ELSE owner[v]]

Resume(c) ==
  /\ call[c].pc = "resumed"
  /\ Settle(c, call[c].answer)
  /\ UNCHANGED <<source, good, issued, cached, lost>>

(* refreshDeduplicated(s) called by c: join the promise of that version or *)
(* register one and ask the provider.                                      *)
RefreshAgain(c, s) ==                         \* mutant: the map is not looked at
  /\ call' = [call EXCEPT ![c] = [@ EXCEPT !.pc = "asking", !.source = s]]
  /\ owner' = [owner EXCEPT ![s.version] = c]

RefreshDeduplicated(c, s) ==
  IF owner[s.version] # NoCaller
  THEN /\ call' = [call EXCEPT ![c] = [@ EXCEPT !.pc = "joined", !.source = s, !.on = owner[s.version]]]
       /\ UNCHANGED owner
  ELSE /\ call' = [call EXCEPT ![c] = [@ EXCEPT !.pc = "asking", !.source = s]]
       /\ owner' = [owner EXCEPT ![s.version] = c]

-----------------------------------------------------------------------------
(* A request loads the control document; later it calls the broker.        *)

LoadContext(c) ==
  /\ call[c].pc = "idle"
  /\ call' = [call EXCEPT ![c].pc = "called", ![c].source = source]
  /\ UNCHANGED <<source, good, issued, cached, owner, lost>>

Refused(s) == IF s.status = "removed" THEN "unavailable" ELSE "reauth"

Get(c) ==
  LET s == call[c].source IN
  /\ call[c].pc = "called"
  /\ IF s.status # "healthy" THEN Settle(c, Refused(s))
     ELSE /\ call' = [call EXCEPT ![c].pc = "reading", ![c].from = "get"]
          /\ UNCHANGED owner
  /\ UNCHANGED <<source, good, issued, cached, lost>>

ForceRefresh(c) ==
  LET s == call[c].source IN
  /\ call[c].pc = "called"
  /\ IF s.status # "healthy" THEN Settle(c, Refused(s)) ELSE RefreshDeduplicated(c, s)
  /\ UNCHANGED <<source, good, issued, cached, lost>>

(* readCached(source), for get() and for the winner of a lost refresh; on  *)
(* a miss get() also tries the bootstrap token, which it then caches.      *)
ReadCached(c) ==
  LET s == call[c].source IN
  /\ call[c].pc = "reading"
  /\ CASE s.version \in cached -> Settle(c, "ok")
       [] s.version \notin cached /\ call[c].from = "get" /\ s.bootstrap ->
            /\ call' = [call EXCEPT ![c].pc = "caching"]
            /\ UNCHANGED owner
       [] OTHER -> RefreshDeduplicated(c, s)
  /\ UNCHANGED <<source, good, issued, cached, lost>>

(* The provider handles the refresh: it may keep the refresh token, or     *)
(* issue a new one and end the old one or not; it refuses a token it does  *)
(* not accept; and the answer may be an error or get lost on the way.      *)
ProviderKeeps(c) ==
  /\ call[c].pc = "asking"
  /\ call[c].source.token \in good
  /\ call' = [call EXCEPT ![c].pc = "answered", ![c].from = "same"]
  /\ UNCHANGED <<source, good, issued, cached, owner, lost>>

ProviderRotates(c) ==
  /\ call[c].pc = "asking"
  /\ call[c].source.token \in good
  /\ issued < TokenBound
  /\ issued' = issued + 1
  /\ good' \in {good \cup {issued'}, (good \ {call[c].source.token}) \cup {issued'}}
  /\ \/ /\ call' = [call EXCEPT ![c].pc = "answered", ![c].from = "rotated", ![c].new = issued']
        /\ UNCHANGED lost
     \/ /\ call' = [call EXCEPT ![c].pc = "answered", ![c].from = "failed"]
        /\ lost' = TRUE
  /\ UNCHANGED <<source, cached, owner>>

ProviderRefuses(c) ==
  /\ call[c].pc = "asking"
  /\ call[c].source.token \notin good
  /\ call' = [call EXCEPT ![c].pc = "answered", ![c].from = "invalid_grant"]
  /\ UNCHANGED <<source, good, issued, cached, owner, lost>>

ProviderFails(c) ==
  /\ call[c].pc = "asking"
  /\ call' = [call EXCEPT ![c].pc = "answered", ![c].from = "failed"]
  /\ UNCHANGED <<source, good, issued, cached, owner, lost>>

-----------------------------------------------------------------------------
(* The answer of the provider arrives.                                     *)

Arrived(c, kind) == call[c].pc = "answered" /\ call[c].from = kind

RefreshFails(c) ==
  /\ Arrived(c, "failed")
  /\ Settle(c, "failed")
  /\ UNCHANGED <<source, good, issued, cached, lost>>

SameTokenStored(c) ==                         \* mutant: "no new token" is stored as one
  /\ Arrived(c, "same")
  /\ call' = [call EXCEPT ![c].pc = "caching"]
  /\ source' = [source EXCEPT !.token = -1]
  /\ UNCHANGED <<good, issued, cached, owner, lost>>

SameToken(c) ==
  /\ Arrived(c, "same")
  /\ call' = [call EXCEPT ![c].pc = "caching"]
  /\ UNCHANGED <<source, good, issued, cached, owner, lost>>

(* The source the caller refreshed is still the current one.               *)
Current(c) ==
  /\ source.version = call[c].source.version
  /\ source.token = call[c].source.token

(* Lost against a newer version: go on with that one.                      *)
Continue(c) ==
  /\ call' = [call EXCEPT ![c].pc = "reading", ![c].from = "winner", ![c].source = source]
  /\ UNCHANGED owner

(* markReauth.  The error a reducer throws when the source has gone leaves *)
(* the SQLite store as CONTROL_PLANE_UNAVAILABLE.                          *)
MarkAny(c) ==                                 \* mutant: the version is not compared
  /\ Arrived(c, "invalid_grant")
  /\ Settle(c, "reauth")
  /\ source' = IF source.status = "removed" THEN source
               ELSE [source EXCEPT !.status = "reauth-required"]
  /\ UNCHANGED <<good, issued, cached, lost>>

MarkReauth(c) ==
  /\ Arrived(c, "invalid_grant")
  /\ CASE source.status = "removed" -> Settle(c, "unavailable") /\ UNCHANGED source
       [] source.status # "removed" /\ Current(c) ->
            Settle(c, "reauth") /\ source' = [source EXCEPT !.status = "reauth-required"]
       [] source.status = "reauth-required" /\ ~Current(c) ->
            Settle(c, "reauth") /\ UNCHANGED source
       [] source.status = "healthy" /\ ~Current(c) -> Continue(c) /\ UNCHANGED source
  /\ UNCHANGED <<good, issued, cached, lost>>

(* rotateRefreshToken.                                                     *)
RotateUnstored(c) ==                          \* mutant: the new token is not stored
  /\ Arrived(c, "rotated")
  /\ call' = [call EXCEPT ![c].pc = "caching"]
  /\ UNCHANGED <<source, good, issued, cached, owner, lost>>

Rotate(c) ==
  /\ Arrived(c, "rotated")
  /\ CASE source.status # "healthy" -> Settle(c, "unavailable") /\ UNCHANGED source
       [] source.status = "healthy" /\ Current(c) ->
            /\ source' = [source EXCEPT !.version = @ + 1, !.token = call[c].new]
            /\ call' = [call EXCEPT ![c].pc = "caching", ![c].source = source']
            /\ UNCHANGED owner
       [] source.status = "healthy" /\ ~Current(c) -> Continue(c) /\ UNCHANGED source
  /\ UNCHANGED <<good, issued, cached, lost>>

(* The store fails in one of the two mutations: a new token that was to    *)
(* replace the stored one is lost.                                         *)
StoreFails(c) ==
  /\ \E kind \in {"invalid_grant", "rotated"} : Arrived(c, kind)
  /\ Settle(c, "unavailable")
  /\ lost' = (lost \/ (Arrived(c, "rotated") /\ Current(c)))
  /\ UNCHANGED <<source, good, issued, cached>>

(* cacheAccess, for the version of the caller's source.                    *)
CacheAccess(c) ==
  /\ call[c].pc = "caching"
  /\ cached' = cached \cup {call[c].source.version}
  /\ Settle(c, "ok")
  /\ UNCHANGED <<source, good, issued, lost>>

-----------------------------------------------------------------------------
(* Time, the administrator, the provider's account page, and crashes.      *)

CacheExpires(v) ==
  /\ v \in cached
  /\ cached' = cached \ {v}
  /\ UNCHANGED <<source, good, issued, owner, call, lost>>

BootstrapExpires ==
  /\ source.bootstrap
  /\ source' = [source EXCEPT !.bootstrap = FALSE]
  /\ UNCHANGED <<good, issued, cached, owner, call, lost>>

(* A caller holds the stored token, and may be refreshing it.              *)
Holding == \E c \in Caller : call[c].pc \notin {"idle", "done"} /\ call[c].source.token = source.token
Refreshing == \E c \in Caller : call[c].pc \in {"asking", "answered"} /\ Current(c)

(* reconnectSourceMutation.  The provider need not return a refresh token; *)
(* the stored one is kept then under a new version, and a caller that      *)
(* holds it with the old version can no longer store what it gets for it.  *)
Reconnect(fresh) ==
  /\ source.status # "removed"
  /\ source.version < ReconnectBound
  /\ fresh => issued < TokenBound
  /\ issued' = IF fresh THEN issued + 1 ELSE issued
  /\ good' = IF fresh THEN good \cup {issued'} ELSE good
  /\ source' = [version |-> source.version + 1, bootstrap |-> TRUE, status |-> "healthy",
                token |-> IF fresh THEN issued' ELSE source.token]
  /\ lost' = IF fresh THEN FALSE ELSE lost \/ Holding
  /\ UNCHANGED <<cached, owner, call>>

Remove ==
  /\ source' = [source EXCEPT !.status = "removed"]
  /\ UNCHANGED <<good, issued, cached, owner, call, lost>>

UserRevokes ==
  /\ good' = {}
  /\ lost' = TRUE
  /\ UNCHANGED <<source, issued, cached, owner, call>>

Crash ==
  /\ cached' = {}
  /\ owner' = [v \in Version |-> NoCaller]
  /\ call' = [c \in Caller |-> [Idle EXCEPT !.pc = IF call[c].pc = "idle" THEN "idle" ELSE "done"]]
  /\ lost' = (lost \/ Refreshing)
  /\ UNCHANGED <<source, good, issued>>

-----------------------------------------------------------------------------
(* The steps of a promise, and the answers of the provider.                *)
Continuation(c) ==
  \/ Get(c) \/ ForceRefresh(c) \/ ReadCached(c) \/ Resume(c)
  \/ RefreshFails(c) \/ SameToken(c)
  \/ MarkReauth(c) \/ Rotate(c) \/ StoreFails(c) \/ CacheAccess(c)
ProviderStep(c) ==
  ProviderKeeps(c) \/ ProviderRotates(c) \/ ProviderRefuses(c) \/ ProviderFails(c)

Next ==
  \/ \E c \in Caller : LoadContext(c) \/ Continuation(c) \/ ProviderStep(c)
  \/ \E v \in Version : CacheExpires(v)
  \/ \E fresh \in BOOLEAN : Reconnect(fresh)
  \/ BootstrapExpires \/ Remove \/ UserRevokes \/ Crash

Spec == Init /\ [][Next]_vars

(* The event loop runs every continuation, and a provider call ends by its *)
(* answer or an error: the fetch of Node.js gives up on a silent server.   *)
FairSpec ==
  Spec /\ \A c \in Caller : WF_vars(Continuation(c)) /\ WF_vars(ProviderStep(c))

-----------------------------------------------------------------------------
(* Properties.                                                             *)

(* Providers rotate refresh tokens, so a version is never refreshed twice  *)
(* at the same time, whichever callers find it in their context, in the    *)
(* cache, or as the winner of a refresh they lost.                         *)
OneRefreshPerVersion ==
  \A c, d \in Caller :
    call[c].pc \in {"asking", "answered"} /\ call[d].pc \in {"asking", "answered"}
      /\ call[c].source.version = call[d].source.version => c = d

(* A source is marked reauth-required only for the token it has: an        *)
(* invalid_grant for a token read before a rotation or a reconnect does    *)
(* not touch the newer credentials.                                        *)
MarkedRightly ==
  [][source.status = "healthy" /\ source'.status = "reauth-required"
       => source.token \notin good]_vars

(* The stored refresh token is accepted by the provider, or the one that   *)
(* replaces it is on its way, and the source is healthy, unless the user   *)
(* revoked access, a rotated token was lost (with the answer, in a crash,  *)
(* in a failure of the store, or to a reconnect that kept the old one),    *)
(* and nobody reconnected since: stale callers, races of versions and      *)
(* failed refreshes cost nothing.                                          *)
Usable ==
  lost \/ source.status = "removed" \/
    /\ source.status = "healthy"
    /\ \/ source.token \in good
       \/ \E c \in Caller : Arrived(c, "rotated") /\ Current(c) /\ call[c].new \in good

(* Every call is answered.                                                 *)
CallsAnswered == \A c \in Caller : (call[c].pc = "called") ~> (call[c].pc = "done")
=============================================================================
