------------------------------ MODULE OAuthFlow ------------------------------
(***************************************************************************)
(* Connecting a source (services/control-oauth.ts): the administrator      *)
(* begins an authorization, the provider sends the browser back with the   *)
(* state, and the callback exchanges the code and stores the source.       *)
(*                                                                         *)
(* A callback is handled over several awaits.  Those of the replay cache   *)
(* (sqlite/oauth-replay-cache.ts) wait for synchronous SQLite, so reading  *)
(* the marker and claiming the state in completingStates are one step; the *)
(* calls to the provider, the marker and the mutation are steps of their   *)
(* own.  Of the document only the revision and the credential version of   *)
(* the one source are kept: everything that changes it changes these.      *)
(***************************************************************************)
EXTENDS Integers, FiniteSets

CONSTANTS
  State,            \* authorizations that are begun, named by their state
  Callback,         \* callbacks under way
  Life,             \* OAUTH_STATE_LIFETIME_MS, in ticks
  RevisionBound,
  NoState, NoCallback

VARIABLES
  revision,         \* revision of the control document
  credential,       \* credentialVersion of the source, 0 when there is none
  claims,           \* what the sealed state of each authorization says
  stateCookie,      \* the oauth_state cookie of the browser
  callback,         \* the callbacks
  completing,       \* completingStates
  marker,           \* the rows of oauth_replay
  commits,          \* history: mutations made for each state
  untouched         \* history: states begun since the document was last changed

oauthVars == <<revision, credential, claims, stateCookie, callback, completing, marker, commits,
               untouched>>

NotBegun == [begun |-> FALSE, revision |-> 0, version |-> 0, age |-> 0]
NoMarker == [owner |-> NoCallback, age |-> 0]
IdleCallback == [pc |-> "idle", state |-> NoState]

Init ==
  /\ revision = 1
  /\ credential \in {0, 1}
  /\ claims = [s \in State |-> NotBegun]
  /\ stateCookie = NoState
  /\ callback = [c \in Callback |-> IdleCallback]
  /\ completing = {}
  /\ marker = [s \in State |-> NoMarker]
  /\ commits = [s \in State |-> 0]
  /\ untouched = {}

-----------------------------------------------------------------------------
Expired(record) == record.age >= Life
Used(s) == marker[s].owner # NoCallback /\ ~Expired(marker[s])

(* get() and set() of the replay cache delete the rows that have expired.  *)
Swept == [s \in State |-> IF Expired(marker[s]) THEN NoMarker ELSE marker[s]]

(* oauthAuthorize: the state names the revision the administrator saw, and *)
(* the version of the source when it is to be reconnected.  Its cookie     *)
(* replaces that of an authorization begun before.                         *)
BeginAuthorization(s) ==
  /\ ~claims[s].begun
  /\ claims' = [claims EXCEPT ![s] =
       [begun |-> TRUE, revision |-> revision, version |-> credential, age |-> 0]]
  /\ stateCookie' = s
  /\ untouched' = untouched \cup {s}
  /\ UNCHANGED <<revision, credential, callback, completing, marker, commits>>

Reply(c) == callback' = [callback EXCEPT ![c] = IdleCallback]

(* oauthCallback clears the cookie whatever comes of it.  Several callbacks *)
(* of one state happen when the browser sends its request again.           *)
Arrive(c, s) ==
  /\ callback[c].pc = "idle"
  /\ claims[s].begun /\ stateCookie = s
  /\ claims[s].revision = revision /\ ~Expired(claims[s])
  /\ callback' = [callback EXCEPT ![c] = [pc |-> "checked", state |-> s]]
  /\ UNCHANGED <<revision, credential, claims, stateCookie, completing, marker, commits, untouched>>

(* Mutant: the state is claimed, and given up, inside the try block, so a  *)
(* callback that is refused gives up the claim of another.                 *)
ClaimStateInTry(c) ==
  LET s == callback[c].state IN
  /\ callback[c].pc = "checked"
  /\ marker' = Swept
  /\ IF Used(s) \/ s \in completing
     THEN Reply(c) /\ completing' = completing \ {s}
     ELSE /\ callback' = [callback EXCEPT ![c].pc = "exchanging"]
          /\ completing' = completing \cup {s}
  /\ UNCHANGED <<revision, credential, claims, stateCookie, commits, untouched>>

ClaimState(c) ==
  LET s == callback[c].state IN
  /\ callback[c].pc = "checked"
  /\ marker' = Swept
  /\ IF Used(s) \/ s \in completing
     THEN Reply(c) /\ UNCHANGED completing
     ELSE /\ callback' = [callback EXCEPT ![c].pc = "exchanging"]
          /\ completing' = completing \cup {s}
  /\ UNCHANGED <<revision, credential, claims, stateCookie, commits, untouched>>

(* The callback ends: its state can be claimed again, and the answer       *)
(* clears the cookie of the browser, or never reaches it.                  *)
Finish(c) ==
  /\ Reply(c)
  /\ completing' = completing \ {callback[c].state}
  /\ stateCookie' \in {NoState, stateCookie}

(* The provider is asked for the tokens and the root.  It refuses, the     *)
(* administrator has cancelled, or the account is not the one expected.    *)
ExchangeFails(c) ==
  /\ callback[c].pc = "exchanging"
  /\ Finish(c)
  /\ UNCHANGED <<revision, credential, claims, marker, commits, untouched>>

ExchangeSucceeds(c) ==
  /\ callback[c].pc = "exchanging"
  /\ callback' = [callback EXCEPT ![c].pc = "marking"]
  /\ UNCHANGED <<revision, credential, claims, stateCookie, completing, marker, commits, untouched>>

(* markReplayUsed: the marker is set, perhaps by a call that reports an    *)
(* error, and read back.                                                   *)
MarkUsed(c) ==
  /\ callback[c].pc = "marking"
  /\ marker' = [Swept EXCEPT ![callback[c].state] = [owner |-> c, age |-> 0]]
  /\ callback' = [callback EXCEPT ![c].pc = "storing"]
  /\ UNCHANGED <<revision, credential, claims, stateCookie, completing, commits, untouched>>

MarkFails(c) ==
  /\ callback[c].pc = "marking"
  /\ Finish(c)
  /\ marker' \in {Swept, [Swept EXCEPT ![callback[c].state] = [owner |-> c, age |-> 0]]}
  /\ UNCHANGED <<revision, credential, claims, commits, untouched>>

(* Mutant: the reducer looks at the source it replaces and nothing else.   *)
AsExpectedVersion(s) == credential = claims[s].version

(* The reducer compares the document with the claims once more.            *)
AsExpected(s) == revision = claims[s].revision /\ credential = claims[s].version

Store(c) ==
  LET s == callback[c].state IN
  /\ callback[c].pc = "storing"
  /\ Finish(c)
  /\ IF AsExpected(s)
     THEN /\ revision < RevisionBound
          /\ revision' = revision + 1
          /\ credential' = credential + 1
          /\ commits' = [commits EXCEPT ![s] = @ + 1]
          /\ untouched' = {}
     ELSE UNCHANGED <<revision, credential, commits, untouched>>
  /\ UNCHANGED <<claims, marker>>

(* Another change of the document: of a device, of the passphrase, of the  *)
(* token of the source (rotated by a refresh) or its removal.              *)
OtherChange ==
  /\ revision < RevisionBound
  /\ revision' = revision + 1
  /\ credential' \in {credential, 0} \cup (IF credential > 0 THEN {credential + 1} ELSE {})
  /\ untouched' = {}
  /\ UNCHANGED <<claims, stateCookie, callback, completing, marker, commits>>

Older(record) == [record EXCEPT !.age = IF @ < Life THEN @ + 1 ELSE @]

Tick ==
  /\ claims' = [s \in State |-> IF claims[s].begun THEN Older(claims[s]) ELSE claims[s]]
  /\ marker' = [s \in State |-> IF marker[s] = NoMarker THEN NoMarker ELSE Older(marker[s])]
  /\ <<claims', marker'>> # <<claims, marker>>
  /\ UNCHANGED <<revision, credential, stateCookie, callback, completing, commits, untouched>>

(* The process restarts: the callbacks are gone, the markers are not.      *)
Restart ==
  /\ completing' = {}
  /\ callback' = [c \in Callback |-> IdleCallback]
  /\ callback' # callback
  /\ UNCHANGED <<revision, credential, claims, stateCookie, marker, commits, untouched>>

Next ==
  \/ \E s \in State : BeginAuthorization(s) \/ \E c \in Callback : Arrive(c, s)
  \/ \E c \in Callback : ClaimState(c) \/ ExchangeFails(c) \/ ExchangeSucceeds(c)
                         \/ MarkUsed(c) \/ MarkFails(c) \/ Store(c)
  \/ OtherChange \/ Tick \/ Restart

Spec == Init /\ [][Next]_oauthVars

-----------------------------------------------------------------------------
TypeOK ==
  /\ revision \in 1 .. RevisionBound
  /\ credential \in 0 .. RevisionBound
  /\ claims \in [State -> [begun : BOOLEAN, revision : 0 .. RevisionBound,
                           version : 0 .. RevisionBound, age : 0 .. Life]]
  /\ stateCookie \in State \cup {NoState}
  /\ callback \in [Callback -> [pc : {"idle", "checked", "exchanging", "marking", "storing"},
                                state : State \cup {NoState}]]
  /\ completing \subseteq State
  /\ marker \in [State -> [owner : Callback \cup {NoCallback}, age : 0 .. Life]]
  /\ commits \in [State -> Nat]
  /\ untouched \subseteq State

(* A state is completed by one callback at a time, whatever its copies and *)
(* failures, and stores a source at most once, also across restarts.       *)
OneCompletionPerState ==
  \A s \in State :
    /\ Cardinality({c \in Callback : callback[c].state = s
                      /\ callback[c].pc \in {"exchanging", "marking", "storing"}}) <= 1
    /\ commits[s] <= 1

(* A connection is stored only when nobody has changed the document since  *)
(* the administrator began it: neither a rotation of the token, a new      *)
(* passphrase or a removal is overwritten, nor do two authorizations begun *)
(* on one document both store; and a document that has become like that of *)
(* the beginning again, by a removal after a connection, is not taken for  *)
(* it.                                                                     *)
CommitsOnTheUntouched == \A s \in State : commits'[s] # commits[s] => s \in untouched
NothingChangedSinceBegin == [][CommitsOnTheUntouched]_oauthVars
=============================================================================
