---------------------------- MODULE ServerProofs ----------------------------
(***************************************************************************)
(* Proofs about the parts of MCServer that share no module with others:    *)
(* the connection of a source (OAuthFlow), the batch of thumbnails, the    *)
(* source gateway and the life of the process; and, with what              *)
(* ControlApiProofs and BrowsingProofs have of the other parts, that every *)
(* variable of the server keeps its type.                                  *)
(***************************************************************************)
EXTENDS BrowsingProofs, ControlApiProofs

-----------------------------------------------------------------------------
(* OAuthFlow.                                                              *)
CallbackPcs == {"idle", "checked", "exchanging", "marking", "storing"}
Working(c) == callback[c].pc \in {"exchanging", "marking", "storing"}

OAuthTypes ==
  /\ callback \in [Callback -> [pc : CallbackPcs, state : State \cup {NoState}]]
  /\ completing \in SUBSET State
  /\ claims \in [State -> [begun : BOOLEAN, revision : Int, version : Int, age : Int]]
  /\ commits \in [State -> {0, 1}]
  /\ revision \in Int /\ credential \in Int

(* A callback at work holds the claim on its state, which no two share.    *)
Exclusive ==
  /\ \A c \in Callback : Working(c) => callback[c].state \in completing
  /\ \A c, d \in Callback :
       Working(c) /\ Working(d) /\ callback[c].state = callback[d].state => c = d

(* A state that has stored its source names a revision that is gone, and   *)
(* is not begun again: that, and not the marker, which expires and which a *)
(* failure may leave unset, is why it stores no other.                     *)
Spent ==
  /\ \A c \in Callback : callback[c].pc # "idle" =>
       callback[c].state \in State /\ claims[callback[c].state].begun
  /\ \A s \in State : commits[s] = 1 => claims[s].begun /\ claims[s].revision < revision

OAuthInv == OAuthTypes /\ Exclusive /\ Spent

LEMMA OAuthInit ==
  ASSUME OAuth!Init
  PROVE  OAuthInv
BY DEF OAuth!Init, OAuthInv, OAuthTypes, Exclusive, Spent, Working, OAuth!NotBegun,
       OAuth!IdleCallback, CallbackPcs

LEMMA BeginInv ==
  ASSUME OAuthInv, NEW s \in State, OAuth!BeginAuthorization(s)
  PROVE  OAuthInv'
<1>1. /\ claims' = [claims EXCEPT ![s] =
           [begun |-> TRUE, revision |-> revision, version |-> credential, age |-> 0]]
      /\ ~claims[s].begun
      /\ UNCHANGED <<revision, credential, callback, completing, commits>>
  BY DEF OAuth!BeginAuthorization
<1>2. OAuthTypes' BY <1>1 DEF OAuthInv, OAuthTypes
<1>3. Exclusive' BY <1>1 DEF OAuthInv, Exclusive, Working
<1>4. Spent' BY <1>1 DEF OAuthInv, OAuthTypes, Spent
<1> QED BY <1>2, <1>3, <1>4 DEF OAuthInv

(* The browser comes back with its state.                                  *)
LEMMA ArriveInv ==
  ASSUME OAuthInv, NEW c \in Callback, NEW s \in State, OAuth!Arrive(c, s)
  PROVE  OAuthInv'
<1>1. /\ callback' = [callback EXCEPT ![c] = [pc |-> "checked", state |-> s]]
      /\ claims[s].begun
      /\ UNCHANGED <<revision, credential, claims, completing, commits>>
  BY DEF OAuth!Arrive
<1>2. OAuthTypes' BY <1>1 DEF OAuthInv, OAuthTypes, CallbackPcs
<1>3. \A d \in Callback : callback'[d] = IF d = c THEN [pc |-> "checked", state |-> s]
                                         ELSE callback[d]
  BY <1>1 DEF OAuthInv, OAuthTypes
<1>4. Exclusive' BY <1>1, <1>3 DEF OAuthInv, Exclusive, Working
<1>5. Spent' BY <1>1, <1>3 DEF OAuthInv, Spent
<1> QED BY <1>2, <1>4, <1>5 DEF OAuthInv

(* A callback gives up, or ends: the claims of the others stand.           *)
LEMMA EndInv ==
  ASSUME OAuthInv, NEW c \in Callback, OAuth!Reply(c),
         \/ UNCHANGED completing /\ ~Working(c)
         \/ completing' = completing \ {callback[c].state} /\ Working(c),
         UNCHANGED <<claims, revision, commits>>, credential' \in Int
  PROVE  OAuthInv'
<1>1. callback' = [callback EXCEPT ![c] = OAuth!IdleCallback] BY DEF OAuth!Reply
<1>2. OAuthTypes' BY <1>1 DEF OAuthInv, OAuthTypes, OAuth!IdleCallback, CallbackPcs
<1>3. \A d \in Callback : callback'[d] = IF d = c THEN OAuth!IdleCallback ELSE callback[d]
  BY <1>1 DEF OAuthInv, OAuthTypes
<1>4. ~Working(c)' BY <1>3 DEF Working, OAuth!IdleCallback
<1>5. \A d \in Callback : Working(d)' => d # c /\ Working(d) /\ callback'[d] = callback[d]
  BY <1>3, <1>4 DEF Working
<1>6. Exclusive' BY <1>5 DEF OAuthInv, Exclusive
<1>7. Spent' BY <1>3 DEF OAuthInv, Spent, OAuth!IdleCallback
<1> QED BY <1>2, <1>6, <1>7 DEF OAuthInv

(* A callback goes on to its next await with the claim it has.             *)
LEMMA CallbackGoesOnInv ==
  ASSUME OAuthInv, NEW c \in Callback, Working(c),
         NEW pc \in {"exchanging", "marking", "storing"},
         callback' = [callback EXCEPT ![c].pc = pc],
         UNCHANGED <<revision, credential, claims, completing, commits>>
  PROVE  OAuthInv'
<1>1. OAuthTypes' BY DEF OAuthInv, OAuthTypes, CallbackPcs
<1>2. \A d \in Callback : (Working(d)' <=> Working(d)) /\ callback'[d].state = callback[d].state
                          /\ (callback'[d].pc = "idle" <=> callback[d].pc = "idle")
  BY DEF OAuthInv, OAuthTypes, Working
<1>3. Exclusive' BY <1>2 DEF OAuthInv, Exclusive
<1>4. Spent' BY <1>2 DEF OAuthInv, Spent
<1> QED BY <1>1, <1>3, <1>4 DEF OAuthInv

LEMMA ClaimStateInv ==
  ASSUME OAuthInv, NEW c \in Callback, OAuth!ClaimState(c)
  PROVE  OAuthInv'
<1> DEFINE s == callback[c].state
<1>1. UNCHANGED <<revision, credential, claims, commits>> /\ callback[c].pc = "checked"
  BY DEF OAuth!ClaimState
<1>2. CASE OAuth!Used(s) \/ s \in completing
  BY <1>1, <1>2, EndInv DEF OAuth!ClaimState, Working, OAuthInv, OAuthTypes
<1>3. CASE ~(OAuth!Used(s) \/ s \in completing)
  <2>1. /\ callback' = [callback EXCEPT ![c].pc = "exchanging"]
        /\ completing' = completing \cup {s} /\ s \notin completing
    BY <1>3 DEF OAuth!ClaimState
  <2>2. s \in State /\ claims[s].begun BY <1>1 DEF OAuthInv, Spent
  <2>3. OAuthTypes' BY <1>1, <2>1, <2>2 DEF OAuthInv, OAuthTypes, CallbackPcs
  <2>4. \A d \in Callback : /\ d # c => callback'[d] = callback[d]
                            /\ callback'[d].state = callback[d].state
    BY <2>1 DEF OAuthInv, OAuthTypes
  <2>5. \A d \in Callback : Working(d)' => d = c \/ Working(d)
    BY <2>4 DEF Working
  <2>6. Exclusive' BY <2>1, <2>4, <2>5 DEF OAuthInv, Exclusive
  <2>7. Spent' BY <1>1, <2>2, <2>4 DEF OAuthInv, Spent
  <2> QED BY <2>3, <2>6, <2>7 DEF OAuthInv
<1> QED BY <1>2, <1>3

(* The revision a commit makes is one the state does not name.             *)
LEMMA StoreInv ==
  ASSUME OAuthInv, NEW c \in Callback, OAuth!Store(c)
  PROVE  OAuthInv'
<1> DEFINE s == callback[c].state
<1>1. OAuth!Finish(c) /\ callback[c].pc = "storing" /\ UNCHANGED claims BY DEF OAuth!Store
<1>2. s \in State /\ claims[s].begun BY <1>1 DEF OAuthInv, Spent
<1>3. CASE ~OAuth!AsExpected(s)
  BY <1>1, <1>3, EndInv DEF OAuth!Store, OAuth!Finish, Working, OAuthInv, OAuthTypes
<1>4. CASE OAuth!AsExpected(s)
  <2>1. /\ revision' = revision + 1 /\ credential' = credential + 1
        /\ commits' = [commits EXCEPT ![s] = @ + 1] /\ claims[s].revision = revision
    BY <1>4 DEF OAuth!Store, OAuth!AsExpected
  <2>2. commits[s] = 0 BY <1>2, <2>1 DEF OAuthInv, OAuthTypes, Spent
  <2>3. /\ callback' = [callback EXCEPT ![c] = OAuth!IdleCallback]
        /\ completing' = completing \ {s}
    BY <1>1 DEF OAuth!Finish, OAuth!Reply
  <2>4. \A d \in Callback : callback'[d] = IF d = c THEN OAuth!IdleCallback ELSE callback[d]
    BY <2>3 DEF OAuthInv, OAuthTypes
  <2>5. OAuthTypes'
    BY <1>1, <1>2, <2>1, <2>2, <2>3 DEF OAuthInv, OAuthTypes, OAuth!IdleCallback, CallbackPcs
  <2>6. \A d \in Callback : Working(d)' => d # c /\ Working(d) /\ callback'[d] = callback[d]
    BY <2>4 DEF Working, OAuth!IdleCallback
  <2>7. Working(c) BY <1>1 DEF Working
  <2>8. Exclusive' BY <2>3, <2>6, <2>7 DEF OAuthInv, Exclusive
  <2>9. \A t \in State : commits'[t] = 1 => claims[t].begun /\ claims[t].revision < revision + 1
    BY <1>2, <2>1 DEF OAuthInv, OAuthTypes, Spent
  <2>10. Spent' BY <1>1, <2>1, <2>4, <2>9 DEF OAuthInv, Spent, OAuth!IdleCallback
  <2> QED BY <2>5, <2>8, <2>10 DEF OAuthInv
<1> QED BY <1>3, <1>4

(* What happens around the callbacks.                                      *)
LEMMA AroundOAuthInv ==
  ASSUME StateLife \in Int, OAuthInv, OAuth!OtherChange \/ OAuth!Tick \/ OAuth!Restart
         \/ UNCHANGED oauthVars
  PROVE  OAuthInv'
<1>1. CASE OAuth!OtherChange
  <2>1. revision' = revision + 1 /\ credential' \in Int
        /\ UNCHANGED <<claims, callback, completing, commits>>
    BY <1>1 DEF OAuth!OtherChange, OAuthInv, OAuthTypes
  <2> QED BY <2>1 DEF OAuthInv, OAuthTypes, Exclusive, Spent, Working
<1>2. CASE OAuth!Tick
  <2>1. claims' = [s \in State |->
                     IF claims[s].begun THEN OAuth!Older(claims[s]) ELSE claims[s]]
        /\ UNCHANGED <<revision, credential, callback, completing, commits>>
    BY <1>2 DEF OAuth!Tick
  <2>2. \A s \in State :
           /\ claims'[s] \in [begun : BOOLEAN, revision : Int, version : Int, age : Int]
           /\ claims'[s].begun = claims[s].begun
           /\ claims'[s].revision = claims[s].revision
    BY <2>1 DEF OAuthInv, OAuthTypes, OAuth!Older
  <2>3. OAuthTypes' BY <2>1, <2>2 DEF OAuthInv, OAuthTypes
  <2>4. Exclusive' BY <2>1 DEF OAuthInv, Exclusive, Working
  <2>5. Spent' BY <2>1, <2>2 DEF OAuthInv, OAuthTypes, Spent
  <2> QED BY <2>3, <2>4, <2>5 DEF OAuthInv
<1>3. CASE OAuth!Restart
  BY <1>3
  DEF OAuth!Restart, OAuthInv, OAuthTypes, Exclusive, Spent, Working, OAuth!IdleCallback,
      CallbackPcs
<1>4. CASE UNCHANGED oauthVars
  BY <1>4 DEF oauthVars, OAuthInv, OAuthTypes, Exclusive, Spent, Working
<1> QED BY <1>1, <1>2, <1>3, <1>4

LEMMA OAuthStep ==
  ASSUME StateLife \in Int, OAuthInv, OAuth!Next \/ UNCHANGED oauthVars
  PROVE  OAuthInv'
<1>1. ASSUME NEW c \in Callback, OAuth!ExchangeFails(c) \/ OAuth!MarkFails(c) PROVE OAuthInv'
  BY <1>1, EndInv
  DEF OAuth!ExchangeFails, OAuth!MarkFails, OAuth!Finish, Working, OAuthInv, OAuthTypes
<1>2. ASSUME NEW c \in Callback, OAuth!ExchangeSucceeds(c) \/ OAuth!MarkUsed(c) PROVE OAuthInv'
  BY <1>2, CallbackGoesOnInv DEF OAuth!ExchangeSucceeds, OAuth!MarkUsed, Working
<1> QED
  BY <1>1, <1>2, BeginInv, ArriveInv, ClaimStateInv, StoreInv, AroundOAuthInv DEF OAuth!Next

(* A set whose elements are all the same has one at most.                  *)
LEMMA AtMostOne ==
  ASSUME NEW S, \A x, y \in S : x = y
  PROVE  Cardinality(S) <= 1
<1>1. CASE S = {} BY <1>1, FS_EmptySet
<1>2. CASE S # {}
  <2>1. PICK x : x \in S BY <1>2
  <2>2. S = {x} BY <2>1
  <2> QED BY <2>2, FS_Singleton
<1> QED BY <1>1, <1>2

(* The cardinality of the instance is that of FiniteSets.                  *)
LEMMA SameCardinality == \A S : OAuth!Cardinality(S) = Cardinality(S)
BY DEF OAuth!Cardinality, Cardinality

(* The invariant of the connection flow, in every behaviour of that part.  *)
LEMMA OAuthHolds == Spec => [](part = "oauth" => OAuthInv)
<1>1. Init => (part = "oauth" => OAuthInv)
  BY ServerAssumption, OAuthInit DEF Init
<1>2. (part = "oauth" => OAuthInv) /\ [Next]_vars => (part = "oauth" => OAuthInv)'
  <2>1. SUFFICES ASSUME [Next]_vars, part' = "oauth", part = "oauth" => OAuthInv PROVE OAuthInv'
    OBVIOUS
  <2>2. part = "oauth" BY <2>1 DEF Next, vars
  <2> QED BY <2>1, <2>2, ServerAssumption, OAuthStep DEF Next, vars
<1> QED BY <1>1, <1>2, PTL DEF Spec

(* A state is completed by one callback at a time, whatever its copies and *)
(* failures, and stores a source at most once, also across restarts and    *)
(* when its marker has expired.                                            *)
THEOREM OneCompletionHolds == Spec => []OneCompletionPerState
<1>1. OAuthInv => OAuth!OneCompletionPerState
  <2>1. SUFFICES ASSUME OAuthInv, NEW s \in State
                 PROVE  /\ Cardinality({c \in Callback : callback[c].state = s /\ Working(c)}) <= 1
                        /\ commits[s] <= 1
    BY SameCardinality DEF OAuth!OneCompletionPerState, Working
  <2>2. \A c, d \in {e \in Callback : callback[e].state = s /\ Working(e)} : c = d
    BY <2>1 DEF OAuthInv, Exclusive
  <2> QED BY <2>1, <2>2, AtMostOne DEF OAuthInv, OAuthTypes
<1>2. (part = "oauth" => OAuthInv) => OneCompletionPerState
  BY <1>1 DEF OneCompletionPerState
<1> QED BY <1>2, OAuthHolds, PTL

(* A revision stands for one document: whoever begins has seen the         *)
(* revision of that moment, each change raises it, and so a state that     *)
(* names the revision of now was begun after the last change.              *)
RevisionNamesDocument ==
  /\ untouched \subseteq State
  /\ \A s \in State : claims[s].begun =>
       claims[s].revision <= revision /\ (claims[s].revision = revision => s \in untouched)

LEMMA RevisionRaised ==
  ASSUME OAuthInv, RevisionNamesDocument,
         revision' = revision + 1, untouched' = {}, UNCHANGED claims
  PROVE  RevisionNamesDocument'
<1>1. revision \in Int /\ \A s \in State : claims[s].revision \in Int
  BY DEF OAuthInv, OAuthTypes
<1>2. ASSUME NEW s \in State, claims[s].begun PROVE claims[s].revision < revision'
  BY <1>1, <1>2 DEF RevisionNamesDocument
<1> QED BY <1>1, <1>2 DEF RevisionNamesDocument

LEMMA RevisionStands ==
  ASSUME RevisionNamesDocument, UNCHANGED <<revision, untouched>>,
         \A s \in State : claims'[s].begun = claims[s].begun
                          /\ claims'[s].revision = claims[s].revision
  PROVE  RevisionNamesDocument'
BY DEF RevisionNamesDocument

LEMMA RevisionNamesDocumentStep ==
  ASSUME OAuthInv, RevisionNamesDocument, OAuth!Next \/ UNCHANGED oauthVars
  PROVE  RevisionNamesDocument'
<1>1. ASSUME NEW s \in State, OAuth!BeginAuthorization(s) PROVE RevisionNamesDocument'
  <2>1. /\ untouched' = untouched \cup {s} /\ revision' = revision /\ revision \in Int
        /\ \A t \in State : t # s => claims'[t] = claims[t]
        /\ claims'[s].revision = revision
    BY <1>1 DEF OAuth!BeginAuthorization, OAuthInv, OAuthTypes
  <2> QED BY <2>1 DEF RevisionNamesDocument
<1>2. ASSUME NEW c \in Callback, OAuth!Store(c) PROVE RevisionNamesDocument'
  <2>1. CASE OAuth!AsExpected(callback[c].state)
    BY <1>2, <2>1, RevisionRaised DEF OAuth!Store
  <2>2. CASE ~OAuth!AsExpected(callback[c].state)
    BY <1>2, <2>2, RevisionStands DEF OAuth!Store
  <2> QED BY <2>1, <2>2
<1>3. CASE OAuth!OtherChange BY <1>3, RevisionRaised DEF OAuth!OtherChange
<1>4. CASE OAuth!Tick
  <2>1. /\ claims' = [s \in State |->
                       IF claims[s].begun THEN OAuth!Older(claims[s]) ELSE claims[s]]
        /\ UNCHANGED <<revision, untouched>>
    BY <1>4 DEF OAuth!Tick
  <2>2. \A s \in State : claims'[s].begun = claims[s].begun
                         /\ claims'[s].revision = claims[s].revision
    BY <2>1 DEF OAuthInv, OAuthTypes, OAuth!Older
  <2> QED BY <2>1, <2>2, RevisionStands
<1>5. ASSUME UNCHANGED <<revision, untouched, claims>> PROVE RevisionNamesDocument'
  BY <1>5, RevisionStands
<1>6. ASSUME NEW c \in Callback, NEW s \in State, OAuth!Arrive(c, s)
      PROVE  UNCHANGED <<revision, untouched, claims>>
  BY <1>6 DEF OAuth!Arrive
<1>7. ASSUME NEW c \in Callback,
             \/ OAuth!ClaimState(c) \/ OAuth!ExchangeFails(c) \/ OAuth!ExchangeSucceeds(c)
             \/ OAuth!MarkUsed(c) \/ OAuth!MarkFails(c)
      PROVE  UNCHANGED <<revision, untouched, claims>>
  BY <1>7 DEF OAuth!ClaimState, OAuth!ExchangeFails, OAuth!ExchangeSucceeds, OAuth!MarkUsed,
              OAuth!MarkFails
<1>8. CASE OAuth!Restart \/ UNCHANGED oauthVars
  BY <1>5, <1>8 DEF OAuth!Restart, oauthVars
<1> QED BY <1>1, <1>2, <1>3, <1>4, <1>5, <1>6, <1>7, <1>8 DEF OAuth!Next

LEMMA RevisionNamesDocumentHolds == Spec => [](part = "oauth" => RevisionNamesDocument)
<1>1. Init => (part = "oauth" => RevisionNamesDocument)
  BY DEF Init, OAuth!Init, OAuth!NotBegun, RevisionNamesDocument
<1>2. /\ part = "oauth" => OAuthInv
      /\ part = "oauth" => RevisionNamesDocument
      /\ [Next]_vars
      => (part = "oauth" => RevisionNamesDocument)'
  <2>1. SUFFICES ASSUME [Next]_vars, part' = "oauth", part = "oauth" => OAuthInv,
                        part = "oauth" => RevisionNamesDocument
                 PROVE  RevisionNamesDocument'
    OBVIOUS
  <2>2. part = "oauth" BY <2>1 DEF Next, vars
  <2> QED BY <2>1, <2>2, RevisionNamesDocumentStep DEF Next, vars
<1> QED BY <1>1, <1>2, OAuthHolds, PTL DEF Spec

(* A connection is stored only when nobody has changed the document since  *)
(* its authorization was begun.  The reducer compares revisions only; that *)
(* an equal one means an untouched document is RevisionNamesDocument.      *)
THEOREM NothingChangedSinceBeginHolds == Spec => NothingChangedSinceBegin
<1>1. /\ part = "oauth" => OAuthInv
      /\ part = "oauth" => RevisionNamesDocument
      /\ [Next]_vars
      => [part = "oauth" => OAuth!CommitsOnTheUntouched]_vars
  <2>1. SUFFICES ASSUME OAuthInv, RevisionNamesDocument, OAuth!Next, NEW s \in State,
                        commits'[s] # commits[s]
                 PROVE  s \in untouched
    BY DEF OAuth!CommitsOnTheUntouched, Next
  <2>2. PICK c \in Callback : OAuth!Store(c)
    BY <2>1 DEF OAuth!Next, OAuth!BeginAuthorization, OAuth!Arrive, OAuth!ClaimState,
                OAuth!ExchangeFails, OAuth!ExchangeSucceeds, OAuth!MarkUsed, OAuth!MarkFails,
                OAuth!OtherChange, OAuth!Tick, OAuth!Restart
  <2>3. /\ OAuth!AsExpected(callback[c].state) /\ callback[c].pc = "storing"
        /\ commits' = [commits EXCEPT ![callback[c].state] = @ + 1]
    BY <2>1, <2>2 DEF OAuth!Store
  <2>4. s = callback[c].state BY <2>1, <2>3 DEF OAuthInv, OAuthTypes
  <2>5. claims[s].begun BY <2>1, <2>3, <2>4 DEF OAuthInv, Spent
  <2>6. claims[s].revision = revision BY <2>3, <2>4 DEF OAuth!AsExpected
  <2> QED BY <2>1, <2>5, <2>6 DEF RevisionNamesDocument
<1> QED BY <1>1, OAuthHolds, RevisionNamesDocumentHolds, PTL DEF Spec, NothingChangedSinceBegin
-----------------------------------------------------------------------------
(* ThumbnailBatch.                                                         *)
(* The refreshes that were made are counted by the state of the group that *)
(* is done: none for those to come, one for it once it has asked for one,  *)
(* and its generation is the new one exactly when that one has ended well. *)
RefreshesCounted ==
  /\ refreshes \in [1 .. Groups -> Nat]
  /\ \A g \in 1 .. Groups : g > batch.group => refreshes[g] = 0
  /\ refreshes[batch.group] = IF batch.refresh = "none" THEN 0 ELSE 1
  /\ batch.generation = IF batch.refresh = "done" THEN 1 ELSE 0

ThumbnailsInv == Thumbnails!TypeOK /\ RefreshesCounted /\ Thumbnails!SharedRefresh

LEMMA ThumbnailsInit ==
  ASSUME Groups \in Nat \ {0}, Thumbnails!Init
  PROVE  ThumbnailsInv
<1>1. thumb \in [Thumbnails!Item ->
                    {[pc |-> p, generation |-> 0] : p \in Thumbnails!Settled \cup {"waiting"}}]
  BY DEF Thumbnails!Init
<1>2. \A i \in Thumbnails!Item : \E p \in Thumbnails!Settled \cup {"waiting"} :
         thumb[i] = [pc |-> p, generation |-> 0]
  BY <1>1
<1> DEFINE Pc == Thumbnails!InFlight \cup Thumbnails!Settled \cup {"waiting", "failed"}
<1>3. thumb \in [Thumbnails!Item -> [pc : Pc, generation : {0, 1}]]
  <2>1. ASSUME NEW i \in Thumbnails!Item
        PROVE  thumb[i] \in [pc : Pc, generation : {0, 1}]
    <3>1. PICK p \in Thumbnails!Settled \cup {"waiting"} :
             thumb[i] = [pc |-> p, generation |-> 0]
      BY <1>2
    <3>2. p \in Pc OBVIOUS
    <3> QED BY <3>1, <3>2
  <2> QED BY <1>1, <2>1
<1>4. batch = Thumbnails!NewGroup(1) /\ refreshes = [g \in 1 .. Groups |-> 0]
  BY DEF Thumbnails!Init
<1>5. Thumbnails!TypeOK
  <2>1. 1 \in 1 .. Groups OBVIOUS
  <2> QED BY <1>3, <1>4, <2>1 DEF Thumbnails!TypeOK, Thumbnails!NewGroup
<1>6. RefreshesCounted
  <2>1. batch.group = 1 /\ batch.refresh = "none" /\ batch.generation = 0
    BY <1>4 DEF Thumbnails!NewGroup
  <2>2. 1 \in 1 .. Groups OBVIOUS
  <2> QED BY <1>4, <2>1, <2>2 DEF RefreshesCounted
<1>7. Thumbnails!SharedRefresh BY <1>2, <1>4 DEF Thumbnails!SharedRefresh, Thumbnails!Settled
<1> QED BY <1>5, <1>6, <1>7 DEF ThumbnailsInv

(* Taking an item, an answer and an error that concerns only it: the group *)
(* keeps its refresh and its generation.                                   *)
LEMMA TakeInv ==
  ASSUME ThumbnailsInv, NEW i \in Thumbnails!Item, Thumbnails!Take(i)
  PROVE  ThumbnailsInv'
BY DEF ThumbnailsInv, Thumbnails!TypeOK, RefreshesCounted, Thumbnails!SharedRefresh,
       Thumbnails!Take, Thumbnails!InFlight

LEMMA VendedInv ==
  ASSUME ThumbnailsInv, NEW i \in Thumbnails!Item, Thumbnails!Vended(i)
  PROVE  ThumbnailsInv'
<1>1. PICK p \in Thumbnails!Settled : thumb' = [thumb EXCEPT ![i].pc = p]
  BY DEF Thumbnails!Vended
<1>2. UNCHANGED <<batch, refreshes>> BY DEF Thumbnails!Vended
<1>3. Thumbnails!TypeOK' BY <1>1, <1>2 DEF ThumbnailsInv, Thumbnails!TypeOK
<1>4. RefreshesCounted' BY <1>2 DEF ThumbnailsInv, RefreshesCounted
<1>5. \A j \in Thumbnails!Item : thumb'[j].pc = "retrying" => thumb'[j].generation = 1
  BY <1>1 DEF ThumbnailsInv, Thumbnails!TypeOK, Thumbnails!SharedRefresh, Thumbnails!Settled
<1> QED BY <1>2, <1>3, <1>4, <1>5 DEF ThumbnailsInv, Thumbnails!SharedRefresh

LEMMA FailedInv ==
  ASSUME ThumbnailsInv, NEW i \in Thumbnails!Item, Thumbnails!Failed(i), UNCHANGED refreshes
  PROVE  ThumbnailsInv'
BY DEF ThumbnailsInv, Thumbnails!TypeOK, RefreshesCounted, Thumbnails!SharedRefresh,
       Thumbnails!Failed

(* Who finds the token rejected joins the refresh, begins it, or goes on   *)
(* with the credentials it has brought.                                    *)
LEMMA RefreshInv ==
  ASSUME Groups \in Nat \ {0}, ThumbnailsInv, NEW i \in Thumbnails!Item, Thumbnails!Refresh(i)
  PROVE  ThumbnailsInv'
<1>1. Thumbnails!TypeOK'
  BY DEF ThumbnailsInv, Thumbnails!TypeOK, Thumbnails!Refresh, Thumbnails!InFlight
<1>0. batch.group \in 1 .. Groups BY DEF ThumbnailsInv, Thumbnails!TypeOK
<1>2. RefreshesCounted'
  <2>1. CASE batch.refresh = "none"
    <3>1. /\ batch' = [batch EXCEPT !.refresh = "pending"]
          /\ refreshes' = [refreshes EXCEPT ![batch.group] = 1]
      BY <1>0, <2>1 DEF Thumbnails!Refresh, ThumbnailsInv, RefreshesCounted
    <3>2. batch'.group = batch.group /\ batch'.refresh = "pending"
          /\ batch'.generation = batch.generation
      BY <3>1 DEF ThumbnailsInv, Thumbnails!TypeOK
    <3> QED BY <1>0, <2>1, <3>1, <3>2 DEF ThumbnailsInv, RefreshesCounted
  <2>2. CASE batch.refresh # "none"
    BY <2>2 DEF Thumbnails!Refresh, ThumbnailsInv, RefreshesCounted
  <2> QED BY <2>1, <2>2
<1>3. \A g \in 1 .. Groups : refreshes'[g] <= 1
  BY <1>0 DEF Thumbnails!Refresh, ThumbnailsInv, RefreshesCounted, Thumbnails!SharedRefresh
<1>4. \A j \in Thumbnails!Item : thumb'[j].pc = "retrying" => thumb'[j].generation = 1
  BY DEF Thumbnails!Refresh, ThumbnailsInv, Thumbnails!TypeOK, Thumbnails!SharedRefresh
<1> QED BY <1>1, <1>2, <1>3, <1>4 DEF ThumbnailsInv, Thumbnails!SharedRefresh

LEMMA TokenRejectedInv ==
  ASSUME Groups \in Nat \ {0}, ThumbnailsInv, NEW i \in Thumbnails!Item,
         Thumbnails!TokenRejected(i)
  PROVE  ThumbnailsInv'
<1>1. CASE Thumbnails!Failed(i) /\ UNCHANGED refreshes BY <1>1, FailedInv
<1>2. CASE /\ thumb' = [thumb EXCEPT ![i] = [pc |-> "retrying", generation |-> 1]]
           /\ UNCHANGED <<batch, refreshes>>
  BY <1>2
  DEF ThumbnailsInv, Thumbnails!TypeOK, RefreshesCounted, Thumbnails!SharedRefresh,
      Thumbnails!InFlight
<1>3. CASE Thumbnails!Refresh(i) BY <1>3, RefreshInv
<1> QED BY <1>1, <1>2, <1>3 DEF Thumbnails!TokenRejected

LEMMA ResumeInv ==
  ASSUME ThumbnailsInv, NEW i \in Thumbnails!Item, Thumbnails!Resume(i)
  PROVE  ThumbnailsInv'
<1>1. CASE batch.refresh = "rejected" /\ Thumbnails!Failed(i)
  BY <1>1, FailedInv DEF Thumbnails!Resume
<1>2. CASE /\ batch.refresh = "done"
           /\ thumb' = [thumb EXCEPT ![i] = [pc |-> "retrying",
                  generation |-> batch.generation]]
           /\ UNCHANGED batch
  BY <1>2
  DEF Thumbnails!Resume, ThumbnailsInv, Thumbnails!TypeOK, RefreshesCounted,
      Thumbnails!SharedRefresh, Thumbnails!InFlight
<1>3. CASE /\ thumb' = [thumb EXCEPT ![i].pc = "unavailable"]
           /\ UNCHANGED batch
  BY <1>3
  DEF Thumbnails!Resume, ThumbnailsInv, Thumbnails!TypeOK, RefreshesCounted,
      Thumbnails!SharedRefresh, Thumbnails!InFlight, Thumbnails!Settled
<1> QED BY <1>1, <1>2, <1>3 DEF Thumbnails!Resume

(* The next group begins with none of its refreshes made.                  *)
LEMMA NextGroupInv ==
  ASSUME Groups \in Nat \ {0}, ThumbnailsInv, batch.group < Groups,
         batch' = Thumbnails!NewGroup(batch.group + 1), UNCHANGED <<thumb, refreshes>>
  PROVE  ThumbnailsInv'
<1>1. batch.group \in 1 .. Groups BY DEF ThumbnailsInv, Thumbnails!TypeOK
<1>2. batch.group + 1 \in 1 .. Groups BY <1>1
<1>3. batch'.group = batch.group + 1 /\ batch'.refresh = "none" /\ batch'.generation = 0
  BY DEF Thumbnails!NewGroup
<1>4. Thumbnails!TypeOK' BY <1>2 DEF ThumbnailsInv, Thumbnails!TypeOK, Thumbnails!NewGroup
<1>5. RefreshesCounted'
  <2>1. refreshes[batch.group + 1] = 0 BY <1>1, <1>2 DEF ThumbnailsInv, RefreshesCounted
  <2>2. \A g \in 1 .. Groups : g > batch.group + 1 => refreshes[g] = 0
    BY <1>1 DEF ThumbnailsInv, RefreshesCounted
  <2>3. refreshes \in [1 .. Groups -> Nat] /\ refreshes' = refreshes
    BY DEF ThumbnailsInv, RefreshesCounted
  <2> QED BY <1>3, <2>1, <2>2, <2>3 DEF RefreshesCounted
<1> QED BY <1>4, <1>5 DEF ThumbnailsInv, Thumbnails!SharedRefresh

LEMMA BatchInv ==
  ASSUME Groups \in Nat \ {0}, ThumbnailsInv, Thumbnails!Credentials
         \/ Thumbnails!RefreshEnds \/ Thumbnails!GroupDone
  PROVE  ThumbnailsInv'
<1>1. CASE Thumbnails!Credentials
  BY <1>1
  DEF ThumbnailsInv, Thumbnails!TypeOK, RefreshesCounted, Thumbnails!SharedRefresh,
      Thumbnails!Credentials, Thumbnails!Answer
<1>2. CASE Thumbnails!RefreshEnds
  BY <1>2
  DEF ThumbnailsInv, Thumbnails!TypeOK, RefreshesCounted, Thumbnails!SharedRefresh,
      Thumbnails!RefreshEnds
<1>3. CASE Thumbnails!GroupDone
  <2>1. CASE ~batch.failed /\ batch.group < Groups
    BY <1>3, <2>1, NextGroupInv DEF Thumbnails!GroupDone
  <2>2. CASE batch.failed \/ ~(batch.group < Groups)
    BY <1>3, <2>2
    DEF ThumbnailsInv, Thumbnails!TypeOK, RefreshesCounted, Thumbnails!SharedRefresh,
        Thumbnails!GroupDone, Thumbnails!Answer
  <2> QED BY <2>1, <2>2
<1> QED BY <1>1, <1>2, <1>3

LEMMA ThumbnailsStep ==
  ASSUME Groups \in Nat \ {0}, ThumbnailsInv, Thumbnails!Next \/ UNCHANGED batchVars
  PROVE  ThumbnailsInv'
<1>1. CASE UNCHANGED batchVars
  BY <1>1
  DEF batchVars, ThumbnailsInv, Thumbnails!TypeOK, RefreshesCounted, Thumbnails!SharedRefresh
<1>2. ASSUME NEW i \in Thumbnails!Item, Thumbnails!OperationFails(i) PROVE ThumbnailsInv'
  BY <1>2, FailedInv DEF Thumbnails!OperationFails
<1> QED
  BY <1>1, <1>2, TakeInv, VendedInv, TokenRejectedInv, ResumeInv, BatchInv DEF Thumbnails!Next

(* The invariant of the batch, in every behaviour of that part.            *)
LEMMA ThumbnailsHold == Spec => [](part = "thumbnails" => ThumbnailsInv)
<1>1. Init => (part = "thumbnails" => ThumbnailsInv)
  BY ServerAssumption, ThumbnailsInit DEF Init
<1>2. (part = "thumbnails" => ThumbnailsInv) /\ [Next]_vars => (part = "thumbnails" => ThumbnailsInv)'
  <2>1. SUFFICES ASSUME [Next]_vars, part' = "thumbnails", part = "thumbnails" => ThumbnailsInv PROVE ThumbnailsInv'
    OBVIOUS
  <2>2. part = "thumbnails" BY <2>1 DEF Next, vars
  <2> QED BY <2>1, <2>2, ServerAssumption, ThumbnailsStep DEF Next, vars
<1> QED BY <1>1, <1>2, PTL DEF Spec

(* However many items of a group find its token rejected, and in whatever  *)
(* order they are told, it is refreshed once, and who tries again does so  *)
(* with the new credentials.                                               *)
THEOREM SharedRefreshHolds == Spec => []SharedRefresh
<1>1. (part = "thumbnails" => ThumbnailsInv) => SharedRefresh BY DEF ThumbnailsInv, SharedRefresh
<1> QED BY <1>1, ThumbnailsHold, PTL
-----------------------------------------------------------------------------
(* SourceGateway.                                                          *)
FetcherState == [pc : Gateway!Pcs, cap : Capability, aborted : BOOLEAN, retried : BOOLEAN,
                 valid : BOOLEAN]

(* A request that is not idle has its controller in the set of its         *)
(* capability, which was granted before; what revocation aborts is that    *)
(* set.                                                                    *)
Registered ==
  \A f \in Fetcher : fetcher[f].pc # "idle" =>
    f \in active[fetcher[f].cap] /\ grants[fetcher[f].cap] # "new"

(* While the document is valid, every attempt under way has seen it so;    *)
(* and beyond the check an attempt has.  This is what survives a root that *)
(* is taken and given back: the check reads the document of the moment,    *)
(* and that moment is one of the attempt.                                  *)
Vouched ==
  \A f \in Fetcher : fetcher[f].pc # "idle" =>
    (Gateway!Valid(document) \/ fetcher[f].pc # "loading" => fetcher[f].valid)

GatewayTypes ==
  /\ grants \in [Capability -> {"new", "granted", "expired", "revoked"}]
  /\ active \in [Capability -> SUBSET Fetcher]
  /\ fetcher \in [Fetcher -> FetcherState]
  /\ document \in [authorized : BOOLEAN, version : Nat \ {0}]

GatewayInv == GatewayTypes /\ Registered /\ Vouched /\ Gateway!RevokedIsAborted
       /\ Gateway!FetchIsAuthorized

LEMMA IdleType ==
  ASSUME Capability # {}
  PROVE  Gateway!Idle \in FetcherState
BY DEF Gateway!Idle, FetcherState, Gateway!Pcs

LEMMA GatewayInit ==
  ASSUME Capability # {}, Gateway!Init
  PROVE  GatewayInv
<1>1. GatewayTypes BY IdleType DEF Gateway!Init, GatewayTypes, Gateway!BoundVersion
<1> QED
  BY <1>1
  DEF Gateway!Init, GatewayInv, Registered, Vouched, Gateway!RevokedIsAborted,
      Gateway!FetchIsAuthorized, Gateway!Idle

(* The grants.  What is revoked has all of its requests aborted.           *)
LEMMA GrantsInv ==
  ASSUME GatewayInv, NEW c \in Capability, Gateway!Grant(c) \/ Gateway!Expire(c)
  PROVE  GatewayInv'
<1>1. PICK state \in {"granted", "expired"} : grants' = [grants EXCEPT ![c] = state]
  BY DEF Gateway!Grant, Gateway!Expire
<1>2. UNCHANGED <<active, fetcher, document>> BY DEF Gateway!Grant, Gateway!Expire
<1>3. GatewayTypes' BY <1>1, <1>2 DEF GatewayInv, GatewayTypes
<1>4. \A d \in Capability :
        (grants[d] # "new" => grants'[d] # "new")
               /\ (grants'[d] = "revoked" => grants[d] = "revoked")
  BY <1>1 DEF GatewayInv, GatewayTypes
<1>5. \A f \in Fetcher : fetcher[f].cap \in Capability
  BY DEF GatewayInv, GatewayTypes, FetcherState
<1>6. Registered' /\ Gateway!RevokedIsAborted'
  BY <1>2, <1>4, <1>5 DEF GatewayInv, Registered, Gateway!RevokedIsAborted
<1> QED BY <1>2, <1>3, <1>6 DEF GatewayInv, Vouched, Gateway!FetchIsAuthorized

LEMMA AbortedKeeps ==
  ASSUME GatewayInv, NEW controllers \in SUBSET Fetcher, fetcher' = Gateway!Aborted(controllers)
  PROVE  /\ fetcher' \in [Fetcher -> FetcherState]
         /\ \A f \in Fetcher :
              /\ fetcher'[f].pc = fetcher[f].pc /\ fetcher'[f].cap = fetcher[f].cap
              /\ fetcher'[f].valid = fetcher[f].valid
              /\ fetcher[f].aborted => fetcher'[f].aborted
              /\ f \in controllers => fetcher'[f].aborted
BY DEF GatewayInv, GatewayTypes, FetcherState, Gateway!Aborted

LEMMA RevokeInv ==
  ASSUME GatewayInv, NEW c \in Capability, Gateway!Revoke(c)
  PROVE  GatewayInv'
<1>1. active[c] \in SUBSET Fetcher BY DEF GatewayInv, GatewayTypes
<1>2. fetcher' = Gateway!Aborted(active[c]) BY DEF Gateway!Revoke
<1>3. grants' = [grants EXCEPT ![c] = "revoked"] /\ UNCHANGED <<active, document>>
  BY DEF Gateway!Revoke
<1> QED
  BY <1>1, <1>2, <1>3, AbortedKeeps
  DEF GatewayInv, GatewayTypes, Registered, Vouched, Gateway!RevokedIsAborted,
      Gateway!FetchIsAuthorized

LEMMA CloseBeginsInv ==
  ASSUME GatewayInv, Gateway!CloseBegins
  PROVE  GatewayInv'
<1> DEFINE gone == UNION {active[c] : c \in {d \in Capability : Gateway!Held(d)}}
<1>1. gone \in SUBSET Fetcher BY DEF GatewayInv, GatewayTypes
<1>2. \A c \in Capability : Gateway!Held(c) => \A f \in active[c] : f \in gone OBVIOUS
<1>3. fetcher' = Gateway!Aborted(gone) BY DEF Gateway!CloseBegins
<1>4. /\ grants' = [c \in Capability |-> IF Gateway!Held(c) THEN "revoked" ELSE grants[c]]
      /\ UNCHANGED <<active, document>>
  BY DEF Gateway!CloseBegins
<1> HIDE DEF gone
<1>5. /\ fetcher' \in [Fetcher -> FetcherState]
      /\ \A f \in Fetcher :
           /\ fetcher'[f].pc = fetcher[f].pc /\ fetcher'[f].cap = fetcher[f].cap
           /\ fetcher'[f].valid = fetcher[f].valid
           /\ fetcher[f].aborted => fetcher'[f].aborted
           /\ f \in gone => fetcher'[f].aborted
  BY <1>1, <1>3, AbortedKeeps
<1>6. GatewayTypes' BY <1>4, <1>5 DEF GatewayInv, GatewayTypes
<1>7. \A f \in Fetcher : fetcher[f].cap \in Capability
  BY DEF GatewayInv, GatewayTypes, FetcherState
<1>8. Registered' BY <1>4, <1>5, <1>7 DEF GatewayInv, Registered
<1>9. Gateway!RevokedIsAborted'
  <2>1. SUFFICES ASSUME NEW f \in Fetcher, fetcher[f].pc # "idle",
                        grants'[fetcher[f].cap] = "revoked"
                 PROVE  fetcher'[f].aborted
    BY <1>5 DEF Gateway!RevokedIsAborted
  <2>2. CASE Gateway!Held(fetcher[f].cap)
    BY <1>2, <1>5, <1>7, <2>1, <2>2 DEF GatewayInv, Registered
  <2>3. CASE ~Gateway!Held(fetcher[f].cap)
    BY <1>4, <1>5, <1>7, <2>1, <2>3 DEF GatewayInv, Gateway!RevokedIsAborted
  <2> QED BY <2>2, <2>3
<1> QED
  BY <1>4, <1>5, <1>6, <1>8, <1>9 DEF GatewayInv, Vouched, Gateway!FetchIsAuthorized

(* A request ends: it takes its controller with it.                        *)
LEMMA RequestFinishesInv ==
  ASSUME Capability # {}, GatewayInv, NEW f \in Fetcher, Gateway!Finish(f),
         document' \in [authorized : BOOLEAN, version : Nat \ {0}],
         Gateway!Valid(document') => Gateway!Valid(document)
  PROVE  GatewayInv'
<1>1. fetcher' = [fetcher EXCEPT ![f] = Gateway!Idle] /\ UNCHANGED grants
      /\ active' = [active EXCEPT ![fetcher[f].cap] = @ \ {f}]
  BY DEF Gateway!Finish
<1>2. fetcher[f].cap \in Capability BY DEF GatewayInv, GatewayTypes, FetcherState
<1>3. GatewayTypes' BY <1>1, <1>2, IdleType DEF GatewayInv, GatewayTypes
<1>4. Gateway!Idle.pc = "idle" BY DEF Gateway!Idle
<1>5. \A g \in Fetcher : fetcher'[g] = (IF g = f THEN Gateway!Idle ELSE fetcher[g])
  BY <1>1 DEF GatewayInv, GatewayTypes
<1>6. \A c \in Capability, g \in Fetcher : g # f => (g \in active'[c] <=> g \in active[c])
  BY <1>1, <1>2 DEF GatewayInv, GatewayTypes
<1> HIDE DEF Gateway!Idle
<1>7. Registered'
  BY <1>1, <1>4, <1>5, <1>6 DEF GatewayInv, GatewayTypes, FetcherState, Registered
<1> QED
  BY <1>1, <1>3, <1>4, <1>5, <1>7
  DEF GatewayInv, Vouched, Gateway!RevokedIsAborted, Gateway!FetchIsAuthorized

(* A request goes on to its next await.                                    *)
LEMMA RequestGoesOnInv ==
  ASSUME GatewayInv, NEW f \in Fetcher, NEW pc \in Gateway!Pcs, Gateway!GoOn(f, pc),
         fetcher[f].pc # "idle", fetcher[f].valid,
         document' \in [authorized : BOOLEAN, version : Nat \ {0}],
         Gateway!Valid(document') => Gateway!Valid(document)
  PROVE  GatewayInv'
BY DEF GatewayInv, GatewayTypes, FetcherState, Registered, Vouched,
       Gateway!RevokedIsAborted, Gateway!FetchIsAuthorized, Gateway!GoOn

(* A new request registers before it waits for anything.                   *)
LEMMA HandleInv ==
  ASSUME GatewayInv, NEW f \in Fetcher, NEW c \in Capability, Gateway!Handle(f, c)
  PROVE  GatewayInv'
<1> DEFINE fresh == [Gateway!Idle EXCEPT !.pc = "loading", !.cap = c,
       !.valid = Gateway!Valid(document)]
<1>1. /\ fetcher' = [fetcher EXCEPT ![f] = fresh]
      /\ active' = [active EXCEPT ![c] = @ \cup {f}]
      /\ fetcher[f].pc = "idle" /\ grants[c] = "granted"
      /\ UNCHANGED <<grants, document>>
  BY DEF Gateway!Handle, Gateway!Register
<1>2. /\ fresh \in FetcherState
      /\ fresh.pc = "loading" /\ fresh.cap = c /\ fresh.valid = Gateway!Valid(document)
  <2>1. Gateway!Valid(document) \in BOOLEAN BY DEF Gateway!Valid
  <2> QED BY <2>1, IdleType DEF Gateway!Idle, FetcherState, Gateway!Pcs
<1> HIDE DEF fresh
<1>3. GatewayTypes' BY <1>1, <1>2 DEF GatewayInv, GatewayTypes
<1>4. \A g \in Fetcher : fetcher'[g] = (IF g = f THEN fresh ELSE fetcher[g])
  BY <1>1 DEF GatewayInv, GatewayTypes
<1>5. f \in active'[c] /\ \A d \in Capability : active[d] \subseteq active'[d]
  BY <1>1 DEF GatewayInv, GatewayTypes
<1>6. Registered'
  BY <1>1, <1>2, <1>4, <1>5 DEF GatewayInv, GatewayTypes, FetcherState, Registered
<1> QED
  BY <1>1, <1>2, <1>3, <1>4, <1>6
  DEF GatewayInv, GatewayTypes, Vouched, Gateway!RevokedIsAborted,
      Gateway!FetchIsAuthorized

(* The check succeeds on a document that is valid, and then this attempt   *)
(* has seen a valid one.                                                   *)
LEMMA ValidateInv ==
  ASSUME Capability # {}, GatewayInv, NEW f \in Fetcher, Gateway!Validate(f)
  PROVE  GatewayInv'
<1>1. UNCHANGED document /\ fetcher[f].pc = "loading" BY DEF Gateway!Validate
<1>2. document' \in [authorized : BOOLEAN, version : Nat \ {0}]
  BY <1>1 DEF GatewayInv, GatewayTypes
<1>3. CASE Gateway!Valid(document)
  <2>1. Gateway!GoOn(f, "credentials") BY <1>3 DEF Gateway!Validate
  <2>2. fetcher[f].valid BY <1>1, <1>3 DEF GatewayInv, Vouched
  <2>3. "credentials" \in Gateway!Pcs BY DEF Gateway!Pcs
  <2> QED BY <1>1, <1>2, <2>1, <2>2, <2>3, RequestGoesOnInv
<1>4. CASE ~Gateway!Valid(document)
  BY <1>1, <1>2, <1>4, RequestFinishesInv DEF Gateway!Validate
<1> QED BY <1>3, <1>4

(* The second attempt starts with the document of its moment.              *)
LEMMA ReauthorizeInv ==
  ASSUME GatewayInv, NEW f \in Fetcher, Gateway!UpstreamRejectsToken(f)
  PROVE  GatewayInv'
<1>1. PICK valid \in BOOLEAN : valid = Gateway!Valid(document) BY DEF Gateway!Valid
<1>2. /\ fetcher' = [fetcher EXCEPT ![f].pc = "loading", ![f].retried = TRUE, ![f].valid = valid]
      /\ fetcher[f].pc = "fetching" /\ UNCHANGED <<grants, active, document>>
  BY <1>1 DEF Gateway!UpstreamRejectsToken, Gateway!Reauthorize
<1>3. /\ fetcher' \in [Fetcher -> FetcherState]
      /\ \A g \in Fetcher : g # f => fetcher'[g] = fetcher[g]
      /\ fetcher'[f].pc = "loading" /\ fetcher'[f].valid = valid
      /\ fetcher'[f].cap = fetcher[f].cap /\ fetcher'[f].aborted = fetcher[f].aborted
  <2>1. fetcher \in [Fetcher -> FetcherState] /\ fetcher[f] \in FetcherState
    BY DEF GatewayInv, GatewayTypes
  <2> PICK one : one = [fetcher[f] EXCEPT !.pc = "loading", !.retried = TRUE, !.valid = valid]
    OBVIOUS
  <2>2. /\ one \in FetcherState /\ one.pc = "loading" /\ one.valid = valid
        /\ one.cap = fetcher[f].cap /\ one.aborted = fetcher[f].aborted
    BY <2>1, <1>1 DEF FetcherState, Gateway!Pcs
  <2>3. fetcher' = [fetcher EXCEPT ![f] = one] BY <1>2
  <2> QED BY <2>1, <2>2, <2>3
<1>4. GatewayTypes' BY <1>2, <1>3 DEF GatewayInv, GatewayTypes
<1>5. Registered' /\ Gateway!RevokedIsAborted'
  BY <1>2, <1>3 DEF GatewayInv, Registered, Gateway!RevokedIsAborted
<1>6. Vouched' /\ Gateway!FetchIsAuthorized'
  BY <1>1, <1>2, <1>3 DEF GatewayInv, Vouched, Gateway!FetchIsAuthorized
<1> QED BY <1>4, <1>5, <1>6 DEF GatewayInv

LEMMA DisconnectInv ==
  ASSUME GatewayInv, NEW f \in Fetcher, Gateway!Disconnect(f)
  PROVE  GatewayInv'
<1>1. /\ fetcher' = [fetcher EXCEPT ![f].aborted = TRUE]
      /\ UNCHANGED <<grants, active, document>>
  BY DEF Gateway!Disconnect
<1>2. /\ fetcher' \in [Fetcher -> FetcherState]
      /\ \A g \in Fetcher :
           /\ fetcher'[g].pc = fetcher[g].pc /\ fetcher'[g].cap = fetcher[g].cap
           /\ fetcher'[g].valid = fetcher[g].valid
           /\ fetcher[g].aborted => fetcher'[g].aborted
  <2>1. fetcher \in [Fetcher -> FetcherState] /\ fetcher[f] \in FetcherState
    BY DEF GatewayInv, GatewayTypes
  <2> PICK one : one = [fetcher[f] EXCEPT !.aborted = TRUE]
    OBVIOUS
  <2>2. /\ one \in FetcherState /\ one.aborted
        /\ one.pc = fetcher[f].pc /\ one.cap = fetcher[f].cap
        /\ one.valid = fetcher[f].valid
    BY <2>1 DEF FetcherState
  <2>3. fetcher' = [fetcher EXCEPT ![f] = one]
    BY <1>1
  <2> QED BY <2>1, <2>2, <2>3
<1>3. GatewayTypes' BY <1>1, <1>2 DEF GatewayInv, GatewayTypes
<1>4. Registered' /\ Gateway!RevokedIsAborted'
  BY <1>1, <1>2 DEF GatewayInv, Registered, Gateway!RevokedIsAborted
<1> QED BY <1>1, <1>2, <1>3, <1>4 DEF GatewayInv, Vouched, Gateway!FetchIsAuthorized

(* The awaits of a request between its check and its answer.               *)
LEMMA FetchInv ==
  ASSUME Capability # {}, CredentialBound \in Int, GatewayInv, NEW f \in Fetcher,
         \/ Gateway!Credentials(f) \/ Gateway!GetNode(f) \/ Gateway!Resolve(f)
                \/ Gateway!DependencyFails(f)
         \/ Gateway!RequestUpstream(f) \/ Gateway!UpstreamAnswers(f) \/ Gateway!Ends(f)
  PROVE  GatewayInv'
<1>1. Gateway!Finish(f) \/ \E pc \in Gateway!Pcs : Gateway!GoOn(f, pc)
       /\ fetcher[f].pc # "idle" /\ fetcher[f].valid
  BY DEF Gateway!Credentials, Gateway!GetNode, Gateway!Resolve, Gateway!DependencyFails,
         Gateway!RequestUpstream, Gateway!UpstreamAnswers, Gateway!Ends, Gateway!Pcs,
         GatewayInv, Vouched, Gateway!FetchIsAuthorized
<1>2. /\ document' \in [authorized : BOOLEAN, version : Nat \ {0}]
      /\ Gateway!Valid(document') => Gateway!Valid(document)
  BY DEF Gateway!Credentials, Gateway!GetNode, Gateway!Resolve, Gateway!DependencyFails,
         Gateway!RequestUpstream, Gateway!UpstreamAnswers, Gateway!Ends, GatewayInv,
         GatewayTypes, Gateway!Valid, Gateway!BoundVersion
<1> QED BY <1>1, <1>2, RequestFinishesInv, RequestGoesOnInv

(* A root is given back: the attempts under way see it valid.              *)
LEMMA RegrantInv ==
  ASSUME GatewayInv, Gateway!Regrant
  PROVE  GatewayInv'
<1>1. PICK valid \in BOOLEAN : valid = Gateway!Valid(document') BY DEF Gateway!Valid
<1>2. /\ document' \in [authorized : BOOLEAN, version : Nat \ {0}]
      /\ UNCHANGED <<grants, active>>
  BY DEF Gateway!Regrant, GatewayInv, GatewayTypes
<1>3. fetcher' = [g \in Fetcher |->
                   [fetcher[g] EXCEPT !.valid = @ \/ (fetcher[g].pc # "idle" /\ valid)]]
  BY <1>1 DEF Gateway!Regrant
<1>4. ASSUME NEW g \in Fetcher
      PROVE  /\ fetcher'[g] \in FetcherState
             /\ fetcher'[g].pc = fetcher[g].pc /\ fetcher'[g].cap = fetcher[g].cap
             /\ fetcher'[g].aborted = fetcher[g].aborted
             /\ fetcher'[g].valid = (fetcher[g].valid \/ (fetcher[g].pc # "idle" /\ valid))
  <2>1. fetcher[g] \in FetcherState BY DEF GatewayInv, GatewayTypes
  <2> PICK seen : seen = (fetcher[g].valid \/ (fetcher[g].pc # "idle" /\ valid)) OBVIOUS
  <2>2. seen \in BOOLEAN BY DEF FetcherState
  <2>3. fetcher'[g] = [fetcher[g] EXCEPT !.valid = seen] BY <1>3
  <2> QED BY <2>1, <2>2, <2>3 DEF FetcherState
<1>5. fetcher' \in [Fetcher -> FetcherState] BY <1>3, <1>4
<1>6. GatewayTypes' BY <1>2, <1>5 DEF GatewayInv, GatewayTypes
<1>7. Registered' /\ Gateway!RevokedIsAborted'
  BY <1>2, <1>4 DEF GatewayInv, Registered, Gateway!RevokedIsAborted
<1>8. Vouched' /\ Gateway!FetchIsAuthorized'
  BY <1>1, <1>4 DEF GatewayInv, Vouched, Gateway!FetchIsAuthorized
<1> QED BY <1>6, <1>7, <1>8 DEF GatewayInv

LEMMA AroundGatewayInv ==
  ASSUME GatewayInv, Gateway!Start \/ Gateway!CloseEnds \/ Gateway!Withdraw
         \/ Gateway!Replace \/ UNCHANGED gatewayVars
  PROVE  GatewayInv'
BY DEF GatewayInv, GatewayTypes, Registered, Vouched, Gateway!RevokedIsAborted,
       Gateway!FetchIsAuthorized, Gateway!Start, Gateway!CloseEnds, Gateway!Withdraw,
       Gateway!Replace, Gateway!Valid, gatewayVars

LEMMA GatewayStep ==
  ASSUME Capability # {}, CredentialBound \in Int, GatewayInv, Gateway!Next \/ UNCHANGED gatewayVars
  PROVE  GatewayInv'
<1>1. ASSUME NEW c \in Capability,
             Gateway!Grant(c) \/ Gateway!Expire(c) \/ Gateway!Revoke(c)
                    \/ \E f \in Fetcher : Gateway!Handle(f, c)
      PROVE  GatewayInv'
  BY <1>1, GrantsInv, RevokeInv, HandleInv
<1>2. ASSUME NEW f \in Fetcher,
             \/ Gateway!Validate(f) \/ Gateway!Credentials(f) \/ Gateway!GetNode(f)
                    \/ Gateway!Resolve(f) \/ Gateway!DependencyFails(f)
             \/ Gateway!RequestUpstream(f) \/ Gateway!UpstreamRejectsToken(f)
                    \/ Gateway!UpstreamAnswers(f) \/ Gateway!Ends(f)
             \/ Gateway!Disconnect(f)
      PROVE  GatewayInv'
  BY <1>2, ValidateInv, FetchInv, ReauthorizeInv, DisconnectInv
<1> QED BY <1>1, <1>2, CloseBeginsInv, RegrantInv, AroundGatewayInv DEF Gateway!Next

(* The invariant of the gateway, in every behaviour of that part.          *)
LEMMA GatewayHolds == Spec => [](part = "gateway" => GatewayInv)
<1>1. Init => (part = "gateway" => GatewayInv)
  BY ServerAssumption, GatewayInit DEF Init
<1>2. (part = "gateway" => GatewayInv) /\ [Next]_vars => (part = "gateway" => GatewayInv)'
  <2>1. SUFFICES ASSUME [Next]_vars, part' = "gateway", part = "gateway" => GatewayInv PROVE GatewayInv'
    OBVIOUS
  <2>2. part = "gateway" BY <2>1 DEF Next, vars
  <2> QED BY <2>1, <2>2, ServerAssumption, GatewayStep DEF Next, vars
<1> QED BY <1>1, <1>2, PTL DEF Spec

(* Once a job has given its capability back, or the gateway is closing,    *)
(* every request of it is aborted: one between two awaits ends at its      *)
(* fetch.                                                                  *)
THEOREM RevokedIsAbortedHolds == Spec => []RevokedIsAborted
<1>1. (part = "gateway" => GatewayInv) => RevokedIsAborted BY DEF GatewayInv, RevokedIsAborted
<1> QED BY <1>1, GatewayHolds, PTL

(* The film is only fetched by an attempt during which its binding was     *)
(* valid, although roots are taken and given back meanwhile: an attempt    *)
(* that begins with a 401 needs a moment of its own.                       *)
THEOREM FetchIsAuthorizedHolds == Spec => []FetchIsAuthorized
<1>1. (part = "gateway" => GatewayInv) => FetchIsAuthorized BY DEF GatewayInv, FetchIsAuthorized
<1> QED BY <1>1, GatewayHolds, PTL
-----------------------------------------------------------------------------
(* SelfHosted.                                                             *)
DiskState == [key : {"none", "empty", "whole"}, schema : Int, backup : Int, code : BOOLEAN,
              installed : BOOLEAN, configured : BOOLEAN, owner : Claimant \cup {Nobody}]
ProcessState == [phase : Host!Phases, ready : BOOLEAN, draining : BOOLEAN,
       signals : SUBSET Claimant]

HostTypes == disk \in DiskState /\ process \in ProcessState

(* Only a process with a whole key comes to the database, and only a file  *)
(* that it has created itself, and that nothing is sealed under, is taken  *)
(* back when its start fails.                                              *)
KeyIsWhole ==
  /\ process.phase \notin {"down", "key", "writingKey"} => disk.key = "whole"
  /\ process.phase = "writingKey" => ~disk.installed

(* There is a code once there is an installation.                          *)
CodeOfInstallation == ~disk.installed => ~disk.code /\ ~disk.configured

HostInv == HostTypes /\ KeyIsWhole /\ CodeOfInstallation /\ Host!ClaimIsAtomic

LEMMA HostInit ==
  ASSUME Host!Init
  PROVE  HostInv
BY DEF Host!Init, HostInv, HostTypes, DiskState, ProcessState, Host!Phases, Host!Starting,
       KeyIsWhole, CodeOfInstallation, Host!ClaimIsAtomic

(* What a step does to the disk beyond the schema and its backup concerns  *)
(* only its key and installation.                                          *)
LEMMA KeyStepInv ==
  ASSUME HostInv,
         \/ Host!OnDisk("key", Host!CreateKey) \/ Host!OnDisk("writingKey", Host!WriteKey)
         \/ Host!OnDisk("key", Host!ReadKey) \/ Host!StartupFails
  PROVE  HostInv'
<1> USE DEF HostInv, HostTypes, DiskState, ProcessState, Host!Phases, Host!Starting, KeyIsWhole,
        CodeOfInstallation, Host!ClaimIsAtomic, Host!To
<1>1. CASE Host!OnDisk("key", Host!CreateKey) BY <1>1 DEF Host!OnDisk, Host!CreateKey
<1>2. CASE Host!OnDisk("writingKey", Host!WriteKey) BY <1>2 DEF Host!OnDisk, Host!WriteKey
<1>3. CASE Host!OnDisk("key", Host!ReadKey) BY <1>3 DEF Host!OnDisk, Host!ReadKey
<1>4. CASE Host!StartupFails BY <1>4 DEF Host!StartupFails
<1> QED BY <1>1, <1>2, <1>3, <1>4

LEMMA DatabaseStepInv ==
  ASSUME HostInv,
         \/ Host!OnDisk("database", Host!OpenDatabase) \/ Host!OnDisk("backingUp", Host!BackUp)
         \/ Host!OnDisk("migrating", Host!Migrate) \/ Host!OnDisk("migrating", Host!Migrated)
  PROVE  HostInv'
<1> USE DEF HostInv, HostTypes, DiskState, ProcessState, Host!Phases, Host!Starting, KeyIsWhole,
        CodeOfInstallation, Host!ClaimIsAtomic, Host!To
<1>1. CASE Host!OnDisk("database", Host!OpenDatabase) BY <1>1 DEF Host!OnDisk, Host!OpenDatabase
<1>2. CASE Host!OnDisk("backingUp", Host!BackUp) BY <1>2 DEF Host!OnDisk, Host!BackUp
<1>3. CASE Host!OnDisk("migrating", Host!Migrate) BY <1>3 DEF Host!OnDisk, Host!Migrate
<1>4. CASE Host!OnDisk("migrating", Host!Migrated) BY <1>4 DEF Host!OnDisk, Host!Migrated
<1> QED BY <1>1, <1>2, <1>3, <1>4

LEMMA InstallStepInv ==
  ASSUME HostInv,
         \/ Host!OnDisk("installation", Host!InitializeInstallation)
         \/ Host!OnDisk("announcing", Host!Announce) \/ Host!OnDisk("composing", Host!Compose)
  PROVE  HostInv'
<1> USE DEF HostInv, HostTypes, DiskState, ProcessState, Host!Phases, Host!Starting, KeyIsWhole,
        CodeOfInstallation, Host!ClaimIsAtomic, Host!To
<1>1. CASE Host!OnDisk("installation", Host!InitializeInstallation)
  <2>1. CASE disk.installed
    BY <1>1, <2>1 DEF Host!OnDisk, Host!InitializeInstallation
  <2>2. CASE ~disk.installed
    <3>1. /\ process' = [process EXCEPT !.phase = "announcing"] /\ process.phase = "installation"
          /\ disk' = [disk EXCEPT !.installed = TRUE, !.code = TRUE] /\ UNCHANGED <<claim, winner>>
      BY <1>1, <2>2 DEF Host!OnDisk, Host!InitializeInstallation
    <3>2. /\ disk' \in DiskState /\ disk'.installed /\ disk'.code
          /\ disk'.key = disk.key /\ disk'.configured = disk.configured
          /\ disk'.owner = disk.owner
      BY <3>1
    <3>3. process' \in ProcessState /\ process'.phase = "announcing"
      BY <3>1
    <3> QED BY <2>2, <3>1, <3>2, <3>3
  <2> QED BY <2>1, <2>2
<1>2. CASE Host!OnDisk("announcing", Host!Announce) BY <1>2 DEF Host!OnDisk, Host!Announce
<1>3. CASE Host!OnDisk("composing", Host!Compose) BY <1>3 DEF Host!OnDisk, Host!Compose
<1> QED BY <1>1, <1>2, <1>3

(* Starts, shutdowns and crashes leave the disk alone.                     *)
LEMMA ProcessStepInv ==
  ASSUME HostInv, Host!Boot \/ Host!Crash \/ Host!BeginDrain \/ Host!DrainEnds
         \/ Host!Close \/ Host!Exit
  PROVE  HostInv'
<1> USE DEF HostInv, HostTypes, DiskState, ProcessState, Host!Phases, Host!Starting, KeyIsWhole,
        CodeOfInstallation, Host!ClaimIsAtomic, Host!To, Host!Active
<1>1. CASE Host!Boot BY <1>1 DEF Host!Boot
<1>2. CASE Host!Crash BY <1>2 DEF Host!Crash
<1>3. CASE Host!BeginDrain BY <1>3 DEF Host!BeginDrain
<1>4. CASE Host!DrainEnds
  <2>1. /\ process.phase = "draining" /\ UNCHANGED <<disk, claim, winner>>
        /\ \/ process' = [process EXCEPT !.phase = "closing"]
           \/ process' = [process EXCEPT !.phase = "closing", !.signals = Host!Active]
    BY <1>4 DEF Host!DrainEnds
  <2> PICK A : A = Host!Active
    OBVIOUS
  <2>2. A \subseteq Claimant
    OBVIOUS
  <2>3. CASE process' = [process EXCEPT !.phase = "closing"]
    BY <2>1, <2>3
  <2>4. CASE process' = [process EXCEPT !.phase = "closing", !.signals = A]
    <3>1. process' \in ProcessState /\ process'.phase = "closing"
      BY <2>2, <2>4
    <3> QED BY <2>1, <3>1
  <2> QED BY <2>1, <2>3, <2>4
<1>5. CASE Host!Close BY <1>5 DEF Host!Close
<1>6. CASE Host!Exit BY <1>6 DEF Host!Exit
<1> QED BY <1>1, <1>2, <1>3, <1>4, <1>5, <1>6

(* A claim is accepted while the code is unspent, when nobody has won.     *)
LEMMA ClaimInv ==
  ASSUME HostInv, NEW c \in Claimant, Host!Arrive(c) \/ Host!Claim(c) \/ Host!ClaimFails(c)
         \/ Host!Answered(c)
  PROVE  HostInv'
<1>1. CASE Host!Arrive(c) \/ Host!ClaimFails(c) \/ Host!Answered(c)
  BY <1>1
  DEF Host!Arrive, Host!ClaimFails, Host!Answered, HostInv, HostTypes, KeyIsWhole,
      CodeOfInstallation, Host!ClaimIsAtomic
<1>2. CASE Host!Claim(c)
  <2>1. CASE Host!Accepts(c) /\ process.phase # "closed"
    <3>1. /\ disk' = [disk EXCEPT !.configured = TRUE, !.code = FALSE, !.owner = c]
          /\ winner' = winner \cup {c} /\ UNCHANGED process
          /\ ~disk.configured /\ disk.code
      BY <1>2, <2>1 DEF Host!Claim, Host!Accepts
    <3>2. winner' = {c} BY <3>1 DEF HostInv, Host!ClaimIsAtomic
    <3>3. /\ disk'.configured = TRUE /\ disk'.code = FALSE /\ disk'.owner = c
          /\ disk'.key = disk.key /\ disk'.installed = disk.installed /\ disk' \in DiskState
      BY <3>1 DEF HostInv, HostTypes, DiskState
    <3>4. disk.installed BY <3>1 DEF HostInv, CodeOfInstallation
    <3> QED
      BY <3>1, <3>2, <3>3, <3>4
      DEF HostInv, HostTypes, KeyIsWhole, CodeOfInstallation, Host!ClaimIsAtomic
  <2>2. CASE ~(Host!Accepts(c) /\ process.phase # "closed")
    BY <1>2, <2>2
    DEF Host!Claim, HostInv, HostTypes, KeyIsWhole, CodeOfInstallation, Host!ClaimIsAtomic
  <2> QED BY <2>1, <2>2
<1> QED BY <1>1, <1>2

LEMMA HostStep ==
  ASSUME HostInv, Host!Next \/ UNCHANGED hostVars
  PROVE  HostInv'
<1>1. CASE UNCHANGED hostVars
  BY <1>1 DEF hostVars, HostInv, HostTypes, KeyIsWhole, CodeOfInstallation, Host!ClaimIsAtomic
<1> QED
  BY <1>1, KeyStepInv, DatabaseStepInv, InstallStepInv, ProcessStepInv, ClaimInv
  DEF Host!Next, Host!Startup

(* The invariant of the installation, in every behaviour of that part.     *)
LEMMA HostHolds == Spec => [](part = "host" => HostInv)
<1>1. Init => (part = "host" => HostInv)
  BY ServerAssumption, HostInit DEF Init
<1>2. (part = "host" => HostInv) /\ [Next]_vars => (part = "host" => HostInv)'
  <2>1. SUFFICES ASSUME [Next]_vars, part' = "host", part = "host" => HostInv PROVE HostInv'
    OBVIOUS
  <2>2. part = "host" BY <2>1 DEF Next, vars
  <2> QED BY <2>1, <2>2, ServerAssumption, HostStep DEF Next, vars
<1> QED BY <1>1, <1>2, PTL DEF Spec

(* One claim is accepted, whatever overlaps it: the passphrase stored is   *)
(* that of the only winner, the code is spent exactly then, and an         *)
(* installation is only ever sealed under a whole master key.              *)
THEOREM ClaimIsAtomicHolds == Spec => []ClaimIsAtomic
<1>1. (part = "host" => HostInv) => ClaimIsAtomic BY DEF HostInv, ClaimIsAtomic
<1> QED BY <1>1, HostHolds, PTL

-----------------------------------------------------------------------------
(* Types, with the bounds of every counter.                                *)
OAuthBounds ==
  /\ revision \in 1 .. RevisionBound
  /\ credential \in Nat /\ credential <= revision
  /\ claims \in [State -> [begun : BOOLEAN, revision : 0 .. RevisionBound,
                           version : 0 .. RevisionBound, age : 0 .. StateLife]]
  /\ stateCookie \in State \cup {NoState}
  /\ marker \in [State -> [owner : Callback \cup {NoCallback}, age : 0 .. StateLife]]

Marker == [owner : Callback \cup {NoCallback}, age : 0 .. StateLife]

LEMMA ServerBounds ==
  /\ StateLife \in Nat /\ RevisionBound \in Nat \ {0}
  /\ CredentialBound \in Nat \ {0} /\ Newest \in Nat /\ BootBound \in Nat
BY ServerAssumption

LEMMA OAuthBoundsInit ==
  ASSUME OAuth!Init
  PROVE  OAuthBounds
<1>1. 1 \in 1 .. RevisionBound /\ 0 \in 0 .. RevisionBound /\ 0 \in 0 .. StateLife
  BY ServerBounds
<1>2. OAuth!NotBegun \in [begun : BOOLEAN, revision : 0 .. RevisionBound,
                          version : 0 .. RevisionBound, age : 0 .. StateLife]
  BY <1>1 DEF OAuth!NotBegun
<1>3. OAuth!NoMarker \in Marker BY <1>1 DEF OAuth!NoMarker, Marker
<1>4. revision \in 1 .. RevisionBound /\ credential \in Nat /\ credential <= revision
  BY <1>1 DEF OAuth!Init
<1>5. /\ claims \in [State -> [begun : BOOLEAN, revision : 0 .. RevisionBound,
                               version : 0 .. RevisionBound, age : 0 .. StateLife]]
      /\ marker \in [State -> Marker] /\ stateCookie \in State \cup {NoState}
  BY <1>2, <1>3 DEF OAuth!Init
<1> QED BY <1>4, <1>5 DEF OAuthBounds, Marker

LEMMA OlderMarker ==
  ASSUME NEW m \in Marker
  PROVE  OAuth!Older(m) \in Marker
<1>1. m.age \in 0 .. StateLife /\ StateLife \in Nat BY ServerBounds DEF Marker
<1>2. PICK age : age = IF m.age < StateLife THEN m.age + 1 ELSE m.age OBVIOUS
<1>3. age \in 0 .. StateLife BY <1>1, <1>2
<1>4. OAuth!Older(m) = [m EXCEPT !.age = age] BY <1>2 DEF OAuth!Older
<1> QED BY <1>3, <1>4 DEF Marker

Claims == [begun : BOOLEAN, revision : 0 .. RevisionBound, version : 0 .. RevisionBound,
           age : 0 .. StateLife]

LEMMA OlderClaims ==
  ASSUME NEW m \in Claims
  PROVE  OAuth!Older(m) \in Claims
<1>1. m.age \in 0 .. StateLife /\ StateLife \in Nat BY ServerBounds DEF Claims
<1>2. PICK age : age = IF m.age < StateLife THEN m.age + 1 ELSE m.age OBVIOUS
<1>3. age \in 0 .. StateLife BY <1>1, <1>2
<1>4. OAuth!Older(m) = [m EXCEPT !.age = age] BY <1>2 DEF OAuth!Older
<1> QED BY <1>3, <1>4 DEF Claims

LEMMA OAuthBoundsStep ==
  ASSUME OAuthInv, OAuthBounds, OAuth!Next \/ UNCHANGED oauthVars
  PROVE  OAuthBounds'
<1>1. /\ revision \in 1 .. RevisionBound /\ credential \in Nat /\ credential <= revision
      /\ claims \in [State -> Claims] /\ stateCookie \in State \cup {NoState}
      /\ marker \in [State -> Marker]
  BY DEF OAuthBounds, Claims, Marker
<1>2. RevisionBound \in Nat /\ revision \in Nat BY <1>1, ServerBounds
<1>3. 0 \in 0 .. StateLife BY ServerBounds
<1>4. OAuth!Swept \in [State -> Marker]
  <2>1. OAuth!NoMarker \in Marker BY <1>3 DEF OAuth!NoMarker, Marker
  <2> QED BY <1>1, <2>1 DEF OAuth!Swept
<1>5. ASSUME NEW c \in Callback
      PROVE  [OAuth!Swept EXCEPT ![callback[c].state] = [owner |-> c, age |-> 0]]
               \in [State -> Marker]
  <2>1. [owner |-> c, age |-> 0] \in Marker BY <1>3 DEF Marker
  <2> QED BY <1>4, <2>1
<1>6. SUFFICES /\ revision' \in 1 .. RevisionBound /\ credential' \in Nat
               /\ credential' <= revision'
               /\ claims' \in [State -> Claims] /\ stateCookie' \in State \cup {NoState}
               /\ marker' \in [State -> Marker]
  BY DEF OAuthBounds, Claims, Marker
<1>7. ASSUME NEW s \in State, OAuth!BeginAuthorization(s)
      PROVE  claims' \in [State -> Claims]
  <2>1. revision \in 0 .. RevisionBound /\ credential \in 0 .. RevisionBound BY <1>1, <1>2
  <2>2. PICK new : new = [begun |-> TRUE, revision |-> revision, version |-> credential,
                          age |-> 0]
    OBVIOUS
  <2>3. new \in Claims BY <1>3, <2>1, <2>2 DEF Claims
  <2>4. claims' = [claims EXCEPT ![s] = new] BY <1>7, <2>2 DEF OAuth!BeginAuthorization
  <2> QED BY <1>1, <2>3, <2>4
<1>8. /\ revision' \in 1 .. RevisionBound /\ credential' \in Nat /\ credential' <= revision'
  <2>1. CASE \E c \in Callback : OAuth!Store(c)
    <3>1. \/ UNCHANGED <<revision, credential>>
          \/ /\ revision < RevisionBound /\ revision' = revision + 1
             /\ credential' = credential + 1
      BY <2>1 DEF OAuth!Store
    <3> QED BY <1>1, <1>2, <3>1
  <2>2. CASE OAuth!OtherChange
    <3>1. /\ revision < RevisionBound /\ revision' = revision + 1
          /\ credential' \in {credential, 0, credential + 1}
      BY <2>2 DEF OAuth!OtherChange
    <3> QED BY <1>1, <1>2, <3>1
  <2>3. CASE UNCHANGED <<revision, credential>> BY <1>1, <2>3
  <2> QED BY <2>1, <2>2, <2>3
       DEF OAuth!Next, oauthVars, OAuth!BeginAuthorization, OAuth!Arrive, OAuth!ClaimState,
           OAuth!ExchangeFails, OAuth!ExchangeSucceeds, OAuth!MarkUsed, OAuth!MarkFails,
           OAuth!Tick, OAuth!Restart
<1>9. claims' \in [State -> Claims]
  <2>1. CASE OAuth!Tick
    <3>1. claims' = [s \in State |->
                       IF claims[s].begun THEN OAuth!Older(claims[s]) ELSE claims[s]]
      BY <2>1 DEF OAuth!Tick
    <3> QED BY <1>1, <3>1, OlderClaims
  <2>2. CASE UNCHANGED claims BY <1>1, <2>2
  <2> QED BY <1>7, <2>1, <2>2
       DEF OAuth!Next, oauthVars, OAuth!Arrive, OAuth!ClaimState, OAuth!ExchangeFails,
           OAuth!ExchangeSucceeds, OAuth!MarkUsed, OAuth!MarkFails, OAuth!Store,
           OAuth!OtherChange, OAuth!Restart
<1>10. stateCookie' \in State \cup {NoState}
  BY <1>1
  DEF OAuth!Next, oauthVars, OAuth!BeginAuthorization, OAuth!Arrive, OAuth!ClaimState,
      OAuth!ExchangeFails, OAuth!ExchangeSucceeds, OAuth!MarkUsed, OAuth!MarkFails,
      OAuth!Store, OAuth!Finish, OAuth!OtherChange, OAuth!Tick, OAuth!Restart
<1>11. marker' \in [State -> Marker]
  <2>1. CASE OAuth!Tick
    <3>1. marker' = [s \in State |-> IF marker[s] = OAuth!NoMarker THEN OAuth!NoMarker
                                     ELSE OAuth!Older(marker[s])]
      BY <2>1 DEF OAuth!Tick
    <3>2. \A s \in State : marker'[s] \in Marker BY <1>1, <3>1, OlderMarker
    <3> QED BY <3>1, <3>2
  <2>2. ASSUME NEW c \in Callback, OAuth!MarkUsed(c) \/ OAuth!MarkFails(c)
        PROVE  marker' \in [State -> Marker]
    BY <1>4, <1>5, <2>2 DEF OAuth!MarkUsed, OAuth!MarkFails
  <2>3. ASSUME NEW c \in Callback, OAuth!ClaimState(c) PROVE marker' \in [State -> Marker]
    BY <1>4, <2>3 DEF OAuth!ClaimState
  <2>4. CASE UNCHANGED marker BY <1>1, <2>4
  <2> QED BY <2>1, <2>2, <2>3, <2>4
       DEF OAuth!Next, oauthVars, OAuth!BeginAuthorization, OAuth!Arrive, OAuth!ExchangeFails,
           OAuth!ExchangeSucceeds, OAuth!Store, OAuth!OtherChange, OAuth!Restart
<1> QED BY <1>8, <1>9, <1>10, <1>11

LEMMA OAuthTypeOK == OAuthInv /\ OAuthBounds /\ RevisionNamesDocument => OAuth!TypeOK
<1>1. ASSUME OAuthBounds PROVE credential \in 0 .. RevisionBound
  <2>1. revision \in 1 .. RevisionBound /\ credential \in Nat /\ credential <= revision
        /\ RevisionBound \in Nat
    BY <1>1, ServerBounds DEF OAuthBounds
  <2> QED BY <2>1
<1>2. ASSUME OAuthInv PROVE commits \in [State -> Nat]
  <2>1. commits \in [State -> {0, 1}] BY <1>2 DEF OAuthInv, OAuthTypes
  <2>2. \A s \in State : commits[s] \in Nat BY <2>1
  <2> QED BY <2>1, <2>2
<1> QED
  BY <1>1, <1>2
  DEF OAuthInv, OAuthTypes, OAuthBounds, RevisionNamesDocument, CallbackPcs, OAuth!TypeOK

LEMMA OAuthBoundsHold == Spec => [](part = "oauth" => OAuthBounds)
<1>1. Init => (part = "oauth" => OAuthBounds) BY OAuthBoundsInit DEF Init
<1>2. (part = "oauth" => OAuthInv) /\ (part = "oauth" => OAuthBounds) /\ [Next]_vars
        => (part = "oauth" => OAuthBounds)'
  <2>1. SUFFICES ASSUME [Next]_vars, part' = "oauth", part = "oauth" => OAuthInv,
                        part = "oauth" => OAuthBounds
                 PROVE  OAuthBounds'
    OBVIOUS
  <2>2. part = "oauth" BY <2>1 DEF Next, vars
  <2> QED BY <2>1, <2>2, OAuthBoundsStep DEF Next, vars
<1> QED BY <1>1, <1>2, OAuthHolds, PTL DEF Spec

-----------------------------------------------------------------------------
GatewayBounds ==
  /\ gateway \in {"stopped", "started", "closing"} /\ unchanged \in BOOLEAN
  /\ document \in [authorized : BOOLEAN, version : 1 .. CredentialBound]

LEMMA GatewayBoundsInit ==
  ASSUME Gateway!Init
  PROVE  GatewayBounds
<1>1. 1 \in 1 .. CredentialBound BY ServerBounds
<1> QED BY <1>1 DEF Gateway!Init, Gateway!BoundVersion, GatewayBounds

LEMMA GatewayBoundsStep ==
  ASSUME GatewayBounds, Gateway!Next \/ UNCHANGED gatewayVars
  PROVE  GatewayBounds'
<1>1. ASSUME NEW f \in Fetcher, Gateway!Credentials(f) \/ Gateway!Resolve(f)
      PROVE  document' \in [authorized : BOOLEAN, version : 1 .. CredentialBound]
             /\ UNCHANGED <<gateway, unchanged>>
  <2>1. PICK v \in {document.version, document.version + 1} :
          v <= CredentialBound /\ document' = [document EXCEPT !.version = v]
    BY <1>1 DEF Gateway!Credentials, Gateway!Resolve
  <2>2. v \in 1 .. CredentialBound BY <2>1, ServerBounds DEF GatewayBounds
  <2>3. UNCHANGED <<gateway, unchanged>>
    BY <1>1 DEF Gateway!Credentials, Gateway!Resolve, Gateway!GoOn, Gateway!Finish
  <2> QED BY <2>1, <2>2, <2>3 DEF GatewayBounds
<1>2. ASSUME NEW f \in Fetcher,
             \/ Gateway!Validate(f) \/ Gateway!GetNode(f) \/ Gateway!DependencyFails(f)
             \/ Gateway!RequestUpstream(f) \/ Gateway!UpstreamRejectsToken(f)
             \/ Gateway!UpstreamAnswers(f) \/ Gateway!Ends(f) \/ Gateway!Disconnect(f)
      PROVE  UNCHANGED <<gateway, unchanged, document>>
  BY <1>2
  DEF Gateway!Validate, Gateway!GetNode, Gateway!DependencyFails, Gateway!RequestUpstream,
      Gateway!UpstreamRejectsToken, Gateway!UpstreamAnswers, Gateway!Ends, Gateway!Disconnect,
      Gateway!GoOn, Gateway!Finish
<1>3. ASSUME NEW c \in Capability,
             Gateway!Grant(c) \/ Gateway!Expire(c) \/ Gateway!Revoke(c)
             \/ \E f \in Fetcher : Gateway!Handle(f, c)
      PROVE  UNCHANGED <<gateway, unchanged, document>>
  BY <1>3 DEF Gateway!Grant, Gateway!Expire, Gateway!Revoke, Gateway!Handle
<1>4. CASE Gateway!Start \/ Gateway!CloseBegins \/ Gateway!CloseEnds \/ Gateway!Withdraw
           \/ Gateway!Regrant \/ Gateway!Replace \/ UNCHANGED gatewayVars
  BY <1>4
  DEF GatewayBounds, gatewayVars, Gateway!Start, Gateway!CloseBegins, Gateway!CloseEnds,
      Gateway!Withdraw, Gateway!Regrant, Gateway!Replace
<1>5. CASE UNCHANGED <<gateway, unchanged, document>> BY <1>5 DEF GatewayBounds
<1>6. ASSUME NEW f \in Fetcher, Gateway!Credentials(f) \/ Gateway!Resolve(f)
      PROVE  GatewayBounds'
  BY <1>1, <1>6 DEF GatewayBounds
<1> QED BY <1>2, <1>3, <1>4, <1>5, <1>6 DEF Gateway!Next

LEMMA GatewayTypeOK == GatewayInv /\ GatewayBounds => Gateway!TypeOK
BY DEF GatewayInv, GatewayTypes, GatewayBounds, FetcherState, Gateway!TypeOK

LEMMA GatewayBoundsHold == Spec => [](part = "gateway" => GatewayBounds)
<1>1. Init => (part = "gateway" => GatewayBounds) BY GatewayBoundsInit DEF Init
<1>2. (part = "gateway" => GatewayBounds) /\ [Next]_vars => (part = "gateway" => GatewayBounds)'
  <2>1. SUFFICES ASSUME [Next]_vars, part' = "gateway", part = "gateway" => GatewayBounds
                 PROVE  GatewayBounds'
    OBVIOUS
  <2>2. part = "gateway" BY <2>1 DEF Next, vars
  <2> QED BY <2>1, <2>2, GatewayBoundsStep DEF Next, vars
<1> QED BY <1>1, <1>2, PTL DEF Spec

-----------------------------------------------------------------------------
HostBounds ==
  /\ disk \in [key : {"none", "empty", "whole"}, schema : 0 .. Newest, backup : 0 .. Newest,
               code : BOOLEAN, installed : BOOLEAN, configured : BOOLEAN,
               owner : Claimant \cup {Nobody}]
  /\ log \in [announced : BOOLEAN, boots : 0 .. BootBound]
  /\ claim \in [Claimant -> [pc : {"idle", "hashing", "answering"}, right : BOOLEAN]]
  /\ winner \subseteq Claimant

LEMMA HostBoundsInit ==
  ASSUME Host!Init
  PROVE  HostBounds
<1>1. 0 \in 0 .. Newest /\ 0 \in 0 .. BootBound BY ServerBounds
<1> QED BY <1>1 DEF Host!Init, Host!Idle, HostBounds

LEMMA HostBoundsStep ==
  ASSUME HostBounds, Host!Next \/ UNCHANGED hostVars
  PROVE  HostBounds'
<1> USE DEF HostBounds
<1>1. CASE Host!Boot
  <2>1. /\ log' = [log EXCEPT !.boots = log.boots + 1] /\ log.boots < BootBound
        /\ UNCHANGED <<disk, claim, winner>>
    BY <1>1 DEF Host!Boot
  <2>2. log.boots + 1 \in 0 .. BootBound BY <2>1, ServerBounds
  <2> QED BY <2>1, <2>2
<1>2. CASE Host!StartupFails
  BY <1>2 DEF Host!StartupFails
<1>3. CASE Host!OnDisk("key", Host!CreateKey) \/ Host!OnDisk("writingKey", Host!WriteKey)
           \/ Host!OnDisk("key", Host!ReadKey) \/ Host!OnDisk("database", Host!OpenDatabase)
  BY <1>3 DEF Host!OnDisk, Host!CreateKey, Host!WriteKey, Host!ReadKey, Host!OpenDatabase
<1>4. CASE Host!OnDisk("backingUp", Host!BackUp)
  BY <1>4 DEF Host!OnDisk, Host!BackUp
<1>5. CASE Host!OnDisk("migrating", Host!Migrate)
  <2>1. /\ disk.schema < Newest /\ disk' = [disk EXCEPT !.schema = disk.schema + 1]
        /\ UNCHANGED <<log, claim, winner>>
    BY <1>5 DEF Host!OnDisk, Host!Migrate
  <2>2. disk.schema + 1 \in 0 .. Newest BY <2>1, ServerBounds
  <2> QED BY <2>1, <2>2
<1>6. CASE Host!OnDisk("migrating", Host!Migrated)
           \/ Host!OnDisk("installation", Host!InitializeInstallation)
           \/ Host!OnDisk("announcing", Host!Announce) \/ Host!OnDisk("composing", Host!Compose)
  <2>1. CASE Host!OnDisk("migrating", Host!Migrated)
    BY <2>1 DEF Host!OnDisk, Host!Migrated
  <2>2. CASE Host!OnDisk("installation", Host!InitializeInstallation)
    <3>1. /\ UNCHANGED <<log, claim, winner>>
          /\ disk' = disk \/ disk' = [disk EXCEPT !.installed = TRUE, !.code = TRUE]
      BY <2>2 DEF Host!OnDisk, Host!InitializeInstallation
    <3> QED BY <3>1
  <2>3. CASE Host!OnDisk("announcing", Host!Announce)
    BY <2>3 DEF Host!OnDisk, Host!Announce
  <2>4. CASE Host!OnDisk("composing", Host!Compose)
    BY <2>4 DEF Host!OnDisk, Host!Compose
  <2> QED BY <1>6, <2>1, <2>2, <2>3, <2>4
<1>7. CASE Host!Crash \/ Host!BeginDrain \/ Host!DrainEnds \/ Host!Close \/ Host!Exit
           \/ UNCHANGED hostVars
  <2>1. Host!Idle \in [pc : {"idle", "hashing", "answering"}, right : BOOLEAN]
    BY DEF Host!Idle
  <2>2. UNCHANGED <<disk, log, winner>>
    BY <1>7
    DEF Host!Crash, Host!BeginDrain, Host!DrainEnds, Host!Close, Host!Exit, hostVars
  <2>3. claim' \in [Claimant -> [pc : {"idle", "hashing", "answering"}, right : BOOLEAN]]
    <3>1. CASE Host!Crash BY <2>1, <3>1 DEF Host!Crash
    <3>2. CASE UNCHANGED claim BY <3>2
    <3> QED BY <1>7, <3>1, <3>2
         DEF Host!BeginDrain, Host!DrainEnds, Host!Close, Host!Exit, hostVars
  <2> QED BY <2>2, <2>3
<1>8. ASSUME NEW c \in Claimant,
             Host!Arrive(c) \/ Host!Claim(c) \/ Host!ClaimFails(c) \/ Host!Answered(c)
      PROVE  HostBounds'
  <2>1. claim' \in [Claimant -> [pc : {"idle", "hashing", "answering"}, right : BOOLEAN]]
    <3>1. /\ Host!Idle \in [pc : {"idle", "hashing", "answering"}, right : BOOLEAN]
          /\ [Host!Idle EXCEPT !.pc = "answering"]
               \in [pc : {"idle", "hashing", "answering"}, right : BOOLEAN]
      BY DEF Host!Idle
    <3>2. CASE Host!Arrive(c)
      <4>1. PICK right \in BOOLEAN :
              claim' = [claim EXCEPT ![c] = [pc |-> "hashing", right |-> right]]
        BY <3>2 DEF Host!Arrive
      <4>2. [pc |-> "hashing", right |-> right]
              \in [pc : {"idle", "hashing", "answering"}, right : BOOLEAN]
        OBVIOUS
      <4> QED BY <4>1, <4>2
    <3>3. CASE Host!Claim(c) \/ Host!ClaimFails(c)
      BY <3>1, <3>3 DEF Host!Claim, Host!ClaimFails
    <3>4. CASE Host!Answered(c) BY <3>1, <3>4 DEF Host!Answered
    <3> QED BY <1>8, <3>2, <3>3, <3>4
  <2>2. UNCHANGED log BY <1>8 DEF Host!Arrive, Host!Claim, Host!ClaimFails, Host!Answered
  <2>3. CASE Host!Claim(c)
    <3>1. \/ UNCHANGED <<disk, winner>>
          \/ /\ disk' = [disk EXCEPT !.configured = TRUE, !.code = FALSE, !.owner = c]
             /\ winner' = winner \cup {c}
      BY <2>3 DEF Host!Claim
    <3> QED BY <2>1, <2>2, <3>1
  <2>4. CASE UNCHANGED <<disk, winner>> BY <2>1, <2>2, <2>4
  <2> QED BY <1>8, <2>3, <2>4 DEF Host!Arrive, Host!ClaimFails, Host!Answered
<1> QED BY <1>1, <1>2, <1>3, <1>4, <1>5, <1>6, <1>7, <1>8 DEF Host!Next, Host!Startup

LEMMA HostTypeOK == HostInv /\ HostBounds => Host!TypeOK
BY DEF HostInv, HostTypes, ProcessState, HostBounds, Host!TypeOK

LEMMA HostBoundsHold == Spec => [](part = "host" => HostBounds)
<1>1. Init => (part = "host" => HostBounds) BY HostBoundsInit DEF Init
<1>2. (part = "host" => HostBounds) /\ [Next]_vars => (part = "host" => HostBounds)'
  <2>1. SUFFICES ASSUME [Next]_vars, part' = "host", part = "host" => HostBounds
                 PROVE  HostBounds'
    OBVIOUS
  <2>2. part = "host" BY <2>1 DEF Next, vars
  <2> QED BY <2>1, <2>2, HostBoundsStep DEF Next, vars
<1> QED BY <1>1, <1>2, PTL DEF Spec

(* Every variable of every part keeps its type.                            *)
THEOREM TypeCorrect == Spec => []TypeOK
<1>1. /\ (part = "api" => ApiInv)
      /\ (part = "oauth" => OAuthInv) /\ (part = "oauth" => OAuthBounds)
      /\ (part = "oauth" => RevisionNamesDocument)
      /\ (part = "browse" => BrowseInv) /\ (part = "thumbnails" => ThumbnailsInv)
      /\ (part = "gateway" => GatewayInv) /\ (part = "gateway" => GatewayBounds)
      /\ (part = "folders" => FoldersInv)
      /\ (part = "host" => HostInv) /\ (part = "host" => HostBounds)
      => TypeOK
  BY ApiTypeOK, OAuthTypeOK, BrowseTypeOK, GatewayTypeOK, FoldersTypeOK, HostTypeOK
  DEF ThumbnailsInv, TypeOK
<1> QED
  BY <1>1, ApiHolds, OAuthHolds, OAuthBoundsHold, RevisionNamesDocumentHolds, BrowseHolds, ThumbnailsHold, GatewayHolds,
     GatewayBoundsHold, FoldersHold, HostHolds, HostBoundsHold, PTL
=============================================================================
