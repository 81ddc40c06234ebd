------------------------ MODULE CredentialBrokerProofs ------------------------
(***************************************************************************)
(* Theorems about CredentialBroker: one refresh of a version at a time, a  *)
(* source is marked only for the token it has, and the stored token stays  *)
(* of use unless one of the listed accidents has happened.                 *)
(***************************************************************************)
EXTENDS CredentialBroker, TLAPS

Kinds == {"none", "get", "winner", "same", "rotated", "invalid_grant", "failed"}
Pcs == {"idle", "called", "reading", "asking", "answered", "caching", "joined", "resumed", "done"}
CallState ==
  [pc : Pcs, source : Source, from : Kinds, new : Token, on : Caller \cup {NoCaller}, answer : Answer]

Awaiting(c) == call[c].pc \in {"asking", "answered"}
Active(c) == call[c].pc \notin {"idle", "done"}

(* No token is known before the provider issued it; every version beyond   *)
(* the reconnects has cost one token.                                      *)
Issued ==
  /\ good \subseteq 0 .. issued
  /\ source.token <= issued /\ source.version <= ReconnectBound + 1 + source.token
  /\ \A c \in Caller :
       /\ call[c].source.token <= issued
       /\ call[c].source.version <= source.version

(* Who asks the provider is registered for the version it asks for.        *)
Registered == \A c \in Caller : Awaiting(c) => owner[call[c].source.version] = c

(* A new token that has not been stored is nobody's: neither the source    *)
(* has it, nor does a caller hold it, nor was it sent to another one.      *)
Undelivered ==
  \A c \in Caller : Arrived(c, "rotated") =>
    /\ call[c].source.token < call[c].new /\ call[c].new <= issued
    /\ call[c].new # source.token
    /\ \A d \in Caller :
         /\ call[d].source.token # call[c].new
         /\ Arrived(d, "rotated") /\ call[d].new = call[c].new => c = d

(* A refused token is never accepted later.                                *)
RefusedForGood == \A c \in Caller : Arrived(c, "invalid_grant") => call[c].source.token \notin good

(* Unless something was lost, who holds the stored token has it from the   *)
(* stored version, and the token that is to replace it is accepted.        *)
Accounted ==
  ~lost =>
    \A c \in Caller :
      /\ Active(c) /\ call[c].source.token = source.token => call[c].source.version = source.version
      /\ Arrived(c, "rotated") /\ call[c].source.version = source.version => call[c].new \in good

IInv ==
  TypeOK /\ Issued /\ Registered /\ Undelivered /\ RefusedForGood /\ Accounted /\ Usable

-----------------------------------------------------------------------------
LEMMA Types ==
  TypeOK <=>
    /\ source \in Source /\ good \subseteq Token /\ issued \in Token /\ cached \subseteq Version
    /\ owner \in [Version -> Caller \cup {NoCaller}]
    /\ call \in [Caller -> CallState] /\ lost \in BOOLEAN
BY DEF TypeOK, CallState, Pcs, Kinds

LEMMA TypesNext ==
  ASSUME source' \in Source, good' \subseteq Token, issued' \in Token, cached' \subseteq Version,
         owner' \in [Version -> Caller \cup {NoCaller}],
         call' \in [Caller -> CallState], lost' \in BOOLEAN
  PROVE  TypeOK'
BY DEF TypeOK, CallState, Pcs, Kinds

LEMMA SourceFields ==
  ASSUME NEW s \in Source
  PROVE  /\ s.version \in Int /\ s.version >= 1 /\ s.version <= ReconnectBound + TokenBound + 1
         /\ s.version \in Version
         /\ s.token \in Int /\ s.token >= 0 /\ s.token <= TokenBound /\ s.token \in Token
         /\ s.bootstrap \in BOOLEAN /\ s.status \in {"healthy", "reauth-required", "removed"}
BY BoundAssumption DEF Source, Version, Token

LEMMA CallFields ==
  ASSUME TypeOK, NEW c \in Caller
  PROVE  /\ call[c] \in CallState /\ call[c].source \in Source /\ call[c].pc \in Pcs
         /\ call[c].new \in Int /\ call[c].new >= 0 /\ call[c].answer \in Answer
BY Types, BoundAssumption DEF CallState, Token

LEMMA IdleType == 
  /\ Idle \in CallState /\ Idle.source.token = 0 /\ Idle.source.version = 1 
  /\ Idle.pc = "idle" /\ Idle.from = "none"
BY BoundAssumption DEF Idle, CallState, Source, Version, Token, Pcs, Kinds, Answer

LEMMA InitInv == Init => IInv
<1> SUFFICES ASSUME Init PROVE IInv OBVIOUS
<1>1. source \in Source /\ issued \in Token /\ good \subseteq Token
  BY BoundAssumption DEF Init, Source, Version, Token
<1>2. TypeOK BY <1>1, IdleType, Types DEF Init
<1>3. \A c \in Caller : call[c] = Idle BY DEF Init
<1>4. Issued /\ Usable BY <1>3, IdleType, BoundAssumption DEF Init, Issued, Usable
<1>5. Registered /\ Undelivered /\ RefusedForGood /\ Accounted
  BY <1>3, IdleType DEF Registered, Undelivered, RefusedForGood, Accounted, Arrived, Active, Awaiting
<1> QED BY <1>2, <1>4, <1>5 DEF IInv

-----------------------------------------------------------------------------
(* What a settled promise does to the callers: nobody comes to ask, nobody *)
(* changes the source it holds but the one that is done.                   *)
LEMMA SettleFacts ==
  ASSUME TypeOK, NEW c \in Caller, NEW a \in Answer, Settle(c, a)
  PROVE  /\ call' \in [Caller -> CallState] /\ owner' \in [Version -> Caller \cup {NoCaller}]
         /\ call'[c].pc = "done" /\ call'[c].source = Idle.source
         /\ \A d \in Caller : d # c =>
              /\ call'[d].source = call[d].source /\ call'[d].from = call[d].from
              /\ call'[d].new = call[d].new
              /\ call'[d].pc = call[d].pc \/ (call[d].pc = "joined" /\ call'[d].pc = "resumed")
              /\ \A v \in Version : owner[v] = d => owner'[v] = d
<1>1. [Idle EXCEPT !.pc = "done", !.answer = a] \in CallState BY IdleType DEF CallState, Pcs
<1>2. ASSUME NEW d \in Caller PROVE [call[d] EXCEPT !.pc = "resumed", !.answer = a] \in CallState
  BY CallFields DEF CallState, Pcs
<1>3. call' = [d \in Caller |->
       CASE d = c -> [Idle EXCEPT !.pc = "done", !.answer = a]
         [] d # c /\ call[d].pc = "joined" /\ call[d].on = c ->
              [call[d] EXCEPT !.pc = "resumed", !.answer = a]
         [] OTHER -> call[d]]
  BY DEF Settle
<1>4. ASSUME NEW d \in Caller
      PROVE  call'[d] = IF d = c THEN [Idle EXCEPT !.pc = "done", !.answer = a]
                        ELSE IF call[d].pc = "joined" /\ call[d].on = c
                             THEN [call[d] EXCEPT !.pc = "resumed", !.answer = a]
                             ELSE call[d]
  BY <1>3
<1>5. call' \in [Caller -> CallState] BY <1>1, <1>2, <1>3, <1>4, CallFields
<1>6. call'[c].pc = "done" /\ call'[c].source = Idle.source BY <1>4, IdleType DEF CallState
<1>7. ASSUME NEW d \in Caller, d # c
      PROVE  /\ call'[d].source = call[d].source /\ call'[d].from = call[d].from
             /\ call'[d].new = call[d].new
             /\ call'[d].pc = call[d].pc \/ (call[d].pc = "joined" /\ call'[d].pc = "resumed")
  BY <1>4, <1>7, CallFields DEF CallState
<1>8. owner' \in [Version -> Caller \cup {NoCaller}] BY Types DEF Settle
<1>9. \A d \in Caller, v \in Version : d # c /\ owner[v] = d => owner'[v] = d BY Types DEF Settle
<1> QED BY <1>5, <1>6, <1>7, <1>8, <1>9

(* A step of caller c only.                                                *)
Untouched(c) == \A d \in Caller : d # c => call'[d] = call[d]

(* A step that only touches the callers: who holds a source holds the one  *)
(* it had or the present one, no token arrives, and none that could be     *)
(* stored goes away.                                                       *)
LEMMA CallersInv ==
  ASSUME IInv, UNCHANGED <<source, good, issued>>, cached' \subseteq Version,
         lost' \in BOOLEAN, lost => lost',
         call' \in [Caller -> CallState], owner' \in [Version -> Caller \cup {NoCaller}],
         Registered',
         \A d \in Caller :
           /\ \/ call'[d].source = Idle.source /\ call'[d].pc = "done"
              \/ call'[d].source = source
              \/ call'[d].source = call[d].source /\ (Active(d)' => Active(d))
           /\ Arrived(d, "rotated")' => 
                Arrived(d, "rotated") /\ call'[d].source = call[d].source /\ call'[d].new = call[d].new
           /\ Arrived(d, "invalid_grant")' => call'[d].source.token \notin good
           /\ Arrived(d, "rotated") /\ Current(d) =>
                \/ source.status # "healthy" \/ lost'
                \/ Arrived(d, "rotated")' /\ call'[d].source = call[d].source /\ call'[d].new = call[d].new
  PROVE  IInv'
<1>1. TypeOK' BY Types, TypesNext DEF IInv
<1>2. source \in Source /\ source.token \in Int /\ source.version \in Int /\ source.token >= 0
      /\ source.version >= 1 /\ issued \in Int /\ issued >= source.token
  BY SourceFields, Types, BoundAssumption DEF IInv, Issued, Token
<1>3. Issued' BY <1>2, IdleType DEF IInv, Issued
<1>4. \A d \in Caller : call[d].source.token \in Int /\ call[d].source.token >= 0
  BY CallFields, SourceFields DEF IInv
<1>5. \A d \in Caller : Arrived(d, "rotated") => call[d].new # 0
  BY <1>4, CallFields DEF IInv, Undelivered
<1>6. Undelivered'
  <2> SUFFICES ASSUME NEW c \in Caller, Arrived(c, "rotated")'
               PROVE  /\ call'[c].source.token < call'[c].new /\ call'[c].new <= issued
                      /\ call'[c].new # source.token
                      /\ \A d \in Caller :
                           /\ call'[d].source.token # call'[c].new
                           /\ Arrived(d, "rotated")' /\ call'[d].new = call'[c].new => c = d
    BY DEF Undelivered, Arrived
  <2>1. Arrived(c, "rotated") /\ call'[c].source = call[c].source /\ call'[c].new = call[c].new OBVIOUS
  <2>2. call[c].new # 0 BY <2>1, <1>5
  <2> QED BY <2>1, <2>2, IdleType DEF IInv, Undelivered
<1>7. RefusedForGood' BY DEF RefusedForGood, Arrived
<1>8. Accounted'
  <2> SUFFICES ASSUME ~lost', NEW c \in Caller
               PROVE  /\ Active(c)' /\ call'[c].source.token = source.token
                           => call'[c].source.version = source.version
                      /\ Arrived(c, "rotated")' /\ call'[c].source.version = source.version
                           => call'[c].new \in good
    BY DEF Accounted, Active, Arrived
  <2> QED BY DEF IInv, Accounted, Active
<1>9. Usable'
  <2>1. CASE lost' \/ source.status = "removed" BY <2>1 DEF Usable
  <2>2. CASE source.status = "healthy" /\ source.token \in good BY <2>2 DEF Usable
  <2>3. CASE ~lost' /\ source.status = "healthy" /\
               \E c \in Caller : Arrived(c, "rotated") /\ Current(c) /\ call[c].new \in good
    <3>1. PICK c \in Caller : Arrived(c, "rotated") /\ Current(c) /\ call[c].new \in good BY <2>3
    <3>2. Arrived(c, "rotated")' /\ call'[c].source = call[c].source /\ call'[c].new = call[c].new
      BY <2>3, <3>1
    <3>3. Current(c)' BY <3>1, <3>2 DEF Current
    <3> QED BY <2>3, <3>1, <3>2, <3>3 DEF Usable
  <2> QED BY <2>1, <2>2, <2>3 DEF IInv, Usable
<1> QED BY <1>1, <1>3, <1>6, <1>7, <1>8, <1>9 DEF IInv

LEMMA LostKept ==
  ASSUME IInv, UNCHANGED lost
  PROVE  lost' \in BOOLEAN /\ (lost => lost')
BY Types DEF IInv

(* Steps in which a promise settles.                                       *)
LEMMA SettleInv ==
  ASSUME IInv, NEW c \in Caller, NEW a \in Answer, Settle(c, a),
         UNCHANGED <<source, good, issued>>, cached' \subseteq Version,
         lost' \in BOOLEAN, lost => lost',
         ~Arrived(c, "rotated") \/ source.status # "healthy" \/ ~Current(c) \/ lost'
  PROVE  IInv'
<1>1. TypeOK BY DEF IInv
<1> USE SettleFacts, <1>1
<1>2. Registered'
  <2> SUFFICES ASSUME NEW d \in Caller, Awaiting(d)' PROVE owner'[call'[d].source.version] = d
    BY DEF Registered, Awaiting
  <2>1. d # c BY DEF Awaiting
  <2>2. Awaiting(d) /\ call'[d].source = call[d].source BY <2>1 DEF Awaiting
  <2>3. call[d].source.version \in Version BY CallFields, SourceFields
  <2> QED BY <2>1, <2>2, <2>3 DEF IInv, Registered
<1>3. ASSUME NEW d \in Caller
      PROVE  /\ \/ call'[d].source = Idle.source /\ call'[d].pc = "done"
                \/ call'[d].source = call[d].source /\ (Active(d)' => Active(d))
             /\ Arrived(d, "rotated")' =>
                  Arrived(d, "rotated") /\ call'[d].source = call[d].source /\ call'[d].new = call[d].new
             /\ Arrived(d, "invalid_grant")' => call'[d].source.token \notin good
             /\ Arrived(d, "rotated") /\ Current(d) =>
                  \/ source.status # "healthy" \/ lost'
                  \/ Arrived(d, "rotated")' /\ call'[d].source = call[d].source /\ call'[d].new = call[d].new
  <2>1. CASE d = c BY <2>1 DEF Arrived
  <2>2. CASE d # c
    <3>1. /\ call'[d].source = call[d].source /\ call'[d].from = call[d].from
          /\ call'[d].new = call[d].new
          /\ call'[d].pc = call[d].pc \/ (call[d].pc = "joined" /\ call'[d].pc = "resumed")
      BY <2>2
    <3>2. Arrived(d, "invalid_grant") => call[d].source.token \notin good
      BY DEF IInv, RefusedForGood
    <3> QED BY ONLY <3>1, <3>2 DEF Arrived, Active
  <2> QED BY <2>1, <2>2
<1> QED BY <1>2, <1>3, CallersInv

(* Steps in which caller c goes on to its next await by itself: with the   *)
(* source it holds or the present one, and to the provider only as the     *)
(* registered caller of that version.                                      *)
LEMMA GoesOnInv ==
  ASSUME IInv, NEW c \in Caller, UNCHANGED <<source, good, issued, cached, lost>>,
         NEW next \in CallState, call' = [call EXCEPT ![c] = next],
         next.source \in {call[c].source, source}, next.source = source \/ Active(c),
         \/ UNCHANGED owner /\ (next.pc \in {"asking", "answered"} =>
                                  Awaiting(c) /\ next.source = call[c].source)
         \/ owner[next.source.version] = NoCaller /\ owner' = [owner EXCEPT ![next.source.version] = c],
         ~(next.pc = "answered" /\ next.from = "rotated"),
         next.pc = "answered" /\ next.from = "invalid_grant" => next.source.token \notin good,
         ~(Arrived(c, "rotated") /\ Current(c))
  PROVE  IInv'
<1>1. TypeOK BY DEF IInv
<1>2. \A d \in Caller : call'[d] = IF d = c THEN next ELSE call[d] BY <1>1, Types
<1>3. call' \in [Caller -> CallState] BY <1>1, Types
<1>4. source \in Source /\ call[c].source \in Source BY <1>1, Types, CallFields
<1>5. next.source.version \in Version BY <1>4, SourceFields
<1>6. owner' \in [Version -> Caller \cup {NoCaller}] BY <1>1, Types
<1>7. Registered'
  <2> SUFFICES ASSUME NEW d \in Caller, Awaiting(d)' PROVE owner'[call'[d].source.version] = d
    BY DEF Registered, Awaiting
  <2>1. CASE UNCHANGED owner /\ (next.pc \in {"asking", "answered"} =>
                                    Awaiting(c) /\ next.source = call[c].source)
    BY <1>2, <2>1 DEF IInv, Registered, Awaiting
  <2>2. CASE owner[next.source.version] = NoCaller /\ owner' = [owner EXCEPT ![next.source.version] = c]
    <3>1. CASE d = c BY <1>1, <1>2, <1>5, <2>2, <3>1, Types
    <3>2. CASE d # c
      <4>1. owner[call[d].source.version] = d BY <1>2, <3>2 DEF IInv, Registered, Awaiting
      <4>2. call[d].source.version # next.source.version BY <2>2, <4>1, SentinelAssumption
      <4> QED BY <1>1, <1>2, <2>2, <3>2, <4>1, <4>2, Types
    <3> QED BY <3>1, <3>2
  <2> QED BY <2>1, <2>2
<1>8. ASSUME NEW d \in Caller
      PROVE  /\ \/ call'[d].source = source
                \/ call'[d].source = call[d].source /\ (Active(d)' => Active(d))
             /\ Arrived(d, "rotated")' =>
                  Arrived(d, "rotated") /\ call'[d].source = call[d].source /\ call'[d].new = call[d].new
             /\ Arrived(d, "invalid_grant")' => call'[d].source.token \notin good
             /\ Arrived(d, "rotated") /\ Current(d) =>
                  Arrived(d, "rotated")' /\ call'[d].source = call[d].source /\ call'[d].new = call[d].new
  <2>1. CASE d = c BY <1>2, <2>1 DEF Arrived, Active
  <2>2. CASE d # c BY <1>2, <2>2 DEF Arrived, Active, IInv, RefusedForGood
  <2> QED BY <2>1, <2>2
<1>9. cached' \subseteq Version BY <1>1, Types
<1> QED BY <1>3, <1>6, <1>7, <1>8, <1>9, LostKept, CallersInv

-----------------------------------------------------------------------------
(* The callers' own steps.                                                 *)
LEMMA RefreshDeduplicatedInv ==
  ASSUME IInv, NEW c \in Caller, call[c].pc \in {"called", "reading"},
         RefreshDeduplicated(c, call[c].source), UNCHANGED <<source, good, issued, cached, lost>>
  PROVE  IInv'
<1> DEFINE s == call[c].source
           joining == [call[c] EXCEPT !.pc = "joined", !.source = s, !.on = owner[s.version]]
           asking == [call[c] EXCEPT !.pc = "asking", !.source = s]
<1>1. call[c] \in CallState /\ s \in Source /\ s.version \in Version
      /\ owner[s.version] \in Caller \cup {NoCaller}
  BY CallFields, SourceFields, Types DEF IInv
<1>2. joining \in CallState /\ joining.pc = "joined" /\ joining.source = s BY <1>1 DEF CallState, Pcs
<1>3. asking \in CallState /\ asking.pc = "asking" /\ asking.source = s BY <1>1 DEF CallState, Pcs
<1>4. Active(c) /\ ~Arrived(c, "rotated") BY DEF Active, Arrived
<1>5. CASE owner[s.version] # NoCaller
  <2>1. call' = [call EXCEPT ![c] = joining] /\ UNCHANGED owner BY <1>5 DEF RefreshDeduplicated
  <2> HIDE DEF joining
  <2> QED BY <1>2, <1>4, <2>1, GoesOnInv
<1>6. CASE owner[s.version] = NoCaller
  <2>1. call' = [call EXCEPT ![c] = asking] /\ owner' = [owner EXCEPT ![s.version] = c]
    BY <1>6 DEF RefreshDeduplicated
  <2> HIDE DEF asking
  <2> QED BY <1>3, <1>4, <1>6, <2>1, GoesOnInv
<1> QED BY <1>5, <1>6

(* A caller goes on without asking anybody, with the source it holds or,   *)
(* like LoadContext and Continue, with the present one.                    *)
LEMMA WaitsInv ==
  ASSUME IInv, NEW c \in Caller, NEW pc \in {"called", "reading", "caching"}, NEW from \in Kinds,
         NEW s \in {source, call[c].source}, s = source \/ Active(c),
         call' = [call EXCEPT ![c] = [@ EXCEPT !.pc = pc, !.from = from, !.source = s]],
         UNCHANGED <<source, good, issued, cached, owner, lost>>,
         ~(Arrived(c, "rotated") /\ Current(c))
  PROVE  IInv'
<1> DEFINE next == [call[c] EXCEPT !.pc = pc, !.from = from, !.source = s]
<1>1. call[c] \in CallState /\ call[c].source \in Source /\ source \in Source
  BY CallFields, Types DEF IInv
<1>2. next \in CallState /\ next.pc = pc /\ next.source = s BY <1>1 DEF CallState, Pcs
<1>3. call' = [call EXCEPT ![c] = next] OBVIOUS
<1> HIDE DEF next
<1> QED BY <1>2, <1>3, GoesOnInv

LEMMA LoadContextInv ==
  ASSUME IInv, NEW c \in Caller, LoadContext(c)
  PROVE  IInv'
<1>1. call[c] \in CallState BY CallFields DEF IInv
<1>2. call' = [call EXCEPT ![c] = [@ EXCEPT !.pc = "called", !.from = call[c].from, !.source = source]]
  BY <1>1 DEF LoadContext, CallState
<1>3. call[c].from \in Kinds /\ ~Arrived(c, "rotated") BY <1>1 DEF CallState, LoadContext, Arrived
<1> QED BY <1>2, <1>3, WaitsInv DEF LoadContext

LEMMA AnswerTypes == {"ok", "reauth", "unavailable", "failed"} \subseteq Answer BY DEF Answer

LEMMA GetInv ==
  ASSUME IInv, NEW c \in Caller, Get(c) \/ ForceRefresh(c) \/ ReadCached(c) \/ Resume(c)
  PROVE  IInv'
<1> DEFINE s == call[c].source
<1>1. call[c] \in CallState /\ call[c].answer \in Answer /\ cached \subseteq Version
  BY CallFields, Types DEF IInv
<1>2. Active(c) /\ ~Arrived(c, "rotated")
  BY DEF Get, ForceRefresh, ReadCached, Resume, Active, Arrived
<1>3. UNCHANGED <<source, good, issued, cached, lost>> BY DEF Get, ForceRefresh, ReadCached, Resume
<1>4. Refused(s) \in Answer BY DEF Refused, Answer
<1>5. CASE \E a \in Answer : Settle(c, a) BY <1>1, <1>2, <1>3, <1>5, LostKept, SettleInv
<1>6. CASE call[c].pc \in {"called", "reading"} /\ RefreshDeduplicated(c, s)
  BY <1>3, <1>6, RefreshDeduplicatedInv
<1>7. CASE /\ call' = [call EXCEPT ![c].pc = "reading", ![c].from = "get"]
           /\ UNCHANGED owner
  <2>1. call' = [call EXCEPT ![c] = [@ EXCEPT !.pc = "reading", !.from = "get", !.source = s]]
    BY <1>1, <1>7 DEF CallState
  <2> QED BY <1>2, <1>3, <1>7, <2>1, WaitsInv DEF Kinds
<1>8. CASE call' = [call EXCEPT ![c].pc = "caching"] /\ UNCHANGED owner
  <2>1. call' = [call EXCEPT ![c] = [@ EXCEPT !.pc = "caching", !.from = call[c].from, !.source = s]]
    BY <1>1, <1>8 DEF CallState
  <2>2. call[c].from \in Kinds BY <1>1 DEF CallState
  <2> QED BY <1>2, <1>3, <1>8, <2>1, <2>2, WaitsInv
<1> QED BY <1>1, <1>4, <1>5, <1>6, <1>7, <1>8, AnswerTypes DEF Get, ForceRefresh, ReadCached, Resume

-----------------------------------------------------------------------------
(* The provider.                                                           *)
LEMMA ProviderAnswersInv ==
  ASSUME IInv, NEW c \in Caller, ProviderKeeps(c) \/ ProviderRefuses(c) \/ ProviderFails(c)
  PROVE  IInv'
<1>1. call[c] \in CallState BY CallFields DEF IInv
<1>2. PICK from \in {"same", "invalid_grant", "failed"} :
        /\ call' = [call EXCEPT ![c] = [@ EXCEPT !.pc = "answered", !.from = from]]
        /\ from = "invalid_grant" => call[c].source.token \notin good
  BY <1>1 DEF ProviderKeeps, ProviderRefuses, ProviderFails, CallState
<1>3. /\ UNCHANGED <<source, good, issued, cached, owner, lost>>
      /\ call[c].pc = "asking"
  BY DEF ProviderKeeps, ProviderRefuses, ProviderFails
<1> DEFINE next == [call[c] EXCEPT !.pc = "answered", !.from = from]
<1>4. /\ next \in CallState /\ next.pc = "answered" /\ next.source = call[c].source
      /\ next.from = from
  BY <1>1 DEF CallState, Pcs, Kinds
<1>5. call' = [call EXCEPT ![c] = next] BY <1>2
<1>6. Active(c) /\ Awaiting(c) /\ ~Arrived(c, "rotated") BY <1>3 DEF Active, Awaiting, Arrived
<1> HIDE DEF next
<1> QED BY <1>2, <1>3, <1>4, <1>5, <1>6, GoesOnInv

(* The refresh token is rotated: the new one is younger than all others,   *)
(* and the caller it is sent to is the only one that asked for the stored  *)
(* version.                                                                *)
LEMMA ProviderRotatesInv ==
  ASSUME IInv, NEW c \in Caller, ProviderRotates(c)
  PROVE  IInv'
<1> DEFINE next == [call[c] EXCEPT !.pc = "answered", !.from = "rotated", !.new = issued + 1]
           bad == [call[c] EXCEPT !.pc = "answered", !.from = "failed"]
<1>1. TypeOK /\ call[c] \in CallState /\ source \in Source /\ issued \in Token
  BY CallFields, Types DEF IInv
<1>2. /\ call[c].pc = "asking" /\ call[c].source.token \in good /\ issued < TokenBound
      /\ issued' = issued + 1 /\ UNCHANGED <<source, cached, owner>>
      /\ good' \in {good \cup {issued + 1}, (good \ {call[c].source.token}) \cup {issued + 1}}
      /\ \/ call' = [call EXCEPT ![c] = next] /\ UNCHANGED lost
         \/ call' = [call EXCEPT ![c] = bad] /\ lost' = TRUE
  BY <1>1 DEF ProviderRotates, CallState
<1>3. issued \in Int /\ issued >= 0 /\ issued + 1 \in Token BY <1>1, <1>2, BoundAssumption DEF Token
<1>4. /\ next \in CallState /\ next.pc = "answered" /\ next.from = "rotated"
      /\ next.source = call[c].source /\ next.new = issued + 1
  BY <1>1, <1>3 DEF CallState, Pcs, Kinds
<1>5. bad \in CallState /\ bad.pc = "answered" /\ bad.from = "failed" /\ bad.source = call[c].source
  BY <1>1 DEF CallState, Pcs, Kinds
<1> HIDE DEF next, bad
<1>6. PICK after \in {next, bad} :
        call' = [call EXCEPT ![c] = after] /\ (after = next => UNCHANGED lost) /\ (after = bad => lost')
  BY <1>2, <1>4, <1>5
<1>7. \A d \in Caller : call'[d] = IF d = c THEN after ELSE call[d] BY <1>1, <1>6, Types
<1>8. after.pc = "answered" /\ after.source = call[c].source /\ after \in CallState
  BY <1>4, <1>5, <1>6
<1>9. \A d \in Caller : call'[d].source = call[d].source BY <1>7, <1>8
<1>10. TypeOK'
  <2>1. call' \in [Caller -> CallState] BY <1>1, <1>6, <1>8, Types
  <2>2. good' \subseteq Token BY <1>1, <1>2, <1>3, Types
  <2>3. lost' \in BOOLEAN BY <1>1, <1>2, Types
  <2> QED BY <1>1, <1>2, <1>3, <2>1, <2>2, <2>3, Types, TypesNext
<1>11. /\ source.token \in Int /\ source.token <= issued
       /\ \A d \in Caller : call[d].source.token \in Int /\ call[d].source.token <= issued
       /\ \A d \in Caller : call[d].new \in Int
  BY <1>1, CallFields, SourceFields DEF IInv, Issued
<1>12. Issued'
  <2>1. good' \subseteq 0 .. issued' BY <1>2, <1>3 DEF IInv, Issued
  <2> QED BY <1>2, <1>3, <1>9, <1>11, <2>1 DEF IInv, Issued
<1>13. Registered' BY <1>2, <1>7, <1>8 DEF IInv, Registered, Awaiting
<1>14. \A d \in Caller : Arrived(d, "rotated") => call[d].new <= issued
  BY DEF IInv, Undelivered
<1>15. \A d \in Caller : Arrived(d, "rotated")' =>
         \/ d = c /\ call'[d].new = issued + 1
         \/ d # c /\ Arrived(d, "rotated") /\ call'[d].new = call[d].new
  BY <1>4, <1>5, <1>6, <1>7 DEF Arrived
<1>16. Undelivered'
  <2> SUFFICES ASSUME NEW e \in Caller, Arrived(e, "rotated")'
               PROVE  /\ call'[e].source.token < call'[e].new /\ call'[e].new <= issued'
                      /\ call'[e].new # source'.token
                      /\ \A d \in Caller :
                           /\ call'[d].source.token # call'[e].new
                           /\ Arrived(d, "rotated")' /\ call'[d].new = call'[e].new => e = d
    BY DEF Undelivered, Arrived
  <2>1. CASE e = c
    <3>1. call'[e].new = issued + 1 BY <1>15, <2>1
    <3>2. \A d \in Caller : Arrived(d, "rotated")' /\ d # c => call'[d].new # issued + 1
      BY <1>3, <1>11, <1>14, <1>15
    <3> QED BY <1>2, <1>3, <1>9, <1>11, <2>1, <3>1, <3>2
  <2>2. CASE e # c
    <3>1. Arrived(e, "rotated") /\ call'[e].new = call[e].new /\ call[e].new <= issued
      BY <1>14, <1>15, <2>2
    <3>2. \A d \in Caller : Arrived(d, "rotated")' /\ call'[d].new = call'[e].new => e = d
      BY <1>3, <1>11, <1>15, <3>1 DEF IInv, Undelivered
    <3> QED BY <1>2, <1>3, <1>9, <1>11, <3>1, <3>2 DEF IInv, Undelivered
  <2> QED BY <2>1, <2>2
<1>17. RefusedForGood'
  <2> SUFFICES ASSUME NEW d \in Caller, Arrived(d, "invalid_grant")' PROVE call'[d].source.token \notin good'
    BY DEF RefusedForGood, Arrived
  <2>1. Arrived(d, "invalid_grant") BY <1>4, <1>5, <1>6, <1>7 DEF Arrived
  <2> QED BY <1>2, <1>3, <1>9, <1>11, <2>1 DEF IInv, RefusedForGood
<1>18. Accounted'
  <2> SUFFICES ASSUME ~lost', NEW d \in Caller
               PROVE  /\ Active(d)' /\ call'[d].source.token = source'.token
                           => call'[d].source.version = source'.version
                      /\ Arrived(d, "rotated")' /\ call'[d].source.version = source'.version
                           => call'[d].new \in good'
    BY DEF Accounted, Active, Arrived
  <2>1. after = next /\ ~lost BY <1>6
  <2>2. Active(d)' => Active(d) BY <1>2, <1>7 DEF Active
  <2>3. ASSUME Arrived(d, "rotated")', call'[d].source.version = source'.version
        PROVE  call'[d].new \in good'
    <3>1. CASE d = c BY <1>2, <1>15, <3>1, <2>3
    <3>2. CASE d # c BY <1>2, <1>9, <1>15, <2>1, <2>3, <3>2 DEF IInv, Accounted, Undelivered
    <3> QED BY <3>1, <3>2
  <2> QED BY <1>2, <1>9, <2>1, <2>2, <2>3 DEF IInv, Accounted
<1>19. Usable'
  <2>1. CASE lost' \/ source.status = "removed" BY <1>2, <2>1 DEF Usable
  <2>2. CASE ~lost' /\ source.status # "removed"
    <3>1. after = next /\ ~lost BY <1>6, <2>2
    <3>2. source.status = "healthy" BY <2>2, <3>1 DEF IInv, Usable
    <3>3. CASE source.token \in good /\ source.token # call[c].source.token
      BY <1>2, <3>2, <3>3 DEF Usable
    <3>4. CASE source.token = call[c].source.token
      <4>1. call[c].source.version = source.version
        BY <1>2, <3>1, <3>4 DEF IInv, Accounted, Active
      <4>2. Arrived(c, "rotated")' /\ call'[c].new = issued + 1 BY <1>4, <1>7, <3>1 DEF Arrived
      <4>3. Current(c)' BY <1>2, <1>9, <3>4, <4>1 DEF Current
      <4> QED BY <1>2, <3>2, <4>2, <4>3 DEF Usable
    <3>5. CASE \E d \in Caller : Arrived(d, "rotated") /\ Current(d) /\ call[d].new \in good
      <4>1. PICK d \in Caller : Arrived(d, "rotated") /\ Current(d) /\ call[d].new \in good BY <3>5
      <4>2. d # c BY <1>2, <4>1 DEF Arrived
      <4>3. Arrived(d, "rotated")' /\ call'[d].new = call[d].new BY <1>7, <4>1, <4>2 DEF Arrived
      <4>4. Current(d)' BY <1>2, <1>9, <4>1 DEF Current
      <4>5. call'[d].new \in good' BY <1>2, <4>1, <4>3 DEF IInv, Undelivered
      <4> QED BY <1>2, <3>2, <4>3, <4>4, <4>5 DEF Usable
    <3> QED BY <2>2, <3>1, <3>3, <3>4, <3>5 DEF IInv, Usable
  <2> QED BY <2>1, <2>2
<1> QED BY <1>10, <1>12, <1>13, <1>16, <1>17, <1>18, <1>19 DEF IInv

-----------------------------------------------------------------------------
(* The answer arrives.                                                     *)
LEMMA ContinueInv ==
  ASSUME IInv, NEW c \in Caller, Continue(c), call[c].pc = "answered",
         ~(Arrived(c, "rotated") /\ Current(c)), UNCHANGED <<source, good, issued, cached, lost>>
  PROVE  IInv'
<1>1. call[c] \in CallState BY CallFields DEF IInv
<1>2. call' = [call EXCEPT ![c] = [@ EXCEPT !.pc = "reading", !.from = "winner", !.source = source]]
  BY <1>1 DEF Continue, CallState
<1>3. UNCHANGED owner BY DEF Continue
<1> QED BY <1>2, <1>3, WaitsInv DEF Kinds

LEMMA SettlesInv ==
  ASSUME IInv, NEW c \in Caller, RefreshFails(c) \/ SameToken(c) \/ CacheAccess(c)
  PROVE  IInv'
<1>1. call[c] \in CallState /\ call[c].source.version \in Version /\ cached \subseteq Version
  BY CallFields, SourceFields, Types DEF IInv
<1>2. ~Arrived(c, "rotated") /\ UNCHANGED <<source, good, issued, lost>>
  BY DEF RefreshFails, SameToken, CacheAccess, Arrived
<1>3. CASE RefreshFails(c) BY <1>1, <1>2, <1>3, AnswerTypes, LostKept, SettleInv DEF RefreshFails
<1>4. CASE SameToken(c)
  <2>1. call' = [call EXCEPT ![c] = [@ EXCEPT !.pc = "caching", !.from = call[c].from,
                                              !.source = call[c].source]]
    BY <1>1, <1>4 DEF CallState, SameToken
  <2>2. call[c].from \in Kinds /\ Active(c) BY <1>1, <1>4 DEF CallState, Active, SameToken, Arrived
  <2> QED BY <1>2, <1>4, <2>1, <2>2, WaitsInv DEF SameToken
<1>5. CASE CacheAccess(c)
  <2>1. cached' \subseteq Version /\ Settle(c, "ok") BY <1>1, <1>5 DEF CacheAccess
  <2> QED BY <1>2, <2>1, AnswerTypes, LostKept, SettleInv
<1> QED BY <1>3, <1>4, <1>5

(* The token that was refused is the stored one: no token is on its way to *)
(* replace it, since only one caller can have asked for it.                *)
LEMMA RefusedIsLost ==
  ASSUME IInv, NEW c \in Caller, Arrived(c, "invalid_grant"), Current(c), source.status # "removed"
  PROVE  lost /\ source.token \notin good
<1>1. source.token \notin good BY DEF IInv, RefusedForGood, Current
<1>2. ASSUME NEW d \in Caller, Arrived(d, "rotated"), Current(d) PROVE FALSE
  <2>1. Awaiting(c) /\ Awaiting(d) /\ call[c].source.version = call[d].source.version
    BY <1>2 DEF Arrived, Awaiting, Current
  <2>2. c = d BY <2>1 DEF IInv, Registered
  <2> QED BY <1>2, <2>2 DEF Arrived
<1> QED BY <1>1, <1>2 DEF IInv, Usable

LEMMA MarkReauthInv ==
  ASSUME IInv, NEW c \in Caller, MarkReauth(c)
  PROVE  IInv'
<1>1. /\ Arrived(c, "invalid_grant") /\ call[c].pc = "answered" /\ ~Arrived(c, "rotated")
      /\ UNCHANGED <<good, issued, cached, lost>> /\ cached \subseteq Version
  BY Types DEF MarkReauth, Arrived, IInv
<1>2. source.status \in {"healthy", "reauth-required", "removed"} /\ source \in Source
  BY SourceFields, Types DEF IInv
<1>3. CASE UNCHANGED source /\ \E a \in Answer : Settle(c, a) BY <1>1, <1>3, LostKept, SettleInv
<1>4. CASE UNCHANGED source /\ Continue(c) BY <1>1, <1>4, ContinueInv
<1>5. CASE /\ source.status # "removed" /\ Current(c) /\ Settle(c, "reauth")
           /\ source' = [source EXCEPT !.status = "reauth-required"]
  <2>1. lost BY <1>1, <1>5, RefusedIsLost
  <2>2. source' \in Source /\ source'.token = source.token /\ source'.version = source.version
    BY <1>2, <1>5 DEF Source
  <2>3. /\ call' \in [Caller -> CallState] /\ owner' \in [Version -> Caller \cup {NoCaller}]
        /\ call'[c].pc = "done" /\ call'[c].source = Idle.source
        /\ \A d \in Caller : d # c =>
             /\ call'[d].source = call[d].source /\ call'[d].from = call[d].from
             /\ call'[d].new = call[d].new
             /\ call'[d].pc = call[d].pc \/ (call[d].pc = "joined" /\ call'[d].pc = "resumed")
             /\ \A v \in Version : owner[v] = d => owner'[v] = d
    BY <1>5, AnswerTypes, SettleFacts DEF IInv
  <2>4. TypeOK' BY <1>1, <2>2, <2>3, Types, TypesNext DEF IInv
  <2>5. source.version >= 1 /\ source.version \in Int /\ issued \in Int /\ issued >= 0
    BY <1>2, SourceFields, Types, BoundAssumption DEF IInv, Token
  <2>6. Issued' BY <1>1, <2>2, <2>3, <2>5, IdleType DEF IInv, Issued
  <2>7. \A d \in Caller : Awaiting(d)' => d # c /\ Awaiting(d) /\ call'[d].source = call[d].source
    BY <2>3 DEF Awaiting
  <2>8. \A d \in Caller : call[d].source.version \in Version
    BY CallFields, SourceFields DEF IInv
  <2>9. Registered' BY <2>3, <2>7, <2>8 DEF IInv, Registered, Awaiting
  <2>10. \A d \in Caller, kind \in Kinds : Arrived(d, kind)' =>
           /\ d # c /\ Arrived(d, kind)
           /\ call'[d].source = call[d].source /\ call'[d].new = call[d].new
    BY <2>3 DEF Arrived
  <2>11. \A d \in Caller : Arrived(d, "rotated") => call[d].new # 0
    BY CallFields, SourceFields DEF IInv, Undelivered
  <2>12. \A d \in Caller : call'[d].source \in {Idle.source, call[d].source} BY <2>3
  <2>13. Undelivered'
    <3> SUFFICES ASSUME NEW e \in Caller, Arrived(e, "rotated")'
                 PROVE  /\ call'[e].source.token < call'[e].new /\ call'[e].new <= issued'
                        /\ call'[e].new # source'.token
                        /\ \A d \in Caller :
                             /\ call'[d].source.token # call'[e].new
                             /\ Arrived(d, "rotated")' /\ call'[d].new = call'[e].new => e = d
      BY DEF Undelivered, Arrived
    <3>1. Arrived(e, "rotated") /\ call'[e].source = call[e].source /\ call'[e].new = call[e].new
      BY <2>10 DEF Kinds
    <3>2. \A d \in Caller : Arrived(d, "rotated")' => Arrived(d, "rotated") /\ call'[d].new = call[d].new
      BY <2>10 DEF Kinds
    <3> QED BY <1>1, <2>2, <2>11, <2>12, <3>1, <3>2, IdleType DEF IInv, Undelivered
  <2>14. RefusedForGood' BY <1>1, <2>10 DEF IInv, RefusedForGood, Kinds, Arrived
  <2>15. Accounted' /\ Usable' BY <1>1, <2>1 DEF Accounted, Usable
  <2> QED BY <2>4, <2>6, <2>9, <2>13, <2>14, <2>15 DEF IInv
<1> QED BY <1>1, <1>2, <1>3, <1>4, <1>5, AnswerTypes DEF MarkReauth

(* The rotated token is stored, under the next version.                    *)
LEMMA StoresInv ==
  ASSUME IInv, NEW c \in Caller, Arrived(c, "rotated"), source.status = "healthy", Current(c),
         source' = [source EXCEPT !.version = @ + 1, !.token = call[c].new],
         call' = [call EXCEPT ![c].pc = "caching", ![c].source = source'],
         UNCHANGED <<good, issued, cached, owner, lost>>
  PROVE  IInv'
<1>0. IInv /\ UNCHANGED <<good, issued, cached, owner, lost>> OBVIOUS
<1>1. TypeOK /\ source \in Source /\ call[c] \in CallState /\ issued \in Token
  BY CallFields, Types DEF IInv
<1>2. /\ source.version \in Int /\ source.version >= 1 /\ source.token \in Int /\ source.token >= 0
      /\ call[c].new \in Int /\ call[c].new > source.token /\ call[c].new <= issued
      /\ issued \in Int /\ issued <= TokenBound /\ call[c].new \in Token
      /\ source.version <= ReconnectBound + 1 + source.token
  BY <1>1, SourceFields, CallFields, BoundAssumption DEF IInv, Undelivered, Issued, Current, Token
<1>3. source.version + 1 \in Version BY <1>2, BoundAssumption DEF Version
<1>4. /\ source' \in Source /\ source'.version = source.version + 1 /\ source'.token = call[c].new
      /\ source'.status = "healthy"
  BY <1>1, <1>2, <1>3 DEF Source
<1>5. PICK next \in CallState :
        call' = [call EXCEPT ![c] = next] /\ next.pc = "caching" /\ next.source = source'
  <2>1. [call[c] EXCEPT !.pc = "caching", !.source = source'] \in CallState
    BY <1>1, <1>4 DEF CallState, Pcs
  <2> QED BY <1>1, <2>1 DEF CallState
<1>6. next \in CallState /\ next.pc = "caching" /\ next.source = source' BY <1>5
<1>7. \A d \in Caller : call'[d] = IF d = c THEN next ELSE call[d] BY <1>1, <1>5, Types
<1>8. TypeOK'
  <2>1. call' \in [Caller -> CallState] BY <1>1, <1>5, <1>6, Types
  <2> QED BY <1>1, <1>4, <2>1, Types, TypesNext
<1>9. Issued'
  <2>1. \A d \in Caller : call[d].source.version \in Int /\ call[d].source.version <= source.version
    BY <1>1, CallFields, SourceFields DEF IInv, Issued
  <2> QED BY ONLY <1>0, <1>2, <1>4, <1>6, <1>7, <2>1, BoundAssumption DEF IInv, Issued
<1>10. Registered' BY <1>6, <1>7 DEF IInv, Registered, Awaiting
<1>11. \A d \in Caller : Arrived(d, "rotated")' =>
         d # c /\ Arrived(d, "rotated") /\ call'[d] = call[d] /\ call[d].new # call[c].new
  BY ONLY <1>0, <1>6, <1>7, Arrived(c, "rotated") DEF IInv, Undelivered, Arrived
<1>12. Undelivered'
  <2> SUFFICES ASSUME NEW e \in Caller, Arrived(e, "rotated")'
               PROVE  /\ call'[e].source.token < call'[e].new /\ call'[e].new <= issued'
                      /\ call'[e].new # source'.token
                      /\ \A d \in Caller :
                           /\ call'[d].source.token # call'[e].new
                           /\ Arrived(d, "rotated")' /\ call'[d].new = call'[e].new => e = d
    BY DEF Undelivered, Arrived
    <2>1. Arrived(e, "rotated") /\ call'[e] = call[e] /\ call[e].new # call[c].new BY <1>11
  <2>2. \A d \in Caller : call'[d].source.token # call[e].new
    BY ONLY <1>0, <1>4, <1>6, <1>7, <2>1, c \in Caller, e \in Caller DEF IInv, Undelivered
  <2> QED BY ONLY <1>0, <1>4, <1>11, <2>1, <2>2, c \in Caller, e \in Caller DEF IInv, Undelivered
<1>13. RefusedForGood' BY ONLY <1>0, <1>6, <1>7 DEF IInv, RefusedForGood, Arrived
<1>14. \A d \in Caller : d # c => call[d].source.version < source'.version
                                  /\ call[d].source.token # source'.token
  <2>1. \A d \in Caller : call[d].source.version \in Int /\ call[d].source.version <= source.version
    BY <1>1, CallFields, SourceFields DEF IInv, Issued
  <2> QED BY <1>2, <1>4, <2>1 DEF IInv, Undelivered
<1>15. Accounted'
  <2> SUFFICES ASSUME ~lost, NEW d \in Caller
               PROVE  /\ Active(d)' /\ call'[d].source.token = source'.token
                           => call'[d].source.version = source'.version
                      /\ Arrived(d, "rotated")' /\ call'[d].source.version = source'.version
                           => call'[d].new \in good
    BY DEF Accounted, Active, Arrived
  <2>1. CASE d = c BY <1>6, <1>7, <1>11, <2>1
  <2>2. CASE d # c
    <3>1. call[d].source.version < source'.version /\ call[d].source.version \in Int
      BY <1>1, <1>14, <2>2, CallFields, SourceFields
    <3> QED BY ONLY <1>4, <1>2, <1>7, <1>14, <2>2, <3>1
  <2> QED BY <2>1, <2>2
<1>16. Usable'
  <2>1. ~lost => call[c].new \in good BY DEF IInv, Accounted, Current
  <2> QED BY <1>4, <2>1 DEF Usable
<1> QED BY <1>8, <1>9, <1>10, <1>12, <1>13, <1>15, <1>16 DEF IInv

LEMMA RotateInv ==
  ASSUME IInv, NEW c \in Caller, Rotate(c)
  PROVE  IInv'
<1>1. /\ Arrived(c, "rotated") /\ call[c].pc = "answered" /\ cached \subseteq Version
      /\ UNCHANGED <<good, issued, cached, lost>>
  BY Types DEF Rotate, Arrived, IInv
<1>2. CASE source.status # "healthy"
  <2>1. Settle(c, "unavailable") /\ UNCHANGED source BY <1>2 DEF Rotate
  <2> QED BY <1>1, <1>2, <2>1, AnswerTypes, LostKept, SettleInv
<1>3. CASE source.status = "healthy" /\ Current(c) BY <1>1, <1>3, StoresInv DEF Rotate
<1>4. CASE source.status = "healthy" /\ ~Current(c)
  <2>1. Continue(c) /\ UNCHANGED source BY <1>4 DEF Rotate
  <2> QED BY <1>1, <1>4, <2>1, ContinueInv
<1> QED BY <1>2, <1>3, <1>4

(* The store fails, and what it was to store is lost.                      *)
LEMMA StoreFailsInv ==
  ASSUME IInv, NEW c \in Caller, StoreFails(c)
  PROVE  IInv'
<1>1. /\ Settle(c, "unavailable") /\ UNCHANGED <<source, good, issued, cached>>
      /\ lost' = (lost \/ (Arrived(c, "rotated") /\ Current(c)))
  BY DEF StoreFails
<1>2. lost \in BOOLEAN /\ cached \subseteq Version BY Types DEF IInv
<1>3. lost' \in BOOLEAN /\ (lost => lost') BY <1>1, <1>2
<1>4. ~Arrived(c, "rotated") \/ ~Current(c) \/ lost' BY <1>1
<1> QED BY <1>1, <1>2, <1>3, <1>4, AnswerTypes, SettleInv

-----------------------------------------------------------------------------
(* Time, the administrator, the account page, and crashes.                 *)
LEMMA CacheExpiresInv ==
  ASSUME IInv, NEW v \in Version, CacheExpires(v)
  PROVE  IInv'
<1>1. TypeOK' BY DEF CacheExpires, IInv, TypeOK
<1> QED
  BY <1>1 DEF CacheExpires, IInv, Issued, Registered, Undelivered, RefusedForGood, Accounted, Usable,
              Awaiting, Active, Arrived, Current

(* A source that is removed, or whose bootstrap token expires.             *)
LEMMA SourceChangesInv ==
  ASSUME IInv, BootstrapExpires \/ Remove
  PROVE  IInv'
<1>1. UNCHANGED <<good, issued, cached, owner, call, lost>> BY DEF BootstrapExpires, Remove
<1>2. source \in Source BY Types DEF IInv
<1>3. /\ source' \in Source /\ source'.token = source.token /\ source'.version = source.version
      /\ source'.status \in {source.status, "removed"}
  BY <1>2 DEF BootstrapExpires, Remove, Source
<1>4. TypeOK' BY <1>1, <1>3, Types, TypesNext DEF IInv
<1>5. Issued' /\ Registered' /\ Undelivered' /\ RefusedForGood' /\ Accounted'
  BY ONLY IInv, <1>1, <1>3
  DEF IInv, Issued, Registered, Undelivered, RefusedForGood, Accounted, Awaiting, Active, Arrived
<1>6. \A c \in Caller : Current(c) => Current(c)' BY <1>1, <1>3 DEF Current
<1>7. Usable'
  <2>1. CASE lost \/ source'.status = "removed" BY <1>1, <2>1 DEF Usable
  <2>2. CASE ~lost /\ source'.status = source.status /\ source.status # "removed"
    BY ONLY IInv, <1>1, <1>3, <1>6, <2>2 DEF IInv, Usable, Arrived
  <2> QED BY <1>3, <2>1, <2>2
<1> QED BY <1>4, <1>5, <1>7 DEF IInv

LEMMA UserRevokesInv ==
  ASSUME IInv, UserRevokes
  PROVE  IInv'
<1>1. good' = {} /\ lost' = TRUE /\ UNCHANGED <<source, issued, cached, owner, call>> BY DEF UserRevokes
<1>2. TypeOK' BY <1>1, Types, TypesNext DEF IInv
<1> QED
  BY <1>1, <1>2 DEF IInv, Issued, Registered, Undelivered, RefusedForGood, Accounted, Usable,
                    Awaiting, Active, Arrived, Current

(* After a crash no caller holds anything; who was refreshing loses what   *)
(* may have been sent to it.                                               *)
LEMMA CrashInv ==
  ASSUME IInv, Crash
  PROVE  IInv'
<1>1. /\ UNCHANGED <<source, good, issued>> /\ cached' = {} /\ lost' = (lost \/ Refreshing)
      /\ owner' = [v \in Version |-> NoCaller]
  BY DEF Crash
<1>2. \A c \in Caller : call'[c].pc \in {"idle", "done"} /\ call'[c].source = Idle.source
                        /\ call'[c] \in CallState
  BY IdleType DEF Crash, CallState, Pcs
<1>3. call' \in [Caller -> CallState] BY <1>2 DEF Crash
<1>4. TypeOK /\ TypeOK'
  <2>1. (lost \/ Refreshing) \in BOOLEAN BY Types DEF IInv, Refreshing
  <2> QED BY <1>1, <1>3, <2>1, Types, TypesNext DEF IInv
<1>5. source.version \in Int /\ source.version >= 1 /\ issued \in Int /\ issued >= 0
  BY <1>4, Types, SourceFields, BoundAssumption DEF Token
<1>6. Issued' BY <1>1, <1>2, <1>5, IdleType DEF IInv, Issued
<1>7. Registered' /\ Undelivered' /\ RefusedForGood'
  BY <1>2 DEF Registered, Undelivered, RefusedForGood, Awaiting, Arrived
<1>8. Accounted' BY <1>2 DEF Accounted, Active, Arrived
<1>9. Usable'
  <2>1. ASSUME NEW c \in Caller, Arrived(c, "rotated"), Current(c) PROVE Refreshing
    BY <2>1 DEF Refreshing, Arrived
  <2> QED BY <1>1, <2>1 DEF IInv, Usable
<1> QED BY <1>4, <1>6, <1>7, <1>8, <1>9 DEF IInv

(* The administrator reconnects: what was lost is made good by a fresh     *)
(* token; the kept one is of use unless a caller may be spending it.       *)
LEMMA ReconnectInv ==
  ASSUME IInv, NEW fresh \in BOOLEAN, Reconnect(fresh)
  PROVE  IInv'
<1>1. TypeOK /\ source \in Source /\ issued \in Token /\ good \subseteq Token BY Types DEF IInv
<1>2. /\ source.version < ReconnectBound /\ source.status # "removed"
      /\ fresh => issued < TokenBound
      /\ issued' = IF fresh THEN issued + 1 ELSE issued
      /\ good' = IF fresh THEN good \cup {issued'} ELSE good
      /\ source' = [version |-> source.version + 1, bootstrap |-> TRUE, status |-> "healthy",
                    token |-> IF fresh THEN issued' ELSE source.token]
      /\ lost' = IF fresh THEN FALSE ELSE lost \/ Holding
      /\ UNCHANGED <<cached, owner, call>>
  BY DEF Reconnect
<1>3. /\ source'.version = source.version + 1 /\ source'.status = "healthy"
      /\ source'.token = IF fresh THEN issued' ELSE source.token
      /\ source'.bootstrap = TRUE
  BY <1>2
<1>4. /\ source.version \in Int /\ source.version >= 1 /\ source.token \in Int /\ source.token >= 0
      /\ issued \in Int /\ issued >= 0 /\ issued <= TokenBound /\ source.token <= issued
      /\ TokenBound \in Nat /\ ReconnectBound \in Nat
  BY <1>1, SourceFields, BoundAssumption DEF Token, IInv, Issued
<1>5. /\ issued' \in Token /\ issued' >= issued /\ issued' \in Int
      /\ source'.token \in Token /\ source'.version \in Version
      /\ source'.token <= issued' /\ source'.token >= 0 /\ source'.token \in Int
  BY ONLY <1>2, <1>3, <1>4, fresh \in BOOLEAN DEF Token, Version
<1>6. source' \in Source BY <1>2, <1>3, <1>5 DEF Source
<1>7. TypeOK'
  <2>1. good' \subseteq Token BY <1>1, <1>2, <1>5
  <2>2. lost' \in BOOLEAN BY <1>1, <1>2, Types DEF Holding
  <2> QED BY ONLY <1>1, <1>2, <1>5, <1>6, <2>1, <2>2, Types, TypesNext
<1>8. \A c \in Caller :
        /\ call[c].source.version \in Int /\ call[c].source.version <= source.version
        /\ call[c].source.token \in Int /\ call[c].source.token <= issued /\ call[c].new \in Int
  BY <1>1, CallFields, SourceFields DEF IInv, Issued
<1>9. Issued'
  <2>1. good' \subseteq 0 .. issued' BY <1>2, <1>4, <1>5 DEF IInv, Issued
  <2> QED BY ONLY <1>2, <1>3, <1>4, <1>5, <1>8, <2>1 DEF Issued
<1>10. Registered' BY ONLY IInv, <1>2 DEF IInv, Registered, Awaiting
<1>11. Undelivered'
  <2>1. \A c \in Caller : Arrived(c, "rotated") => call[c].new <= issued /\ call[c].new # source.token
    BY DEF IInv, Undelivered
  <2> QED BY ONLY IInv, <1>2, <1>3, <1>4, <1>5, <1>8, <2>1, fresh \in BOOLEAN
          DEF IInv, Undelivered, Arrived
<1>12. RefusedForGood'
  BY ONLY IInv, <1>2, <1>4, <1>8, fresh \in BOOLEAN DEF IInv, RefusedForGood, Arrived
<1>13. Accounted'
  <2> SUFFICES ASSUME ~lost', NEW c \in Caller
               PROVE  /\ Active(c) => call[c].source.token # source'.token
                      /\ call[c].source.version # source'.version
    BY <1>2 DEF Accounted, Active, Arrived
  <2>1. CASE fresh BY ONLY <1>2, <1>3, <1>4, <1>8, <2>1, c \in Caller
  <2>2. CASE ~fresh
    <3>1. ~Holding BY <1>2, <2>2
    <3> QED BY ONLY <1>3, <1>4, <1>8, <2>2, <3>1, c \in Caller DEF Holding, Active
  <2> QED BY <2>1, <2>2
<1>14. Usable'
  <2>1. CASE fresh BY ONLY <1>2, <1>3, <2>1 DEF Usable
  <2>2. CASE ~fresh /\ ~lost'
    <3>1. ~lost /\ ~Holding BY <1>2, <2>2
    <3>2. \A c \in Caller : ~(Arrived(c, "rotated") /\ Current(c))
      BY <3>1 DEF Holding, Arrived, Current
    <3>3. source.token \in good BY <1>2, <3>1, <3>2 DEF IInv, Usable
    <3> QED BY ONLY <1>2, <1>3, <2>2, <3>3 DEF Usable
  <2>3. CASE ~fresh /\ lost' BY <2>3 DEF Usable
  <2> QED BY <2>1, <2>2, <2>3
<1> QED BY ONLY <1>7, <1>9, <1>10, <1>11, <1>12, <1>13, <1>14 DEF IInv

-----------------------------------------------------------------------------
LEMMA StepInv == IInv /\ [Next]_vars => IInv'
<1> SUFFICES ASSUME IInv, [Next]_vars PROVE IInv' OBVIOUS
<1>1. ASSUME NEW c \in Caller, LoadContext(c) PROVE IInv' BY <1>1, LoadContextInv
<1>2. ASSUME NEW c \in Caller, Continuation(c) PROVE IInv'
  BY <1>2, GetInv, SettlesInv, MarkReauthInv, RotateInv, StoreFailsInv DEF Continuation
<1>3. ASSUME NEW c \in Caller, ProviderStep(c) PROVE IInv'
  BY <1>3, ProviderAnswersInv, ProviderRotatesInv DEF ProviderStep
<1>4. CASE \E v \in Version : CacheExpires(v) BY <1>4, CacheExpiresInv
<1>5. CASE \E fresh \in BOOLEAN : Reconnect(fresh) BY <1>5, ReconnectInv
<1>6. CASE BootstrapExpires \/ Remove \/ UserRevokes \/ Crash
  BY <1>6, SourceChangesInv, UserRevokesInv, CrashInv
<1>7. CASE UNCHANGED vars
  <2> USE <1>7 DEF vars
  <2>1. TypeOK' BY Types, TypesNext DEF IInv
  <2> QED
    BY <2>1 DEF IInv, Issued, Registered, Undelivered, RefusedForGood, Accounted, Usable,
                Awaiting, Active, Arrived, Current
<1> QED BY <1>1, <1>2, <1>3, <1>4, <1>5, <1>6, <1>7 DEF Next

(* A refusal marks the stored source only if the provider does not accept  *)
(* the stored token any more; nothing else marks it.                       *)
LEMMA StepMarksRightly ==
  ASSUME IInv, [Next]_vars, source.status = "healthy", source'.status = "reauth-required"
  PROVE  source.token \notin good
<1>0. source \in Source BY Types DEF IInv
<1>1. PICK c \in Caller : MarkReauth(c)
  <2>1. source'.status # source.status OBVIOUS
  <2>2. ASSUME NEW c \in Caller, Rotate(c) PROVE source'.status = source.status
    <3>1. source' \in {source, [source EXCEPT !.version = @ + 1, !.token = call[c].new]}
      BY <2>2 DEF Rotate
    <3> QED BY <1>0, <3>1 DEF Source
  <2>3. ASSUME Remove \/ BootstrapExpires
        PROVE  source'.status \in {"removed", source.status}
    BY ONLY <1>0, <2>3 DEF Remove, BootstrapExpires, Source
  <2>4. ASSUME NEW fresh \in BOOLEAN, Reconnect(fresh) PROVE source'.status = "healthy"
    BY ONLY <2>4 DEF Reconnect
  <2>5. ASSUME NEW c \in Caller,
               \/ LoadContext(c) \/ Get(c) \/ ForceRefresh(c) \/ ReadCached(c) \/ Resume(c)
               \/ RefreshFails(c) \/ SameToken(c) \/ StoreFails(c) \/ CacheAccess(c)
               \/ ProviderStep(c)
        PROVE  source' = source
    BY <2>5 DEF LoadContext, Get, ForceRefresh, ReadCached, Resume, RefreshFails, SameToken, StoreFails,
                CacheAccess,
                ProviderStep, ProviderKeeps, ProviderRotates, ProviderRefuses, ProviderFails
  <2>6. ASSUME (\E v \in Version : CacheExpires(v)) \/ UserRevokes \/ Crash \/ UNCHANGED vars
        PROVE  source' = source
    BY <2>6 DEF CacheExpires, UserRevokes, Crash, vars
  <2> QED BY <2>1, <2>2, <2>3, <2>5, <2>6, <2>4 DEF Next, Continuation
<1>2. Arrived(c, "invalid_grant") /\ Current(c) /\ source.status # "removed"
  <2>1. Arrived(c, "invalid_grant") BY <1>1 DEF MarkReauth
  <2>2. source' # source OBVIOUS
  <2> QED BY <1>1, <2>1, <2>2 DEF MarkReauth
<1> QED BY <1>2, RefusedIsLost

(* The broker keeps its invariant, whatever the callers, the provider, the *)
(* administrator and crashes do.                                           *)
THEOREM Invariance == Spec => []IInv
BY InitInv, StepInv, PTL DEF Spec

(* The state of the broker keeps its shape: no token or version is beyond  *)
(* what provider and administrator have issued.                            *)
THEOREM TypeCorrect == Spec => []TypeOK
<1>1. IInv => TypeOK BY DEF IInv
<1> QED BY Invariance, <1>1, PTL

(* refreshDeduplicated: a version is never refreshed twice at a time, in   *)
(* whatever way the callers came to it.                                    *)
THEOREM RefreshesOnce == Spec => []OneRefreshPerVersion
<1>1. IInv => OneRefreshPerVersion BY DEF IInv, Registered, OneRefreshPerVersion, Awaiting
<1> QED BY Invariance, <1>1, PTL

(* markReauth and rotateRefreshToken compare versions and tokens: the      *)
(* stored token stays of use unless one of the listed accidents happened.  *)
THEOREM StaysUsable == Spec => []Usable
<1>1. IInv => Usable BY DEF IInv
<1> QED BY Invariance, <1>1, PTL

(* markReauth: only a refusal of the stored token marks the source.        *)
THEOREM MarksRightly == Spec => MarkedRightly
<1>1. IInv /\ [Next]_vars =>
        [source.status = "healthy" /\ source'.status = "reauth-required" => source.token \notin good]_vars
  BY StepMarksRightly
<1> QED BY Invariance, <1>1, PTL DEF Spec, MarkedRightly
=============================================================================
