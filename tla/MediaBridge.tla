----------------------------- MODULE MediaBridge ------------------------------
(***************************************************************************)
(* The bridge that lets a media element play a Google Drive file: the page  *)
(* (google-media-bridge.ts) keeps a grant with the bearer token of each     *)
(* session, and the service worker (google-media-worker-runtime.ts) adds    *)
(* the token to the requests of the element.  They talk by messages, which  *)
(* arrive in the order they were posted.                                    *)
(*                                                                         *)
(* The worker checks the fingerprint of a grant asynchronously, so a revoke *)
(* can be handled while a grant posted before it is still being checked;    *)
(* the browser may also stop the worker whenever it has nothing to do, and  *)
(* it then starts again with empty tables and asks the page for the grants  *)
(* it needs.                                                               *)
(*                                                                         *)
(* One page and one worker object.  A URL is the file of a session; two     *)
(* sessions may be for one file, as when a token was renewed.               *)
(***************************************************************************)
EXTENDS Integers, SequencesExt

CONSTANTS Grant, urlOf,     \* the sessions of the page and their files
          Element,          \* requests of media elements
          MaxGrants,        \* MAX_GRANTS
          MaxMutations,     \* MAX_MESSAGE_MUTATIONS
          RestartBound      \* how often the worker is stopped

VARIABLES session,          \* grants and pending of the page: session -> its state
          told,             \* sessions whose LiveGrant.workers holds the worker
          seen,             \* evidenceBySession: sessions with a delivery result
          outdated,         \* sessions whose expiresAtEpoch has passed
          toWorker, toPage, \* messages under way
          stored,           \* the worker's grants, oldest first
          checking,         \* grant messages whose fingerprint is awaited
          mutations,        \* messageMutations: sessions, oldest stamp first
          request,          \* element request -> how far handleFetch is
          restarts

bridgeVars == <<session, told, seen, outdated, toWorker, toPage, stored, checking, mutations,
                request, restarts>>

Url == {urlOf[s] : s \in Grant}
Held(s) == session[s] \in {"pending", "live"}
Idle == [pc |-> "idle", url |-> CHOOSE u \in Url : TRUE, by |-> CHOOSE s \in Grant : TRUE]

Init ==
  /\ session = [s \in Grant |-> "unused"]
  /\ told = {} /\ seen = {} /\ outdated = {}
  /\ toWorker = <<>> /\ toPage = <<>>
  /\ stored = <<>> /\ checking = {} /\ mutations = <<>>
  /\ request = [e \in Element |-> Idle]
  /\ restarts = 0

pageVars == <<session, told, seen>>
workerVars == <<stored, checking, mutations, request, restarts>>

-------------------------------------------------------------------------------
(* The page.                                                               *)

GrantMessage(s, e) == [type |-> "grant", session |-> s, for |-> e]
Revoke(s) == [type |-> "revoke", session |-> s, for |-> "page"]

(* prepare: the grant is stored and posted, and the acknowledgement awaited *)
Prepare(s) ==
  /\ session[s] = "unused" /\ s \notin outdated
  /\ session' = [session EXCEPT ![s] = "pending"]
  /\ toWorker' = Append(toWorker, GrantMessage(s, "page"))
  /\ UNCHANGED <<told, seen, outdated, toPage, workerVars>>

(* failPending (timeout, abort or release while pending), release and       *)
(* expireGrants: the grants are forgotten and every worker that was told    *)
(* one has to forget it; a pending one was posted although the worker has   *)
(* not answered.  What the worker is told of a grant follows.               *)
Revoked(gone) ==
  LET tell == SetToSeq({s \in gone : session[s] = "pending" \/ s \in told})
  IN [n \in DOMAIN tell |-> Revoke(tell[n])]

Forget(gone, replies) ==
  /\ session' = [s \in Grant |-> IF s \in gone THEN "gone" ELSE session[s]]
  /\ told' = (told \ gone) \cup {m.session : m \in Range(replies)}
  /\ seen' = seen \ gone
  /\ toWorker' = toWorker \o Revoked(gone) \o replies

Release(s) ==
  /\ Held(s)
  /\ Forget({s}, <<>>)
  /\ UNCHANGED <<outdated, toPage, workerVars>>

(* grant-ack: only the acknowledgement of the page's own request counts.    *)
Acknowledged(m) ==
  LET waits == m.for = "page" /\ session[m.session] = "pending"
  IN /\ session' = [session EXCEPT ![m.session] = IF waits THEN "live" ELSE @]
     /\ told' = IF waits THEN told \cup {m.session} ELSE told
     /\ UNCHANGED <<seen, toWorker>>

(* grant-request: expired grants are dropped first; the worker is told the  *)
(* grant of a session for the file it asks for, live or still pending.      *)
LookedUp(m) ==
  LET late == {s \in Grant : Held(s) /\ s \in outdated}
      found == {s \in Grant : Held(s) /\ s \notin late /\ urlOf[s] = m.url}
  IN \E replies \in IF found = {} THEN {<<>>} ELSE {<<GrantMessage(s, m.for)>> : s \in found} :
       Forget(late, replies)

(* result: evidence of a delivery, accepted of a worker that was told.      *)
Reported(m) ==
  /\ seen' = IF Held(m.session) /\ m.session \in told THEN seen \cup {m.session} ELSE seen
  /\ UNCHANGED <<session, told, toWorker>>

PageReceives ==
  /\ toPage # <<>>
  /\ toPage' = Tail(toPage)
  /\ LET m == Head(toPage)
     IN \/ m.type = "ack" /\ Acknowledged(m)
        \/ m.type = "lookup" /\ LookedUp(m)
        \/ m.type = "result" /\ Reported(m)
  /\ UNCHANGED <<outdated, workerVars>>

-------------------------------------------------------------------------------
(* The worker.                                                             *)

Post(m) == toPage' = Append(toPage, m)
(* The elements not in gone keep their order: n of them up to the n-th.     *)
Without(q, gone) ==
  LET left == {i \in DOMAIN q : q[i] \notin gone}
      upTo(i) == Cardinality({j \in left : j <= i})
  IN [n \in 1 .. Cardinality(left) |-> q[CHOOSE i \in left : upTo(i) = n]]
(* Mutant: the oldest gives way one too late.                               *)
NewestAndOneMore(q, n) == SubSeq(q, IF Len(q) > n + 1 THEN Len(q) - n ELSE 1, Len(q))

Newest(q, n) == SubSeq(q, IF Len(q) > n THEN Len(q) - n + 1 ELSE 1, Len(q))

(* advanceMessageMutation: a message about a session makes the checks of    *)
(* earlier ones stale, and so does the pruning of the oldest stamps.        *)
Stamped(s) == Newest(Append(Without(mutations, {s}), s), MaxMutations)

(* Mutant: a later message about the session changes nothing.               *)
StillCurrentAlways(c, s) == c.current

StillCurrent(c, s) == c.current /\ c.session # s /\ c.session \in Range(Stamped(s))
Rechecked(s) == {[c EXCEPT !.current = StillCurrent(c, s)] : c \in checking}

WorkerReceives ==
  /\ toWorker # <<>>
  /\ toWorker' = Tail(toWorker)
  /\ LET m == Head(toWorker)
         s == m.session
     IN \/ /\ m.type = "revoke"
           /\ mutations' = Stamped(s)
           /\ checking' = Rechecked(s)
           /\ stored' = Without(stored, {s})
        \/ /\ m.type = "grant" /\ s \in outdated
           /\ UNCHANGED <<mutations, checking, stored>>
        \/ /\ m.type = "grant" /\ s \notin outdated
           /\ mutations' = Stamped(s)
           /\ checking' = Rechecked(s) \cup {[session |-> s, for |-> m.for, current |-> TRUE]}
           /\ UNCHANGED stored
  /\ UNCHANGED <<pageVars, outdated, toPage, request, restarts>>

(* The fingerprint of a grant is known: it is stored unless a later message *)
(* about its session was handled meanwhile, the oldest beyond MAX_GRANTS    *)
(* give way, the page is told, and the request that asked for it goes on.   *)
Checked(c) ==
  /\ c \in checking
  /\ checking' = checking \ {c}
  /\ IF c.current
     THEN /\ stored' = Newest(Append(Without(stored, outdated \cup {c.session}), c.session),
                              MaxGrants)
          /\ Post([type |-> "ack", session |-> c.session, for |-> c.for])
          /\ request' = [e \in Element |->
                           IF e = c.for /\ request[e].pc = "asking"
                           THEN [request[e] EXCEPT !.pc = "granted"] ELSE request[e]]
     ELSE UNCHANGED <<stored, toPage, request>>
  /\ UNCHANGED <<pageVars, outdated, toWorker, mutations, restarts>>

Unchecked(c) ==
  /\ c \in checking
  /\ checking' = checking \ {c}
  /\ UNCHANGED <<pageVars, outdated, toWorker, toPage, stored, mutations, request, restarts>>

(* handleFetch: a request for a file goes out with the token of the first   *)
(* grant stored for it, or the page is asked for one and the table looked   *)
(* at again when it has come.                                              *)
For(u, q) == {n \in DOMAIN q : urlOf[q[n]] = u}
First(u, q) == q[CHOOSE n \in For(u, q) : \A k \in For(u, q) : n <= k]
SentOr(e, u, q, otherwise) ==
  request' = [request EXCEPT ![e] =
    IF For(u, q) = {} THEN [pc |-> otherwise, url |-> u, by |-> @.by]
                      ELSE [pc |-> "sent", url |-> u, by |-> First(u, q)]]

Fetch(e, u) ==
  LET kept == Without(stored, outdated)
  IN /\ request[e].pc = "idle"
     /\ stored' = kept
     /\ SentOr(e, u, kept, "asking")
     /\ IF For(u, kept) = {}
        THEN Post([type |-> "lookup", for |-> e, url |-> u])
        ELSE UNCHANGED toPage
     /\ UNCHANGED <<pageVars, outdated, toWorker, checking, mutations, restarts>>

Granted(e) ==
  /\ request[e].pc = "granted"
  /\ SentOr(e, request[e].url, stored, "done")
  /\ UNCHANGED <<pageVars, outdated, toWorker, toPage, stored, checking, mutations, restarts>>

NotGranted(e) ==
  /\ request[e].pc = "asking"
  /\ request' = [request EXCEPT ![e].pc = "done"]
  /\ UNCHANGED <<pageVars, outdated, toWorker, toPage, stored, checking, mutations, restarts>>

(* The provider answered, or not: the result names the session it was sent  *)
(* for, which may have been revoked since.                                  *)
Delivered(e) ==
  /\ request[e].pc = "sent"
  /\ request' = [request EXCEPT ![e].pc = "done"]
  /\ Post([type |-> "result", session |-> request[e].by, for |-> e])
  /\ UNCHANGED <<pageVars, outdated, toWorker, stored, checking, mutations, restarts>>

(* The browser stops the worker between events.                             *)
Stop ==
  /\ restarts < RestartBound
  /\ checking = {} /\ \A e \in Element : request[e].pc \in {"idle", "done"}
  /\ stored' = <<>> /\ mutations' = <<>>
  /\ restarts' = restarts + 1
  /\ UNCHANGED <<pageVars, outdated, toWorker, toPage, checking, request>>

(* Time: the expiry of a session passes.                                    *)
Expire(s) ==
  /\ Held(s) /\ s \notin outdated
  /\ outdated' = outdated \cup {s}
  /\ UNCHANGED <<pageVars, toWorker, toPage, workerVars>>

Next ==
  \/ \E s \in Grant : Prepare(s) \/ Release(s) \/ Expire(s)
  \/ PageReceives \/ WorkerReceives \/ Stop
  \/ \E c \in checking : Checked(c) \/ Unchecked(c)
  \/ \E e \in Element : \/ \E u \in Url : Fetch(e, u)
                        \/ Granted(e) \/ NotGranted(e) \/ Delivered(e)

Spec == Init /\ [][Next]_bridgeVars

-------------------------------------------------------------------------------
Asker == Element \cup {"page"}
Message(types) == [type : types, session : Grant, for : Asker]

(* Every variable keeps the shape the code gives it; the worker holds no    *)
(* more grants and stamps than its limits.                                  *)
TypeOK ==
  /\ session \in [Grant -> {"unused", "pending", "live", "gone"}]
  /\ told \subseteq Grant /\ seen \subseteq told /\ outdated \subseteq Grant
  /\ Range(toWorker) \subseteq Message({"grant", "revoke"})
  /\ \A m \in Range(toPage) : m.type \in {"ack", "lookup", "result"} /\ m.for \in Asker
  /\ Range(stored) \subseteq Grant /\ IsInjective(stored) /\ Len(stored) <= MaxGrants
  /\ Range(mutations) \subseteq Grant /\ IsInjective(mutations)
  /\ Len(mutations) <= MaxMutations
  /\ checking \subseteq [session : Grant, for : Asker, current : BOOLEAN]
  /\ request \in [Element -> 
       [pc : {"idle", "asking", "granted", "sent", "done"}, url : Url, by : Grant]]

(* A token the page has disposed of does not stay in the worker: once the   *)
(* messages are handled and the checks are over, every grant stored there   *)
(* that has not expired is one the page still holds, although a revoke may  *)
(* overtake the check of the grant it revokes, and although the page may    *)
(* give up before the worker has answered.                                  *)
RevokedStaysRevoked ==
  toWorker = <<>> /\ checking = {} =>
    \A s \in Range(stored) : Held(s) \/ s \in outdated
===============================================================================
