------------------------ MODULE TranscodeCoordinator ------------------------
(***************************************************************************)
(* The transcode coordinator of the server (transcode/coordinator.ts): who *)
(* holds the one-TV lease, which window is being encoded, which windows    *)
(* are queued, and which HTTP requests wait for a segment.                 *)
(*                                                                         *)
(* The server is one JavaScript event loop, so a step of this module is    *)
(* the code between two awaits.  Synchronous helpers are operators from a  *)
(* coordinator state to a coordinator state and compose as the calls do.   *)
(* Whatever may happen during an await is an action of its own: other      *)
(* requests, expiry, a client that goes away, the encoder, shutdown.       *)
(*                                                                         *)
(* Outside the module: the catalog and files of the transcode cache and    *)
(* the FFmpeg/FFprobe children, modelled only by what the coordinator sees *)
(* of them (module TranscodeCache has the detail).                         *)
(***************************************************************************)
EXTENDS Integers, Sequences, FiniteSets

CONSTANTS
  Binding,            \* authorised (device, media item) pairs
  Device, deviceOf,   \* the device of a binding
  Key, keyOf,         \* the cache key of a binding (cacheIdentity)
  SessionId,          \* ids createId can return, each used at most once
  Call,               \* concurrent createSession calls
  Request,            \* concurrent segment() calls
  SegmentCount,       \* segments of an item
  SegmentsPerWindow,
  LeaseTicks,         \* ticks without renewal after which a lease expires
  Fragile,            \* <<key, segment>> files the disk may damage
  Failing,            \* segment() calls of which a lookup may throw
  NoSession, NoJob, NoCall, NoBinding, NoKey

ASSUME BindingAssumption ==
  /\ deviceOf \in [Binding -> Device]
  /\ keyOf \in [Binding -> Key]
ASSUME BoundAssumption ==
  /\ SegmentCount \in Nat \ {0}
  /\ SegmentsPerWindow \in Nat \ {0}
  /\ LeaseTicks \in Nat \ {0}
  /\ Fragile \subseteq Key \X (0 .. SegmentCount - 1)
  /\ Failing \subseteq Request

Segment == 0 .. SegmentCount - 1
WindowOf(i) == i \div SegmentsPerWindow
WindowCount == WindowOf(SegmentCount - 1) + 1
Window == 0 .. WindowCount - 1
WindowSegments(w) == {i \in Segment : WindowOf(i) = w}

(* Life of a window job: queued, then runJob up to each of its awaits.     *)
(* "running" is an FFmpeg child at work, "draining" the promotions and the *)
(* catalog check after it exits, "reporting" rejectMissingWindowWaiters,   *)
(* "reported" its return to runJob.                                        *)
JobPhase == {"queued", "capacity", "starting", "running", "draining", "reporting", "reported"}

Job == [session : SessionId, key : Key, window : Window, demand : BOOLEAN,
        aborted : BOOLEAN, phase : JobPhase, offset : 0 .. SegmentsPerWindow]

ASSUME SentinelAssumption ==
  /\ NoSession \notin SessionId
  /\ NoJob \notin Job
  /\ NoCall \notin Call
  /\ NoBinding \notin Binding
  /\ NoKey \notin Key

VARIABLES
  co,        \* the closure state of the coordinator
  binding,   \* binding of each session ever created
  call,      \* createSession calls: where each one is suspended
  req,       \* segment() calls: where each one is suspended
  assets,    \* keys with an asset row in the catalog
  records,   \* <<key, segment>> rows in the catalog
  intact,    \* <<key, segment>> whose file matches its row
  complete,  \* <<key, window>> marked complete in the catalog
  notices,   \* onSegmentPromoted callbacks whose lookup has not returned
  victim,    \* the key whose directory ensureCapacity is deleting
  children   \* FFmpeg and FFprobe processes alive

vars == <<co, binding, call, req, assets, records, intact, complete, notices, victim, children>>
cacheVars == <<assets, records, intact, complete, victim>>

IdleCall == [pc |-> "idle", binding |-> NoBinding]
IdleRequest == [pc |-> "idle", session |-> NoSession, segment |-> 0,
                found |-> FALSE, gone |-> FALSE]

CoordinatorState ==
  [live : SUBSET SessionId, lease : SessionId \cup {NoSession},
   age : [SessionId -> 0 .. LeaseTicks], failed : SUBSET SessionId,
   waiters : SUBSET Request, queue : Seq(Job), keys : SUBSET (Key \X Window),
   prefetch : Job \cup {NoJob}, job : Job \cup {NoJob},
   probe : Call \cup {NoCall}, closed : {"open", "closing", "closed"}]

TypeOK ==
  /\ co \in CoordinatorState
  /\ binding \in [SessionId -> Binding \cup {NoBinding}]
  /\ call \in [Call -> [pc : {"idle", "replacing", "probing"},
                        binding : Binding \cup {NoBinding}]]
  /\ req \in [Request -> [pc : {"idle", "lookup", "recheck", "parked", "failed"},
                          session : SessionId \cup {NoSession},
                          segment : Segment, found : BOOLEAN, gone : BOOLEAN]]
  /\ assets \in SUBSET Key
  /\ records \in SUBSET (Key \X Segment)
  /\ intact \in SUBSET (Key \X Segment)
  /\ complete \in SUBSET (Key \X Window)
  /\ notices \in SUBSET (Key \X Segment)
  /\ victim \in Key \cup {NoKey}
  /\ children \in Nat

Init ==
  /\ co = [live |-> {}, lease |-> NoSession, age |-> [s \in SessionId |-> 0],
           failed |-> {}, waiters |-> {}, queue |-> <<>>, keys |-> {},
           prefetch |-> NoJob, job |-> NoJob, probe |-> NoCall, closed |-> "open"]
  /\ binding = [s \in SessionId |-> NoBinding]
  /\ call = [c \in Call |-> IdleCall]
  /\ req = [r \in Request |-> IdleRequest]
  /\ assets = {} /\ records = {} /\ intact = {} /\ complete = {}
  /\ notices = {} /\ victim = NoKey
  /\ children = 0

-----------------------------------------------------------------------------
(* The synchronous helpers, as functions of the coordinator state c.       *)

SessionKey(s) == keyOf[binding[s]]
JobKey(j) == <<j.key, j.window>>
Target(r) == <<SessionKey(req[r].session), req[r].segment>>

SegmentWaiters(c, k, i) == {r \in c.waiters : Target(r) = <<k, i>>}
WindowWaiters(c, k, w) ==
  {r \in c.waiters : Target(r)[1] = k /\ WindowOf(Target(r)[2]) = w}

OnWindow(j, k, w) == j # NoJob /\ j.key = k /\ j.window = w
OwnedBy(j, X) == j # NoJob /\ j.session \in X
Abort(c) == [c EXCEPT !.job.aborted = TRUE]

QueuedJob(s, w, isDemand) ==
  [session |-> s, key |-> SessionKey(s), window |-> w, demand |-> isDemand,
   aborted |-> FALSE, phase |-> "queued", offset |-> 0]

(* The jobs of q whose session is not in X, in order.                      *)
Kept(q, X) == {i \in DOMAIN q : q[i].session \notin X}
Without(q, X) ==
  [n \in 1 .. Cardinality(Kept(q, X)) |->
     q[CHOOSE i \in Kept(q, X) : Cardinality({j \in Kept(q, X) : j <= i}) = n]]

(* expireSession for every session of X.  The session is gone from the map *)
(* before rejectSessionWaiters looks it up, so only the waiters of the     *)
(* window the session is encoding are rejected, and queuedKeys keeps the   *)
(* keys of the jobs taken out of the queue.                                *)
Expire(c, X) ==
  [c EXCEPT
     !.live = @ \ X,
     !.lease = IF @ \in X THEN NoSession ELSE @,
     !.age = [s \in SessionId |-> IF s \in X THEN 0 ELSE @[s]],
     !.failed = @ \ X,
     !.queue = Without(@, X),
     !.prefetch = IF OwnedBy(@, X) THEN NoJob ELSE @,
     !.waiters = IF OwnedBy(c.job, X)
                   THEN @ \ WindowWaiters(c, c.job.key, c.job.window) ELSE @,
     !.job = IF OwnedBy(@, X) THEN [@ EXCEPT !.aborted = TRUE] ELSE @]

Lapsed == {s \in co.live : co.age[s] >= LeaseTicks}
Swept == Expire(co, Lapsed)
Renew(c, s) == [c EXCEPT !.age[s] = 0]

(* What keeps startNextJob from starting a job.                            *)
BlockedWithoutProbe(c) == c.closed # "open" \/ c.job # NoJob      \* mutant
BlockedWithoutClosed(c) == c.job # NoJob \/ c.probe # NoCall      \* mutant
Blocked(c) == c.closed # "open" \/ c.job # NoJob \/ c.probe # NoCall

(* startNextJob: jobs of dead sessions are dropped on the way, with their  *)
(* keys; the first job of a live session starts.                           *)
StartNext(c) ==
  LET line   == IF c.prefetch = NoJob THEN c.queue ELSE Append(c.queue, c.prefetch)
      usable == {i \in DOMAIN line : line[i].session \in c.live}
      turn   == IF usable = {} THEN Len(line)
                ELSE CHOOSE i \in usable : \A n \in usable : i <= n
      next   == IF usable = {} THEN NoJob ELSE [line[turn] EXCEPT !.phase = "capacity"]
  IN  IF Blocked(c) THEN c
      ELSE [c EXCEPT
              !.queue = SubSeq(@, turn + 1, Len(@)),
              !.prefetch = IF turn > Len(c.queue) THEN NoJob ELSE @,
              !.keys = @ \ {JobKey(line[i]) : i \in 1 .. turn},
              !.job = next]

NeverQueued(c, k, w) == FALSE                                     \* mutant
AlreadyQueued(c, k, w) == <<k, w>> \in c.keys

(* enqueueDemand: join the active window, join a queued key, or queue a    *)
(* job (the waiting prefetch of that window goes to the front) and abort a *)
(* prefetch nobody waits for.                                              *)
Enqueue(c, s, w) ==
  LET k       == SessionKey(s)
      idle    == c.job # NoJob /\ ~c.job.demand
                   /\ WindowWaiters(c, c.job.key, c.job.window) = {}
      yielded == IF idle THEN Abort(c) ELSE c
      added   == IF OnWindow(c.prefetch, k, w)
                 THEN [yielded EXCEPT !.queue = <<[c.prefetch EXCEPT !.demand = TRUE]>> \o @,
                                      !.prefetch = NoJob]
                 ELSE [yielded EXCEPT !.queue = Append(@, QueuedJob(s, w, TRUE))]
  IN  IF OnWindow(c.job, k, w) THEN [c EXCEPT !.job.demand = TRUE]
      ELSE IF AlreadyQueued(c, k, w) THEN c
      ELSE StartNext([added EXCEPT !.keys = @ \cup {<<k, w>>}])

(* queuePrefetch: only for an idle queue, and a window that exists and is  *)
(* not complete.                                                           *)
BeyondEndByOne(w) == w > WindowCount                              \* mutant
BeyondEnd(w) == w >= WindowCount

QueuePrefetch(c, s, w) ==
  LET k == SessionKey(s)
  IN  IF \/ c.closed # "open"
         \/ BeyondEnd(w)
         \/ <<k, w>> \in complete
         \/ c.queue # <<>>
         \/ c.prefetch # NoJob
         \/ OnWindow(c.job, k, w)
      THEN c
      ELSE StartNext([c EXCEPT !.prefetch = QueuedJob(s, w, FALSE)])

(* resolveSegmentWaiters, rejectWindowWaiters: the waiters leave the map.  *)
ResolveSegment(c, k, i) == [c EXCEPT !.waiters = @ \ SegmentWaiters(c, k, i)]
RejectWindow(c, k, w) == [c EXCEPT !.waiters = @ \ WindowWaiters(c, k, w)]

CancelObsolete(c) ==
  IF c.job # NoJob /\ WindowWaiters(c, c.job.key, c.job.window) = {} THEN Abort(c) ELSE c

(* The finally block of runJob: free the slot, prefetch the next window    *)
(* after a completed demand, start the next job.                           *)
FinishJob(c, done) ==
  LET j     == c.job
      freed == [c EXCEPT !.job = NoJob]
  IN  StartNext(IF done /\ j.demand /\ j.session \in c.live
                  THEN QueuePrefetch(freed, j.session, j.window + 1)
                  ELSE freed)

(* The catch block of runJob followed by the finally block.                *)
FailJobSilently(c, done) == FinishJob(c, done)                    \* mutant
FailJob(c, done) ==
  LET noted == IF ~c.job.aborted /\ c.job.session \in c.live
               THEN [c EXCEPT !.failed = @ \cup {c.job.session}] ELSE c
  IN  FinishJob(RejectWindow(noted, c.job.key, c.job.window), done)

-----------------------------------------------------------------------------
(* Sessions.                                                               *)

(* Time passes: every live session comes one tick closer to expiresAt.     *)
Tick ==
  /\ \E s \in co.live : co.age[s] < LeaseTicks
  /\ co' = [co EXCEPT !.age = [s \in SessionId |->
              IF s \in co.live /\ @[s] < LeaseTicks THEN @[s] + 1 ELSE @[s]]]
  /\ UNCHANGED <<binding, call, req, cacheVars, notices, children>>

(* The five-second timer; diagnostic() sweeps in the same way.             *)
Sweep ==
  /\ Lapsed # {}
  /\ co' = Swept
  /\ UNCHANGED <<binding, call, req, cacheVars, notices, children>>

(* session() and heartbeat(): sweep, then renew.                           *)
Heartbeat(s) ==
  /\ s \in co.live \ Lapsed
  /\ co' = Renew(Swept, s)
  /\ UNCHANGED <<binding, call, req, cacheVars, notices, children>>

(* The end of createSession: a session is opened and takes the lease,      *)
(* whoever holds it by now.                                                *)
OpenSession(c, b) ==
  \E s \in SessionId :
    /\ binding[s] = NoBinding
    /\ binding' = [binding EXCEPT ![s] = b]
    /\ co' = [c EXCEPT !.live = @ \cup {s}, !.lease = s, !.age[s] = 0]

(* createSession from line 132 on: use the catalogued asset, refuse while  *)
(* the encoder is taken, or start a probe.                                 *)
Acquire(x, b, c) ==
  \/ /\ keyOf[b] \in assets
     /\ OpenSession(c, b)
     /\ call' = [call EXCEPT ![x] = IdleCall]
     /\ UNCHANGED children
  \/ /\ keyOf[b] \notin assets
     /\ c.job # NoJob \/ c.probe # NoCall
     /\ co' = c
     /\ call' = [call EXCEPT ![x] = IdleCall]
     /\ UNCHANGED <<binding, children>>
  \/ /\ keyOf[b] \notin assets
     /\ c.job = NoJob /\ c.probe = NoCall
     /\ co' = [c EXCEPT !.probe = x]
     /\ call' = [call EXCEPT ![x] = [pc |-> "probing", binding |-> b]]
     /\ children' = children + 1
     /\ UNCHANGED binding

CreateSession(x, b) ==
  /\ co.closed = "open"
  /\ call[x].pc = "idle"
  /\ LET c == Swept
         holder == c.lease
     IN  \/ /\ holder = NoSession
            /\ Acquire(x, b, c)
         \/ /\ holder # NoSession
            /\ deviceOf[binding[holder]] # deviceOf[b]
            /\ co' = c
            /\ UNCHANGED <<binding, call, children>>
         \/ /\ holder # NoSession
            /\ binding[holder] = b
            /\ co' = Renew(c, holder)
            /\ UNCHANGED <<binding, call, children>>
         \/ /\ holder # NoSession
            /\ deviceOf[binding[holder]] = deviceOf[b]
            /\ binding[holder] # b
            /\ co' = Expire(c, {holder})
            /\ call' = [call EXCEPT ![x] = [pc |-> "replacing", binding |-> b]]
            /\ UNCHANGED <<binding, children>>
  /\ UNCHANGED <<req, cacheVars, notices>>

(* createSession resumes after awaiting the expiry of the replaced session *)
Replaced(x) ==
  /\ call[x].pc = "replacing"
  /\ Acquire(x, call[x].binding, co)
  /\ UNCHANGED <<req, cacheVars, notices>>

(* FFprobe answers.  close() aborts the probe it finds, but an answer that *)
(* is already on its way, or a probe started by a call close() did not     *)
(* see, still opens a session.                                             *)
ProbeSucceeds(x) ==
  /\ call[x].pc = "probing"
  /\ assets' = assets \cup {keyOf[call[x].binding]}
  /\ OpenSession([co EXCEPT !.probe = NoCall], call[x].binding)
  /\ call' = [call EXCEPT ![x] = IdleCall]
  /\ children' = children - 1
  /\ UNCHANGED <<req, records, intact, complete, notices, victim>>

ProbeFailsAndStays(x) ==                                          \* mutant
  /\ call[x].pc = "probing"
  /\ call' = [call EXCEPT ![x] = IdleCall]
  /\ children' = children - 1
  /\ UNCHANGED <<co, binding, req, cacheVars, notices>>

ProbeFails(x) ==
  /\ call[x].pc = "probing"
  /\ co' = [co EXCEPT !.probe = NoCall]
  /\ call' = [call EXCEPT ![x] = IdleCall]
  /\ children' = children - 1
  /\ UNCHANGED <<binding, req, cacheVars, notices>>

Release(s) ==
  /\ s \in co.live
  /\ co' = Expire(co, {s})
  /\ UNCHANGED <<binding, call, req, cacheVars, notices, children>>

PlaybackFailure(s) ==
  /\ s \in co.live \cap co.failed
  /\ co' = [co EXCEPT !.failed = @ \ {s}]
  /\ UNCHANGED <<binding, call, req, cacheVars, notices, children>>

(* close() up to its await, and its return once the active job has ended.  *)
Close ==
  /\ co.closed = "open"
  /\ co' = [co EXCEPT
              !.closed = "closing", !.waiters = {}, !.queue = <<>>, !.keys = {},
              !.prefetch = NoJob, !.live = {}, !.failed = {},
              !.lease = NoSession, !.age = [s \in SessionId |-> 0],
              !.job = IF @ = NoJob THEN NoJob ELSE [@ EXCEPT !.aborted = TRUE]]
  /\ UNCHANGED <<binding, call, req, cacheVars, notices, children>>

CloseReturns ==
  /\ co.closed = "closing"
  /\ co.job = NoJob
  /\ co' = [co EXCEPT !.closed = "closed"]
  /\ UNCHANGED <<binding, call, req, cacheVars, notices, children>>

-----------------------------------------------------------------------------
(* Segment requests.                                                       *)

(* A lookup reads the row when it is called and validates the file until   *)
(* it returns; a row whose file does not match is deleted with its window  *)
(* mark (cache.loadSegment).                                               *)
Valid(t, found) == found /\ t \in intact
InvalidatedKeepingMark(t, found) ==                               \* mutant
  /\ records' = IF found /\ t \notin intact THEN records \ {t} ELSE records
  /\ complete' = complete
Invalidated(t, found) ==
  /\ records' = IF found /\ t \notin intact THEN records \ {t} ELSE records
  /\ complete' = IF found /\ t \in records \ intact
                 THEN complete \ {<<t[1], WindowOf(t[2])>>} ELSE complete

SegmentCall(r, s, i) ==
  /\ req[r].pc = "idle"
  /\ s \in co.live \ Lapsed
  /\ co' = Renew(Swept, s)
  /\ req' = [req EXCEPT ![r] = [pc |-> "lookup", session |-> s, segment |-> i,
                                found |-> <<SessionKey(s), i>> \in records, gone |-> FALSE]]
  /\ UNCHANGED <<binding, call, cacheVars, notices, children>>

(* The first lookup returns: answer from the cache, or register a waiter   *)
(* and look again.                                                         *)
FirstLookup(r) ==
  /\ req[r].pc = "lookup"
  /\ Invalidated(Target(r), req[r].found)
  /\ IF Valid(Target(r), req[r].found)
     THEN /\ req' = [req EXCEPT ![r] = IdleRequest]
          /\ UNCHANGED co
     ELSE /\ co' = [co EXCEPT !.waiters = @ \cup {r}]
          /\ req' = [req EXCEPT ![r].pc = "recheck", ![r].found = Target(r) \in records']
  /\ UNCHANGED <<binding, call, assets, intact, notices, victim, children>>

SecondLookupSkipped(r) ==                                         \* mutant
  /\ req[r].pc = "recheck"
  /\ co' = Enqueue(co, req[r].session, WindowOf(req[r].segment))
  /\ req' = [req EXCEPT ![r].pc = "parked", ![r].found = FALSE]
  /\ UNCHANGED <<binding, call, cacheVars, notices, children>>

SecondLookup(r) ==
  LET s == req[r].session
      i == req[r].segment
  IN  /\ req[r].pc = "recheck"
      /\ Invalidated(Target(r), req[r].found)
      /\ co' = IF Valid(Target(r), req[r].found)
               THEN ResolveSegment(co, SessionKey(s), i)
               ELSE Enqueue(co, s, WindowOf(i))
      /\ req' = [req EXCEPT ![r].pc = "parked", ![r].found = FALSE]
      /\ UNCHANGED <<binding, call, assets, intact, notices, victim, children>>

(* A lookup throws (a row cannot be read, a file not be removed), and so   *)
(* does segment(): the waiter of a second lookup stays, without a demand.  *)
LookupFails(r) ==
  /\ r \in Failing
  /\ req[r].pc \in {"lookup", "recheck"}
  /\ req' = [req EXCEPT ![r] = IF @.pc = "lookup" THEN IdleRequest ELSE [@ EXCEPT !.pc = "failed"]]
  /\ UNCHANGED <<co, binding, call, cacheVars, notices, children>>

(* The promise of a waiter that was resolved or rejected reaches its       *)
(* caller, unless that has been told of a failed lookup.                   *)
Respond(r) ==
  /\ req[r].pc \in {"parked", "failed"}
  /\ r \notin co.waiters
  /\ req' = [req EXCEPT ![r] = IdleRequest]
  /\ UNCHANGED <<co, binding, call, cacheVars, notices, children>>

(* The client goes away.  A waiter that is already registered is rejected; *)
(* a request still in its first lookup adds its listener to a signal that  *)
(* has fired, and its waiter stays.                                        *)
Disconnect(r) ==
  /\ ~req[r].gone
  /\ \/ /\ req[r].pc = "lookup"
        /\ req' = [req EXCEPT ![r].gone = TRUE]
        /\ UNCHANGED co
     \/ /\ r \in co.waiters
        /\ co' = CancelObsolete([co EXCEPT !.waiters = @ \ {r}])
        /\ UNCHANGED req
  /\ UNCHANGED <<binding, call, cacheVars, notices, children>>

-----------------------------------------------------------------------------
(* The active job and the window encoder it runs.                          *)

Running(phase) == co.job # NoJob /\ co.job.phase = phase
JobTo(phase) == [co EXCEPT !.job.phase = phase]

(* ensureCapacity(0) returns; encode() marks the window partial and awaits *)
(* its staging directory.  It never looks at an abort that has happened.   *)
CapacityEnsured ==
  /\ Running("capacity")
  /\ victim = NoKey
  /\ co.job.key \in assets
  /\ co' = JobTo("starting")
  /\ complete' = complete \ {JobKey(co.job)}
  /\ UNCHANGED <<binding, call, req, assets, records, intact, notices, victim, children>>

EncoderSpawns ==
  /\ Running("starting")
  /\ co' = JobTo("running")
  /\ children' = children + 1
  /\ UNCHANGED <<binding, call, req, cacheVars, notices>>

(* FFmpeg exits: done, failed, timed out, or killed by the abort.          *)
EncoderExits ==
  /\ Running("running")
  /\ co' = JobTo("draining")
  /\ children' = children - 1
  /\ UNCHANGED <<binding, call, req, cacheVars, notices>>

Promote(i) ==
  /\ Running("running") \/ Running("draining")
  /\ victim = NoKey
  /\ i \in WindowSegments(co.job.window)
  /\ co.job.key \in assets
  /\ records' = records \cup {<<co.job.key, i>>}
  /\ intact' = intact \cup {<<co.job.key, i>>}
  /\ notices' = notices \cup {<<co.job.key, i>>}
  /\ UNCHANGED <<co, binding, call, req, assets, complete, victim, children>>

(* The lookup onSegmentPromoted started returns.                           *)
NoticeLands(t) ==
  /\ t \in notices
  /\ notices' = notices \ {t}
  /\ Invalidated(t, TRUE)
  /\ co' = IF t \in intact THEN ResolveSegment(co, t[1], t[2]) ELSE co
  /\ UNCHANGED <<binding, call, req, assets, intact, victim, children>>

EncodeCompletes ==
  /\ Running("draining")
  /\ victim = NoKey
  /\ \A i \in WindowSegments(co.job.window) : <<co.job.key, i>> \in records
  /\ complete' = complete \cup {JobKey(co.job)}
  /\ co' = JobTo("reporting")
  /\ UNCHANGED <<binding, call, req, assets, records, intact, notices, victim, children>>

EncodeFails ==
  /\ Running("capacity") \/ Running("starting") \/ Running("draining")
  /\ victim = NoKey
  /\ co' = FailJob(co, FALSE)
  /\ complete' = IF co.job.phase = "draining" THEN complete \ {JobKey(co.job)} ELSE complete
  /\ UNCHANGED <<binding, call, req, assets, records, intact, notices, victim, children>>

(* One turn of the loop of rejectMissingWindowWaiters; the last turn       *)
(* rejects who is left.                                                    *)
ReportSegment ==
  LET k == co.job.key
      w == co.job.window
      i == w * SegmentsPerWindow + co.job.offset
      t == <<k, i>>
      c == IF t \in records \cap intact THEN ResolveSegment(co, k, i) ELSE co
  IN  /\ Running("reporting")
      /\ Invalidated(t, t \in records)
      /\ co' = IF co.job.offset + 1 < SegmentsPerWindow
               THEN [c EXCEPT !.job.offset = @ + 1]
               ELSE [RejectWindow(c, k, w) EXCEPT !.job.phase = "reported"]
      /\ UNCHANGED <<binding, call, req, assets, intact, notices, victim, children>>

(* encode() cannot remove its staging directory after all, or a lookup of  *)
(* the report throws, when the job counts as completed already.            *)
ReportFails ==
  /\ Running("reporting")
  /\ \E completed \in BOOLEAN :
       /\ completed \/ co.job.offset = 0
       /\ co' = FailJob(co, completed)
  /\ UNCHANGED <<binding, call, req, cacheVars, notices, children>>

(* runJob goes on after the report, to its finally block.                  *)
JobEnds ==
  /\ Running("reported")
  /\ co' = FinishJob(co, TRUE)
  /\ UNCHANGED <<binding, call, req, cacheVars, notices, children>>

-----------------------------------------------------------------------------
(* The cache between two looks: a file is damaged, or ensureCapacity makes *)
(* room for the active job.  It picks an asset nobody pins (a session pins *)
(* its asset while it is live, a job the asset it encodes), deletes the    *)
(* directory, and then the row of the asset, with its segments and marks.  *)

Damage(t) ==
  /\ t \in intact \cap Fragile
  /\ intact' = intact \ {t}
  /\ UNCHANGED <<co, binding, call, req, assets, records, complete, notices, victim, children>>

Pinned(k) == (co.job # NoJob /\ co.job.key = k) \/ \E s \in co.live : SessionKey(s) = k

EvictFiles(k) ==
  /\ Running("capacity") \/ Running("running") \/ Running("draining")
  /\ victim = NoKey
  /\ k \in assets
  /\ ~Pinned(k)
  /\ victim' = k
  /\ intact' = {t \in intact : t[1] # k}
  /\ UNCHANGED <<co, binding, call, req, assets, records, complete, notices, children>>

EvictRow ==
  /\ victim # NoKey
  /\ victim' = NoKey
  /\ assets' = assets \ {victim}
  /\ records' = {t \in records : t[1] # victim}
  /\ complete' = {t \in complete : t[1] # victim}
  /\ UNCHANGED <<co, binding, call, req, intact, notices, children>>

-----------------------------------------------------------------------------
JobStep ==
  \/ CapacityEnsured \/ EncoderSpawns \/ EncoderExits
  \/ EncodeCompletes \/ EncodeFails \/ ReportSegment \/ ReportFails \/ JobEnds \/ EvictRow

RequestStep(r) == FirstLookup(r) \/ SecondLookup(r) \/ Respond(r)
CallStep(x) == Replaced(x) \/ ProbeSucceeds(x) \/ ProbeFails(x)

Next ==
  \/ Tick \/ Sweep \/ Close \/ CloseReturns \/ JobStep
  \/ \E s \in SessionId : Heartbeat(s) \/ Release(s) \/ PlaybackFailure(s)
  \/ \E x \in Call : CallStep(x)
  \/ \E x \in Call, b \in Binding : CreateSession(x, b)
  \/ \E r \in Request : RequestStep(r) \/ LookupFails(r) \/ Disconnect(r)
  \/ \E r \in Request, s \in SessionId, i \in Segment : SegmentCall(r, s, i)
  \/ \E i \in Segment : Promote(i)
  \/ \E t \in Key \X Segment : NoticeLands(t) \/ Damage(t)
  \/ \E k \in Key : EvictFiles(k)

Spec == Init /\ [][Next]_vars

(* The event loop runs every continuation, and the process runner ends     *)
(* every child: on its own exit, on abort, or on its timeout.              *)
Fairness ==
  /\ WF_vars(JobStep)
  /\ WF_vars(CloseReturns)
  /\ \A r \in Request : WF_vars(RequestStep(r))
  /\ \A x \in Call : WF_vars(CallStep(x))
  /\ \A t \in Key \X Segment : WF_vars(NoticeLands(t))

FairSpec == Spec /\ Fairness

-----------------------------------------------------------------------------
(* Properties.                                                             *)

(* Every session in use has a binding, and only registered requests wait.  *)
SessionsExist ==
  /\ \A s \in co.live : binding[s] \in Binding
  /\ \A r \in Request : req[r].pc # "idle" => /\ req[r].session \in SessionId
                                              /\ binding[req[r].session] \in Binding
  /\ \A r \in co.waiters : req[r].pc \in {"recheck", "parked", "failed"}

(* activeProbe is the probe of the one call that awaits FFprobe.           *)
ProbeHasCall ==
  \A x \in Call : /\ call[x].pc = "probing" <=> co.probe = x
                  /\ call[x].pc # "idle" => call[x].binding \in Binding

(* Each child belongs to the active job or to the active probe, and they   *)
(* exclude each other.                                                     *)
ChildrenCounted ==
  /\ co.job = NoJob \/ co.probe = NoCall
  /\ children = IF co.probe # NoCall \/ Running("running") THEN 1 ELSE 0

(* The inductive invariant behind OneChild: children are accounted for     *)
(* across every await between creating a job or probe and its end.         *)
Inv == TypeOK /\ SessionsExist /\ ProbeHasCall /\ ChildrenCounted

(* At most one FFmpeg or FFprobe child is alive, whatever sessions are     *)
(* opened, expired, replaced or released while jobs and probes wind down   *)
(* (activeJob and activeProbe exclude each other across every await).      *)
OneChild == children <= 1

(* The windows being encoded or queued are pairwise different: concurrent  *)
(* demands for a window share one job, and a window is never encoded twice *)
(* because a session was replaced while it was queued (queuedKeys).        *)
OneJobPerWindow ==
  /\ \A m, n \in DOMAIN co.queue : JobKey(co.queue[m]) = JobKey(co.queue[n]) => m = n
  /\ \A n \in DOMAIN co.queue :
       /\ JobKey(co.queue[n]) \in co.keys
       /\ co.job # NoJob => JobKey(co.queue[n]) # JobKey(co.job)

(* No wake-up is lost between a miss and the registration of the waiter: a *)
(* parked waiter whose segment can be served has a promotion callback on   *)
(* its way to it (the second lookup of segment()).                         *)
NoLostWakeup ==
  \A r \in co.waiters :
    req[r].pc = "parked" /\ Target(r) \in records \cap intact => Target(r) \in notices

(* A window marked complete has a row for each of its segments, whatever   *)
(* lookups invalidate and evictions delete while it is encoded: the        *)
(* prefetch decision of queuePrefetch relies on the mark.                  *)
CompleteIsWhole ==
  \A t \in complete : \A i \in WindowSegments(t[2]) : <<t[1], i>> \in records

(* Once close() has begun no further window job starts, although segment() *)
(* and createSession() calls suspended before it still run to their end.   *)
NoJobAfterClose ==
  [][co.closed # "open" /\ co.job = NoJob => co'.job = NoJob]_vars

(* Whoever waits for a segment of the window being encoded gets an answer: *)
(* the segment or a failure, however the job ends.  Not so if its file is  *)
(* damaged between the two lookups, see the README.                        *)
ActiveDemandSettles ==
  \A r \in Request :
    (r \in co.waiters /\ OnWindow(co.job, Target(r)[1], WindowOf(Target(r)[2])))
      ~> (r \notin co.waiters \/ req[r].pc = "failed")

(* "Release/Back on TV A and confirm TV B can subsequently acquire": when  *)
(* the lease is given up the encoder becomes free, unless a session is     *)
(* opened first.                                                           *)
EncoderIsReleased ==
  (co.live = {}) ~> (co.live # {} \/ (co.job = NoJob /\ co.probe = NoCall))

(* "Active, generating, and currently served assets are protected": the    *)
(* asset of a live session stays in the catalog.  Violated, see the        *)
(* README: a session opened while the directory is being deleted pins an   *)
(* asset whose row is then deleted all the same.                           *)
LiveAssetIsKept == \A s \in co.live : SessionKey(s) \in assets

(* "Cloudframe allows one active TV transcode lease": violated, see the    *)
(* README; a session opened while another device's probe runs stays live   *)
(* next to the session the probe opens.                                    *)
OneLiveLease == Cardinality(co.live) <= 1

(* "TRANSCODE_FIRST_SEGMENT_TIMEOUT_SECONDS bounds the first demanded      *)
(* segment": that timer runs inside the job of the window, so the demand   *)
(* of a connected client with a live session is bounded only if its window *)
(* is being encoded, or is queued behind a job or probe whose end starts   *)
(* the queue.  Violated in two ways, see the README.                       *)
DemandIsBounded ==
  \A r \in co.waiters :
    LET k == Target(r)[1]
        w == WindowOf(Target(r)[2])
    IN  co.closed = "open" /\ req[r].pc = "parked" /\ ~req[r].gone /\ req[r].session \in co.live
          => \/ OnWindow(co.job, k, w)
             \/ /\ \E n \in DOMAIN co.queue : JobKey(co.queue[n]) = <<k, w>>
                /\ co.job # NoJob \/ co.probe # NoCall

(* "terminates FFmpeg/FFprobe": once close() has begun no child process is *)
(* started.  Violated, see the README.                                     *)
NoSpawnAfterClose == [][co.closed # "open" => children' <= children]_vars
=============================================================================
