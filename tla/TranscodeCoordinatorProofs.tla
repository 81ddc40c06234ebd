---------------------- MODULE TranscodeCoordinatorProofs ----------------------
(***************************************************************************)
(* Theorems about the transcode coordinator, for every set of bindings,    *)
(* sessions, calls and requests and every length of an item.               *)
(*                                                                         *)
(* The coordinator's helpers are operators on its state c.  Each has a     *)
(* lemma that says that it keeps the state well typed (CoordinatorState)   *)
(* and what it does to the two fields that own a child process, job and    *)
(* probe (SameWork, StartsIdle).  The proof that a step keeps Inv uses the *)
(* lemmas and does not look into the helpers again.                        *)
(***************************************************************************)
EXTENDS TranscodeCoordinator, TLAPS, FiniteSetTheorems, SequenceTheorems,
        WellFoundedInduction

(* A segment of the item lies in one of its windows (the division of       *)
(* segment() by segmentsPerWindow).                                        *)
LEMMA WindowOfSegment == \A i \in Segment : WindowOf(i) \in Window
<1>1. \A a, b, n \in Nat : n > 0 /\ a <= b => a \div n \in Nat /\ a \div n <= b \div n
  BY SMT
<1> QED BY <1>1, BoundAssumption DEF Segment, WindowOf, Window, WindowCount

(* A non-empty set of natural numbers has a least element.                 *)
LEMMA LeastNatural ==
  ASSUME NEW S \in SUBSET Nat, S # {}
  PROVE  \E i \in S : \A n \in S : i <= n
<1> DEFINE R == {ss \in Nat \X Nat : ss[1] < ss[2]}
<1>1. \A x, y \in Nat : <<x, y>> \in R <=> x < y
  OBVIOUS
<1>2. IsWellFoundedOn(R, Nat)
  BY NatLessThanWellFounded, Zenon DEF OpToRel
<1> HIDE DEF R
<1>3. PICK i \in S : \A n \in S : ~ (<<n, i>> \in R)
  BY <1>2, WFMin
<1>4. ASSUME NEW n \in S PROVE i <= n
  <2>1. n \in Nat /\ i \in Nat
    OBVIOUS
  <2>2. <<n, i>> \in R <=> n < i
    BY <1>1, <2>1
  <2> QED BY <1>3, <2>1, <2>2
<1> QED BY <1>4

(* The kept positions of a sequence are finitely many.                     *)
LEMMA KeptFinite ==
  ASSUME NEW q \in Seq(Job), NEW X
  PROVE  /\ Kept(q, X) \subseteq 1 .. Len(q)
         /\ IsFiniteSet(Kept(q, X))
         /\ Cardinality(Kept(q, X)) \in Nat
<1>1. Len(q) \in Nat /\ DOMAIN q = 1 .. Len(q)
  BY LenProperties
<1>2. Kept(q, X) \subseteq 1 .. Len(q)
  BY <1>1 DEF Kept
<1>3. IsFiniteSet(1 .. Len(q))
  BY <1>1, FS_Interval
<1>4. IsFiniteSet(Kept(q, X))
  BY <1>2, <1>3, FS_Subset
<1> QED BY <1>2, <1>4, FS_CardinalityType

(* The rank of a kept position is unique, so every rank is reached.        *)
LEMMA KeptRank ==
  ASSUME NEW q \in Seq(Job), NEW X, NEW n \in 1 .. Cardinality(Kept(q, X))
  PROVE  \E i \in Kept(q, X) : Cardinality({j \in Kept(q, X) : j <= i}) = n
<1> DEFINE K == Kept(q, X)
           Below(i) == {j \in K : j <= i}
           rank == [i \in K |-> Cardinality(Below(i))]
<1>1. K \subseteq 1 .. Len(q) /\ IsFiniteSet(K) /\ Cardinality(K) \in Nat
  BY KeptFinite
<1>2. \A i \in K : Below(i) \subseteq K /\ IsFiniteSet(Below(i))
  BY <1>1, FS_Subset
<1>3. \A i \in K : Cardinality(Below(i)) \in 1 .. Cardinality(K)
  <2> TAKE i \in K
  <2>1. Cardinality(Below(i)) \in Nat /\ Cardinality(Below(i)) <= Cardinality(K)
    BY <1>1, <1>2, FS_Subset, FS_CardinalityType
  <2>2. i \in Below(i)
    BY <1>1
  <2>3. Cardinality(Below(i)) # 0
    BY <1>2, <2>2, FS_EmptySet
  <2> QED BY <1>1, <2>1, <2>3
<1>4. \A i, j \in K : i < j => Cardinality(Below(i)) # Cardinality(Below(j))
  <2> SUFFICES ASSUME NEW i \in K, NEW j \in K, i < j
               PROVE  Cardinality(Below(i)) # Cardinality(Below(j))
    OBVIOUS
  <2>1. Below(i) \subseteq Below(j) /\ j \in Below(j) /\ j \notin Below(i)
    BY <1>1
  <2> QED BY <1>2, <2>1, FS_Subset
<1>5. rank \in Injection(K, 1 .. Cardinality(K))
  <2>1. rank \in [K -> 1 .. Cardinality(K)]
    BY <1>3
  <2>2. ASSUME NEW i \in K, NEW j \in K, rank[i] = rank[j]
        PROVE  i = j
    <3>1. Cardinality(Below(i)) = Cardinality(Below(j))
      BY <2>2
    <3>2. i \in Int /\ j \in Int
      BY <1>1
    <3> HIDE DEF Below
    <3> QED BY <1>4, <3>1, <3>2
  <2> QED BY <2>1, <2>2 DEF Injection, IsInjective
<1>6. rank \in Surjection(K, 1 .. Cardinality(K))
  <2>1. IsFiniteSet(1 .. Cardinality(K)) /\ Cardinality(1 .. Cardinality(K)) = Cardinality(K)
    BY <1>1, FS_Interval
  <2> HIDE DEF K, rank
  <2> QED BY <1>5, <2>1, FS_Injection
<1> QED BY <1>6 DEF Surjection

(* Removing the jobs of some sessions leaves a sequence of jobs.           *)
LEMMA WithoutType ==
  ASSUME NEW q \in Seq(Job), NEW X
  PROVE  Without(q, X) \in Seq(Job)
<1> DEFINE K == Kept(q, X)
           Pos(n) == CHOOSE i \in K : Cardinality({j \in K : j <= i}) = n
<1>1. \A n \in 1 .. Cardinality(K) : Pos(n) \in K
  BY KeptRank
<1>2. \A i \in K : q[i] \in Job
  BY ElementOfSeq DEF Kept
<1>3. Cardinality(K) \in Nat
  BY KeptFinite
<1>4. Without(q, X) = [n \in 1 .. Cardinality(K) |-> q[Pos(n)]]
  BY DEF Without
<1> HIDE DEF K, Pos
<1> QED BY <1>1, <1>2, <1>3, <1>4, SeqDef

-----------------------------------------------------------------------------
(* What a helper that starts no job does to the coordinator.               *)
Keeps(c, d) ==
  /\ d \in CoordinatorState
  /\ d.live \subseteq c.live
  /\ d.waiters \subseteq c.waiters
  /\ d.probe = c.probe
  /\ d.closed = c.closed
  /\ d.job = NoJob <=> c.job = NoJob
  /\ c.job # NoJob => d.job.phase = c.job.phase

(* What a helper that may start one does: a job starts only on an idle     *)
(* coordinator that is open.                                               *)
Starts(c, d) ==
  /\ d \in CoordinatorState
  /\ d.live \subseteq c.live
  /\ d.waiters \subseteq c.waiters
  /\ d.probe = c.probe
  /\ d.closed = c.closed
  /\ IF c.job = NoJob
       THEN d.job # NoJob => c.probe = NoCall /\ c.closed = "open" /\ d.job.phase = "capacity"
       ELSE d.job # NoJob /\ d.job.phase = c.job.phase

(* An aborted job is a job.                                                *)
LEMMA JobAborted ==
  ASSUME NEW j \in Job
  PROVE  /\ [j EXCEPT !.aborted = TRUE] \in Job
         /\ [j EXCEPT !.demand = TRUE] \in Job
         /\ [j EXCEPT !.aborted = TRUE].phase = j.phase
         /\ [j EXCEPT !.demand = TRUE].phase = j.phase
BY DEF Job

(* Setting the job to another one of the same phase.                       *)
LEMMA JobKeeps ==
  ASSUME NEW c \in CoordinatorState, c.job # NoJob, NEW j \in Job, j.phase = c.job.phase
  PROVE  Keeps(c, [c EXCEPT !.job = j])
<1> DEFINE d == [c EXCEPT !.job = j]
<1>1. d \in CoordinatorState
  BY DEF CoordinatorState
<1>2. d.live = c.live /\ d.waiters = c.waiters /\ d.probe = c.probe /\ d.closed = c.closed
      /\ d.job = j
  BY DEF CoordinatorState
<1>3. j # NoJob
  BY SentinelAssumption
<1> HIDE DEF d
<1>4. Keeps(c, d)
  BY <1>1, <1>2, <1>3 DEF Keeps
<1> QED BY <1>4 DEF d

(* abort(): the job keeps its phase.                                       *)
LEMMA AbortKeeps ==
  ASSUME NEW c \in CoordinatorState, c.job # NoJob
  PROVE  Keeps(c, Abort(c))
<1>1. c.job \in Job
  BY DEF CoordinatorState
<1>2. Abort(c) = [c EXCEPT !.job = [c.job EXCEPT !.aborted = TRUE]]
  BY DEF Abort
<1> QED BY <1>1, <1>2, JobAborted, JobKeeps

(* expireSession starts nothing and stops nothing: the job of an expired   *)
(* session is aborted, and stays active until the encoder is done.         *)
LEMMA ExpireKeeps ==
  ASSUME NEW c \in CoordinatorState, NEW X
  PROVE  Keeps(c, Expire(c, X))
<1> DEFINE d == Expire(c, X)
           live == c.live \ X
           lease == IF c.lease \in X THEN NoSession ELSE c.lease
           age == [s \in SessionId |-> IF s \in X THEN 0 ELSE c.age[s]]
           failed == c.failed \ X
           queue == Without(c.queue, X)
           prefetch == IF OwnedBy(c.prefetch, X) THEN NoJob ELSE c.prefetch
           waiters == IF OwnedBy(c.job, X)
                        THEN c.waiters \ WindowWaiters(c, c.job.key, c.job.window)
                        ELSE c.waiters
           job == IF OwnedBy(c.job, X) THEN [c.job EXCEPT !.aborted = TRUE] ELSE c.job
<1>1. d = [c EXCEPT !.live = live, !.lease = lease, !.age = age, !.failed = failed,
                    !.queue = queue, !.prefetch = prefetch, !.waiters = waiters, !.job = job]
  BY DEF Expire
<1>2. OwnedBy(c.job, X) => c.job \in Job
  BY DEF CoordinatorState, OwnedBy
<1>3. job \in Job \cup {NoJob}
  BY <1>2, JobAborted DEF CoordinatorState
<1>4. (job = NoJob <=> c.job = NoJob) /\ (c.job # NoJob => job.phase = c.job.phase)
  BY <1>2, JobAborted, SentinelAssumption DEF OwnedBy
<1>5. age \in [SessionId -> 0 .. LeaseTicks]
  BY BoundAssumption DEF CoordinatorState
<1>6. queue \in Seq(Job)
  BY WithoutType DEF CoordinatorState
<1>7. prefetch \in Job \cup {NoJob}
  BY DEF CoordinatorState
<1>8. live \subseteq c.live /\ waiters \subseteq c.waiters
  OBVIOUS
<1>9. lease \in SessionId \cup {NoSession}
  BY DEF CoordinatorState
<1>10. live \in SUBSET SessionId
  BY DEF CoordinatorState
<1>11. failed \in SUBSET SessionId
  BY DEF CoordinatorState
<1>12. waiters \in SUBSET Request
  BY DEF CoordinatorState
<1> HIDE DEF d, live, lease, age, failed, queue, prefetch, waiters, job
<1>13. d \in CoordinatorState
  BY <1>1, <1>3, <1>5, <1>6, <1>7, <1>9, <1>10, <1>11, <1>12 DEF CoordinatorState
<1>14. /\ d.live = live /\ d.waiters = waiters /\ d.job = job
       /\ d.probe = c.probe /\ d.closed = c.closed
  BY <1>1, <1>13 DEF CoordinatorState
<1>15. Keeps(c, d)
  BY <1>4, <1>8, <1>13, <1>14 DEF Keeps
<1> QED BY <1>15 DEF d

(* renew(): only the age of one lease changes.                             *)
LEMMA RenewKeeps ==
  ASSUME NEW c \in CoordinatorState, NEW s \in SessionId
  PROVE  Keeps(c, Renew(c, s))
<1> DEFINE age == [c.age EXCEPT ![s] = 0]
           d == [c EXCEPT !.age = age]
<1>1. Renew(c, s) = d
  BY DEF Renew
<1>2. age \in [SessionId -> 0 .. LeaseTicks]
  BY BoundAssumption DEF CoordinatorState
<1> HIDE DEF age
<1>3. d \in CoordinatorState
  BY <1>2 DEF CoordinatorState
<1>4. /\ d.live = c.live /\ d.waiters = c.waiters /\ d.job = c.job
      /\ d.probe = c.probe /\ d.closed = c.closed
  BY DEF CoordinatorState
<1> HIDE DEF d
<1> QED BY <1>1, <1>3, <1>4 DEF Keeps

(* Waiters that leave the map change nothing else.                         *)
LEMMA WaitersKeep ==
  ASSUME NEW c \in CoordinatorState, NEW k, NEW i
  PROVE  Keeps(c, ResolveSegment(c, k, i)) /\ Keeps(c, RejectWindow(c, k, i))
<1>1. Keeps(c, ResolveSegment(c, k, i))
  BY DEF ResolveSegment, SegmentWaiters, CoordinatorState, Keeps
<1>2. Keeps(c, RejectWindow(c, k, i))
  BY DEF RejectWindow, WindowWaiters, CoordinatorState, Keeps
<1> QED BY <1>1, <1>2

(* cancelObsoleteActiveJob aborts the job or does nothing.                 *)
LEMMA CancelKeeps ==
  ASSUME NEW c \in CoordinatorState
  PROVE  Keeps(c, CancelObsolete(c))
BY AbortKeeps DEF CancelObsolete, Keeps

(* startNextJob: the job it starts comes from the queue or the prefetch,   *)
(* and it starts on an idle coordinator only.                              *)
LEMMA StartNextStarts ==
  ASSUME NEW c \in CoordinatorState
  PROVE  Starts(c, StartNext(c))
<1>1. CASE Blocked(c)
  <2>1. StartNext(c) = c
    BY <1>1 DEF StartNext
  <2> QED BY <2>1 DEF Starts, CoordinatorState
<1>2. CASE ~Blocked(c)
  <2> DEFINE line == IF c.prefetch = NoJob THEN c.queue ELSE Append(c.queue, c.prefetch)
             usable == {i \in DOMAIN line : line[i].session \in c.live}
             turn == IF usable = {} THEN Len(line)
                     ELSE CHOOSE i \in usable : \A n \in usable : i <= n
             next == IF usable = {} THEN NoJob ELSE [line[turn] EXCEPT !.phase = "capacity"]
             queue == SubSeq(c.queue, turn + 1, Len(c.queue))
             prefetch == IF turn > Len(c.queue) THEN NoJob ELSE c.prefetch
             keys == c.keys \ {JobKey(line[i]) : i \in 1 .. turn}
             d == StartNext(c)
  <2>1. d = [c EXCEPT !.queue = queue, !.prefetch = prefetch, !.keys = keys, !.job = next]
    BY <1>2 DEF StartNext
  <2>2. c.queue \in Seq(Job) /\ c.prefetch \in Job \cup {NoJob} /\ c.keys \in SUBSET (Key \X Window)
    BY DEF CoordinatorState
  <2>3. line \in Seq(Job)
    BY <2>2, AppendProperties
  <2> HIDE DEF line
  <2>4. DOMAIN line = 1 .. Len(line) /\ Len(line) \in Nat /\ Len(c.queue) \in Nat
    BY <2>2, <2>3, LenProperties
  <2>5. usable # {} => turn \in usable
    <3> SUFFICES ASSUME usable # {} PROVE turn \in usable
      OBVIOUS
    <3>1. usable \in SUBSET Nat
      BY <2>4
    <3>2. \E i \in usable : \A n \in usable : i <= n
      BY <3>1, LeastNatural
    <3> QED BY <3>2
  <2>6. turn \in Nat
    BY <2>4, <2>5
  <2>7. next \in Job \cup {NoJob} /\ (next # NoJob => next.phase = "capacity")
    <3>1. CASE usable = {}
      BY <3>1
    <3>2. CASE usable # {}
      <4>1. line[turn] \in Job
        BY <2>3, <2>4, <2>5, <3>2, ElementOfSeq
      <4> QED BY <3>2, <4>1 DEF Job, JobPhase
    <3> QED BY <3>1, <3>2
  <2> HIDE DEF usable, turn, next
  <2>8. queue \in Seq(Job)
    <3>1. \A i \in turn + 1 .. Len(c.queue) : c.queue[i] \in Job
      BY <2>2, <2>4, <2>6, ElementOfSeq
    <3> QED BY <2>4, <2>6, <3>1, SubSeqProperties
  <2>9. prefetch \in Job \cup {NoJob}
    BY <2>2
  <2>10. keys \in SUBSET (Key \X Window)
    BY <2>2
  <2>11. next \in Job \cup {NoJob}
    BY <2>7
  <2> HIDE DEF queue, prefetch, keys, d
  <2>12. d \in CoordinatorState
    BY <2>1, <2>8, <2>9, <2>10, <2>11 DEF CoordinatorState
  <2>13. /\ d.live = c.live /\ d.waiters = c.waiters /\ d.job = next
         /\ d.probe = c.probe /\ d.closed = c.closed
    BY <2>1, <2>12 DEF CoordinatorState
  <2>14. Starts(c, d)
    BY <1>2, <2>7, <2>12, <2>13 DEF Starts, Blocked
  <2> QED BY <2>14 DEF d
<1> QED BY <1>1, <1>2

(* A helper that keeps the job, after which one may start.                 *)
LEMMA KeepsStarts ==
  ASSUME NEW c, NEW d, NEW e, Keeps(c, d), Starts(d, e)
  PROVE  Starts(c, e)
BY DEF Keeps, Starts

(* Two helpers that may each start a job.                                  *)
LEMMA StartsStarts ==
  ASSUME NEW c, NEW d, NEW e, Starts(c, d), Starts(d, e)
  PROVE  Starts(c, e)
BY DEF Starts

(* makeJob returns a job.                                                  *)
LEMMA QueuedJobType ==
  ASSUME NEW s \in SessionId, binding[s] \in Binding, NEW w \in Window, NEW b \in BOOLEAN
  PROVE  QueuedJob(s, w, b) \in Job
BY BindingAssumption, BoundAssumption DEF QueuedJob, Job, JobPhase, SessionKey

LEMMA KeysType ==
  ASSUME NEW c \in CoordinatorState, NEW k \in SUBSET (Key \X Window)
  PROVE  [c EXCEPT !.keys = k] \in CoordinatorState
  BY DEF CoordinatorState

(* enqueueDemand, whichever way it takes.                                  *)
LEMMA EnqueueStarts ==
  ASSUME NEW c \in CoordinatorState,
         NEW s \in SessionId, binding[s] \in Binding, NEW w \in Window
  PROVE  Starts(c, Enqueue(c, s, w))
<1> DEFINE k == SessionKey(s)
           idle == c.job # NoJob /\ ~c.job.demand /\ WindowWaiters(c, c.job.key, c.job.window) = {}
           yielded == IF idle THEN Abort(c) ELSE c
           early == <<[c.prefetch EXCEPT !.demand = TRUE]>> \o yielded.queue
           late == Append(yielded.queue, QueuedJob(s, w, TRUE))
           first == [yielded EXCEPT !.queue = early, !.prefetch = NoJob]
           last == [yielded EXCEPT !.queue = late]
           added == IF OnWindow(c.prefetch, k, w) THEN first ELSE last
           queued == [added EXCEPT !.keys = added.keys \cup {<<k, w>>}]
<1>1. CASE OnWindow(c.job, k, w)
  <2>1. c.job \in Job /\ c.job # NoJob
    BY <1>1 DEF OnWindow, CoordinatorState
  <2>2. Enqueue(c, s, w) = [c EXCEPT !.job = [c.job EXCEPT !.demand = TRUE]]
    BY <1>1 DEF Enqueue
  <2>3. Keeps(c, Enqueue(c, s, w))
    BY <2>1, <2>2, JobAborted, JobKeeps
  <2> QED BY <2>1, <2>3 DEF Keeps, Starts
<1>2. CASE ~OnWindow(c.job, k, w) /\ AlreadyQueued(c, k, w)
  <2>1. Enqueue(c, s, w) = c
    BY <1>2 DEF Enqueue
  <2> QED BY <2>1 DEF Starts, CoordinatorState
<1>3. CASE ~OnWindow(c.job, k, w) /\ ~AlreadyQueued(c, k, w)
  <2>1. Enqueue(c, s, w) = StartNext(queued)
    BY <1>3 DEF Enqueue
  <2>2. Keeps(c, yielded)
    <3>1. CASE idle
      BY <3>1, AbortKeeps
    <3>2. CASE ~idle
      BY <3>2 DEF Keeps, CoordinatorState
    <3> QED BY <3>1, <3>2
  <2>3. k \in Key
    BY BindingAssumption DEF SessionKey
  <2> HIDE DEF k, idle, yielded
  <2>4. yielded \in CoordinatorState
    BY <2>2 DEF Keeps
  <2>5. Keeps(yielded, first) \/ ~OnWindow(c.prefetch, k, w)
    <3> SUFFICES ASSUME OnWindow(c.prefetch, k, w) PROVE Keeps(yielded, first)
      OBVIOUS
    <3>1. [c.prefetch EXCEPT !.demand = TRUE] \in Job
      BY JobAborted DEF OnWindow, CoordinatorState
    <3>2. <<[c.prefetch EXCEPT !.demand = TRUE]>> \in Seq(Job)
      BY <3>1
    <3>3. yielded.queue \in Seq(Job)
      BY <2>4 DEF CoordinatorState
    <3>4. early \in Seq(Job)
      BY <3>2, <3>3, ConcatProperties
    <3> HIDE DEF early
    <3>5. first \in CoordinatorState
      BY <2>4, <3>4 DEF CoordinatorState
    <3>6. first.live = yielded.live /\ first.waiters = yielded.waiters /\ first.job = yielded.job
          /\ first.probe = yielded.probe /\ first.closed = yielded.closed
      BY <2>4 DEF CoordinatorState
    <3> QED BY <3>5, <3>6 DEF Keeps
  <2>6. Keeps(yielded, last)
    <3>1. late \in Seq(Job)
      BY <2>4, QueuedJobType, AppendProperties DEF CoordinatorState
    <3> HIDE DEF late
    <3>2. last \in CoordinatorState
      BY <2>4, <3>1 DEF CoordinatorState
    <3>3. last.live = yielded.live /\ last.waiters = yielded.waiters /\ last.job = yielded.job
          /\ last.probe = yielded.probe /\ last.closed = yielded.closed
      BY <2>4 DEF CoordinatorState
    <3> QED BY <3>2, <3>3 DEF Keeps
  <2>7. Keeps(yielded, added)
    BY <2>5, <2>6
  <2> HIDE DEF added
  <2>8. added \in CoordinatorState
    BY <2>7 DEF Keeps
  <2>9. Keeps(added, queued)
    <3> DEFINE keys == added.keys \cup {<<k, w>>}
    <3>1. keys \in SUBSET (Key \X Window)
      BY <2>3, <2>8 DEF CoordinatorState
    <3> HIDE DEF keys
    <3>2. [added EXCEPT !.keys = keys] \in CoordinatorState
      BY <2>8, <3>1, KeysType
    <3> DEFINE d == [added EXCEPT !.keys = keys]
    <3>3. d.live = added.live /\ d.waiters = added.waiters /\ d.job = added.job
          /\ d.probe = added.probe /\ d.closed = added.closed
      BY <2>8 DEF CoordinatorState
    <3> HIDE DEF d
    <3>4. Keeps(added, d)
      BY <3>2, <3>3 DEF Keeps, d
    <3> QED BY <3>4 DEF d, keys
  <2>10. queued \in CoordinatorState
    BY <2>9 DEF Keeps
  <2> HIDE DEF queued
  <2>11. Starts(queued, StartNext(queued))
    BY <2>10, StartNextStarts
  <2>12. Starts(added, StartNext(queued))
    BY <2>9, <2>11, KeepsStarts
  <2>13. Starts(yielded, StartNext(queued))
    BY <2>7, <2>12, KeepsStarts
  <2>14. Starts(c, StartNext(queued))
    BY <2>2, <2>13, KeepsStarts
  <2> QED BY <2>1, <2>14
<1> QED BY <1>1, <1>2, <1>3

(* queuePrefetch: a window beyond the end is refused.                      *)
LEMMA QueuePrefetchStarts ==
  ASSUME NEW c \in CoordinatorState,
         NEW s \in SessionId, binding[s] \in Binding, NEW w \in Nat
  PROVE  Starts(c, QueuePrefetch(c, s, w))
<1>1. CASE QueuePrefetch(c, s, w) = c
  BY <1>1 DEF Starts, CoordinatorState
<1>2. CASE QueuePrefetch(c, s, w) # c
  <2> DEFINE j == QueuedJob(s, w, FALSE)
             d == [c EXCEPT !.prefetch = j]
  <2>1. QueuePrefetch(c, s, w) = StartNext(d) /\ ~BeyondEnd(w)
    BY <1>2 DEF QueuePrefetch
  <2>2. WindowCount \in Nat
    <3>1. SegmentCount - 1 \in Segment
      BY BoundAssumption DEF Segment
    <3>2. \A a, n \in Nat : n > 0 => a \div n \in Nat
      BY SMT
    <3> QED BY <3>1, <3>2, BoundAssumption DEF WindowCount, WindowOf, Segment
  <2>3. w \in Window
    BY <2>1, <2>2 DEF BeyondEnd, Window
  <2>4. j \in Job
    BY <2>3, QueuedJobType
  <2> HIDE DEF j
  <2>5. d \in CoordinatorState
    BY <2>4 DEF CoordinatorState
  <2>6. d.live = c.live /\ d.waiters = c.waiters /\ d.job = c.job
        /\ d.probe = c.probe /\ d.closed = c.closed
    BY DEF CoordinatorState
  <2> HIDE DEF d
  <2>7. Keeps(c, d)
    BY <2>5, <2>6 DEF Keeps
  <2> QED BY <2>1, <2>5, <2>7, StartNextStarts, KeepsStarts
<1> QED BY <1>1, <1>2

(* What the end of the active job does: the next job, if there is one, is  *)
(* only about to ensure capacity.                                          *)
Ends(c, d) ==
  /\ d \in CoordinatorState
  /\ d.live \subseteq c.live
  /\ d.waiters \subseteq c.waiters
  /\ d.probe = c.probe
  /\ d.closed = c.closed
  /\ d.job # NoJob => c.probe = NoCall /\ c.closed = "open" /\ d.job.phase = "capacity"

(* The finally block of runJob.                                            *)
LEMMA FinishJobEnds ==
  ASSUME NEW c \in CoordinatorState, c.job # NoJob,
         \A s \in c.live : binding[s] \in Binding, NEW done \in BOOLEAN
  PROVE  Ends(c, FinishJob(c, done))
<1> DEFINE j == c.job
           freed == [c EXCEPT !.job = NoJob]
           next == IF done /\ j.demand /\ j.session \in c.live
                     THEN QueuePrefetch(freed, j.session, j.window + 1) ELSE freed
<1>1. FinishJob(c, done) = StartNext(next)
  BY DEF FinishJob
<1>2. freed \in CoordinatorState
  BY DEF CoordinatorState
<1>3. freed.live = c.live /\ freed.waiters = c.waiters /\ freed.job = NoJob
      /\ freed.probe = c.probe /\ freed.closed = c.closed
  BY DEF CoordinatorState
<1> HIDE DEF freed
<1>4. Starts(freed, next)
  <2>1. CASE done /\ j.demand /\ j.session \in c.live
    <3>1. j.session \in SessionId /\ binding[j.session] \in Binding
      BY <2>1 DEF CoordinatorState
    <3>2. j.window + 1 \in Nat
      <4>1. j \in Job
        BY DEF CoordinatorState
      <4>2. j.window \in Window
        BY <4>1 DEF Job
      <4> QED BY <4>2 DEF Window
    <3> QED BY <1>2, <2>1, <3>1, <3>2, QueuePrefetchStarts
  <2>2. CASE ~(done /\ j.demand /\ j.session \in c.live)
    <3>1. next = freed
      BY <2>2
    <3> HIDE DEF next
    <3> QED BY <1>2, <1>3, <3>1 DEF Starts
  <2> QED BY <2>1, <2>2
<1> HIDE DEF next
<1>5. Starts(next, StartNext(next))
  BY <1>4, StartNextStarts DEF Starts
<1>6. Starts(freed, StartNext(next))
  BY <1>4, <1>5, StartsStarts
<1> QED BY <1>1, <1>3, <1>6 DEF Starts, Ends

(* The catch block of runJob.                                              *)
LEMMA FailJobEnds ==
  ASSUME NEW c \in CoordinatorState, c.job # NoJob,
         \A s \in c.live : binding[s] \in Binding, NEW done \in BOOLEAN
  PROVE  Ends(c, FailJob(c, done))
<1> DEFINE noted == IF ~c.job.aborted /\ c.job.session \in c.live
                      THEN [c EXCEPT !.failed = c.failed \cup {c.job.session}] ELSE c
           rejected == RejectWindow(noted, c.job.key, c.job.window)
<1>1. FailJob(c, done) = FinishJob(rejected, done)
  BY DEF FailJob
<1>2. Keeps(c, noted)
  <2>1. CASE ~c.job.aborted /\ c.job.session \in c.live
    <3> DEFINE failed == c.failed \cup {c.job.session}
               d == [c EXCEPT !.failed = failed]
    <3>1. noted = d
      BY <2>1
    <3>2. failed \in SUBSET SessionId
      BY <2>1 DEF CoordinatorState
    <3> HIDE DEF failed
    <3>3. d \in CoordinatorState
      BY <3>2 DEF CoordinatorState
    <3>4. d.live = c.live /\ d.waiters = c.waiters /\ d.job = c.job
          /\ d.probe = c.probe /\ d.closed = c.closed
      BY DEF CoordinatorState
    <3> HIDE DEF d, noted
    <3> QED BY <3>1, <3>3, <3>4 DEF Keeps
  <2>2. CASE ~(~c.job.aborted /\ c.job.session \in c.live)
    BY <2>2 DEF Keeps, CoordinatorState
  <2> QED BY <2>1, <2>2
<1> HIDE DEF noted
<1>3. Keeps(noted, rejected)
  BY <1>2, WaitersKeep DEF Keeps
<1> HIDE DEF rejected
<1>4. /\ rejected \in CoordinatorState /\ rejected.job # NoJob
      /\ \A s \in rejected.live : binding[s] \in Binding
  BY <1>2, <1>3 DEF Keeps
<1>5. Ends(rejected, FinishJob(rejected, done))
  BY <1>4, FinishJobEnds
<1> QED BY <1>1, <1>2, <1>3, <1>5 DEF Keeps, Ends

-----------------------------------------------------------------------------
(* The parts of Inv that a step of the coordinator leaves to be shown when *)
(* it only keeps, starts or ends work.                                     *)
RequestsTyped ==
  /\ req \in [Request -> [pc : {"idle", "lookup", "recheck", "parked", "failed"},
                          session : SessionId \cup {NoSession},
                          segment : Segment, found : BOOLEAN, gone : BOOLEAN]]
  /\ \A r \in Request : req[r].pc # "idle" => /\ req[r].session \in SessionId
                                              /\ binding[req[r].session] \in Binding
  /\ \A r \in co.waiters : req[r].pc \in {"recheck", "parked", "failed"}

CacheTyped ==
  /\ assets \in SUBSET Key
  /\ records \in SUBSET (Key \X Segment)
  /\ intact \in SUBSET (Key \X Segment)
  /\ complete \in SUBSET (Key \X Window)
  /\ notices \in SUBSET (Key \X Segment)
  /\ victim \in Key \cup {NoKey}

(* A helper that keeps the job starts none.                                *)
LEMMA KeepsIsStarts ==
  ASSUME NEW c, NEW d, Keeps(c, d)
  PROVE  Starts(c, d)
BY DEF Keeps, Starts

(* Two helpers that keep the job.                                          *)
LEMMA KeepsKeeps ==
  ASSUME NEW c, NEW d, NEW e, Keeps(c, d), Keeps(d, e)
  PROVE  Keeps(c, e)
BY DEF Keeps

(* The typed facts most steps need.                                        *)
LEMMA InvTyped == Inv => RequestsTyped /\ CacheTyped /\ co \in CoordinatorState
BY DEF Inv, TypeOK, SessionsExist, RequestsTyped, CacheTyped

(* A step that starts at most one job and no child.                        *)
LEMMA StartsInv ==
  ASSUME Inv, Starts(co, co'), UNCHANGED <<binding, call, children>>,
         RequestsTyped', CacheTyped'
  PROVE  Inv'
<1>1. TypeOK'
  BY DEF Inv, TypeOK, Starts, RequestsTyped, CacheTyped
<1>2. SessionsExist'
  BY DEF Inv, SessionsExist, Starts, RequestsTyped
<1>3. ProbeHasCall'
  BY DEF Inv, ProbeHasCall, Starts
<1>4. ChildrenCounted'
  BY DEF Inv, ChildrenCounted, Starts, Running
<1> QED BY <1>1, <1>2, <1>3, <1>4 DEF Inv

(* A step that ends the active job while it owns no child.                 *)
LEMMA EndsInv ==
  ASSUME Inv, Ends(co, co'), co.job # NoJob, co.job.phase # "running",
         UNCHANGED <<binding, call, children>>, RequestsTyped', CacheTyped'
  PROVE  Inv'
<1>1. TypeOK'
  BY DEF Inv, TypeOK, Ends, RequestsTyped, CacheTyped
<1>2. SessionsExist'
  BY DEF Inv, SessionsExist, Ends, RequestsTyped
<1>3. ProbeHasCall'
  BY DEF Inv, ProbeHasCall, Ends
<1>4. ChildrenCounted'
  BY DEF Inv, ChildrenCounted, Ends, Running
<1> QED BY <1>1, <1>2, <1>3, <1>4 DEF Inv

(* A step that changes nothing but the coordinator state.                  *)
LEMMA QuietInv ==
  ASSUME Inv, Keeps(co, co'), UNCHANGED <<binding, call, req, cacheVars, notices, children>>
  PROVE  Inv'
<1>1. RequestsTyped'
  BY InvTyped DEF RequestsTyped, Keeps
<1>2. CacheTyped'
  BY InvTyped DEF CacheTyped, cacheVars
<1> QED BY <1>1, <1>2, KeepsIsStarts, StartsInv

(* sweepExpired keeps the job.                                             *)
LEMMA SweptKeeps ==
  ASSUME co \in CoordinatorState
  PROVE  Keeps(co, Swept)
BY ExpireKeeps DEF Swept

(* Time passes.                                                            *)
LEMMA TickInv == ASSUME Inv, Tick PROVE Inv'
<1> DEFINE age == [s \in SessionId |-> IF s \in co.live /\ co.age[s] < LeaseTicks
                                         THEN co.age[s] + 1 ELSE co.age[s]]
<1>1. co \in CoordinatorState
  BY InvTyped
<1>2. co' = [co EXCEPT !.age = age]
  BY DEF Tick
<1>3. age \in [SessionId -> 0 .. LeaseTicks]
  BY <1>1, BoundAssumption DEF CoordinatorState
<1> HIDE DEF age
<1>4. co' \in CoordinatorState
  BY <1>1, <1>2, <1>3 DEF CoordinatorState
<1>5. co'.live = co.live /\ co'.waiters = co.waiters /\ co'.job = co.job
      /\ co'.probe = co.probe /\ co'.closed = co.closed
  BY <1>1, <1>2 DEF CoordinatorState
<1>6. Keeps(co, co')
  BY <1>4, <1>5 DEF Keeps
<1> QED BY <1>6, QuietInv DEF Tick

(* The sweep timer.                                                        *)
LEMMA SweepInv == ASSUME Inv, Sweep PROVE Inv'
BY InvTyped, SweptKeeps, QuietInv DEF Sweep

(* sweepExpired followed by renew.                                         *)
LEMMA RenewedKeeps ==
  ASSUME co \in CoordinatorState, NEW s \in SessionId
  PROVE  Keeps(co, Renew(Swept, s))
<1>1. Keeps(co, Swept)
  BY SweptKeeps
<1>2. Keeps(Swept, Renew(Swept, s))
  BY <1>1, RenewKeeps DEF Keeps
<1> QED BY <1>1, <1>2, KeepsKeeps

(* heartbeat().                                                            *)
LEMMA HeartbeatInv == ASSUME Inv, NEW s \in SessionId, Heartbeat(s) PROVE Inv'
BY InvTyped, RenewedKeeps, QuietInv DEF Heartbeat

(* release().                                                              *)
LEMMA ReleaseInv == ASSUME Inv, NEW s \in SessionId, Release(s) PROVE Inv'
BY InvTyped, ExpireKeeps, QuietInv DEF Release

(* playbackFailure().                                                      *)
LEMMA PlaybackFailureInv == ASSUME Inv, NEW s \in SessionId, PlaybackFailure(s) PROVE Inv'
<1>1. co \in CoordinatorState
  BY InvTyped
<1>2. co' = [co EXCEPT !.failed = co.failed \ {s}]
  BY DEF PlaybackFailure
<1>3. co' \in CoordinatorState
  BY <1>1, <1>2 DEF CoordinatorState
<1>4. co'.live = co.live /\ co'.waiters = co.waiters /\ co'.job = co.job
      /\ co'.probe = co.probe /\ co'.closed = co.closed
  BY <1>1, <1>2 DEF CoordinatorState
<1>5. Keeps(co, co')
  BY <1>3, <1>4 DEF Keeps
<1> QED BY <1>5, QuietInv DEF PlaybackFailure

CallsTyped == call \in [Call -> [pc : {"idle", "replacing", "probing"},
                                 binding : Binding \cup {NoBinding}]]

(* A new session: its id was never used, so no session changes its binding *)
LEMMA OpenSessionFacts ==
  ASSUME Inv, NEW c \in CoordinatorState, NEW b \in Binding, OpenSession(c, b)
  PROVE  /\ co' \in CoordinatorState
         /\ co'.waiters = c.waiters /\ co'.job = c.job
         /\ co'.probe = c.probe /\ co'.closed = c.closed
         /\ binding' \in [SessionId -> Binding \cup {NoBinding}]
         /\ \A t \in SessionId : binding[t] \in Binding => binding'[t] \in Binding
         /\ \A t \in co'.live : t \in c.live \/ binding'[t] \in Binding
<1>1. PICK s \in SessionId :
        /\ binding[s] = NoBinding
        /\ binding' = [binding EXCEPT ![s] = b]
        /\ co' = [c EXCEPT !.live = @ \cup {s}, !.lease = s, !.age[s] = 0]
  BY DEF OpenSession
<1>2. binding \in [SessionId -> Binding \cup {NoBinding}]
  BY DEF Inv, TypeOK
<1> DEFINE live == c.live \cup {s}
           age == [c.age EXCEPT ![s] = 0]
<1>3. co' = [c EXCEPT !.live = live, !.lease = s, !.age = age]
  BY <1>1
<1>4. live \in SUBSET SessionId /\ age \in [SessionId -> 0 .. LeaseTicks]
  BY BoundAssumption DEF CoordinatorState
<1>5. \A t \in live : t \in c.live \/ t = s
  OBVIOUS
<1> HIDE DEF live, age
<1>6. co' \in CoordinatorState
  BY <1>3, <1>4 DEF CoordinatorState
<1>7. co'.live = live /\ co'.waiters = c.waiters /\ co'.job = c.job
      /\ co'.probe = c.probe /\ co'.closed = c.closed
  BY <1>3 DEF CoordinatorState
<1>8. /\ binding' \in [SessionId -> Binding \cup {NoBinding}]
      /\ binding'[s] \in Binding
      /\ \A t \in SessionId : binding[t] \in Binding => binding'[t] \in Binding
  BY <1>1, <1>2
<1> QED BY <1>5, <1>6, <1>7, <1>8

(* createSession from the cache lookup on, for a call that is not probing. *)
LEMMA AcquireInv ==
  ASSUME Inv, NEW x \in Call, NEW b \in Binding, NEW c, Keeps(co, c),
         call[x].pc # "probing", Acquire(x, b, c), UNCHANGED <<req, cacheVars, notices>>
  PROVE  Inv'
<1>1. c \in CoordinatorState
  BY DEF Keeps
<1>2. CallsTyped /\ RequestsTyped
  BY InvTyped DEF Inv, TypeOK, CallsTyped
<1>3. CacheTyped'
  BY InvTyped DEF CacheTyped, cacheVars
<1>4. CASE OpenSession(c, b) /\ call' = [call EXCEPT ![x] = IdleCall] /\ UNCHANGED children
  <2>1. /\ co' \in CoordinatorState
        /\ co'.waiters = c.waiters /\ co'.job = c.job
        /\ co'.probe = c.probe /\ co'.closed = c.closed
        /\ binding' \in [SessionId -> Binding \cup {NoBinding}]
        /\ \A t \in SessionId : binding[t] \in Binding => binding'[t] \in Binding
        /\ \A t \in co'.live : t \in c.live \/ binding'[t] \in Binding
    BY <1>1, <1>4, OpenSessionFacts
  <2>2. CallsTyped'
    BY <1>2, <1>4 DEF CallsTyped, IdleCall
  <2>3. TypeOK'
    BY <1>2, <1>3, <1>4, <2>1, <2>2 DEF Inv, TypeOK, CallsTyped, CacheTyped, RequestsTyped
  <2>4. SessionsExist'
    <3>1. \A t \in co'.live : binding'[t] \in Binding
      BY <1>1, <2>1 DEF Inv, SessionsExist, Keeps, CoordinatorState
    <3>2. \A r \in Request : req[r].pc # "idle" => binding'[req[r].session] \in Binding
      BY <1>2, <2>1 DEF RequestsTyped
    <3>3. \A r \in co'.waiters : req[r].pc \in {"recheck", "parked", "failed"}
      BY <1>2, <2>1 DEF RequestsTyped, Keeps
    <3> QED BY <1>2, <3>1, <3>2, <3>3 DEF SessionsExist, RequestsTyped
  <2>5. ProbeHasCall'
    BY <1>2, <1>4, <2>1 DEF Inv, ProbeHasCall, Keeps, CallsTyped, IdleCall
  <2>6. ChildrenCounted'
    BY <1>4, <2>1 DEF Inv, ChildrenCounted, Keeps, Running
  <2> QED BY <2>3, <2>4, <2>5, <2>6 DEF Inv
<1>5. CASE co' = c /\ call' = [call EXCEPT ![x] = IdleCall] /\ UNCHANGED <<binding, children>>
  <2>1. CallsTyped'
    BY <1>2, <1>5 DEF CallsTyped, IdleCall
  <2>2. TypeOK'
    BY <1>1, <1>2, <1>3, <1>5, <2>1 DEF Inv, TypeOK, CallsTyped, CacheTyped, RequestsTyped
  <2>3. SessionsExist'
    BY <1>5 DEF Inv, SessionsExist, Keeps
  <2>4. ProbeHasCall'
    BY <1>2, <1>5 DEF Inv, ProbeHasCall, Keeps, CallsTyped, IdleCall
  <2>5. ChildrenCounted'
    BY <1>5 DEF Inv, ChildrenCounted, Keeps, Running
  <2> QED BY <2>2, <2>3, <2>4, <2>5 DEF Inv
<1>6. CASE /\ c.job = NoJob /\ c.probe = NoCall
           /\ co' = [c EXCEPT !.probe = x]
           /\ call' = [call EXCEPT ![x] = [pc |-> "probing", binding |-> b]]
           /\ children' = children + 1
           /\ UNCHANGED binding
  <2>1. CallsTyped'
    BY <1>2, <1>6 DEF CallsTyped
  <2>2. co' \in CoordinatorState
    BY <1>1, <1>6 DEF CoordinatorState
  <2>3. co'.live = c.live /\ co'.waiters = c.waiters /\ co'.job = c.job /\ co'.probe = x
    BY <1>1, <1>6 DEF CoordinatorState
  <2>4. children = 0 /\ co.job = NoJob /\ co.probe = NoCall
    BY <1>6 DEF Inv, ChildrenCounted, Running, Keeps
  <2>5. TypeOK'
    BY <1>2, <1>3, <1>6, <2>1, <2>2, <2>4 DEF Inv, TypeOK, CallsTyped, CacheTyped, RequestsTyped
  <2>6. SessionsExist'
    BY <1>6, <2>3 DEF Inv, SessionsExist, Keeps
  <2>7. ProbeHasCall'
    <3>1. \A y \in Call : call[y].pc # "probing"
      BY <2>4, SentinelAssumption DEF Inv, ProbeHasCall
    <3> QED BY <1>2, <1>6, <2>3, <3>1 DEF Inv, ProbeHasCall, CallsTyped
  <2>8. ChildrenCounted'
    BY <1>6, <2>3, <2>4, SentinelAssumption DEF ChildrenCounted, Running
  <2> QED BY <2>5, <2>6, <2>7, <2>8 DEF Inv
<1> QED BY <1>4, <1>5, <1>6 DEF Acquire

(* createSession() up to its first await.                                  *)
LEMMA CreateSessionInv ==
  ASSUME Inv, NEW x \in Call, NEW b \in Binding, CreateSession(x, b)
  PROVE  Inv'
<1> DEFINE holder == Swept.lease
<1>1. Keeps(co, Swept) /\ Swept \in CoordinatorState
  BY InvTyped, SweptKeeps DEF Keeps
<1>2. CASE Acquire(x, b, Swept)
  BY <1>1, <1>2, AcquireInv DEF CreateSession
<1>3. CASE co' = Swept /\ UNCHANGED <<binding, call, children>>
  BY <1>1, <1>3, QuietInv DEF CreateSession
<1>4. CASE holder # NoSession /\ co' = Renew(Swept, holder) /\ UNCHANGED <<binding, call, children>>
  <2>1. holder \in SessionId
    BY <1>1, <1>4 DEF CoordinatorState
  <2> QED BY <1>4, <2>1, InvTyped, RenewedKeeps, QuietInv DEF CreateSession
<1>5. CASE /\ co' = Expire(Swept, {holder})
           /\ call' = [call EXCEPT ![x] = [pc |-> "replacing", binding |-> b]]
           /\ UNCHANGED <<binding, children>>
  <2>1. Keeps(co, co')
    BY <1>1, <1>5, ExpireKeeps, KeepsKeeps
  <2>2. CallsTyped'
    BY <1>5 DEF Inv, TypeOK, CallsTyped
  <2>3. TypeOK'
    BY <1>5, <2>1, <2>2 DEF Inv, TypeOK, CallsTyped, Keeps, CreateSession, cacheVars
  <2>4. SessionsExist'
    BY <1>5, <2>1 DEF Inv, SessionsExist, Keeps, CreateSession
  <2>5. ProbeHasCall'
    BY <1>5, <2>1 DEF Inv, TypeOK, ProbeHasCall, Keeps, CreateSession
  <2>6. ChildrenCounted'
    BY <1>5, <2>1 DEF Inv, ChildrenCounted, Keeps, Running
  <2> QED BY <2>3, <2>4, <2>5, <2>6 DEF Inv
<1> QED BY <1>2, <1>3, <1>4, <1>5 DEF CreateSession

(* createSession() after the replaced session's job has ended.             *)
LEMMA ReplacedInv == ASSUME Inv, NEW x \in Call, Replaced(x) PROVE Inv'
<1>1. call[x].binding \in Binding
  BY DEF Inv, ProbeHasCall, Replaced
<1>2. Keeps(co, co)
  BY InvTyped DEF Keeps
<1> QED BY <1>1, <1>2, AcquireInv DEF Replaced

(* The probe of call x ends: nothing else can own a child.                 *)
LEMMA ProbeOwnsChild ==
  ASSUME Inv, NEW x \in Call, call[x].pc = "probing"
  PROVE  /\ co.probe = x /\ co.job = NoJob /\ children = 1
         /\ call[x].binding \in Binding
         /\ [co EXCEPT !.probe = NoCall] \in CoordinatorState
BY InvTyped, SentinelAssumption
   DEF Inv, ProbeHasCall, ChildrenCounted, CoordinatorState

(* FFprobe fails.                                                          *)
LEMMA ProbeFailsInv == ASSUME Inv, NEW x \in Call, ProbeFails(x) PROVE Inv'
<1>1. /\ co.probe = x /\ co.job = NoJob /\ children = 1
      /\ co' \in CoordinatorState /\ children' = 0
  BY ProbeOwnsChild DEF ProbeFails
<1>2. co'.live = co.live /\ co'.waiters = co.waiters /\ co'.job = co.job /\ co'.probe = NoCall
  BY InvTyped DEF ProbeFails, CoordinatorState
<1>3. CallsTyped'
  BY DEF Inv, TypeOK, CallsTyped, IdleCall, ProbeFails
<1>4. TypeOK'
  BY <1>1, <1>3 DEF Inv, TypeOK, CallsTyped, ProbeFails, cacheVars
<1>5. SessionsExist'
  BY <1>2 DEF Inv, SessionsExist, ProbeFails
<1>6. ProbeHasCall'
  BY <1>1, <1>2, SentinelAssumption DEF Inv, TypeOK, ProbeHasCall, ProbeFails, IdleCall
<1>7. ChildrenCounted'
  BY <1>1, <1>2 DEF ChildrenCounted, Running
<1> QED BY <1>4, <1>5, <1>6, <1>7 DEF Inv

(* FFprobe succeeds and its call opens the session.                        *)
LEMMA ProbeSucceedsInv == ASSUME Inv, NEW x \in Call, ProbeSucceeds(x) PROVE Inv'
<1> DEFINE c == [co EXCEPT !.probe = NoCall]
           b == call[x].binding
<1>1. /\ co.probe = x /\ co.job = NoJob /\ children' = 0
      /\ c \in CoordinatorState /\ b \in Binding
  BY ProbeOwnsChild DEF ProbeSucceeds
<1>2. c.live = co.live /\ c.waiters = co.waiters /\ c.job = co.job /\ c.probe = NoCall
  BY InvTyped DEF CoordinatorState
<1>3. OpenSession(c, b)
  BY DEF ProbeSucceeds
<1> HIDE DEF c
<1>4. /\ co' \in CoordinatorState
      /\ co'.waiters = co.waiters /\ co'.job = NoJob /\ co'.probe = NoCall
      /\ binding' \in [SessionId -> Binding \cup {NoBinding}]
      /\ \A t \in SessionId : binding[t] \in Binding => binding'[t] \in Binding
      /\ \A t \in co'.live : t \in co.live \/ binding'[t] \in Binding
  BY <1>1, <1>2, <1>3, OpenSessionFacts
<1>5. CallsTyped'
  BY DEF Inv, TypeOK, CallsTyped, IdleCall, ProbeSucceeds
<1>6. keyOf[b] \in Key
  BY <1>1, BindingAssumption
<1>7. TypeOK'
  BY <1>1, <1>4, <1>5, <1>6 DEF Inv, TypeOK, CallsTyped, ProbeSucceeds
<1>8. SessionsExist'
  <2>1. \A t \in co'.live : binding'[t] \in Binding
    BY <1>4, InvTyped DEF Inv, SessionsExist, CoordinatorState
  <2>2. req' = req
    BY DEF ProbeSucceeds
  <2> QED BY <1>4, <2>1, <2>2 DEF Inv, SessionsExist
<1>9. ProbeHasCall'
  BY <1>1, <1>4, SentinelAssumption DEF Inv, TypeOK, ProbeHasCall, ProbeSucceeds, IdleCall
<1>10. ChildrenCounted'
  BY <1>1, <1>4 DEF ChildrenCounted, Running
<1> QED BY <1>7, <1>8, <1>9, <1>10 DEF Inv

(* close(): the active job and the probe are aborted and stay until they   *)
(* end.                                                                    *)
LEMMA CloseInv == ASSUME Inv, Close PROVE Inv'
<1> DEFINE age == [s \in SessionId |-> 0]
           job == IF co.job = NoJob THEN NoJob ELSE [co.job EXCEPT !.aborted = TRUE]
<1>1. co' = [co EXCEPT !.closed = "closing", !.waiters = {}, !.queue = <<>>, !.keys = {},
                       !.prefetch = NoJob, !.live = {}, !.failed = {}, !.lease = NoSession,
                       !.age = age, !.job = job]
  BY DEF Close
<1>2. co \in CoordinatorState
  BY InvTyped
<1>3. age \in [SessionId -> 0 .. LeaseTicks]
  BY BoundAssumption
<1>4. co.job = NoJob \/ co.job \in Job
  BY <1>2 DEF CoordinatorState
<1>5. job \in Job \cup {NoJob} /\ (job = NoJob <=> co.job = NoJob)
      /\ (co.job # NoJob => job.phase = co.job.phase)
  BY <1>4, JobAborted, SentinelAssumption
<1>6. job \in Job \cup {NoJob}
  BY <1>5
<1> HIDE DEF age, job
<1>7. co' \in CoordinatorState
  <2>1. <<>> \in Seq(Job)
    OBVIOUS
  <2> QED BY <1>1, <1>2, <1>3, <1>6, <2>1 DEF CoordinatorState
<1>8. co'.live = {} /\ co'.waiters = {} /\ co'.job = job /\ co'.probe = co.probe
  BY <1>1, <1>2 DEF CoordinatorState
<1>9. TypeOK'
  BY <1>7 DEF Inv, TypeOK, Close, cacheVars
<1>10. SessionsExist'
  BY <1>8 DEF Inv, SessionsExist, Close
<1>11. ProbeHasCall'
  BY <1>8 DEF Inv, ProbeHasCall, Close
<1>12. ChildrenCounted'
  BY <1>5, <1>8 DEF Inv, ChildrenCounted, Running, Close
<1> QED BY <1>9, <1>10, <1>11, <1>12 DEF Inv

(* close() returns.                                                        *)
LEMMA CloseReturnsInv == ASSUME Inv, CloseReturns PROVE Inv'
<1>1. co \in CoordinatorState
  BY InvTyped
<1>2. co' \in CoordinatorState
  BY <1>1 DEF CloseReturns, CoordinatorState
<1>3. co'.live = co.live /\ co'.waiters = co.waiters /\ co'.job = co.job /\ co'.probe = co.probe
  BY <1>1 DEF CloseReturns, CoordinatorState
<1>4. TypeOK'
  BY <1>2 DEF Inv, TypeOK, CloseReturns, cacheVars
<1>5. SessionsExist' /\ ProbeHasCall' /\ ChildrenCounted'
  BY <1>3 DEF Inv, SessionsExist, ProbeHasCall, ChildrenCounted, Running, CloseReturns
<1> QED BY <1>4, <1>5 DEF Inv

(* A lookup only removes rows and marks.                                   *)
LEMMA InvalidatedTyped ==
  ASSUME Inv, NEW t, NEW found, Invalidated(t, found)
  PROVE  /\ records' \in SUBSET (Key \X Segment)
         /\ complete' \in SUBSET (Key \X Window)
<1>1. records' \subseteq records /\ complete' \subseteq complete
  BY DEF Invalidated
<1> QED BY <1>1 DEF Inv, TypeOK

(* segment() up to its first lookup.                                       *)
LEMMA SegmentCallInv ==
  ASSUME Inv, NEW r \in Request, NEW s \in SessionId, NEW i \in Segment, SegmentCall(r, s, i)
  PROVE  Inv'
<1>1. Keeps(co, co')
  BY InvTyped, RenewedKeeps DEF SegmentCall
<1>2. RequestsTyped'
  <2>1. binding[s] \in Binding
    BY DEF Inv, SessionsExist, SegmentCall
  <2>2. r \notin co'.waiters
    BY <1>1, InvTyped DEF RequestsTyped, SegmentCall, Keeps
  <2> QED BY <1>1, <2>1, <2>2, InvTyped DEF RequestsTyped, SegmentCall, Keeps
<1>3. CacheTyped'
  BY InvTyped DEF CacheTyped, SegmentCall, cacheVars
<1> QED BY <1>1, <1>2, <1>3, KeepsIsStarts, StartsInv DEF SegmentCall

RequestState ==
  [pc : {"idle", "lookup", "recheck", "parked", "failed"}, session : SessionId \cup {NoSession},
   segment : Segment, found : BOOLEAN, gone : BOOLEAN]

(* A request moves on: v is its new state, of the same session.            *)
LEMMA RequestMoves ==
  ASSUME RequestsTyped, NEW r \in Request, NEW v \in RequestState,
         req[r].pc # "idle", v.session = req[r].session, req' = [req EXCEPT ![r] = v],
         UNCHANGED binding, co'.waiters \subseteq Request,
         co'.waiters \subseteq co.waiters \cup {r},
         r \in co'.waiters => v.pc \in {"recheck", "parked", "failed"}
  PROVE  RequestsTyped'
<1>1. req \in [Request -> RequestState]
  BY DEF RequestsTyped, RequestState
<1>2. req' \in [Request -> RequestState]
  BY <1>1
<1>3. \A q \in Request : req'[q] = IF q = r THEN v ELSE req[q]
  BY <1>1
<1>4. ASSUME NEW q \in Request, req'[q].pc # "idle"
      PROVE  req'[q].session \in SessionId /\ binding'[req'[q].session] \in Binding
  BY <1>3, <1>4 DEF RequestsTyped
<1>5. ASSUME NEW q \in co'.waiters
      PROVE  req'[q].pc \in {"recheck", "parked", "failed"}
  BY <1>3 DEF RequestsTyped
<1> QED BY <1>2, <1>4, <1>5 DEF RequestsTyped, RequestState

(* The first lookup of segment() returns.                                  *)
LEMMA FirstLookupInv == ASSUME Inv, NEW r \in Request, FirstLookup(r) PROVE Inv'
<1>1. CacheTyped'
  BY InvTyped, InvalidatedTyped DEF CacheTyped, FirstLookup
<1>2. co \in CoordinatorState /\ r \notin co.waiters
  BY InvTyped DEF RequestsTyped, FirstLookup
<1>3. CASE UNCHANGED co /\ req' = [req EXCEPT ![r] = IdleRequest]
  <2>1. 0 \in Segment
    BY BoundAssumption DEF Segment
  <2>2. RequestsTyped'
    BY <1>2, <1>3, <2>1, InvTyped DEF RequestsTyped, IdleRequest, FirstLookup
  <2>3. Keeps(co, co')
    BY <1>2, <1>3 DEF Keeps
  <2> QED BY <1>1, <2>2, <2>3, KeepsIsStarts, StartsInv DEF FirstLookup
<1>4. CASE /\ co' = [co EXCEPT !.waiters = @ \cup {r}]
           /\ req' = [req EXCEPT ![r].pc = "recheck", ![r].found = Target(r) \in records']
  <2>1. co' \in CoordinatorState
    BY <1>2, <1>4 DEF CoordinatorState
  <2>2. co'.live = co.live /\ co'.waiters = co.waiters \cup {r} /\ co'.job = co.job
        /\ co'.probe = co.probe
    BY <1>2, <1>4 DEF CoordinatorState
  <2>3. RequestsTyped'
    <3> DEFINE seen == Target(r) \in records'
               v == [req[r] EXCEPT !.pc = "recheck", !.found = seen]
    <3>1. req' = [req EXCEPT ![r] = v]
      BY <1>4
    <3>0. seen \in BOOLEAN
      OBVIOUS
    <3> HIDE DEF seen
    <3>2. req[r] \in RequestState
      BY InvTyped DEF RequestsTyped, RequestState
    <3>3. v \in RequestState /\ v.pc = "recheck" /\ v.session = req[r].session
      BY <3>0, <3>2 DEF RequestState
    <3>4. co'.waiters \subseteq Request
      BY <2>1 DEF CoordinatorState
    <3> HIDE DEF v
    <3> QED BY <2>2, <3>1, <3>3, <3>4, InvTyped, RequestMoves DEF FirstLookup
  <2>4. TypeOK'
    BY <1>1, <2>1, <2>3 DEF Inv, TypeOK, RequestsTyped, CacheTyped, FirstLookup
  <2>5. SessionsExist'
    BY <2>2, <2>3 DEF Inv, SessionsExist, RequestsTyped, FirstLookup
  <2>6. ProbeHasCall' /\ ChildrenCounted'
    BY <2>2 DEF Inv, ProbeHasCall, ChildrenCounted, Running, FirstLookup
  <2> QED BY <2>4, <2>5, <2>6 DEF Inv
<1> QED BY <1>3, <1>4 DEF FirstLookup

(* The second lookup of segment() returns.                                 *)
LEMMA SecondLookupInv == ASSUME Inv, NEW r \in Request, SecondLookup(r) PROVE Inv'
<1>1. CacheTyped'
  BY InvTyped, InvalidatedTyped DEF CacheTyped, SecondLookup
<1>2. /\ co \in CoordinatorState
      /\ req[r].session \in SessionId /\ binding[req[r].session] \in Binding
      /\ req[r].segment \in Segment
  BY InvTyped DEF RequestsTyped, SecondLookup
<1>3. Starts(co, co')
  <2>1. WindowOf(req[r].segment) \in Window
    BY <1>2, WindowOfSegment
  <2>2. Starts(co, Enqueue(co, req[r].session, WindowOf(req[r].segment)))
    BY <1>2, <2>1, EnqueueStarts
  <2>3. Starts(co, ResolveSegment(co, SessionKey(req[r].session), req[r].segment))
    BY <1>2, WaitersKeep, KeepsIsStarts
  <2> QED BY <2>2, <2>3 DEF SecondLookup
<1>4. RequestsTyped'
  <2> DEFINE v == [req[r] EXCEPT !.pc = "parked", !.found = FALSE]
  <2>1. req' = [req EXCEPT ![r] = v]
    BY DEF SecondLookup
  <2>2. req[r] \in RequestState
    BY InvTyped DEF RequestsTyped, RequestState
  <2>3. v \in RequestState /\ v.pc = "parked" /\ v.session = req[r].session
    BY <2>2 DEF RequestState
  <2>4. co'.waiters \subseteq Request /\ co'.waiters \subseteq co.waiters \cup {r}
    BY <1>3 DEF Starts, CoordinatorState
  <2> HIDE DEF v
  <2> QED BY <2>1, <2>3, <2>4, InvTyped, RequestMoves DEF SecondLookup
<1> QED BY <1>1, <1>3, <1>4, StartsInv DEF SecondLookup

(* A settled waiter answers its request.                                   *)
LEMMA RespondInv == ASSUME Inv, NEW r \in Request, Respond(r) PROVE Inv'
<1>1. 0 \in Segment
  BY BoundAssumption DEF Segment
<1>2. RequestsTyped'
  BY <1>1, InvTyped DEF RequestsTyped, IdleRequest, Respond
<1>3. CacheTyped'
  BY InvTyped DEF CacheTyped, Respond, cacheVars
<1>4. Keeps(co, co')
  BY InvTyped DEF Keeps, Respond
<1> QED BY <1>2, <1>3, <1>4, KeepsIsStarts, StartsInv DEF Respond

(* A client goes away.                                                     *)
LEMMA DisconnectInv == ASSUME Inv, NEW r \in Request, Disconnect(r) PROVE Inv'
<1>1. CacheTyped'
  BY InvTyped DEF CacheTyped, Disconnect, cacheVars
<1>2. Keeps(co, co')
  <2> DEFINE d == [co EXCEPT !.waiters = co.waiters \ {r}]
  <2>1. d \in CoordinatorState
    BY InvTyped DEF CoordinatorState
  <2>2. d.live = co.live /\ d.waiters \subseteq co.waiters /\ d.job = co.job
        /\ d.probe = co.probe /\ d.closed = co.closed
    BY InvTyped DEF CoordinatorState
  <2> HIDE DEF d
  <2>3. Keeps(co, d)
    BY <2>1, <2>2 DEF Keeps
  <2>4. Keeps(co, CancelObsolete(d))
    BY <2>1, <2>3, CancelKeeps, KeepsKeeps
  <2>5. Keeps(co, co)
    BY InvTyped DEF Keeps
  <2> QED BY <2>4, <2>5 DEF Disconnect, d
<1>3. RequestsTyped'
  <2> DEFINE v == [req[r] EXCEPT !.gone = TRUE]
  <2>1. CASE req' = req
    BY <1>2, <2>1, InvTyped DEF RequestsTyped, Keeps, Disconnect
  <2>2. CASE req[r].pc = "lookup" /\ req' = [req EXCEPT ![r] = v] /\ UNCHANGED co
    <3>1. req[r] \in RequestState
      BY InvTyped DEF RequestsTyped, RequestState
    <3>2. v \in RequestState /\ v.session = req[r].session
      BY <3>1 DEF RequestState
    <3>3. co'.waiters \subseteq Request /\ co'.waiters \subseteq co.waiters \cup {r}
      BY <1>2 DEF Keeps, CoordinatorState
    <3>4. r \notin co'.waiters
      BY <2>2, InvTyped DEF RequestsTyped
    <3> HIDE DEF v
    <3> QED BY <2>2, <3>2, <3>3, <3>4, InvTyped, RequestMoves DEF Disconnect
  <2> QED BY <2>1, <2>2 DEF Disconnect
<1> QED BY <1>1, <1>2, <1>3, KeepsIsStarts, StartsInv DEF Disconnect

(* The active job moves on to another await.                               *)
LEMMA JobMoves ==
  ASSUME co \in CoordinatorState, co.job # NoJob, NEW p \in JobPhase, co' = JobTo(p)
  PROVE  /\ co' \in CoordinatorState
         /\ co'.job # NoJob /\ co'.job.phase = p
         /\ co'.live = co.live /\ co'.waiters = co.waiters
         /\ co'.probe = co.probe /\ co'.closed = co.closed
<1> DEFINE j == [co.job EXCEPT !.phase = p]
<1>1. co' = [co EXCEPT !.job = j]
  BY DEF JobTo
<1>2. j \in Job /\ j.phase = p
  BY DEF CoordinatorState, Job
<1>3. j # NoJob
  BY <1>2, SentinelAssumption
<1> HIDE DEF j
<1>4. co' \in CoordinatorState
  BY <1>1, <1>2 DEF CoordinatorState
<1> QED BY <1>1, <1>2, <1>3, <1>4 DEF CoordinatorState

(* The job moves on and the children are accounted for again.              *)
LEMMA JobMovesInv ==
  ASSUME Inv, co.job # NoJob, NEW p \in JobPhase, co' = JobTo(p),
         children' = IF p = "running" THEN 1 ELSE 0,
         UNCHANGED <<binding, call, req>>, CacheTyped'
  PROVE  Inv'
<1>1. /\ co' \in CoordinatorState
      /\ co'.job # NoJob /\ co'.job.phase = p
      /\ co'.live = co.live /\ co'.waiters = co.waiters /\ co'.probe = co.probe
  BY InvTyped, JobMoves
<1>2. co.probe = NoCall
  BY DEF Inv, ChildrenCounted
<1>3. TypeOK'
  BY <1>1 DEF Inv, TypeOK, CacheTyped
<1>4. SessionsExist'
  BY <1>1 DEF Inv, SessionsExist
<1>5. ProbeHasCall'
  BY <1>1 DEF Inv, ProbeHasCall
<1>6. ChildrenCounted'
  BY <1>1, <1>2 DEF ChildrenCounted, Running
<1> QED BY <1>3, <1>4, <1>5, <1>6 DEF Inv

(* The active job is a job, and its child is counted by its phase.         *)
LEMMA RunningCounted ==
  ASSUME Inv, NEW p, Running(p)
  PROVE  /\ co.job \in Job /\ co.job # NoJob /\ co.probe = NoCall
         /\ children = IF p = "running" THEN 1 ELSE 0
         /\ JobKey(co.job) \in Key \X Window
<1>1. co.job \in Job /\ co.job # NoJob
  BY InvTyped DEF Running, CoordinatorState
<1>2. co.job.key \in Key /\ co.job.window \in Window
  BY <1>1 DEF Job
<1> QED BY <1>1, <1>2 DEF Inv, ChildrenCounted, Running, JobKey

(* The room for a window has been made.                                    *)
LEMMA CapacityEnsuredInv == ASSUME Inv, CapacityEnsured PROVE Inv'
<1>1. CacheTyped'
  BY InvTyped DEF CacheTyped, CapacityEnsured
<1>2. co.job # NoJob /\ children = 0
  BY RunningCounted DEF CapacityEnsured
<1> QED BY <1>1, <1>2, JobMovesInv DEF CapacityEnsured, JobPhase

(* FFmpeg starts.                                                          *)
LEMMA EncoderSpawnsInv == ASSUME Inv, EncoderSpawns PROVE Inv'
<1>1. CacheTyped'
  BY InvTyped DEF CacheTyped, EncoderSpawns, cacheVars
<1>2. co.job # NoJob /\ children = 0
  BY RunningCounted DEF EncoderSpawns
<1> QED BY <1>1, <1>2, JobMovesInv DEF EncoderSpawns, JobPhase

(* FFmpeg exits.                                                           *)
LEMMA EncoderExitsInv == ASSUME Inv, EncoderExits PROVE Inv'
<1>1. CacheTyped'
  BY InvTyped DEF CacheTyped, EncoderExits, cacheVars
<1>2. co.job # NoJob /\ children = 1
  BY RunningCounted DEF EncoderExits
<1> QED BY <1>1, <1>2, JobMovesInv DEF EncoderExits, JobPhase

(* The window is complete.                                                 *)
LEMMA EncodeCompletesInv == ASSUME Inv, EncodeCompletes PROVE Inv'
<1>1. co.job # NoJob /\ children = 0 /\ JobKey(co.job) \in Key \X Window
  BY RunningCounted DEF EncodeCompletes
<1>2. CacheTyped'
  BY <1>1, InvTyped DEF CacheTyped, EncodeCompletes
<1> QED BY <1>1, <1>2, JobMovesInv DEF EncodeCompletes, JobPhase

(* The encode throws and runJob ends the job.                              *)
LEMMA EncodeFailsInv == ASSUME Inv, EncodeFails PROVE Inv'
<1>1. co.job # NoJob /\ co.job.phase # "running"
  BY DEF EncodeFails, Running
<1>2. \A s \in co.live : binding[s] \in Binding
  BY DEF Inv, SessionsExist
<1>3. Ends(co, co')
  BY <1>1, <1>2, InvTyped, FailJobEnds DEF EncodeFails
<1>4. complete' \subseteq complete
  BY DEF EncodeFails
<1>5. CacheTyped'
  BY <1>4, InvTyped DEF CacheTyped, EncodeFails
<1>6. RequestsTyped'
  BY <1>3, InvTyped DEF RequestsTyped, EncodeFails, Ends
<1> QED BY <1>1, <1>3, <1>5, <1>6, EndsInv DEF EncodeFails

(* One turn of rejectMissingWindowWaiters: waiters leave, and the job stays *)
(* where it is or has been reported.                                       *)
LEMMA ReportTurn ==
  ASSUME Inv, ReportSegment
  PROVE  /\ co' \in CoordinatorState /\ co'.waiters \subseteq co.waiters
         /\ UNCHANGED <<co.live, co.probe, co.closed, co.queue, co.keys>>
         /\ co.job # NoJob /\ co.job.phase = "reporting"
         /\ co'.job # NoJob /\ co'.job.phase \in {"reporting", "reported"}
         /\ JobKey(co'.job) = JobKey(co.job)
<1> DEFINE k == co.job.key
           w == co.job.window
           i == w * SegmentsPerWindow + co.job.offset
           t == <<k, i>>
           c == IF t \in records \cap intact THEN ResolveSegment(co, k, i) ELSE co
           d == IF co.job.offset + 1 < SegmentsPerWindow THEN c ELSE RejectWindow(c, k, w)
           j == IF co.job.offset + 1 < SegmentsPerWindow
                  THEN [co.job EXCEPT !.offset = @ + 1] ELSE [co.job EXCEPT !.phase = "reported"]
<1>1. co \in CoordinatorState /\ co.job \in Job /\ co.job # NoJob /\ co.job.phase = "reporting"
  BY InvTyped, RunningCounted DEF ReportSegment, Running
<1>2. PICK W \in SUBSET co.waiters : c = [co EXCEPT !.waiters = W]
  <2>1. co = [co EXCEPT !.waiters = co.waiters] BY <1>1 DEF CoordinatorState
  <2>2. CASE t \in records \cap intact BY <2>2 DEF ResolveSegment
  <2>3. CASE t \notin records \cap intact BY <2>1, <2>3
  <2> QED BY <2>2, <2>3
<1>3. c \in CoordinatorState /\ c.waiters = W BY <1>1, <1>2 DEF CoordinatorState
<1>4. PICK V \in SUBSET co.waiters : d = [co EXCEPT !.waiters = V]
  <2>1. CASE co.job.offset + 1 < SegmentsPerWindow BY <1>2, <2>1
  <2>2. CASE ~(co.job.offset + 1 < SegmentsPerWindow)
    <3> DEFINE V == c.waiters \ WindowWaiters(c, k, w)
    <3>1. d = [c EXCEPT !.waiters = V] BY <2>2 DEF RejectWindow
    <3>2. V \in SUBSET co.waiters BY <1>3
    <3> HIDE DEF V, c, d
    <3>3. d = [co EXCEPT !.waiters = V] BY <1>2, <3>1
    <3> QED BY <3>2, <3>3
  <2> QED BY <2>1, <2>2
<1>5. d.job = co.job BY <1>1, <1>4 DEF CoordinatorState
<1>6. co' = [d EXCEPT !.job = j]
  <2>1. co' = IF co.job.offset + 1 < SegmentsPerWindow
                THEN [c EXCEPT !.job.offset = @ + 1]
                ELSE [RejectWindow(c, k, w) EXCEPT !.job.phase = "reported"]
    BY DEF ReportSegment
  <2> HIDE DEF c, k, w
  <2> QED BY <1>5, <2>1
<1>7. /\ j \in Job /\ j.phase \in {"reporting", "reported"}
      /\ j.key = co.job.key /\ j.window = co.job.window
  <2>1. CASE co.job.offset + 1 < SegmentsPerWindow BY <1>1, <2>1, BoundAssumption DEF Job
  <2>2. CASE ~(co.job.offset + 1 < SegmentsPerWindow) BY <1>1, <2>2 DEF Job, JobPhase
  <2> QED BY <2>1, <2>2
<1> HIDE DEF d, j, c
<1>8. co' = [co EXCEPT !.waiters = V, !.job = j] BY <1>4, <1>6
<1>9. co' \in CoordinatorState /\ co'.waiters = V /\ co'.job = j
      /\ UNCHANGED <<co.live, co.probe, co.closed, co.queue, co.keys>>
  BY <1>1, <1>7, <1>8 DEF CoordinatorState
<1>10. j # NoJob BY <1>7, SentinelAssumption
<1> QED BY <1>1, <1>7, <1>9, <1>10 DEF JobKey

(* A turn of the report, which owns no child.                              *)
LEMMA ReportSegmentInv == ASSUME Inv, ReportSegment PROVE Inv'
<1>1. CacheTyped'
  BY InvTyped, InvalidatedTyped DEF CacheTyped, ReportSegment
<1>2. RequestsTyped'
  BY ReportTurn, InvTyped DEF RequestsTyped, ReportSegment
<1>3. TypeOK'
  BY <1>1, <1>2, ReportTurn DEF Inv, TypeOK, RequestsTyped, CacheTyped, ReportSegment
<1>4. SessionsExist'
  BY <1>2, ReportTurn DEF Inv, SessionsExist, RequestsTyped, ReportSegment
<1>5. ProbeHasCall'
  BY ReportTurn DEF Inv, ProbeHasCall, ReportSegment
<1>6. ChildrenCounted'
  BY ReportTurn DEF Inv, ChildrenCounted, Running, ReportSegment
<1> QED BY <1>3, <1>4, <1>5, <1>6 DEF Inv

(* The report throws, or runJob goes on after it.                          *)
LEMMA ReportFailsInv == ASSUME Inv, ReportFails \/ JobEnds PROVE Inv'
<1>1. co.job # NoJob /\ co.job.phase # "running"
  BY DEF ReportFails, JobEnds, Running
<1>2. \A s \in co.live : binding[s] \in Binding
  BY DEF Inv, SessionsExist
<1>3. Ends(co, co')
  BY <1>1, <1>2, InvTyped, FailJobEnds, FinishJobEnds DEF ReportFails, JobEnds
<1>4. UNCHANGED <<binding, call, req, cacheVars, notices, children>>
  BY DEF ReportFails, JobEnds
<1>5. CacheTyped'
  BY <1>4, InvTyped DEF CacheTyped, cacheVars
<1>6. RequestsTyped'
  BY <1>3, <1>4, InvTyped DEF RequestsTyped, Ends
<1> QED BY <1>1, <1>3, <1>4, <1>5, <1>6, EndsInv

(* A lookup throws.                                                        *)
LEMMA LookupFailsInv == ASSUME Inv, NEW r \in Request, LookupFails(r) PROVE Inv'
<1> DEFINE v == IF req[r].pc = "lookup" THEN IdleRequest ELSE [req[r] EXCEPT !.pc = "failed"]
<1>1. req' = [req EXCEPT ![r] = v] /\ req[r].pc \in {"lookup", "recheck"}
  BY DEF LookupFails
<1>2. RequestsTyped
  BY InvTyped
<1>3. v \in RequestState /\ (v.pc # "idle" => v.session = req[r].session)
      /\ (req[r].pc = "recheck" => v.pc = "failed")
  BY <1>1, <1>2, BoundAssumption DEF RequestsTyped, RequestState, IdleRequest, Segment
<1> HIDE DEF v
<1>4. RequestsTyped'
  <2>1. req \in [Request -> RequestState] BY <1>2 DEF RequestsTyped, RequestState
  <2>2. req' \in [Request -> RequestState] BY <1>1, <1>3, <2>1
  <2>3. UNCHANGED <<co, binding>> BY DEF LookupFails
  <2>4. ASSUME NEW q \in Request, req'[q].pc # "idle"
        PROVE  req'[q].session \in SessionId /\ binding'[req'[q].session] \in Binding
    BY <1>1, <1>2, <1>3, <2>1, <2>3, <2>4 DEF RequestsTyped
  <2>5. ASSUME NEW q \in co'.waiters PROVE req'[q].pc \in {"recheck", "parked", "failed"}
    <3>1. q \in Request BY <2>3, <2>5, InvTyped DEF CoordinatorState
    <3> QED BY <1>1, <1>2, <1>3, <2>1, <2>3, <2>5, <3>1 DEF RequestsTyped
  <2> QED BY <2>2, <2>4, <2>5 DEF RequestsTyped, RequestState
<1>5. CacheTyped'
  BY InvTyped DEF CacheTyped, cacheVars, LookupFails
<1>6. Keeps(co, co')
  BY InvTyped DEF Keeps, LookupFails
<1> QED BY <1>4, <1>5, <1>6, KeepsIsStarts, StartsInv DEF LookupFails

(* A segment is promoted.                                                  *)
LEMMA PromoteInv == ASSUME Inv, NEW i \in Segment, Promote(i) PROVE Inv'
<1>1. co.job.key \in Key
  BY RunningCounted DEF Promote, Job
<1>2. CacheTyped'
  BY <1>1, InvTyped DEF CacheTyped, Promote
<1>3. RequestsTyped'
  BY InvTyped DEF RequestsTyped, Promote
<1>4. Keeps(co, co')
  BY InvTyped DEF Keeps, Promote
<1> QED BY <1>2, <1>3, <1>4, KeepsIsStarts, StartsInv DEF Promote

(* The lookup of a promotion callback returns.                             *)
LEMMA NoticeLandsInv ==
  ASSUME Inv, NEW t \in Key \X Segment, NoticeLands(t)
  PROVE  Inv'
<1>1. CacheTyped'
  BY InvTyped, InvalidatedTyped DEF CacheTyped, NoticeLands
<1>2. Keeps(co, co')
  <2>1. Keeps(co, co)
    BY InvTyped DEF Keeps
  <2> QED BY <2>1, InvTyped, WaitersKeep DEF NoticeLands
<1>3. RequestsTyped'
  BY <1>2, InvTyped DEF RequestsTyped, Keeps, NoticeLands
<1> QED BY <1>1, <1>2, <1>3, KeepsIsStarts, StartsInv DEF NoticeLands

(* A step that changes nothing but the cache.                              *)
LEMMA CacheStepInv ==
  ASSUME Inv, UNCHANGED <<co, binding, call, req, children>>, CacheTyped'
  PROVE  Inv'
<1>1. RequestsTyped'
  BY InvTyped DEF RequestsTyped
<1>2. Keeps(co, co')
  BY InvTyped DEF Keeps
<1> QED BY <1>1, <1>2, KeepsIsStarts, StartsInv

(* The disk damages a file.                                                *)
LEMMA DamageInv == ASSUME Inv, NEW t \in Key \X Segment, Damage(t) PROVE Inv'
<1>1. CacheTyped'
  BY InvTyped DEF CacheTyped, Damage
<1> QED BY <1>1, CacheStepInv DEF Damage

(* The directory of a victim is deleted.                                   *)
LEMMA EvictFilesInv == ASSUME Inv, NEW k \in Key, EvictFiles(k) PROVE Inv'
<1>1. CacheTyped'
  BY InvTyped DEF CacheTyped, EvictFiles
<1> QED BY <1>1, CacheStepInv DEF EvictFiles

(* The row of a victim is deleted.                                         *)
LEMMA EvictRowInv == ASSUME Inv, EvictRow PROVE Inv'
<1>1. /\ assets' \subseteq assets /\ records' \subseteq records
      /\ complete' \subseteq complete /\ victim' = NoKey
  BY DEF EvictRow
<1>2. CacheTyped'
  BY <1>1, InvTyped DEF CacheTyped, EvictRow
<1> QED BY <1>2, CacheStepInv DEF EvictRow

-----------------------------------------------------------------------------
(* The three facts that make Inv an invariant, and what follows from it.   *)

(* A new coordinator has no session, job, probe, waiter or child.          *)
LEMMA InitInv == Init => Inv
<1> SUFFICES ASSUME Init PROVE Inv
  OBVIOUS
<1>1. 0 \in Segment /\ 0 \in 0 .. LeaseTicks
  BY BoundAssumption DEF Segment
<1> DEFINE age == [s \in SessionId |-> 0]
<1>2. age \in [SessionId -> 0 .. LeaseTicks]
  BY <1>1
<1>3. co = [live |-> {}, lease |-> NoSession, age |-> age, failed |-> {}, waiters |-> {},
            queue |-> <<>>, keys |-> {}, prefetch |-> NoJob, job |-> NoJob,
            probe |-> NoCall, closed |-> "open"]
  BY DEF Init
<1> HIDE DEF age
<1>4. <<>> \in Seq(Job)
  OBVIOUS
<1>5. co \in CoordinatorState
  BY <1>2, <1>3, <1>4 DEF CoordinatorState
<1>6. co.live = {} /\ co.waiters = {} /\ co.job = NoJob /\ co.probe = NoCall
  BY <1>3
<1>7. TypeOK
  BY <1>1, <1>5 DEF Init, TypeOK, IdleCall, IdleRequest
<1>8. SessionsExist
  BY <1>6 DEF Init, SessionsExist, IdleRequest
<1>9. ProbeHasCall
  BY <1>6, SentinelAssumption DEF Init, ProbeHasCall, IdleCall
<1>10. ChildrenCounted
  BY <1>6 DEF Init, ChildrenCounted, Running
<1> QED BY <1>7, <1>8, <1>9, <1>10 DEF Inv

(* A step that changes no variable.                                        *)
LEMMA StutterInv == Inv /\ UNCHANGED vars => Inv'
BY DEF Inv, TypeOK, SessionsExist, ProbeHasCall, ChildrenCounted, Running, vars

(* Every action of the coordinator keeps Inv.                              *)
LEMMA NextInv == Inv /\ [Next]_vars => Inv'
<1> SUFFICES ASSUME Inv, [Next]_vars PROVE Inv'
  OBVIOUS
<1>1. CASE Tick \/ Sweep \/ Close \/ CloseReturns
  BY <1>1, TickInv, SweepInv, CloseInv, CloseReturnsInv
<1>2. CASE JobStep
  BY <1>2, CapacityEnsuredInv, EncoderSpawnsInv, EncoderExitsInv, EncodeCompletesInv,
     EncodeFailsInv, ReportSegmentInv, ReportFailsInv, EvictRowInv DEF JobStep
<1>3. ASSUME NEW s \in SessionId, Heartbeat(s) \/ Release(s) \/ PlaybackFailure(s)
      PROVE  Inv'
  BY <1>3, HeartbeatInv, ReleaseInv, PlaybackFailureInv
<1>4. ASSUME NEW x \in Call, CallStep(x) PROVE Inv'
  BY <1>4, ReplacedInv, ProbeSucceedsInv, ProbeFailsInv DEF CallStep
<1>5. ASSUME NEW x \in Call, NEW b \in Binding, CreateSession(x, b) PROVE Inv'
  BY <1>5, CreateSessionInv
<1>6. ASSUME NEW r \in Request, RequestStep(r) \/ LookupFails(r) \/ Disconnect(r) PROVE Inv'
  BY <1>6, FirstLookupInv, SecondLookupInv, RespondInv, LookupFailsInv, DisconnectInv DEF RequestStep
<1>7. ASSUME NEW r \in Request, NEW s \in SessionId, NEW i \in Segment, SegmentCall(r, s, i)
      PROVE  Inv'
  BY <1>7, SegmentCallInv
<1>8. ASSUME NEW i \in Segment, Promote(i) PROVE Inv'
  BY <1>8, PromoteInv
<1>9. ASSUME NEW t \in Key \X Segment, NoticeLands(t) \/ Damage(t) PROVE Inv'
  BY <1>9, NoticeLandsInv, DamageInv
<1>10. ASSUME NEW k \in Key, EvictFiles(k) PROVE Inv'
  BY <1>10, EvictFilesInv
<1>11. CASE UNCHANGED vars
  BY <1>11, StutterInv
<1> QED BY <1>1, <1>2, <1>3, <1>4, <1>5, <1>6, <1>7, <1>8, <1>9, <1>10, <1>11 DEF Next

(* Every job, probe, session and request of a reachable state is accounted *)
(* for: the inductive invariant of the coordinator holds.                  *)
THEOREM InvHolds == Spec => []Inv
BY InitInv, NextInv, PTL DEF Spec

(* The coordinator's state stays of its declared types: in particular, no  *)
(* window beyond the end of an item is queued, and nothing is answered for *)
(* a request that has no session.                                          *)
THEOREM TypesHold == Spec => []TypeOK
<1>1. Inv => TypeOK
  BY DEF Inv
<1> QED BY <1>1, InvHolds, PTL

(* At most one FFmpeg or FFprobe process is alive at any time, for any     *)
(* number of devices, sessions, calls and requests.                        *)
THEOREM OneChildHolds == Spec => []OneChild
<1>1. Inv => OneChild
  BY DEF Inv, ChildrenCounted, OneChild
<1> QED BY <1>1, InvHolds, PTL

-----------------------------------------------------------------------------
(* Complete marks.  A row leaves the catalog in two ways only: a lookup    *)
(* that finds its file damaged, and the eviction of the asset.             *)

(* A lookup that deletes a row deletes the mark of the row's window.       *)
LEMMA InvalidatedWhole ==
  ASSUME CacheTyped, CompleteIsWhole, NEW t \in Key \X Segment, NEW found \in BOOLEAN,
         Invalidated(t, found)
  PROVE  CompleteIsWhole'
<1> SUFFICES ASSUME NEW m \in complete', NEW i \in WindowSegments(m[2])
             PROVE  <<m[1], i>> \in records'
  BY DEF CompleteIsWhole
<1>1. m \in complete
  BY DEF Invalidated
<1>2. <<m[1], i>> \in records
  BY <1>1 DEF CompleteIsWhole
<1>3. CASE <<m[1], i>> # t
  BY <1>2, <1>3 DEF Invalidated
<1>4. CASE <<m[1], i>> = t /\ ~(found /\ t \in records \ intact)
  BY <1>2, <1>4 DEF Invalidated
<1>5. CASE <<m[1], i>> = t /\ found /\ t \in records \ intact
  <2>1. m # <<t[1], WindowOf(t[2])>>
    BY <1>5 DEF Invalidated
  <2>2. WindowOf(i) = m[2]
    BY DEF WindowSegments
  <2>3. m = <<m[1], m[2]>>
    BY <1>1 DEF CacheTyped
  <2> QED BY <1>5, <2>1, <2>2, <2>3
<1> QED BY <1>3, <1>4, <1>5

(* A request that is not idle looks for a segment of the item it plays.    *)
LEMMA TargetTyped ==
  ASSUME Inv, NEW r \in Request, req[r].pc # "idle"
  PROVE  Target(r) \in Key \X Segment /\ req[r].found \in BOOLEAN
BY BindingAssumption DEF Inv, TypeOK, SessionsExist, Target, SessionKey

(* No step leaves a mark on a window that has lost a row.                  *)
LEMMA WholeNext == Inv /\ CompleteIsWhole /\ [Next]_vars => CompleteIsWhole'
<1> SUFFICES ASSUME Inv, CompleteIsWhole, [Next]_vars PROVE CompleteIsWhole'
  OBVIOUS
<1>1. CacheTyped
  BY InvTyped
<1>2. ASSUME records \subseteq records', complete' \subseteq complete
      PROVE  CompleteIsWhole'
  BY <1>2 DEF CompleteIsWhole
<1>3. CASE JobStep
  <2>1. CASE CapacityEnsured \/ EncoderSpawns \/ EncoderExits
    BY <1>2, <2>1 DEF CapacityEnsured, EncoderSpawns, EncoderExits, cacheVars
  <2>2. CASE EncodeCompletes
    <3>1. /\ \A i \in WindowSegments(co.job.window) : <<co.job.key, i>> \in records
          /\ complete' = complete \cup {<<co.job.key, co.job.window>>}
          /\ records' = records
      BY <2>2 DEF EncodeCompletes, JobKey
    <3> DEFINE k == co.job.key
               w == co.job.window
    <3> HIDE DEF k, w
    <3>2. /\ \A i \in WindowSegments(w) : <<k, i>> \in records
          /\ complete' = complete \cup {<<k, w>>}
      BY <3>1 DEF k, w
    <3>3. ASSUME NEW m \in complete', NEW i \in WindowSegments(m[2])
          PROVE  <<m[1], i>> \in records'
      <4>1. CASE m \in complete
        BY <3>1, <4>1 DEF CompleteIsWhole
      <4>2. CASE m = <<k, w>>
        <5>1. m[1] = k /\ m[2] = w
          BY <4>2
        <5> QED BY <3>1, <3>2, <5>1
      <4> QED BY <3>2, <4>1, <4>2
    <3> QED BY <3>3 DEF CompleteIsWhole
  <2>3. CASE EncodeFails
    BY <1>2, <2>3 DEF EncodeFails
  <2>4. CASE ReportSegment
    <3> DEFINE k == co.job.key
               i == co.job.window * SegmentsPerWindow + co.job.offset
    <3>1. Invalidated(<<k, i>>, <<k, i>> \in records)
      BY <2>4 DEF ReportSegment
    <3>2. CASE <<k, i>> \in records
      BY <1>1, <3>1, <3>2, InvalidatedWhole DEF CacheTyped
    <3>3. CASE <<k, i>> \notin records
      BY <1>2, <3>1, <3>3 DEF Invalidated
    <3> QED BY <3>2, <3>3
  <2>5. CASE EvictRow
    BY <2>5 DEF EvictRow, CompleteIsWhole
  <2>6. CASE ReportFails \/ JobEnds
    BY <1>2, <2>6 DEF ReportFails, JobEnds, cacheVars
  <2> QED BY <1>3, <2>1, <2>2, <2>3, <2>4, <2>5, <2>6 DEF JobStep
<1>4. CASE Tick \/ Sweep \/ Close \/ CloseReturns
  BY <1>2, <1>4 DEF Tick, Sweep, Close, CloseReturns, cacheVars
<1>5. ASSUME NEW s \in SessionId, Heartbeat(s) \/ Release(s) \/ PlaybackFailure(s)
      PROVE  CompleteIsWhole'
  BY <1>2, <1>5 DEF Heartbeat, Release, PlaybackFailure, cacheVars
<1>6. ASSUME NEW x \in Call, CallStep(x) PROVE CompleteIsWhole'
  BY <1>2, <1>6 DEF CallStep, Replaced, ProbeSucceeds, ProbeFails, cacheVars
<1>7. ASSUME NEW x \in Call, NEW b \in Binding, CreateSession(x, b) PROVE CompleteIsWhole'
  BY <1>2, <1>7 DEF CreateSession, cacheVars
<1>8. ASSUME NEW r \in Request, RequestStep(r) \/ LookupFails(r) \/ Disconnect(r)
      PROVE  CompleteIsWhole'
  <2>1. CASE FirstLookup(r)
    BY <1>1, <2>1, TargetTyped, InvalidatedWhole DEF FirstLookup
  <2>2. CASE SecondLookup(r)
    BY <1>1, <2>2, TargetTyped, InvalidatedWhole DEF SecondLookup
  <2>3. CASE Respond(r) \/ LookupFails(r) \/ Disconnect(r)
    BY <1>2, <2>3 DEF Respond, LookupFails, Disconnect, cacheVars
  <2> QED BY <1>8, <2>1, <2>2, <2>3 DEF RequestStep
<1>9. ASSUME NEW r \in Request, NEW s \in SessionId, NEW i \in Segment, SegmentCall(r, s, i)
      PROVE  CompleteIsWhole'
  BY <1>2, <1>9 DEF SegmentCall, cacheVars
<1>10. ASSUME NEW i \in Segment, Promote(i) PROVE CompleteIsWhole'
  BY <1>2, <1>10 DEF Promote
<1>11. ASSUME NEW t \in Key \X Segment, NoticeLands(t) \/ Damage(t) PROVE CompleteIsWhole'
  <2>1. CASE NoticeLands(t)
    BY <1>1, <2>1, InvalidatedWhole DEF NoticeLands
  <2>2. CASE Damage(t)
    BY <1>2, <2>2 DEF Damage
  <2> QED BY <1>11, <2>1, <2>2
<1>12. ASSUME NEW k \in Key, EvictFiles(k) PROVE CompleteIsWhole'
  BY <1>2, <1>12 DEF EvictFiles
<1>13. CASE UNCHANGED vars
  BY <1>2, <1>13 DEF vars
<1> QED BY <1>3, <1>4, <1>5, <1>6, <1>7, <1>8, <1>9, <1>10, <1>11, <1>12, <1>13 DEF Next

(* A window marked complete has a row for each of its segments: a lookup   *)
(* or an eviction that deletes a row takes the mark with it, and the       *)
(* encoder checks the rows before it sets the mark.                        *)
THEOREM CompleteIsWholeHolds == Spec => []CompleteIsWhole
<1>1. Init => CompleteIsWhole
  BY DEF Init, CompleteIsWhole
<1> QED BY <1>1, WholeNext, InvHolds, PTL DEF Spec

-----------------------------------------------------------------------------
(* Wake-ups.  segment() looks once more after it has registered its        *)
(* waiter; what that second look may have missed is on its way as the      *)
(* callback of a promotion.                                                *)
WakeSafe ==
  \A r \in co.waiters :
    /\ req[r].pc = "parked" \/ (req[r].pc = "recheck" /\ ~req[r].found)
    /\ Target(r) \in records \cap intact
    => Target(r) \in notices

(* A step in which waiters only leave, and no file becomes available.      *)
LEMMA WakeKept ==
  ASSUME Inv, WakeSafe, co'.waiters \subseteq co.waiters,
         \A r \in co'.waiters : req'[r] = req[r],
         \A s \in SessionId : binding[s] \in Binding => binding'[s] = binding[s],
         records' \subseteq records, intact' \subseteq intact,
         \A t \in notices : t \in notices' \/ t \notin intact'
                            \/ \A r \in co'.waiters : Target(r)' # t
  PROVE  WakeSafe'
<1> SUFFICES ASSUME NEW r \in co'.waiters,
                    req'[r].pc = "parked" \/ (req'[r].pc = "recheck" /\ ~req'[r].found),
                    Target(r)' \in records' \cap intact'
             PROVE  Target(r)' \in notices'
  BY DEF WakeSafe
<1>1. r \in co.waiters /\ r \in Request /\ req'[r] = req[r] /\ req[r].pc \in {"recheck", "parked", "failed"}
  BY InvTyped DEF RequestsTyped, CoordinatorState
<1>2. req[r].session \in SessionId /\ binding[req[r].session] \in Binding
  BY <1>1 DEF Inv, SessionsExist
<1>3. Target(r)' = Target(r) BY <1>1, <1>2 DEF Target, SessionKey
<1>4. Target(r) \in notices BY <1>1, <1>3 DEF WakeSafe
<1> QED BY <1>3, <1>4

(* The waiters of a request that moves on keep what they have.             *)
LEMMA OthersKeep ==
  ASSUME Inv, NEW r \in Request, NEW v, req' = [req EXCEPT ![r] = v]
  PROVE  \A q \in Request : q # r => req'[q] = req[q]
BY InvTyped DEF RequestsTyped

(* The steps of the active job and of the eviction.                        *)
LEMMA JobStepWakes ==
  ASSUME Inv, WakeSafe, JobStep
  PROVE  WakeSafe'
<1>1. co \in CoordinatorState /\ co'.waiters \subseteq co.waiters
  <2>1. co \in CoordinatorState BY InvTyped
  <2>2. ASSUME NEW p, Running(p), NEW q, co' = JobTo(q) PROVE co'.waiters = co.waiters
    BY <2>1, <2>2 DEF JobTo, Running, CoordinatorState
  <2>3. CASE CapacityEnsured \/ EncoderSpawns \/ EncoderExits \/ EncodeCompletes
    BY <2>1, <2>2, <2>3 DEF CapacityEnsured, EncoderSpawns, EncoderExits, EncodeCompletes
  <2>4. CASE EncodeFails
    <3>1. co.job # NoJob /\ \A s \in co.live : binding[s] \in Binding
      BY <2>4 DEF EncodeFails, Running, Inv, SessionsExist
    <3> QED BY <2>1, <2>4, <3>1, FailJobEnds DEF EncodeFails, Ends
  <2>5. CASE EvictRow BY <2>1, <2>5 DEF EvictRow
  <2>6. CASE ReportFails \/ JobEnds
    <3>1. co.job # NoJob /\ \A s \in co.live : binding[s] \in Binding
      BY <2>6 DEF ReportFails, JobEnds, Running, Inv, SessionsExist
    <3> QED BY <2>1, <2>6, <3>1, FailJobEnds, FinishJobEnds DEF ReportFails, JobEnds, Ends
  <2> QED BY <2>1, <2>3, <2>4, <2>5, <2>6, ReportTurn DEF JobStep
<1>2. UNCHANGED <<binding, req, intact, notices>> /\ records' \subseteq records
  <2>1. CASE CapacityEnsured \/ EncoderSpawns \/ EncoderExits \/ EncodeCompletes \/ EncodeFails
    BY <2>1 DEF CapacityEnsured, EncoderSpawns, EncoderExits, EncodeCompletes, EncodeFails, cacheVars
  <2>2. CASE ReportSegment BY <2>2 DEF ReportSegment, Invalidated
  <2>3. CASE EvictRow BY <2>3 DEF EvictRow
  <2>4. CASE ReportFails \/ JobEnds BY <2>4 DEF ReportFails, JobEnds, cacheVars
  <2> QED BY <2>1, <2>2, <2>3, <2>4 DEF JobStep
<1> QED BY <1>1, <1>2, WakeKept

(* No waiter comes, and a session that is bound stays bound.               *)
Fewer(c) == c \in CoordinatorState /\ c.waiters \subseteq co.waiters
StaysBound ==
  /\ co'.waiters \subseteq co.waiters
  /\ \A s \in SessionId : binding[s] \in Binding => binding'[s] = binding[s]

(* The sessions and the calls that open them: a session gets its binding   *)
(* before a request can name it.                                           *)
LEMMA SessionStepWakes ==
  ASSUME Inv, WakeSafe, UNCHANGED <<req, records, intact, notices>>,
         \/ Tick \/ Sweep \/ Close \/ CloseReturns
         \/ \E s \in SessionId : Heartbeat(s) \/ Release(s) \/ PlaybackFailure(s)
         \/ \E x \in Call : CallStep(x)
         \/ \E x \in Call, b \in Binding : CreateSession(x, b)
  PROVE  WakeSafe'
<1> SUFFICES StaysBound
  <2>1. \A r \in co'.waiters : req'[r] = req[r] OBVIOUS
  <2> QED BY <2>1, WakeKept DEF StaysBound
<1>1. co \in CoordinatorState BY InvTyped
<1>2. ASSUME NEW d, Keeps(co, d) PROVE Fewer(d) BY <1>2 DEF Keeps, Fewer
<1>3. ASSUME NEW c, Fewer(c), NEW b \in Binding, OpenSession(c, b) PROVE StaysBound
  <2>1. PICK s \in SessionId :
          /\ binding[s] = NoBinding
          /\ binding' = [binding EXCEPT ![s] = b]
          /\ co' = [c EXCEPT !.live = @ \cup {s}, !.lease = s, !.age[s] = 0]
    BY <1>3 DEF OpenSession
  <2>2. co'.waiters = c.waiters BY <1>3, <2>1 DEF CoordinatorState, Fewer
  <2>3. binding \in [SessionId -> Binding \cup {NoBinding}] BY DEF Inv, TypeOK
  <2> QED BY <1>3, <2>1, <2>2, <2>3, SentinelAssumption DEF Fewer, StaysBound
<1>4. ASSUME NEW c, Fewer(c), NEW x \in Call, NEW b \in Binding, Acquire(x, b, c) PROVE StaysBound
  <2>1. CASE OpenSession(c, b) BY <1>3, <1>4, <2>1
  <2>2. CASE co' = c /\ UNCHANGED binding BY <1>4, <2>2 DEF Fewer, StaysBound
  <2>3. CASE co' = [c EXCEPT !.probe = x] /\ UNCHANGED binding
    BY <1>4, <2>3 DEF CoordinatorState, Fewer, StaysBound
  <2> QED BY <1>4, <2>1, <2>2, <2>3 DEF Acquire
<1>5. Fewer(Swept) /\ \A s \in SessionId : Fewer(Renew(Swept, s)) /\ Fewer(Expire(Swept, {s}))
  <2>1. Keeps(co, Swept) BY <1>1, SweptKeeps
  <2>2. \A s \in SessionId : Keeps(co, Expire(Swept, {s}))
    BY <2>1, ExpireKeeps, KeepsKeeps DEF Keeps
  <2> QED BY <1>1, <1>2, <2>1, <2>2, RenewedKeeps
<1>6. CASE Tick \/ Close \/ CloseReturns
  <2>1. CASE Tick BY <1>1, <2>1 DEF Tick, CoordinatorState, StaysBound, cacheVars
  <2>2. CASE Close
    <3>1. co'.waiters = {} BY <1>1, <2>2 DEF Close, CoordinatorState
    <3> QED BY <2>2, <3>1 DEF Close, StaysBound, cacheVars
  <2>3. CASE CloseReturns BY <1>1, <2>3 DEF CloseReturns, CoordinatorState, StaysBound, cacheVars
  <2> QED BY <1>6, <2>1, <2>2, <2>3
<1>7. CASE Sweep BY <1>5, <1>7 DEF Sweep, Fewer, StaysBound, cacheVars
<1>8. ASSUME NEW s \in SessionId, Heartbeat(s) \/ Release(s) \/ PlaybackFailure(s) PROVE StaysBound
  <2>1. CASE Heartbeat(s) BY <1>5, <2>1 DEF Heartbeat, Fewer, StaysBound, cacheVars
  <2>2. CASE Release(s) BY <1>1, <1>2, <2>2, ExpireKeeps DEF Release, Fewer, StaysBound, cacheVars
  <2>3. CASE PlaybackFailure(s) BY <1>1, <2>3 DEF PlaybackFailure, CoordinatorState, StaysBound, cacheVars
  <2> QED BY <1>8, <2>1, <2>2, <2>3
<1>9. ASSUME NEW x \in Call, CallStep(x) PROVE StaysBound
  <2>1. \A y \in Call : call[y].pc # "idle" => call[y].binding \in Binding
    BY DEF Inv, ProbeHasCall
  <2>2. CASE Replaced(x)
    BY <1>1, <1>4, <2>1, <2>2 DEF Replaced, Fewer
  <2>3. CASE ProbeSucceeds(x)
    <3>1. Fewer([co EXCEPT !.probe = NoCall]) BY <1>1 DEF CoordinatorState, Fewer
    <3> QED BY <1>3, <2>1, <2>3, <3>1 DEF ProbeSucceeds
  <2>4. CASE ProbeFails(x) BY <1>1, <2>4 DEF ProbeFails, CoordinatorState, StaysBound, cacheVars
  <2> QED BY <1>9, <2>2, <2>3, <2>4 DEF CallStep
<1>10. ASSUME NEW x \in Call, NEW b \in Binding, CreateSession(x, b) PROVE StaysBound
  <2>1. CASE Acquire(x, b, Swept) BY <1>4, <1>5, <2>1
  <2>2. CASE co' = Swept /\ UNCHANGED binding BY <1>5, <2>2 DEF Fewer, StaysBound
  <2>3. CASE Swept.lease # NoSession /\ UNCHANGED binding
             /\ co' \in {Renew(Swept, Swept.lease), Expire(Swept, {Swept.lease})}
    <3>1. Swept.lease \in SessionId BY <1>5, <2>3 DEF CoordinatorState, Fewer
    <3> QED BY <1>5, <2>3, <3>1 DEF Fewer, StaysBound
  <2> QED BY <1>10, <2>1, <2>2, <2>3 DEF CreateSession
<1> QED BY <1>6, <1>7, <1>8, <1>9, <1>10

(* The first lookup registers a waiter that remembers a miss only if the   *)
(* row was not there.                                                      *)
LEMMA FirstLookupWakes ==
  ASSUME Inv, WakeSafe, NEW r \in Request, FirstLookup(r)
  PROVE  WakeSafe'
<1>1. co \in CoordinatorState /\ r \notin co.waiters BY InvTyped DEF RequestsTyped, FirstLookup
<1>2. records' \subseteq records /\ UNCHANGED <<binding, intact, notices>>
  BY DEF FirstLookup, Invalidated
<1>3. PICK v : req' = [req EXCEPT ![r] = v] BY DEF FirstLookup
<1>4. \A q \in Request : q # r => req'[q] = req[q] BY <1>3, OthersKeep
<1>5. CASE UNCHANGED co
  <2>1. \A q \in co'.waiters : req'[q] = req[q] BY <1>1, <1>4, <1>5 DEF CoordinatorState
  <2> QED BY <1>2, <1>5, <2>1, WakeKept
<1>6. CASE /\ co' = [co EXCEPT !.waiters = @ \cup {r}]
           /\ req' = [req EXCEPT ![r].pc = "recheck", ![r].found = Target(r) \in records']
  <2> SUFFICES ASSUME NEW q \in co'.waiters,
                      req'[q].pc = "parked" \/ (req'[q].pc = "recheck" /\ ~req'[q].found),
                      Target(q)' \in records' \cap intact'
               PROVE  Target(q)' \in notices'
    BY DEF WakeSafe
  <2>1. co'.waiters = co.waiters \cup {r} BY <1>1, <1>6 DEF CoordinatorState
  <2>2. req \in [Request -> RequestState] BY InvTyped DEF RequestsTyped, RequestState
  <2>3. req'[r].found = (Target(r) \in records') /\ req'[r].session = req[r].session
        /\ req'[r].segment = req[r].segment /\ req'[r].pc = "recheck"
    BY <1>6, <2>2 DEF RequestState
  <2>4. q # r
    <3>1. Target(r)' = Target(r) BY <1>2, <2>3 DEF Target, SessionKey
    <3> QED BY <2>3, <3>1
  <2>5. q \in co.waiters /\ q \in Request /\ req'[q] = req[q]
    BY <1>1, <1>4, <2>1, <2>4 DEF CoordinatorState
  <2>6. Target(q)' = Target(q) BY <1>2, <2>5 DEF Target, SessionKey
  <2> QED BY <1>2, <2>5, <2>6 DEF WakeSafe
<1> QED BY <1>5, <1>6 DEF FirstLookup

(* The second lookup: a hit answers everybody who waits for the segment,   *)
(* and a damaged file loses its row.                                       *)
LEMMA SecondLookupWakes ==
  ASSUME Inv, WakeSafe, NEW r \in Request, SecondLookup(r)
  PROVE  WakeSafe'
<1> DEFINE s == req[r].session
           i == req[r].segment
<1>1. /\ co \in CoordinatorState /\ s \in SessionId /\ binding[s] \in Binding /\ i \in Segment
      /\ req[r].pc = "recheck"
  BY InvTyped DEF RequestsTyped, SecondLookup
<1>2. co' = IF Valid(Target(r), req[r].found) THEN ResolveSegment(co, SessionKey(s), i)
            ELSE Enqueue(co, s, WindowOf(i))
  BY DEF SecondLookup
<1>3. Starts(co, Enqueue(co, s, WindowOf(i))) BY <1>1, WindowOfSegment, EnqueueStarts
<1>4. Keeps(co, ResolveSegment(co, SessionKey(s), i)) BY <1>1, WaitersKeep
<1>5. co'.waiters \subseteq co.waiters BY <1>2, <1>3, <1>4 DEF Starts, Keeps
<1>6. records' = IF req[r].found /\ Target(r) \notin intact THEN records \ {Target(r)} ELSE records
  BY DEF SecondLookup, Invalidated
<1>7. UNCHANGED <<binding, intact, notices>> BY DEF SecondLookup
<1>8. req \in [Request -> RequestState] BY InvTyped DEF RequestsTyped, RequestState
<1>9. /\ \A q \in Request : q # r => req'[q] = req[q]
      /\ req'[r].session = s /\ req'[r].segment = i
  BY <1>8 DEF SecondLookup, RequestState
<1>10. \A q \in Request : Target(q)' = Target(q) BY <1>7, <1>9 DEF Target, SessionKey
<1> SUFFICES ASSUME NEW q \in co'.waiters,
                    req'[q].pc = "parked" \/ (req'[q].pc = "recheck" /\ ~req'[q].found),
                    Target(q)' \in records' \cap intact'
             PROVE  Target(q)' \in notices'
  BY DEF WakeSafe
<1>11. q \in co.waiters /\ q \in Request /\ Target(q)' = Target(q)
  BY <1>1, <1>5, <1>10 DEF CoordinatorState
<1>12. CASE q # r BY <1>6, <1>7, <1>9, <1>11, <1>12 DEF WakeSafe
<1>13. CASE q = r
  <2>1. Target(r) \in records /\ Target(r) \in intact BY <1>6, <1>7, <1>11, <1>13
  <2>2. CASE ~req[r].found BY <1>1, <1>7, <1>11, <1>13, <2>1, <2>2 DEF WakeSafe
  <2>3. CASE req[r].found
    <3>1. co' = ResolveSegment(co, SessionKey(s), i) BY <1>2, <2>1, <2>3 DEF Valid
    <3>2. r \in SegmentWaiters(co, SessionKey(s), i)
      BY <1>11, <1>13 DEF SegmentWaiters, Target
    <3>3. r \notin co'.waiters BY <1>1, <3>1, <3>2 DEF ResolveSegment, CoordinatorState
    <3> QED BY <1>13, <3>3
  <2> QED BY <2>2, <2>3, <1>8 DEF RequestState
<1> QED BY <1>12, <1>13

LEMMA RequestStepWakes ==
  ASSUME Inv, WakeSafe, NEW r \in Request,
         \/ Respond(r) \/ LookupFails(r) \/ Disconnect(r)
         \/ \E s \in SessionId, i \in Segment : SegmentCall(r, s, i)
  PROVE  WakeSafe'
<1>1. co \in CoordinatorState /\ UNCHANGED <<binding, records, intact, notices>>
  BY InvTyped DEF Respond, LookupFails, Disconnect, SegmentCall, cacheVars
<1>2. ASSUME NEW v, req' = [req EXCEPT ![r] = v], co'.waiters \subseteq co.waiters, r \notin co'.waiters
      PROVE  WakeSafe'
  <2>1. \A q \in co'.waiters : req'[q] = req[q]
    BY <1>1, <1>2, OthersKeep DEF CoordinatorState
  <2> QED BY <1>1, <1>2, <2>1, WakeKept
<1>3. CASE Respond(r) BY <1>2, <1>3 DEF Respond
<1>4. CASE Disconnect(r)
  <2>1. CASE req[r].pc = "lookup" /\ req' = [req EXCEPT ![r].gone = TRUE] /\ UNCHANGED co
    <3>1. r \notin co.waiters BY <2>1, InvTyped DEF RequestsTyped
    <3> QED BY <1>2, <2>1, <3>1
  <2>2. CASE co' = CancelObsolete([co EXCEPT !.waiters = @ \ {r}]) /\ UNCHANGED req
    <3> DEFINE d == [co EXCEPT !.waiters = @ \ {r}]
    <3>1. d \in CoordinatorState /\ d.waiters = co.waiters \ {r} BY <1>1 DEF CoordinatorState
    <3> HIDE DEF d
    <3>2. CancelObsolete(d).waiters \subseteq d.waiters BY <3>1, CancelKeeps DEF Keeps
    <3>3. co'.waiters \subseteq co.waiters BY <2>2, <3>1, <3>2 DEF d
    <3> QED BY <1>1, <2>2, <3>3, WakeKept
  <2> QED BY <1>4, <2>1, <2>2 DEF Disconnect
<1>5. ASSUME NEW s \in SessionId, NEW i \in Segment, SegmentCall(r, s, i) PROVE WakeSafe'
  <2>1. co'.waiters \subseteq co.waiters BY <1>1, <1>5, RenewedKeeps DEF SegmentCall, Keeps
  <2>2. r \notin co.waiters BY <1>5, InvTyped DEF RequestsTyped, SegmentCall
  <2> QED BY <1>2, <1>5, <2>1, <2>2 DEF SegmentCall
<1>6. CASE LookupFails(r)
  <2>1. UNCHANGED co /\ req[r].pc \in {"lookup", "recheck"} BY <1>6 DEF LookupFails
  <2>2. PICK v : req' = [req EXCEPT ![r] = v] /\ (req[r].pc = "recheck" => v.pc = "failed")
    <3>1. req[r].pc = "recheck" => [req[r] EXCEPT !.pc = "failed"].pc = "failed"
      BY InvTyped DEF RequestsTyped
    <3> QED BY <1>6, <3>1 DEF LookupFails
  <2>3. \A q \in Request : q # r => req'[q] = req[q] BY <2>2, OthersKeep
  <2>4. r \in co.waiters => req'[r].pc = "failed" BY <2>1, <2>2, InvTyped DEF RequestsTyped
  <2>5. \A q \in Request : q # r => Target(q)' = Target(q)
    BY <1>1, <2>3 DEF Target, SessionKey
  <2> SUFFICES ASSUME NEW q \in co'.waiters,
                      req'[q].pc = "parked" \/ (req'[q].pc = "recheck" /\ ~req'[q].found),
                      Target(q)' \in records' \cap intact'
               PROVE  Target(q)' \in notices'
    BY DEF WakeSafe
  <2>6. q \in co.waiters /\ q \in Request /\ q # r
    BY <1>1, <2>1, <2>4 DEF CoordinatorState
  <2> QED BY <1>1, <2>3, <2>5, <2>6 DEF WakeSafe
<1> QED BY <1>3, <1>4, <1>5, <1>6

(* A promotion brings its notice with it, and a notice that lands settles  *)
(* the waiters it is for.                                                  *)
LEMMA PromotionWakes ==
  ASSUME Inv, WakeSafe,
         \/ \E i \in Segment : Promote(i)
         \/ \E t \in Key \X Segment : NoticeLands(t) \/ Damage(t)
         \/ \E k \in Key : EvictFiles(k)
  PROVE  WakeSafe'
<1>1. co \in CoordinatorState /\ UNCHANGED <<binding, req>>
  BY InvTyped DEF Promote, NoticeLands, Damage, EvictFiles
<1>2. \A q \in Request : Target(q)' = Target(q) BY <1>1 DEF Target, SessionKey
<1>3. ASSUME NEW i \in Segment, Promote(i) PROVE WakeSafe'
  <2>1. co' = co /\ \E t : /\ records' = records \cup {t} /\ intact' = intact \cup {t}
                          /\ notices' = notices \cup {t}
    BY <1>3 DEF Promote
  <2>2. \A q \in co.waiters : q \in Request BY <1>1 DEF CoordinatorState
  <2>3. PICK t : /\ records' = records \cup {t} /\ intact' = intact \cup {t}
                 /\ notices' = notices \cup {t}
    BY <2>1
  <2> SUFFICES ASSUME NEW q \in co'.waiters,
                      req'[q].pc = "parked" \/ (req'[q].pc = "recheck" /\ ~req'[q].found),
                      Target(q)' \in records' \cap intact'
               PROVE  Target(q)' \in notices'
    BY DEF WakeSafe
  <2>4. Target(q)' = Target(q) /\ q \in co.waiters BY <1>2, <2>1, <2>2
  <2> QED BY <1>1, <2>3, <2>4 DEF WakeSafe
<1>4. ASSUME NEW t \in Key \X Segment, NoticeLands(t) PROVE WakeSafe'
  <2>1. /\ notices' = notices \ {t} /\ intact' = intact /\ records' \subseteq records
        /\ co' = IF t \in intact THEN ResolveSegment(co, t[1], t[2]) ELSE co
    BY <1>4 DEF NoticeLands, Invalidated
  <2>2. co'.waiters = IF t \in intact THEN co.waiters \ SegmentWaiters(co, t[1], t[2]) ELSE co.waiters
    BY <1>1, <2>1 DEF ResolveSegment, CoordinatorState
  <2>3. t = <<t[1], t[2]>> BY <1>4
  <2>4. \A q \in co'.waiters : q \in Request /\ (t \in intact => Target(q) # t)
    BY <1>1, <2>2, <2>3 DEF SegmentWaiters, CoordinatorState
  <2>5. \A u \in notices : u \in notices' \/ u \notin intact' \/ \A q \in co'.waiters : Target(q)' # u
    BY <1>2, <2>1, <2>4
  <2>6. co'.waiters \subseteq co.waiters BY <2>2
  <2> QED BY <1>1, <2>1, <2>5, <2>6, WakeKept
<1>5. ASSUME NEW t \in Key \X Segment, Damage(t) PROVE WakeSafe'
  <2>1. UNCHANGED <<co, records, notices>> /\ intact' \subseteq intact BY <1>5 DEF Damage
  <2> QED BY <1>1, <2>1, WakeKept
<1>6. ASSUME NEW k \in Key, EvictFiles(k) PROVE WakeSafe'
  <2>1. UNCHANGED <<co, records, notices>> /\ intact' \subseteq intact BY <1>6 DEF EvictFiles
  <2> QED BY <1>1, <2>1, WakeKept
<1> QED BY <1>3, <1>4, <1>5, <1>6

LEMMA WakeNext == Inv /\ WakeSafe /\ [Next]_vars => WakeSafe'
<1> SUFFICES ASSUME Inv, WakeSafe, [Next]_vars PROVE WakeSafe' OBVIOUS
<1>1. CASE JobStep BY <1>1, JobStepWakes
<1>2. CASE \/ Tick \/ Sweep \/ Close \/ CloseReturns
           \/ \E s \in SessionId : Heartbeat(s) \/ Release(s) \/ PlaybackFailure(s)
           \/ \E x \in Call : CallStep(x)
           \/ \E x \in Call, b \in Binding : CreateSession(x, b)
  <2>1. UNCHANGED <<req, records, intact, notices>>
    BY <1>2 DEF Tick, Sweep, Close, CloseReturns, Heartbeat, Release, PlaybackFailure, CallStep,
                Replaced, ProbeSucceeds, ProbeFails, CreateSession, cacheVars
  <2> QED BY <1>2, <2>1, SessionStepWakes
<1>3. ASSUME NEW r \in Request, RequestStep(r) \/ LookupFails(r) \/ Disconnect(r) PROVE WakeSafe'
  BY <1>3, FirstLookupWakes, SecondLookupWakes, RequestStepWakes DEF RequestStep
<1>4. ASSUME NEW r \in Request, NEW s \in SessionId, NEW i \in Segment, SegmentCall(r, s, i)
      PROVE  WakeSafe'
  BY <1>4, RequestStepWakes
<1>5. CASE \/ \E i \in Segment : Promote(i)
           \/ \E t \in Key \X Segment : NoticeLands(t) \/ Damage(t)
           \/ \E k \in Key : EvictFiles(k)
  BY <1>5, PromotionWakes
<1>6. CASE UNCHANGED vars
  BY <1>6, WakeKept DEF vars
<1> QED BY <1>1, <1>2, <1>3, <1>4, <1>5, <1>6 DEF Next

(* segment() looks into the cache again after it has registered its        *)
(* waiter: a parked waiter whose segment can be served has a promotion     *)
(* callback on its way.                                                    *)
THEOREM NoLostWakeupHolds == Spec => []NoLostWakeup
<1>1. Init => WakeSafe BY DEF Init, WakeSafe
<1>2. WakeSafe => NoLostWakeup BY DEF WakeSafe, NoLostWakeup
<1> QED BY <1>1, <1>2, WakeNext, InvHolds, PTL DEF Spec

-----------------------------------------------------------------------------
(* One job per window, of a coordinator state c: what OneJobPerWindow says *)
(* of the present one.                                                     *)
OnePerWindow(c) ==
  /\ \A m, n \in DOMAIN c.queue : JobKey(c.queue[m]) = JobKey(c.queue[n]) => m = n
  /\ \A n \in DOMAIN c.queue :
       /\ JobKey(c.queue[n]) \in c.keys
       /\ c.job # NoJob => JobKey(c.queue[n]) # JobKey(c.job)

(* The helper leaves the queue alone, and the job on its window.           *)
SameLine(c, d) ==
  /\ d.queue = c.queue
  /\ d.keys = c.keys
  /\ d.job # NoJob => c.job # NoJob /\ JobKey(d.job) = JobKey(c.job)

LEMMA SameLineOne ==
  ASSUME NEW c, NEW d, OnePerWindow(c), SameLine(c, d)
  PROVE  OnePerWindow(d)
BY DEF OnePerWindow, SameLine

LEMMA SameLines ==
  ASSUME NEW c \in CoordinatorState
  PROVE  /\ c.job # NoJob => SameLine(c, Abort(c))
         /\ c.job # NoJob => SameLine(c, [c EXCEPT !.job.demand = TRUE])
         /\ \A s : SameLine(c, Renew(c, s))
         /\ \A k, i : SameLine(c, ResolveSegment(c, k, i)) /\ SameLine(c, RejectWindow(c, k, i))
         /\ SameLine(c, CancelObsolete(c))
<1>1. c.job # NoJob => SameLine(c, Abort(c))
  <2> SUFFICES ASSUME c.job # NoJob PROVE SameLine(c, Abort(c)) OBVIOUS
  <2>1. c.job \in Job BY DEF CoordinatorState
  <2>2. JobKey([c.job EXCEPT !.aborted = TRUE]) = JobKey(c.job) BY <2>1 DEF Job, JobKey
  <2>3. Abort(c) = [c EXCEPT !.job = [c.job EXCEPT !.aborted = TRUE]] BY DEF Abort
  <2>4. /\ Abort(c).queue = c.queue /\ Abort(c).keys = c.keys
        /\ Abort(c).job = [c.job EXCEPT !.aborted = TRUE]
    BY <2>3 DEF CoordinatorState
  <2> QED BY <2>2, <2>4 DEF SameLine
<1>2. c.job # NoJob => SameLine(c, [c EXCEPT !.job.demand = TRUE])
  <2> SUFFICES ASSUME c.job # NoJob PROVE SameLine(c, [c EXCEPT !.job.demand = TRUE]) OBVIOUS
  <2> DEFINE d == [c EXCEPT !.job.demand = TRUE]
  <2>1. c.job \in Job BY DEF CoordinatorState
  <2>2. JobKey([c.job EXCEPT !.demand = TRUE]) = JobKey(c.job) BY <2>1 DEF Job, JobKey
  <2>4. /\ d.queue = c.queue /\ d.keys = c.keys /\ d.job = [c.job EXCEPT !.demand = TRUE]
    BY DEF CoordinatorState
  <2> QED BY <2>2, <2>4 DEF SameLine
<1>3. \A s : SameLine(c, Renew(c, s)) BY DEF SameLine, Renew, CoordinatorState
<1>4. \A k, i : SameLine(c, ResolveSegment(c, k, i)) /\ SameLine(c, RejectWindow(c, k, i))
  BY DEF SameLine, ResolveSegment, RejectWindow, CoordinatorState
<1>5. SameLine(c, CancelObsolete(c)) BY <1>1 DEF SameLine, CancelObsolete
<1> QED BY <1>1, <1>2, <1>3, <1>4, <1>5

(* Without picks its jobs at different positions.                          *)
LEMMA WithoutPicks ==
  ASSUME NEW q \in Seq(Job), NEW X
  PROVE  \E f \in [DOMAIN Without(q, X) -> DOMAIN q] :
            /\ \A n \in DOMAIN Without(q, X) : Without(q, X)[n] = q[f[n]]
            /\ \A m, n \in DOMAIN Without(q, X) : f[m] = f[n] => m = n
<1> DEFINE K == Kept(q, X)
           D == 1 .. Cardinality(K)
           Pos(n) == CHOOSE i \in K : Cardinality({j \in K : j <= i}) = n
           f == [n \in D |-> Pos(n)]
<1>1. Without(q, X) = [n \in D |-> q[Pos(n)]] BY DEF Without
<1>2. \A n \in D : Pos(n) \in K /\ Cardinality({j \in K : j <= Pos(n)}) = n
  <2> TAKE n \in D
  <2>1. n \in 1 .. Cardinality(Kept(q, X)) OBVIOUS
  <2> HIDE DEF K, D, Pos, f
  <2>2. \E i \in Kept(q, X) : Cardinality({j \in Kept(q, X) : j <= i}) = n BY <2>1, KeptRank
  <2>3. \E i \in K : Cardinality({j \in K : j <= i}) = n BY <2>2 DEF K
  <2> QED BY <2>3 DEF Pos
<1>3. K \subseteq DOMAIN q BY DEF Kept
<1> HIDE DEF K, Pos, D
<1>4. f \in [D -> DOMAIN q]
  <2>1. \A n \in D : f[n] \in DOMAIN q BY <1>2, <1>3
  <2> QED BY <2>1
<1>5. \A m, n \in D : f[m] = f[n] => m = n BY <1>2
<1>6. DOMAIN Without(q, X) = D BY <1>1
<1>7. \A n \in D : Without(q, X)[n] = q[f[n]] BY <1>1
<1> HIDE DEF f
<1> QED BY <1>4, <1>5, <1>6, <1>7

(* Expiring sessions takes jobs out of the queue and leaves their keys.    *)
LEMMA ExpireOne ==
  ASSUME NEW c \in CoordinatorState, OnePerWindow(c), NEW X
  PROVE  OnePerWindow(Expire(c, X))
<1> DEFINE d == Expire(c, X)
           q == Without(c.queue, X)
<1>1. /\ d.queue = q /\ d.keys = c.keys
      /\ d.job = IF OwnedBy(c.job, X) THEN [c.job EXCEPT !.aborted = TRUE] ELSE c.job
  BY DEF Expire, CoordinatorState
<1>2. d.job # NoJob => c.job # NoJob /\ JobKey(d.job) = JobKey(c.job)
  <2>1. CASE OwnedBy(c.job, X)
    <3>1. c.job \in Job /\ c.job # NoJob BY <2>1 DEF CoordinatorState, OwnedBy
    <3> QED BY <1>1, <2>1, <3>1 DEF Job, JobKey
  <2>2. CASE ~OwnedBy(c.job, X) BY <1>1, <2>2
  <2> QED BY <2>1, <2>2
<1>3. PICK f \in [DOMAIN q -> DOMAIN c.queue] :
         /\ \A n \in DOMAIN q : q[n] = c.queue[f[n]]
         /\ \A m, n \in DOMAIN q : f[m] = f[n] => m = n
  BY WithoutPicks DEF CoordinatorState
<1> HIDE DEF d, q
<1>4. \A m, n \in DOMAIN q : JobKey(q[m]) = JobKey(q[n]) => m = n
  BY <1>3 DEF OnePerWindow
<1>5. \A n \in DOMAIN q :
         /\ JobKey(q[n]) \in d.keys
         /\ d.job # NoJob => JobKey(q[n]) # JobKey(d.job)
  <2> TAKE n \in DOMAIN q
  <2>1. f[n] \in DOMAIN c.queue /\ q[n] = c.queue[f[n]] BY <1>3
  <2>2. /\ JobKey(c.queue[f[n]]) \in c.keys
        /\ c.job # NoJob => JobKey(c.queue[f[n]]) # JobKey(c.job)
    BY <2>1 DEF OnePerWindow
  <2> QED BY <1>1, <1>2, <2>1, <2>2
<1>6. OnePerWindow(d) BY <1>1, <1>4, <1>5 DEF OnePerWindow
<1> QED BY <1>6 DEF d

(* startNextJob takes a prefix of the line away, with its keys, and starts *)
(* the last job of it.                                                     *)
LEMMA StartNextOne ==
  ASSUME NEW c \in CoordinatorState, OnePerWindow(c)
  PROVE  OnePerWindow(StartNext(c))
<1>1. CASE Blocked(c) BY <1>1 DEF StartNext
<1>2. CASE ~Blocked(c)
  <2> DEFINE line == IF c.prefetch = NoJob THEN c.queue ELSE Append(c.queue, c.prefetch)
             usable == {i \in DOMAIN line : line[i].session \in c.live}
             turn == IF usable = {} THEN Len(line)
                     ELSE CHOOSE i \in usable : \A n \in usable : i <= n
             next == IF usable = {} THEN NoJob ELSE [line[turn] EXCEPT !.phase = "capacity"]
             queue == SubSeq(c.queue, turn + 1, Len(c.queue))
             prefetch == IF turn > Len(c.queue) THEN NoJob ELSE c.prefetch
             keys == c.keys \ {JobKey(line[i]) : i \in 1 .. turn}
             d == StartNext(c)
  <2>1. d = [c EXCEPT !.queue = queue, !.prefetch = prefetch, !.keys = keys, !.job = next]
    BY <1>2 DEF StartNext
  <2>2. c.queue \in Seq(Job) /\ c.prefetch \in Job \cup {NoJob}
    BY DEF CoordinatorState
  <2>3. /\ line \in Seq(Job)
        /\ \A i \in 1 .. Len(c.queue) : i \in DOMAIN line /\ line[i] = c.queue[i]
    BY <2>2, AppendProperties, LenProperties
  <2> HIDE DEF line
  <2>4. DOMAIN line = 1 .. Len(line) /\ Len(line) \in Nat /\ Len(c.queue) \in Nat
        /\ DOMAIN c.queue = 1 .. Len(c.queue)
    BY <2>2, <2>3, LenProperties
  <2>5. usable # {} => turn \in usable
    <3> SUFFICES ASSUME usable # {} PROVE turn \in usable
      OBVIOUS
    <3>1. usable \in SUBSET Nat
      BY <2>4
    <3>2. \E i \in usable : \A n \in usable : i <= n
      BY <3>1, LeastNatural
    <3> QED BY <3>2
  <2>6. turn \in 0 .. Len(line)
    BY <2>4, <2>5
  <2>7. next # NoJob => turn \in 1 .. Len(line) /\ JobKey(next) = JobKey(line[turn])
    <3> SUFFICES ASSUME usable # {}
                 PROVE  turn \in 1 .. Len(line) /\ JobKey(next) = JobKey(line[turn])
      OBVIOUS
    <3>1. turn \in 1 .. Len(line) BY <2>4, <2>5
    <3>2. line[turn] \in Job BY <2>3, <2>4, <3>1, ElementOfSeq
    <3> QED BY <3>1, <3>2 DEF Job, JobKey
  <2> HIDE DEF usable, turn, next
  <2>8. /\ DOMAIN queue = 1 .. Len(queue)
        /\ \A n \in DOMAIN queue : turn + n \in DOMAIN c.queue /\ queue[n] = c.queue[turn + n] /\ n \in Nat \ {0}
    <3>1. \A i \in turn + 1 .. Len(c.queue) : c.queue[i] \in Job
      BY <2>2, <2>4, <2>6, ElementOfSeq
    <3>2. turn \in Nat BY <2>4, <2>6
    <3>3. /\ Len(queue) = (IF turn + 1 <= Len(c.queue) THEN Len(c.queue) - turn ELSE 0)
          /\ \A i \in 1 .. Len(queue) : queue[i] = c.queue[turn + 1 + i - 1]
          /\ queue \in Seq(Job)
      BY <2>4, <3>1, <3>2, SubSeqProperties
    <3> HIDE DEF queue
    <3>4. DOMAIN queue = 1 .. Len(queue) BY <3>3, LenProperties
    <3> QED BY <2>4, <3>2, <3>3, <3>4
  <2>9. /\ d.queue = queue /\ d.keys = keys /\ d.job = next
    BY <2>1 DEF CoordinatorState
  <2> HIDE DEF queue, d
  <2>10. \A n \in DOMAIN queue : \A i \in 1 .. turn :
           i \in DOMAIN c.queue /\ line[i] = c.queue[i] /\ JobKey(queue[n]) # JobKey(line[i])
    <3> TAKE n \in DOMAIN queue
    <3> TAKE i \in 1 .. turn
    <3>1. turn + n \in DOMAIN c.queue /\ queue[n] = c.queue[turn + n] /\ n \in Nat \ {0}
      BY <2>8
    <3>2. i \in DOMAIN c.queue /\ line[i] = c.queue[i] /\ i # turn + n
      BY <2>3, <2>4, <2>6, <3>1
    <3> QED BY <3>1, <3>2 DEF OnePerWindow
  <2>11. \A m, n \in DOMAIN queue : JobKey(queue[m]) = JobKey(queue[n]) => m = n
    <3> TAKE m, n \in DOMAIN queue
    <3>1. /\ turn + n \in DOMAIN c.queue /\ queue[n] = c.queue[turn + n] /\ n \in Nat
          /\ turn + m \in DOMAIN c.queue /\ queue[m] = c.queue[turn + m] /\ m \in Nat
      BY <2>8
    <3>2. JobKey(queue[m]) = JobKey(queue[n]) => turn + m = turn + n BY <3>1 DEF OnePerWindow
    <3>3. turn \in Nat BY <2>4, <2>6
    <3> QED BY <3>1, <3>2, <3>3
  <2>12. \A n \in DOMAIN queue :
           /\ JobKey(queue[n]) \in keys
           /\ next # NoJob => JobKey(queue[n]) # JobKey(next)
    <3> TAKE n \in DOMAIN queue
    <3>1. JobKey(queue[n]) \in c.keys BY <2>8 DEF OnePerWindow
    <3>2. JobKey(queue[n]) \in keys BY <2>10, <3>1
    <3>3. next # NoJob => turn \in 1 .. turn BY <2>7
    <3> QED BY <2>7, <2>10, <3>2, <3>3
  <2>13. OnePerWindow(d) BY <2>9, <2>11, <2>12 DEF OnePerWindow
  <2> QED BY <2>13 DEF d
<1> QED BY <1>1, <1>2

(* A queue with one job more, of a window that is on no other job.         *)
LEMMA AddedOne ==
  ASSUME NEW c, NEW d, OnePerWindow(c), NEW u, u \notin c.keys,
         c.job # NoJob => JobKey(c.job) # u, d.keys = c.keys \cup {u},
         d.job # NoJob => c.job # NoJob /\ JobKey(d.job) = JobKey(c.job),
         NEW p, JobKey(d.queue[p]) = u, NEW g,
         \A n \in DOMAIN d.queue :
           n # p => g[n] \in DOMAIN c.queue /\ d.queue[n] = c.queue[g[n]],
         \A m, n \in DOMAIN d.queue : g[m] = g[n] => m = n
  PROVE  OnePerWindow(d)
<1>1. \A n \in DOMAIN d.queue : n # p =>
         /\ JobKey(d.queue[n]) \in c.keys
         /\ d.job # NoJob => JobKey(d.queue[n]) # JobKey(d.job)
  BY DEF OnePerWindow
<1>2. \A m, n \in DOMAIN d.queue : JobKey(d.queue[m]) = JobKey(d.queue[n]) => m = n
  <2> TAKE m, n \in DOMAIN d.queue
  <2>1. CASE m # p /\ n # p
    <3>1. /\ g[m] \in DOMAIN c.queue /\ d.queue[m] = c.queue[g[m]]
          /\ g[n] \in DOMAIN c.queue /\ d.queue[n] = c.queue[g[n]]
      BY <2>1
    <3>2. JobKey(d.queue[m]) = JobKey(d.queue[n]) => g[m] = g[n] BY <3>1 DEF OnePerWindow
    <3> QED BY <3>2
  <2>2. CASE m = p \/ n = p BY <1>1, <2>2
  <2> QED BY <2>1, <2>2
<1> QED BY <1>1, <1>2 DEF OnePerWindow

(* enqueueDemand adds a window that is on no other job: not the active     *)
(* window, and not a queued key.                                           *)
LEMMA EnqueueOne ==
  ASSUME NEW c \in CoordinatorState, OnePerWindow(c),
         NEW s \in SessionId, binding[s] \in Binding, NEW w \in Window
  PROVE  OnePerWindow(Enqueue(c, s, w))
<1> DEFINE k == SessionKey(s)
           idle == c.job # NoJob /\ ~c.job.demand /\ WindowWaiters(c, c.job.key, c.job.window) = {}
           yielded == IF idle THEN Abort(c) ELSE c
           front == [c.prefetch EXCEPT !.demand = TRUE]
           early == <<front>> \o yielded.queue
           late == Append(yielded.queue, QueuedJob(s, w, TRUE))
           first == [yielded EXCEPT !.queue = early, !.prefetch = NoJob]
           last == [yielded EXCEPT !.queue = late]
           added == IF OnWindow(c.prefetch, k, w) THEN first ELSE last
           keys == added.keys \cup {<<k, w>>}
           queued == [added EXCEPT !.keys = keys]
<1>1. CASE OnWindow(c.job, k, w)
  <2>1. c.job # NoJob BY <1>1 DEF OnWindow
  <2>2. Enqueue(c, s, w) = [c EXCEPT !.job.demand = TRUE] BY <1>1 DEF Enqueue
  <2> QED BY <2>1, <2>2, SameLines, SameLineOne
<1>2. CASE ~OnWindow(c.job, k, w) /\ AlreadyQueued(c, k, w)
  BY <1>2 DEF Enqueue
<1>3. CASE ~OnWindow(c.job, k, w) /\ ~AlreadyQueued(c, k, w)
  <2>1. Enqueue(c, s, w) = StartNext(queued)
    BY <1>3 DEF Enqueue
  <2>2. <<k, w>> \notin c.keys /\ (c.job # NoJob => JobKey(c.job) # <<k, w>>)
    BY <1>3 DEF AlreadyQueued, OnWindow, JobKey
  <2>3. yielded \in CoordinatorState /\ SameLine(c, yielded) /\ yielded.prefetch = c.prefetch
    <3>1. CASE idle
      <4>1. Abort(c).prefetch = c.prefetch BY DEF Abort, CoordinatorState
      <4> QED BY <3>1, <4>1, AbortKeeps, SameLines DEF Keeps
    <3>2. CASE ~idle BY <3>2 DEF SameLine
    <3> QED BY <3>1, <3>2
  <2>4. k \in Key
    BY BindingAssumption DEF SessionKey
  <2>5. /\ QueuedJob(s, w, TRUE) \in Job
        /\ JobKey(QueuedJob(s, w, TRUE)) = <<k, w>>
    BY QueuedJobType DEF QueuedJob, JobKey
  <2> HIDE DEF idle, yielded, k
  <2>6. OnWindow(c.prefetch, k, w) => front \in Job /\ JobKey(front) = <<k, w>>
    <3> SUFFICES ASSUME OnWindow(c.prefetch, k, w) PROVE front \in Job /\ JobKey(front) = <<k, w>>
      OBVIOUS
    <3>1. c.prefetch \in Job BY DEF OnWindow, CoordinatorState
    <3>2. JobKey(front) = <<c.prefetch.key, c.prefetch.window>> BY <3>1 DEF Job, JobKey
    <3> QED BY <3>1, <3>2, JobAborted DEF OnWindow
  <2> HIDE DEF front
  <2>7. yielded.queue \in Seq(Job) /\ yielded.keys = c.keys /\ yielded.queue = c.queue
    BY <2>3 DEF CoordinatorState, SameLine
  <2>8. \A n \in DOMAIN c.queue : JobKey(c.queue[n]) # <<k, w>>
    BY <2>2 DEF OnePerWindow
  <2>9. OnWindow(c.prefetch, k, w)
          => /\ early \in Seq(Job) /\ DOMAIN early = 1 .. Len(c.queue) + 1
             /\ early[1] = front
             /\ \A n \in DOMAIN early : n # 1 => n - 1 \in DOMAIN c.queue /\ early[n] = c.queue[n - 1]
    <3> SUFFICES ASSUME OnWindow(c.prefetch, k, w)
                 PROVE /\ early \in Seq(Job) /\ DOMAIN early = 1 .. Len(c.queue) + 1
                       /\ early[1] = front
                       /\ \A n \in DOMAIN early : n # 1 => n - 1 \in DOMAIN c.queue /\ early[n] = c.queue[n - 1]
      OBVIOUS
    <3>1. <<front>> \in Seq(Job) /\ Len(<<front>>) = 1 /\ <<front>>[1] = front BY <2>6
    <3>2. Len(c.queue) \in Nat /\ DOMAIN c.queue = 1 .. Len(c.queue) BY <2>7, LenProperties
    <3>3. /\ early \in Seq(Job) /\ Len(early) = 1 + Len(c.queue)
          /\ \A i \in 1 .. 1 + Len(c.queue) :
               early[i] = IF i <= 1 THEN <<front>>[i] ELSE c.queue[i - 1]
      BY <2>7, <3>1, ConcatProperties
    <3> HIDE DEF early
    <3>4. DOMAIN early = 1 .. Len(early) BY <3>3, LenProperties
    <3> QED BY <3>1, <3>2, <3>3, <3>4
  <2>10. /\ late \in Seq(Job) /\ DOMAIN late = 1 .. Len(c.queue) + 1
         /\ late[Len(c.queue) + 1] = QueuedJob(s, w, TRUE)
         /\ \A n \in DOMAIN late : n # Len(c.queue) + 1 => n \in DOMAIN c.queue /\ late[n] = c.queue[n]
    <3>1. Len(c.queue) \in Nat /\ DOMAIN c.queue = 1 .. Len(c.queue) BY <2>7, LenProperties
    <3>2. late = Append(c.queue, QueuedJob(s, w, TRUE)) BY <2>7
    <3>3. c.queue \in Seq(Job) BY <2>7
    <3> HIDE DEF late, k, first, last, added, keys, queued, front, early
    <3>4. /\ late \in Seq(Job) /\ Len(late) = Len(c.queue) + 1
          /\ \A i \in 1 .. Len(c.queue) : late[i] = c.queue[i]
          /\ late[Len(c.queue) + 1] = QueuedJob(s, w, TRUE)
      <4>1. ASSUME NEW q \in Seq(Job), NEW e \in Job
            PROVE  /\ Append(q, e) \in Seq(Job) /\ Len(Append(q, e)) = Len(q) + 1
                   /\ \A i \in 1 .. Len(q) : Append(q, e)[i] = q[i]
                   /\ Append(q, e)[Len(q) + 1] = e
        BY AppendProperties
      <4> QED BY <2>5, <3>2, <3>3, <4>1
    <3>5. DOMAIN late = 1 .. Len(late) BY <3>4, LenProperties
    <3> QED BY <3>1, <3>4, <3>5
  <2> HIDE DEF early, late
  <2>11. added \in CoordinatorState
    <3>1. CASE OnWindow(c.prefetch, k, w) BY <2>3, <2>9, <3>1 DEF CoordinatorState
    <3>2. CASE ~OnWindow(c.prefetch, k, w) BY <2>3, <2>10, <3>2 DEF CoordinatorState
    <3> QED BY <3>1, <3>2
  <2>12. /\ added.queue = IF OnWindow(c.prefetch, k, w) THEN early ELSE late
         /\ added.keys = c.keys /\ added.job = yielded.job
    <3>1. CASE OnWindow(c.prefetch, k, w) BY <2>3, <2>7, <3>1 DEF CoordinatorState
    <3>2. CASE ~OnWindow(c.prefetch, k, w) BY <2>3, <2>7, <3>2 DEF CoordinatorState
    <3> QED BY <3>1, <3>2
  <2> HIDE DEF added
  <2>13. keys \in SUBSET (Key \X Window)
    BY <2>4, <2>11 DEF CoordinatorState
  <2>14. keys = c.keys \cup {<<k, w>>} BY <2>12
  <2> HIDE DEF keys
  <2>15. /\ queued \in CoordinatorState
         /\ queued.queue = added.queue /\ queued.job = added.job /\ queued.keys = keys
    BY <2>11, <2>13 DEF CoordinatorState
  <2> HIDE DEF queued
  <2>16. queued.job # NoJob => c.job # NoJob /\ JobKey(queued.job) = JobKey(c.job)
    BY <2>3, <2>12, <2>15 DEF SameLine
  <2>17. OnePerWindow(queued)
    <3>1. Len(c.queue) \in Nat /\ DOMAIN c.queue = 1 .. Len(c.queue) BY <2>7, LenProperties
    <3>2. CASE OnWindow(c.prefetch, k, w)
      <4> DEFINE g == [n \in DOMAIN early |-> n - 1]
      <4>1. \A n \in DOMAIN early : n # 1 => g[n] \in DOMAIN c.queue /\ early[n] = c.queue[g[n]]
        BY <2>9, <3>2
      <4>2. \A m, n \in DOMAIN early : g[m] = g[n] => m = n BY <2>9, <3>1, <3>2
      <4>3. queued.queue = early BY <2>12, <2>15, <3>2
      <4>4. JobKey(early[1]) = <<k, w>> BY <2>6, <2>9, <3>2
      <4> HIDE DEF g
      <4> QED BY <2>2, <2>14, <2>15, <2>16, <4>1, <4>2, <4>3, <4>4, AddedOne
    <3>3. CASE ~OnWindow(c.prefetch, k, w)
      <4> DEFINE p == Len(c.queue) + 1
                 g == [n \in DOMAIN late |-> n]
      <4>1. \A n \in DOMAIN late : n # p => g[n] \in DOMAIN c.queue /\ late[n] = c.queue[g[n]]
        BY <2>10
      <4>2. \A m, n \in DOMAIN late : g[m] = g[n] => m = n OBVIOUS
      <4>3. queued.queue = late BY <2>12, <2>15, <3>3
      <4>4. JobKey(late[p]) = <<k, w>> BY <2>5, <2>10
      <4> HIDE DEF g, p
      <4> QED BY <2>2, <2>14, <2>15, <2>16, <4>1, <4>2, <4>3, <4>4, AddedOne
    <3> QED BY <3>2, <3>3
  <2> QED BY <2>1, <2>15, <2>17, StartNextOne
<1> QED BY <1>1, <1>2, <1>3

(* queuePrefetch sets the prefetch, which is not in the queue yet.         *)
LEMMA QueuePrefetchOne ==
  ASSUME NEW c \in CoordinatorState, OnePerWindow(c),
         NEW s \in SessionId, binding[s] \in Binding, NEW w \in Nat
  PROVE  OnePerWindow(QueuePrefetch(c, s, w))
<1> DEFINE j == QueuedJob(s, w, FALSE)
           d == [c EXCEPT !.prefetch = j]
<1>1. CASE QueuePrefetch(c, s, w) = c BY <1>1
<1>2. CASE QueuePrefetch(c, s, w) # c
  <2>1. QueuePrefetch(c, s, w) = StartNext(d) /\ ~BeyondEnd(w)
    BY <1>2 DEF QueuePrefetch
  <2>2. WindowCount \in Nat
    <3>1. SegmentCount - 1 \in Segment
      BY BoundAssumption DEF Segment
    <3>2. \A a, n \in Nat : n > 0 => a \div n \in Nat
      BY SMT
    <3> QED BY <3>1, <3>2, BoundAssumption DEF WindowCount, WindowOf, Segment
  <2>3. w \in Window BY <2>1, <2>2 DEF BeyondEnd, Window
  <2>4. j \in Job BY <2>3, QueuedJobType
  <2> HIDE DEF j
  <2>5. d \in CoordinatorState /\ d.queue = c.queue /\ d.keys = c.keys /\ d.job = c.job
    BY <2>4 DEF CoordinatorState
  <2> HIDE DEF d
  <2> QED BY <2>1, <2>5, StartNextOne, SameLineOne DEF SameLine
<1> QED BY <1>1, <1>2

(* The finally block of runJob frees the slot before the queue moves.      *)
LEMMA FinishJobOne ==
  ASSUME NEW c \in CoordinatorState, OnePerWindow(c), c.job # NoJob,
         \A s \in c.live : binding[s] \in Binding, NEW done \in BOOLEAN
  PROVE  OnePerWindow(FinishJob(c, done))
<1> DEFINE j == c.job
           freed == [c EXCEPT !.job = NoJob]
           next == IF done /\ j.demand /\ j.session \in c.live
                     THEN QueuePrefetch(freed, j.session, j.window + 1) ELSE freed
<1>1. FinishJob(c, done) = StartNext(next) BY DEF FinishJob
<1>2. /\ freed \in CoordinatorState
      /\ freed.queue = c.queue /\ freed.keys = c.keys /\ freed.job = NoJob
  BY DEF CoordinatorState
<1> HIDE DEF freed
<1>3. OnePerWindow(freed) BY <1>2, SameLineOne DEF SameLine
<1>4. next \in CoordinatorState /\ OnePerWindow(next)
  <2>1. CASE done /\ j.demand /\ j.session \in c.live
    <3>1. j.session \in SessionId /\ binding[j.session] \in Binding
      BY <2>1 DEF CoordinatorState
    <3>2. j.window + 1 \in Nat
      <4>1. j \in Job BY DEF CoordinatorState
      <4> QED BY <4>1 DEF Job, Window
    <3> QED BY <1>2, <1>3, <2>1, <3>1, <3>2, QueuePrefetchOne, QueuePrefetchStarts DEF Starts
  <2>2. CASE ~(done /\ j.demand /\ j.session \in c.live) BY <1>2, <1>3, <2>2
  <2> QED BY <2>1, <2>2
<1> HIDE DEF next
<1> QED BY <1>1, <1>4, StartNextOne

(* The catch block of runJob.                                              *)
LEMMA FailJobOne ==
  ASSUME NEW c \in CoordinatorState, OnePerWindow(c), c.job # NoJob,
         \A s \in c.live : binding[s] \in Binding, NEW done \in BOOLEAN
  PROVE  OnePerWindow(FailJob(c, done))
<1> DEFINE noted == IF ~c.job.aborted /\ c.job.session \in c.live
                      THEN [c EXCEPT !.failed = @ \cup {c.job.session}] ELSE c
           rejected == RejectWindow(noted, c.job.key, c.job.window)
<1>1. FailJob(c, done) = FinishJob(rejected, done) BY DEF FailJob
<1>2. /\ noted \in CoordinatorState /\ noted.live = c.live
      /\ noted.queue = c.queue /\ noted.keys = c.keys /\ noted.job = c.job
  <2>1. CASE ~c.job.aborted /\ c.job.session \in c.live
    <3> DEFINE failed == c.failed \cup {c.job.session}
    <3>1. failed \in SUBSET SessionId BY <2>1 DEF CoordinatorState
    <3>2. noted = [c EXCEPT !.failed = failed] BY <2>1
    <3> HIDE DEF failed, noted
    <3> QED BY <3>1, <3>2 DEF CoordinatorState
  <2>2. CASE ~(~c.job.aborted /\ c.job.session \in c.live) BY <2>2
  <2> QED BY <2>1, <2>2
<1> HIDE DEF noted
<1>3. Keeps(noted, rejected) /\ SameLine(noted, rejected) BY <1>2, WaitersKeep, SameLines
<1> HIDE DEF rejected
<1>4. OnePerWindow(rejected) /\ rejected \in CoordinatorState /\ rejected.job # NoJob
      /\ \A s \in rejected.live : binding[s] \in Binding
  BY <1>2, <1>3, SameLineOne DEF SameLine, Keeps
<1> QED BY <1>1, <1>4, FinishJobOne

(* No step puts two jobs on one window.                                    *)
LEMMA OneNext == Inv /\ OnePerWindow(co) /\ [Next]_vars => OnePerWindow(co)'
<1> SUFFICES ASSUME Inv, OnePerWindow(co), [Next]_vars PROVE OnePerWindow(co')
  BY DEF OnePerWindow, JobKey
<1>1. co \in CoordinatorState /\ \A s \in co.live : binding[s] \in Binding
  BY InvTyped DEF Inv, SessionsExist
<1>2. ASSUME co' = co PROVE OnePerWindow(co') BY <1>2
<1>3. ASSUME SameLine(co, co') PROVE OnePerWindow(co') BY <1>3, SameLineOne
<1>4. Swept \in CoordinatorState /\ OnePerWindow(Swept)
  BY <1>1, SweptKeeps, ExpireOne DEF Keeps, Swept
<1>5. CASE JobStep
  <2>1. ASSUME NEW p, co.job # NoJob, co' = JobTo(p) PROVE OnePerWindow(co')
    <3>1. co.job \in Job BY <1>1, <2>1 DEF CoordinatorState
    <3>2. co'.job = [co.job EXCEPT !.phase = p] /\ co'.queue = co.queue /\ co'.keys = co.keys
      BY <1>1, <2>1 DEF JobTo, CoordinatorState
    <3>3. JobKey(co'.job) = JobKey(co.job) BY <3>1, <3>2 DEF Job, JobKey
    <3> QED BY <1>3, <2>1, <3>2, <3>3 DEF SameLine
  <2>2. CASE CapacityEnsured \/ EncoderSpawns \/ EncoderExits \/ EncodeCompletes
    BY <2>1, <2>2 DEF CapacityEnsured, EncoderSpawns, EncoderExits, EncodeCompletes, Running
  <2>3. CASE EncodeFails BY <1>1, <2>3, FailJobOne DEF EncodeFails, Running
  <2>4. CASE ReportSegment BY <1>3, <2>4, ReportTurn DEF SameLine
  <2>5. CASE EvictRow BY <1>2, <2>5 DEF EvictRow
  <2>6. CASE ReportFails BY <1>1, <2>6, FailJobOne DEF ReportFails, Running
  <2>7. CASE JobEnds BY <1>1, <2>7, FinishJobOne DEF JobEnds, Running
  <2> QED BY <1>5, <2>2, <2>3, <2>4, <2>5, <2>6, <2>7 DEF JobStep
<1>6. CASE Tick \/ CloseReturns
  BY <1>1, <1>3, <1>6 DEF Tick, CloseReturns, CoordinatorState, SameLine
<1>7. CASE Close
  <2>1. co'.queue = <<>> BY <1>1, <1>7 DEF Close, CoordinatorState
  <2> QED BY <2>1 DEF OnePerWindow
<1>8. CASE Sweep BY <1>4, <1>8 DEF Sweep
<1>9. \A s \in SessionId : OnePerWindow(Renew(Swept, s)) /\ OnePerWindow(Expire(Swept, {s}))
  BY <1>4, SameLines, SameLineOne, ExpireOne
<1>10. ASSUME NEW s \in SessionId, Heartbeat(s) \/ Release(s) \/ PlaybackFailure(s)
       PROVE  OnePerWindow(co')
  <2>1. CASE Heartbeat(s) BY <1>9, <2>1 DEF Heartbeat
  <2>2. CASE Release(s) BY <1>1, <2>2, ExpireOne DEF Release
  <2>3. CASE PlaybackFailure(s)
    BY <1>1, <1>3, <2>3 DEF PlaybackFailure, CoordinatorState, SameLine
  <2> QED BY <1>10, <2>1, <2>2, <2>3
<1>11. ASSUME NEW c \in CoordinatorState, OnePerWindow(c), NEW b, OpenSession(c, b)
       PROVE  OnePerWindow(co')
  <2>1. SameLine(c, co') BY <1>11 DEF OpenSession, CoordinatorState, SameLine
  <2> QED BY <1>11, <2>1, SameLineOne
<1>12. ASSUME NEW c \in CoordinatorState, OnePerWindow(c), NEW x, NEW b, Acquire(x, b, c)
       PROVE  OnePerWindow(co')
  <2>1. CASE OpenSession(c, b) BY <1>11, <1>12, <2>1
  <2>2. CASE co' = c BY <1>12, <2>2
  <2>3. CASE co' = [c EXCEPT !.probe = x]
    <3>1. SameLine(c, co') BY <2>3 DEF CoordinatorState, SameLine
    <3> QED BY <1>12, <3>1, SameLineOne
  <2> QED BY <1>12, <2>1, <2>2, <2>3 DEF Acquire
<1>13. ASSUME NEW x \in Call, CallStep(x) PROVE OnePerWindow(co')
  <2>1. CASE Replaced(x) BY <1>1, <1>12, <2>1 DEF Replaced
  <2>2. CASE ProbeSucceeds(x)
    <3> DEFINE c == [co EXCEPT !.probe = NoCall]
    <3>1. c \in CoordinatorState /\ SameLine(co, c) BY <1>1 DEF CoordinatorState, SameLine
    <3>2. OpenSession(c, call[x].binding) BY <2>2 DEF ProbeSucceeds
    <3> HIDE DEF c
    <3> QED BY <1>11, <3>1, <3>2, SameLineOne
  <2>3. CASE ProbeFails(x)
    BY <1>1, <1>3, <2>3 DEF ProbeFails, CoordinatorState, SameLine
  <2> QED BY <1>13, <2>1, <2>2, <2>3 DEF CallStep
<1>14. ASSUME NEW x \in Call, NEW b \in Binding, CreateSession(x, b) PROVE OnePerWindow(co')
  <2>1. CASE Acquire(x, b, Swept) BY <1>4, <1>12, <2>1
  <2>2. CASE co' = Swept BY <1>4, <2>2
  <2>3. CASE Swept.lease # NoSession
             /\ co' \in {Renew(Swept, Swept.lease), Expire(Swept, {Swept.lease})}
    BY <1>4, <1>9, <2>3 DEF CoordinatorState
  <2> QED BY <1>14, <2>1, <2>2, <2>3 DEF CreateSession
<1>15. ASSUME NEW r \in Request, RequestStep(r) \/ LookupFails(r) \/ Disconnect(r)
       PROVE  OnePerWindow(co')
  <2>1. CASE FirstLookup(r) \/ LookupFails(r) \/ Respond(r)
    BY <1>1, <1>3, <2>1 DEF FirstLookup, LookupFails, Respond, CoordinatorState, SameLine
  <2>2. CASE SecondLookup(r)
    <3> DEFINE s == req[r].session
               i == req[r].segment
    <3>1. s \in SessionId /\ binding[s] \in Binding /\ i \in Segment
      BY <2>2, InvTyped DEF RequestsTyped, SecondLookup
    <3>2. OnePerWindow(Enqueue(co, s, WindowOf(i)))
      BY <1>1, <3>1, WindowOfSegment, EnqueueOne
    <3>3. OnePerWindow(ResolveSegment(co, SessionKey(s), i))
      BY <1>1, SameLines, SameLineOne
    <3> QED BY <2>2, <3>2, <3>3 DEF SecondLookup
  <2>3. CASE Disconnect(r)
    <3> DEFINE d == [co EXCEPT !.waiters = @ \ {r}]
    <3>1. d \in CoordinatorState /\ SameLine(co, d) BY <1>1 DEF CoordinatorState, SameLine
    <3>2. co' = CancelObsolete(d) \/ UNCHANGED co BY <2>3 DEF Disconnect
    <3> HIDE DEF d
    <3>3. OnePerWindow(CancelObsolete(d)) BY <3>1, SameLines, SameLineOne
    <3> QED BY <3>2, <3>3
  <2> QED BY <1>15, <2>1, <2>2, <2>3 DEF RequestStep
<1>16. ASSUME NEW r \in Request, NEW s \in SessionId, NEW i \in Segment, SegmentCall(r, s, i)
       PROVE  OnePerWindow(co')
  BY <1>9, <1>16 DEF SegmentCall
<1>17. ASSUME NEW i \in Segment, Promote(i) PROVE OnePerWindow(co')
  BY <1>17 DEF Promote
<1>18. ASSUME NEW t \in Key \X Segment, NoticeLands(t) \/ Damage(t) PROVE OnePerWindow(co')
  <2>1. CASE NoticeLands(t)
    <3>1. SameLine(co, ResolveSegment(co, t[1], t[2])) BY <1>1, SameLines
    <3>2. co' \in {co, ResolveSegment(co, t[1], t[2])} BY <2>1 DEF NoticeLands
    <3> QED BY <1>2, <3>1, <3>2, SameLineOne
  <2>2. CASE Damage(t) BY <2>2 DEF Damage
  <2> QED BY <1>18, <2>1, <2>2
<1>19. ASSUME NEW k \in Key, EvictFiles(k) PROVE OnePerWindow(co')
  BY <1>19 DEF EvictFiles
<1>20. CASE UNCHANGED vars BY <1>2, <1>20 DEF vars
<1> QED BY <1>5, <1>6, <1>7, <1>8, <1>10, <1>13, <1>14, <1>15, <1>16, <1>17, <1>18, <1>19,
           <1>20 DEF Next

(* The windows being encoded or queued are pairwise different, so that     *)
(* concurrent demands for a window share one job.                          *)
THEOREM OneJobPerWindowHolds == Spec => []OneJobPerWindow
<1>1. Init => OnePerWindow(co) BY DEF Init, OnePerWindow
<1>2. OnePerWindow(co) => OneJobPerWindow BY DEF OnePerWindow, OneJobPerWindow
<1> QED BY <1>1, <1>2, OneNext, InvHolds, PTL DEF Spec

-----------------------------------------------------------------------------
(* Shutdown.  Only startNextJob makes a job active, and it looks at closed *)
(* first; whatever else a step does, it leaves an idle coordinator idle.   *)
LEMMA IdleAfterClose ==
  ASSUME Inv, [Next]_vars, co.closed # "open", co.job = NoJob
  PROVE  co'.job = NoJob
<1>1. co \in CoordinatorState
  BY InvTyped
<1>2. \A p : ~Running(p)
  BY DEF Running
<1>3. ASSUME Starts(co, co') PROVE co'.job = NoJob
  BY <1>3 DEF Starts
<1>4. CASE JobStep
  BY <1>2, <1>4 DEF JobStep, CapacityEnsured, EncoderSpawns, EncoderExits,
     EncodeCompletes, EncodeFails, ReportSegment, ReportFails, JobEnds, EvictRow
<1>5. CASE Tick \/ Close \/ CloseReturns
  BY <1>1, <1>5 DEF Tick, Close, CloseReturns, CoordinatorState
<1>6. CASE Sweep
  BY <1>1, <1>3, <1>6, SweptKeeps, KeepsIsStarts DEF Sweep
<1>7. ASSUME NEW s \in SessionId, Heartbeat(s) \/ Release(s) \/ PlaybackFailure(s)
      PROVE  co'.job = NoJob
  <2>1. CASE Heartbeat(s)
    BY <1>1, <1>3, <2>1, RenewedKeeps, KeepsIsStarts DEF Heartbeat
  <2>2. CASE Release(s)
    BY <1>1, <1>3, <2>2, ExpireKeeps, KeepsIsStarts DEF Release
  <2>3. CASE PlaybackFailure(s)
    BY <1>1, <2>3 DEF PlaybackFailure, CoordinatorState
  <2> QED BY <1>7, <2>1, <2>2, <2>3
<1>8. ASSUME NEW c \in CoordinatorState, c.job = NoJob, NEW b, OpenSession(c, b)
      PROVE  co'.job = NoJob
  BY <1>8 DEF OpenSession, CoordinatorState
<1>9. ASSUME NEW x \in Call, CallStep(x) PROVE co'.job = NoJob
  <2>1. CASE Replaced(x)
    BY <1>1, <1>8, <2>1 DEF Replaced, Acquire, CoordinatorState
  <2>2. CASE ProbeSucceeds(x)
    <3>1. /\ [co EXCEPT !.probe = NoCall] \in CoordinatorState
          /\ [co EXCEPT !.probe = NoCall].job = NoJob
      BY <1>1 DEF CoordinatorState
    <3> QED BY <1>8, <2>2, <3>1 DEF ProbeSucceeds
  <2>3. CASE ProbeFails(x)
    BY <1>1, <2>3 DEF ProbeFails, CoordinatorState
  <2> QED BY <1>9, <2>1, <2>2, <2>3 DEF CallStep
<1>10. ASSUME NEW x \in Call, NEW b \in Binding, CreateSession(x, b) PROVE co'.job = NoJob
  BY <1>10 DEF CreateSession
<1>11. ASSUME NEW r \in Request, RequestStep(r) \/ LookupFails(r) \/ Disconnect(r)
       PROVE  co'.job = NoJob
  <2>1. CASE FirstLookup(r) \/ LookupFails(r) \/ Respond(r)
    BY <1>1, <2>1 DEF FirstLookup, LookupFails, Respond, CoordinatorState
  <2>2. CASE SecondLookup(r)
    <3> DEFINE s == req[r].session
               i == req[r].segment
    <3>1. s \in SessionId /\ binding[s] \in Binding /\ i \in Segment
      BY <2>2, InvTyped DEF RequestsTyped, SecondLookup
    <3>2. Starts(co, Enqueue(co, s, WindowOf(i)))
      BY <1>1, <3>1, WindowOfSegment, EnqueueStarts
    <3>3. Starts(co, ResolveSegment(co, SessionKey(s), i))
      BY <1>1, WaitersKeep, KeepsIsStarts
    <3> QED BY <1>3, <2>2, <3>2, <3>3 DEF SecondLookup
  <2>3. CASE Disconnect(r)
    BY <1>1, <2>3 DEF Disconnect, CancelObsolete, CoordinatorState
  <2> QED BY <1>11, <2>1, <2>2, <2>3 DEF RequestStep
<1>12. ASSUME NEW r \in Request, NEW s \in SessionId, NEW i \in Segment, SegmentCall(r, s, i)
       PROVE  co'.job = NoJob
  BY <1>1, <1>3, <1>12, RenewedKeeps, KeepsIsStarts DEF SegmentCall
<1>13. ASSUME NEW i \in Segment, Promote(i) PROVE co'.job = NoJob
  BY <1>13 DEF Promote
<1>14. ASSUME NEW t \in Key \X Segment, NoticeLands(t) \/ Damage(t) PROVE co'.job = NoJob
  <2>1. CASE NoticeLands(t)
    BY <1>1, <1>3, <2>1, WaitersKeep, KeepsIsStarts DEF NoticeLands
  <2>2. CASE Damage(t)
    BY <2>2 DEF Damage
  <2> QED BY <1>14, <2>1, <2>2
<1>15. ASSUME NEW k \in Key, EvictFiles(k) PROVE co'.job = NoJob
  BY <1>15 DEF EvictFiles
<1>16. CASE UNCHANGED vars
  BY <1>16 DEF vars
<1> QED BY <1>4, <1>5, <1>6, <1>7, <1>9, <1>10, <1>11, <1>12, <1>13, <1>14, <1>15, <1>16
        DEF Next

(* After close() has begun no window job starts, however many segment()    *)
(* and createSession() calls are still suspended at that moment.           *)
THEOREM NoJobAfterCloseHolds == Spec => NoJobAfterClose
<1>1. Inv /\ [Next]_vars
        => [co.closed # "open" /\ co.job = NoJob => co'.job = NoJob]_vars
  BY IdleAfterClose
<1> QED BY <1>1, InvHolds, PTL DEF Spec, NoJobAfterClose
=============================================================================
