------------------------------- MODULE TvProofs --------------------------------
(***************************************************************************)
(* Proofs about the two parts of MCTv: the viewer (Viewer), in which a      *)
(* rendered state lags behind the reducer and calls outlive both, and the   *)
(* bridge that plays Drive files for it (MediaBridge), in which revokes and *)
(* grants overtake each other.                                             *)
(***************************************************************************)
EXTENDS MCTv, FiniteSetTheorems, WellFoundedInduction, TLAPS

-------------------------------------------------------------------------------
(* The reducer.  The states of a step are values here, so that lemmas about *)
(* its parts can be put together.                                          *)

Media == Player!Media
Requests == 1 .. RequestBound

(* A state of the reducer before Dispatch bounds its requests.             *)
FreeEntry == [status : {"none", "loading", "ready", "error"}, request : Nat,
              kind : {"none", "direct", "raw", "hls", "generic", "final"}, used : BOOLEAN,
              answer : Nat]
FreeState == [index : Media, slideshow : BOOLEAN,
              error : {"none", "generic", "final"}, urls : [Media -> FreeEntry],
              ledger : [Media -> {"unused", "used", "preserved"}], next : Nat \ {0}]

EntryRule(e, n) ==
  /\ e.request < n /\ e.answer < n /\ (e.status # "none" => e.request > 0)
  /\ e.status = "ready" => e.answer = e.request
  /\ e.status = "error" => e.kind \in {"generic", "final"}

Apart(d, e) == d.status # "none" /\ e.status # "none" => d.request # e.request

(* Requests are numbered in order, no two entries wait for the same one,    *)
(* and a URL is the answer to the request of its entry.                    *)
Sound(v) ==
  /\ v \in FreeState
  /\ \A i \in Media : EntryRule(v.urls[i], v.next)
  /\ \A i, j \in Media : i # j => Apart(v.urls[i], v.urls[j])

(* What a step may do to an entry, url-ready apart: nothing, drop it, end   *)
(* it in an error, or ask again under a new number.                        *)
EntryMoves(d, e, n) ==
  e = d \/ e.status \in {"none", "error"} \/ (e.status = "loading" /\ e.request >= n)
Moves(v, w) == v.next <= w.next /\ \A i \in Media : EntryMoves(v.urls[i], w.urls[i], v.next)

LEMMA SoundFacts ==
  ASSUME NEW v, Sound(v)
  PROVE  /\ v \in FreeState /\ v.next \in Nat \ {0} /\ v.index \in Media
         /\ v.urls \in [Media -> FreeEntry]
         /\ v.ledger \in [Media -> {"unused", "used", "preserved"}]
         /\ \A i \in Media : v.urls[i] \in FreeEntry /\ EntryRule(v.urls[i], v.next)
  BY DEF Sound, FreeState

LEMMA MediaFacts == Media \subseteq Nat \ {0} /\ IsFiniteSet(Media)
<1>1. Media = 1 .. Len(Kinds) /\ Len(Kinds) \in Nat
  BY TvAssumption DEF Media, Player!Media
<1>2. IsFiniteSet(1 .. Len(Kinds))
  BY <1>1, FS_Interval
<1> QED BY <1>1, <1>2

(* Dispatch keeps the numbers within the bound.                            *)
LEMMA Bounded ==
  ASSUME NEW v, Sound(v), v.next <= RequestBound + 1 PROVE v \in Player!State
<1>1. RequestBound \in Nat
  BY TvAssumption
<1>2. v.next \in 1 .. RequestBound + 1
  BY <1>1, SoundFacts
<1>3. \A i \in Media : v.urls[i] \in Player!Entry
  <2> SUFFICES ASSUME NEW i \in Media PROVE v.urls[i] \in Player!Entry
    OBVIOUS
  <2> PICK e : e = v.urls[i]
    OBVIOUS
  <2>1. e \in FreeEntry /\ e.request < v.next /\ e.answer < v.next
    BY SoundFacts DEF EntryRule
  <2>2. e.request \in 0 .. RequestBound /\ e.answer \in 0 .. RequestBound
    <3>1. e.request \in Nat /\ e.answer \in Nat
      BY <2>1 DEF FreeEntry
    <3> QED BY <2>1, <3>1, <1>1, <1>2
  <2> QED BY <2>1, <2>2 DEF FreeEntry, Player!Entry, Player!Session0
<1>4. v.urls \in [Media -> Player!Entry]
  BY <1>3, SoundFacts
<1> QED BY <1>2, <1>4, SoundFacts DEF FreeState, Player!State, Media

(* A step that changes one entry.                                          *)
LEMMA EntrySet ==
  ASSUME NEW v, Sound(v), NEW i \in Media, NEW e \in FreeEntry, NEW w,
         w \in FreeState, w.urls = [v.urls EXCEPT ![i] = e], v.next <= w.next,
         EntryRule(e, w.next), \A j \in Media \ {i} : Apart(e, v.urls[j])
  PROVE  Sound(w)
<1>1. \A j \in Media : w.urls[j] = IF j = i THEN e ELSE v.urls[j]
  BY SoundFacts
<1>2. \A j \in Media : EntryRule(w.urls[j], w.next)
  <2> SUFFICES ASSUME NEW j \in Media, j # i PROVE EntryRule(v.urls[j], w.next)
    BY <1>1
  <2> PICK d, m, n : d = v.urls[j] /\ m = v.next /\ n = w.next
    OBVIOUS
  <2>1. EntryRule(d, m) /\ d.request \in Nat /\ d.answer \in Nat /\ m \in Nat /\ n \in Nat /\ m <= n
    BY SoundFacts DEF FreeState, FreeEntry
  <2> QED BY <2>1 DEF EntryRule
<1>3. \A j, k \in Media : j # k => Apart(w.urls[j], w.urls[k])
  <2> SUFFICES ASSUME NEW j \in Media, NEW k \in Media, j # k PROVE Apart(w.urls[j], w.urls[k])
    OBVIOUS
  <2>1. CASE j = i
    BY <1>1, <2>1
  <2>2. CASE k = i
    <3>1. Apart(e, v.urls[j])
      BY <2>2
    <3> QED BY <1>1, <2>2, <3>1 DEF Apart
  <2>3. CASE j # i /\ k # i
    BY <1>1, <2>3 DEF Sound
  <2> QED BY <2>1, <2>2, <2>3
<1> QED BY <1>2, <1>3 DEF Sound

LEMMA OneEntryMoves ==
  ASSUME NEW v, Sound(v), NEW i \in Media, NEW e, NEW w,
         w.urls = [v.urls EXCEPT ![i] = e], v.next <= w.next, EntryMoves(v.urls[i], e, v.next)
  PROVE  Moves(v, w)
  BY SoundFacts DEF Moves, EntryMoves

(* A number not yet given out is nobody else's.                            *)
LEMMA FreshApart ==
  ASSUME NEW v, Sound(v), NEW e, e.request >= v.next, NEW j \in Media
  PROVE  Apart(e, v.urls[j])
<1>1. v.urls[j].request < v.next /\ v.urls[j].request \in Nat /\ v.next \in Nat
  BY SoundFacts DEF EntryRule, FreeEntry
<1> QED BY <1>1 DEF Apart

(* The error of the active item and the slideshow.                         *)
LEMMA SameEntries ==
  ASSUME NEW v, Sound(v), NEW w \in FreeState, w.urls = v.urls, w.next = v.next
  PROVE  Sound(w) /\ Moves(v, w)
  BY DEF Sound, FreeState, Moves, EntryMoves

LEMMA StoppedKeeps ==
  ASSUME NEW v \in FreeState, NEW i, NEW error \in {"generic", "final"}
  PROVE  /\ Player!Stopped(v, i, error) \in FreeState
         /\ Player!Stopped(v, i, error).urls = v.urls /\ Player!Stopped(v, i, error).next = v.next
         /\ Player!Stopped(v, i, error).ledger = v.ledger
  BY DEF Player!Stopped, FreeState
LEMMA ClearedKeeps ==
  ASSUME NEW v \in FreeState, NEW i
  PROVE  /\ Player!Cleared(v, i) \in FreeState
         /\ Player!Cleared(v, i).urls = v.urls /\ Player!Cleared(v, i).next = v.next
         /\ Player!Cleared(v, i).ledger = v.ledger
  BY DEF Player!Cleared, FreeState
(* The window: the k-th entry that is new to it gets the k-th free number.  *)
Near(v) == {i \in Media : i \in v.index - 1 .. v.index + 1}
Wanted(v) == {i \in Near(v) : i = v.index \/ Kinds[i] = "image"}
Fresh(v) == {i \in Wanted(v) : v.urls[i].status = "none"}
Rank(v, i) == Player!Cardinality({j \in Fresh(v) : j < i})

LEMMA SameCardinality == \A S : Player!Cardinality(S) = Cardinality(S)
  BY DEF Player!Cardinality, Cardinality

LEMMA WindowIs ==
  ASSUME NEW v
  PROVE  Player!WithUrlWindow(v) =
           [v EXCEPT
             !.urls = [i \in Media |->
                IF i \notin Wanted(v) THEN Player!Absent
                ELSE IF i \in Fresh(v)
                     THEN Player!Loading(v.next + Rank(v, i), v.ledger[i] # "unused")
                     ELSE v.urls[i]],
             !.next = v.next + Player!Cardinality(Fresh(v))]
  BY DEF Player!WithUrlWindow, Near, Wanted, Fresh, Rank, Media

LEMMA Ranks ==
  ASSUME NEW v
  PROVE  /\ Player!Cardinality(Fresh(v)) \in Nat
         /\ \A i \in Fresh(v) : /\ Rank(v, i) \in Nat
                               /\ Rank(v, i) < Player!Cardinality(Fresh(v))
         /\ \A i, k \in Fresh(v) : i # k => Rank(v, i) # Rank(v, k)
<1> DEFINE F == Fresh(v)
           below(i) == {j \in F : j < i}
<1>1. F \subseteq Media /\ IsFiniteSet(F)
  <2>1. F \subseteq Media
    BY DEF Fresh, Wanted, Near
  <2> QED BY <2>1, MediaFacts, FS_Subset
<1>2. \A j \in F : j \in Nat
  BY <1>1, MediaFacts
<1> HIDE DEF F
<1>3. ASSUME NEW S, NEW T, T \subseteq F, S \subseteq T, NEW x \in T, x \notin S
      PROVE  /\ Cardinality(S) \in Nat /\ Cardinality(T) \in Nat
             /\ Cardinality(S) < Cardinality(T)
  <2>1. IsFiniteSet(T)
    BY <1>1, <1>3, FS_Subset
  <2>2. IsFiniteSet(S) /\ Cardinality(S) <= Cardinality(T)
        /\ (Cardinality(T) = Cardinality(S) => T = S)
    BY <2>1, <1>3, FS_Subset
  <2>3. Cardinality(S) \in Nat /\ Cardinality(T) \in Nat
    BY <2>1, <2>2, FS_CardinalityType
  <2> QED BY <2>2, <2>3, <1>3
<1>4. ASSUME NEW i \in F
      PROVE  /\ Cardinality(below(i)) \in Nat
             /\ Cardinality(below(i)) < Cardinality(F)
  <2>1. below(i) \subseteq F /\ i \notin below(i)
    BY <1>2
  <2> HIDE DEF below
  <2> QED BY <2>1, <1>3
<1>5. ASSUME NEW i \in F, NEW k \in F, i < k
      PROVE  Cardinality(below(i)) # Cardinality(below(k))
  <2>1. below(k) \subseteq F /\ below(i) \subseteq below(k) /\ i \in below(k)
        /\ i \notin below(i)
    BY <1>2, <1>5
  <2> HIDE DEF below
  <2>2. /\ Cardinality(below(i)) \in Nat /\ Cardinality(below(k)) \in Nat
        /\ Cardinality(below(i)) < Cardinality(below(k))
    BY <2>1, <1>3
  <2> QED BY <2>2
<1>6. \A i \in F : Rank(v, i) = Cardinality(below(i))
  BY SameCardinality DEF Rank, F
<1> HIDE DEF below
<1>7. ASSUME NEW i \in F, NEW k \in F, i # k PROVE Rank(v, i) # Rank(v, k)
  <2>1. i < k \/ k < i
    BY <1>2, <1>7
  <2> QED BY <2>1, <1>5, <1>6
<1>8. Player!Cardinality(F) = Cardinality(F) /\ Cardinality(F) \in Nat
  BY SameCardinality, <1>1, FS_CardinalityType
<1> QED BY <1>4, <1>6, <1>7, <1>8 DEF F

LEMMA WindowSound ==
  ASSUME NEW v, Sound(v)
  PROVE  LET w == Player!WithUrlWindow(v)
         IN /\ Sound(w) /\ Moves(v, w)
            /\ w.index = v.index /\ w.ledger = v.ledger
            /\ \A i \in Media : \/ w.urls[i].status = "none" \/ w.urls[i] = v.urls[i]
                                \/ v.urls[i].status = "none" /\ w.urls[i].status = "loading"
<1> DEFINE w == Player!WithUrlWindow(v)
           n == Player!Cardinality(Fresh(v))
           entry(i) == IF i \notin Wanted(v) THEN Player!Absent
                       ELSE IF i \in Fresh(v)
                            THEN Player!Loading(v.next + Rank(v, i), v.ledger[i] # "unused")
                            ELSE v.urls[i]
<1>1. /\ w = [v EXCEPT !.urls = [i \in Media |-> entry(i)], !.next = v.next + n]
  BY WindowIs
<1>2. n \in Nat /\ v.next \in Nat \ {0} /\ v.next + n \in Nat \ {0} /\ v.next <= v.next + n
  BY Ranks, SoundFacts
<1>3. \A i \in Fresh(v) : /\ v.next + Rank(v, i) \in Nat \ {0} /\ v.next <= v.next + Rank(v, i)
                          /\ v.next + Rank(v, i) < v.next + n
  <2> SUFFICES ASSUME NEW i \in Fresh(v)
               PROVE  /\ v.next + Rank(v, i) \in Nat \ {0} /\ v.next <= v.next + Rank(v, i)
                      /\ v.next + Rank(v, i) < v.next + n
    OBVIOUS
  <2>1. Rank(v, i) \in Nat /\ Rank(v, i) < n
    BY Ranks
  <2> HIDE DEF n
  <2> QED BY <1>2, <2>1
<1> HIDE DEF n
<1>4. ASSUME NEW i \in Media
      PROVE  /\ entry(i) \in FreeEntry /\ EntryRule(entry(i), v.next + n)
             /\ EntryMoves(v.urls[i], entry(i), v.next)
             /\ \/ entry(i).status = "none" \/ entry(i) = v.urls[i]
                \/ v.urls[i].status = "none" /\ entry(i).status = "loading"
  <2>1. CASE i \notin Wanted(v)
    BY <2>1, <1>2 DEF Player!Absent, FreeEntry, EntryRule, EntryMoves
  <2>2. CASE i \in Fresh(v)
    <3>1. i \in Wanted(v) /\ v.urls[i].status = "none"
      BY <2>2 DEF Fresh
    <3>2. PICK m : m = v.next + Rank(v, i)
      OBVIOUS
    <3>3. entry(i) = Player!Loading(m, v.ledger[i] # "unused")
      BY <2>2, <3>1, <3>2
    <3>4. m \in Nat \ {0} /\ v.next <= m /\ m < v.next + n
      BY <1>3, <2>2, <3>2
    <3> QED BY <3>1, <3>3, <3>4, <1>2 DEF Player!Loading, FreeEntry, EntryRule, EntryMoves
  <2>3. CASE i \in Wanted(v) /\ i \notin Fresh(v)
    <3>1. entry(i) = v.urls[i]
      BY <2>3
    <3> PICK d : d = v.urls[i]
      OBVIOUS
    <3>2. d \in FreeEntry /\ EntryRule(d, v.next) /\ d.request \in Nat /\ d.answer \in Nat
      BY SoundFacts DEF FreeEntry
    <3>3. EntryRule(d, v.next + n)
      BY <3>2, <1>2 DEF EntryRule
    <3> QED BY <3>1, <3>2, <3>3 DEF EntryMoves
  <2> QED BY <2>1, <2>2, <2>3
<1>5. ASSUME NEW i \in Media, NEW k \in Media, i # k PROVE Apart(entry(i), entry(k))
  <2>1. CASE i \notin Wanted(v) \/ k \notin Wanted(v)
    BY <2>1 DEF Apart, Player!Absent
  <2>2. CASE i \in Fresh(v) /\ k \in Fresh(v)
    <3>1. v.next + Rank(v, i) # v.next + Rank(v, k)
      BY <2>2, <1>5, Ranks, <1>2
    <3>2. i \in Wanted(v) /\ k \in Wanted(v)
      BY <2>2 DEF Fresh
    <3> QED BY <2>2, <3>1, <3>2 DEF Apart, Player!Loading
  <2>3. ASSUME NEW x \in Fresh(v), NEW y \in Media \ Fresh(v), y \in Wanted(v)
        PROVE  entry(x).request # entry(y).request
    <3>1. x \in Wanted(v)
      BY DEF Fresh
    <3>2. entry(x).request = v.next + Rank(v, x) /\ entry(y).request = v.urls[y].request
      BY <3>1, <2>3 DEF Player!Loading
    <3>3. v.urls[y].request < v.next /\ v.urls[y].request \in Nat
      BY SoundFacts DEF EntryRule, FreeEntry
    <3> QED BY <3>2, <3>3, <1>2, <1>3
  <2>4. CASE i \in Wanted(v) \ Fresh(v) /\ k \in Wanted(v) \ Fresh(v)
    BY <2>4, <1>5 DEF Sound
  <2> HIDE DEF entry
  <2> QED BY <2>1, <2>2, <2>3, <2>4 DEF Apart
<1> HIDE DEF entry
<1>6. PICK u : u = [i \in Media |-> entry(i)]
  OBVIOUS
<1>7. u \in [Media -> FreeEntry] /\ \A i \in Media : u[i] = entry(i)
  BY <1>4, <1>6
<1>8. /\ w.urls = u /\ w.next = v.next + n /\ w.index = v.index /\ w.ledger = v.ledger
      /\ w \in FreeState
  <2>1. w = [v EXCEPT !.urls = u, !.next = v.next + n]
    BY <1>1, <1>6
  <2>2. v \in FreeState
    BY SoundFacts
  <2> HIDE DEF w
  <2> QED BY <2>1, <2>2, <1>2, <1>7 DEF FreeState
<1> HIDE DEF w
<1>9. Sound(w) /\ Moves(v, w)
  BY <1>2, <1>4, <1>5, <1>7, <1>8 DEF Sound, Moves
<1>10. \A i \in Media : \/ w.urls[i].status = "none" \/ w.urls[i] = v.urls[i]
                        \/ v.urls[i].status = "none" /\ w.urls[i].status = "loading"
  BY <1>4, <1>7, <1>8
<1> QED BY <1>8, <1>9, <1>10 DEF w
(* What the viewer does not do to an entry when it only moves on: it keeps  *)
(* it, or the entry leaves or enters the window.                           *)
Shifts(v, w) ==
  /\ w.ledger = v.ledger
  /\ \A i \in Media : \/ w.urls[i].status = "none" \/ v.urls[i].status = "none"
                      \/ w.urls[i] = v.urls[i]
Safe(v, w) == Sound(w) /\ Moves(v, w)

LEMMA StaySafe == ASSUME NEW v, Sound(v) PROVE Safe(v, v)
  BY SameEntries DEF Safe, Sound

LEMMA StoppedSafe ==
  ASSUME NEW v, Sound(v), NEW i, NEW error \in {"generic", "final"}
  PROVE  /\ Safe(v, Player!Stopped(v, i, error)) /\ Shifts(v, Player!Stopped(v, i, error))
<1> PICK w : w = Player!Stopped(v, i, error)
  OBVIOUS
<1>1. v \in FreeState
  BY DEF Sound
<1>2. w \in FreeState /\ w.urls = v.urls /\ w.next = v.next /\ w.ledger = v.ledger
  BY <1>1, StoppedKeeps
<1>3. Sound(w) /\ Moves(v, w)
  BY <1>2, SameEntries
<1> QED BY <1>2, <1>3 DEF Safe, Shifts

LEMMA NavigateSafe ==
  ASSUME NEW v, Sound(v), NEW step \in {-1, 1}
  PROVE  /\ Safe(v, Player!Navigate(v, step)) /\ Shifts(v, Player!Navigate(v, step))
<1> DEFINE to == v.index + step
           failed == to \in Player!Media /\ v.urls[to].status = "error"
           x == [v EXCEPT !.index = to,
                          !.error = IF failed THEN v.urls[to].kind ELSE "none",
                          !.slideshow = @ /\ ~failed]
<1>0. v \in FreeState
  BY DEF Sound
<1>1. CASE to \notin Media
  <2>1. Player!Navigate(v, step) = v
    BY <1>1 DEF Player!Navigate, Media
  <2> QED BY <2>1, <1>0, SameEntries DEF Safe, Shifts
<1>2. CASE to \in Media
  <2>1. Player!Navigate(v, step) = Player!WithUrlWindow(x)
    BY <1>2 DEF Player!Navigate, Media
  <2>2. failed => v.urls[to].kind \in {"generic", "final"}
    BY <1>2, SoundFacts DEF EntryRule
  <2> PICK err : err = IF failed THEN v.urls[to].kind ELSE "none"
    OBVIOUS
  <2> PICK show : show = (v.slideshow /\ ~failed)
    OBVIOUS
  <2>3. err \in {"none", "generic", "final"} /\ show \in BOOLEAN
    BY <2>2
  <2>4. x = [v EXCEPT !.index = to, !.error = err, !.slideshow = show]
    OBVIOUS
  <2>5. x \in FreeState /\ x.urls = v.urls /\ x.next = v.next /\ x.ledger = v.ledger
    <3> HIDE DEF to, x
    <3> QED BY <2>3, <2>4, <1>0, <1>2 DEF FreeState
  <2> HIDE DEF x
  <2>6. Sound(x)
    BY <2>5, SameEntries
  <2> PICK w : w = Player!WithUrlWindow(x)
    OBVIOUS
  <2>7. /\ Sound(w) /\ Moves(x, w) /\ w.ledger = x.ledger
        /\ \A i \in Media : \/ w.urls[i].status = "none" \/ w.urls[i] = x.urls[i]
                            \/ x.urls[i].status = "none" /\ w.urls[i].status = "loading"
    BY <2>6, WindowSound
  <2>8. Moves(v, w)
    BY <2>5, <2>7 DEF Moves
  <2>9. Shifts(v, w)
    BY <2>5, <2>7 DEF Shifts
  <2> QED BY <2>1, <2>7, <2>8, <2>9 DEF Safe
<1> QED BY <1>1, <1>2

(* Keys that change no entry, the slideshow and the end of a video.         *)
LEMMA PlaySafe ==
  ASSUME NEW v, Sound(v), NEW i,
         NEW w \in {Player!Navigate(v, -1), Player!Navigate(v, 1), Player!Enter(v),
                    Player!SlideshowTick(v), Player!VideoEnded(v, i)}
  PROVE  Safe(v, w) /\ Shifts(v, w)
<1>0. v \in FreeState
  BY DEF Sound
<1>1. Safe(v, v) /\ Shifts(v, v)
  BY <1>0, SameEntries DEF Safe, Shifts
<1>2. ASSUME NEW x \in FreeState, x.urls = v.urls, x.next = v.next, x.ledger = v.ledger
      PROVE  Safe(v, x) /\ Shifts(v, x)
  BY <1>2, SameEntries DEF Safe, Shifts
<1>3. Safe(v, [v EXCEPT !.slideshow = FALSE]) /\ Shifts(v, [v EXCEPT !.slideshow = FALSE])
  <2> PICK x : x = [v EXCEPT !.slideshow = FALSE]
    OBVIOUS
  <2>1. x \in FreeState /\ x.urls = v.urls /\ x.next = v.next /\ x.ledger = v.ledger
    BY <1>0 DEF FreeState
  <2> QED BY <2>1, <1>2
<1>4. Safe(v, Player!Enter(v)) /\ Shifts(v, Player!Enter(v))
  <2> PICK show : show = ~v.slideshow
    OBVIOUS
  <2> PICK x : x = [v EXCEPT !.slideshow = show, !.error = "none"]
    OBVIOUS
  <2>1. x \in FreeState /\ x.urls = v.urls /\ x.next = v.next /\ x.ledger = v.ledger
    BY <1>0 DEF FreeState
  <2>2. Player!Enter(v) \in {v, x}
    BY DEF Player!Enter
  <2> QED BY <2>1, <2>2, <1>1, <1>2
<1>5. /\ Safe(v, Player!Navigate(v, 1)) /\ Shifts(v, Player!Navigate(v, 1))
      /\ Safe(v, Player!Navigate(v, -1)) /\ Shifts(v, Player!Navigate(v, -1))
  BY NavigateSafe
<1>6. Player!SlideshowTick(v) \in {v, [v EXCEPT !.slideshow = FALSE], Player!Navigate(v, 1)}
  BY DEF Player!SlideshowTick
<1>7. Player!VideoEnded(v, i) \in {v, [v EXCEPT !.slideshow = FALSE], Player!Navigate(v, 1)}
  BY DEF Player!VideoEnded
<1> QED BY <1>1, <1>3, <1>4, <1>5, <1>6, <1>7

(* An entry that ends in an error.                                         *)
LEMMA ErrorSafe ==
  ASSUME NEW v, Sound(v), NEW i \in Media, v.urls[i].status # "none",
         NEW e \in FreeEntry, e.status = "error", e.kind \in {"generic", "final"},
         e.request = v.urls[i].request, e.answer = v.urls[i].answer,
         NEW w \in FreeState, w.next = v.next, w.urls = [v.urls EXCEPT ![i] = e]
  PROVE  Safe(v, w)
<1> PICK d : d = v.urls[i]
  OBVIOUS
<1>1. d \in FreeEntry /\ EntryRule(d, v.next)
  BY SoundFacts
<1>2. e.request = d.request /\ e.answer = d.answer
  OBVIOUS
<1>3. EntryRule(e, w.next)
  BY <1>1, <1>2 DEF EntryRule
<1>4. \A j \in Media \ {i} : Apart(e, v.urls[j])
  <2>1. \A j \in Media \ {i} : Apart(d, v.urls[j])
    BY DEF Sound
  <2> QED BY <2>1, <1>2 DEF Apart
<1>5. w.urls = [v.urls EXCEPT ![i] = e] /\ v.next <= w.next
  BY SoundFacts
<1>6. Sound(w)
  BY <1>2, <1>3, <1>4, <1>5, EntrySet
<1>7. Moves(v, w)
  <2>1. EntryMoves(v.urls[i], e, v.next)
    BY <1>2 DEF EntryMoves
  <2> QED BY <2>1, <1>5, OneEntryMoves
<1> QED BY <1>6, <1>7 DEF Safe

(* An entry that is asked for again.                                       *)
LEMMA AgainSafe ==
  ASSUME NEW v, Sound(v), NEW i \in Media, NEW u \in BOOLEAN,
         NEW w \in FreeState, w.next = v.next + 1,
         w.urls = [v.urls EXCEPT ![i] = Player!Loading(v.next, u)]
  PROVE  Safe(v, w)
<1> PICK m : m = v.next
  OBVIOUS
<1> PICK e : e = Player!Loading(m, u)
  OBVIOUS
<1>1. m \in Nat \ {0} /\ w.next = m + 1 /\ m <= w.next
  BY SoundFacts
<1>2. e \in FreeEntry /\ e.status = "loading" /\ e.request = m /\ e.answer = 0
  BY <1>1 DEF FreeEntry, Player!Loading
<1>3. EntryRule(e, w.next)
  BY <1>1, <1>2 DEF EntryRule
<1>4. e.request >= v.next
  BY <1>1, <1>2
<1>5. \A j \in Media \ {i} : Apart(e, v.urls[j])
  BY <1>4, FreshApart
<1>6. w.urls = [v.urls EXCEPT ![i] = e] /\ v.next <= w.next
  BY <1>1
<1>7. Sound(w)
  BY <1>2, <1>3, <1>5, <1>6, EntrySet
<1>8. Moves(v, w)
  <2>1. EntryMoves(v.urls[i], e, v.next)
    BY <1>2, <1>4 DEF EntryMoves
  <2> QED BY <2>1, <1>6, OneEntryMoves
<1> QED BY <1>7, <1>8 DEF Safe
(* Only item i is concerned.                                               *)
OnlyItem(v, w, i) ==
  \A j \in Media \ {i} : w.urls[j] = v.urls[j] /\ w.ledger[j] = v.ledger[j]

LEMMA UrlFailedSafe ==
  ASSUME NEW v, Sound(v), NEW i \in Media, NEW r, NEW error \in {"generic", "final"}
  PROVE  LET w == Player!UrlFailed(v, i, r, error)
         IN /\ Safe(v, w) /\ OnlyItem(v, w, i) /\ ~Player!Awaits(w, i, r)
            /\ w.ledger[i] = v.ledger[i]
            /\ \/ w.urls[i] = v.urls[i]
               \/ w.urls[i].status = "error" /\ v.urls[i].status = "loading"
<1> PICK w : w = Player!UrlFailed(v, i, r, error)
  OBVIOUS
<1>0. v \in FreeState
  BY DEF Sound
<1>1. CASE ~Player!Awaits(v, i, r)
  <2>1. w = v
    BY <1>1 DEF Player!UrlFailed
  <2>2. Safe(v, w)
    BY <2>1, StaySafe
  <2>3. OnlyItem(v, w, i)
    BY <2>1 DEF OnlyItem
  <2> QED BY <1>1, <2>1, <2>2, <2>3
<1>2. CASE Player!Awaits(v, i, r)
  <2> PICK x : x = Player!Stopped(v, i, error)
    OBVIOUS
  <2>1. x \in FreeState /\ x.urls = v.urls /\ x.next = v.next /\ x.ledger = v.ledger
    BY <1>0, StoppedKeeps
  <2> PICK d, e : d = v.urls[i] /\ e = [d EXCEPT !.status = "error", !.kind = error]
    OBVIOUS
  <2>2. d \in FreeEntry
    BY SoundFacts
  <2>3. /\ e \in FreeEntry /\ e.status = "error" /\ e.kind = error
        /\ e.request = v.urls[i].request /\ e.answer = v.urls[i].answer
    BY <2>2 DEF FreeEntry
  <2>4. w = [x EXCEPT !.urls[i] = [x.urls[i] EXCEPT !.status = "error", !.kind = error]]
    BY <1>2 DEF Player!UrlFailed
  <2>a. w = [x EXCEPT !.urls[i] = e]
    BY <2>1, <2>4
  <2>5. w = [x EXCEPT !.urls = [v.urls EXCEPT ![i] = e]]
    BY <2>1, <2>a DEF FreeState
  <2>6. [v.urls EXCEPT ![i] = e] \in [Media -> FreeEntry]
    BY <2>3, SoundFacts
  <2>7. /\ w \in FreeState /\ w.urls = [v.urls EXCEPT ![i] = e] /\ w.next = v.next
        /\ w.ledger = v.ledger
    BY <2>1, <2>5, <2>6 DEF FreeState
  <2>8. w.urls[i] = e /\ \A j \in Media \ {i} : w.urls[j] = v.urls[j]
    BY <2>7, SoundFacts
  <2>9. v.urls[i].status = "loading"
    BY <1>2 DEF Player!Awaits
  <2>10. Safe(v, w)
    <3>1. e.kind \in {"generic", "final"} /\ v.urls[i].status # "none" /\ i \in Media
      BY <2>3, <2>9
    <3> QED BY ONLY Sound(v), <2>3, <2>7, <3>1, ErrorSafe
  <2> QED BY <2>3, <2>7, <2>8, <2>9, <2>10 DEF OnlyItem, Player!Awaits
<1> QED BY <1>1, <1>2

LEMMA UrlExpiredSafe ==
  ASSUME NEW v, Sound(v), NEW i \in Media, NEW r
  PROVE  LET w == Player!UrlExpired(v, i, r)
         IN Safe(v, w) /\ OnlyItem(v, w, i)
<1> PICK w : w = Player!UrlExpired(v, i, r)
  OBVIOUS
<1>0. v \in FreeState
  BY DEF Sound
<1>1. CASE v.urls[i].status # "ready" \/ v.urls[i].request # r
  <2>1. w = v
    BY <1>1 DEF Player!UrlExpired
  <2> QED BY <1>1, <2>1, StaySafe DEF OnlyItem
<1>2. CASE ~(v.urls[i].status # "ready" \/ v.urls[i].request # r)
  <2> PICK x : x = Player!Cleared(v, i)
    OBVIOUS
  <2>1. x \in FreeState /\ x.urls = v.urls /\ x.next = v.next /\ x.ledger = v.ledger
    BY <1>0, ClearedKeeps
  <2> PICK e : e = Player!Loading(v.next, FALSE)
    OBVIOUS
  <2>2. e \in FreeEntry /\ v.next + 1 \in Nat \ {0}
    BY SoundFacts DEF Player!Loading, FreeEntry
  <2>3. w = [x EXCEPT !.urls[i] = e, !.ledger[i] = "unused", !.next = @ + 1]
    BY <1>2 DEF Player!UrlExpired
  <2>4. w = [x EXCEPT !.urls = [v.urls EXCEPT ![i] = e],
                      !.ledger = [v.ledger EXCEPT ![i] = "unused"], !.next = v.next + 1]
    BY <2>1, <2>3 DEF FreeState
  <2>5. /\ [v.urls EXCEPT ![i] = e] \in [Media -> FreeEntry]
        /\ [v.ledger EXCEPT ![i] = "unused"] \in [Media -> {"unused", "used", "preserved"}]
    BY <2>2, SoundFacts
  <2>6. /\ w \in FreeState /\ w.urls = [v.urls EXCEPT ![i] = e] /\ w.next = v.next + 1
        /\ w.ledger = [v.ledger EXCEPT ![i] = "unused"]
    BY <2>1, <2>2, <2>4, <2>5 DEF FreeState
  <2>7. Safe(v, w)
    BY <2>6, AgainSafe
  <2> QED BY <2>6, <2>7, SoundFacts DEF OnlyItem
<1> QED BY <1>1, <1>2

LEMMA HlsFallbackSafe ==
  ASSUME NEW v, Sound(v), NEW i \in Media
  PROVE  LET w == Player!HlsFallback(v, i)
         IN /\ Safe(v, w) /\ OnlyItem(v, w, i) /\ w.ledger[i] = v.ledger[i]
            /\ \/ w.urls[i] = v.urls[i]
               \/ w.urls[i].status = "loading" /\ v.urls[i].status = "ready"
<1> PICK w : w = Player!HlsFallback(v, i)
  OBVIOUS
<1>0. v \in FreeState
  BY DEF Sound
<1>1. CASE v.urls[i].status # "ready" \/ v.urls[i].kind = "hls"
  <2>1. w = v
    BY <1>1 DEF Player!HlsFallback
  <2>2. Safe(v, w)
    BY <2>1, StaySafe
  <2>3. OnlyItem(v, w, i)
    BY <2>1 DEF OnlyItem
  <2> QED BY <1>1, <2>1, <2>2, <2>3
<1>2. CASE ~(v.urls[i].status # "ready" \/ v.urls[i].kind = "hls")
  <2> PICK x : x = Player!Cleared(v, i)
    OBVIOUS
  <2>1. x \in FreeState /\ x.urls = v.urls /\ x.next = v.next /\ x.ledger = v.ledger
    BY <1>0, ClearedKeeps
  <2> PICK u : u = v.urls[i].used
    OBVIOUS
  <2>u. u \in BOOLEAN
    BY SoundFacts DEF FreeEntry
  <2> PICK e : e = Player!Loading(v.next, u)
    OBVIOUS
  <2>2. e \in FreeEntry /\ e.status = "loading" /\ v.next + 1 \in Nat \ {0}
    BY <2>u, SoundFacts DEF Player!Loading, FreeEntry
  <2>3. w = [x EXCEPT !.urls[i] = e, !.next = @ + 1]
    BY <1>2 DEF Player!HlsFallback
  <2>4. w = [x EXCEPT !.urls = [v.urls EXCEPT ![i] = e], !.next = v.next + 1]
    BY <2>1, <2>3 DEF FreeState
  <2>5. [v.urls EXCEPT ![i] = e] \in [Media -> FreeEntry]
    BY <2>2, SoundFacts
  <2>6. /\ w \in FreeState /\ w.urls = [v.urls EXCEPT ![i] = e] /\ w.next = v.next + 1
        /\ w.ledger = v.ledger
    BY <2>1, <2>2, <2>4, <2>5 DEF FreeState
  <2>7. Safe(v, w)
    BY <2>6, <2>u, AgainSafe
  <2> QED BY <1>2, <2>2, <2>6, <2>7, SoundFacts DEF OnlyItem
<1> QED BY <1>1, <1>2

(* A refresh: the first one asks again, the second is an error.             *)
Refreshed(v, w, i, mark) ==
  \/ v.urls[i].status = "none" /\ w = v
  \/ /\ v.urls[i].status # "none" /\ v.ledger[i] # "unused"
     /\ w.urls[i].status = "error" /\ w.ledger[i] = v.ledger[i]
  \/ /\ v.urls[i].status # "none" /\ v.ledger[i] = "unused"
     /\ w.urls[i] = Player!Loading(v.next, TRUE) /\ w.ledger[i] = mark

LEMMA RefreshSafe ==
  ASSUME NEW v, Sound(v), NEW i \in Media, NEW w, NEW mark,
         \/ w = Player!RefreshUrlOnce(v, i, TRUE) /\ mark = "preserved"
         \/ w = Player!RefreshUrlOnce(v, i, FALSE) /\ mark = "used"
  PROVE  Safe(v, w) /\ OnlyItem(v, w, i) /\ Refreshed(v, w, i, mark)
<1> USE DEF Refreshed
<1>0. v \in FreeState
  BY DEF Sound
<1>1. CASE v.urls[i].status = "none"
  <2>1. w = v
    BY <1>1 DEF Player!RefreshUrlOnce
  <2> QED BY <1>1, <2>1, StaySafe DEF OnlyItem
<1>2. CASE v.urls[i].status # "none" /\ v.ledger[i] # "unused"
  <2> PICK x : x = Player!Stopped(v, i, "final")
    OBVIOUS
  <2>1. x \in FreeState /\ x.urls = v.urls /\ x.next = v.next /\ x.ledger = v.ledger
    BY <1>0, StoppedKeeps
  <2> PICK d, e : d = v.urls[i]
                  /\ e = [d EXCEPT !.status = "error", !.kind = "final", !.used = TRUE]
    OBVIOUS
  <2>2. d \in FreeEntry
    BY SoundFacts
  <2>3. /\ e \in FreeEntry /\ e.status = "error" /\ e.kind = "final"
        /\ e.request = v.urls[i].request /\ e.answer = v.urls[i].answer
    BY <2>2 DEF FreeEntry
  <2>4. w = [x EXCEPT !.urls[i] = [x.urls[i] EXCEPT !.status = "error", !.kind = "final",
                                                    !.used = TRUE]]
    BY <1>2 DEF Player!RefreshUrlOnce
  <2>a. w = [x EXCEPT !.urls[i] = e]
    BY <2>1, <2>4
  <2>5. w = [x EXCEPT !.urls = [v.urls EXCEPT ![i] = e]]
    BY <2>1, <2>a DEF FreeState
  <2>6. [v.urls EXCEPT ![i] = e] \in [Media -> FreeEntry]
    BY <2>3, SoundFacts
  <2>7. /\ w \in FreeState /\ w.urls = [v.urls EXCEPT ![i] = e] /\ w.next = v.next
        /\ w.ledger = v.ledger
    BY <2>1, <2>5, <2>6 DEF FreeState
  <2>8. w.urls[i] = e /\ \A j \in Media \ {i} : w.urls[j] = v.urls[j]
    BY <2>7, SoundFacts
  <2>9. Safe(v, w)
    <3>1. e.kind \in {"generic", "final"} /\ v.urls[i].status # "none" /\ i \in Media
      BY <2>3, <1>2
    <3> QED BY ONLY Sound(v), <2>3, <2>7, <3>1, ErrorSafe
  <2> QED BY <1>2, <2>3, <2>7, <2>8, <2>9 DEF OnlyItem
<1>3. CASE v.urls[i].status # "none" /\ v.ledger[i] = "unused"
  <2> PICK x : x = Player!Cleared(v, i)
    OBVIOUS
  <2>1. x \in FreeState /\ x.urls = v.urls /\ x.next = v.next /\ x.ledger = v.ledger
    BY <1>0, ClearedKeeps
  <2> PICK e, l : e = Player!Loading(v.next, TRUE) /\ l = mark
    OBVIOUS
  <2>m. l \in {"preserved", "used"}
    OBVIOUS
  <2>e. e \in FreeEntry /\ v.next + 1 \in Nat \ {0}
    BY SoundFacts DEF Player!Loading, FreeEntry
  <2>2. e \in FreeEntry /\ v.next + 1 \in Nat \ {0} /\ l \in {"preserved", "used"}
    BY <2>m, <2>e
  <2>3. w = [x EXCEPT !.urls[i] = e, !.ledger[i] = l, !.next = @ + 1]
    BY <1>3 DEF Player!RefreshUrlOnce
  <2>4. w = [x EXCEPT !.urls = [v.urls EXCEPT ![i] = e],
                      !.ledger = [v.ledger EXCEPT ![i] = l], !.next = v.next + 1]
    BY <2>1, <2>3 DEF FreeState
  <2>5. /\ [v.urls EXCEPT ![i] = e] \in [Media -> FreeEntry]
        /\ [v.ledger EXCEPT ![i] = l] \in [Media -> {"unused", "used", "preserved"}]
    BY <2>2, SoundFacts
  <2>6. /\ w \in FreeState /\ w.urls = [v.urls EXCEPT ![i] = e] /\ w.next = v.next + 1
        /\ w.ledger = [v.ledger EXCEPT ![i] = l]
    BY <2>1, <2>2, <2>4, <2>5 DEF FreeState
  <2>7. Safe(v, w)
    BY <2>6, AgainSafe
  <2>v. v.urls \in [Media -> FreeEntry] /\ v.ledger \in [Media -> {"unused", "used", "preserved"}]
    BY SoundFacts
  <2>8. w.urls[i] = e /\ w.ledger[i] = l
    BY <2>v, <2>6
  <2> QED BY <1>3, <2>6, <2>7, <2>8, SoundFacts DEF OnlyItem
<1> QED BY <1>1, <1>2, <1>3

(* url-ready: the answer to the request an entry waits for, if it still     *)
(* waits for that one.                                                     *)
LEMMA UrlReadySafe ==
  ASSUME NEW v, Sound(v), NEW i \in Media, NEW r \in Nat, r < v.next,
         NEW kind \in {"direct", "raw", "hls"}
  PROVE  LET w == Player!UrlReady(v, i, r, kind)
         IN /\ Sound(w) /\ w.next = v.next /\ OnlyItem(v, w, i)
            /\ \/ ~Player!Awaits(v, i, r) /\ w = v
               \/ /\ Player!Awaits(v, i, r)
                  /\ w.urls[i].status = "ready" /\ w.urls[i].request = r
                  /\ w.urls[i].answer = r
                  /\ w.ledger[i] = IF v.ledger[i] = "preserved" THEN "used" ELSE "unused"
<1> PICK w : w = Player!UrlReady(v, i, r, kind)
  OBVIOUS
<1>0. v \in FreeState
  BY DEF Sound
<1>1. CASE ~Player!Awaits(v, i, r)
  <2>1. w = v
    BY <1>1 DEF Player!UrlReady
  <2> QED BY <1>0, <1>1, <2>1 DEF OnlyItem
<1>2. CASE Player!Awaits(v, i, r)
  <2> PICK x : x = Player!Cleared(v, i)
    OBVIOUS
  <2>1. x \in FreeState /\ x.urls = v.urls /\ x.next = v.next /\ x.ledger = v.ledger
    BY <1>0, ClearedKeeps
  <2> PICK keeps : keeps = (v.ledger[i] = "preserved")
    OBVIOUS
  <2> PICK l : l = IF v.ledger[i] = "preserved" THEN "used" ELSE "unused"
    OBVIOUS
  <2> PICK e : e = [status |-> "ready", request |-> r, kind |-> kind, used |-> keeps,
                    answer |-> r]
    OBVIOUS
  <2>2. v.urls[i].status = "loading" /\ v.urls[i].request = r
    BY <1>2 DEF Player!Awaits
  <2>3. e \in FreeEntry /\ l \in {"used", "unused"}
    BY DEF FreeEntry
  <2>4. w = [x EXCEPT !.urls[i] = e, !.ledger[i] = l]
    BY <1>2, <2>2 DEF Player!UrlReady
  <2>5. w = [x EXCEPT !.urls = [v.urls EXCEPT ![i] = e],
                      !.ledger = [v.ledger EXCEPT ![i] = l]]
    BY <2>1, <2>4 DEF FreeState
  <2>6. /\ [v.urls EXCEPT ![i] = e] \in [Media -> FreeEntry]
        /\ [v.ledger EXCEPT ![i] = l] \in [Media -> {"unused", "used", "preserved"}]
    BY <2>3, SoundFacts
  <2>7. /\ w \in FreeState /\ w.urls = [v.urls EXCEPT ![i] = e] /\ w.next = v.next
        /\ w.ledger = [v.ledger EXCEPT ![i] = l]
    BY <2>1, <2>5, <2>6 DEF FreeState
  <2>8. w.urls[i] = e /\ w.ledger[i] = l
    BY <2>7, SoundFacts
  <2>9. r > 0
    BY <2>2, SoundFacts DEF EntryRule
  <2>10. EntryRule(e, w.next) /\ v.next <= w.next
    BY <2>7, <2>9, SoundFacts DEF EntryRule
  <2>11. \A j \in Media \ {i} : Apart(e, v.urls[j])
    <3>1. \A j \in Media \ {i} : Apart(v.urls[i], v.urls[j])
      BY DEF Sound
    <3> QED BY <2>2, <3>1 DEF Apart
  <2>12. Sound(w)
    BY <2>3, <2>7, <2>10, <2>11, EntrySet
  <2>13. OnlyItem(v, w, i)
    BY <2>7, SoundFacts DEF OnlyItem
  <2> QED BY <1>2, <2>7, <2>8, <2>12, <2>13
<1> QED BY <1>1, <1>2
-------------------------------------------------------------------------------
(* The invariant of the viewer, in parts, each a predicate of the values of *)
(* the variables it is about: v the reducer's state, s that of the last     *)
(* render, c the calls, f the requests in flight, e whether the viewer has  *)
(* ended, o whether effects are owed, l and p the sessions.                *)
CallState == [phase : {"none", "asked", "preparing", "prepared", "done"},
              item : Media \cup {0}, aborted : BOOLEAN]
Started(c, r) == c[r].phase # "none"
Pending(c, r) == c[r].phase \in {"asked", "preparing", "prepared"} /\ ~c[r].aborted

(* Calls are made in the order of the renders, and one that may still       *)
(* deliver is the one in flight for its item.                              *)
Order(v, s, c, f) ==
  /\ Sound(v) /\ Sound(s) /\ s.next <= v.next /\ v.next <= RequestBound + 1
  /\ c \in [Requests -> CallState] /\ f \in [Media -> 0 .. RequestBound]
  /\ \A r \in Requests : Started(c, r) => r < s.next /\ c[r].item \in Media
  /\ \A i \in Media : f[i] # 0 => Started(c, f[i]) /\ c[f[i]].item = i
  /\ \A r \in Requests : Pending(c, r) => f[c[r].item] = r

(* The URL of i came from call r, and no other call for i may deliver.      *)
Settled(c, r, i) ==
  /\ c[r].phase = "done" /\ c[r].item = i
  /\ \A q \in Requests : Pending(c, q) => c[q].item # i

(* How entries and calls hang together: a ready entry is settled and was    *)
(* there in the last render; one that is loading is new since, or was; and  *)
(* its call, once made, may deliver until the viewer ends.                 *)
LinkedEntry(d, x, i, next, c, e) ==
  /\ x.status = "ready" => Settled(c, x.request, i)
  /\ d.status = "ready" => /\ Settled(c, d.request, i)
                           /\ x.status \in {"loading", "ready"} /\ x.request = d.request
  /\ d.status = "loading" =>
       /\ d.request >= next \/ (x.status = "loading" /\ x.request = d.request)
       /\ Started(c, d.request) /\ ~e => Pending(c, d.request) /\ c[d.request].item = i
Linked(v, s, c, e) ==
  \A i \in Media : LinkedEntry(v.urls[i], s.urls[i], i, s.next, c, e)

(* Once the effects have run, what was loading in the render is asked for.  *)
AllAsked(s, c, o) ==
  ~o => \A i \in Media : s.urls[i].status = "loading" => Started(c, s.urls[i].request)

(* Every session is held for an item, or the call that prepared it goes on; *)
(* the session of an item is live and that of its URL.                     *)
HeldFor(i, x, d, s, c, o, l) ==
  /\ x \in l /\ c[x].phase = "done" /\ c[x].item = i
  /\ d.status = "ready" => d.answer = x
  /\ ~o => \/ s.status = "ready"
           \/ /\ s.status = "loading" /\ s.request = x
              /\ ~(d.status = "loading" /\ d.request = x)
Held(v, s, c, o, l, p) ==
  /\ l \subseteq Requests /\ p \in [Media -> 0 .. RequestBound]
  /\ \A x \in l : c[x].phase = "prepared" \/ \E i \in Media : p[i] = x
  /\ \A r \in Requests : c[r].phase = "prepared" => r \in l
  /\ \A i \in Media : p[i] # 0 => HeldFor(i, p[i], v.urls[i], s.urls[i], c, o, l)

LEMMA OrderFacts ==
  ASSUME NEW v, NEW s, NEW c, NEW f, Order(v, s, c, f)
  PROVE  /\ RequestBound \in Nat /\ v.next \in Nat \ {0} /\ s.next \in Nat \ {0}
         /\ s.next <= v.next /\ v.next <= RequestBound + 1
         /\ \A i \in Media :
              /\ v.urls[i] \in FreeEntry /\ s.urls[i] \in FreeEntry
              /\ v.urls[i].status # "none" => v.urls[i].request \in Requests
              /\ s.urls[i].status # "none" => /\ s.urls[i].request \in Requests
                                              /\ s.urls[i].request < s.next
<1>1. RequestBound \in Nat
  BY TvAssumption
<1>2. /\ Sound(v) /\ Sound(s) /\ s.next <= v.next /\ v.next <= RequestBound + 1
  BY DEF Order
<1>3. v.next \in Nat \ {0} /\ s.next \in Nat \ {0}
  BY <1>2, SoundFacts
<1>4. ASSUME NEW e \in FreeEntry, NEW n \in Nat, n <= RequestBound + 1, EntryRule(e, n),
             e.status # "none"
      PROVE  e.request \in Requests /\ e.request < n
  <2>1. e.request \in Nat
    BY DEF FreeEntry
  <2> QED BY <1>1, <1>4, <2>1 DEF EntryRule, Requests
<1>5. s.next <= RequestBound + 1
  BY <1>1, <1>2, <1>3
<1>6. \A i \in Media : /\ v.urls[i] \in FreeEntry /\ EntryRule(v.urls[i], v.next)
                       /\ s.urls[i] \in FreeEntry /\ EntryRule(s.urls[i], s.next)
  BY <1>2, SoundFacts
<1> QED BY <1>1, <1>2, <1>3, <1>4, <1>5, <1>6

(* A step of the reducer by itself.                                        *)
LEMMA MovesKeep ==
  ASSUME NEW v, NEW s, NEW c, NEW f, NEW e, NEW o, NEW l, NEW p, NEW w,
         Order(v, s, c, f), Linked(v, s, c, e), Held(v, s, c, o, l, p),
         Safe(v, w), w.next <= RequestBound + 1
  PROVE  Order(w, s, c, f) /\ Linked(w, s, c, e) /\ Held(w, s, c, o, l, p)
<1>1. /\ RequestBound \in Nat /\ v.next \in Nat \ {0} /\ s.next \in Nat \ {0} /\ s.next <= v.next
  BY OrderFacts
<1>2. Sound(w) /\ v.next <= w.next /\ w.next \in Nat \ {0}
  BY SoundFacts DEF Safe, Moves
<1>3. Order(w, s, c, f)
  BY <1>1, <1>2 DEF Order
<1>4. \A i \in Media : /\ EntryMoves(v.urls[i], w.urls[i], v.next)
                       /\ w.urls[i] \in FreeEntry
                       /\ w.urls[i].status # "none" => w.urls[i].request \in Requests
  BY <1>3, OrderFacts DEF Safe, Moves
<1>5. \A r \in Requests : Started(c, r) => r < s.next /\ r < v.next
  <2>1. \A r \in Requests : Started(c, r) => r < s.next
    BY DEF Order
  <2> QED BY <2>1, <1>1 DEF Requests
<1>6. ASSUME NEW i \in Media
      PROVE  LinkedEntry(w.urls[i], s.urls[i], i, s.next, c, e)
  <2> PICK d, x, y : d = v.urls[i] /\ x = w.urls[i] /\ y = s.urls[i]
    OBVIOUS
  <2>1. LinkedEntry(d, y, i, s.next, c, e)
    BY DEF Linked
  <2>2. CASE x = d
    BY <2>1, <2>2
  <2>3. CASE x.status \in {"none", "error"}
    BY <2>1, <2>3 DEF LinkedEntry
  <2>4. CASE x.status = "loading" /\ x.request >= v.next
    <3>1. x.request \in Requests /\ x.request \in Nat
      BY <1>4, <2>4 DEF Requests
    <3>2. ~Started(c, x.request) /\ x.request >= s.next
      BY <1>1, <1>5, <2>4, <3>1
    <3> QED BY <2>1, <2>4, <3>2 DEF LinkedEntry
  <2> QED BY <1>4, <2>2, <2>3, <2>4 DEF EntryMoves
<1>7. Linked(w, s, c, e)
  BY <1>6 DEF Linked
<1>8. ASSUME NEW i \in Media, p[i] # 0
      PROVE  HeldFor(i, p[i], w.urls[i], s.urls[i], c, o, l)
  <2> PICK d, x, y, q : d = v.urls[i] /\ x = w.urls[i] /\ y = s.urls[i] /\ q = p[i]
    OBVIOUS
  <2>1. HeldFor(i, q, d, y, c, o, l)
    BY <1>8 DEF Held
  <2>2. CASE x = d
    BY <2>1, <2>2
  <2>3. CASE x.status \in {"none", "error"}
    BY <2>1, <2>3 DEF HeldFor
  <2>4. CASE x.status = "loading" /\ x.request >= v.next
    <3>1. q \in Requests /\ q \in Nat /\ Started(c, q)
      BY <2>1 DEF HeldFor, Held, Started, Requests
    <3>2. q < v.next
      BY <1>5, <3>1
    <3>3. x.request # q
      <4>1. x.request \in Nat
        BY <1>4, <2>4 DEF Requests
      <4> QED BY <1>1, <2>4, <3>1, <3>2, <4>1
    <3> QED BY <2>1, <2>4, <3>3 DEF HeldFor
  <2> QED BY <1>4, <2>2, <2>3, <2>4 DEF EntryMoves
<1>9. Held(w, s, c, o, l, p)
  BY <1>8 DEF Held
<1> QED BY <1>3, <1>7, <1>9

(* The session of an item is released.                                     *)
LEMMA DropKeeps ==
  ASSUME NEW v, NEW s, NEW c, NEW o, NEW l, NEW p, Held(v, s, c, o, l, p), NEW i \in Media
  PROVE  Held(v, s, c, o, l \ {p[i]}, [p EXCEPT ![i] = 0])
<1> PICK k, q : k = l \ {p[i]} /\ q = [p EXCEPT ![i] = 0]
  OBVIOUS
<1>0. RequestBound \in Nat
  BY TvAssumption
<1>1. p \in [Media -> 0 .. RequestBound] /\ l \subseteq Requests
  BY DEF Held
<1>2. q \in [Media -> 0 .. RequestBound] /\ q[i] = 0 /\ \A j \in Media \ {i} : q[j] = p[j]
  BY <1>0, <1>1
<1>3. \A j \in Media : p[j] # 0 => HeldFor(j, p[j], v.urls[j], s.urls[j], c, o, l)
  BY DEF Held
<1>4. ASSUME NEW x \in k PROVE c[x].phase = "prepared" \/ \E j \in Media : q[j] = x
  <2>1. x \in l /\ x # p[i]
    OBVIOUS
  <2>2. CASE c[x].phase = "prepared"
    BY <2>2
  <2>3. CASE \E j \in Media : p[j] = x
    BY <1>2, <2>1, <2>3
  <2> QED BY <2>1, <2>2, <2>3 DEF Held
<1>5. ASSUME NEW r \in Requests, c[r].phase = "prepared" PROVE r \in k
  <2>1. r \in l
    BY <1>5 DEF Held
  <2>2. r # p[i]
    <3>1. SUFFICES ASSUME r = p[i] PROVE FALSE
      OBVIOUS
    <3>2. p[i] # 0
      BY <1>0, <3>1 DEF Requests
    <3> QED BY <1>3, <1>5, <3>1, <3>2 DEF HeldFor
  <2> QED BY <2>1, <2>2
<1>6. ASSUME NEW j \in Media, q[j] # 0
      PROVE  HeldFor(j, q[j], v.urls[j], s.urls[j], c, o, k)
  <2>1. j # i /\ q[j] = p[j]
    BY <1>2, <1>6
  <2>2. HeldFor(j, p[j], v.urls[j], s.urls[j], c, o, l)
    BY <1>3, <1>6, <2>1
  <2>3. p[j] # p[i]
    <3>1. CASE p[i] = 0
      BY <1>6, <2>1, <3>1
    <3>2. CASE p[i] # 0
      <4>1. c[p[i]].item = i
        BY <1>3, <3>2 DEF HeldFor
      <4> QED BY <2>1, <2>2, <4>1 DEF HeldFor
    <3> QED BY <3>1, <3>2
  <2> QED BY <2>1, <2>2, <2>3 DEF HeldFor
<1>7. k \subseteq Requests
  BY <1>1
<1> QED BY <1>2, <1>4, <1>5, <1>6, <1>7 DEF Held
(* Calls whose phases say the same of sessions and of being over.           *)
LEMMA SettledKeeps ==
  ASSUME NEW c, NEW d, NEW r, NEW i, Settled(c, r, i),
         d[r].phase = c[r].phase, d[r].item = c[r].item,
         \A q \in Requests : Pending(d, q) => Pending(c, q) /\ d[q].item = c[q].item
  PROVE  Settled(d, r, i)
  BY DEF Settled

(* A call reaches a phase; it is over, and no entry needs it.              *)
Phased(c, r, phase) == [c EXCEPT ![r].phase = phase]
Forgotten(c, f, r) == [f EXCEPT ![c[r].item] = IF @ = r THEN 0 ELSE @]

LEMMA CallEnds ==
  ASSUME NEW v, NEW s, NEW c, NEW f, NEW e, NEW o, NEW l, NEW p, NEW r \in Requests,
         Order(v, s, c, f), Linked(v, s, c, e), AllAsked(s, c, o), Held(v, s, c, o, l, p),
         c[r].phase \in {"asked", "preparing", "prepared"},
         \/ e \/ ~Pending(c, r)
         \/ ~(v.urls[c[r].item].status = "loading" /\ v.urls[c[r].item].request = r),
         NEW d, d = Phased(c, r, "done"), NEW g, g = f \/ g = Forgotten(c, f, r)
  PROVE  /\ Order(v, s, d, g) /\ Linked(v, s, d, e) /\ AllAsked(s, d, o)
         /\ Held(v, s, d, o, l \ {r}, p)
<1> USE DEF Phased, Forgotten
<1>0. /\ RequestBound \in Nat /\ c \in [Requests -> CallState]
      /\ f \in [Media -> 0 .. RequestBound]
      /\ \A x \in Requests : Started(c, x) => x < s.next /\ c[x].item \in Media
      /\ \A i \in Media : f[i] # 0 => Started(c, f[i]) /\ c[f[i]].item = i
      /\ \A x \in Requests : Pending(c, x) => f[c[x].item] = x
  BY TvAssumption DEF Order
<1>1. /\ d \in [Requests -> CallState] /\ d[r].phase = "done" /\ d[r].item = c[r].item
      /\ \A q \in Requests \ {r} : d[q] = c[q]
  <2> PICK x : x = [c[r] EXCEPT !.phase = "done"]
    OBVIOUS
  <2>1. x \in CallState /\ x.phase = "done" /\ x.item = c[r].item
    BY <1>0 DEF CallState
  <2>2. d = [c EXCEPT ![r] = x]
    OBVIOUS
  <2> QED BY <1>0, <2>1, <2>2
<1>2. \A q \in Requests : Started(d, q) <=> Started(c, q)
  BY <1>1 DEF Started
<1>3. \A q \in Requests : /\ d[q].item = c[q].item
                          /\ Pending(d, q) => q # r /\ Pending(c, q)
                          /\ Pending(c, q) /\ q # r => Pending(d, q)
  BY <1>1 DEF Pending
<1>4. g \in [Media -> 0 .. RequestBound] /\ \A i \in Media : g[i] \in {0, f[i]}
  BY <1>0
<1>5. Order(v, s, d, g)
  <2>1. \A q \in Requests : Started(d, q) => q < s.next /\ d[q].item \in Media
    BY <1>0, <1>2, <1>3
  <2>2. ASSUME NEW i \in Media, g[i] # 0 PROVE Started(d, g[i]) /\ d[g[i]].item = i
    <3>1. g[i] = f[i] /\ f[i] # 0 /\ f[i] \in Requests
      BY <1>0, <1>4, <2>2 DEF Requests
    <3> QED BY <1>0, <1>2, <1>3, <3>1
  <2>3. ASSUME NEW q \in Requests, Pending(d, q) PROVE g[d[q].item] = q
    <3>1. q # r /\ f[c[q].item] = q /\ d[q].item = c[q].item
      BY <1>0, <1>3, <2>3
    <3>2. c[q].item \in Media
      BY <1>0, <1>2, <2>3 DEF Started, Pending
    <3> QED BY <1>0, <3>1, <3>2
  <2> QED BY <1>1, <1>4, <2>1, <2>2, <2>3 DEF Order
<1>6. ASSUME NEW i \in Media
      PROVE  LinkedEntry(v.urls[i], s.urls[i], i, s.next, d, e)
  <2> PICK x, y : x = v.urls[i] /\ y = s.urls[i]
    OBVIOUS
  <2>1. LinkedEntry(x, y, i, s.next, c, e)
    BY DEF Linked
  <2>2. /\ x.status # "none" => x.request \in Requests
        /\ y.status # "none" => y.request \in Requests
    BY OrderFacts
  <2>3. ASSUME NEW q \in Requests, Settled(c, q, i) PROVE Settled(d, q, i)
    <3>1. q # r
      BY <2>3 DEF Settled
    <3> QED BY <1>1, <1>3, <2>3, <3>1, SettledKeeps
  <2>4. ASSUME x.status = "loading", Started(d, x.request), ~e
        PROVE  Pending(d, x.request) /\ d[x.request].item = i
    <3>1. x.request \in Requests
      BY <2>2, <2>4
    <3>2. Pending(c, x.request) /\ c[x.request].item = i
      BY <1>2, <2>1, <2>4, <3>1 DEF LinkedEntry
    <3>3. x.request # r
      BY <2>4, <3>2
    <3> QED BY <1>3, <3>1, <3>2, <3>3
  <2> QED BY <2>1, <2>2, <2>3, <2>4 DEF LinkedEntry
<1>7. Linked(v, s, d, e)
  BY <1>6 DEF Linked
<1>8. AllAsked(s, d, o)
  BY <1>2, OrderFacts DEF AllAsked
<1>9. Held(v, s, d, o, l \ {r}, p)
  <2>1. /\ l \subseteq Requests /\ p \in [Media -> 0 .. RequestBound]
        /\ \A x \in l : c[x].phase = "prepared" \/ \E i \in Media : p[i] = x
        /\ \A x \in Requests : c[x].phase = "prepared" => x \in l
        /\ \A i \in Media : p[i] # 0 => HeldFor(i, p[i], v.urls[i], s.urls[i], c, o, l)
    BY DEF Held
  <2> PICK k : k = l \ {r}
    OBVIOUS
  <2>2. \A x \in k : d[x].phase = "prepared" \/ \E i \in Media : p[i] = x
    BY <1>1, <2>1
  <2>3. \A x \in Requests : d[x].phase = "prepared" => x \in k
    BY <1>1, <2>1
  <2>4. ASSUME NEW i \in Media, p[i] # 0
        PROVE  HeldFor(i, p[i], v.urls[i], s.urls[i], d, o, k)
    <3>1. HeldFor(i, p[i], v.urls[i], s.urls[i], c, o, l) /\ p[i] \in Requests
      BY <2>1, <2>4 DEF Requests
    <3>2. p[i] # r
      BY <3>1 DEF HeldFor
    <3> QED BY <1>1, <3>1, <3>2 DEF HeldFor
  <2>5. k \subseteq Requests
    BY <2>1
  <2> QED BY <2>1, <2>2, <2>3, <2>4, <2>5 DEF Held
<1> QED BY <1>5, <1>7, <1>8, <1>9

(* A call goes on: the bridge is asked for a session, or has prepared it.   *)
LEMMA CallGoesOn ==
  ASSUME NEW v, NEW s, NEW c, NEW f, NEW e, NEW o, NEW l, NEW p, NEW r \in Requests,
         Order(v, s, c, f), Linked(v, s, c, e), AllAsked(s, c, o), Held(v, s, c, o, l, p),
         c[r].phase \in {"asked", "preparing"}, NEW phase \in {"preparing", "prepared"},
         NEW d, d = Phased(c, r, phase),
         NEW k, phase = "prepared" => k = l \cup {r}, phase = "preparing" => k = l
  PROVE  /\ Order(v, s, d, f) /\ Linked(v, s, d, e) /\ AllAsked(s, d, o)
         /\ Held(v, s, d, o, k, p)
<1> USE DEF Phased
<1>0. /\ RequestBound \in Nat /\ c \in [Requests -> CallState]
      /\ f \in [Media -> 0 .. RequestBound]
      /\ \A x \in Requests : Started(c, x) => x < s.next /\ c[x].item \in Media
      /\ \A i \in Media : f[i] # 0 => Started(c, f[i]) /\ c[f[i]].item = i
      /\ \A x \in Requests : Pending(c, x) => f[c[x].item] = x
  BY TvAssumption DEF Order
<1>1. /\ d \in [Requests -> CallState] /\ d[r].phase = phase /\ d[r].item = c[r].item
      /\ d[r].aborted = c[r].aborted
      /\ \A q \in Requests \ {r} : d[q] = c[q]
  <2> PICK x : x = [c[r] EXCEPT !.phase = phase]
    OBVIOUS
  <2>1. /\ x \in CallState /\ x.phase = phase /\ x.item = c[r].item
        /\ x.aborted = c[r].aborted
    BY <1>0 DEF CallState
  <2>2. d = [c EXCEPT ![r] = x]
    OBVIOUS
  <2> QED BY <1>0, <2>1, <2>2
<1>2. \A q \in Requests : /\ Started(d, q) <=> Started(c, q)
                          /\ Pending(d, q) <=> Pending(c, q)
                          /\ d[q].item = c[q].item
                          /\ d[q].phase = "done" <=> c[q].phase = "done"
  BY <1>1 DEF Started, Pending
<1>3. \A i \in Media : f[i] # 0 => f[i] \in Requests
  BY <1>0 DEF Requests
<1>4. Order(v, s, d, f)
  <2>1. /\ Sound(v) /\ Sound(s) /\ s.next <= v.next /\ v.next <= RequestBound + 1
    BY DEF Order
  <2>2. \A q \in Requests : Started(d, q) => q < s.next /\ d[q].item \in Media
    BY <1>0, <1>2
  <2>3. \A i \in Media : f[i] # 0 => Started(d, f[i]) /\ d[f[i]].item = i
    BY <1>0, <1>2, <1>3
  <2>4. \A q \in Requests : Pending(d, q) => f[d[q].item] = q
    BY <1>0, <1>2
  <2> QED BY <1>0, <1>1, <2>1, <2>2, <2>3, <2>4 DEF Order
<1>5. ASSUME NEW i \in Media
      PROVE  LinkedEntry(v.urls[i], s.urls[i], i, s.next, d, e)
  <2> PICK x, y : x = v.urls[i] /\ y = s.urls[i]
    OBVIOUS
  <2>1. LinkedEntry(x, y, i, s.next, c, e)
    BY DEF Linked
  <2>2. /\ x.status # "none" => x.request \in Requests
        /\ y.status # "none" => y.request \in Requests
    BY OrderFacts
  <2>3. \A q \in Requests : Settled(c, q, i) => Settled(d, q, i)
    BY <1>2 DEF Settled
  <2> QED BY <1>2, <2>1, <2>2, <2>3 DEF LinkedEntry
<1>6. Linked(v, s, d, e)
  BY <1>5 DEF Linked
<1>7. AllAsked(s, d, o)
  BY <1>2, OrderFacts DEF AllAsked
<1>8. Held(v, s, d, o, k, p)
  <2>1. /\ l \subseteq Requests /\ p \in [Media -> 0 .. RequestBound]
        /\ \A x \in l : c[x].phase = "prepared" \/ \E i \in Media : p[i] = x
        /\ \A x \in Requests : c[x].phase = "prepared" => x \in l
        /\ \A i \in Media : p[i] # 0 => HeldFor(i, p[i], v.urls[i], s.urls[i], c, o, l)
    BY DEF Held
  <2>2. \A x \in k : d[x].phase = "prepared" \/ \E i \in Media : p[i] = x
    BY <1>1, <2>1
  <2>3. \A x \in Requests : d[x].phase = "prepared" => x \in k
    BY <1>1, <2>1
  <2>4. ASSUME NEW i \in Media, p[i] # 0
        PROVE  HeldFor(i, p[i], v.urls[i], s.urls[i], d, o, k)
    <3>1. HeldFor(i, p[i], v.urls[i], s.urls[i], c, o, l) /\ p[i] \in Requests
      BY <2>1, <2>4 DEF Requests
    <3> QED BY <1>2, <3>1 DEF HeldFor
  <2>5. k \subseteq Requests
    BY <2>1
  <2> QED BY <2>1, <2>2, <2>3, <2>4, <2>5 DEF Held
<1> QED BY <1>4, <1>6, <1>7, <1>8

(* The next render shows the present state.                                *)
LEMMA RenderKeeps ==
  ASSUME NEW v, NEW s, NEW c, NEW f, NEW e, NEW o, NEW l, NEW p,
         Order(v, s, c, f), Linked(v, s, c, e), Held(v, s, c, o, l, p)
  PROVE  /\ Order(v, v, c, f) /\ Linked(v, v, c, e) /\ AllAsked(v, c, TRUE)
         /\ Held(v, v, c, TRUE, l, p)
<1>1. Order(v, v, c, f)
  <2>1. /\ v.next \in Nat /\ s.next \in Nat /\ s.next <= v.next
    BY OrderFacts
  <2>2. \A r \in Requests : Started(c, r) => r < v.next /\ c[r].item \in Media
    BY <2>1 DEF Order, Requests
  <2> QED BY <2>1, <2>2 DEF Order
<1>2. ASSUME NEW i \in Media PROVE LinkedEntry(v.urls[i], v.urls[i], i, v.next, c, e)
  <2>1. LinkedEntry(v.urls[i], s.urls[i], i, s.next, c, e)
    BY DEF Linked
  <2> QED BY <2>1 DEF LinkedEntry
<1>3. ASSUME NEW i \in Media, p[i] # 0
      PROVE  HeldFor(i, p[i], v.urls[i], v.urls[i], c, TRUE, l)
  BY <1>3 DEF Held, HeldFor
<1>4. Held(v, v, c, TRUE, l, p)
  BY <1>3 DEF Held
<1> QED BY <1>1, <1>2, <1>4 DEF Linked, AllAsked
(* An answer arrives that is not outdated: the session of the item, if it   *)
(* has one, is released, and that of the answer registered.                *)
Given(f, i, x) == [f EXCEPT ![i] = x]

Core(v, s, c, f, e, o, l, p) ==
  Order(v, s, c, f) /\ Linked(v, s, c, e) /\ AllAsked(s, c, o) /\ Held(v, s, c, o, l, p)

LEMMA RegisteredKeeps ==
  ASSUME NEW v, NEW s, NEW c, NEW f, NEW e, NEW o, NEW l, NEW p, NEW r \in Requests,
         Core(v, s, c, f, e, o, l, p),
         Pending(c, r), NEW kind \in {"direct", "raw", "hls"},
         kind = "raw" => c[r].phase = "prepared", kind # "raw" => c[r].phase = "asked",
         NEW i \in Media, i = c[r].item, Player!Awaits(s, i, r),
         NEW d, d = Phased(c, r, "done"), NEW w, w = Player!UrlReady(v, i, r, kind),
         NEW to, kind = "raw" => to = r, kind # "raw" => to = 0
  PROVE  Core(w, s, d, Given(f, i, 0), e, o, l \ {p[i]}, Given(p, i, to))
<1> USE DEF Phased, Given, Core
<1> PICK g, q, k : /\ g = [f EXCEPT ![i] = 0] /\ k = l \ {p[i]}
                   /\ q = [p EXCEPT ![i] = IF kind = "raw" THEN r ELSE 0]
  OBVIOUS
<1>0. /\ RequestBound \in Nat /\ c \in [Requests -> CallState]
      /\ f \in [Media -> 0 .. RequestBound]
      /\ \A x \in Requests : Started(c, x) => x < s.next /\ c[x].item \in Media
      /\ \A j \in Media : f[j] # 0 => Started(c, f[j]) /\ c[f[j]].item = j
      /\ \A x \in Requests : Pending(c, x) => f[c[x].item] = x
      /\ Sound(v) /\ Sound(s) /\ s.next <= v.next /\ v.next <= RequestBound + 1
  BY TvAssumption DEF Order
<1>1. /\ d \in [Requests -> CallState] /\ d[r].phase = "done" /\ d[r].item = i
      /\ \A x \in Requests \ {r} : d[x] = c[x]
  <2> PICK x : x = [c[r] EXCEPT !.phase = "done"]
    OBVIOUS
  <2>1. x \in CallState /\ x.phase = "done" /\ x.item = i
    BY <1>0 DEF CallState
  <2>2. d = [c EXCEPT ![r] = x]
    OBVIOUS
  <2> QED BY <1>0, <2>1, <2>2
<1>2. \A x \in Requests : /\ Started(d, x) <=> Started(c, x)
                          /\ d[x].item = c[x].item
                          /\ Pending(d, x) => x # r /\ Pending(c, x)
                          /\ Pending(c, x) /\ x # r => Pending(d, x)
  BY <1>1 DEF Started, Pending
<1>3. /\ f[i] = r /\ r \in Nat /\ r < s.next /\ r < v.next
      /\ Started(c, r)
  <2>1. f[i] = r /\ r \in Nat /\ Started(c, r)
    BY <1>0 DEF Requests, Pending, Started
  <2> QED BY <1>0, <2>1, OrderFacts
<1>4. /\ Sound(w) /\ w.next = v.next /\ OnlyItem(v, w, i)
      /\ \/ ~Player!Awaits(v, i, r) /\ w = v
         \/ /\ Player!Awaits(v, i, r)
            /\ w.urls[i].status = "ready" /\ w.urls[i].request = r
            /\ w.urls[i].answer = r
  BY <1>0, <1>3, UrlReadySafe
<1>5. \A x \in Requests : Pending(d, x) => c[x].item # i
  BY <1>0, <1>2, <1>3
<1>6. g \in [Media -> 0 .. RequestBound] /\ g[i] = 0 /\ \A j \in Media \ {i} : g[j] = f[j]
  BY <1>0
<1>7. Order(w, s, d, g)
  <2>1. \A x \in Requests : Started(d, x) => x < s.next /\ d[x].item \in Media
    BY <1>0, <1>2
  <2>2. ASSUME NEW j \in Media, g[j] # 0 PROVE Started(d, g[j]) /\ d[g[j]].item = j
    <3>1. g[j] = f[j] /\ f[j] \in Requests
      BY <1>0, <1>6, <2>2 DEF Requests
    <3> QED BY <1>0, <1>2, <2>2, <3>1
  <2>3. ASSUME NEW x \in Requests, Pending(d, x) PROVE g[d[x].item] = x
    <3>1. Pending(c, x) /\ d[x].item = c[x].item /\ c[x].item # i
      BY <1>2, <1>5, <2>3
    <3>2. Started(c, x)
      BY <3>1 DEF Started, Pending
    <3>3. c[x].item \in Media /\ f[c[x].item] = x
      BY <1>0, <3>1, <3>2
    <3>4. g[c[x].item] = f[c[x].item]
      BY <1>6, <3>1, <3>3
    <3> QED BY <3>1, <3>3, <3>4
  <2> QED BY <1>0, <1>1, <1>4, <1>6, <2>1, <2>2, <2>3 DEF Order
<1>8. v.urls[i].status # "ready"
  <2>1. LinkedEntry(v.urls[i], s.urls[i], i, s.next, c, e)
    BY DEF Linked
  <2> QED BY <2>1 DEF LinkedEntry, Settled
<1>9. ASSUME NEW j \in Media
      PROVE  LinkedEntry(w.urls[j], s.urls[j], j, s.next, d, e)
  <2> PICK x, y, z : x = v.urls[j] /\ y = s.urls[j] /\ z = w.urls[j]
    OBVIOUS
  <2>1. LinkedEntry(x, y, j, s.next, c, e)
    BY DEF Linked
  <2>2. /\ x.status # "none" => x.request \in Requests
        /\ y.status # "none" => y.request \in Requests /\ y.request < s.next
    BY OrderFacts
  <2>3. ASSUME NEW m \in Requests, Settled(c, m, j) PROVE Settled(d, m, j)
    <3>1. m # r
      BY <2>3 DEF Settled, Pending
    <3> QED BY <1>1, <1>2, <2>3, <3>1 DEF Settled
  <2>4. CASE j # i
    <3>1. z = x
      BY <1>4, <2>4 DEF OnlyItem
    <3>2. ASSUME x.status = "loading", Started(d, x.request), ~e
          PROVE  Pending(d, x.request) /\ d[x.request].item = j
      <4>1. x.request \in Requests
        BY <2>2, <3>2
      <4>2. Pending(c, x.request) /\ c[x.request].item = j
        BY <1>2, <2>1, <3>2, <4>1 DEF LinkedEntry
      <4>3. x.request # r
        BY <2>4, <4>2
      <4> QED BY <1>2, <4>1, <4>2, <4>3
    <3> QED BY <2>1, <2>2, <2>3, <3>1, <3>2 DEF LinkedEntry
  <2>5. CASE j = i
    <3>1. y.status = "loading" /\ y.request = r
      BY <2>5 DEF Player!Awaits
    <3>2. CASE Player!Awaits(v, i, r)
      <4>1. z.status = "ready" /\ z.request = r
        BY <1>4, <2>5, <3>2
      <4>2. Settled(d, r, i)
        BY <1>1, <1>2, <1>5 DEF Settled
      <4> QED BY <2>5, <3>1, <4>1, <4>2 DEF LinkedEntry
    <3>3. CASE ~Player!Awaits(v, i, r)
      <4>1. z = x /\ x.status # "ready"
        BY <1>4, <1>8, <2>5, <3>3
      <4>2. ASSUME x.status = "loading" PROVE x.request >= s.next /\ ~Started(d, x.request)
        <5>1. x.request >= s.next
          BY <2>1, <2>5, <3>1, <3>3, <4>2 DEF LinkedEntry, Player!Awaits
        <5>2. x.request \in Requests /\ x.request \in Nat /\ s.next \in Nat
          BY <2>2, <4>2, OrderFacts DEF Requests
        <5>3. ~(x.request < s.next)
          BY <5>1, <5>2
        <5> QED BY <1>0, <1>2, <5>1, <5>2, <5>3
      <4> QED BY <3>1, <4>1, <4>2 DEF LinkedEntry
    <3> QED BY <3>2, <3>3
  <2> QED BY <2>4, <2>5
<1>10. Linked(w, s, d, e)
  BY <1>9 DEF Linked
<1>11. AllAsked(s, d, o)
  BY <1>2, OrderFacts DEF AllAsked
<1>12. Held(w, s, d, o, k, q)
  <2>1. /\ l \subseteq Requests /\ p \in [Media -> 0 .. RequestBound]
        /\ \A x \in l : c[x].phase = "prepared" \/ \E j \in Media : p[j] = x
        /\ \A x \in Requests : c[x].phase = "prepared" => x \in l
        /\ \A j \in Media : p[j] # 0 => HeldFor(j, p[j], v.urls[j], s.urls[j], c, o, l)
    BY DEF Held
  <2>2. /\ q \in [Media -> 0 .. RequestBound] /\ q[i] = (IF kind = "raw" THEN r ELSE 0)
        /\ \A j \in Media \ {i} : q[j] = p[j]
    <3> PICK x : x = IF kind = "raw" THEN r ELSE 0
      OBVIOUS
    <3>1. x \in 0 .. RequestBound /\ q = [p EXCEPT ![i] = x]
      BY <1>0 DEF Requests
    <3> QED BY <2>1, <3>1
  <2>3. ASSUME NEW j \in Media, p[j] # 0
        PROVE  /\ p[j] \in l /\ p[j] \in Requests /\ c[p[j]].phase = "done"
               /\ c[p[j]].item = j /\ p[j] # r
    <3>1. HeldFor(j, p[j], v.urls[j], s.urls[j], c, o, l)
      BY <2>1, <2>3
    <3> QED BY <2>1, <3>1 DEF HeldFor, Pending
  <2>4. ASSUME NEW x \in k PROVE d[x].phase = "prepared" \/ \E j \in Media : q[j] = x
    <3>1. x \in l /\ x # p[i] /\ x \in Requests
      BY <2>1
    <3>2. CASE c[x].phase = "prepared"
      BY <1>1, <2>2, <3>1, <3>2
    <3>3. CASE \E j \in Media : p[j] = x
      BY <2>2, <3>1, <3>3
    <3> QED BY <2>1, <3>1, <3>2, <3>3
  <2>5. ASSUME NEW x \in Requests, d[x].phase = "prepared" PROVE x \in k
    <3>1. x # r /\ c[x].phase = "prepared"
      BY <1>1, <2>5
    <3>2. x \in l /\ x # 0
      BY <2>1, <3>1, <1>0 DEF Requests
    <3>3. x # p[i]
      BY <2>3, <3>1, <3>2
    <3> QED BY <3>2, <3>3
  <2>6. ASSUME NEW j \in Media, q[j] # 0
        PROVE  HeldFor(j, q[j], w.urls[j], s.urls[j], d, o, k)
    <3>1. CASE j # i
      <4>1. q[j] = p[j] /\ p[j] # 0 /\ w.urls[j] = v.urls[j]
        BY <1>4, <2>2, <2>6, <3>1 DEF OnlyItem
      <4>2. HeldFor(j, p[j], v.urls[j], s.urls[j], c, o, l) /\ d[p[j]] = c[p[j]]
        BY <1>1, <2>1, <2>3, <4>1
      <4>3. p[j] # p[i]
        BY <2>3, <3>1, <4>1
      <4> QED BY <4>1, <4>2, <4>3 DEF HeldFor
    <3>2. CASE j = i
      <4>1. kind = "raw" /\ q[j] = r
        BY <2>2, <2>6, <3>2
      <4>2. r \in l /\ r # p[i]
        BY <1>0, <2>1, <2>3, <4>1 DEF Requests
      <4>3. w.urls[i].status = "ready" => w.urls[i].answer = r
        BY <1>4, <1>8
      <4>4. s.urls[i].status = "loading" /\ s.urls[i].request = r
        BY DEF Player!Awaits
      <4>5. ~(w.urls[i].status = "loading" /\ w.urls[i].request = r)
        BY <1>4 DEF Player!Awaits
      <4> QED BY <1>1, <3>2, <4>1, <4>2, <4>3, <4>4, <4>5 DEF HeldFor
    <3> QED BY <3>1, <3>2
  <2>7. k \subseteq Requests
    BY <2>1
  <2> QED BY <2>2, <2>4, <2>5, <2>6, <2>7 DEF Held
<1> QED BY <1>7, <1>10, <1>11, <1>12

(* The viewer ends: nothing is in flight and nothing held any more.         *)
Aborted(c, f) == [r \in Requests |-> IF \E i \in Media : f[i] = r
                                    THEN [c[r] EXCEPT !.aborted = TRUE] ELSE c[r]]
Nothing == [i \in Media |-> 0]
Sessions(p) == {p[i] : i \in Media}

LEMMA EndKeeps ==
  ASSUME NEW v, NEW s, NEW c, NEW f, NEW e, NEW o, NEW l, NEW p,
         Order(v, s, c, f), Linked(v, s, c, e), AllAsked(s, c, o), Held(v, s, c, o, l, p),
         NEW d, d = Aborted(c, f)
  PROVE  /\ Order(v, s, d, Nothing) /\ Linked(v, s, d, TRUE) /\ AllAsked(s, d, o)
         /\ Held(v, s, d, o, l \ Sessions(p), Nothing)
         /\ \A r \in Requests : ~Pending(d, r)
<1> USE DEF Aborted, Nothing, Sessions
<1> PICK g, k : g = [i \in Media |-> 0] /\ k = l \ {p[i] : i \in Media}
  OBVIOUS
<1>0. /\ RequestBound \in Nat /\ c \in [Requests -> CallState]
      /\ \A x \in Requests : Started(c, x) => x < s.next /\ c[x].item \in Media
      /\ \A x \in Requests : Pending(c, x) => f[c[x].item] = x
      /\ Sound(v) /\ Sound(s) /\ s.next <= v.next /\ v.next <= RequestBound + 1
  BY TvAssumption DEF Order
<1>1. ASSUME NEW r \in Requests
      PROVE  /\ d[r] \in CallState /\ d[r].phase = c[r].phase /\ d[r].item = c[r].item
             /\ d[r].aborted = (c[r].aborted \/ \E i \in Media : f[i] = r)
  <2>1. CASE \E i \in Media : f[i] = r
    <3>1. d[r] = [c[r] EXCEPT !.aborted = TRUE]
      BY <2>1
    <3> QED BY <1>0, <2>1, <3>1 DEF CallState
  <2>2. CASE ~\E i \in Media : f[i] = r
    <3>1. d[r] = c[r]
      BY <2>2
    <3> QED BY <1>0, <2>2, <3>1 DEF CallState
  <2> QED BY <2>1, <2>2
<1>2. d \in [Requests -> CallState]
  BY <1>1
<1>3. \A x \in Requests : Started(d, x) <=> Started(c, x)
  BY <1>1 DEF Started
<1>4. ASSUME NEW x \in Requests PROVE ~Pending(d, x)
  <2>1. SUFFICES ASSUME Pending(d, x) PROVE FALSE
    OBVIOUS
  <2>2. Pending(c, x) /\ ~\E i \in Media : f[i] = x
    BY <1>1, <2>1 DEF Pending
  <2>3. f[c[x].item] = x /\ c[x].item \in Media
    BY <1>0, <2>2 DEF Pending, Started
  <2> QED BY <2>2, <2>3
<1>5. Order(v, s, d, g)
  <2>1. g \in [Media -> 0 .. RequestBound] /\ \A i \in Media : g[i] = 0
    BY <1>0
  <2>2. \A q \in Requests : Started(d, q) => q < s.next /\ d[q].item \in Media
    BY <1>0, <1>1, <1>3
  <2> QED BY <1>0, <1>2, <1>4, <2>1, <2>2 DEF Order
<1>6. ASSUME NEW i \in Media PROVE LinkedEntry(v.urls[i], s.urls[i], i, s.next, d, TRUE)
  <2> PICK x, y : x = v.urls[i] /\ y = s.urls[i]
    OBVIOUS
  <2>1. LinkedEntry(x, y, i, s.next, c, e)
    BY DEF Linked
  <2>2. /\ x.status # "none" => x.request \in Requests
        /\ y.status # "none" => y.request \in Requests
    BY OrderFacts
  <2>3. \A q \in Requests : Settled(c, q, i) => Settled(d, q, i)
    BY <1>1, <1>4 DEF Settled
  <2> QED BY <2>1, <2>2, <2>3 DEF LinkedEntry
<1>7. Linked(v, s, d, TRUE)
  BY <1>6 DEF Linked
<1>8. AllAsked(s, d, o)
  BY <1>3, OrderFacts DEF AllAsked
<1>9. Held(v, s, d, o, k, g)
  <2>1. /\ l \subseteq Requests /\ p \in [Media -> 0 .. RequestBound]
        /\ \A x \in l : c[x].phase = "prepared" \/ \E j \in Media : p[j] = x
        /\ \A x \in Requests : c[x].phase = "prepared" => x \in l
        /\ \A j \in Media : p[j] # 0 => HeldFor(j, p[j], v.urls[j], s.urls[j], c, o, l)
    BY DEF Held
  <2>2. \A x \in k : d[x].phase = "prepared"
    BY <1>1, <2>1
  <2>3. ASSUME NEW x \in Requests, d[x].phase = "prepared" PROVE x \in k
    <3>1. x \in l /\ c[x].phase = "prepared" /\ x # 0
      BY <1>0, <1>1, <2>1, <2>3 DEF Requests
    <3>2. \A j \in Media : p[j] # x
      BY <2>1, <3>1 DEF HeldFor
    <3> QED BY <3>1, <3>2
  <2>4. g \in [Media -> 0 .. RequestBound] /\ \A i \in Media : g[i] = 0
    BY <1>0
  <2>5. k \subseteq Requests
    BY <2>1
  <2> QED BY <2>2, <2>3, <2>4, <2>5 DEF Held
<1> QED BY <1>4, <1>5, <1>7, <1>8, <1>9
(* The effects of a render.                                                *)
Starts(s, c) ==
  {i \in Media : s.urls[i].status = "loading" /\ c[s.urls[i].request].phase = "none"}
Stale(s, f) == {i \in Media : f[i] # 0 /\ ~Player!Awaits(s, i, f[i])}
New(s, c, r) == \E i \in Starts(s, c) : s.urls[i].request = r
CallsAfter(s, c, f) ==
  [r \in Requests |->
     IF New(s, c, r)
     THEN [phase |-> "asked", item |-> CHOOSE i \in Starts(s, c) : s.urls[i].request = r,
           aborted |-> FALSE]
     ELSE IF \E i \in Stale(s, f) : f[i] = r
          THEN [c[r] EXCEPT !.aborted = TRUE] ELSE c[r]]
FlightAfter(s, c, f) ==
  [i \in Media |-> IF i \in Starts(s, c) THEN s.urls[i].request
                  ELSE IF i \in Stale(s, f) THEN 0 ELSE f[i]]
Unready(s, p) == {p[i] : i \in {m \in Media : s.urls[m].status # "ready"}}
Onwards(c, d) == \A r \in Requests : Pending(d, r) => d[r].phase = "asked" \/ d[r] = c[r]
PreparedAfter(s, p) == [i \in Media |-> IF s.urls[i].status = "ready" THEN p[i] ELSE 0]

LEMMA EffectsKeep ==
  ASSUME NEW v, NEW s, NEW c, NEW f, NEW e, NEW o, NEW l, NEW p,
         Order(v, s, c, f), Linked(v, s, c, e), Held(v, s, c, o, l, p),
         NEW d, d = CallsAfter(s, c, f)
  PROVE  /\ Order(v, s, d, FlightAfter(s, c, f)) /\ Linked(v, s, d, e)
         /\ AllAsked(s, d, FALSE)
         /\ Held(v, s, d, FALSE, l \ Unready(s, p), PreparedAfter(s, p))
         /\ Onwards(c, d)
<1> PICK g, k, q : /\ g = FlightAfter(s, c, f) /\ k = l \ Unready(s, p)
                   /\ q = PreparedAfter(s, p)
  OBVIOUS
<1> USE DEF CallsAfter, FlightAfter, Unready, PreparedAfter
<1>0. /\ RequestBound \in Nat /\ c \in [Requests -> CallState]
      /\ f \in [Media -> 0 .. RequestBound]
      /\ \A x \in Requests : Started(c, x) => x < s.next /\ c[x].item \in Media
      /\ \A j \in Media : f[j] # 0 => Started(c, f[j]) /\ c[f[j]].item = j
      /\ \A x \in Requests : Pending(c, x) => f[c[x].item] = x
      /\ Sound(v) /\ Sound(s) /\ s.next <= v.next /\ v.next <= RequestBound + 1
  BY TvAssumption DEF Order
<1>1. \A i \in Media : s.urls[i].status # "none" => /\ s.urls[i].request \in Requests
                                                   /\ s.urls[i].request < s.next
  BY OrderFacts
<1>2. \A i, j \in Media : s.urls[i].status # "none" /\ s.urls[j].status # "none"
                         /\ s.urls[i].request = s.urls[j].request => i = j
  BY <1>0 DEF Sound, Apart
<1>3. \A i \in Starts(s, c) : /\ i \in Media /\ s.urls[i].status = "loading"
                             /\ s.urls[i].request \in Requests /\ s.urls[i].request < s.next
                             /\ ~Started(c, s.urls[i].request) /\ New(s, c, s.urls[i].request)
  BY <1>1 DEF Starts, Started, New
<1>4. ASSUME NEW i \in Starts(s, c), NEW r, r = s.urls[i].request
      PROVE  d[r] = [phase |-> "asked", item |-> i, aborted |-> FALSE]
  <2> PICK j : j = CHOOSE m \in Starts(s, c) : s.urls[m].request = r
    OBVIOUS
  <2>1. j \in Starts(s, c) /\ s.urls[j].request = r
    BY <1>4
  <2>2. j = i
    BY <1>2, <1>3, <1>4, <2>1
  <2>3. r \in Requests /\ New(s, c, r)
    BY <1>3, <1>4
  <2> QED BY <2>2, <2>3
<1>5. ASSUME NEW r \in Requests, ~New(s, c, r)
      PROVE  /\ d[r] \in CallState /\ d[r].phase = c[r].phase /\ d[r].item = c[r].item
             /\ (\E i \in Stale(s, f) : f[i] = r) => d[r].aborted
             /\ ~(\E i \in Stale(s, f) : f[i] = r) => d[r] = c[r]
             /\ ~d[r].aborted => d[r] = c[r]
  <2>0. c[r] \in CallState
    BY <1>0
  <2>1. CASE \E i \in Stale(s, f) : f[i] = r
    <3>1. d[r] = [c[r] EXCEPT !.aborted = TRUE]
      BY <1>5, <2>1
    <3> QED BY <2>0, <2>1, <3>1 DEF CallState
  <2>2. CASE ~\E i \in Stale(s, f) : f[i] = r
    <3>1. d[r] = c[r]
      BY <1>5, <2>2
    <3> QED BY <2>0, <2>2, <3>1 DEF CallState
  <2> QED BY <2>1, <2>2
<1>6. ASSUME NEW r \in Requests, New(s, c, r)
      PROVE  \E i \in Starts(s, c) : /\ r = s.urls[i].request
                                    /\ d[r] = [phase |-> "asked", item |-> i, aborted |-> FALSE]
  BY <1>4, <1>6 DEF New
<1>7. ASSUME NEW r \in Requests, New(s, c, r)
      PROVE  ~Started(c, r) /\ Started(d, r) /\ Pending(d, r)
  <2>1. PICK i \in Starts(s, c) : /\ r = s.urls[i].request
                                /\ d[r] = [phase |-> "asked", item |-> i, aborted |-> FALSE]
    BY <1>6, <1>7
  <2>2. d[r].phase = "asked" /\ d[r].aborted = FALSE
    BY <2>1
  <2>3. ~Started(c, r)
    BY <1>3, <2>1
  <2> QED BY <2>2, <2>3 DEF Started, Pending
<1>8. \A r \in Requests : ~New(s, c, r) => /\ Started(d, r) = Started(c, r)
                                           /\ Pending(d, r) => Pending(c, r)
  BY <1>5 DEF Started, Pending
<1>9. d \in [Requests -> CallState]
  <2>1. \A r \in Requests : d[r] \in CallState
    BY <1>3, <1>5, <1>6 DEF CallState
  <2> QED BY <2>1
<1>10. /\ g \in [Media -> 0 .. RequestBound]
       /\ \A i \in Media : g[i] = IF i \in Starts(s, c) THEN s.urls[i].request
                                  ELSE IF i \in Stale(s, f) THEN 0 ELSE f[i]
  <2>1. \A i \in Media : g[i] = IF i \in Starts(s, c) THEN s.urls[i].request
                                ELSE IF i \in Stale(s, f) THEN 0 ELSE f[i]
    OBVIOUS
  <2>2. \A i \in Media : g[i] \in 0 .. RequestBound
    BY <1>0, <1>3, <2>1 DEF Requests
  <2> QED BY <2>1, <2>2
<1>11. Order(v, s, d, g)
  <2>1. ASSUME NEW x \in Requests, Started(d, x) PROVE x < s.next /\ d[x].item \in Media
    <3>1. CASE New(s, c, x)
      BY <1>3, <1>6, <3>1
    <3>2. CASE ~New(s, c, x)
      BY <1>0, <1>5, <1>8, <2>1, <3>2
    <3> QED BY <3>1, <3>2
  <2>2. ASSUME NEW i \in Media, g[i] # 0 PROVE Started(d, g[i]) /\ d[g[i]].item = i
    <3>1. CASE i \in Starts(s, c)
      <4>1. PICK r : r = s.urls[i].request
        OBVIOUS
      <4>2. d[r] = [phase |-> "asked", item |-> i, aborted |-> FALSE]
        BY <1>4, <3>1, <4>1
      <4>3. g[i] = r /\ d[r].phase = "asked" /\ d[r].item = i
        BY <1>10, <3>1, <4>1, <4>2
      <4> QED BY <4>3 DEF Started
    <3>2. CASE i \notin Starts(s, c)
      <4>1. g[i] = f[i] /\ f[i] \in Requests /\ Started(c, f[i]) /\ c[f[i]].item = i
        BY <1>0, <1>10, <2>2, <3>2 DEF Requests
      <4>2. ~New(s, c, f[i])
        BY <1>7, <4>1
      <4>3. d[f[i]].phase = c[f[i]].phase /\ d[f[i]].item = c[f[i]].item
        BY <1>5, <4>1, <4>2
      <4> QED BY <4>1, <4>3 DEF Started
    <3> QED BY <3>1, <3>2
  <2>3. ASSUME NEW x \in Requests, Pending(d, x) PROVE g[d[x].item] = x
    <3>1. CASE New(s, c, x)
      BY <1>3, <1>6, <1>10, <3>1
    <3>2. CASE ~New(s, c, x)
      <4> PICK i : i = c[x].item
        OBVIOUS
      <4>1. /\ Pending(c, x) /\ Started(c, x) /\ i \in Media /\ f[i] = x /\ d[x].item = i
        BY <1>0, <1>5, <1>8, <2>3, <3>2 DEF Pending, Started
      <4>2. i \notin Stale(s, f)
        BY <1>5, <2>3, <3>2, <4>1 DEF Pending
      <4>3. i \notin Starts(s, c)
        <5>1. SUFFICES ASSUME i \in Starts(s, c) PROVE FALSE
          OBVIOUS
        <5>2. f[i] # 0
          BY <1>0, <4>1 DEF Requests
        <5>3. Player!Awaits(s, i, x)
          BY <4>1, <4>2, <5>2 DEF Stale
        <5> QED BY <1>3, <4>1, <5>1, <5>3 DEF Player!Awaits
      <4> QED BY <1>10, <4>1, <4>2, <4>3
    <3> QED BY <3>1, <3>2
  <2> QED BY <1>0, <1>9, <1>10, <2>1, <2>2, <2>3 DEF Order
<1>12. ASSUME NEW i \in Media PROVE LinkedEntry(v.urls[i], s.urls[i], i, s.next, d, e)
  <2> PICK x, y : x = v.urls[i] /\ y = s.urls[i]
    OBVIOUS
  <2>1. LinkedEntry(x, y, i, s.next, c, e)
    BY DEF Linked
  <2>2. /\ x.status # "none" => x.request \in Requests
        /\ y.status # "none" => y.request \in Requests
    BY OrderFacts
  <2>3. ASSUME NEW m \in Requests, Settled(c, m, i), y.status = "ready" \/ y.request = m
        PROVE  Settled(d, m, i)
    <3>1. i \notin Starts(s, c)
      BY <2>3 DEF Settled, Starts
    <3>2. ~New(s, c, m)
      BY <1>3, <2>3 DEF Settled, Started, New
    <3>3. ASSUME NEW z \in Requests, Pending(d, z) PROVE d[z].item # i
      <4>1. CASE New(s, c, z)
        BY <1>6, <3>1, <4>1
      <4>2. CASE ~New(s, c, z)
        BY <1>5, <1>8, <2>3, <3>3, <4>2 DEF Settled
      <4> QED BY <4>1, <4>2
    <3> QED BY <1>5, <2>3, <3>2, <3>3 DEF Settled
  <2>4. ASSUME x.status = "loading", Started(d, x.request), ~e
        PROVE  Pending(d, x.request) /\ d[x.request].item = i
    <3> PICK m : m = x.request
      OBVIOUS
    <3>1. m \in Requests /\ m \in Nat /\ s.next \in Nat
      BY <2>2, <2>4, OrderFacts DEF Requests
    <3>2. m < s.next
      BY <1>11, <2>4, <3>1 DEF Order
    <3>3. ~(m >= s.next)
      BY <3>1, <3>2
    <3>4. y.status = "loading" /\ y.request = m
      BY <2>1, <2>4, <3>3 DEF LinkedEntry
    <3>5. CASE New(s, c, m)
      <4>1. PICK j \in Starts(s, c) : /\ m = s.urls[j].request
                                    /\ d[m] = [phase |-> "asked", item |-> j, aborted |-> FALSE]
        BY <1>6, <3>1, <3>5
      <4>2. j = i
        BY <1>2, <1>3, <3>4, <4>1
      <4> QED BY <4>1, <4>2 DEF Pending
    <3>6. CASE ~New(s, c, m)
      <4>1. Pending(c, m) /\ c[m].item = i
        BY <1>8, <2>1, <2>4, <3>1, <3>6 DEF LinkedEntry
      <4>2. \A j \in Stale(s, f) : f[j] # m
        <5>1. SUFFICES ASSUME NEW j \in Stale(s, f), f[j] = m PROVE FALSE
          OBVIOUS
        <5>2. j = i
          BY <1>0, <4>1, <5>1 DEF Stale
        <5> QED BY <3>4, <5>1, <5>2 DEF Stale, Player!Awaits
      <4> QED BY <1>5, <3>1, <3>6, <4>1, <4>2 DEF Pending
    <3> QED BY <3>5, <3>6
  <2> QED BY <2>1, <2>2, <2>3, <2>4 DEF LinkedEntry
<1>13. Linked(v, s, d, e)
  BY <1>12 DEF Linked
<1>14. AllAsked(s, d, FALSE)
  <2> SUFFICES ASSUME NEW i \in Media, s.urls[i].status = "loading"
               PROVE  Started(d, s.urls[i].request)
    BY DEF AllAsked
  <2>1. s.urls[i].request \in Requests
    BY <1>1
  <2>2. New(s, c, s.urls[i].request) \/ Started(c, s.urls[i].request)
    BY DEF New, Starts, Started
  <2> QED BY <1>7, <1>8, <2>1, <2>2
<1>15. Held(v, s, d, FALSE, k, q)
  <2>1. /\ l \subseteq Requests /\ p \in [Media -> 0 .. RequestBound]
        /\ \A x \in l : c[x].phase = "prepared" \/ \E j \in Media : p[j] = x
        /\ \A x \in Requests : c[x].phase = "prepared" => x \in l
        /\ \A j \in Media : p[j] # 0 => HeldFor(j, p[j], v.urls[j], s.urls[j], c, o, l)
    BY DEF Held
  <2>2. \A i \in Media : q[i] = IF s.urls[i].status = "ready" THEN p[i] ELSE 0
    OBVIOUS
  <2>3. q \in [Media -> 0 .. RequestBound]
    BY <1>0, <2>1
  <2>4. \A x \in Requests : c[x].phase \in {"prepared", "done"} =>
                           /\ ~New(s, c, x) /\ d[x].phase = c[x].phase /\ d[x].item = c[x].item
    BY <1>5, <1>7 DEF Started
  <2>5. ASSUME NEW x \in k PROVE d[x].phase = "prepared" \/ \E j \in Media : q[j] = x
    <3>1. x \in l /\ x \in Requests
      BY <2>1
    <3>2. CASE c[x].phase = "prepared"
      BY <2>4, <3>1, <3>2
    <3>3. CASE \E j \in Media : p[j] = x
      <4>1. PICK j \in Media : p[j] = x
        BY <3>3
      <4>2. s.urls[j].status = "ready"
        BY <4>1
      <4> QED BY <2>2, <4>1, <4>2
    <3> QED BY <2>1, <3>1, <3>2, <3>3
  <2>6. ASSUME NEW x \in Requests, d[x].phase = "prepared" PROVE x \in k
    <3>1. c[x].phase = "prepared"
      <4>1. ~New(s, c, x)
        BY <1>6, <2>6
      <4> QED BY <1>5, <2>6, <4>1
    <3>2. x \in l /\ x # 0
      BY <1>0, <2>1, <3>1 DEF Requests
    <3>3. \A j \in Media : p[j] # x
      BY <2>1, <3>1, <3>2 DEF HeldFor
    <3> QED BY <3>2, <3>3
  <2>7. ASSUME NEW i \in Media, q[i] # 0
        PROVE  HeldFor(i, q[i], v.urls[i], s.urls[i], d, FALSE, k)
    <3>1. s.urls[i].status = "ready" /\ q[i] = p[i] /\ p[i] # 0
      BY <2>2, <2>7
    <3>2. HeldFor(i, p[i], v.urls[i], s.urls[i], c, o, l)
      BY <2>1, <3>1
    <3>3. p[i] \in Requests /\ d[p[i]].phase = "done" /\ d[p[i]].item = i
      BY <2>1, <2>4, <3>2 DEF HeldFor
    <3>4. \A m \in Media : s.urls[m].status # "ready" => p[m] # p[i]
      <4>1. SUFFICES ASSUME NEW m \in Media, s.urls[m].status # "ready", p[m] = p[i] PROVE FALSE
        OBVIOUS
      <4>2. HeldFor(m, p[m], v.urls[m], s.urls[m], c, o, l)
        BY <2>1, <3>1, <4>1
      <4>3. m = i
        BY <3>2, <4>1, <4>2 DEF HeldFor
      <4> QED BY <3>1, <4>1, <4>3
    <3>5. p[i] \in k
      BY <3>2, <3>4 DEF HeldFor
    <3> QED BY <3>1, <3>2, <3>3, <3>5 DEF HeldFor
  <2>8. k \subseteq Requests
    BY <2>1
  <2> QED BY <2>3, <2>5, <2>6, <2>7, <2>8 DEF Held
<1>16. ASSUME NEW r \in Requests, Pending(d, r) PROVE d[r].phase = "asked" \/ d[r] = c[r]
  BY <1>5, <1>6, <1>16 DEF Pending
<1> QED BY <1>11, <1>13, <1>14, <1>15, <1>16 DEF Onwards
(* An item that the viewer has refreshed by itself has used its refresh, or *)
(* the fallback to HLS has given it a fresh URL that is not exchanged again. *)
Spared(d, ledger, direct) ==
  /\ d.status # "none"
  /\ ledger = "used" /\ d.status = "loading" => direct
  /\ ledger = "unused" => direct /\ d.status = "ready"
Counted(v, a, b) ==
  \A i \in Media : a[i] = 1 => Spared(v.urls[i], v.ledger[i], i \in b)

(* No session is held, or will be, for an item that fell back.             *)
Direct(c, b, p) ==
  \A i \in b : /\ p[i] = 0
              /\ \A r \in Requests : Pending(c, r) /\ c[r].item = i => c[r].phase = "asked"

LEMMA SameCounted ==
  ASSUME NEW v, NEW w, NEW a, NEW b, Counted(v, a, b), w.urls = v.urls, w.ledger = v.ledger
  PROVE  Counted(w, a, b)
  BY DEF Counted

(* Only item i is concerned.                                               *)
LEMMA CountedItem ==
  ASSUME NEW v, NEW w, NEW a, NEW b, Counted(v, a, b), NEW i \in Media, OnlyItem(v, w, i),
         NEW x, \A j \in Media \ {i} : x[j] = a[j],
         NEW y, \A j \in Media \ {i} : j \in b => j \in y,
         x[i] = 1 => Spared(w.urls[i], w.ledger[i], i \in y)
  PROVE  Counted(w, x, y)
<1> SUFFICES ASSUME NEW j \in Media, x[j] = 1
             PROVE  Spared(w.urls[j], w.ledger[j], j \in y)
  BY DEF Counted
<1>1. CASE j = i
  BY <1>1
<1>2. CASE j # i
  <2>1. Spared(v.urls[j], v.ledger[j], j \in b)
    BY <1>2 DEF Counted
  <2> QED BY <1>2, <2>1 DEF OnlyItem, Spared
<1> QED BY <1>1, <1>2

(* The viewer refreshes an item that has not used its refresh.             *)
CountsUp(a, i, v) == [a EXCEPT ![i] = IF v.urls[i].status # "none" /\ v.ledger[i] = "unused"
                                      THEN @ + 1 ELSE @]

LEMMA RefreshCounts ==
  ASSUME NEW v, Sound(v), NEW a \in [Media -> {0, 1}], NEW b, Counted(v, a, b),
         NEW i \in Media, ~(a[i] = 1 /\ v.ledger[i] = "unused"),
         NEW w, w = Player!RefreshUrlOnce(v, i, TRUE),
         NEW x, x = CountsUp(a, i, v)
  PROVE  x \in [Media -> {0, 1}] /\ Counted(w, x, b)
<1> PICK n : n = IF v.urls[i].status # "none" /\ v.ledger[i] = "unused" THEN a[i] + 1 ELSE a[i]
  OBVIOUS
<1>1. n \in {0, 1} /\ x = [a EXCEPT ![i] = n]
  BY DEF CountsUp
<1>2. x \in [Media -> {0, 1}] /\ x[i] = n /\ \A j \in Media \ {i} : x[j] = a[j]
  BY <1>1
<1>3. /\ OnlyItem(v, w, i)
      /\ \/ v.urls[i].status = "none" /\ w = v
         \/ /\ v.urls[i].status # "none" /\ v.ledger[i] # "unused"
            /\ w.urls[i].status = "error" /\ w.ledger[i] = v.ledger[i]
         \/ /\ v.urls[i].status # "none" /\ v.ledger[i] = "unused"
            /\ w.urls[i] = Player!Loading(v.next, TRUE) /\ w.ledger[i] = "preserved"
  <2> PICK mark : mark = "preserved"
    OBVIOUS
  <2>1. w = Player!RefreshUrlOnce(v, i, TRUE) /\ mark = "preserved"
    OBVIOUS
  <2>2. /\ OnlyItem(v, w, i)
        /\ Refreshed(v, w, i, mark)
    BY ONLY Sound(v), i \in Media, <2>1, RefreshSafe
  <2> QED BY <2>1, <2>2 DEF Refreshed
<1>4. ASSUME n = 1 PROVE Spared(w.urls[i], w.ledger[i], i \in b)
  <2>1. CASE v.urls[i].status = "none"
    <3>1. a[i] = 1
      BY <1>4, <2>1
    <3> QED BY <2>1, <3>1 DEF Counted, Spared
  <2>2. CASE v.urls[i].status # "none" /\ v.ledger[i] # "unused"
    <3>1. w.urls[i].status = "error" /\ w.ledger[i] = v.ledger[i]
      BY <2>2, <1>3
    <3> QED BY <2>2, <3>1 DEF Spared
  <2>3. CASE v.urls[i].status # "none" /\ v.ledger[i] = "unused"
    <3>1. w.urls[i] = Player!Loading(v.next, TRUE) /\ w.ledger[i] = "preserved"
      BY <2>3, <1>3
    <3>2. w.urls[i].status = "loading"
      BY ONLY <3>1 DEF Player!Loading
    <3> QED BY <3>1, <3>2 DEF Spared
  <2> QED BY <2>1, <2>2, <2>3
<1>5. \A j \in Media \ {i} : j \in b => j \in b
  OBVIOUS
<1> QED BY ONLY Counted(v, a, b), i \in Media, <1>2, <1>3, <1>4, <1>5, CountedItem

-------------------------------------------------------------------------------
(* The inductive invariant of the viewer and its steps.                     *)
ViewerTypes ==
  /\ owed \in BOOLEAN /\ ended \in BOOLEAN
  /\ hls \in [Media -> 0 .. RequestBound] /\ evidence \in [Media -> 0 .. RequestBound]
  /\ fallback \subseteq Media
  /\ keys \in 0 .. UserBound /\ automatic \in [Media -> {0, 1}]
ViewerCore ==
  /\ Order(view, shown, urlCalls, inflight)
  /\ Linked(view, shown, urlCalls, ended)
  /\ AllAsked(shown, urlCalls, owed)
  /\ Held(view, shown, urlCalls, owed, live, prepared)
  /\ Counted(view, automatic, fallback)
  /\ Direct(urlCalls, fallback, prepared)
ViewerInv == ViewerTypes /\ ViewerCore

LEMMA RenderStep == ASSUME ViewerInv, Player!Render PROVE ViewerInv'
<1>1. /\ shown' = view /\ owed' = TRUE /\ view' = view /\ urlCalls' = urlCalls
      /\ inflight' = inflight /\ live' = live /\ prepared' = prepared /\ hls' = hls
      /\ fallback' = fallback /\ evidence' = evidence /\ ended' = ended /\ keys' = keys
      /\ automatic' = automatic
  BY DEF Player!Render, Player!calling, Player!sessions, Player!failures
<1>2. /\ Order(view, view, urlCalls, inflight) /\ Linked(view, view, urlCalls, ended)
      /\ AllAsked(view, urlCalls, TRUE) /\ Held(view, view, urlCalls, TRUE, live, prepared)
  BY RenderKeeps DEF ViewerInv, ViewerCore
<1>3. ViewerCore'
  BY <1>1, <1>2 DEF ViewerInv, ViewerCore
<1>4. ViewerTypes'
  BY <1>1 DEF ViewerInv, ViewerTypes
<1> QED BY <1>3, <1>4 DEF ViewerInv

LEMMA DirectCalls ==
  ASSUME NEW c, NEW d, NEW b, NEW p, Direct(c, b, p),
         Onwards(c, d)
  PROVE  Direct(d, b, p)
  BY DEF Direct, Pending, Onwards

LEMMA EffectsStep == ASSUME ViewerInv, Player!Effects PROVE ViewerInv'
<1> USE DEF Media, Requests
<1>1. /\ owed' = FALSE /\ view' = view /\ shown' = shown /\ fallback' = fallback
      /\ evidence' = evidence /\ ended' = ended /\ keys' = keys /\ automatic' = automatic
  BY DEF Player!Effects, Player!failures
<1>2. \A i \in Media : Player!Superseded(i) <=> i \in Stale(shown, inflight)
  BY DEF Player!Superseded, Stale
<1>3. {i \in Media : Player!Superseded(i)} = Stale(shown, inflight)
  BY <1>2 DEF Stale
<1>4. urlCalls' = [r \in Requests |->
                     IF New(shown, urlCalls, r)
                     THEN [phase |-> "asked",
                           item |-> CHOOSE i \in Starts(shown, urlCalls) :
                                      shown.urls[i].request = r,
                           aborted |-> FALSE]
                     ELSE IF \E i \in Stale(shown, inflight) : inflight[i] = r
                          THEN [urlCalls[r] EXCEPT !.aborted = TRUE] ELSE urlCalls[r]]
  BY <1>3 DEF Player!Effects, Starts, New, Player!UrlRequest
<1>5. inflight' = [i \in Media |-> IF i \in Starts(shown, urlCalls) THEN shown.urls[i].request
                                  ELSE IF i \in Stale(shown, inflight) THEN 0 ELSE inflight[i]]
  BY <1>3 DEF Player!Effects, Starts
<1>6. /\ live' = live \ {prepared[i] : i \in {m \in Media : shown.urls[m].status # "ready"}}
      /\ prepared' = [i \in Media |-> IF shown.urls[i].status = "ready" THEN prepared[i] ELSE 0]
      /\ hls' = [i \in Media |-> IF shown.urls[i].status = "ready" /\ shown.urls[i].kind = "hls"
                                 THEN hls[i] ELSE 0]
  BY DEF Player!Effects
<1> HIDE DEF Media, Requests
<1>7. /\ Order(view, shown, urlCalls', inflight') /\ Linked(view, shown, urlCalls', ended)
      /\ AllAsked(shown, urlCalls', FALSE) /\ Held(view, shown, urlCalls', FALSE, live', prepared')
      /\ Onwards(urlCalls, urlCalls')
  <2>1. /\ Order(view, shown, urlCalls, inflight) /\ Linked(view, shown, urlCalls, ended)
        /\ Held(view, shown, urlCalls, owed, live, prepared)
    BY DEF ViewerInv, ViewerCore
  <2> PICK d : d = urlCalls'
    OBVIOUS
  <2>2. d = CallsAfter(shown, urlCalls, inflight)
    BY <1>4 DEF CallsAfter
  <2>3. /\ inflight' = FlightAfter(shown, urlCalls, inflight)
        /\ live' = live \ Unready(shown, prepared) /\ prepared' = PreparedAfter(shown, prepared)
    BY <1>5, <1>6 DEF FlightAfter, Unready, PreparedAfter
  <2>4. /\ Order(view, shown, d, FlightAfter(shown, urlCalls, inflight))
        /\ Linked(view, shown, d, ended) /\ AllAsked(shown, d, FALSE)
        /\ Held(view, shown, d, FALSE, live \ Unready(shown, prepared),
                PreparedAfter(shown, prepared))
        /\ Onwards(urlCalls, d)
    BY ONLY <2>1, <2>2, EffectsKeep
  <2> QED BY <2>3, <2>4
<1>8. Direct(urlCalls', fallback, prepared')
  <2>1. Direct(urlCalls', fallback, prepared)
    BY <1>7, DirectCalls DEF ViewerInv, ViewerCore
  <2>2. \A i \in fallback : prepared'[i] = 0
    BY <1>6, <2>1 DEF Direct, ViewerInv, ViewerTypes
  <2> QED BY <2>1, <2>2 DEF Direct
<1>9. ViewerCore'
  BY <1>1, <1>7, <1>8 DEF ViewerInv, ViewerCore
<1>10. hls' \in [Media -> 0 .. RequestBound]
  BY <1>6, TvAssumption DEF ViewerInv, ViewerTypes
<1>11. ViewerTypes'
  BY <1>1, <1>10 DEF ViewerInv, ViewerTypes
<1> QED BY <1>9, <1>11 DEF ViewerInv

LEMMA EndsStep ==
  ASSUME ViewerInv, Player!Leaves PROVE ViewerInv'
<1> USE DEF Media, Requests
<1>1. /\ owed' = owed /\ view' = view /\ shown' = shown /\ fallback' = fallback
      /\ evidence' = evidence /\ ended' = TRUE /\ keys' = keys + 1 /\ keys < UserBound
      /\ automatic' = automatic
  BY DEF Player!Leaves, Player!Ends, Player!failures
<1>2. /\ urlCalls' = [r \in Requests |->
                       IF \E i \in Media : inflight[i] = r
                       THEN [urlCalls[r] EXCEPT !.aborted = TRUE] ELSE urlCalls[r]]
      /\ inflight' = [i \in Media |-> 0] /\ prepared' = [i \in Media |-> 0]
      /\ hls' = [i \in Media |-> 0]
      /\ live' = live \ {prepared[i] : i \in Media}
  BY DEF Player!Leaves, Player!Ends, Player!UrlRequest
<1> HIDE DEF Media, Requests
<1>3. /\ Order(view, shown, urlCalls', Nothing) /\ Linked(view, shown, urlCalls', TRUE)
      /\ AllAsked(shown, urlCalls', owed)
      /\ Held(view, shown, urlCalls', owed, live \ Sessions(prepared), Nothing)
      /\ \A r \in Requests : ~Pending(urlCalls', r)
  <2>1. /\ Order(view, shown, urlCalls, inflight) /\ Linked(view, shown, urlCalls, ended)
        /\ AllAsked(shown, urlCalls, owed) /\ Held(view, shown, urlCalls, owed, live, prepared)
    BY DEF ViewerInv, ViewerCore
  <2> PICK d : d = urlCalls'
    OBVIOUS
  <2>2. d = Aborted(urlCalls, inflight)
    BY <1>2 DEF Aborted
  <2>3. /\ Order(view, shown, d, Nothing) /\ Linked(view, shown, d, TRUE)
        /\ AllAsked(shown, d, owed)
        /\ Held(view, shown, d, owed, live \ Sessions(prepared), Nothing)
        /\ \A r \in Requests : ~Pending(d, r)
    BY ONLY <2>1, <2>2, EndKeeps
  <2> QED BY <2>3
<1>4. Direct(urlCalls', fallback, prepared')
  BY <1>2, <1>3 DEF Direct, ViewerInv, ViewerTypes
<1>5. ViewerCore'
  <2>1. inflight' = Nothing /\ prepared' = Nothing /\ live' = live \ Sessions(prepared)
    BY <1>2 DEF Nothing, Sessions
  <2> QED BY <1>1, <1>3, <1>4, <2>1 DEF ViewerInv, ViewerCore
<1>6. hls' \in [Media -> 0 .. RequestBound] /\ keys' \in 0 .. UserBound
  BY <1>1, <1>2, TvAssumption DEF ViewerInv, ViewerTypes
<1>7. ViewerTypes'
  BY <1>1, <1>6 DEF ViewerInv, ViewerTypes
<1> QED BY <1>5, <1>7 DEF ViewerInv

(* Parts that several steps need.                                          *)
LEMMA CoreFacts ==
  ASSUME ViewerInv
  PROVE  /\ Order(view, shown, urlCalls, inflight) /\ Linked(view, shown, urlCalls, ended)
         /\ AllAsked(shown, urlCalls, owed) /\ Held(view, shown, urlCalls, owed, live, prepared)
         /\ Counted(view, automatic, fallback) /\ Direct(urlCalls, fallback, prepared)
         /\ Sound(view) /\ Sound(shown) /\ RequestBound \in Nat
         /\ urlCalls \in [Requests -> CallState]
  BY TvAssumption DEF ViewerInv, ViewerCore, Order

LEMMA ReducerStep ==
  ASSUME ViewerInv, NEW w, Safe(view, w), w.next <= RequestBound + 1
  PROVE  /\ Order(w, shown, urlCalls, inflight) /\ Linked(w, shown, urlCalls, ended)
         /\ Held(w, shown, urlCalls, owed, live, prepared)
<1>1. /\ Order(view, shown, urlCalls, inflight) /\ Linked(view, shown, urlCalls, ended)
      /\ Held(view, shown, urlCalls, owed, live, prepared)
  BY CoreFacts
<1> QED BY ONLY <1>1, Safe(view, w), w.next <= RequestBound + 1, MovesKeep

LEMMA DoneOnwards ==
  ASSUME NEW c \in [Requests -> CallState], NEW r \in Requests,
         NEW d, d = Phased(c, r, "done")
  PROVE  Onwards(c, d) /\ d[r].phase = "done"
  BY DEF Onwards, Pending, CallState, Phased

(* A call whose item the last render waits for no more is not one that the  *)
(* present state waits for.                                                *)
LEMMA NotAwaited ==
  ASSUME NEW v, NEW s, NEW c, NEW f, NEW e, Order(v, s, c, f), Linked(v, s, c, e),
         NEW r \in Requests, Started(c, r), NEW i \in Media, ~Player!Awaits(s, i, r)
  PROVE  ~Player!Awaits(v, i, r)
<1>1. SUFFICES ASSUME Player!Awaits(v, i, r) PROVE FALSE
  OBVIOUS
<1>2. LinkedEntry(v.urls[i], s.urls[i], i, s.next, c, e)
  BY DEF Linked
<1>3. v.urls[i].request >= s.next
  BY <1>1, <1>2 DEF LinkedEntry, Player!Awaits
<1>4. r < s.next /\ v.urls[i].request = r
  BY <1>1 DEF Order, Player!Awaits
<1>5. r \in Nat /\ s.next \in Nat
  BY OrderFacts DEF Requests
<1> QED BY ONLY <1>3, <1>4, <1>5

(* A call that is not prepared has no session.                             *)
LEMMA NoSession ==
  ASSUME NEW v, NEW s, NEW c, NEW o, NEW l, NEW p, Held(v, s, c, o, l, p), NEW r \in Requests,
         c[r].phase \in {"asked", "preparing"}
  PROVE  l \ {r} = l
<1>1. SUFFICES ASSUME r \in l PROVE FALSE
  OBVIOUS
<1>2. PICK i \in Media : p[i] = r
  BY <1>1 DEF Held
<1>3. r # 0
  BY TvAssumption DEF Requests
<1>4. c[r].phase = "done"
  BY <1>2, <1>3 DEF Held, HeldFor
<1> QED BY <1>4

LEMMA PrepareStep ==
  ASSUME ViewerInv, NEW r \in Requests, Player!Prepares(r) PROVE ViewerInv'
<1>1. /\ urlCalls[r].phase = "preparing" /\ ~urlCalls[r].aborted
      /\ urlCalls' = [urlCalls EXCEPT ![r].phase = "prepared"] /\ live' = live \cup {r}
      /\ view' = view /\ shown' = shown /\ owed' = owed /\ inflight' = inflight
      /\ prepared' = prepared /\ hls' = hls /\ ended' = ended /\ keys' = keys
      /\ automatic' = automatic
  BY DEF Player!Prepares
<1>2. fallback' = fallback /\ evidence' = evidence
  BY DEF Player!Prepares, Player!failures
<1>3. PICK d, k, phase : d = urlCalls' /\ k = live' /\ phase = "prepared"
  OBVIOUS
<1>4. /\ Order(view, shown, d, inflight) /\ Linked(view, shown, d, ended)
      /\ AllAsked(shown, d, owed) /\ Held(view, shown, d, owed, k, prepared)
  <2>1. /\ Order(view, shown, urlCalls, inflight) /\ Linked(view, shown, urlCalls, ended)
        /\ AllAsked(shown, urlCalls, owed) /\ Held(view, shown, urlCalls, owed, live, prepared)
        /\ urlCalls[r].phase \in {"asked", "preparing"} /\ phase \in {"preparing", "prepared"}
        /\ d = Phased(urlCalls, r, phase)
        /\ phase = "prepared" => k = live \cup {r}
        /\ phase = "preparing" => k = live
    BY <1>1, <1>3, CoreFacts DEF Phased
  <2> QED BY ONLY <2>1, r \in Requests, CallGoesOn
<1>5. Direct(d, fallback, prepared)
  <2>1. urlCalls[r].item \notin fallback
    BY <1>1, CoreFacts DEF Direct, Pending
  <2>2. \A x \in Requests : d[x].item = urlCalls[x].item /\ (x # r => d[x] = urlCalls[x])
    BY <1>1, <1>3, CoreFacts DEF CallState
  <2> QED BY <2>1, <2>2, CoreFacts DEF Direct, Pending
<1>6. ViewerCore'
  BY <1>1, <1>2, <1>3, <1>4, <1>5, CoreFacts DEF ViewerCore
<1>7. ViewerTypes'
  BY <1>1, <1>2 DEF ViewerInv, ViewerTypes
<1> QED BY <1>6, <1>7 DEF ViewerInv

(* What the continuation of a call leaves alone.                           *)
Frame == /\ shown' = shown /\ owed' = owed /\ fallback' = fallback /\ evidence' = evidence
         /\ ended' = ended /\ keys' = keys /\ automatic' = automatic
SessionFrame == live' = live /\ prepared' = prepared /\ hls' = hls

LEMMA RegisteredStep ==
  ASSUME ViewerInv, NEW r \in Requests, Pending(urlCalls, r), NEW kind \in {"direct", "raw", "hls"},
         kind = "raw" => urlCalls[r].phase = "prepared",
         kind # "raw" => urlCalls[r].phase = "asked",
         ~Player!Outdated(r), Player!Registered(r, kind),
         urlCalls' = Phased(urlCalls, r, "done"), Frame
  PROVE  ViewerInv'
<1>1. PICK i : i = urlCalls[r].item
  OBVIOUS
<1>2. i \in Media /\ Player!Awaits(shown, i, r) /\ r < view.next
  <2>1. i \in Media /\ r < shown.next
    BY <1>1, CoreFacts DEF Order, Pending, Started
  <2>2. Player!Awaits(shown, i, r)
    BY <1>1 DEF Player!Outdated
  <2>3. shown.next <= view.next /\ shown.next \in Nat /\ view.next \in Nat /\ r \in Nat
    BY CoreFacts, OrderFacts DEF Requests
  <2> QED BY <2>1, <2>2, <2>3
<1>3. PICK d, w, g, k, q : d = urlCalls' /\ w = view' /\ g = inflight' /\ k = live' /\ q = prepared'
  OBVIOUS
<1>4. PICK x : x = IF kind = "raw" THEN r ELSE 0
  OBVIOUS
<1>5. /\ w = Player!UrlReady(view, i, r, kind) /\ d = Phased(urlCalls, r, "done")
      /\ g = Given(inflight, i, 0) /\ k = live \ {prepared[i]} /\ q = Given(prepared, i, x)
  BY <1>1, <1>3, <1>4 DEF Player!Registered, Player!Dispatch, Given
<1>6. /\ Order(w, shown, d, g) /\ Linked(w, shown, d, ended) /\ AllAsked(shown, d, owed)
      /\ Held(w, shown, d, owed, k, q)
  <2>1. /\ Order(view, shown, urlCalls, inflight) /\ Linked(view, shown, urlCalls, ended)
        /\ AllAsked(shown, urlCalls, owed) /\ Held(view, shown, urlCalls, owed, live, prepared)
    BY CoreFacts
  <2>c. Core(view, shown, urlCalls, inflight, ended, owed, live, prepared)
    BY <2>1 DEF Core
  <2>2. Core(w, shown, d, Given(inflight, i, 0), ended, owed, live \ {prepared[i]},
             Given(prepared, i, x))
    <3>1. /\ kind = "raw" => urlCalls[r].phase = "prepared" /\ x = r
          /\ kind # "raw" => urlCalls[r].phase = "asked" /\ x = 0
      BY <1>4
    <3>2. i = urlCalls[r].item /\ i \in Media /\ Player!Awaits(shown, i, r)
          /\ d = Phased(urlCalls, r, "done") /\ w = Player!UrlReady(view, i, r, kind)
      BY <1>1, <1>2, <1>5
    <3> QED BY ONLY <2>c, r \in Requests, Pending(urlCalls, r),
               kind \in {"direct", "raw", "hls"}, <3>1, <3>2, RegisteredKeeps
  <2> QED BY <1>5, <2>2 DEF Core
<1>7. Direct(d, fallback, q)
  <2>1. Onwards(urlCalls, d)
    BY <1>5, CoreFacts, DoneOnwards
  <2>2. Direct(d, fallback, prepared)
    BY <2>1, CoreFacts, DirectCalls
  <2>3. kind = "raw" => i \notin fallback
    BY <1>1, CoreFacts DEF Direct, Pending
  <2>4. \A j \in fallback : q[j] = 0
    <3>1. prepared \in [Media -> 0 .. RequestBound] /\ fallback \subseteq Media
      BY CoreFacts DEF Held, ViewerInv, ViewerTypes
    <3>2. \A j \in Media : q[j] = IF j = i THEN x ELSE prepared[j]
      BY <1>2, <1>5, <3>1 DEF Given
    <3> QED BY <1>4, <2>2, <2>3, <3>1, <3>2 DEF Direct
  <2> QED BY <2>2, <2>4 DEF Direct
<1>8. Counted(w, automatic, fallback)
  <2>1. /\ OnlyItem(view, w, i)
        /\ \/ w = view
           \/ /\ view.urls[i].status = "loading"
              /\ w.urls[i].status = "ready"
              /\ w.ledger[i] = IF view.ledger[i] = "preserved" THEN "used" ELSE "unused"
    <3>1. r \in Nat
      BY DEF Requests
    <3>2. Sound(view)
      BY CoreFacts
    <3> QED BY <1>2, <1>5, <3>1, <3>2, UrlReadySafe DEF Player!Awaits
  <2>2. ASSUME automatic[i] = 1 PROVE Spared(w.urls[i], w.ledger[i], i \in fallback)
    <3>1. Spared(view.urls[i], view.ledger[i], i \in fallback)
      BY <1>2, <2>2, CoreFacts DEF Counted
    <3>2. view.ledger[i] \in {"unused", "used", "preserved"}
      BY <1>2, CoreFacts, SoundFacts
    <3> QED BY <2>1, <3>1, <3>2 DEF Spared
  <2>3. \A j \in Media \ {i} : j \in fallback => j \in fallback
    OBVIOUS
  <2>4. \A j \in Media \ {i} : automatic[j] = automatic[j]
    OBVIOUS
  <2> QED BY <1>2, <2>1, <2>2, <2>3, <2>4, CoreFacts, CountedItem
<1>9. ViewerCore'
  BY <1>3, <1>6, <1>7, <1>8 DEF ViewerCore, Frame
<1>10. hls' \in [Media -> 0 .. RequestBound]
  <2>1. PICK y : y = IF kind = "hls" THEN r ELSE 0
    OBVIOUS
  <2>2. y \in 0 .. RequestBound
    BY <2>1, CoreFacts DEF Requests
  <2>3. hls' = [hls EXCEPT ![i] = y]
    BY <1>1, <2>1 DEF Player!Registered
  <2> QED BY <2>2, <2>3 DEF ViewerInv, ViewerTypes
<1>11. ViewerTypes'
  BY <1>10 DEF ViewerInv, ViewerTypes, Frame
<1> QED BY <1>9, <1>11 DEF ViewerInv

(* A call is over, and nobody waits for it.                                *)
LEMMA OverStep ==
  ASSUME ViewerInv, NEW r \in Requests, urlCalls[r].phase \in {"asked", "preparing", "prepared"},
         NEW w, Safe(view, w), w.next <= RequestBound + 1,
         \/ ended \/ ~Pending(urlCalls, r) \/ ~Player!Awaits(w, urlCalls[r].item, r),
         urlCalls' = Phased(urlCalls, r, "done"),
         inflight' = inflight \/ inflight' = Forgotten(urlCalls, inflight, r),
         live' = live \ {r}, prepared' = prepared, hls' = hls, view' = w,
         shown' = shown, owed' = owed, fallback' = fallback, evidence' = evidence,
         ended' = ended, keys' = keys, Counted(w, automatic', fallback),
         automatic' \in [Media -> {0, 1}]
  PROVE  ViewerInv'
<1>1. PICK d, g : d = urlCalls' /\ g = inflight'
  OBVIOUS
<1>2. /\ Order(w, shown, d, g) /\ Linked(w, shown, d, ended) /\ AllAsked(shown, d, owed)
      /\ Held(w, shown, d, owed, live \ {r}, prepared)
  <2>1. /\ Order(w, shown, urlCalls, inflight) /\ Linked(w, shown, urlCalls, ended)
        /\ Held(w, shown, urlCalls, owed, live, prepared) /\ AllAsked(shown, urlCalls, owed)
    BY CoreFacts, ReducerStep
  <2>2. /\ d = Phased(urlCalls, r, "done")
        /\ g = inflight \/ g = Forgotten(urlCalls, inflight, r)
    BY <1>1
  <2>3. \/ ended \/ ~Pending(urlCalls, r)
        \/ ~(w.urls[urlCalls[r].item].status = "loading"
             /\ w.urls[urlCalls[r].item].request = r)
    BY DEF Player!Awaits
  <2> QED BY ONLY <2>1, <2>2, <2>3, r \in Requests,
             urlCalls[r].phase \in {"asked", "preparing", "prepared"}, CallEnds
<1>3. Direct(d, fallback, prepared)
  <2>1. Onwards(urlCalls, d)
    BY <1>1, CoreFacts, DoneOnwards
  <2> QED BY <2>1, CoreFacts, DirectCalls
<1>4. ViewerCore'
  BY <1>1, <1>2, <1>3 DEF ViewerCore
<1>5. ViewerTypes'
  BY DEF ViewerInv, ViewerTypes
<1> QED BY <1>4, <1>5 DEF ViewerInv

LEMMA AnswerStep ==
  ASSUME ViewerInv, NEW r \in Requests, Player!Answers(r) PROVE ViewerInv'
<1>1. /\ urlCalls[r].phase = "asked" /\ ~urlCalls[r].aborted /\ Frame
  BY DEF Player!Answers, Frame, Player!failures
<1>2. Pending(urlCalls, r) /\ Started(urlCalls, r) /\ urlCalls[r].item \in Media
  BY <1>1, CoreFacts DEF Pending, Started, Order
<1>3. CASE /\ urlCalls' = [urlCalls EXCEPT ![r].phase = "done"]
           /\ \E kind \in {"direct", "hls"} :
                 IF Player!Outdated(r) THEN UNCHANGED <<view, inflight, live, prepared, hls>>
                 ELSE Player!Registered(r, kind)
  <2>1. CASE Player!Outdated(r)
    <3>1. /\ view' = view /\ inflight' = inflight /\ live' = live /\ prepared' = prepared
          /\ hls' = hls
      BY <1>3, <2>1
    <3>2. live' = live \ {r}
      BY <1>1, <3>1, CoreFacts, NoSession
    <3>3. ended \/ ~Player!Awaits(view, urlCalls[r].item, r)
      <4>1. ended \/ ~Player!Awaits(shown, urlCalls[r].item, r)
        BY <1>1, <2>1 DEF Player!Outdated
      <4> QED BY <1>2, <4>1, CoreFacts, NotAwaited
    <3>4. Safe(view, view) /\ view.next <= RequestBound + 1
      BY CoreFacts, StaySafe DEF Order
    <3>5. urlCalls' = Phased(urlCalls, r, "done")
      BY <1>3 DEF Phased
    <3>6. Counted(view, automatic', fallback) /\ automatic' \in [Media -> {0, 1}]
      BY <1>1, CoreFacts DEF Frame, ViewerInv, ViewerTypes
    <3> QED BY <1>1, <3>1, <3>2, <3>3, <3>4, <3>5, <3>6, OverStep DEF Frame
  <2>2. CASE ~Player!Outdated(r)
    <3>1. PICK kind \in {"direct", "hls"} : Player!Registered(r, kind)
      BY <1>3, <2>2
    <3>2. urlCalls' = Phased(urlCalls, r, "done")
      BY <1>3 DEF Phased
    <3> QED BY <1>1, <1>2, <2>2, <3>1, <3>2, RegisteredStep
  <2> QED BY <2>1, <2>2
<1>4. CASE /\ urlCalls[r].item \notin fallback
           /\ urlCalls' = [urlCalls EXCEPT ![r].phase = "preparing"]
           /\ UNCHANGED <<view, inflight, live, prepared, hls>>
  <2>0. view' = view /\ inflight' = inflight /\ SessionFrame
    BY <1>4 DEF SessionFrame
  <2>1. PICK d, phase : d = urlCalls' /\ phase = "preparing"
    OBVIOUS
  <2>2. /\ Order(view, shown, d, inflight) /\ Linked(view, shown, d, ended)
        /\ AllAsked(shown, d, owed) /\ Held(view, shown, d, owed, live, prepared)
    <3>1. /\ Order(view, shown, urlCalls, inflight) /\ Linked(view, shown, urlCalls, ended)
          /\ AllAsked(shown, urlCalls, owed) /\ Held(view, shown, urlCalls, owed, live, prepared)
          /\ urlCalls[r].phase \in {"asked", "preparing"} /\ phase \in {"preparing", "prepared"}
          /\ d = Phased(urlCalls, r, phase)
          /\ phase = "prepared" => live = live \cup {r}
          /\ phase = "preparing" => live = live
      BY <1>1, <1>4, <2>1, CoreFacts DEF Phased
    <3> QED BY ONLY <3>1, r \in Requests, CallGoesOn
  <2>3. Direct(d, fallback, prepared)
    <3>1. \A x \in Requests : d[x].item = urlCalls[x].item /\ (x # r => d[x] = urlCalls[x])
      BY <1>4, <2>1, CoreFacts DEF CallState
    <3> QED BY <1>4, <3>1, CoreFacts DEF Direct, Pending
  <2>4. ViewerCore'
    BY <1>1, <2>0, <2>1, <2>2, <2>3, CoreFacts DEF ViewerCore, Frame, SessionFrame
  <2>5. ViewerTypes'
    BY <1>1, <2>0 DEF ViewerInv, ViewerTypes, Frame, SessionFrame
  <2> QED BY <2>4, <2>5 DEF ViewerInv
<1> QED BY <1>3, <1>4 DEF Player!Answers, Player!sessions

LEMMA ContinueStep ==
  ASSUME ViewerInv, NEW r \in Requests, Player!Continues(r) PROVE ViewerInv'
<1>1. /\ urlCalls[r].phase = "prepared" /\ Frame /\ urlCalls' = Phased(urlCalls, r, "done")
  BY DEF Player!Continues, Frame, Player!failures, Phased
<1>2. Started(urlCalls, r) /\ urlCalls[r].item \in Media
  BY <1>1, CoreFacts DEF Started, Order
<1>3. CASE Player!Outdated(r)
  <2>1. /\ view' = view /\ inflight' = inflight /\ live' = live \ {r} /\ prepared' = prepared
        /\ hls' = hls
    BY <1>3 DEF Player!Continues
  <2>2. \/ ended \/ ~Pending(urlCalls, r) \/ ~Player!Awaits(view, urlCalls[r].item, r)
    <3>1. \/ ended \/ ~Pending(urlCalls, r) \/ ~Player!Awaits(shown, urlCalls[r].item, r)
      BY <1>3 DEF Player!Outdated, Pending
    <3> QED BY <1>2, <3>1, CoreFacts, NotAwaited
  <2>3. Safe(view, view) /\ view.next <= RequestBound + 1
    BY CoreFacts, StaySafe DEF Order
  <2>4. Counted(view, automatic', fallback) /\ automatic' \in [Media -> {0, 1}]
    BY <1>1, CoreFacts DEF Frame, ViewerInv, ViewerTypes
  <2> QED BY <1>1, <2>1, <2>2, <2>3, <2>4, OverStep DEF Frame
<1>4. CASE ~Player!Outdated(r)
  <2>1. Player!Registered(r, "raw")
    BY <1>4 DEF Player!Continues
  <2>2. Pending(urlCalls, r)
    BY <1>1, <1>4 DEF Pending, Player!Outdated
  <2> QED BY <1>1, <1>4, <2>1, <2>2, RegisteredStep
<1> QED BY <1>3, <1>4

LEMMA FailStep ==
  ASSUME ViewerInv, NEW r \in Requests, Player!Fails(r) PROVE ViewerInv'
<1>1. PICK i : i = urlCalls[r].item
  OBVIOUS
<1>2. /\ urlCalls[r].phase \in {"asked", "preparing"}
      /\ urlCalls' = Phased(urlCalls, r, "done")
      /\ inflight' = Forgotten(urlCalls, inflight, r)
      /\ shown' = shown /\ owed' = owed /\ fallback' = fallback /\ evidence' = evidence
      /\ keys' = keys /\ ended' = ended /\ SessionFrame
  BY DEF Player!Fails, Player!failures, Player!sessions, Phased, Forgotten, SessionFrame
<1>3. i \in Media /\ r < view.next
  <2>1. i \in Media /\ r < shown.next
    BY <1>1, <1>2, CoreFacts DEF Order, Started
  <2>2. shown.next <= view.next /\ shown.next \in Nat /\ view.next \in Nat /\ r \in Nat
    BY CoreFacts, OrderFacts DEF Requests
  <2> QED BY <2>1, <2>2
<1>4. live' = live \ {r}
  BY <1>2, CoreFacts, NoSession DEF SessionFrame
<1>5. view.ledger[i] \in {"unused", "used", "preserved"} /\ Sound(view)
  BY <1>3, CoreFacts, SoundFacts
<1>6. CASE /\ urlCalls[r].aborted \/ ended
           /\ UNCHANGED <<view, automatic>>
  <2>1. ended \/ ~Pending(urlCalls, r)
    BY <1>6 DEF Pending
  <2>2. Safe(view, view) /\ view.next <= RequestBound + 1
    BY CoreFacts, StaySafe DEF Order
  <2>3. Counted(view, automatic', fallback) /\ automatic' \in [Media -> {0, 1}]
    BY <1>6, CoreFacts DEF ViewerInv, ViewerTypes
  <2> QED BY <1>2, <1>4, <1>6, <2>1, <2>2, <2>3, OverStep DEF SessionFrame
<1>7. CASE ~urlCalls[r].aborted /\ Player!AuthorizationExpired(i)
  <2>1. PICK w : w = Player!RefreshUrlOnce(view, i, TRUE)
    OBVIOUS
  <2>2. view' = w /\ w.next <= RequestBound + 1 /\ automatic' = CountsUp(automatic, i, view)
    BY <1>7, <2>1 DEF Player!AuthorizationExpired, Player!Dispatch, CountsUp
  <2>3. PICK mark : mark = "preserved"
    OBVIOUS
  <2>4. Safe(view, w) /\ Refreshed(view, w, i, mark)
    BY <1>3, <1>5, <2>1, <2>3, RefreshSafe
  <2>5. ~Player!Awaits(w, i, r)
    <3>1. CASE view.urls[i].status = "none" /\ w = view
      BY <3>1 DEF Player!Awaits
    <3>2. CASE w.urls[i].status = "error"
      BY <3>2 DEF Player!Awaits
    <3>3. CASE w.urls[i] = Player!Loading(view.next, TRUE)
      <4>1. w.urls[i].request = view.next
        BY <3>3 DEF Player!Loading
      <4>2. view.next \in Nat /\ r \in Nat
        BY CoreFacts, SoundFacts DEF Requests
      <4> QED BY ONLY <1>3, <4>1, <4>2 DEF Player!Awaits
    <3> QED BY <2>4, <3>1, <3>2, <3>3 DEF Refreshed
  <2>6. ~(automatic[i] = 1 /\ view.ledger[i] = "unused")
    <3>1. SUFFICES ASSUME automatic[i] = 1, view.ledger[i] = "unused" PROVE FALSE
      OBVIOUS
    <3>2. view.urls[i].status = "ready"
      BY <1>3, <3>1, CoreFacts DEF Counted, Spared
    <3>3. Settled(urlCalls, view.urls[i].request, i)
      BY <1>3, <3>2, CoreFacts DEF Linked, LinkedEntry
    <3> QED BY <1>1, <1>2, <1>7, <3>3 DEF Settled, Pending
  <2>7. automatic' \in [Media -> {0, 1}] /\ Counted(w, automatic', fallback)
    <3>1. PICK x : x = automatic'
      OBVIOUS
    <3>2. x \in [Media -> {0, 1}] /\ Counted(w, x, fallback)
      <4>1. /\ automatic \in [Media -> {0, 1}] /\ Counted(view, automatic, fallback)
            /\ x = CountsUp(automatic, i, view)
        BY <2>2, <3>1, CoreFacts DEF ViewerInv, ViewerTypes
      <4> QED BY ONLY <1>3, <1>5, <2>1, <2>6, <4>1, RefreshCounts
    <3> QED BY <3>1, <3>2
  <2> QED BY <1>1, <1>2, <1>4, <2>2, <2>4, <2>5, <2>7, OverStep DEF SessionFrame
<1>8. ASSUME NEW error \in {"generic", "final"}, Player!Dispatch(Player!UrlFailed(view, i, r, error)),
             automatic' = automatic
      PROVE  ViewerInv'
  <2>1. PICK w : w = Player!UrlFailed(view, i, r, error)
    OBVIOUS
  <2>2. view' = w /\ w.next <= RequestBound + 1
    BY <1>8, <2>1 DEF Player!Dispatch
  <2>3. /\ Safe(view, w) /\ OnlyItem(view, w, i) /\ ~Player!Awaits(w, i, r)
        /\ w.ledger[i] = view.ledger[i]
        /\ \/ w.urls[i] = view.urls[i]
           \/ w.urls[i].status = "error" /\ view.urls[i].status = "loading"
    BY <1>3, <1>5, <2>1, UrlFailedSafe
  <2>4. automatic' \in [Media -> {0, 1}] /\ Counted(w, automatic', fallback)
    <3>1. ASSUME automatic[i] = 1 PROVE Spared(w.urls[i], w.ledger[i], i \in fallback)
      <4>1. Spared(view.urls[i], view.ledger[i], i \in fallback)
        BY <1>3, <3>1, CoreFacts DEF Counted
      <4> QED BY <2>3, <4>1 DEF Spared
    <3>2. \A j \in Media \ {i} : j \in fallback => j \in fallback
      OBVIOUS
    <3>3. \A j \in Media \ {i} : automatic[j] = automatic[j]
      OBVIOUS
    <3>4. Counted(w, automatic, fallback)
      BY <1>3, <2>3, <3>1, <3>2, <3>3, CoreFacts, CountedItem
    <3> QED BY <1>8, <3>4 DEF ViewerInv, ViewerTypes
  <2> QED BY <1>1, <1>2, <1>4, <2>2, <2>3, <2>4, OverStep DEF SessionFrame
<1> QED BY <1>1, <1>6, <1>7, <1>8 DEF Player!Fails

(* A step of the reducer that starts and ends no call and holds what was    *)
(* held.                                                                   *)
LEMMA MoveStep ==
  ASSUME ViewerInv, NEW w, Safe(view, w), w.next <= RequestBound + 1, view' = w,
         shown' = shown, owed' = owed, urlCalls' = urlCalls, inflight' = inflight,
         live' = live, prepared' = prepared, fallback' = fallback, ended' = ended,
         Counted(w, automatic', fallback), ViewerTypes'
  PROVE  ViewerInv'
<1>1. /\ Order(w, shown, urlCalls, inflight) /\ Linked(w, shown, urlCalls, ended)
      /\ Held(w, shown, urlCalls, owed, live, prepared)
  BY ReducerStep
<1>2. ViewerCore'
  BY <1>1, CoreFacts DEF ViewerCore
<1> QED BY <1>2 DEF ViewerInv

LEMMA TypesNext ==
  ASSUME ViewerInv, owed' = owed, ended' = ended, fallback' = fallback,
         hls' \in [Media -> 0 .. RequestBound], evidence' \in [Media -> 0 .. RequestBound],
         keys' = keys, automatic' \in [Media -> {0, 1}]
  PROVE  ViewerTypes'
  BY DEF ViewerInv, ViewerTypes

(* An error of the active item, whatever is done to its HLS session.        *)
LEMMA StoppedStep ==
  ASSUME ViewerInv, NEW i, NEW error \in {"generic", "final"},
         Player!Dispatch(Player!Stopped(view, i, error)),
         shown' = shown, owed' = owed, urlCalls' = urlCalls, inflight' = inflight,
         live' = live, prepared' = prepared, fallback' = fallback, ended' = ended,
         hls' \in [Media -> 0 .. RequestBound], evidence' \in [Media -> 0 .. RequestBound],
         keys' = keys, automatic' = automatic
  PROVE  ViewerInv'
<1>1. PICK w : w = Player!Stopped(view, i, error)
  OBVIOUS
<1>2. view' = w /\ w.next <= RequestBound + 1
  BY <1>1 DEF Player!Dispatch
<1>3. Sound(view) /\ view \in FreeState
  BY CoreFacts DEF Sound
<1>4. Safe(view, w)
  BY <1>1, <1>3, StoppedSafe
<1>5. Counted(w, automatic', fallback)
  <2>1. w.urls = view.urls /\ w.ledger = view.ledger
    BY <1>1, <1>3, StoppedKeeps
  <2> QED BY <2>1, CoreFacts, SameCounted
<1>6. ViewerTypes'
  BY TypesNext DEF ViewerInv, ViewerTypes
<1> QED BY <1>2, <1>4, <1>5, <1>6, MoveStep

(* The URL of the last render is settled: no call for its item is pending.  *)
LEMMA ReadyIsSettled ==
  ASSUME ViewerInv, NEW i \in Media,
         shown.urls[i].status = "ready" \/ view.urls[i].status = "ready"
  PROVE  \A r \in Requests : Pending(urlCalls, r) => urlCalls[r].item # i
<1>1. LinkedEntry(view.urls[i], shown.urls[i], i, shown.next, urlCalls, ended)
  BY CoreFacts DEF Linked
<1> QED BY <1>1 DEF LinkedEntry, Settled

LEMMA FallBackStep ==
  ASSUME ViewerInv, NEW i \in Media, shown.urls[i].status = "ready", Player!FallsBack(i),
         shown' = shown, owed' = owed, urlCalls' = urlCalls, inflight' = inflight,
         ended' = ended, evidence' \in [Media -> 0 .. RequestBound],
         keys' = keys, automatic' = automatic
  PROVE  ViewerInv'
<1>1. PICK w, k, q, b : /\ w = Player!HlsFallback(view, i) /\ k = live \ {prepared[i]}
                        /\ q = [prepared EXCEPT ![i] = 0] /\ b = fallback \cup {i}
  OBVIOUS
<1>2. /\ view' = w /\ w.next <= RequestBound + 1 /\ live' = k /\ prepared' = q
      /\ fallback' = b /\ hls' = hls /\ i \notin fallback
  BY <1>1 DEF Player!FallsBack, Player!CanFallBack, Player!Dispatch
<1>3. /\ Safe(view, w) /\ OnlyItem(view, w, i) /\ w.ledger[i] = view.ledger[i]
      /\ \/ w.urls[i] = view.urls[i]
         \/ w.urls[i].status = "loading" /\ view.urls[i].status = "ready"
  BY <1>1, CoreFacts, HlsFallbackSafe
<1>4. /\ Order(w, shown, urlCalls, inflight) /\ Linked(w, shown, urlCalls, ended)
      /\ Held(w, shown, urlCalls, owed, live, prepared)
  BY <1>2, <1>3, ReducerStep
<1>5. Held(w, shown, urlCalls, owed, k, q)
  BY <1>1, <1>4, DropKeeps
<1>6. Direct(urlCalls, b, q)
  <2>1. prepared \in [Media -> 0 .. RequestBound] /\ fallback \subseteq Media
    BY CoreFacts DEF Held, ViewerInv, ViewerTypes
  <2>2. \A j \in b : q[j] = 0
    BY <1>1, <2>1, CoreFacts DEF Direct
  <2>3. \A r \in Requests : Pending(urlCalls, r) => urlCalls[r].item # i
    BY ReadyIsSettled
  <2> QED BY <1>1, <2>2, <2>3, CoreFacts DEF Direct
<1>7. Counted(w, automatic, b)
  <2>1. ASSUME automatic[i] = 1 PROVE Spared(w.urls[i], w.ledger[i], i \in b)
    <3>1. Spared(view.urls[i], view.ledger[i], i \in fallback)
      BY <2>1, CoreFacts DEF Counted
    <3>2. i \in b
      BY <1>1
    <3> QED BY <1>2, <1>3, <3>1, <3>2 DEF Spared
  <2>2. \A j \in Media \ {i} : j \in fallback => j \in b
    BY <1>1
  <2>3. \A j \in Media \ {i} : automatic[j] = automatic[j]
    OBVIOUS
  <2> QED BY <1>3, <2>1, <2>2, <2>3, CoreFacts, CountedItem
<1>8. ViewerCore'
  BY <1>2, <1>4, <1>5, <1>6, <1>7, CoreFacts DEF ViewerCore
<1>9. ViewerTypes'
  BY <1>1, <1>2 DEF ViewerInv, ViewerTypes
<1> QED BY <1>8, <1>9 DEF ViewerInv

LEMMA ExpireStep ==
  ASSUME ViewerInv, NEW i \in Media, Player!Expires(i) PROVE ViewerInv'
<1>1. PICK w : w = Player!UrlExpired(view, i, shown.urls[i].request)
  OBVIOUS
<1>2. /\ view' = w /\ w.next <= RequestBound + 1
      /\ automatic' = [automatic EXCEPT ![i] = IF w = view THEN @ ELSE 0]
  BY <1>1 DEF Player!Expires, Player!Dispatch
<1>3. /\ shown' = shown /\ owed' = owed /\ urlCalls' = urlCalls /\ inflight' = inflight
      /\ SessionFrame /\ fallback' = fallback /\ evidence' = evidence /\ ended' = ended
      /\ keys' = keys
  BY DEF Player!Expires, Player!calling, Player!sessions, Player!failures, SessionFrame
<1>4. Safe(view, w) /\ OnlyItem(view, w, i)
  BY <1>1, CoreFacts, UrlExpiredSafe
<1>5. PICK x : x = automatic'
  OBVIOUS
<1>6. /\ x \in [Media -> {0, 1}] /\ \A j \in Media \ {i} : x[j] = automatic[j]
      /\ x[i] = 1 => w = view /\ automatic[i] = 1
  <2>1. automatic \in [Media -> {0, 1}]
    BY DEF ViewerInv, ViewerTypes
  <2> QED BY <1>2, <1>5, <2>1
<1>7. Counted(w, x, fallback)
  <2>1. x[i] = 1 => Spared(w.urls[i], w.ledger[i], i \in fallback)
    BY <1>6, CoreFacts DEF Counted
  <2>2. \A j \in Media \ {i} : j \in fallback => j \in fallback
    OBVIOUS
  <2> QED BY <1>4, <1>6, <2>1, <2>2, CoreFacts, CountedItem
<1>8. ViewerTypes'
  BY <1>3, <1>5, <1>6 DEF ViewerInv, ViewerTypes, SessionFrame
<1> QED BY <1>2, <1>3, <1>4, <1>5, <1>7, <1>8, MoveStep DEF SessionFrame

LEMMA ErrorStep == ASSUME ViewerInv, Player!MediaError PROVE ViewerInv'
<1>1. PICK i : i = shown.index
  OBVIOUS
<1>2. i \in Media
  BY <1>1, CoreFacts, SoundFacts
<1>3. /\ shown' = shown /\ owed' = owed /\ urlCalls' = urlCalls /\ inflight' = inflight
      /\ ended' = ended /\ keys' = keys /\ automatic' = automatic /\ Player!MediaFails(i)
  BY <1>1 DEF Player!MediaError, Player!calling
<1>4. /\ hls \in [Media -> 0 .. RequestBound] /\ evidence \in [Media -> 0 .. RequestBound]
      /\ RequestBound \in Nat /\ prepared \in [Media -> 0 .. RequestBound]
  BY CoreFacts DEF ViewerInv, ViewerTypes, Held
<1>5. CASE /\ Player!Dispatch(Player!Stopped(view, i, "generic"))
           /\ UNCHANGED <<Player!sessions, Player!failures>>
  <2>1. SessionFrame /\ fallback' = fallback /\ evidence' = evidence
    BY <1>5 DEF Player!sessions, Player!failures, SessionFrame
  <2> QED BY <1>3, <1>4, <1>5, <2>1, StoppedStep DEF SessionFrame
<1>6. CASE /\ hls' = [hls EXCEPT ![i] = 0]
           /\ Player!Dispatch(Player!Stopped(view, i, "final"))
           /\ UNCHANGED <<live, prepared, Player!failures>>
  <2>1. live' = live /\ prepared' = prepared /\ fallback' = fallback /\ evidence' = evidence
    BY <1>6 DEF Player!failures
  <2>2. hls' \in [Media -> 0 .. RequestBound]
    <3>1. 0 \in 0 .. RequestBound
      BY <1>4
    <3>2. hls' = [hls EXCEPT ![i] = 0]
      BY <1>6
    <3> QED BY ONLY <1>4, <3>1, <3>2
  <2> QED BY <1>3, <1>4, <1>6, <2>1, <2>2, StoppedStep
<1>7. CASE shown.urls[i].status = "ready" /\ Player!FallsBack(i) /\ UNCHANGED evidence
  BY <1>2, <1>3, <1>4, <1>7, FallBackStep
<1>8. CASE /\ evidence' = [evidence EXCEPT ![i] = prepared[i]]
           /\ UNCHANGED <<view, Player!sessions, fallback>>
  <2>1. view' = view /\ SessionFrame /\ fallback' = fallback
    BY <1>8 DEF Player!sessions, SessionFrame
  <2>2. evidence' \in [Media -> 0 .. RequestBound]
    BY <1>2, <1>4, <1>8
  <2>3. ViewerCore'
    BY <1>3, <2>1 DEF ViewerInv, ViewerCore, SessionFrame
  <2>4. ViewerTypes'
    BY <1>3, <2>1, <2>2 DEF ViewerInv, ViewerTypes, SessionFrame
  <2> QED BY <2>3, <2>4 DEF ViewerInv
<1> QED BY <1>3, <1>5, <1>6, <1>7, <1>8 DEF Player!MediaFails

LEMMA EvidenceStep ==
  ASSUME ViewerInv, NEW i \in Media, Player!EvidenceArrives(i) PROVE ViewerInv'
<1>1. /\ shown' = shown /\ owed' = owed /\ urlCalls' = urlCalls /\ inflight' = inflight
      /\ ended' = ended /\ keys' = keys /\ evidence[i] # 0
      /\ evidence' = [evidence EXCEPT ![i] = 0]
  BY DEF Player!EvidenceArrives, Player!calling
<1>2. /\ hls \in [Media -> 0 .. RequestBound] /\ evidence' \in [Media -> 0 .. RequestBound]
      /\ automatic \in [Media -> {0, 1}]
  BY <1>1, CoreFacts DEF ViewerInv, ViewerTypes
<1>3. CASE UNCHANGED <<view, Player!sessions, fallback, automatic>>
  <2>1. view' = view /\ SessionFrame /\ fallback' = fallback /\ automatic' = automatic
    BY <1>3 DEF Player!sessions, SessionFrame
  <2>2. ViewerCore'
    BY <1>1, <2>1 DEF ViewerInv, ViewerCore, SessionFrame
  <2>3. ViewerTypes'
    BY <1>1, <1>2, <2>1 DEF ViewerInv, ViewerTypes, SessionFrame
  <2> QED BY <2>2, <2>3 DEF ViewerInv
<1>4. CASE /\ prepared[i] = evidence[i] /\ Player!AuthorizationExpired(i)
           /\ UNCHANGED <<Player!sessions, fallback>>
  <2>0. SessionFrame /\ fallback' = fallback
    BY <1>4 DEF Player!sessions, SessionFrame
  <2>1. PICK w, mark : w = Player!RefreshUrlOnce(view, i, TRUE) /\ mark = "preserved"
    OBVIOUS
  <2>2. view' = w /\ w.next <= RequestBound + 1 /\ automatic' = CountsUp(automatic, i, view)
    BY <1>4, <2>1 DEF Player!AuthorizationExpired, Player!Dispatch, CountsUp
  <2>3. Safe(view, w)
    BY <2>1, CoreFacts, RefreshSafe
  <2>4. ~(automatic[i] = 1 /\ view.ledger[i] = "unused")
    <3>1. SUFFICES ASSUME automatic[i] = 1, view.ledger[i] = "unused" PROVE FALSE
      OBVIOUS
    <3>2. i \in fallback
      BY <3>1, CoreFacts DEF Counted, Spared
    <3> QED BY <1>1, <1>4, <3>2, CoreFacts DEF Direct
  <2>5. automatic' \in [Media -> {0, 1}] /\ Counted(w, automatic', fallback)
    <3>1. PICK x : x = automatic'
      OBVIOUS
    <3>2. x \in [Media -> {0, 1}] /\ Counted(w, x, fallback)
      <4>1. /\ Sound(view) /\ Counted(view, automatic, fallback)
            /\ x = CountsUp(automatic, i, view) /\ automatic \in [Media -> {0, 1}]
        BY <1>2, <2>2, <3>1, CoreFacts
      <4> QED BY ONLY i \in Media, <2>1, <2>4, <4>1, RefreshCounts
    <3> QED BY <3>1, <3>2
  <2>6. ViewerTypes'
    BY <1>1, <1>2, <2>0, <2>5 DEF ViewerInv, ViewerTypes, SessionFrame
  <2> QED BY <1>1, <2>0, <2>2, <2>3, <2>5, <2>6, MoveStep DEF SessionFrame
<1>5. CASE /\ \E error \in {"generic", "final"} : Player!Dispatch(Player!Stopped(view, i, error))
           /\ UNCHANGED <<Player!sessions, fallback, automatic>>
  <2>1. SessionFrame /\ fallback' = fallback /\ automatic' = automatic
    BY <1>5 DEF Player!sessions, SessionFrame
  <2> QED BY <1>1, <1>2, <1>5, <2>1, StoppedStep DEF SessionFrame
<1>6. CASE /\ shown.urls[i].status = "ready" /\ Player!FallsBack(i) /\ UNCHANGED automatic
  BY <1>1, <1>2, <1>6, FallBackStep
<1> QED BY <1>3, <1>4, <1>5, <1>6 DEF Player!EvidenceArrives

LEMMA LostStep ==
  ASSUME ViewerInv, NEW i \in Media, Player!HlsLost(i) PROVE ViewerInv'
<1>1. /\ shown' = shown /\ owed' = owed /\ urlCalls' = urlCalls /\ inflight' = inflight
      /\ live' = live /\ prepared' = prepared /\ fallback' = fallback /\ evidence' = evidence
      /\ ended' = ended /\ keys' = keys /\ automatic' = automatic
      /\ hls' = [hls EXCEPT ![i] = 0] /\ Player!Dispatch(Player!Stopped(view, i, "final"))
  BY DEF Player!HlsLost, Player!calling, Player!failures
<1>2. hls' \in [Media -> 0 .. RequestBound] /\ evidence' \in [Media -> 0 .. RequestBound]
  BY <1>1, CoreFacts DEF ViewerInv, ViewerTypes
<1> QED BY <1>1, <1>2, StoppedStep

LEMMA UseStep == ASSUME ViewerInv, Player!Uses PROVE ViewerInv'
<1>1. PICK w \in Player!Steps(view) : Player!Dispatch(w)
  BY DEF Player!Uses
<1>2. /\ view' = w /\ w.next <= RequestBound + 1 /\ keys < UserBound /\ keys' = keys + 1
      /\ automatic' = [i \in Media |->
            IF view.urls[i].status = "none" \/ w.urls[i].status = "none"
            THEN 0 ELSE automatic[i]]
  BY <1>1 DEF Player!Uses, Player!Dispatch, Media
<1>3. /\ shown' = shown /\ owed' = owed /\ urlCalls' = urlCalls /\ inflight' = inflight
      /\ SessionFrame /\ fallback' = fallback /\ evidence' = evidence /\ ended' = ended
  BY DEF Player!Uses, Player!calling, Player!sessions, Player!failures, SessionFrame
<1>4. PICK x : x = automatic'
  OBVIOUS
<1>5. /\ x \in [Media -> {0, 1}]
      /\ \A i \in Media : x[i] = 1 => /\ automatic[i] = 1 /\ view.urls[i].status # "none"
                                      /\ w.urls[i].status # "none"
  <2>1. automatic \in [Media -> {0, 1}]
    BY DEF ViewerInv, ViewerTypes
  <2>2. \A i \in Media : x[i] = IF view.urls[i].status = "none" \/ w.urls[i].status = "none"
                                THEN 0 ELSE automatic[i]
    BY <1>2, <1>4
  <2>3. x = [i \in Media |-> x[i]]
    BY <1>2, <1>4
  <2> QED BY <2>1, <2>2, <2>3
<1>6. shown.index \in Media /\ Sound(view)
  BY CoreFacts, SoundFacts
<1>7. ASSUME w \in {Player!Navigate(view, -1), Player!Navigate(view, 1), Player!Enter(view),
                    Player!SlideshowTick(view), Player!VideoEnded(view, shown.index)}
      PROVE  Safe(view, w) /\ Counted(w, x, fallback)
  <2>1. Safe(view, w) /\ Shifts(view, w)
    BY <1>6, <1>7, PlaySafe
  <2>2. Counted(w, x, fallback)
    <3>1. SUFFICES ASSUME NEW i \in Media, x[i] = 1
                   PROVE  Spared(w.urls[i], w.ledger[i], i \in fallback)
      BY DEF Counted
    <3>2. w.urls[i] = view.urls[i] /\ w.ledger[i] = view.ledger[i] /\ automatic[i] = 1
      BY <1>5, <2>1, <3>1 DEF Shifts
    <3> QED BY <3>2, CoreFacts DEF Counted
  <2> QED BY <2>1, <2>2
<1>8. ASSUME w = Player!RefreshUrlOnce(view, shown.index, FALSE)
      PROVE  Safe(view, w) /\ Counted(w, x, fallback)
  <2>1. PICK i, mark : i = shown.index /\ mark = "used"
    OBVIOUS
  <2>2. Safe(view, w) /\ OnlyItem(view, w, i) /\ Refreshed(view, w, i, mark)
    BY <1>6, <1>8, <2>1, RefreshSafe
  <2>3. ASSUME NEW j \in Media, x[j] = 1
        PROVE  Spared(w.urls[j], w.ledger[j], j \in fallback)
    <3>1. Spared(view.urls[j], view.ledger[j], j \in fallback)
      BY <1>5, <2>3, CoreFacts DEF Counted
    <3>2. CASE j # i
      BY <2>2, <3>1, <3>2 DEF OnlyItem
    <3>3. CASE j = i
      <4>1. CASE w = view
        BY <3>1, <4>1
      <4>2. CASE view.ledger[i] # "unused" /\ w.urls[i].status = "error"
                 /\ w.ledger[i] = view.ledger[i]
        BY <3>3, <4>2 DEF Spared
      <4>3. CASE view.ledger[i] = "unused" /\ w.urls[i] = Player!Loading(view.next, TRUE)
                 /\ w.ledger[i] = mark
        <5>1. w.urls[i].status = "loading"
          BY <4>3 DEF Player!Loading
        <5> QED BY <2>1, <3>1, <3>3, <4>3, <5>1 DEF Spared
      <4> QED BY <2>2, <4>1, <4>2, <4>3 DEF Refreshed
    <3> QED BY <3>2, <3>3
  <2> QED BY <2>2, <2>3 DEF Counted
<1>9. Safe(view, w) /\ Counted(w, x, fallback)
  BY <1>1, <1>7, <1>8 DEF Player!Steps
<1>10. keys' \in 0 .. UserBound
  BY <1>2, TvAssumption DEF ViewerInv, ViewerTypes
<1>11. ViewerTypes'
  BY <1>3, <1>4, <1>5, <1>10 DEF ViewerInv, ViewerTypes, SessionFrame
<1> QED BY <1>2, <1>3, <1>4, <1>9, <1>11, MoveStep DEF SessionFrame

(* The window a viewer opens with has at most three entries.               *)
LEMMA OpenedSound ==
  ASSUME NEW i \in Media, NEW w, w = Player!Opened(i)
  PROVE  /\ Sound(w) /\ w.next <= RequestBound + 1
         /\ \A j \in Media : w.urls[j].status \in {"none", "loading"}
<1>1. PICK v : v = [index |-> i, slideshow |-> FALSE, error |-> "none",
                    urls |-> [m \in Media |-> Player!Absent],
                    ledger |-> [m \in Media |-> "unused"], next |-> 1]
  OBVIOUS
<1>2. w = Player!WithUrlWindow(v)
  BY <1>1 DEF Player!Opened, Media
<1>3. /\ v \in FreeState /\ v.next = 1 /\ v.index = i
      /\ \A j \in Media : v.urls[j] = Player!Absent
  <2>1. Player!Absent \in FreeEntry
    BY DEF Player!Absent, FreeEntry
  <2> QED BY <1>1, <2>1 DEF FreeState
<1>4. Sound(v)
  BY <1>3 DEF Sound, EntryRule, Apart, Player!Absent
<1>5. /\ Sound(w)
      /\ \A j \in Media : \/ w.urls[j].status = "none" \/ w.urls[j] = v.urls[j]
                          \/ v.urls[j].status = "none" /\ w.urls[j].status = "loading"
  BY <1>2, <1>4, WindowSound
<1>6. \A j \in Media : w.urls[j].status \in {"none", "loading"}
  <2>1. Player!Absent.status = "none"
    BY DEF Player!Absent
  <2> QED BY <1>3, <1>5, <2>1
<1>7. Cardinality(Fresh(v)) \in Nat /\ Cardinality(Fresh(v)) <= 3
  <2>1. i \in Nat /\ i - 1 \in Int /\ i + 1 \in Int
    BY MediaFacts
  <2>2. IsFiniteSet(i - 1 .. i + 1) /\ Cardinality(i - 1 .. i + 1) = 3
    <3>1. PICK a, b : a = i - 1 /\ b = i + 1
      OBVIOUS
    <3>2. a \in Int /\ b \in Int /\ ~(a > b) /\ b - a + 1 = 3
      BY <2>1, <3>1
    <3>3. IsFiniteSet(a .. b) /\ Cardinality(a .. b) = b - a + 1
      BY <3>2, FS_Interval
    <3> QED BY <3>1, <3>2, <3>3
  <2>3. Fresh(v) \subseteq i - 1 .. i + 1
    BY <1>3 DEF Fresh, Wanted, Near
  <2>4. IsFiniteSet(Fresh(v)) /\ Cardinality(Fresh(v)) <= Cardinality(i - 1 .. i + 1)
    BY <2>2, <2>3, FS_Subset
  <2>5. Cardinality(Fresh(v)) \in Nat
    BY <2>4, FS_CardinalityType
  <2> QED BY <2>2, <2>4, <2>5
<1>8. w.next = 1 + Cardinality(Fresh(v))
  <2>1. PICK u, n : /\ n = v.next + Player!Cardinality(Fresh(v))
                    /\ u = [j \in Media |->
                              IF j \notin Wanted(v) THEN Player!Absent
                              ELSE IF j \in Fresh(v)
                                   THEN Player!Loading(v.next + Rank(v, j), v.ledger[j] # "unused")
                                   ELSE v.urls[j]]
    OBVIOUS
  <2>2. w = [v EXCEPT !.urls = u, !.next = n]
    BY <1>2, <2>1, WindowIs
  <2>3. w.next = n
    BY <1>3, <2>2 DEF FreeState
  <2> QED BY <1>3, <2>1, <2>3, SameCardinality
<1>9. w.next <= RequestBound + 1
  BY ONLY <1>7, <1>8, TvAssumption
<1> QED BY <1>5, <1>6, <1>9

LEMMA ViewerInit == ASSUME Player!Init PROVE ViewerInv
<1>1. PICK i \in Media :
        /\ view = Player!Opened(i) /\ shown = Player!Opened(i) /\ owed = TRUE
        /\ urlCalls = [r \in Player!UrlRequest |-> Player!NoUrlCall]
        /\ inflight = Nothing /\ live = {} /\ prepared = Nothing /\ hls = Nothing
        /\ fallback = {} /\ evidence = Nothing /\ ended = FALSE /\ keys = 0
        /\ automatic = Nothing
  BY DEF Player!Init, Nothing, Media
<1>2. /\ Sound(view) /\ view.next <= RequestBound + 1 /\ shown = view
      /\ \A j \in Media : view.urls[j].status \in {"none", "loading"}
  BY <1>1, OpenedSound
<1>3. RequestBound \in Nat /\ UserBound \in Nat
  BY TvAssumption
<1>4. /\ Nothing \in [Media -> 0 .. RequestBound] /\ Nothing \in [Media -> {0, 1}]
      /\ \A j \in Media : Nothing[j] = 0
  BY <1>3 DEF Nothing
<1>5. /\ urlCalls \in [Requests -> CallState]
      /\ \A r \in Requests : urlCalls[r].phase = "none"
  <2>1. /\ Player!NoUrlCall \in CallState /\ Player!NoUrlCall.phase = "none"
    BY DEF Player!NoUrlCall, CallState
  <2> QED BY <1>1, <2>1 DEF Player!UrlRequest, Requests
<1>6. \A r \in Requests : ~Started(urlCalls, r) /\ ~Pending(urlCalls, r)
  BY <1>5 DEF Started, Pending
<1>7. Order(view, shown, urlCalls, inflight)
  <2>1. shown.next <= view.next
    BY <1>2, SoundFacts
  <2> QED BY <1>1, <1>2, <1>4, <1>5, <1>6, <2>1 DEF Order
<1>8. Linked(view, shown, urlCalls, ended)
  <2>1. SUFFICES ASSUME NEW j \in Media
                 PROVE  LinkedEntry(view.urls[j], shown.urls[j], j, shown.next, urlCalls, ended)
    BY DEF Linked
  <2>2. view.urls[j].status = "loading" => ~Started(urlCalls, view.urls[j].request)
    BY <1>6, <1>7, OrderFacts
  <2> QED BY <1>2, <2>2 DEF LinkedEntry
<1>9. AllAsked(shown, urlCalls, owed)
  BY <1>1 DEF AllAsked
<1>10. Held(view, shown, urlCalls, owed, live, prepared)
  BY <1>1, <1>4, <1>5 DEF Held
<1>11. Counted(view, automatic, fallback)
  BY <1>1, <1>4 DEF Counted
<1>12. Direct(urlCalls, fallback, prepared)
  BY <1>1 DEF Direct
<1>13. ViewerTypes
  <2>1. keys \in 0 .. UserBound
    BY ONLY <1>1, <1>3
  <2>2. hls \in [Media -> 0 .. RequestBound] /\ evidence \in [Media -> 0 .. RequestBound]
        /\ automatic \in [Media -> {0, 1}]
    BY <1>1, <1>4
  <2>3. owed \in BOOLEAN /\ ended \in BOOLEAN /\ fallback \subseteq Media
    BY <1>1
  <2> QED BY <2>1, <2>2, <2>3 DEF ViewerTypes
<1> QED BY <1>7, <1>8, <1>9, <1>10, <1>11, <1>12, <1>13 DEF ViewerInv, ViewerCore

LEMMA ViewerNext == ASSUME ViewerInv, Player!Next PROVE ViewerInv'
<1>1. CASE \E r \in Requests :
             Player!Answers(r) \/ Player!Prepares(r) \/ Player!Continues(r) \/ Player!Fails(r)
  BY <1>1, AnswerStep, PrepareStep, ContinueStep, FailStep
<1>2. CASE \E i \in Media :
             Player!Expires(i) \/ Player!EvidenceArrives(i) \/ Player!HlsLost(i)
  BY <1>2, ExpireStep, EvidenceStep, LostStep
<1> QED BY <1>1, <1>2, RenderStep, EffectsStep, ErrorStep, UseStep, EndsStep
     DEF Player!Next, Player!UrlRequest, Requests, Media

LEMMA ViewerStutters == ASSUME ViewerInv, UNCHANGED viewerVars PROVE ViewerInv'
<1>1. /\ view' = view /\ shown' = shown /\ owed' = owed /\ urlCalls' = urlCalls
      /\ inflight' = inflight /\ live' = live /\ prepared' = prepared /\ hls' = hls
      /\ fallback' = fallback /\ evidence' = evidence /\ ended' = ended /\ keys' = keys
      /\ automatic' = automatic
  BY DEF viewerVars
<1>2. ViewerCore'
  BY <1>1 DEF ViewerInv, ViewerCore
<1>3. ViewerTypes'
  BY <1>1 DEF ViewerInv, ViewerTypes
<1> QED BY <1>2, <1>3 DEF ViewerInv

(* What the invariant says of the properties.                              *)
LEMMA ViewerImplies ==
  ASSUME ViewerInv
  PROVE  /\ Player!TypeOK /\ Player!AnswerIsTheLatest /\ Player!SessionsAccountedFor
         /\ Player!RefreshedOnce /\ Player!LoadingIsAsked
<1>1. Player!TypeOK
  <2>1. view \in Player!State
    BY CoreFacts, Bounded DEF Order
  <2>2. shown \in Player!State
    <3>1. shown.next <= RequestBound + 1
      BY CoreFacts, OrderFacts, SoundFacts DEF Order
    <3> QED BY <3>1, CoreFacts, Bounded
  <2>3. automatic \in [Media -> Nat]
    BY DEF ViewerInv, ViewerTypes
  <2> QED BY <2>1, <2>2, <2>3, CoreFacts
       DEF ViewerInv, ViewerTypes, Order, Held, Player!TypeOK, Player!UrlRequest, Player!Session0,
           Media, Requests, CallState
<1>2. Player!AnswerIsTheLatest
  BY CoreFacts, SoundFacts DEF Player!AnswerIsTheLatest, EntryRule, Media
<1>3. Player!SessionsAccountedFor
  <2>1. \A s \in live : (\E i \in Media : prepared[i] = s) \/ urlCalls[s].phase = "prepared"
    BY CoreFacts DEF Held
  <2>2. ASSUME view = shown, ~owed, NEW i \in Media, prepared[i] # 0
        PROVE  /\ prepared[i] \in live /\ view.urls[i].status = "ready"
               /\ view.urls[i].answer = prepared[i]
    <3>1. HeldFor(i, prepared[i], view.urls[i], shown.urls[i], urlCalls, owed, live)
      BY <2>2, CoreFacts DEF Held
    <3> QED BY <2>2, <3>1 DEF HeldFor
  <2> QED BY <2>1, <2>2 DEF Player!SessionsAccountedFor, Media
<1>4. Player!RefreshedOnce
  BY DEF ViewerInv, ViewerTypes, Player!RefreshedOnce, Media
<1>5. Player!LoadingIsAsked
  <2>1. SUFFICES ASSUME view = shown, ~owed, ~ended, NEW i \in Media,
                        view.urls[i].status = "loading"
                 PROVE  Pending(urlCalls, view.urls[i].request)
    BY DEF Player!LoadingIsAsked, Pending, Media
  <2>2. Started(urlCalls, view.urls[i].request)
    BY <2>1, CoreFacts DEF AllAsked
  <2>3. LinkedEntry(view.urls[i], shown.urls[i], i, shown.next, urlCalls, ended)
    BY CoreFacts DEF Linked
  <2> QED BY <2>1, <2>2, <2>3 DEF LinkedEntry
<1> QED BY <1>1, <1>2, <1>3, <1>4, <1>5
-------------------------------------------------------------------------------
(* The bridge: sequences.                                                  *)
Values(q) == {q[n] : n \in DOMAIN q}
Distinct(q) == \A m, n \in DOMAIN q : q[m] = q[n] => m = n
Left(q, gone) == {n \in DOMAIN q : q[n] \notin gone}
UpTo(q, gone, n) == {m \in Left(q, gone) : m <= n}

LEMMA LeftFacts ==
  ASSUME NEW q \in Seq(Grant), NEW gone
  PROVE  /\ Left(q, gone) \subseteq 1 .. Len(q) /\ Len(q) \in Nat
         /\ IsFiniteSet(Left(q, gone)) /\ Cardinality(Left(q, gone)) \in Nat
         /\ Cardinality(Left(q, gone)) <= Len(q)
<1>1. Len(q) \in Nat /\ Left(q, gone) \subseteq 1 .. Len(q)
  BY DEF Left
<1>2. IsFiniteSet(1 .. Len(q)) /\ Cardinality(1 .. Len(q)) = Len(q)
  <2>1. IsFiniteSet(1 .. Len(q)) /\ Cardinality(1 .. Len(q)) = IF 1 > Len(q) THEN 0 ELSE Len(q) - 1 + 1
    BY <1>1, FS_Interval
  <2> QED BY <1>1, <2>1
<1>3. /\ IsFiniteSet(Left(q, gone))
      /\ Cardinality(Left(q, gone)) <= Cardinality(1 .. Len(q))
  BY <1>1, <1>2, FS_Subset
<1> QED BY <1>1, <1>2, <1>3, FS_CardinalityType

(* Every rank is that of one position: the n-th that is left.              *)
LEMMA LeftRank ==
  ASSUME NEW q \in Seq(Grant), NEW gone, NEW n \in 1 .. Cardinality(Left(q, gone))
  PROVE  \E i \in Left(q, gone) : Cardinality(UpTo(q, gone, i)) = n
<1> DEFINE K == Left(q, gone)
           below(i) == UpTo(q, gone, i)
           rank == [i \in K |-> Cardinality(below(i))]
<1>1. K \subseteq 1 .. Len(q) /\ IsFiniteSet(K) /\ Cardinality(K) \in Nat /\ Len(q) \in Nat
  BY LeftFacts
<1>2. \A i \in K : /\ below(i) \subseteq K /\ i \in below(i)
                   /\ \A j \in K : i < j => below(i) \subseteq below(j) /\ j \notin below(i)
  BY <1>1 DEF UpTo
<1> HIDE DEF below, K
<1>3. \A i \in K : IsFiniteSet(below(i)) /\ Cardinality(below(i)) \in 1 .. Cardinality(K)
  <2> TAKE i \in K
  <2>1. IsFiniteSet(below(i)) /\ Cardinality(below(i)) <= Cardinality(K)
    BY <1>1, <1>2, FS_Subset
  <2>2. Cardinality(below(i)) \in Nat /\ Cardinality(below(i)) # 0
    BY <1>2, <2>1, FS_CardinalityType, FS_EmptySet
  <2> QED BY <1>1, <2>1, <2>2
<1>4. ASSUME NEW i \in K, NEW j \in K, i < j
      PROVE  Cardinality(below(i)) # Cardinality(below(j))
  <2>1. below(i) \subseteq below(j) /\ j \in below(j) /\ j \notin below(i)
    BY <1>2, <1>4
  <2>2. IsFiniteSet(below(j))
    BY <1>3
  <2> QED BY <2>1, <2>2, FS_Subset
<1>5. rank \in Injection(K, 1 .. Cardinality(K))
  <2>1. rank \in [K -> 1 .. Cardinality(K)]
    BY <1>3
  <2>2. ASSUME NEW i \in K, NEW j \in K, rank[i] = rank[j] PROVE i = j
    <3>1. Cardinality(below(i)) = Cardinality(below(j))
      BY <2>2
    <3>2. i \in Int /\ j \in Int
      BY <1>1
    <3> QED BY <1>4, <3>1, <3>2
  <2> QED BY <2>1, <2>2 DEF Injection, IsInjective
<1>6. rank \in Surjection(K, 1 .. Cardinality(K))
  <2>1. IsFiniteSet(1 .. Cardinality(K)) /\ Cardinality(1 .. Cardinality(K)) = Cardinality(K)
    BY <1>1, FS_Interval
  <2> HIDE DEF rank
  <2> QED BY <1>5, <2>1, FS_Injection
<1>7. PICK i \in K : rank[i] = n
  BY <1>6 DEF Surjection, K
<1> QED BY <1>7 DEF K, below

LEMMA SameCardinalities == \A S : Bridge!Cardinality(S) = Cardinality(S)
  BY DEF Bridge!Cardinality, Cardinality

LEMMA WithoutFacts ==
  ASSUME NEW q \in Seq(Grant), Distinct(q), NEW gone, NEW w, w = Bridge!Without(q, gone)
  PROVE  /\ w \in Seq(Grant) /\ Distinct(w) /\ Len(w) <= Len(q)
         /\ Values(w) \subseteq Values(q) \ gone
<1> DEFINE K == Left(q, gone)
           pos(n) == CHOOSE i \in K : Bridge!Cardinality(UpTo(q, gone, i)) = n
<1>1. w = [n \in 1 .. Cardinality(K) |-> q[pos(n)]]
  <2>1. w = [n \in 1 .. Bridge!Cardinality(K) |->
               q[CHOOSE i \in K : Bridge!Cardinality(UpTo(q, gone, i)) = n]]
    BY DEF Bridge!Without, Left, UpTo
  <2> HIDE DEF K
  <2>2. Bridge!Cardinality(K) = Cardinality(K)
    BY SameCardinalities
  <2> QED BY <2>1, <2>2
<1>2. K \subseteq DOMAIN q /\ Cardinality(K) \in Nat /\ Cardinality(K) <= Len(q)
      /\ \A i \in K : q[i] \in Grant /\ q[i] \notin gone
  <2>1. K \subseteq 1 .. Len(q) /\ Cardinality(K) \in Nat /\ Cardinality(K) <= Len(q)
    BY LeftFacts
  <2>2. \A i \in 1 .. Len(q) : i \in DOMAIN q /\ q[i] \in Grant
    OBVIOUS
  <2>3. \A i \in K : q[i] \notin gone
    BY DEF Left
  <2> QED BY <2>1, <2>2, <2>3
<1>3. \A n \in 1 .. Cardinality(K) : pos(n) \in K /\ Cardinality(UpTo(q, gone, pos(n))) = n
  <2> TAKE n \in 1 .. Cardinality(K)
  <2>1. \E i \in K : Cardinality(UpTo(q, gone, i)) = n
    BY LeftRank
  <2> HIDE DEF K
  <2>2. \A i : Bridge!Cardinality(UpTo(q, gone, i)) = Cardinality(UpTo(q, gone, i))
    BY SameCardinalities
  <2>3. \E i \in K : Bridge!Cardinality(UpTo(q, gone, i)) = n
    BY <2>1, <2>2
  <2> QED BY <2>2, <2>3
<1> HIDE DEF K, pos
<1>4. DOMAIN w = 1 .. Cardinality(K) /\ \A n \in 1 .. Cardinality(K) : w[n] = q[pos(n)]
  BY <1>1
<1>5. w \in Seq(Grant) /\ Len(w) = Cardinality(K)
  BY <1>1, <1>2, <1>3
<1>6. Distinct(w)
  <2> SUFFICES ASSUME NEW m \in 1 .. Cardinality(K), NEW n \in 1 .. Cardinality(K), w[m] = w[n]
               PROVE  m = n
    BY <1>4 DEF Distinct
  <2>1. q[pos(m)] = q[pos(n)] /\ pos(m) \in DOMAIN q /\ pos(n) \in DOMAIN q
    BY <1>2, <1>3, <1>4
  <2>2. pos(m) = pos(n)
    BY <2>1 DEF Distinct
  <2> QED BY <1>3, <2>2
<1>7. Values(w) \subseteq Values(q) \ gone
  BY <1>2, <1>3, <1>4 DEF Values
<1> QED BY <1>2, <1>5, <1>6, <1>7

LEMMA NewestFacts ==
  ASSUME NEW q \in Seq(Grant), Distinct(q), NEW n \in Nat, NEW w, w = Bridge!Newest(q, n)
  PROVE  /\ w \in Seq(Grant) /\ Distinct(w) /\ Len(w) <= n /\ Values(w) \subseteq Values(q)
<1>1. PICK a : a = IF Len(q) > n THEN Len(q) - n + 1 ELSE 1
  OBVIOUS
<1>2. a \in Nat \ {0} /\ Len(q) \in Nat /\ Len(q) - a + 1 <= n /\ a <= Len(q) + 1
  BY <1>1
<1>3. w = SubSeq(q, a, Len(q))
  BY <1>1 DEF Bridge!Newest
<1>4. PICK k : k = Len(q) - a + 1
  OBVIOUS
<1>5. k \in Nat /\ k <= n /\ \A i \in 1 .. k : i + a - 1 \in 1 .. Len(q)
  BY <1>2, <1>4
<1>6. w \in Seq(Grant) /\ Len(w) = k /\ \A i \in 1 .. k : w[i] = q[i + a - 1]
  BY <1>2, <1>3, <1>4, <1>5
<1>7. DOMAIN w = 1 .. k /\ DOMAIN q = 1 .. Len(q)
  BY <1>6
<1>8. Distinct(w)
  <2> SUFFICES ASSUME NEW i \in 1 .. k, NEW j \in 1 .. k, w[i] = w[j] PROVE i = j
    BY <1>7 DEF Distinct
  <2>1. i + a - 1 = j + a - 1
    BY <1>5, <1>6, <1>7 DEF Distinct
  <2> QED BY <1>2, <2>1
<1>9. Values(w) \subseteq Values(q)
  BY <1>5, <1>6, <1>7 DEF Values
<1> QED BY <1>5, <1>6, <1>8, <1>9

LEMMA AppendFacts ==
  ASSUME NEW q \in Seq(Grant), Distinct(q), NEW s \in Grant, s \notin Values(q),
         NEW w, w = Append(q, s)
  PROVE  /\ w \in Seq(Grant) /\ Distinct(w) /\ Values(w) = Values(q) \cup {s}
<1>1. w \in Seq(Grant) /\ Len(w) = Len(q) + 1 /\ Len(q) \in Nat /\ w[Len(q) + 1] = s
      /\ \A n \in 1 .. Len(q) : w[n] = q[n]
  OBVIOUS
<1>2. DOMAIN w = 1 .. Len(q) + 1 /\ DOMAIN q = 1 .. Len(q)
  BY <1>1
<1>3. \A n \in DOMAIN w : (n \in DOMAIN q /\ w[n] = q[n]) \/ (n = Len(q) + 1 /\ w[n] = s)
  BY <1>1, <1>2
<1>4. Distinct(w)
  <2> SUFFICES ASSUME NEW i \in DOMAIN w, NEW j \in DOMAIN w, w[i] = w[j] PROVE i = j
    BY DEF Distinct
  <2>1. \A n \in DOMAIN q : q[n] # s
    BY DEF Values
  <2> QED BY <1>3, <2>1 DEF Distinct
<1>5. Values(w) = Values(q) \cup {s}
  <2>1. \A n \in DOMAIN q : n \in DOMAIN w /\ w[n] = q[n]
    BY <1>1, <1>2
  <2>2. Len(q) + 1 \in DOMAIN w
    BY <1>1, <1>2
  <2> QED BY <1>1, <1>3, <2>1, <2>2 DEF Values
<1> QED BY <1>1, <1>4, <1>5

(* The sequence of a finite set has each of its elements.                  *)
LEMMA SetSequence ==
  ASSUME NEW S, IsFiniteSet(S), NEW q, q = Bridge!SetToSeq(S)
  PROVE  /\ q \in Seq(S) /\ \A x \in S : \E n \in DOMAIN q : q[n] = x
<1>1. PICK k : k = Cardinality(S) /\ k \in Nat
  BY FS_CardinalityType
<1>2. q = CHOOSE f \in [1 .. k -> S] : Bridge!IsInjective(f)
  BY <1>1, SameCardinalities DEF Bridge!SetToSeq
<1>3. \E f \in [1 .. k -> S] : Bridge!IsInjective(f)
  <2>1. ExistsBijection(1 .. k, S)
    BY <1>1, FS_CardinalityType
  <2> QED BY <2>1 DEF ExistsBijection, Bijection, Injection, IsInjective, Bridge!IsInjective
<1>4. q \in [1 .. k -> S] /\ Bridge!IsInjective(q)
  BY <1>2, <1>3
<1>5. q \in Injection(1 .. k, S)
  BY <1>4 DEF Injection, IsInjective, Bridge!IsInjective
<1>6. Cardinality(1 .. k) = Cardinality(S)
  BY <1>1, FS_Interval
<1>7. q \in Surjection(1 .. k, S)
  BY <1>5, <1>6, FS_Injection
<1> QED BY <1>1, <1>4, <1>7 DEF Surjection

(* A non-empty set of positions has a first one.                           *)
LEMMA LeastPosition ==
  ASSUME NEW S \in SUBSET Nat, S # {}
  PROVE  \E i \in S : \A n \in S : i <= n
<1> DEFINE less == {p \in Nat \X Nat : p[1] < p[2]}
<1>1. \A m, n \in Nat : <<m, n>> \in less <=> m < n
  OBVIOUS
<1>2. IsWellFoundedOn(less, Nat)
  BY NatLessThanWellFounded, Zenon DEF OpToRel
<1> HIDE DEF less
<1>3. PICK i \in S : \A n \in S : ~ (<<n, i>> \in less)
  BY <1>2, WFMin
<1>4. ASSUME NEW n \in S PROVE i <= n
  <2>1. n \in Nat /\ i \in Nat
    OBVIOUS
  <2>2. <<n, i>> \in less <=> n < i
    BY <1>1, <2>1
  <2> QED BY <1>3, <2>1, <2>2
<1> QED BY <1>4

(* The values a request can be sent with: the first position for its file. *)
LEMMA FirstFacts ==
  ASSUME NEW q \in Seq(Grant), NEW u, Bridge!For(u, q) # {}
  PROVE  Bridge!First(u, q) \in Grant
<1> DEFINE S == Bridge!For(u, q)
<1>1. S \subseteq 1 .. Len(q) /\ Len(q) \in Nat /\ \A n \in 1 .. Len(q) : q[n] \in Grant
  BY DEF Bridge!For
<1>2. PICK n \in S : \A k \in S : n <= k
  <2>1. S \in SUBSET Nat
    BY <1>1
  <2> QED BY <2>1, LeastPosition
<1> QED BY <1>1, <1>2 DEF Bridge!First

-------------------------------------------------------------------------------
(* The bridge: what is queued for the worker.                              *)
WorkerMessage == [type : {"grant", "revoke"}, session : Grant, for : Bridge!Asker]
Queued(q, s, n) == \E m \in DOMAIN q : m > n /\ q[m].type = "revoke" /\ q[m].session = s
Current(k, s) == \E c \in k : c.session = s /\ c.current
NoGrant(q, s) == \A n \in DOMAIN q : q[n].type = "grant" => q[n].session # s
(* A revoke of s comes after everything the worker has or will have of it. *)
Pursued(s, v, k, q) ==
  /\ s \in v \/ Current(k, s) => Queued(q, s, 0)
  /\ \A n \in DOMAIN q : q[n].type = "grant" /\ q[n].session = s => Queued(q, s, n)

LEMMA PursuedLess ==
  ASSUME NEW s, NEW v, NEW k, NEW q, Pursued(s, v, k, q),
         NEW w, NEW l, s \in w => s \in v \/ Current(k, s), Current(l, s) => Current(k, s)
  PROVE  Pursued(s, w, l, q)
  BY DEF Pursued

LEMMA JoinFacts ==
  ASSUME NEW q \in Seq(WorkerMessage), NEW x \in Seq(WorkerMessage), NEW j, j = q \o x
  PROVE  /\ j \in Seq(WorkerMessage)
         /\ \A n \in DOMAIN q : n \in DOMAIN j /\ j[n] = q[n]
         /\ \A n \in DOMAIN x : /\ Len(q) + n \in DOMAIN j /\ j[Len(q) + n] = x[n]
                                /\ \A m \in DOMAIN q : Len(q) + n > m
         /\ \A n \in DOMAIN j : n \in DOMAIN q \/ \E m \in DOMAIN x : n = Len(q) + m
<1>1. Len(q) \in Nat /\ Len(x) \in Nat /\ DOMAIN q = 1 .. Len(q) /\ DOMAIN x = 1 .. Len(x)
  OBVIOUS
<1>2. /\ j \in Seq(WorkerMessage) /\ DOMAIN j = 1 .. Len(q) + Len(x)
      /\ \A n \in 1 .. Len(q) : j[n] = q[n]
      /\ \A n \in 1 .. Len(x) : j[Len(q) + n] = x[n]
  OBVIOUS
<1>3. \A n \in DOMAIN j : n \in DOMAIN q \/ \E m \in DOMAIN x : n = Len(q) + m
  <2> TAKE n \in DOMAIN j
  <2>1. CASE n <= Len(q)
    BY <1>1, <1>2, <2>1
  <2>2. CASE n > Len(q)
    <3>1. n - Len(q) \in DOMAIN x /\ n = Len(q) + (n - Len(q))
      BY <1>1, <1>2, <2>2
    <3> QED BY <3>1
  <2> QED BY <1>1, <1>2, <2>1, <2>2
<1> QED BY <1>1, <1>2, <1>3

LEMMA PursuedLonger ==
  ASSUME NEW q \in Seq(WorkerMessage), NEW x \in Seq(WorkerMessage), NEW j, j = q \o x,
         NEW s, NEW v, NEW k, Pursued(s, v, k, q), NoGrant(x, s)
  PROVE  Pursued(s, v, k, j)
<1>1. ASSUME NEW n, Queued(q, s, n) PROVE Queued(j, s, n)
  <2>1. PICK m \in DOMAIN q : m > n /\ q[m].type = "revoke" /\ q[m].session = s
    BY <1>1 DEF Queued
  <2>2. m \in DOMAIN j /\ j[m] = q[m]
    BY JoinFacts
  <2> QED BY <2>1, <2>2 DEF Queued
<1>2. ASSUME NEW n \in DOMAIN j, j[n].type = "grant", j[n].session = s PROVE Queued(j, s, n)
  <2>1. n \in DOMAIN q
    BY <1>2, JoinFacts DEF NoGrant
  <2> QED BY <1>1, <1>2, <2>1, JoinFacts DEF Pursued
<1> QED BY <1>1, <1>2 DEF Pursued

LEMMA PursuedAtOnce ==
  ASSUME NEW q \in Seq(WorkerMessage), NEW x \in Seq(WorkerMessage), NEW j, j = q \o x,
         NEW s, NEW v, NEW k, NoGrant(x, s), Queued(x, s, 0)
  PROVE  Pursued(s, v, k, j)
<1>1. PICK m \in DOMAIN x : x[m].type = "revoke" /\ x[m].session = s
  BY DEF Queued
<1>2. PICK p : p = Len(q) + m
  OBVIOUS
<1>3. p \in DOMAIN j /\ j[p] = x[m] /\ p > 0 /\ \A n \in DOMAIN q : p > n
  <2>1. Len(q) \in Nat /\ m \in Nat \ {0}
    OBVIOUS
  <2> QED BY <1>2, <2>1, JoinFacts
<1>4. Queued(j, s, 0) /\ \A n \in DOMAIN q : Queued(j, s, n)
  BY <1>1, <1>3 DEF Queued
<1>5. ASSUME NEW n \in DOMAIN j, j[n].type = "grant", j[n].session = s PROVE n \in DOMAIN q
  BY <1>5, JoinFacts DEF NoGrant
<1> QED BY <1>4, <1>5 DEF Pursued

(* The first message is taken off the queue and handled.                   *)
LEMMA PursuedTail ==
  ASSUME NEW q \in Seq(WorkerMessage), q # <<>>, NEW t, t = Tail(q), NEW h, h = Head(q),
         NEW s, NEW v, NEW k, Pursued(s, v, k, q),
         NEW w, NEW l,
         h.session = s => h.type = "grant" \/ (s \notin w /\ ~Current(l, s)),
         h.session # s => (s \in w => s \in v) /\ (Current(l, s) => Current(k, s))
  PROVE  Pursued(s, w, l, t)
<1>1. /\ Len(q) \in Nat \ {0} /\ DOMAIN q = 1 .. Len(q) /\ DOMAIN t = 1 .. Len(q) - 1
      /\ h = q[1] /\ \A n \in 1 .. Len(q) - 1 : t[n] = q[n + 1]
  OBVIOUS
<1>2. ASSUME NEW n \in Nat, Queued(q, s, n + 1) PROVE Queued(t, s, n)
  <2>1. PICK m \in DOMAIN q : m > n + 1 /\ q[m].type = "revoke" /\ q[m].session = s
    BY <1>2 DEF Queued
  <2>2. m - 1 \in DOMAIN t /\ m - 1 > n /\ t[m - 1] = q[m]
    BY <1>1, <2>1
  <2> QED BY <2>1, <2>2 DEF Queued
<1>3. ASSUME Queued(q, s, 0), ~(h.type = "revoke" /\ h.session = s) PROVE Queued(q, s, 0 + 1)
  <2>1. PICK m \in DOMAIN q : m > 0 /\ q[m].type = "revoke" /\ q[m].session = s
    BY <1>3 DEF Queued
  <2>2. m > 0 + 1
    BY <1>1, <1>3, <2>1
  <2> QED BY <2>1, <2>2 DEF Queued
<1>4. ASSUME NEW n \in DOMAIN t, t[n].type = "grant", t[n].session = s PROVE Queued(t, s, n)
  <2>1. n \in Nat /\ n + 1 \in DOMAIN q /\ q[n + 1] = t[n]
    BY <1>1
  <2>2. Queued(q, s, n + 1)
    BY <1>4, <2>1 DEF Pursued
  <2> QED BY <1>2, <2>1, <2>2
<1>5. ASSUME s \in w \/ Current(l, s) PROVE Queued(t, s, 0)
  <2>1. CASE h.session = s
    <3>1. h.type = "grant" /\ 1 \in DOMAIN q
      BY <1>1, <1>5, <2>1
    <3>2. Queued(q, s, 1)
      BY <1>1, <2>1, <3>1 DEF Pursued
    <3>3. Queued(q, s, 0 + 1)
      BY <3>2
    <3> QED BY <1>2, <3>3
  <2>2. CASE h.session # s
    <3>1. Queued(q, s, 0)
      BY <1>5, <2>2 DEF Pursued
    <3> QED BY <1>2, <1>3, <2>2, <3>1
  <2> QED BY <2>1, <2>2
<1> QED BY <1>4, <1>5 DEF Pursued

-------------------------------------------------------------------------------
(* The bridge: its inductive invariant.                                    *)
PageMessage == [type : {"ack", "result"}, session : Grant, for : Bridge!Asker]
               \cup [type : {"lookup"}, for : Element, url : Bridge!Url]
Check == [session : Grant, for : Bridge!Asker, current : BOOLEAN]
Requested == [pc : {"idle", "asking", "granted", "sent", "done"}, url : Bridge!Url, by : Grant]
Memory(q, n) == q \in Seq(Grant) /\ Distinct(q) /\ Len(q) <= n
PageTypes(s, t, e) ==
  /\ s \in [Grant -> {"unused", "pending", "live", "gone"}]
  /\ t \subseteq Grant /\ e \subseteq t

(* A grant the page no longer holds is pursued by a revoke.                *)
HeldIn(f, s) == f[s] \in {"pending", "live"}
Follows(f, o, v, k, q) == \A s \in Grant : HeldIn(f, s) \/ s \in o \/ Pursued(s, v, k, q)
LiveTold(f, t) == \A s \in Grant : f[s] = "live" => s \in t

BridgeInv ==
  /\ PageTypes(session, told, seen) /\ outdated \subseteq Grant
  /\ toWorker \in Seq(WorkerMessage) /\ toPage \in Seq(PageMessage)
  /\ Memory(stored, MaxGrants) /\ Memory(mutations, MaxMutations)
  /\ checking \subseteq Check
  /\ request \in [Element -> Requested]
  /\ LiveTold(session, told)
  /\ Follows(session, outdated, Values(stored), checking, toWorker)

LEMMA FollowsKept ==
  ASSUME NEW f, NEW o, NEW v, NEW k, NEW q, Follows(f, o, v, k, q),
         NEW p, NEW w, NEW l, o \subseteq p, w \subseteq v, \A s \in Grant : Current(l, s) => Current(k, s)
  PROVE  Follows(f, p, w, l, q)
<1> SUFFICES ASSUME NEW s \in Grant, ~HeldIn(f, s), s \notin p PROVE Pursued(s, w, l, q)
  BY DEF Follows
<1>1. Pursued(s, v, k, q)
  BY DEF Follows
<1> QED BY <1>1, PursuedLess

LEMMA BridgeInit == Bridge!Init => BridgeInv
<1> SUFFICES ASSUME Bridge!Init PROVE BridgeInv
  OBVIOUS
<1>1. /\ session = [s \in Grant |-> "unused"] /\ told = {} /\ seen = {} /\ outdated = {}
      /\ toWorker = <<>> /\ toPage = <<>> /\ stored = <<>> /\ checking = {} /\ mutations = <<>>
      /\ request = [e \in Element |-> Bridge!Idle]
  BY DEF Bridge!Init
<1>2. Bridge!Idle \in Requested
  <2>1. \E s \in Grant : TRUE
    BY TvAssumption
  <2>2. (CHOOSE s \in Grant : TRUE) \in Grant
    BY <2>1
  <2>3. \E u \in Bridge!Url : TRUE
    BY <2>1 DEF Bridge!Url
  <2>4. (CHOOSE u \in Bridge!Url : TRUE) \in Bridge!Url
    BY <2>3
  <2> QED BY <2>2, <2>4 DEF Bridge!Idle, Requested
<1>3. Memory(stored, MaxGrants) /\ Memory(mutations, MaxMutations) /\ Values(stored) = {}
  BY <1>1, TvAssumption DEF Memory, Distinct, Values
<1>4. Follows(session, outdated, Values(stored), checking, toWorker)
  BY <1>1, <1>3 DEF Follows, Pursued, Current
<1> QED BY <1>1, <1>2, <1>3, <1>4 DEF BridgeInv, PageTypes, LiveTold

(* The worker's steps leave the page alone.                                *)
LEMMA WorkerStep ==
  ASSUME BridgeInv, UNCHANGED <<session, told, seen, outdated>>,
         (toWorker \in Seq(WorkerMessage))', (toPage \in Seq(PageMessage))',
         Memory(stored, MaxGrants)', Memory(mutations, MaxMutations)',
         (checking \subseteq Check)', (request \in [Element -> Requested])',
         Follows(session, outdated, Values(stored), checking, toWorker)'
  PROVE  BridgeInv'
<1>1. session' = session /\ told' = told /\ seen' = seen /\ outdated' = outdated
  OBVIOUS
<1> QED BY <1>1 DEF BridgeInv

LEMMA HeldSame == \A s : Bridge!Held(s) <=> HeldIn(session, s)
  BY DEF Bridge!Held, HeldIn

LEMMA GrantsStep == ASSUME BridgeInv, NEW s \in Grant, Bridge!Prepare(s) PROVE BridgeInv'
<1> DEFINE m == Bridge!GrantMessage(s, "page")
<1>1. /\ session[s] = "unused" /\ session' = [session EXCEPT ![s] = "pending"]
      /\ toWorker' = Append(toWorker, m)
      /\ told' = told /\ seen' = seen /\ outdated' = outdated /\ toPage' = toPage
      /\ stored' = stored /\ checking' = checking /\ mutations' = mutations /\ request' = request
  BY DEF Bridge!Prepare, Bridge!workerVars
<1>2. m \in WorkerMessage /\ m.type = "grant" /\ m.session = s
  BY DEF Bridge!GrantMessage, WorkerMessage, Bridge!Asker
<1> HIDE DEF m
<1>3. PICK x : x = <<m>>
  OBVIOUS
<1>4. x \in Seq(WorkerMessage) /\ \A t \in Grant : t # s => NoGrant(x, t)
  BY <1>2, <1>3 DEF NoGrant
<1>5. toWorker \in Seq(WorkerMessage) /\ toWorker' = toWorker \o x
  BY <1>1, <1>2, <1>3 DEF BridgeInv
<1>6. toWorker' \in Seq(WorkerMessage)
  BY <1>4, <1>5
<1>7. /\ PageTypes(session', told, seen) /\ LiveTold(session', told) /\ session'[s] = "pending"
      /\ \A t \in Grant : t # s => session'[t] = session[t]
  BY <1>1 DEF BridgeInv, PageTypes, LiveTold
<1>8. Follows(session', outdated, Values(stored), checking, toWorker')
  <2> SUFFICES ASSUME NEW t \in Grant, ~HeldIn(session', t), t \notin outdated
               PROVE  Pursued(t, Values(stored), checking, toWorker')
    BY DEF Follows
  <2>1. t # s /\ ~HeldIn(session, t)
    BY <1>7 DEF HeldIn
  <2>2. Pursued(t, Values(stored), checking, toWorker)
    BY <2>1 DEF BridgeInv, Follows
  <2> QED BY <1>4, <1>5, <2>1, <2>2, PursuedLonger
<1> QED BY <1>1, <1>6, <1>7, <1>8 DEF BridgeInv

(* Expiry: an outdated grant is of no use any more.                        *)
LEMMA ExpiresStep == ASSUME BridgeInv, NEW s \in Grant, Bridge!Expire(s) PROVE BridgeInv'
<1>1. /\ outdated' = outdated \cup {s} /\ session' = session /\ told' = told /\ seen' = seen
      /\ toWorker' = toWorker /\ toPage' = toPage
      /\ stored' = stored /\ checking' = checking /\ mutations' = mutations /\ request' = request
  BY DEF Bridge!Expire, Bridge!workerVars, Bridge!pageVars
<1>2. Follows(session, outdated', Values(stored), checking, toWorker)
  BY <1>1 DEF BridgeInv, Follows
<1> QED BY <1>1, <1>2 DEF BridgeInv

(* The page forgets grants and replies with one it still holds.            *)
LEMMA RevokedFacts ==
  ASSUME NEW gone \in SUBSET Grant, NEW x, x = Bridge!Revoked(gone)
  PROVE  /\ x \in Seq(WorkerMessage) /\ \A n \in DOMAIN x : x[n].type = "revoke"
         /\ \A s \in gone : session[s] = "pending" \/ s \in told => Queued(x, s, 0)
<1> DEFINE S == {s \in gone : session[s] = "pending" \/ s \in told}
<1>1. PICK tell : tell = Bridge!SetToSeq(S)
  OBVIOUS
<1>2. IsFiniteSet(S) /\ S \subseteq Grant
  BY TvAssumption, FS_Subset
<1> HIDE DEF S
<1>3. tell \in Seq(S) /\ \A s \in S : \E n \in DOMAIN tell : tell[n] = s
  BY <1>1, <1>2, SetSequence
<1>4. x = [n \in DOMAIN tell |-> Bridge!Revoke(tell[n])]
  BY <1>1 DEF Bridge!Revoked, S
<1>5. DOMAIN tell = 1 .. Len(tell) /\ Len(tell) \in Nat /\ \A n \in DOMAIN tell : tell[n] \in Grant
  BY <1>2, <1>3
<1>6. \A s \in Grant : /\ Bridge!Revoke(s) \in WorkerMessage
                       /\ Bridge!Revoke(s).type = "revoke" /\ Bridge!Revoke(s).session = s
  BY DEF Bridge!Revoke, WorkerMessage, Bridge!Asker
<1>7. DOMAIN x = 1 .. Len(tell) /\ x \in Seq(WorkerMessage)
  BY <1>4, <1>5, <1>6
<1>8. \A n \in DOMAIN x : x[n].type = "revoke" /\ x[n].session = tell[n]
  BY <1>4, <1>5, <1>6, <1>7
<1>9. ASSUME NEW s \in S PROVE Queued(x, s, 0)
  <2>1. PICK n \in DOMAIN tell : tell[n] = s
    BY <1>3
  <2>2. n \in DOMAIN x /\ n > 0
    BY <1>5, <1>7
  <2> QED BY <1>8, <2>1, <2>2 DEF Queued
<1> QED BY <1>7, <1>8, <1>9 DEF S

LEMMA ForgetFacts ==
  ASSUME BridgeInv, NEW gone \in SUBSET Grant, NEW replies \in Seq(WorkerMessage),
         \A s \in gone : HeldIn(session, s),
         \A n \in DOMAIN replies : /\ replies[n].type = "grant" /\ replies[n].session \notin gone
                                   /\ HeldIn(session, replies[n].session),
         Bridge!Forget(gone, replies)
  PROVE  /\ PageTypes(session, told, seen)' /\ LiveTold(session, told)'
         /\ (toWorker \in Seq(WorkerMessage))'
         /\ Follows(session', outdated, Values(stored), checking, toWorker')
<1>1. PICK x : x = Bridge!Revoked(gone)
  OBVIOUS
<1>2. PICK y : y = x \o replies
  OBVIOUS
<1>3. /\ session' = [s \in Grant |-> IF s \in gone THEN "gone" ELSE session[s]]
      /\ told' = (told \ gone) \cup {m.session : m \in Bridge!Range(replies)}
      /\ seen' = seen \ gone
  BY DEF Bridge!Forget
<1>4. PICK S : S = {m.session : m \in Bridge!Range(replies)}
  OBVIOUS
<1>5. S \subseteq Grant /\ \A s \in S : HeldIn(session, s) /\ s \notin gone
  <2>1. \A n \in DOMAIN replies : replies[n] \in WorkerMessage
    OBVIOUS
  <2>2. \A n \in DOMAIN replies : replies[n].session \in Grant
    BY <2>1 DEF WorkerMessage
  <2> QED BY <1>4, <2>2 DEF Bridge!Range
<1>6. x \in Seq(WorkerMessage) /\ (\A n \in DOMAIN x : x[n].type = "revoke")
      /\ (\A s \in gone : session[s] = "pending" \/ s \in told => Queued(x, s, 0))
  BY <1>1, RevokedFacts
<1>7. y \in Seq(WorkerMessage) /\ toWorker \in Seq(WorkerMessage)
  BY <1>2, <1>6 DEF BridgeInv
<1>8. toWorker' = toWorker \o y
  <2>1. toWorker' = toWorker \o x \o replies
    BY <1>1 DEF Bridge!Forget
  <2>2. PICK q : q = toWorker
    OBVIOUS
  <2>3. q \in Seq(WorkerMessage)
    BY <1>7, <2>2
  <2>4. (q \o x) \o replies = q \o (x \o replies)
    BY ONLY <1>6, <2>3, replies \in Seq(WorkerMessage)
  <2> QED BY <1>2, <2>1, <2>2, <2>4
<1>9. toWorker' \in Seq(WorkerMessage)
  BY <1>7, <1>8
<1>10. PageTypes(session', told', seen') /\ LiveTold(session', told')
  BY <1>3, <1>4, <1>5 DEF BridgeInv, PageTypes, LiveTold
<1>11. ASSUME NEW s \in Grant, ~HeldIn(session', s) PROVE NoGrant(y, s)
  <2>1. s \in gone \/ ~HeldIn(session, s)
    BY <1>3, <1>11 DEF HeldIn
  <2>2. NoGrant(replies, s)
    BY <2>1 DEF NoGrant
  <2>3. NoGrant(x, s)
    BY <1>6 DEF NoGrant
  <2> QED BY <1>2, <1>6, <2>2, <2>3, JoinFacts DEF NoGrant
<1>12. ASSUME NEW s \in gone PROVE Queued(y, s, 0)
  <2>1. Queued(x, s, 0)
    BY <1>6 DEF BridgeInv, LiveTold, HeldIn
  <2>2. PICK n \in DOMAIN x : n > 0 /\ x[n].type = "revoke" /\ x[n].session = s
    BY <2>1 DEF Queued
  <2>3. n \in DOMAIN y /\ y[n] = x[n]
    BY <1>2, <1>6, JoinFacts
  <2> QED BY <2>2, <2>3 DEF Queued
<1>13. Follows(session', outdated, Values(stored), checking, toWorker')
  <2> SUFFICES ASSUME NEW s \in Grant, ~HeldIn(session', s), s \notin outdated
               PROVE  Pursued(s, Values(stored), checking, toWorker')
    BY DEF Follows
  <2>1. NoGrant(y, s)
    BY <1>11
  <2>2. CASE s \in gone
    BY <1>7, <1>8, <1>12, <2>1, <2>2, PursuedAtOnce
  <2>3. CASE s \notin gone
    <3>1. Pursued(s, Values(stored), checking, toWorker)
      BY <1>3, <2>3 DEF HeldIn, BridgeInv, Follows
    <3> QED BY <1>7, <1>8, <2>1, <3>1, PursuedLonger
  <2> QED BY <2>2, <2>3
<1> QED BY <1>9, <1>10, <1>13

(* A step of the page that leaves the worker and its messages alone.       *)
LEMMA PageStep ==
  ASSUME BridgeInv, UNCHANGED <<outdated, Bridge!workerVars>>,
         PageTypes(session, told, seen)', LiveTold(session, told)',
         (toWorker \in Seq(WorkerMessage))', (toPage \in Seq(PageMessage))',
         Follows(session', outdated, Values(stored), checking, toWorker')
  PROVE  BridgeInv'
<1>1. /\ outdated' = outdated /\ stored' = stored /\ checking' = checking
      /\ mutations' = mutations /\ request' = request
  BY DEF Bridge!workerVars
<1> QED BY <1>1 DEF BridgeInv

LEMMA ReleasesStep == ASSUME BridgeInv, NEW s \in Grant, Bridge!Release(s) PROVE BridgeInv'
<1>1. Bridge!Forget({s}, <<>>) /\ HeldIn(session, s) /\ toPage' = toPage
      /\ UNCHANGED <<outdated, Bridge!workerVars>>
  BY HeldSame DEF Bridge!Release
<1>2. {s} \in SUBSET Grant /\ <<>> \in Seq(WorkerMessage) /\ (\A t \in {s} : HeldIn(session, t))
      /\ DOMAIN <<>> = {}
  BY <1>1
<1>3. /\ PageTypes(session, told, seen)' /\ LiveTold(session, told)'
      /\ (toWorker \in Seq(WorkerMessage))'
      /\ Follows(session', outdated, Values(stored), checking, toWorker')
  BY <1>1, <1>2, ForgetFacts
<1>4. (toPage \in Seq(PageMessage))'
  BY <1>1 DEF BridgeInv
<1> QED BY <1>1, <1>3, <1>4, PageStep

LEMMA AcknowledgedFacts ==
  ASSUME BridgeInv, NEW m, m.session \in Grant, Bridge!Acknowledged(m)
  PROVE  /\ PageTypes(session, told, seen)' /\ LiveTold(session, told)'
         /\ (toWorker \in Seq(WorkerMessage))'
         /\ Follows(session', outdated, Values(stored), checking, toWorker')
<1>1. seen' = seen /\ toWorker' = toWorker
  BY DEF Bridge!Acknowledged
<1>2. CASE m.for = "page" /\ session[m.session] = "pending"
  <2>1. session' = [session EXCEPT ![m.session] = "live"] /\ told' = told \cup {m.session}
    BY <1>2 DEF Bridge!Acknowledged
  <2>2. \A s \in Grant : HeldIn(session, s) => HeldIn(session', s)
    BY <2>1 DEF HeldIn, BridgeInv, PageTypes
  <2> QED BY <1>1, <2>1, <2>2 DEF BridgeInv, PageTypes, LiveTold, Follows
<1>3. CASE ~(m.for = "page" /\ session[m.session] = "pending")
  <2>1. session' = [session EXCEPT ![m.session] = session[m.session]] /\ told' = told
    BY <1>3 DEF Bridge!Acknowledged
  <2>2. session' = session
    BY <2>1 DEF BridgeInv, PageTypes
  <2> QED BY <1>1, <2>1, <2>2 DEF BridgeInv, PageTypes, LiveTold
<1> QED BY <1>2, <1>3

LEMMA LookedUpFacts ==
  ASSUME BridgeInv, NEW m, m.for \in Element, Bridge!LookedUp(m)
  PROVE  /\ PageTypes(session, told, seen)' /\ LiveTold(session, told)'
         /\ (toWorker \in Seq(WorkerMessage))'
         /\ Follows(session', outdated, Values(stored), checking, toWorker')
<1> DEFINE late == {s \in Grant : Bridge!Held(s) /\ s \in outdated}
           found == {s \in Grant : Bridge!Held(s) /\ s \notin late /\ urlOf[s] = m.url}
<1>1. PICK replies \in IF found = {} THEN {<<>>}
                       ELSE {<<Bridge!GrantMessage(s, m.for)>> : s \in found} :
        Bridge!Forget(late, replies)
  BY DEF Bridge!LookedUp
<1>2. late \in SUBSET Grant /\ \A s \in late : HeldIn(session, s)
  BY HeldSame
<1>3. \A s \in found : s \in Grant /\ s \notin late /\ HeldIn(session, s)
  BY HeldSame
<1> HIDE DEF late, found
<1>4. /\ replies \in Seq(WorkerMessage)
      /\ \A n \in DOMAIN replies : /\ replies[n].type = "grant" /\ replies[n].session \notin late
                                   /\ HeldIn(session, replies[n].session)
  <2>1. CASE found = {}
    <3>1. replies = <<>> /\ DOMAIN <<>> = {}
      BY <2>1
    <3> QED BY <3>1
  <2>2. CASE found # {}
    <3>1. PICK s \in found : replies = <<Bridge!GrantMessage(s, m.for)>>
      BY <2>2
    <3>2. PICK g : g = Bridge!GrantMessage(s, m.for)
      OBVIOUS
    <3>3. g \in WorkerMessage /\ g.type = "grant" /\ g.session = s
      BY <1>3, <3>2 DEF Bridge!GrantMessage, WorkerMessage, Bridge!Asker
    <3>4. replies = <<g>> /\ replies \in Seq(WorkerMessage)
      BY <3>1, <3>2, <3>3
    <3>5. \A n \in DOMAIN replies : replies[n] = g
      BY <3>4
    <3> QED BY <1>3, <3>3, <3>4, <3>5
  <2> QED BY <2>1, <2>2
<1> QED BY <1>1, <1>2, <1>4, ForgetFacts

LEMMA ReportedFacts ==
  ASSUME BridgeInv, NEW m, m.session \in Grant, Bridge!Reported(m)
  PROVE  /\ PageTypes(session, told, seen)' /\ LiveTold(session, told)'
         /\ (toWorker \in Seq(WorkerMessage))'
         /\ Follows(session', outdated, Values(stored), checking, toWorker')
<1>1. session' = session /\ told' = told /\ toWorker' = toWorker
  BY DEF Bridge!Reported
<1>2. seen' \subseteq told
  BY DEF Bridge!Reported, BridgeInv, PageTypes
<1> QED BY <1>1, <1>2 DEF BridgeInv, PageTypes

LEMMA PageReceivesStep == ASSUME BridgeInv, Bridge!PageReceives PROVE BridgeInv'
<1>1. PICK m : m = Head(toPage)
  OBVIOUS
<1>2. toPage # <<>> /\ toPage' = Tail(toPage) /\ UNCHANGED <<outdated, Bridge!workerVars>>
  BY DEF Bridge!PageReceives
<1>3. \/ m.type = "ack" /\ Bridge!Acknowledged(m)
      \/ m.type = "lookup" /\ Bridge!LookedUp(m)
      \/ m.type = "result" /\ Bridge!Reported(m)
  BY <1>1 DEF Bridge!PageReceives
<1>4. m \in PageMessage /\ toPage' \in Seq(PageMessage)
  BY <1>1, <1>2 DEF BridgeInv
<1>5. (m.type = "lookup" => m.for \in Element) /\ (m.type # "lookup" => m.session \in Grant)
  BY <1>4 DEF PageMessage
<1>6. /\ PageTypes(session, told, seen)' /\ LiveTold(session, told)'
      /\ (toWorker \in Seq(WorkerMessage))'
      /\ Follows(session', outdated, Values(stored), checking, toWorker')
  BY <1>3, <1>5, AcknowledgedFacts, LookedUpFacts, ReportedFacts
<1> QED BY <1>2, <1>4, <1>6, PageStep

(* The worker handles a message.                                           *)
LEMMA StampedFacts ==
  ASSUME BridgeInv, NEW s \in Grant, NEW w, w = Bridge!Stamped(s)
  PROVE  Memory(w, MaxMutations)
<1>1. PICK a : a = Bridge!Without(mutations, {s})
  OBVIOUS
<1>2. a \in Seq(Grant) /\ Distinct(a) /\ s \notin Values(a)
  BY <1>1, WithoutFacts DEF BridgeInv, Memory
<1>3. PICK b : b = Append(a, s)
  OBVIOUS
<1>4. b \in Seq(Grant) /\ Distinct(b)
  BY <1>2, <1>3, AppendFacts
<1>5. w = Bridge!Newest(b, MaxMutations)
  BY <1>1, <1>3 DEF Bridge!Stamped
<1> QED BY <1>4, <1>5, NewestFacts, TvAssumption DEF Memory

LEMMA RecheckedFacts ==
  ASSUME BridgeInv, NEW s \in Grant, NEW k, k = Bridge!Rechecked(s)
  PROVE  /\ k \subseteq Check /\ ~Current(k, s)
         /\ \A t \in Grant : Current(k, t) => Current(checking, t)
<1>1. ASSUME NEW c \in k
      PROVE  /\ c \in Check
             /\ c.current => c.session # s /\ \E d \in checking : d.current /\ d.session = c.session
  <2>1. PICK d \in checking : c = [d EXCEPT !.current = Bridge!StillCurrent(d, s)]
    BY DEF Bridge!Rechecked
  <2>2. d \in Check
    BY DEF BridgeInv
  <2>3. Bridge!StillCurrent(d, s) \in BOOLEAN
    BY <2>2 DEF Bridge!StillCurrent, Check
  <2>4. c.session = d.session /\ c.for = d.for /\ c.current = Bridge!StillCurrent(d, s) /\ c \in Check
    BY <2>1, <2>2, <2>3 DEF Check
  <2>5. Bridge!StillCurrent(d, s) => d.current /\ d.session # s
    BY DEF Bridge!StillCurrent
  <2> QED BY <2>4, <2>5
<1> QED BY <1>1 DEF Current

LEMMA WorkerReceivesStep == ASSUME BridgeInv, Bridge!WorkerReceives PROVE BridgeInv'
<1>1. PICK m : m = Head(toWorker)
  OBVIOUS
<1>2. PICK s : s = m.session
  OBVIOUS
<1>3. /\ toWorker # <<>> /\ toWorker' = Tail(toWorker)
      /\ session' = session /\ told' = told /\ seen' = seen /\ outdated' = outdated
      /\ toPage' = toPage /\ request' = request
  BY DEF Bridge!WorkerReceives, Bridge!pageVars
<1>4. m \in WorkerMessage /\ toWorker' \in Seq(WorkerMessage) /\ toWorker \in Seq(WorkerMessage)
  BY <1>1, <1>3 DEF BridgeInv
<1>5. s \in Grant /\ m.type \in {"grant", "revoke"} /\ m.for \in Bridge!Asker
  BY <1>2, <1>4 DEF WorkerMessage
<1>6. PICK k : k = Bridge!Rechecked(s)
  OBVIOUS
<1>7. /\ k \subseteq Check /\ ~Current(k, s)
      /\ \A t \in Grant : Current(k, t) => Current(checking, t)
  BY <1>5, <1>6, RecheckedFacts
<1>8. \/ /\ m.type = "revoke" /\ mutations' = Bridge!Stamped(s) /\ checking' = k
         /\ stored' = Bridge!Without(stored, {s})
      \/ /\ m.type = "grant" /\ mutations' = mutations /\ checking' = checking /\ stored' = stored
      \/ /\ m.type = "grant" /\ mutations' = Bridge!Stamped(s)
         /\ checking' = k \cup {[session |-> s, for |-> m.for, current |-> TRUE]}
         /\ stored' = stored
  BY <1>1, <1>2, <1>6 DEF Bridge!WorkerReceives
<1>9. Memory(stored', MaxGrants) /\ Values(stored') \subseteq Values(stored)
      /\ (m.type = "revoke" => s \notin Values(stored'))
  <2>1. CASE m.type = "revoke"
    <3>1. stored' = Bridge!Without(stored, {s}) /\ stored \in Seq(Grant) /\ Distinct(stored)
      BY <1>8, <2>1 DEF BridgeInv, Memory
    <3>2. /\ stored' \in Seq(Grant) /\ Distinct(stored') /\ Len(stored') <= Len(stored)
          /\ Values(stored') \subseteq Values(stored) \ {s}
      BY <3>1, WithoutFacts
    <3>3. Len(stored') \in Nat /\ Len(stored) \in Nat /\ MaxGrants \in Nat /\ Len(stored) <= MaxGrants
      BY <3>1, <3>2, TvAssumption DEF BridgeInv, Memory
    <3> QED BY <3>2, <3>3 DEF Memory
  <2>2. CASE m.type # "revoke"
    <3>1. stored' = stored
      BY <1>8, <2>2
    <3> QED BY <2>2, <3>1 DEF BridgeInv
  <2> QED BY <2>1, <2>2
<1>10. Memory(mutations', MaxMutations)
  BY <1>5, <1>8, StampedFacts DEF BridgeInv
<1>11. /\ checking' \subseteq Check
       /\ \A t \in Grant : t # s /\ Current(checking', t) => Current(checking, t)
       /\ m.type = "revoke" => ~Current(checking', s)
  <2>1. PICK c : c = [session |-> s, for |-> m.for, current |-> TRUE]
    OBVIOUS
  <2>2. c \in Check /\ c.session = s
    BY <1>5, <2>1 DEF Check
  <2>3. CASE checking' = k
    BY <1>7, <2>3
  <2>4. CASE checking' = checking /\ m.type = "grant"
    BY <2>4 DEF BridgeInv
  <2>5. CASE checking' = k \cup {c} /\ m.type = "grant"
    <3>1. \A t \in Grant : t # s /\ Current(checking', t) => Current(k, t)
      BY <2>2, <2>5 DEF Current
    <3> QED BY <1>7, <2>2, <2>5, <3>1
  <2> QED BY <1>8, <2>1, <2>3, <2>4, <2>5
<1>12. Follows(session, outdated, Values(stored'), checking', toWorker')
  <2> SUFFICES ASSUME NEW t \in Grant, ~HeldIn(session, t), t \notin outdated
               PROVE  Pursued(t, Values(stored'), checking', toWorker')
    BY DEF Follows
  <2>1. Pursued(t, Values(stored), checking, toWorker)
    BY DEF BridgeInv, Follows
  <2>2. m.session = t => m.type = "grant" \/ (t \notin Values(stored') /\ ~Current(checking', t))
    BY <1>2, <1>5, <1>9, <1>11
  <2>3. m.session # t => /\ (t \in Values(stored') => t \in Values(stored))
                         /\ (Current(checking', t) => Current(checking, t))
    BY <1>2, <1>9, <1>11
  <2> QED BY <1>1, <1>3, <1>4, <2>1, <2>2, <2>3, PursuedTail
<1> QED BY <1>3, <1>4, <1>9, <1>10, <1>11, <1>12 DEF BridgeInv

(* The worker's own steps change what it keeps and tells, and post nothing  *)
(* to itself.                                                              *)
LEMMA OwnStep ==
  ASSUME BridgeInv, UNCHANGED <<session, told, seen, outdated, toWorker>>,
         (toPage \in Seq(PageMessage))', Memory(stored, MaxGrants)',
         Memory(mutations, MaxMutations)',
         (checking \subseteq Check)', (request \in [Element -> Requested])',
         \A s \in Values(stored') : s \in Values(stored) \/ Current(checking, s),
         \A s \in Grant : Current(checking', s) => Current(checking, s)
  PROVE  BridgeInv'
<1>1. /\ session' = session /\ told' = told /\ seen' = seen /\ outdated' = outdated
      /\ toWorker' = toWorker
  OBVIOUS
<1>2. Follows(session, outdated, Values(stored'), checking', toWorker)
  <2> SUFFICES ASSUME NEW s \in Grant, ~HeldIn(session, s), s \notin outdated
               PROVE  Pursued(s, Values(stored'), checking', toWorker)
    BY DEF Follows
  <2>1. Pursued(s, Values(stored), checking, toWorker)
    BY DEF BridgeInv, Follows
  <2> QED BY <2>1, PursuedLess
<1> QED BY <1>1, <1>2 DEF BridgeInv

LEMMA PostFacts ==
  ASSUME BridgeInv, NEW m \in PageMessage, Bridge!Post(m)
  PROVE  (toPage \in Seq(PageMessage))'
  BY DEF Bridge!Post, BridgeInv

LEMMA FewerChecks ==
  ASSUME NEW c
  PROVE  \A s \in Grant : Current(checking \ {c}, s) => Current(checking, s)
  BY DEF Current

LEMMA CheckedStep == ASSUME BridgeInv, NEW c \in checking, Bridge!Checked(c) PROVE BridgeInv'
<1>1. /\ session' = session /\ told' = told /\ seen' = seen /\ outdated' = outdated
      /\ toWorker' = toWorker /\ mutations' = mutations /\ checking' = checking \ {c}
  BY DEF Bridge!Checked, Bridge!pageVars
<1>2. c \in Check
  BY DEF BridgeInv
<1>3. c.session \in Grant /\ c.for \in Bridge!Asker
  BY <1>2 DEF Check
<1>4. checking' \subseteq Check /\ \A s \in Grant : Current(checking', s) => Current(checking, s)
  BY <1>1, FewerChecks DEF BridgeInv
<1>5. CASE c.current
  <2>1. PICK a : a = Bridge!Without(stored, outdated \cup {c.session})
    OBVIOUS
  <2>2. /\ a \in Seq(Grant) /\ Distinct(a) /\ c.session \notin Values(a)
        /\ Values(a) \subseteq Values(stored)
    BY <2>1, WithoutFacts DEF BridgeInv, Memory
  <2>3. PICK b : b = Append(a, c.session)
    OBVIOUS
  <2>4. b \in Seq(Grant) /\ Distinct(b) /\ Values(b) = Values(a) \cup {c.session}
    BY <1>3, <2>2, <2>3, AppendFacts
  <2>5. stored' = Bridge!Newest(b, MaxGrants)
    BY <1>5, <2>1, <2>3 DEF Bridge!Checked
  <2>6. Memory(stored', MaxGrants) /\ Values(stored') \subseteq Values(b)
    BY <2>4, <2>5, NewestFacts, TvAssumption DEF Memory
  <2>7. Current(checking, c.session)
    BY <1>5 DEF Current
  <2>8. \A s \in Values(stored') : s \in Values(stored) \/ Current(checking, s)
    BY <2>2, <2>4, <2>6, <2>7
  <2>9. (toPage \in Seq(PageMessage))'
    <3>1. PICK m : m = [type |-> "ack", session |-> c.session, for |-> c.for]
      OBVIOUS
    <3>2. m \in PageMessage
      BY <1>3, <3>1 DEF PageMessage
    <3>3. Bridge!Post(m)
      BY <1>5, <3>1 DEF Bridge!Checked
    <3> QED BY <3>2, <3>3, PostFacts
  <2>10. request' \in [Element -> Requested]
    <3>1. request' = [e \in Element |-> IF e = c.for /\ request[e].pc = "asking"
                                        THEN [request[e] EXCEPT !.pc = "granted"] ELSE request[e]]
      BY <1>5 DEF Bridge!Checked
    <3>2. \A e \in Element : request[e] \in Requested
      BY DEF BridgeInv
    <3>3. \A r \in Requested : [r EXCEPT !.pc = "granted"] \in Requested
      BY DEF Requested
    <3> QED BY <3>1, <3>2, <3>3
  <2>11. Memory(mutations', MaxMutations)
    BY <1>1 DEF BridgeInv
  <2> QED BY <1>1, <1>4, <2>6, <2>8, <2>9, <2>10, <2>11, OwnStep
<1>6. CASE ~c.current
  <2>1. stored' = stored /\ toPage' = toPage /\ request' = request
    BY <1>6 DEF Bridge!Checked
  <2> QED BY <1>1, <1>4, <2>1, OwnStep DEF BridgeInv
<1> QED BY <1>5, <1>6

LEMMA UncheckedStep == ASSUME BridgeInv, NEW c \in checking, Bridge!Unchecked(c) PROVE BridgeInv'
<1>1. /\ session' = session /\ told' = told /\ seen' = seen /\ outdated' = outdated
      /\ toWorker' = toWorker /\ mutations' = mutations /\ checking' = checking \ {c}
      /\ stored' = stored /\ toPage' = toPage /\ request' = request
  BY DEF Bridge!Unchecked, Bridge!pageVars
<1>2. checking' \subseteq Check /\ \A s \in Grant : Current(checking', s) => Current(checking, s)
  BY <1>1, FewerChecks DEF BridgeInv
<1> QED BY <1>1, <1>2, OwnStep DEF BridgeInv

(* A request goes out with a stored grant, or asks for one.                *)
LEMMA SentFacts ==
  ASSUME BridgeInv, NEW e \in Element, NEW u \in Bridge!Url, NEW q \in Seq(Grant),
         NEW otherwise \in {"asking", "done"}, Bridge!SentOr(e, u, q, otherwise)
  PROVE  request' \in [Element -> Requested]
<1>1. PICK r : r = IF Bridge!For(u, q) = {}
                   THEN [pc |-> otherwise, url |-> u, by |-> request[e].by]
                   ELSE [pc |-> "sent", url |-> u, by |-> Bridge!First(u, q)]
  OBVIOUS
<1>2. request[e] \in Requested
  BY DEF BridgeInv
<1>3. r \in Requested
  <2>1. CASE Bridge!For(u, q) = {}
    BY <1>1, <1>2, <2>1 DEF Requested
  <2>2. CASE Bridge!For(u, q) # {}
    <3>1. Bridge!First(u, q) \in Grant
      BY <2>2, FirstFacts
    <3> QED BY <1>1, <2>2, <3>1 DEF Requested
  <2> QED BY <2>1, <2>2
<1>4. request' = [request EXCEPT ![e] = r]
  BY <1>1 DEF Bridge!SentOr, BridgeInv
<1> QED BY <1>3, <1>4 DEF BridgeInv

LEMMA FetchStep ==
  ASSUME BridgeInv, NEW e \in Element, NEW u \in Bridge!Url, Bridge!Fetch(e, u) PROVE BridgeInv'
<1>1. PICK kept : kept = Bridge!Without(stored, outdated)
  OBVIOUS
<1>2. /\ session' = session /\ told' = told /\ seen' = seen /\ outdated' = outdated
      /\ toWorker' = toWorker /\ checking' = checking /\ mutations' = mutations
      /\ stored' = kept /\ Bridge!SentOr(e, u, kept, "asking")
  BY <1>1 DEF Bridge!Fetch, Bridge!pageVars
<1>3. /\ kept \in Seq(Grant) /\ Distinct(kept) /\ Len(kept) <= Len(stored)
      /\ Values(kept) \subseteq Values(stored)
  BY <1>1, WithoutFacts DEF BridgeInv, Memory
<1>4. Memory(kept, MaxGrants)
  <2>1. Len(kept) \in Nat /\ Len(stored) \in Nat /\ MaxGrants \in Nat /\ Len(stored) <= MaxGrants
    BY <1>3, TvAssumption DEF BridgeInv, Memory
  <2> QED BY <1>3, <2>1 DEF Memory
<1>5. (toPage \in Seq(PageMessage))'
  <2>1. CASE Bridge!For(u, kept) = {}
    <3>1. PICK m : m = [type |-> "lookup", for |-> e, url |-> u]
      OBVIOUS
    <3>2. m \in PageMessage
      BY <3>1 DEF PageMessage
    <3>3. Bridge!Post(m)
      BY <1>1, <2>1, <3>1 DEF Bridge!Fetch
    <3> QED BY <3>2, <3>3, PostFacts
  <2>2. CASE Bridge!For(u, kept) # {}
    <3>1. toPage' = toPage
      BY <1>1, <2>2 DEF Bridge!Fetch
    <3> QED BY <3>1 DEF BridgeInv
  <2> QED BY <2>1, <2>2
<1>6. request' \in [Element -> Requested]
  BY <1>2, <1>3, SentFacts
<1> QED BY <1>2, <1>3, <1>4, <1>5, <1>6, OwnStep DEF BridgeInv

LEMMA RequestStep ==
  ASSUME BridgeInv, UNCHANGED <<session, told, seen, outdated, toWorker>>,
         UNCHANGED <<stored, checking, mutations>>,
         (toPage \in Seq(PageMessage))', (request \in [Element -> Requested])'
  PROVE  BridgeInv'
<1>1. stored' = stored /\ checking' = checking /\ mutations' = mutations
  OBVIOUS
<1>2. (checking \subseteq Check)' /\ Memory(stored, MaxGrants)' /\ Memory(mutations, MaxMutations)'
  BY <1>1 DEF BridgeInv
<1>3. /\ \A s \in Values(stored') : s \in Values(stored) \/ Current(checking, s)
      /\ \A s \in Grant : Current(checking', s) => Current(checking, s)
  BY <1>1
<1> QED BY <1>2, <1>3, OwnStep

LEMMA RequestDone ==
  ASSUME BridgeInv, NEW e \in Element, request' = [request EXCEPT ![e].pc = "done"]
  PROVE  request' \in [Element -> Requested]
<1>1. PICK r : r = [request[e] EXCEPT !.pc = "done"]
  OBVIOUS
<1>2. request[e] \in Requested
  BY DEF BridgeInv
<1>3. r \in Requested
  BY <1>1, <1>2 DEF Requested
<1>4. request' = [request EXCEPT ![e] = r]
  BY <1>1 DEF BridgeInv
<1> QED BY <1>3, <1>4 DEF BridgeInv

LEMMA GrantedStep == ASSUME BridgeInv, NEW e \in Element, Bridge!Granted(e) PROVE BridgeInv'
<1>1. /\ UNCHANGED <<session, told, seen, outdated, toWorker>>
      /\ UNCHANGED <<stored, checking, mutations>> /\ toPage' = toPage
      /\ Bridge!SentOr(e, request[e].url, stored, "done")
  BY DEF Bridge!Granted, Bridge!pageVars
<1>2. request[e].url \in Bridge!Url /\ stored \in Seq(Grant)
  BY DEF BridgeInv, Memory, Requested
<1>3. request' \in [Element -> Requested]
  BY <1>1, <1>2, SentFacts
<1>4. toPage' \in Seq(PageMessage)
  BY <1>1 DEF BridgeInv
<1> QED BY <1>1, <1>3, <1>4, RequestStep

LEMMA NotGrantedStep == ASSUME BridgeInv, NEW e \in Element, Bridge!NotGranted(e) PROVE BridgeInv'
<1>1. /\ UNCHANGED <<session, told, seen, outdated, toWorker>>
      /\ UNCHANGED <<stored, checking, mutations>> /\ toPage' = toPage
      /\ request' = [request EXCEPT ![e].pc = "done"]
  BY DEF Bridge!NotGranted, Bridge!pageVars
<1>2. toPage' \in Seq(PageMessage)
  BY <1>1 DEF BridgeInv
<1> QED BY <1>1, <1>2, RequestDone, RequestStep

LEMMA DeliveredStep == ASSUME BridgeInv, NEW e \in Element, Bridge!Delivered(e) PROVE BridgeInv'
<1>1. PICK m : m = [type |-> "result", session |-> request[e].by, for |-> e]
  OBVIOUS
<1>2. /\ UNCHANGED <<session, told, seen, outdated, toWorker>>
      /\ UNCHANGED <<stored, checking, mutations>> /\ Bridge!Post(m)
      /\ request' = [request EXCEPT ![e].pc = "done"]
  BY <1>1 DEF Bridge!Delivered, Bridge!pageVars
<1>3. request[e] \in Requested
  BY DEF BridgeInv
<1>4. m \in PageMessage
  BY <1>1, <1>3 DEF PageMessage, Requested, Bridge!Asker
<1>5. (toPage \in Seq(PageMessage))'
  BY <1>2, <1>4, PostFacts
<1> QED BY <1>2, <1>5, RequestDone, RequestStep

LEMMA StopStep == ASSUME BridgeInv, Bridge!Stop PROVE BridgeInv'
<1>1. /\ UNCHANGED <<session, told, seen, outdated, toWorker>>
      /\ toPage' = toPage /\ checking' = checking /\ request' = request
      /\ stored' = <<>> /\ mutations' = <<>>
  BY DEF Bridge!Stop, Bridge!pageVars
<1>2. <<>> \in Seq(Grant) /\ Len(<<>>) = 0 /\ DOMAIN <<>> = {}
  OBVIOUS
<1>3. Memory(stored', MaxGrants) /\ Memory(mutations', MaxMutations) /\ Values(stored') = {}
  BY <1>1, <1>2, TvAssumption DEF Memory, Distinct, Values
<1>4. (toPage \in Seq(PageMessage))' /\ (checking \subseteq Check)'
      /\ (request \in [Element -> Requested])'
  BY <1>1 DEF BridgeInv
<1>5. \A s \in Grant : Current(checking', s) => Current(checking, s)
  BY <1>1
<1> QED BY <1>1, <1>3, <1>4, <1>5, OwnStep

LEMMA BridgeNext == ASSUME BridgeInv, Bridge!Next PROVE BridgeInv'
  BY GrantsStep, ReleasesStep, ExpiresStep, PageReceivesStep, WorkerReceivesStep, StopStep,
     CheckedStep, UncheckedStep, FetchStep, GrantedStep, NotGrantedStep, DeliveredStep
     DEF Bridge!Next

LEMMA BridgeStutters == ASSUME BridgeInv, UNCHANGED bridgeVars PROVE BridgeInv'
<1>1. /\ session' = session /\ told' = told /\ seen' = seen /\ outdated' = outdated
      /\ toWorker' = toWorker /\ toPage' = toPage /\ stored' = stored /\ checking' = checking
      /\ mutations' = mutations /\ request' = request
  BY DEF bridgeVars
<1> QED BY <1>1 DEF BridgeInv

(* What the invariant says of the properties.                              *)
LEMMA BridgeImplies ==
  ASSUME BridgeInv
  PROVE  Bridge!TypeOK /\ Bridge!RevokedStaysRevoked
<1>1. \A q : Bridge!Range(q) = Values(q)
  BY DEF Bridge!Range, Values
<1>2. \A q \in Seq(Grant) : Values(q) \subseteq Grant /\ (Distinct(q) => Bridge!IsInjective(q))
  BY DEF Values, Distinct, Bridge!IsInjective
<1>3. Bridge!TypeOK
  <2>1. Bridge!Range(toWorker) \subseteq Bridge!Message({"grant", "revoke"})
    <3>1. WorkerMessage = Bridge!Message({"grant", "revoke"})
      BY DEF WorkerMessage, Bridge!Message
    <3> QED BY <1>1, <3>1 DEF Values, BridgeInv
  <2>2. \A m \in Bridge!Range(toPage) : m.type \in {"ack", "lookup", "result"} /\ m.for \in Bridge!Asker
    <3>1. \A m \in PageMessage : m.type \in {"ack", "lookup", "result"} /\ m.for \in Bridge!Asker
      BY DEF PageMessage, Bridge!Asker
    <3>2. \A n \in DOMAIN toPage : toPage[n] \in PageMessage
      BY DEF BridgeInv
    <3> QED BY <1>1, <3>1, <3>2 DEF Values
  <2>3. /\ Bridge!Range(stored) \subseteq Grant /\ Bridge!IsInjective(stored)
        /\ Len(stored) <= MaxGrants
        /\ Bridge!Range(mutations) \subseteq Grant /\ Bridge!IsInjective(mutations)
        /\ Len(mutations) <= MaxMutations
    BY <1>1, <1>2 DEF BridgeInv, Memory
  <2>4. /\ session \in [Grant -> {"unused", "pending", "live", "gone"}]
        /\ told \subseteq Grant /\ seen \subseteq told /\ outdated \subseteq Grant
    BY DEF BridgeInv, PageTypes
  <2>5. checking \subseteq [session : Grant, for : Bridge!Asker, current : BOOLEAN]
    BY DEF BridgeInv, Check
  <2>6. request \in [Element -> [pc : {"idle", "asking", "granted", "sent", "done"},
                                 url : Bridge!Url, by : Grant]]
    BY DEF BridgeInv, Requested
  <2> QED BY <2>1, <2>2, <2>3, <2>4, <2>5, <2>6 DEF Bridge!TypeOK
<1>4. Bridge!RevokedStaysRevoked
  <2> SUFFICES ASSUME toWorker = <<>>, NEW s \in Values(stored), ~Bridge!Held(s), s \notin outdated
               PROVE  FALSE
    BY <1>1 DEF Bridge!RevokedStaysRevoked
  <2>1. s \in Grant
    BY <1>2 DEF BridgeInv, Memory
  <2>2. Pursued(s, Values(stored), checking, toWorker)
    BY <2>1, HeldSame DEF BridgeInv, Follows
  <2>3. Queued(toWorker, s, 0)
    BY <2>2 DEF Pursued
  <2>4. DOMAIN <<>> = {}
    OBVIOUS
  <2> QED BY <2>3, <2>4 DEF Queued
<1> QED BY <1>3, <1>4

-------------------------------------------------------------------------------
(* Both parts together.                                                    *)
Inv ==
  /\ part = "viewer" => ViewerInv
  /\ part = "bridge" => BridgeInv

LEMMA InvInit == Init => Inv
<1>1. ASSUME part = "viewer", Player!Init PROVE Inv
  BY <1>1, ViewerInit DEF Inv
<1>2. ASSUME part = "bridge", Bridge!Init PROVE Inv
  BY <1>2, BridgeInit DEF Inv
<1> QED BY <1>1, <1>2 DEF Init

LEMMA InvNext == ASSUME Inv, [Next]_vars PROVE Inv'
<1>1. part' = part
  BY DEF Next, vars
<1>2. ASSUME part = "viewer" PROVE ViewerInv'
  <2>1. ViewerInv
    BY <1>2 DEF Inv
  <2>2. Player!Next \/ UNCHANGED viewerVars
    BY <1>2 DEF Next, vars
  <2> QED BY <2>1, <2>2, ViewerNext, ViewerStutters
<1>3. ASSUME part = "bridge" PROVE BridgeInv'
  <2>1. BridgeInv
    BY <1>3 DEF Inv
  <2>2. Bridge!Next \/ UNCHANGED bridgeVars
    BY <1>3 DEF Next, vars
  <2> QED BY <2>1, <2>2, BridgeNext, BridgeStutters
<1> QED BY <1>1, <1>2, <1>3 DEF Inv

LEMMA Invariant == Spec => []Inv
<1>1. Init => Inv
  BY InvInit
<1>2. Inv /\ [Next]_vars => Inv'
  BY InvNext
<1> QED BY <1>1, <1>2, PTL DEF Spec

LEMMA InvImplies ==
  ASSUME Inv
  PROVE  /\ TypeOK /\ AnswerIsTheLatest /\ SessionsAccountedFor /\ RefreshedOnce
         /\ LoadingIsAsked /\ RevokedStaysRevoked
<1>1. ASSUME part = "viewer"
      PROVE  /\ Player!TypeOK /\ Player!AnswerIsTheLatest /\ Player!SessionsAccountedFor
             /\ Player!RefreshedOnce /\ Player!LoadingIsAsked
  BY <1>1, ViewerImplies DEF Inv
<1>2. ASSUME part = "bridge" PROVE Bridge!TypeOK /\ Bridge!RevokedStaysRevoked
  BY <1>2, BridgeImplies DEF Inv
<1> QED BY <1>1, <1>2 DEF TypeOK, AnswerIsTheLatest, SessionsAccountedFor, RefreshedOnce,
                          LoadingIsAsked, RevokedStaysRevoked

(* Every variable of the viewer and of the bridge keeps its shape: entries  *)
(* of the reducer are of a known status, and the worker keeps no more       *)
(* grants and stamps than MAX_GRANTS and MAX_MESSAGE_MUTATIONS allow.       *)
THEOREM TvTypes == Spec => []TypeOK
<1>1. Inv => TypeOK
  BY InvImplies
<1> QED BY <1>1, Invariant, PTL

(* A URL that is shown is the answer to the last request for its item, for  *)
(* whatever order the answers, rejections and renders come in.              *)
THEOREM ShownAnswersTheLast == Spec => []AnswerIsTheLatest
<1>1. Inv => AnswerIsTheLatest
  BY InvImplies
<1> QED BY <1>1, Invariant, PTL

(* No bearer session the bridge prepared is forgotten: it is that of the    *)
(* URL shown, or of a call that has still to hand it over or release it.    *)
THEOREM NoSessionForgotten == Spec => []SessionsAccountedFor
<1>1. Inv => SessionsAccountedFor
  BY InvImplies
<1> QED BY <1>1, Invariant, PTL

(* An item that entered the window, or whose URL expired, is refreshed by   *)
(* the viewer itself at most once: rejections never become a loop.         *)
THEOREM OneAutomaticRefresh == Spec => []RefreshedOnce
<1>1. Inv => RefreshedOnce
  BY InvImplies
<1> QED BY <1>1, Invariant, PTL

(* Once the effects of a render have run, an item that is loading has a     *)
(* call under way that was not aborted: no abort, late render or fallback   *)
(* leaves it loading for ever.                                             *)
THEOREM NothingLoadsUnasked == Spec => []LoadingIsAsked
<1>1. Inv => LoadingIsAsked
  BY InvImplies
<1> QED BY <1>1, Invariant, PTL

(* A token the page has disposed of does not stay in the service worker,    *)
(* although its revoke may overtake the check of the grant it revokes and   *)
(* although the page may give up, or the worker be stopped, in between.     *)
THEOREM RevokesReachTheWorker == Spec => []RevokedStaysRevoked
<1>1. Inv => RevokedStaysRevoked
  BY InvImplies
<1> QED BY <1>1, Invariant, PTL
===============================================================================
