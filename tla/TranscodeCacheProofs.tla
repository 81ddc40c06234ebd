------------------------- MODULE TranscodeCacheProofs -------------------------
(***************************************************************************)
(* Proofs about TranscodeCache: byte totals that are only incremented and   *)
(* decremented stay the sums of the rows, the cap holds although it is      *)
(* checked awaits before the row it admits, marks of windows outlive no     *)
(* row, and recovery leaves files and rows that agree.                     *)
(***************************************************************************)
EXTENDS TranscodeCache, FiniteSets, FiniteSetTheorems, WellFoundedInduction, TLAPS

-------------------------------------------------------------------------------
(* Sums over finite sets.                                                  *)

(* A non-empty set of natural numbers has a least element.                 *)
LEMMA LeastNatural ==
  ASSUME NEW S \in SUBSET Nat, S # {}
  PROVE  \E i \in S : \A n \in S : i <= n
<1> DEFINE R == {ss \in Nat \X Nat : ss[1] < ss[2]}
<1>1. \A x, y \in Nat : <<x, y>> \in R <=> x < y
  OBVIOUS
<1>2. IsWellFoundedOn(R, Nat)
  BY NatLessThanWellFounded, Zenon DEF OpToRel
<1> HIDE DEF R
<1>3. PICK i \in S : \A n \in S : ~ (<<n, i>> \in R)
  BY <1>2, WFMin
<1>4. ASSUME NEW n \in S PROVE i <= n
  <2>1. n \in Nat /\ i \in Nat
    OBVIOUS
  <2>2. <<n, i>> \in R <=> n < i
    BY <1>1, <2>1
  <2> QED BY <1>3, <2>1, <2>2
<1> QED BY <1>4

(* Induction over the subsets of a finite set, by their size: a property   *)
(* is given as the set of those that have it.                              *)
LEMMA BySize ==
  ASSUME NEW S, IsFiniteSet(S), NEW Good,
         \A s \in SUBSET S :
           (\A t \in SUBSET S : Cardinality(t) < Cardinality(s) => t \in Good) => s \in Good
  PROVE  \A s \in SUBSET S : s \in Good
<1> DEFINE bad == {s \in SUBSET S : s \notin Good}
           sizes == {Cardinality(s) : s \in bad}
<1>1. \A s \in SUBSET S : Cardinality(s) \in Nat
  BY FS_Subset, FS_CardinalityType
<1>2. SUFFICES ASSUME bad # {} PROVE FALSE
  OBVIOUS
<1>3. sizes \in SUBSET Nat /\ sizes # {}
  BY <1>1, <1>2
<1>4. PICK n \in sizes : \A m \in sizes : n <= m
  <2> HIDE DEF sizes
  <2> QED BY <1>3, LeastNatural
<1>5. PICK s \in bad : n = Cardinality(s)
  OBVIOUS
<1>6. ASSUME NEW t \in SUBSET S, Cardinality(t) < Cardinality(s) PROVE t \in Good
  <2>1. SUFFICES ASSUME t \notin Good PROVE FALSE
    OBVIOUS
  <2>2. Cardinality(t) \in sizes
    BY <2>1
  <2>3. Cardinality(s) <= Cardinality(t)
    BY <1>4, <1>5, <2>2
  <2>4. Cardinality(t) \in Nat /\ Cardinality(s) \in Nat
    BY <1>1, <1>5
  <2> QED BY <1>6, <2>3, <2>4
<1> QED BY <1>5, <1>6

(* The function SumFunctionOnSet is defined by.                            *)
Some(s) == CHOOSE x \in s : TRUE
Partial(f, s, rest) == IF s = {} THEN 0 ELSE f[Some(s)] + rest[s \ {Some(s)}]
Sums(f, S) == CHOOSE sums : sums = [s \in SUBSET S |-> Partial(f, s, sums)]

LEMMA SumIs == ASSUME NEW f, NEW S PROVE SumFunctionOnSet(f, S) = Sums(f, S)[S]
  BY DEF SumFunctionOnSet, FoldFunctionOnSet, MapThenFoldSet, Sums, Partial, Some

LEMMA SomeIs == ASSUME NEW s, s # {} PROVE Some(s) \in s
  BY DEF Some

LEMMA Smaller ==
  ASSUME NEW S, IsFiniteSet(S), NEW s \in SUBSET S, NEW x \in s
  PROVE  /\ Cardinality(s) \in Nat /\ Cardinality(s \ {x}) \in Nat
         /\ Cardinality(s \ {x}) = Cardinality(s) - 1
<1>1. IsFiniteSet(s)
  BY FS_Subset
<1> QED BY <1>1, FS_RemoveElement, FS_CardinalityType

LEMMA SumsExist ==
  ASSUME NEW f, NEW S, IsFiniteSet(S)
  PROVE  Sums(f, S) = [s \in SUBSET S |-> Partial(f, s, Sums(f, S))]
<1> DEFINE Upto(n) == {s \in SUBSET S : Cardinality(s) <= n}
           Known(n) == \E sums : sums = [s \in Upto(n) |-> Partial(f, s, sums)]
           bad == {n \in Nat : ~Known(n)}
<1>0. \A s \in SUBSET S : IsFiniteSet(s) /\ Cardinality(s) \in Nat /\ (Cardinality(s) = 0 <=> s = {})
  BY FS_Subset, FS_CardinalityType, FS_EmptySet
<1>1. Known(0)
  <2> DEFINE z == [s \in Upto(0) |-> 0]
  <2>1. \A s \in Upto(0) : s = {}
    BY <1>0
  <2>2. \A s \in Upto(0) : Partial(f, s, z) = 0
    BY <2>1 DEF Partial
  <2>3. z = [s \in Upto(0) |-> Partial(f, s, z)]
    BY <2>2
  <2> QED BY <2>3
<1>2. ASSUME NEW n \in Nat, Known(n) PROVE Known(n + 1)
  <2>1. PICK g : g = [s \in Upto(n) |-> Partial(f, s, g)]
    BY <1>2
  <2> DEFINE h == [s \in Upto(n + 1) |-> IF s \in Upto(n) THEN g[s] ELSE Partial(f, s, g)]
  <2>2. ASSUME NEW s \in Upto(n + 1) PROVE h[s] = Partial(f, s, h)
    <3>1. h[s] = Partial(f, s, g)
      BY <2>1
    <3>2. CASE s = {}
      BY <3>1, <3>2 DEF Partial
    <3>3. CASE s # {}
      <4>1. Some(s) \in s
        BY <3>3, SomeIs
      <4>2. Cardinality(s \ {Some(s)}) \in Nat /\ Cardinality(s \ {Some(s)}) = Cardinality(s) - 1
            /\ Cardinality(s) \in Nat /\ Cardinality(s) <= n + 1
        BY <4>1, Smaller
      <4>3. s \ {Some(s)} \in SUBSET S /\ Cardinality(s \ {Some(s)}) <= n
        BY <4>2
      <4>4. s \ {Some(s)} \in Upto(n) /\ s \ {Some(s)} \in Upto(n + 1)
        BY <4>3, <4>2
      <4>5. h[s \ {Some(s)}] = g[s \ {Some(s)}]
        BY <4>4
      <4> QED BY <3>1, <3>3, <4>5 DEF Partial
    <3> QED BY <3>2, <3>3
  <2> HIDE DEF Upto
  <2>3. h = [s \in Upto(n + 1) |-> Partial(f, s, h)]
    BY <2>2
  <2> QED BY <2>3
<1>3. \A n \in Nat : Known(n)
  <2>1. SUFFICES ASSUME bad # {} PROVE FALSE
    OBVIOUS
  <2>2. bad \in SUBSET Nat
    OBVIOUS
  <2>3. PICK n \in bad : \A m \in bad : n <= m
    <3> HIDE DEF bad
    <3> QED BY <2>1, <2>2, LeastNatural
  <2> HIDE DEF Known
  <2>4. n # 0
    BY <1>1, <2>3
  <2>5. n - 1 \in Nat /\ n - 1 \notin bad
    BY <2>3, <2>4
  <2>6. Known(n - 1 + 1)
    BY <2>5, <1>2
  <2>7. n - 1 + 1 = n
    BY <2>3
  <2> QED BY <2>3, <2>6, <2>7
<1>4. Upto(Cardinality(S)) = SUBSET S
  BY FS_Subset
<1>5. Known(Cardinality(S))
  BY <1>0, <1>3
<1>6. \E sums : sums = [s \in SUBSET S |-> Partial(f, s, sums)]
  BY <1>4, <1>5
<1> QED BY <1>6 DEF Sums

LEMMA SumsAt ==
  ASSUME NEW f, NEW S, IsFiniteSet(S), NEW s \in SUBSET S
  PROVE  Sums(f, S)[s] = Partial(f, s, Sums(f, S))
<1> DEFINE sums == Sums(f, S)
           right == [t \in SUBSET S |-> Partial(f, t, sums)]
<1>1. sums = right
  BY SumsExist
<1>2. right[s] = Partial(f, s, sums)
  OBVIOUS
<1> HIDE DEF right
<1> QED BY <1>1, <1>2

(* Functions that agree on the elements of a set have the same sum there.   *)
LEMMA SumsAgree ==
  ASSUME NEW f, NEW g, NEW S, IsFiniteSet(S), NEW T, IsFiniteSet(T),
         NEW s \in SUBSET S, s \subseteq T, \A x \in s : f[x] = g[x]
  PROVE  Sums(f, S)[s] = Sums(g, T)[s]
<1> DEFINE Alike(t) == t \subseteq T /\ (\A x \in t : f[x] = g[x])
           Good == {t \in SUBSET S : Alike(t) => Sums(f, S)[t] = Sums(g, T)[t]}
<1>1. ASSUME NEW t \in SUBSET S,
             \A q \in SUBSET S : Cardinality(q) < Cardinality(t) => q \in Good
      PROVE  t \in Good
  <2> SUFFICES ASSUME Alike(t) PROVE Sums(f, S)[t] = Sums(g, T)[t]
    OBVIOUS
  <2>1. Sums(f, S)[t] = Partial(f, t, Sums(f, S)) /\ Sums(g, T)[t] = Partial(g, t, Sums(g, T))
    BY SumsAt
  <2>2. CASE t = {}
    BY <2>1, <2>2 DEF Partial
  <2>3. CASE t # {}
    <3>1. Some(t) \in t
      BY <2>3, SomeIs
    <3> DEFINE q == t \ {Some(t)}
    <3>2. q \in SUBSET S /\ Alike(q) /\ Cardinality(q) < Cardinality(t)
      BY <3>1, Smaller
    <3>3. q \in Good
      BY <3>2, <1>1
    <3>4. Sums(f, S)[q] = Sums(g, T)[q]
      BY <3>2, <3>3
    <3> QED BY <2>1, <2>3, <3>1, <3>4 DEF Partial
  <2> QED BY <2>2, <2>3
<1> HIDE DEF Good
<1>2. s \in Good
  BY <1>1, BySize
<1> QED BY <1>2 DEF Good

LEMMA SumSame ==
  ASSUME NEW f, NEW g, NEW S, IsFiniteSet(S), \A x \in S : f[x] = g[x]
  PROVE  SumFunctionOnSet(f, S) = SumFunctionOnSet(g, S)
  BY SumsAgree, SumIs

LEMMA SumEmpty == ASSUME NEW f PROVE SumFunctionOnSet(f, {}) = 0
<1>1. IsFiniteSet({})
  BY FS_EmptySet
<1>2. Sums(f, {})[{}] = 0
  BY <1>1, SumsAt DEF Partial
<1> QED BY <1>2, SumIs

LEMMA SumsInt ==
  ASSUME NEW f, NEW S, IsFiniteSet(S), \A x \in S : f[x] \in Int
  PROVE  \A s \in SUBSET S : Sums(f, S)[s] \in Int
<1> DEFINE Good == {t \in SUBSET S : Sums(f, S)[t] \in Int}
<1>1. ASSUME NEW t \in SUBSET S,
             \A q \in SUBSET S : Cardinality(q) < Cardinality(t) => q \in Good
      PROVE  t \in Good
  <2>1. Sums(f, S)[t] = Partial(f, t, Sums(f, S))
    BY SumsAt
  <2>2. CASE t = {}
    BY <2>1, <2>2 DEF Partial
  <2>3. CASE t # {}
    <3>1. Some(t) \in t
      BY <2>3, SomeIs
    <3> DEFINE q == t \ {Some(t)}
    <3>2. q \in SUBSET S /\ Cardinality(q) < Cardinality(t)
      BY <3>1, Smaller
    <3>3. q \in Good
      BY <3>2, <1>1
    <3>4. Sums(f, S)[t] = f[Some(t)] + Sums(f, S)[q]
      BY <2>1, <2>3 DEF Partial
    <3>5. f[Some(t)] \in Int /\ Sums(f, S)[q] \in Int
      BY <3>1, <3>3
    <3> QED BY <3>4, <3>5
  <2> QED BY <2>2, <2>3
<1> HIDE DEF Good
<1>2. \A s \in SUBSET S : s \in Good
  BY <1>1, BySize
<1> QED BY <1>2 DEF Good

(* Any element may be the one that is added last.                          *)
LEMMA SumsRemove ==
  ASSUME NEW f, NEW S, IsFiniteSet(S), \A x \in S : f[x] \in Int
  PROVE  \A s \in SUBSET S : \A x \in s : Sums(f, S)[s] = f[x] + Sums(f, S)[s \ {x}]
<1> DEFINE sums == Sums(f, S)
           Good == {t \in SUBSET S : \A x \in t : sums[t] = f[x] + sums[t \ {x}]}
<1>0. \A s \in SUBSET S : sums[s] \in Int
  BY SumsInt
<1>4. ASSUME NEW s \in SUBSET S, s # {} PROVE sums[s] = f[Some(s)] + sums[s \ {Some(s)}]
  <2>1. Sums(f, S)[s] = Partial(f, s, Sums(f, S))
    BY SumsAt
  <2> QED BY <2>1, <1>4 DEF Partial
<1> HIDE DEF sums
<1>1. ASSUME NEW t \in SUBSET S,
             \A q \in SUBSET S : Cardinality(q) < Cardinality(t) => q \in Good,
             NEW x \in t
      PROVE  sums[t] = f[x] + sums[t \ {x}]
  <2>1. Some(t) \in t
    BY SomeIs
  <2> PICK y : y = Some(t)
    OBVIOUS
  <2>2. sums[t] = f[y] + sums[t \ {y}]
    BY <1>4, <2>1
  <2>3. CASE x = y
    BY <2>2, <2>3
  <2>4. CASE x # y
    <3>1. t \ {y} \in Good /\ t \ {x} \in Good
      BY <1>1, <2>1, Smaller
    <3>2. sums[t \ {y}] = f[x] + sums[(t \ {y}) \ {x}]
      BY <3>1, <2>4
    <3>3. sums[t \ {x}] = f[y] + sums[(t \ {x}) \ {y}]
      BY <3>1, <2>4, <2>1
    <3>4. (t \ {x}) \ {y} = (t \ {y}) \ {x}
      OBVIOUS
    <3> PICK z : z = sums[(t \ {y}) \ {x}]
      OBVIOUS
    <3>5. z \in Int /\ f[x] \in Int /\ f[y] \in Int
      BY <1>0, <2>1
    <3>6. sums[t] = f[y] + (f[x] + z) /\ f[x] + sums[t \ {x}] = f[x] + (f[y] + z)
      BY <2>2, <3>2, <3>3, <3>4
    <3> QED BY <3>5, <3>6
  <2> QED BY <2>3, <2>4
<1>2. ASSUME NEW t \in SUBSET S,
             \A q \in SUBSET S : Cardinality(q) < Cardinality(t) => q \in Good
      PROVE  t \in Good
  BY <1>1, <1>2
<1>3. \A s \in SUBSET S : s \in Good
  <2> HIDE DEF Good
  <2> QED BY <1>2, BySize
<1> QED BY <1>3 DEF sums

LEMMA SumInt ==
  ASSUME NEW f, NEW S, IsFiniteSet(S), \A x \in S : f[x] \in Int
  PROVE  SumFunctionOnSet(f, S) \in Int
  BY SumsInt, SumIs

LEMMA SumRemove ==
  ASSUME NEW f, NEW S, IsFiniteSet(S), \A x \in S : f[x] \in Int, NEW x \in S
  PROVE  SumFunctionOnSet(f, S) = f[x] + SumFunctionOnSet(f, S \ {x})
<1>1. Sums(f, S)[S] = f[x] + Sums(f, S)[S \ {x}]
  BY SumsRemove
<1>2. IsFiniteSet(S \ {x})
  BY FS_RemoveElement
<1>3. Sums(f, S)[S \ {x}] = Sums(f, S \ {x})[S \ {x}]
  BY <1>2, SumsAgree
<1> QED BY <1>1, <1>3, SumIs

LEMMA SumNat ==
  ASSUME NEW f, NEW S, IsFiniteSet(S), \A x \in S : f[x] \in Nat
  PROVE  SumFunctionOnSet(f, S) \in Nat
<1> DEFINE Good == {t \in SUBSET S : Sums(f, S)[t] \in Nat}
<1>1. ASSUME NEW t \in SUBSET S,
             \A q \in SUBSET S : Cardinality(q) < Cardinality(t) => q \in Good
      PROVE  t \in Good
  <2>1. Sums(f, S)[t] = Partial(f, t, Sums(f, S))
    BY SumsAt
  <2>2. CASE t = {}
    BY <2>1, <2>2 DEF Partial
  <2>3. CASE t # {}
    <3>1. Some(t) \in t
      BY <2>3, SomeIs
    <3> DEFINE q == t \ {Some(t)}
    <3>2. q \in SUBSET S /\ Cardinality(q) < Cardinality(t)
      BY <3>1, Smaller
    <3>3. q \in Good
      BY <3>2, <1>1
    <3>4. Sums(f, S)[t] = f[Some(t)] + Sums(f, S)[q]
      BY <2>1, <2>3 DEF Partial
    <3>5. f[Some(t)] \in Nat /\ Sums(f, S)[q] \in Nat
      BY <3>1, <3>3
    <3> QED BY <3>4, <3>5
  <2> QED BY <2>2, <2>3
<1> HIDE DEF Good
<1>2. \A s \in SUBSET S : s \in Good
  BY <1>1, BySize
<1>3. S \in Good
  BY <1>2
<1> QED BY <1>3, SumIs DEF Good

LEMMA SumZero ==
  ASSUME NEW f, NEW S, IsFiniteSet(S), \A x \in S : f[x] = 0
  PROVE  SumFunctionOnSet(f, S) = 0
<1> DEFINE Good == {t \in SUBSET S : Sums(f, S)[t] = 0}
<1>1. ASSUME NEW t \in SUBSET S,
             \A q \in SUBSET S : Cardinality(q) < Cardinality(t) => q \in Good
      PROVE  t \in Good
  <2>1. Sums(f, S)[t] = Partial(f, t, Sums(f, S))
    BY SumsAt
  <2>2. CASE t = {}
    BY <2>1, <2>2 DEF Partial
  <2>3. CASE t # {}
    <3>1. Some(t) \in t
      BY <2>3, SomeIs
    <3> DEFINE q == t \ {Some(t)}
    <3>2. q \in SUBSET S /\ Cardinality(q) < Cardinality(t)
      BY <3>1, Smaller
    <3>3. q \in Good
      BY <3>2, <1>1
    <3>4. Sums(f, S)[t] = f[Some(t)] + Sums(f, S)[q]
      BY <2>1, <2>3 DEF Partial
    <3>5. f[Some(t)] = 0 /\ Sums(f, S)[q] = 0
      BY <3>1, <3>3
    <3> QED BY <3>4, <3>5
  <2> QED BY <2>2, <2>3
<1> HIDE DEF Good
<1>2. \A s \in SUBSET S : s \in Good
  BY <1>1, BySize
<1>3. S \in Good
  BY <1>2
<1> QED BY <1>3, SumIs DEF Good


-------------------------------------------------------------------------------
(* The inductive invariant.                                                *)

(* The job names its asset while it runs, deletes a victim only while it    *)
(* makes room, and carries what FFmpeg wrote.                              *)
EncoderTypes ==
  /\ enc.pc # "idle" => enc.key \in Key
  /\ enc.victim # NoKey => enc.pc \in {"first room", "making room"}
  /\ enc.pc \in InEncode \ {"directory", "encoding"} => enc.content \in Encoded

ReaderTypes == \A r \in Reader : rd[r].pc # "idle" => rd[r].at \in Place

(* The pins of an asset cover its session, its job, with one more while it  *)
(* is inside encode(), and the responses that serve it; without this a      *)
(* release could take the count below zero.                                *)
Served(k) == {r \in Reader : rd[r].pc \in {"opening", "streaming"} /\ rd[r].at[1] = k}
OfSession(k) == IF k \in live THEN 1 ELSE 0
OfJob(k) ==
  IF enc.pc = "idle" \/ enc.key # k THEN 0 ELSE IF enc.pc \in InEncode THEN 2 ELSE 1
PinsCover ==
  \A k \in Key : /\ IsFiniteSet(Served(k))
                 /\ pins[k] >= Cardinality(Served(k)) + OfSession(k) + OfJob(k)

(* A row of a segment has its asset (the foreign key), and what is not an   *)
(* asset counts nothing.                                                   *)
RowsHaveAssets ==
  /\ IsFiniteSet(assets)
  /\ \A t \in Place : row[t] # NoContent => t[1] \in assets
  /\ \A k \in Key \ assets : total[k] = 0

(* The room that ensureCapacity found is there until the row is written.    *)
RoomKept ==
  enc.pc \in {"unlinking", "renaming", "recording"} =>
    TotalBytes + Bytes(enc.content) <= CacheMaxBytes

(* While the server starts nothing else runs, and what is not left to check *)
(* has files of the recorded sizes.                                        *)
Reconciled ==
  /\ ~Up => /\ live = {} /\ enc = NoEncoder /\ rd = [r \in Reader |-> NoReader]
            /\ \A k \in Key \ boot.todo : SizesAgree(k)
  /\ boot.pc = "deleting" => boot.key \in boot.todo

Accounts == RowsHaveAssets /\ AccountingExact /\ CapRespected /\ CompleteIsWhole
IInv ==
  TypeOK /\ EncoderTypes /\ ReaderTypes /\ PinsCover /\ Accounts /\ RoomKept /\ Reconciled

(* What the later proofs use of the types.                                 *)
EncState == [pc : {"idle", "first room", "settling"} \cup InEncode, key : Key \cup {NoKey},
             window : Window, segment : Segment, done : SUBSET Segment, content : Stored,
             victim : Key \cup {NoKey}]
RdState == [pc : {"idle", "missed", "validating", "removing", "forgetting",
                  "returned", "opening", "streaming"},
            at : (Key \cup {NoKey}) \X Segment, again : BOOLEAN, row : Stored, open : Stored]
BootState == [pc : {"serving", "checking", "deleting"}, todo : SUBSET Key, key : Key \cup {NoKey}]
CatalogTypes ==
  assets \subseteq Key /\ total \in [Key -> Nat] /\ row \in [Place -> Stored]
  /\ complete \subseteq Key \X Window
LEMMA Types ==
  TypeOK <=> /\ CatalogTypes /\ file \in [Place -> Stored] /\ pins \in [Key -> Nat]
             /\ live \subseteq Key /\ enc \in EncState /\ rd \in [Reader -> RdState]
             /\ boot \in BootState
  BY DEF TypeOK, CatalogTypes, EncState, RdState, BootState
LEMMA TypesNext ==
  TypeOK' <=> /\ CatalogTypes' /\ file' \in [Place -> Stored] /\ pins' \in [Key -> Nat]
              /\ live' \subseteq Key /\ enc' \in EncState /\ rd' \in [Reader -> RdState]
              /\ boot' \in BootState
  BY DEF TypeOK, CatalogTypes, EncState, RdState, BootState

LEMMA Constants ==
  /\ 0 \in Segment /\ 0 \in Window /\ IsFiniteSet(Segment) /\ \A i \in Segment : WindowOf(i) \in Window
  /\ NoEncoder \in EncState /\ NoReader \in RdState /\ Serving \in BootState
<1>1. 0 \in Segment /\ IsFiniteSet(Segment)
  BY BoundAssumption, FS_Interval DEF Segment
<1>2. WindowOf(0) = 0
  BY BoundAssumption DEF WindowOf
<1>3. 0 \in Window
  BY <1>1, <1>2 DEF Window
<1>4. NoEncoder \in EncState
  BY <1>1, <1>3 DEF NoEncoder, EncState, Stored
<1>5. NoReader \in RdState
  BY <1>1 DEF NoReader, RdState, Stored
<1>6. Serving \in BootState
  BY DEF Serving, BootState
<1> QED BY <1>1, <1>3, <1>4, <1>5, <1>6 DEF Window

LEMMA BytesNat == \A c \in Stored : Bytes(c) \in Nat /\ (Bytes(c) = 0 <=> c = NoContent)
  BY ContentAssumption, SentinelAssumption DEF Bytes, Stored

-------------------------------------------------------------------------------
(* The catalog.                                                            *)

(* Rows and totals as values, so that the lemmas speak of both states of a  *)
(* step.                                                                   *)
RowsOf(r, k) == [i \in Segment |-> Bytes(r[<<k, i>>])]

LEMMA RowsNat ==
  ASSUME NEW r \in [Place -> Stored], NEW k \in Key
  PROVE  \A i \in Segment : /\ RowsOf(r, k)[i] = Bytes(r[<<k, i>>])
                            /\ RowsOf(r, k)[i] \in Nat /\ r[<<k, i>>] \in Stored
<1> SUFFICES ASSUME NEW i \in Segment
             PROVE /\ RowsOf(r, k)[i] = Bytes(r[<<k, i>>])
                   /\ RowsOf(r, k)[i] \in Nat /\ r[<<k, i>>] \in Stored
  OBVIOUS
<1>1. r[<<k, i>>] \in Stored
  BY DEF Place
<1> QED BY <1>1, BytesNat DEF RowsOf

(* An asset counts at least the bytes of each of its rows.                 *)
LEMMA RowsCover ==
  ASSUME NEW r \in [Place -> Stored], NEW k \in Key, NEW i \in Segment
  PROVE  /\ SumFunctionOnSet(RowsOf(r, k), Segment \ {i}) \in Nat
         /\ SumFunctionOnSet(RowsOf(r, k), Segment)
              = Bytes(r[<<k, i>>]) + SumFunctionOnSet(RowsOf(r, k), Segment \ {i})
         /\ Bytes(r[<<k, i>>]) \in Nat
<1> PICK f : f = RowsOf(r, k)
  OBVIOUS
<1>1. \A j \in Segment : f[j] \in Nat
  BY RowsNat
<1>2. IsFiniteSet(Segment) /\ IsFiniteSet(Segment \ {i})
  BY Constants, FS_RemoveElement
<1>3. SumFunctionOnSet(f, Segment) = f[i] + SumFunctionOnSet(f, Segment \ {i})
  <2>1. \A j \in Segment : f[j] \in Int
    BY <1>1
  <2> QED BY <2>1, <1>2, SumRemove
<1>4. SumFunctionOnSet(f, Segment \ {i}) \in Nat
  BY <1>1, <1>2, SumNat
<1>5. f[i] = Bytes(r[<<k, i>>]) /\ f[i] \in Nat
  BY RowsNat
<1> QED BY <1>3, <1>4, <1>5

(* One row changes: the sums of the other assets stay, that of its own      *)
(* changes by the difference.                                              *)
LEMMA OtherRowsSame ==
  ASSUME NEW r \in [Place -> Stored], NEW q \in [Place -> Stored], NEW h \in Key,
         \A j \in Segment : q[<<h, j>>] = r[<<h, j>>]
  PROVE  SumFunctionOnSet(RowsOf(q, h), Segment) = SumFunctionOnSet(RowsOf(r, h), Segment)
<1>1. ASSUME NEW j \in Segment PROVE RowsOf(q, h)[j] = RowsOf(r, h)[j]
  <2>1. RowsOf(q, h)[j] = Bytes(q[<<h, j>>]) /\ RowsOf(r, h)[j] = Bytes(r[<<h, j>>])
    BY RowsNat
  <2> QED BY <2>1
<1>2. IsFiniteSet(Segment)
  BY Constants
<1> QED BY <1>1, <1>2, SumSame

LEMMA RowChanged ==
  ASSUME NEW r \in [Place -> Stored], NEW q \in [Place -> Stored],
         NEW k \in Key, NEW i \in Segment, NEW c \in Stored,
         \A t \in Place : q[t] = IF t = <<k, i>> THEN c ELSE r[t]
  PROVE  SumFunctionOnSet(RowsOf(q, k), Segment)
           = SumFunctionOnSet(RowsOf(r, k), Segment) - Bytes(r[<<k, i>>]) + Bytes(c)
<1>1. \A h \in Key, j \in Segment :
        q[<<h, j>>] = IF h = k /\ j = i THEN c ELSE r[<<h, j>>]
  BY DEF Place
<1>2. IsFiniteSet(Segment) /\ IsFiniteSet(Segment \ {i})
  BY Constants, FS_RemoveElement
<1>4. SumFunctionOnSet(RowsOf(q, k), Segment \ {i}) = SumFunctionOnSet(RowsOf(r, k), Segment \ {i})
  <2>1. ASSUME NEW j \in Segment \ {i} PROVE RowsOf(q, k)[j] = RowsOf(r, k)[j]
    <3>1. q[<<k, j>>] = r[<<k, j>>]
      BY <1>1
    <3>2. RowsOf(q, k)[j] = Bytes(q[<<k, j>>]) /\ RowsOf(r, k)[j] = Bytes(r[<<k, j>>])
      BY RowsNat
    <3> QED BY <3>1, <3>2
  <2> PICK f, g, T : f = RowsOf(q, k) /\ g = RowsOf(r, k) /\ T = Segment \ {i}
    OBVIOUS
  <2>2. (\A j \in T : f[j] = g[j]) /\ IsFiniteSet(T)
    BY <2>1, <1>2
  <2>3. SumFunctionOnSet(f, T) = SumFunctionOnSet(g, T)
    BY ONLY <2>2, SumSame
  <2> QED BY <2>3
<1>5. q[<<k, i>>] = c
  BY <1>1
<1> PICK a, b, d, e, rest :
      /\ a = SumFunctionOnSet(RowsOf(q, k), Segment) /\ b = Bytes(c)
      /\ d = SumFunctionOnSet(RowsOf(r, k), Segment) /\ e = Bytes(r[<<k, i>>])
      /\ rest = SumFunctionOnSet(RowsOf(r, k), Segment \ {i})
  OBVIOUS
<1>6. d = e + rest /\ e \in Nat /\ rest \in Nat
  BY RowsCover
<1>7. a = b + rest /\ b \in Nat
  <2>1. /\ SumFunctionOnSet(RowsOf(q, k), Segment)
             = Bytes(q[<<k, i>>]) + SumFunctionOnSet(RowsOf(q, k), Segment \ {i})
        /\ Bytes(q[<<k, i>>]) \in Nat
    BY RowsCover
  <2> QED BY <2>1, <1>4, <1>5
<1>8. a = d - e + b
  BY ONLY <1>6, <1>7
<1> QED BY <1>8

(* The total of the cache, when that of one asset changes.                 *)
LEMMA OneTotalChanged ==
  ASSUME NEW A \in SUBSET Key, IsFiniteSet(A), NEW t \in [Key -> Nat], NEW k \in Key,
         NEW n \in Nat, NEW u, \A h \in Key : u[h] = IF h = k THEN n ELSE t[h]
  PROVE  /\ SumFunctionOnSet(u, A)
              = IF k \in A THEN SumFunctionOnSet(t, A) - t[k] + n ELSE SumFunctionOnSet(t, A)
         /\ SumFunctionOnSet(u, A) \in Nat /\ SumFunctionOnSet(t, A) \in Nat
<1>1. \A h \in Key : u[h] = IF h = k THEN n ELSE t[h]
  OBVIOUS
<1>2. \A h \in A : t[h] \in Nat /\ u[h] \in Nat
  BY <1>1
<1>3. CASE k \notin A
  <2>1. \A h \in A : u[h] = t[h]
    BY <1>1, <1>3
  <2> QED BY <2>1, <1>2, <1>3, SumSame, SumNat
<1>4. CASE k \in A
  <2>1. IsFiniteSet(A \ {k})
    BY FS_RemoveElement
  <2>2. \A h \in A \ {k} : u[h] = t[h]
    BY <1>1
  <2>3. SumFunctionOnSet(u, A \ {k}) = SumFunctionOnSet(t, A \ {k})
    BY <2>1, <2>2, SumSame
  <2>4. SumFunctionOnSet(t, A) = t[k] + SumFunctionOnSet(t, A \ {k})
    BY <1>2, <1>4, SumRemove
  <2>5. SumFunctionOnSet(u, A) = n + SumFunctionOnSet(u, A \ {k})
    <3>1. u[k] = n /\ \A h \in A : u[h] \in Int
      BY <1>1, <1>2
    <3>2. SumFunctionOnSet(u, A) = u[k] + SumFunctionOnSet(u, A \ {k})
      BY <3>1, <1>4, SumRemove
    <3> QED BY <3>1, <3>2
  <2>6. SumFunctionOnSet(t, A \ {k}) \in Nat
    BY <1>2, <2>1, SumNat
  <2> PICK a, b, d, rest : /\ a = SumFunctionOnSet(u, A) /\ b = SumFunctionOnSet(t, A)
                           /\ d = t[k] /\ rest = SumFunctionOnSet(t, A \ {k})
    OBVIOUS
  <2>7. b = d + rest /\ a = n + rest /\ d \in Nat /\ rest \in Nat
    BY <2>3, <2>4, <2>5, <2>6
  <2>8. a = b - d + n /\ a \in Nat /\ b \in Nat
    BY ONLY <2>7, n \in Nat
  <2> QED BY <2>8, <1>4
<1> QED BY <1>3, <1>4

(* An asset without bytes adds nothing.                                    *)
LEMMA EmptyAdded ==
  ASSUME NEW A \in SUBSET Key, IsFiniteSet(A), NEW t \in [Key -> Nat],
         NEW k \in Key, t[k] = 0 \/ k \in A
  PROVE  SumFunctionOnSet(t, A \cup {k}) = SumFunctionOnSet(t, A)
<1>1. CASE k \in A
  <2>1. A \cup {k} = A
    BY <1>1
  <2> QED BY <2>1
<1>2. CASE k \notin A
  <2> PICK B : B = A \cup {k}
    OBVIOUS
  <2>1. IsFiniteSet(B) /\ B \ {k} = A /\ k \in B
    BY <1>2, FS_AddElement
  <2>2. \A h \in B : t[h] \in Int
    OBVIOUS
  <2>3. SumFunctionOnSet(t, B) = t[k] + SumFunctionOnSet(t, A)
    BY <2>1, <2>2, SumRemove
  <2>4. SumFunctionOnSet(t, A) \in Nat
    BY <2>2, SumNat
  <2> QED BY <2>3, <2>4, <1>2
<1> QED BY <1>1, <1>2

LEMMA OneRemoved ==
  ASSUME NEW A \in SUBSET Key, IsFiniteSet(A), NEW t \in [Key -> Nat], NEW k \in Key
  PROVE  SumFunctionOnSet(t, A \ {k}) <= SumFunctionOnSet(t, A)
<1>1. \A h \in A : t[h] \in Nat
  OBVIOUS
<1>2. IsFiniteSet(A \ {k})
  BY FS_RemoveElement
<1>3. SumFunctionOnSet(t, A \ {k}) \in Nat /\ SumFunctionOnSet(t, A) \in Nat
  BY <1>1, <1>2, SumNat
<1>4. CASE k \notin A
  <2>1. A \ {k} = A
    BY <1>4
  <2> QED BY <2>1, <1>3
<1>5. CASE k \in A
  <2>1. SumFunctionOnSet(t, A) = t[k] + SumFunctionOnSet(t, A \ {k})
    BY <1>1, <1>5, SumRemove
  <2> QED BY <2>1, <1>3
<1> QED BY <1>4, <1>5

LEMMA AccountingRows ==
  AccountingExact <=> \A k \in Key : total[k] = SumFunctionOnSet(RowsOf(row, k), Segment)
  BY DEF AccountingExact, RowBytes, RowsOf
LEMMA AccountingRowsNext ==
  AccountingExact' <=> \A k \in Key : total'[k] = SumFunctionOnSet(RowsOf(row', k), Segment)
  BY DEF AccountingExact, RowBytes, RowsOf, Bytes

(* recordSegment replaces a row; the room for the new one has been kept.    *)
LEMMA RecordSegmentInv ==
  ASSUME CatalogTypes, Accounts, NEW k \in Key, NEW i \in Segment, NEW c \in Encoded,
         k \in assets, TotalBytes + Bytes(c) <= CacheMaxBytes, RecordSegment(<<k, i>>, c)
  PROVE  CatalogTypes' /\ Accounts'
<1>1. /\ row' = [row EXCEPT ![<<k, i>>] = c]
      /\ total' = [total EXCEPT ![k] = total[k] - Bytes(row[<<k, i>>]) + Bytes(c)]
      /\ UNCHANGED <<assets, complete>>
  BY DEF RecordSegment
<1>2. c \in Stored /\ c # NoContent /\ <<k, i>> \in Place
  BY ContentAssumption, SentinelAssumption DEF Stored, Place
<1>3. row' \in [Place -> Stored]
  BY <1>1, <1>2 DEF CatalogTypes
<1> PICK n, old, rest : /\ n = total[k] - Bytes(row[<<k, i>>]) + Bytes(c)
                        /\ old = Bytes(row[<<k, i>>])
                        /\ rest = SumFunctionOnSet(RowsOf(row, k), Segment \ {i})
  OBVIOUS
<1>4. total[k] = old + rest /\ old \in Nat /\ rest \in Nat /\ Bytes(c) \in Nat
  BY RowsCover, AccountingRows, <1>2, BytesNat DEF Accounts, CatalogTypes
<1>5. n = total[k] - old + Bytes(c) /\ n \in Nat /\ n <= total[k] + Bytes(c)
  BY ONLY <1>4, n = total[k] - Bytes(row[<<k, i>>]) + Bytes(c), old = Bytes(row[<<k, i>>])
<1>6. total' = [total EXCEPT ![k] = n] /\ total' \in [Key -> Nat]
  BY <1>1, <1>5 DEF CatalogTypes
<1>7. CatalogTypes'
  BY <1>1, <1>3, <1>6 DEF CatalogTypes
<1>8. RowsHaveAssets'
  BY <1>1, <1>2, <1>6 DEF Accounts, RowsHaveAssets, CatalogTypes, Place
<1>9. AccountingExact'
  <2> PICK r, q : r = row /\ q = row'
    OBVIOUS
  <2>1. /\ SumFunctionOnSet(RowsOf(q, k), Segment)
              = SumFunctionOnSet(RowsOf(r, k), Segment) - Bytes(r[<<k, i>>]) + Bytes(c)
        /\ \A h \in Key \ {k} :
              SumFunctionOnSet(RowsOf(q, h), Segment) = SumFunctionOnSet(RowsOf(r, h), Segment)
    <3>1. /\ r \in [Place -> Stored] /\ q \in [Place -> Stored]
          /\ \A t \in Place : q[t] = IF t = <<k, i>> THEN c ELSE r[t]
          /\ k \in Key /\ i \in Segment /\ c \in Stored
      BY <1>1, <1>2, <1>3 DEF CatalogTypes
    <3>2. SumFunctionOnSet(RowsOf(q, k), Segment)
            = SumFunctionOnSet(RowsOf(r, k), Segment) - Bytes(r[<<k, i>>]) + Bytes(c)
      BY ONLY <3>1, RowChanged
    <3>3. ASSUME NEW h \in Key \ {k}
          PROVE  SumFunctionOnSet(RowsOf(q, h), Segment) = SumFunctionOnSet(RowsOf(r, h), Segment)
      <4>1. ASSUME NEW j \in Segment PROVE q[<<h, j>>] = r[<<h, j>>]
        BY <3>1 DEF Place
      <4> QED BY <4>1, <3>1, OtherRowsSame
    <3> QED BY <3>2, <3>3
  <2>2. ASSUME NEW h \in Key PROVE total'[h] = SumFunctionOnSet(RowsOf(q, h), Segment)
    <3>1. total[h] = SumFunctionOnSet(RowsOf(r, h), Segment) /\ total[k] = SumFunctionOnSet(RowsOf(r, k), Segment)
      BY AccountingRows DEF Accounts
    <3>2. CASE h = k
      BY <2>1, <3>1, <3>2, <1>5, <1>6 DEF CatalogTypes
    <3>3. CASE h # k
      BY <2>1, <3>1, <3>3, <1>6 DEF CatalogTypes
    <3> QED BY <3>2, <3>3
  <2> QED BY <2>2, AccountingRowsNext
<1>10. CapRespected'
  <2>1. IsFiniteSet(assets) /\ assets \in SUBSET Key /\ total \in [Key -> Nat]
    BY DEF Accounts, RowsHaveAssets, CatalogTypes
  <2> PICK a, b : a = SumFunctionOnSet(total', assets) /\ b = SumFunctionOnSet(total, assets)
    OBVIOUS
  <2>2. a = b - total[k] + n /\ a \in Nat /\ b \in Nat
    <3> PICK A, t, u : A = assets /\ t = total /\ u = total'
      OBVIOUS
    <3>1. /\ A \in SUBSET Key /\ IsFiniteSet(A) /\ t \in [Key -> Nat] /\ k \in Key /\ n \in Nat
          /\ \A h \in Key : u[h] = IF h = k THEN n ELSE t[h]
          /\ k \in A
      BY <2>1, <1>5, <1>6
    <3>2. /\ SumFunctionOnSet(u, A) = SumFunctionOnSet(t, A) - t[k] + n
          /\ SumFunctionOnSet(u, A) \in Nat /\ SumFunctionOnSet(t, A) \in Nat
      BY ONLY <3>1, OneTotalChanged
    <3> QED BY <3>2
  <2>3. total[k] \in Nat /\ CacheMaxBytes \in Nat /\ b + Bytes(c) <= CacheMaxBytes
    BY <2>1, BoundAssumption DEF TotalBytes
  <2>4. a <= CacheMaxBytes
    BY ONLY <2>2, <2>3, <1>5, <1>4
  <2> QED BY <2>4, <1>1 DEF CapRespected, TotalBytes
<1>11. CompleteIsWhole'
  BY <1>1, <1>2, <1>3 DEF Accounts, CompleteIsWhole, CatalogTypes, WindowSegments, Place, Window
<1> QED BY <1>7, <1>8, <1>9, <1>10, <1>11 DEF Accounts

(* deleteSegment takes the bytes of whatever the row says now.             *)
LEMMA DeleteSegmentInv ==
  ASSUME CatalogTypes, Accounts, NEW k \in Key, NEW i \in Segment, DeleteSegment(<<k, i>>)
  PROVE  CatalogTypes' /\ Accounts' /\ TotalBytes' <= TotalBytes /\ TotalBytes \in Nat /\ TotalBytes' \in Nat
<1> PICK n, old, rest : /\ n = (IF total[k] > Bytes(row[<<k, i>>])
                                THEN total[k] - Bytes(row[<<k, i>>]) ELSE 0)
                        /\ old = Bytes(row[<<k, i>>])
                        /\ rest = SumFunctionOnSet(RowsOf(row, k), Segment \ {i})
  OBVIOUS
<1>1. /\ row' = [row EXCEPT ![<<k, i>>] = NoContent]
      /\ total' = [total EXCEPT ![k] = n]
      /\ complete' = IF row[<<k, i>>] = NoContent THEN complete ELSE complete \ {<<k, WindowOf(i)>>}
      /\ UNCHANGED assets
  BY DEF DeleteSegment
<1>2. NoContent \in Stored /\ <<k, i>> \in Place /\ Bytes(NoContent) = 0
  BY DEF Stored, Place, Bytes
<1>3. row' \in [Place -> Stored]
  BY <1>1, <1>2 DEF CatalogTypes
<1>4. total[k] = old + rest /\ old \in Nat /\ rest \in Nat
  BY RowsCover, AccountingRows DEF Accounts, CatalogTypes
<1>5. n = total[k] - old /\ n \in Nat /\ n <= total[k]
  <2>1. n = IF total[k] > old THEN total[k] - old ELSE 0
    OBVIOUS
  <2> QED BY ONLY <2>1, <1>4
<1>6. total' \in [Key -> Nat]
  BY <1>1, <1>5 DEF CatalogTypes
<1>7. CatalogTypes'
  BY <1>1, <1>3, <1>6 DEF CatalogTypes
<1>8. RowsHaveAssets'
  <2>1. \A h \in Key \ assets : total'[h] = 0
    BY <1>1, <1>5, <1>4 DEF Accounts, RowsHaveAssets, CatalogTypes
  <2>2. \A t \in Place : row'[t] # NoContent => row[t] # NoContent
    BY <1>1 DEF CatalogTypes
  <2> QED BY <2>1, <2>2, <1>1 DEF Accounts, RowsHaveAssets
<1>9. AccountingExact'
  <2> PICK r, q : r = row /\ q = row'
    OBVIOUS
  <2>1. /\ SumFunctionOnSet(RowsOf(q, k), Segment)
              = SumFunctionOnSet(RowsOf(r, k), Segment) - Bytes(r[<<k, i>>]) + Bytes(NoContent)
        /\ \A h \in Key \ {k} :
              SumFunctionOnSet(RowsOf(q, h), Segment) = SumFunctionOnSet(RowsOf(r, h), Segment)
    <3>1. /\ r \in [Place -> Stored] /\ q \in [Place -> Stored]
          /\ \A t \in Place : q[t] = IF t = <<k, i>> THEN NoContent ELSE r[t]
          /\ k \in Key /\ i \in Segment /\ NoContent \in Stored
      BY <1>1, <1>2, <1>3 DEF CatalogTypes
    <3>2. SumFunctionOnSet(RowsOf(q, k), Segment)
            = SumFunctionOnSet(RowsOf(r, k), Segment) - Bytes(r[<<k, i>>]) + Bytes(NoContent)
      BY ONLY <3>1, RowChanged
    <3>3. ASSUME NEW h \in Key \ {k}
          PROVE  SumFunctionOnSet(RowsOf(q, h), Segment) = SumFunctionOnSet(RowsOf(r, h), Segment)
      <4>1. ASSUME NEW j \in Segment PROVE q[<<h, j>>] = r[<<h, j>>]
        BY <3>1 DEF Place
      <4> QED BY <4>1, <3>1, OtherRowsSame
    <3> QED BY <3>2, <3>3
  <2>2. ASSUME NEW h \in Key PROVE total'[h] = SumFunctionOnSet(RowsOf(q, h), Segment)
    <3>1. total[h] = SumFunctionOnSet(RowsOf(r, h), Segment) /\ total[k] = SumFunctionOnSet(RowsOf(r, k), Segment)
      BY AccountingRows DEF Accounts
    <3>2. CASE h = k
      BY <2>1, <3>1, <3>2, <1>1, <1>2, <1>4, <1>5 DEF CatalogTypes
    <3>3. CASE h # k
      BY <2>1, <3>1, <3>3, <1>1 DEF CatalogTypes
    <3> QED BY <3>2, <3>3
  <2> QED BY <2>2, AccountingRowsNext
<1>10. TotalBytes' <= TotalBytes /\ TotalBytes \in Nat /\ TotalBytes' \in Nat
  <2>1. IsFiniteSet(assets) /\ assets \in SUBSET Key /\ total \in [Key -> Nat]
    BY DEF Accounts, RowsHaveAssets, CatalogTypes
  <2> PICK a, b : a = SumFunctionOnSet(total', assets) /\ b = SumFunctionOnSet(total, assets)
    OBVIOUS
  <2>2. /\ a = IF k \in assets THEN b - total[k] + n ELSE b
        /\ a \in Nat /\ b \in Nat
    <3> PICK A, t, u : A = assets /\ t = total /\ u = total'
      OBVIOUS
    <3>1. /\ A \in SUBSET Key /\ IsFiniteSet(A) /\ t \in [Key -> Nat] /\ k \in Key /\ n \in Nat
          /\ \A h \in Key : u[h] = IF h = k THEN n ELSE t[h]
      BY <2>1, <1>1, <1>5
    <3>2. /\ SumFunctionOnSet(u, A)
               = IF k \in A THEN SumFunctionOnSet(t, A) - t[k] + n ELSE SumFunctionOnSet(t, A)
          /\ SumFunctionOnSet(u, A) \in Nat /\ SumFunctionOnSet(t, A) \in Nat
      BY ONLY <3>1, OneTotalChanged
    <3> QED BY <3>2
  <2>3. a <= b
    BY ONLY <2>2, <1>5, <1>4
  <2> QED BY <2>2, <2>3, <1>1 DEF TotalBytes
<1>11. CapRespected'
  <2>1. TotalBytes <= CacheMaxBytes
    BY DEF Accounts, CapRespected
  <2> QED BY <2>1, <1>10, BoundAssumption DEF CapRespected
<1>12. CompleteIsWhole'
  <2> SUFFICES ASSUME NEW m \in complete', NEW j \in WindowSegments(m[2])
               PROVE  row'[<<m[1], j>>] # NoContent
    BY DEF CompleteIsWhole
  <2>1. m \in complete /\ row[<<m[1], j>>] # NoContent /\ m \in Key \X Window
    BY <1>1 DEF Accounts, CompleteIsWhole, CatalogTypes
  <2>2. j \in Segment /\ WindowOf(j) = m[2] /\ <<m[1], j>> \in Place
    BY <2>1 DEF WindowSegments, Place
  <2>3. <<m[1], j>> # <<k, i>>
    <3> SUFFICES ASSUME m[1] = k, j = i PROVE FALSE
      OBVIOUS
    <3>1. m = <<k, WindowOf(i)>>
      BY <2>1, <2>2
    <3> QED BY <2>1, <3>1, <1>1
  <2> QED BY <2>1, <2>2, <2>3, <1>1 DEF CatalogTypes
<1> QED BY <1>7, <1>8, <1>9, <1>10, <1>11, <1>12 DEF Accounts

(* deleteAsset takes the rows and the bytes together.                      *)
LEMMA DeleteAssetInv ==
  ASSUME CatalogTypes, Accounts, NEW k \in Key, DeleteAsset(k)
  PROVE  CatalogTypes' /\ Accounts'
<1>1. /\ assets' = assets \ {k} /\ total' = [total EXCEPT ![k] = 0]
      /\ row' = [t \in Place |-> IF t[1] = k THEN NoContent ELSE row[t]]
      /\ complete' = {m \in complete : m[1] # k}
  BY DEF DeleteAsset
<1>2. CatalogTypes'
  BY <1>1 DEF CatalogTypes, Stored
<1>3. RowsHaveAssets'
  <2>1. IsFiniteSet(assets')
    BY <1>1, FS_RemoveElement DEF Accounts, RowsHaveAssets
  <2> QED BY <1>1, <2>1 DEF Accounts, RowsHaveAssets, CatalogTypes
<1>4. AccountingExact'
  <2> PICK q : q = row'
    OBVIOUS
  <2>1. q \in [Place -> Stored] /\ \A h \in Key, j \in Segment :
          q[<<h, j>>] = IF h = k THEN NoContent ELSE row[<<h, j>>]
    BY <1>1, <1>2 DEF CatalogTypes, Place
  <2>2. ASSUME NEW h \in Key PROVE total'[h] = SumFunctionOnSet(RowsOf(q, h), Segment)
    <3>1. total[h] = SumFunctionOnSet(RowsOf(row, h), Segment)
      BY AccountingRows DEF Accounts
    <3>2. CASE h # k
      <4> PICK r : r = row
        OBVIOUS
      <4>1. q \in [Place -> Stored] /\ r \in [Place -> Stored] /\ h \in Key
            /\ \A j \in Segment : q[<<h, j>>] = r[<<h, j>>]
        BY <2>1, <3>2 DEF CatalogTypes
      <4>2. SumFunctionOnSet(RowsOf(q, h), Segment) = SumFunctionOnSet(RowsOf(r, h), Segment)
        BY ONLY <4>1, OtherRowsSame
      <4> QED BY <4>2, <3>1, <3>2, <1>1 DEF CatalogTypes
    <3>3. CASE h = k
      <4> PICK f : f = RowsOf(q, h)
        OBVIOUS
      <4>1. ASSUME NEW j \in Segment PROVE f[j] = 0
        <5>1. q[<<h, j>>] = NoContent /\ f[j] = Bytes(q[<<h, j>>])
          BY <2>1, <3>3, RowsNat
        <5> QED BY <5>1 DEF Bytes
      <4>2. SumFunctionOnSet(f, Segment) = 0
        BY ONLY <4>1, Constants, SumZero
      <4> QED BY <4>2, <3>3, <1>1 DEF CatalogTypes
    <3> QED BY <3>2, <3>3
  <2> QED BY <2>2, AccountingRowsNext
<1>5. CapRespected'
  <2>1. IsFiniteSet(assets) /\ assets \in SUBSET Key /\ total \in [Key -> Nat]
    BY DEF Accounts, RowsHaveAssets, CatalogTypes
  <2> PICK A, t, u : A = assets /\ t = total /\ u = total'
    OBVIOUS
  <2>2. SumFunctionOnSet(t, A \ {k}) <= SumFunctionOnSet(t, A)
    BY <2>1, OneRemoved
  <2>3. /\ SumFunctionOnSet(u, A \ {k}) = SumFunctionOnSet(t, A \ {k})
        /\ SumFunctionOnSet(t, A \ {k}) \in Nat
    <3>1. IsFiniteSet(A \ {k}) /\ A \ {k} \in SUBSET Key /\ u = [t EXCEPT ![k] = 0]
      BY <1>1, <2>1, FS_RemoveElement
    <3> PICK B : B = A \ {k}
      OBVIOUS
    <3>2. B \in SUBSET Key /\ IsFiniteSet(B) /\ k \notin B
      BY <3>1
    <3>3. SumFunctionOnSet(u, B) = SumFunctionOnSet(t, B) /\ SumFunctionOnSet(t, B) \in Nat
      <4>1. /\ B \in SUBSET Key /\ IsFiniteSet(B) /\ t \in [Key -> Nat] /\ k \in Key /\ 0 \in Nat
            /\ \A h \in Key : u[h] = IF h = k THEN 0 ELSE t[h]
            /\ k \notin B
        BY <2>1, <3>1, <3>2
      <4> QED BY ONLY <4>1, OneTotalChanged
    <3> QED BY <3>3
  <2>4. SumFunctionOnSet(t, A) <= CacheMaxBytes /\ SumFunctionOnSet(t, A) \in Nat
    <3>1. \A h \in A : t[h] \in Nat
      BY <2>1
    <3> QED BY <2>1, <3>1, SumNat DEF Accounts, CapRespected, TotalBytes
  <2>5. SumFunctionOnSet(u, A \ {k}) <= CacheMaxBytes
    BY <2>2, <2>3, <2>4, BoundAssumption
  <2> QED BY <2>5, <1>1 DEF CapRespected, TotalBytes
<1>6. CompleteIsWhole'
  <2> SUFFICES ASSUME NEW m \in complete', NEW j \in WindowSegments(m[2])
               PROVE  row'[<<m[1], j>>] # NoContent
    BY DEF CompleteIsWhole
  <2>1. m \in complete /\ row[<<m[1], j>>] # NoContent /\ m[1] \in Key /\ m[1] # k
    BY <1>1 DEF Accounts, CompleteIsWhole, CatalogTypes
  <2>2. <<m[1], j>> \in Place
    BY <2>1 DEF WindowSegments, Place
  <2> QED BY <2>1, <2>2, <1>1
<1> QED BY <1>2, <1>3, <1>4, <1>5, <1>6 DEF Accounts

LEMMA CatalogKept ==
  ASSUME CatalogTypes, Accounts, UNCHANGED catalogVars
  PROVE  CatalogTypes' /\ Accounts' /\ TotalBytes' = TotalBytes
<1>1. UNCHANGED <<assets, total, row, complete>>
  BY DEF catalogVars
<1>2. AccountingExact'
  BY <1>1, AccountingRows, AccountingRowsNext DEF Accounts
<1>3. TotalBytes' = TotalBytes
  BY <1>1 DEF TotalBytes
<1> QED
  BY <1>1, <1>2, <1>3
  DEF CatalogTypes, Accounts, RowsHaveAssets, CapRespected, CompleteIsWhole

(* A mark may go at any time; it comes only with all the rows.              *)
LEMMA MarksInv ==
  ASSUME CatalogTypes, Accounts, UNCHANGED <<assets, total, row>>,
         complete' \subseteq Key \X Window,
         \A m \in complete' \ complete : \A i \in WindowSegments(m[2]) : row[<<m[1], i>>] # NoContent
  PROVE  CatalogTypes' /\ Accounts' /\ TotalBytes' = TotalBytes
<1>1. AccountingExact'
  BY AccountingRows, AccountingRowsNext DEF Accounts
<1>2. TotalBytes' = TotalBytes
  BY DEF TotalBytes
<1>3. CompleteIsWhole'
  <2> SUFFICES ASSUME NEW m \in complete', NEW i \in WindowSegments(m[2])
               PROVE  row[<<m[1], i>>] # NoContent
    BY DEF CompleteIsWhole
  <2>1. CASE m \in complete
    BY <2>1 DEF Accounts, CompleteIsWhole
  <2>2. CASE m \notin complete
    BY <2>2
  <2> QED BY <2>1, <2>2
<1> QED BY <1>1, <1>2, <1>3 DEF CatalogTypes, Accounts, RowsHaveAssets, CapRespected

(* A new session may insert its asset, which has no bytes yet.              *)
LEMMA AssetInsertedInv ==
  ASSUME CatalogTypes, Accounts, NEW k \in Key, assets' = assets \cup {k},
         UNCHANGED <<total, row, complete>>
  PROVE  CatalogTypes' /\ Accounts' /\ TotalBytes' = TotalBytes
<1>1. AccountingExact'
  BY AccountingRows, AccountingRowsNext DEF Accounts
<1>2. TotalBytes' = TotalBytes
  <2> PICK A, t : A = assets /\ t = total
    OBVIOUS
  <2>1. /\ A \in SUBSET Key /\ IsFiniteSet(A) /\ t \in [Key -> Nat] /\ k \in Key
        /\ t[k] = 0 \/ k \in A
    BY DEF CatalogTypes, Accounts, RowsHaveAssets
  <2>2. SumFunctionOnSet(t, A \cup {k}) = SumFunctionOnSet(t, A)
    BY ONLY <2>1, EmptyAdded
  <2> QED BY <2>2 DEF TotalBytes
<1>3. RowsHaveAssets'
  <2>1. IsFiniteSet(assets')
    BY FS_AddElement DEF Accounts, RowsHaveAssets
  <2> QED BY <2>1 DEF Accounts, RowsHaveAssets
<1> QED BY <1>1, <1>2, <1>3 DEF CatalogTypes, Accounts, CapRespected, CompleteIsWhole

-------------------------------------------------------------------------------
(* The pins.                                                               *)

LEMMA CountsNat ==
  ASSUME PinsCover, NEW k \in Key
  PROVE  /\ IsFiniteSet(Served(k)) /\ Cardinality(Served(k)) \in Nat
         /\ OfSession(k) \in {0, 1} /\ OfJob(k) \in {0, 1, 2}
         /\ pins[k] >= Cardinality(Served(k)) + OfSession(k) + OfJob(k)
  BY FS_CardinalityType DEF PinsCover, OfSession, OfJob

(* Nothing is held that was not held before.                               *)
LEMMA PinsKept ==
  ASSUME PinsCover, pins \in [Key -> Nat], UNCHANGED pins,
         \A k \in Key : Served(k)' = Served(k) /\ OfSession(k)' <= OfSession(k) /\ OfJob(k)' <= OfJob(k)
  PROVE  PinsCover'
<1> SUFFICES ASSUME NEW k \in Key
             PROVE  /\ IsFiniteSet(Served(k)')
                    /\ pins'[k] >= Cardinality(Served(k)') + OfSession(k)' + OfJob(k)'
  BY DEF PinsCover
<1> PICK a, b, c, d, e : a = Cardinality(Served(k)) /\ b = OfSession(k) /\ c = OfJob(k)
                        /\ d = OfSession(k)' /\ e = OfJob(k)'
  OBVIOUS
<1>1. a \in Nat /\ b \in {0, 1} /\ c \in {0, 1, 2} /\ pins[k] >= a + b + c /\ pins[k] \in Nat
  BY CountsNat
<1>2. d \in {0, 1} /\ e \in {0, 1, 2} /\ d <= b /\ e <= c
  BY DEF OfSession, OfJob
<1>3. pins[k] >= a + d + e
  BY ONLY <1>1, <1>2
<1>4. Served(k)' = Served(k) /\ IsFiniteSet(Served(k))
  BY CountsNat
<1> QED BY <1>3, <1>4

-------------------------------------------------------------------------------
(* The steps.                                                              *)

LEMMA IInvNext ==
  ASSUME CatalogTypes', Accounts', file' \in [Place -> Stored], pins' \in [Key -> Nat],
         live' \subseteq Key, enc' \in EncState, rd' \in [Reader -> RdState], boot' \in BootState,
         EncoderTypes', ReaderTypes', PinsCover', RoomKept', Reconciled'
  PROVE  IInv'
  BY TypesNext DEF IInv

LEMMA Facts ==
  ASSUME IInv
  PROVE  /\ CatalogTypes /\ Accounts /\ file \in [Place -> Stored] /\ pins \in [Key -> Nat]
         /\ live \subseteq Key /\ enc \in EncState /\ rd \in [Reader -> RdState] /\ boot \in BootState
         /\ EncoderTypes /\ ReaderTypes /\ PinsCover /\ RoomKept /\ Reconciled
  BY Types DEF IInv

(* Steps that only move the job: its pins are held or given up.            *)
LEMMA JobMovesInv ==
  ASSUME IInv, Up, enc' \in EncState, EncoderTypes', RoomKept', file' \in [Place -> Stored],
         UNCHANGED <<pins, live, rd, boot>>, CatalogTypes', Accounts',
         enc.pc = "idle" => enc'.pc = "idle", enc'.pc = "idle" \/ enc'.key = enc.key,
         enc'.pc \in InEncode => enc.pc \in InEncode
  PROVE  IInv'
<1>1. PinsCover'
  <2>1. ASSUME NEW k \in Key
        PROVE  /\ OfSession(k)' <= OfSession(k) /\ Served(k)' = Served(k)
               /\ OfJob(k)' <= OfJob(k)
    BY DEF OfSession, Served, OfJob
  <2> QED BY <2>1, PinsKept, Facts
<1>2. ReaderTypes' /\ Reconciled'
  BY Facts DEF ReaderTypes, Reconciled, Up
<1> QED BY <1>1, <1>2, Facts, IInvNext

(* Steps of the job within encode().                                       *)
LEMMA WithinEncodeInv ==
  ASSUME IInv, Up, enc.pc \in InEncode, enc' \in EncState, enc'.pc \in InEncode, enc'.key = enc.key,
         enc'.victim # NoKey => enc'.pc = "making room",
         enc'.pc \in InEncode \ {"directory", "encoding"} => enc'.content \in Encoded,
         RoomKept', file' \in [Place -> Stored],
         UNCHANGED <<pins, live, rd, boot>>, CatalogTypes', Accounts'
  PROVE  IInv'
<1>1. enc.key \in Key
  BY Facts DEF EncoderTypes, InEncode
<1>2. EncoderTypes'
  BY <1>1 DEF EncoderTypes
<1>3. enc.pc # "idle"
  BY DEF InEncode
<1> QED BY <1>2, <1>3, Facts, JobMovesInv

LEMMA DirectoryMadeInv == ASSUME IInv, DirectoryMade PROVE IInv'
<1>1. /\ Up /\ enc.pc = "directory" /\ enc.victim = NoKey /\ enc' = [enc EXCEPT !.pc = "encoding"]
      /\ UNCHANGED <<catalogVars, file, pins, live, rd, boot>>
  BY DEF DirectoryMade, At
<1>2. enc' \in EncState /\ enc'.pc = "encoding" /\ enc'.key = enc.key /\ enc'.victim = NoKey
  BY <1>1, Facts DEF EncState, InEncode
<1>3. enc.pc \in InEncode /\ enc'.pc \in InEncode /\ RoomKept'
  BY <1>1, <1>2 DEF InEncode, RoomKept
<1> QED BY <1>1, <1>2, <1>3, WithinEncodeInv, Facts, CatalogKept

LEMMA PromoteSegmentInv ==
  ASSUME IInv, NEW i \in Segment, NEW c \in Encoded, PromoteSegment(i, c) PROVE IInv'
<1>1. /\ Up /\ enc.pc = "encoding" /\ enc.victim = NoKey
      /\ enc' = [enc EXCEPT !.pc = "making room", !.segment = i, !.content = c]
      /\ UNCHANGED <<catalogVars, file, pins, live, rd, boot>>
  BY DEF PromoteSegment, At
<1>2. /\ enc' \in EncState /\ enc'.pc = "making room" /\ enc'.key = enc.key /\ enc'.victim = NoKey
      /\ enc'.content = c
  <2>1. c \in Stored
    BY ContentAssumption DEF Stored
  <2> QED BY <1>1, <2>1, Facts DEF EncState, InEncode
<1>3. enc.pc \in InEncode /\ enc'.pc \in InEncode /\ RoomKept'
  BY <1>1, <1>2 DEF InEncode, RoomKept
<1> QED BY <1>1, <1>2, <1>3, WithinEncodeInv, Facts, CatalogKept

LEMMA RoomFoundInv == ASSUME IInv, RoomFound PROVE IInv'
<1>1. /\ Up /\ enc.pc = "making room" /\ enc.victim = NoKey /\ enc' = [enc EXCEPT !.pc = "unlinking"]
      /\ TotalBytes + Bytes(enc.content) <= CacheMaxBytes
      /\ UNCHANGED <<catalogVars, file, pins, live, rd, boot>>
  BY DEF RoomFound, At
<1>2. /\ enc' \in EncState /\ enc'.pc = "unlinking" /\ enc'.key = enc.key /\ enc'.victim = NoKey
      /\ enc'.content = enc.content
  BY <1>1, Facts DEF EncState, InEncode
<1>3. enc.content \in Encoded /\ CatalogTypes' /\ Accounts' /\ TotalBytes' = TotalBytes
  BY <1>1, Facts, CatalogKept DEF EncoderTypes, InEncode
<1>4. enc.pc \in InEncode /\ enc'.pc \in InEncode
  BY <1>1, <1>2 DEF InEncode
<1>5. RoomKept'
  BY <1>1, <1>2, <1>3 DEF RoomKept, Bytes
<1> QED BY <1>1, <1>2, <1>3, <1>4, <1>5, WithinEncodeInv, Facts

LEMMA ChooseVictimInv == ASSUME IInv, NEW k \in Key, ChooseVictim(k) PROVE IInv'
<1>1. /\ Up /\ enc.pc \in {"making room", "first room"} /\ enc' = [enc EXCEPT !.victim = k]
      /\ UNCHANGED <<catalogVars, file, pins, live, rd, boot>>
  BY DEF ChooseVictim, At
<1>2. /\ enc' \in EncState /\ enc'.pc = enc.pc /\ enc'.key = enc.key /\ enc'.content = enc.content
  BY <1>1, Facts DEF EncState
<1>3. EncoderTypes' /\ RoomKept'
  BY <1>1, <1>2, Facts DEF EncoderTypes, RoomKept
<1> QED BY <1>1, <1>2, <1>3, JobMovesInv, Facts, CatalogKept

LEMMA EvictRowInv == ASSUME IInv, EvictRow PROVE IInv'
<1>1. /\ Up /\ enc.victim # NoKey /\ enc' = [enc EXCEPT !.victim = NoKey] /\ DeleteAsset(enc.victim)
      /\ UNCHANGED <<file, pins, live, rd, boot>>
  BY DEF EvictRow
<1>2. /\ enc' \in EncState /\ enc'.pc = enc.pc /\ enc'.key = enc.key /\ enc'.content = enc.content
      /\ enc.victim \in Key /\ enc'.victim = NoKey
  BY <1>1, Facts DEF EncState
<1>3. EncoderTypes' /\ RoomKept'
  BY <1>1, <1>2, Facts DEF EncoderTypes, RoomKept
<1>4. CatalogTypes' /\ Accounts'
  BY <1>1, <1>2, Facts, DeleteAssetInv
<1> QED BY <1>1, <1>2, <1>3, <1>4, JobMovesInv, Facts

(* The pins of one asset change, and with them what holds them.            *)
LEMMA PinsMoved ==
  ASSUME PinsCover, pins \in [Key -> Nat], NEW k \in Key, NEW n \in Nat,
         pins' = [pins EXCEPT ![k] = n],
         \A h \in Key \ {k} :
           Served(h)' = Served(h) /\ OfSession(h)' <= OfSession(h) /\ OfJob(h)' <= OfJob(h),
         IsFiniteSet(Served(k)'), n >= Cardinality(Served(k)') + OfSession(k)' + OfJob(k)'
  PROVE  PinsCover' /\ pins' \in [Key -> Nat]
<1>1. ASSUME NEW h \in Key
      PROVE  /\ IsFiniteSet(Served(h)')
             /\ pins'[h] >= Cardinality(Served(h)') + OfSession(h)' + OfJob(h)'
  <2>1. CASE h = k
    BY <2>1
  <2>2. CASE h # k
    <3> PICK a, b, c, d, e : a = Cardinality(Served(h)) /\ b = OfSession(h) /\ c = OfJob(h)
                            /\ d = OfSession(h)' /\ e = OfJob(h)'
      OBVIOUS
    <3>1. a \in Nat /\ b \in {0, 1} /\ c \in {0, 1, 2} /\ pins[h] >= a + b + c /\ pins[h] \in Nat
      BY CountsNat
    <3>2. d \in {0, 1} /\ e \in {0, 1, 2} /\ d <= b /\ e <= c
      BY <2>2 DEF OfSession, OfJob
    <3>3. pins[h] >= a + d + e
      BY ONLY <3>1, <3>2
    <3>4. Served(h)' = Served(h) /\ IsFiniteSet(Served(h)) /\ pins'[h] = pins[h]
      BY <2>2, CountsNat
    <3> QED BY <3>3, <3>4
  <2> QED BY <2>1, <2>2
<1> QED BY <1>1 DEF PinsCover

LEMMA Idle == /\ NoEncoder.pc = "idle" /\ NoEncoder.victim = NoKey /\ NoEncoder.pc \notin InEncode
              /\ NoReader.pc = "idle"
  BY DEF NoEncoder, InEncode, NoReader

(* The job takes a pin: at its start, or when it enters encode().           *)
LEMMA JobPinsInv ==
  ASSUME IInv, Up, NEW k \in Key, Pin(k), enc' \in EncState, enc.pc = "idle" \/ enc.key = k,
         enc'.key = k, enc.pc \notin InEncode, enc.pc = "idle" => enc'.pc \notin InEncode,
         EncoderTypes', RoomKept', CatalogTypes', Accounts', UNCHANGED <<file, live, rd, boot>>
  PROVE  IInv'
<1> PICK n : n = pins[k] + 1
  OBVIOUS
<1>1. n \in Nat /\ pins' = [pins EXCEPT ![k] = n] /\ pins[k] \in Nat
  BY Facts DEF Pin
<1>2. ASSUME NEW h \in Key \ {k}
      PROVE  Served(h)' = Served(h) /\ OfSession(h)' <= OfSession(h) /\ OfJob(h)' <= OfJob(h)
  <2>1. OfJob(h)' = 0 /\ OfJob(h) = 0
    BY DEF OfJob
  <2> QED BY <2>1 DEF Served, OfSession
<1> PICK a, b, c, d : /\ a = Cardinality(Served(k)) /\ b = OfSession(k) /\ c = OfJob(k)'
                     /\ d = OfJob(k)
  OBVIOUS
<1>3. a \in Nat /\ b \in {0, 1} /\ pins[k] >= a + b + d /\ IsFiniteSet(Served(k))
  BY Facts, CountsNat
<1>4. c \in {0, 1, 2} /\ d \in {0, 1} /\ c <= d + 1
  <2>1. CASE enc.pc = "idle"
    BY <2>1 DEF OfJob
  <2>2. CASE enc.pc # "idle"
    <3>1. d = 1
      BY <2>2 DEF OfJob
    <3>2. c \in {0, 1, 2}
      BY DEF OfJob
    <3> QED BY <3>1, <3>2
  <2> QED BY <2>1, <2>2
<1>5. n >= a + b + c
  BY ONLY <1>1, <1>3, <1>4, n = pins[k] + 1
<1>6. Served(k)' = Served(k) /\ OfSession(k)' = OfSession(k)
  BY DEF Served, OfSession
<1>7. IsFiniteSet(Served(k)') /\ n >= Cardinality(Served(k)') + OfSession(k)' + OfJob(k)'
  BY <1>3, <1>5, <1>6
<1>8. PinsCover' /\ pins' \in [Key -> Nat]
  BY <1>1, <1>2, <1>7, PinsMoved, Facts
<1>9. ReaderTypes' /\ Reconciled'
  BY Facts DEF ReaderTypes, Reconciled, Up
<1> QED BY <1>8, <1>9, Facts, IInvNext

(* The job gives up a pin: when it leaves encode(), or at its end.          *)
LEMMA JobUnpinsInv ==
  ASSUME IInv, Up, NEW k \in Key, Unpin(k), enc' \in EncState, enc.pc # "idle", enc.key = k,
         enc'.pc \notin InEncode, enc'.pc = "idle" \/ (enc'.key = k /\ enc.pc \in InEncode),
         EncoderTypes', RoomKept', CatalogTypes', Accounts', UNCHANGED <<file, live, rd, boot>>
  PROVE  IInv'
<1> PICK n : n = pins[k] - 1
  OBVIOUS
<1>1. pins' = [pins EXCEPT ![k] = n] /\ pins[k] \in Nat
  BY Facts DEF Unpin
<1>2. ASSUME NEW h \in Key \ {k}
      PROVE  Served(h)' = Served(h) /\ OfSession(h)' <= OfSession(h) /\ OfJob(h)' <= OfJob(h)
  <2>1. OfJob(h)' = 0 /\ OfJob(h) = 0
    BY DEF OfJob
  <2> QED BY <2>1 DEF Served, OfSession
<1> PICK a, b, c, d : /\ a = Cardinality(Served(k)) /\ b = OfSession(k) /\ c = OfJob(k)'
                     /\ d = OfJob(k)
  OBVIOUS
<1>3. a \in Nat /\ b \in {0, 1} /\ pins[k] >= a + b + d /\ IsFiniteSet(Served(k))
  BY Facts, CountsNat
<1>4. c \in {0, 1} /\ d \in {1, 2} /\ c <= d - 1
  <2>1. CASE enc'.pc = "idle"
    <3>1. c = 0
      BY <2>1 DEF OfJob
    <3>2. d \in {1, 2}
      BY DEF OfJob
    <3> QED BY <3>1, <3>2
  <2>2. CASE enc'.pc # "idle"
    BY <2>2 DEF OfJob
  <2> QED BY <2>1, <2>2
<1>5. n \in Nat /\ n >= a + b + c
  BY ONLY <1>1, <1>3, <1>4, n = pins[k] - 1
<1>6. Served(k)' = Served(k) /\ OfSession(k)' = OfSession(k)
  BY DEF Served, OfSession
<1>7. IsFiniteSet(Served(k)') /\ n >= Cardinality(Served(k)') + OfSession(k)' + OfJob(k)'
  BY <1>3, <1>5, <1>6
<1>8. PinsCover' /\ pins' \in [Key -> Nat]
  BY <1>1, <1>2, <1>5, <1>7, PinsMoved, Facts
<1>9. ReaderTypes' /\ Reconciled'
  BY Facts DEF ReaderTypes, Reconciled, Up
<1> QED BY <1>8, <1>9, Facts, IInvNext

LEMMA StartJobInv == ASSUME IInv, NEW k \in Key, NEW w \in Window, StartJob(k, w) PROVE IInv'
<1>1. /\ Up /\ enc.pc = "idle" /\ enc' = [NoEncoder EXCEPT !.pc = "first room", !.key = k, !.window = w]
      /\ Pin(k) /\ UNCHANGED catalogVars /\ UNCHANGED <<file, live, rd, boot>>
  BY DEF StartJob, At
<1>2. enc' \in EncState /\ enc'.pc = "first room" /\ enc'.key = k /\ enc'.victim = NoKey
  BY <1>1, Constants DEF EncState, NoEncoder
<1>3. EncoderTypes' /\ RoomKept' /\ enc'.pc \notin InEncode /\ enc.pc \notin InEncode
  BY <1>1, <1>2 DEF EncoderTypes, RoomKept, InEncode
<1>4. CatalogTypes' /\ Accounts'
  BY <1>1, CatalogKept, Facts
<1> QED BY <1>1, <1>2, <1>3, <1>4, JobPinsInv

LEMMA EnterEncodeInv == ASSUME IInv, EnterEncode PROVE IInv'
<1> PICK k : k = enc.key
  OBVIOUS
<1>1. /\ Up /\ enc.pc = "first room" /\ enc.victim = NoKey /\ Pin(k)
      /\ complete' = complete \ {<<k, enc.window>>}
      /\ enc' = [enc EXCEPT !.pc = IF k \in assets THEN "directory" ELSE "settling"]
      /\ UNCHANGED <<assets, total, row>> /\ UNCHANGED <<file, live, rd, boot>>
  BY DEF EnterEncode, At
<1>2. k \in Key
  BY <1>1, Facts DEF EncoderTypes
<1>3. CatalogTypes' /\ Accounts'
  <2>1. complete' \subseteq Key \X Window /\ complete' \subseteq complete
    BY <1>1, Facts DEF CatalogTypes
  <2> QED BY <2>1, <1>1, Facts, MarksInv
<1>4. /\ enc' \in EncState /\ enc'.pc \in {"directory", "settling"} /\ enc'.key = k
      /\ enc'.victim = NoKey
  BY <1>1, Facts DEF EncState, InEncode
<1>5. EncoderTypes' /\ RoomKept' /\ enc.pc \notin InEncode
  BY <1>1, <1>2, <1>4 DEF EncoderTypes, RoomKept, InEncode
<1> QED BY <1>1, <1>2, <1>3, <1>4, <1>5, JobPinsInv

(* encode() returns or throws, and its pin goes.                           *)
LEMMA LeavesEncodeInv ==
  ASSUME IInv, Up, enc.pc \in InEncode, enc.victim = NoKey, Unpin(enc.key),
         enc' = [enc EXCEPT !.pc = "settling"], complete' \subseteq Key \X Window,
         \A m \in complete' \ complete : \A i \in WindowSegments(m[2]) : row[<<m[1], i>>] # NoContent,
         UNCHANGED <<assets, total, row, file, live, rd, boot>>
  PROVE  IInv'
<1> PICK k : k = enc.key
  OBVIOUS
<1>1. k \in Key /\ Unpin(k) /\ enc.pc # "idle"
  BY Facts DEF EncoderTypes, InEncode
<1>2. enc' \in EncState /\ enc'.pc = "settling" /\ enc'.key = k /\ enc'.victim = NoKey
  BY Facts DEF EncState
<1>3. EncoderTypes' /\ RoomKept' /\ enc'.pc \notin InEncode
  BY <1>1, <1>2 DEF EncoderTypes, RoomKept, InEncode
<1>4. CatalogTypes' /\ Accounts'
  BY Facts, MarksInv
<1> QED BY <1>1, <1>2, <1>3, <1>4, JobUnpinsInv

LEMMA JobEndsInv == ASSUME IInv, JobEnds PROVE IInv'
<1> PICK k : k = enc.key
  OBVIOUS
<1>1. /\ Up /\ enc.pc \in {"settling", "first room"} /\ Unpin(k) /\ enc' = NoEncoder
      /\ UNCHANGED catalogVars /\ UNCHANGED <<file, live, rd, boot>>
  BY DEF JobEnds, At
<1>2. k \in Key /\ enc' \in EncState /\ enc'.pc = "idle"
  BY <1>1, Facts, Idle, Constants DEF EncoderTypes
<1>3. EncoderTypes' /\ RoomKept' /\ enc'.pc \notin InEncode
  BY <1>1, Idle DEF EncoderTypes, RoomKept, InEncode
<1>4. CatalogTypes' /\ Accounts'
  BY <1>1, CatalogKept, Facts
<1> QED BY <1>1, <1>2, <1>3, <1>4, JobUnpinsInv

(* The pin of encode() stays when its directory cannot be made.             *)
LEMMA DirectoryFailsInv == ASSUME IInv, DirectoryFails PROVE IInv'
<1>1. /\ Up /\ enc.pc = "directory" /\ enc.victim = NoKey /\ enc' = [enc EXCEPT !.pc = "settling"]
      /\ UNCHANGED <<catalogVars, file, pins, live, rd, boot>>
  BY DEF DirectoryFails, At
<1>2. /\ enc' \in EncState /\ enc'.pc = "settling" /\ enc'.key = enc.key /\ enc'.victim = NoKey
      /\ enc.key \in Key
  BY <1>1, Facts DEF EncState, EncoderTypes
<1>3. EncoderTypes' /\ RoomKept' /\ enc'.pc \notin InEncode
  BY <1>2 DEF EncoderTypes, RoomKept, InEncode
<1> QED BY <1>1, <1>2, <1>3, JobMovesInv, Facts, CatalogKept

LEMMA EncodeCompletesInv == ASSUME IInv, EncodeCompletes PROVE IInv'
<1>1. /\ Up /\ enc.pc = "encoding" /\ Unpin(enc.key) /\ enc' = [enc EXCEPT !.pc = "settling"]
      /\ enc.victim = NoKey /\ complete' = complete \cup {<<enc.key, enc.window>>}
      /\ \A i \in WindowSegments(enc.window) : row[<<enc.key, i>>] # NoContent
      /\ UNCHANGED <<assets, total, row, file, live, rd, boot>>
  BY DEF EncodeCompletes, At
<1>2. enc.pc \in InEncode /\ enc.key \in Key /\ enc.window \in Window
  BY <1>1, Facts DEF InEncode, EncoderTypes, EncState
<1>3. complete' \subseteq Key \X Window
  BY <1>1, <1>2, Facts DEF CatalogTypes
<1>4. \A m \in complete' \ complete : \A i \in WindowSegments(m[2]) : row[<<m[1], i>>] # NoContent
  <2> SUFFICES ASSUME NEW m \in complete' \ complete, NEW i \in WindowSegments(m[2])
               PROVE  row[<<m[1], i>>] # NoContent
    OBVIOUS
  <2>1. m = <<enc.key, enc.window>>
    BY <1>1
  <2>2. m[1] = enc.key /\ m[2] = enc.window
    BY <2>1
  <2> QED BY <2>2, <1>1
<1> QED BY <1>1, <1>2, <1>3, <1>4, LeavesEncodeInv

LEMMA EncodeFailsInv == ASSUME IInv, EncodeFails PROVE IInv'
<1>1. /\ Up /\ enc.pc \in InEncode /\ Unpin(enc.key) /\ enc' = [enc EXCEPT !.pc = "settling"]
      /\ enc.victim = NoKey /\ complete' = complete \ {<<enc.key, enc.window>>}
      /\ UNCHANGED <<assets, total, row, file, live, rd, boot>>
  BY DEF EncodeFails, At
<1>2. complete' \subseteq Key \X Window /\ complete' \subseteq complete
  BY <1>1, Facts DEF CatalogTypes
<1> QED BY <1>1, <1>2, LeavesEncodeInv

(* Only a file changes, while the server runs.                             *)
LEMMA FileMovesInv ==
  ASSUME IInv, Up, file' \in [Place -> Stored], UNCHANGED <<catalogVars, memoryVars, boot>>
  PROVE  IInv'
<1>1. UNCHANGED <<pins, live, enc, rd, boot>> /\ UNCHANGED catalogVars
  BY DEF memoryVars
<1>2. CatalogTypes' /\ Accounts' /\ TotalBytes' = TotalBytes
  BY <1>1, Facts, CatalogKept
<1>3. EncoderTypes' /\ RoomKept'
  BY <1>1, <1>2, Facts DEF EncoderTypes, RoomKept, Bytes
<1> QED BY <1>1, <1>2, <1>3, JobMovesInv, Facts

LEMMA UnlinkedType ==
  ASSUME file \in [Place -> Stored], NEW t, Unlinked(t)
  PROVE  file' \in [Place -> Stored]
  BY DEF Unlinked, Stored

LEMMA EvictFileInv == ASSUME IInv, NEW t \in Place, EvictFile(t) PROVE IInv'
<1>1. Up /\ Unlinked(t) /\ UNCHANGED <<catalogVars, memoryVars, boot>>
  BY DEF EvictFile
<1> QED BY <1>1, UnlinkedType, FileMovesInv, Facts

LEMMA DamageInv ==
  ASSUME IInv, NEW t \in Place, NEW c \in Content \ Encoded, Damage(t, c) PROVE IInv'
<1>1. Up /\ file' = [file EXCEPT ![t] = c] /\ UNCHANGED <<catalogVars, memoryVars, boot>>
  BY DEF Damage
<1>2. file' \in [Place -> Stored]
  BY <1>1, Facts DEF Stored
<1> QED BY <1>1, <1>2, FileMovesInv

LEMMA RemoveOldInv == ASSUME IInv, RemoveOld PROVE IInv'
<1>1. /\ Up /\ enc.pc = "unlinking" /\ enc.victim = NoKey /\ Unlinked(<<enc.key, enc.segment>>)
      /\ enc' = [enc EXCEPT !.pc = "renaming"]
      /\ UNCHANGED <<catalogVars, pins, live, rd, boot>>
  BY DEF RemoveOld, At
<1>2. /\ enc' \in EncState /\ enc'.pc = "renaming" /\ enc'.key = enc.key /\ enc'.victim = NoKey
      /\ enc'.content = enc.content
  BY <1>1, Facts DEF EncState, InEncode
<1>3. file' \in [Place -> Stored]
  BY <1>1, Facts, UnlinkedType
<1>4. enc.content \in Encoded /\ CatalogTypes' /\ Accounts' /\ TotalBytes' = TotalBytes
  BY <1>1, Facts, CatalogKept DEF EncoderTypes, InEncode
<1>5. enc.pc \in InEncode /\ enc'.pc \in InEncode
  BY <1>1, <1>2 DEF InEncode
<1>6. RoomKept'
  BY <1>1, <1>2, <1>4, Facts DEF RoomKept, Bytes
<1> QED BY <1>1, <1>2, <1>3, <1>4, <1>5, <1>6, WithinEncodeInv

LEMMA RenameStagedInv == ASSUME IInv, RenameStaged PROVE IInv'
<1>1. /\ Up /\ enc.pc = "renaming" /\ enc.victim = NoKey
      /\ file' = [file EXCEPT ![<<enc.key, enc.segment>>] = enc.content]
      /\ enc' = [enc EXCEPT !.pc = "recording"]
      /\ UNCHANGED <<catalogVars, pins, live, rd, boot>>
  BY DEF RenameStaged, At
<1>2. /\ enc' \in EncState /\ enc'.pc = "recording" /\ enc'.key = enc.key /\ enc'.victim = NoKey
      /\ enc'.content = enc.content /\ enc.content \in Stored
  BY <1>1, Facts DEF EncState, InEncode
<1>3. file' \in [Place -> Stored]
  BY <1>1, <1>2, Facts
<1>4. enc.content \in Encoded /\ CatalogTypes' /\ Accounts' /\ TotalBytes' = TotalBytes
  BY <1>1, Facts, CatalogKept DEF EncoderTypes, InEncode
<1>5. enc.pc \in InEncode /\ enc'.pc \in InEncode
  BY <1>1, <1>2 DEF InEncode
<1>6. RoomKept'
  BY <1>1, <1>2, <1>4, Facts DEF RoomKept, Bytes
<1> QED BY <1>1, <1>2, <1>3, <1>4, <1>5, <1>6, WithinEncodeInv

LEMMA RecordPromotedInv == ASSUME IInv, RecordPromoted PROVE IInv'
<1> PICK k, i, c : k = enc.key /\ i = enc.segment /\ c = enc.content
  OBVIOUS
<1>1. /\ Up /\ enc.pc = "recording" /\ enc.victim = NoKey /\ k \in assets
      /\ RecordSegment(<<k, i>>, c)
      /\ enc' = [enc EXCEPT !.pc = "encoding", !.done = @ \cup {i}]
      /\ UNCHANGED <<file, pins, live, rd, boot>>
  BY DEF RecordPromoted, At
<1>2. k \in Key /\ i \in Segment /\ c \in Encoded
  BY <1>1, Facts DEF EncoderTypes, InEncode, EncState
<1>3. TotalBytes + Bytes(c) <= CacheMaxBytes
  BY <1>1, Facts DEF RoomKept
<1>4. CatalogTypes' /\ Accounts'
  BY <1>1, <1>2, <1>3, Facts, RecordSegmentInv
<1>5. /\ enc' \in EncState /\ enc'.pc = "encoding" /\ enc'.key = enc.key /\ enc'.victim = NoKey
  BY <1>1, <1>2, Facts DEF EncState, InEncode
<1>6. enc.pc \in InEncode /\ enc'.pc \in InEncode /\ RoomKept'
  BY <1>1, <1>5 DEF InEncode, RoomKept
<1> QED BY <1>1, <1>4, <1>5, <1>6, Facts, WithinEncodeInv

LEMMA OpenSessionInv == ASSUME IInv, NEW k \in Key, OpenSession(k) PROVE IInv'
<1> PICK n : n = pins[k] + 1
  OBVIOUS
<1>1. /\ Up /\ k \notin live /\ live' = live \cup {k} /\ pins' = [pins EXCEPT ![k] = n]
      /\ assets' = assets \cup {k} /\ UNCHANGED <<total, row, complete, file, enc, rd, boot>>
  BY DEF OpenSession, Pin
<1>2. CatalogTypes' /\ Accounts' /\ TotalBytes' = TotalBytes
  BY <1>1, Facts, AssetInsertedInv
<1>3. pins[k] \in Nat /\ n \in Nat
  BY Facts
<1> PICK a, b, c : a = Cardinality(Served(k)) /\ b = OfSession(k)' /\ c = OfJob(k)
  OBVIOUS
<1>4. /\ a \in Nat /\ b \in {0, 1} /\ c \in {0, 1, 2} /\ pins[k] >= a + c
      /\ IsFiniteSet(Served(k))
  <2>1. OfSession(k) = 0 /\ b \in {0, 1}
    BY <1>1 DEF OfSession
  <2>2. /\ a \in Nat /\ OfSession(k) \in {0, 1} /\ c \in {0, 1, 2} /\ IsFiniteSet(Served(k))
        /\ pins[k] >= a + OfSession(k) + c
    BY Facts, CountsNat
  <2> QED BY <2>1, <2>2
<1>5. n >= a + b + c
  BY ONLY <1>4, <1>3, n = pins[k] + 1
<1>6. ASSUME NEW h \in Key \ {k}
      PROVE  Served(h)' = Served(h) /\ OfSession(h)' <= OfSession(h) /\ OfJob(h)' <= OfJob(h)
  BY <1>1 DEF Served, OfSession, OfJob
<1>7. Served(k)' = Served(k) /\ OfJob(k)' = OfJob(k)
  BY <1>1 DEF Served, OfJob
<1>8. IsFiniteSet(Served(k)') /\ n >= Cardinality(Served(k)') + OfSession(k)' + OfJob(k)'
  BY <1>4, <1>5, <1>7
<1>9. PinsCover' /\ pins' \in [Key -> Nat]
  BY <1>1, <1>3, <1>6, <1>8, PinsMoved, Facts
<1>10. EncoderTypes' /\ RoomKept' /\ ReaderTypes' /\ Reconciled'
  BY <1>1, <1>2, Facts DEF EncoderTypes, RoomKept, ReaderTypes, Reconciled, Up, Bytes
<1>11. live' \subseteq Key
  BY <1>1, Facts
<1> QED BY <1>1, <1>2, <1>9, <1>10, <1>11, Facts, IInvNext

LEMMA EndSessionInv == ASSUME IInv, NEW k \in Key, EndSession(k) PROVE IInv'
<1> PICK n : n = pins[k] - 1
  OBVIOUS
<1>1. /\ Up /\ k \in live /\ live' = live \ {k} /\ pins' = [pins EXCEPT ![k] = n]
      /\ UNCHANGED catalogVars /\ UNCHANGED <<file, enc, rd, boot>>
  BY DEF EndSession, Unpin
<1>2. CatalogTypes' /\ Accounts' /\ TotalBytes' = TotalBytes
  BY <1>1, Facts, CatalogKept
<1>3. pins[k] \in Nat
  BY Facts
<1> PICK a, c : a = Cardinality(Served(k)) /\ c = OfJob(k)
  OBVIOUS
<1>4. /\ a \in Nat /\ c \in {0, 1, 2} /\ pins[k] >= a + 1 + c
      /\ IsFiniteSet(Served(k))
  <2>1. OfSession(k) = 1
    BY <1>1 DEF OfSession
  <2>2. /\ a \in Nat /\ c \in {0, 1, 2} /\ IsFiniteSet(Served(k))
        /\ pins[k] >= a + OfSession(k) + c
    BY Facts, CountsNat
  <2> QED BY <2>1, <2>2
<1>5. n \in Nat /\ n >= a + 0 + c
  BY ONLY <1>4, <1>3, n = pins[k] - 1
<1>6. ASSUME NEW h \in Key \ {k}
      PROVE  Served(h)' = Served(h) /\ OfSession(h)' <= OfSession(h) /\ OfJob(h)' <= OfJob(h)
  BY <1>1 DEF Served, OfSession, OfJob
<1>7. Served(k)' = Served(k) /\ OfJob(k)' = OfJob(k) /\ OfSession(k)' = 0
  BY <1>1 DEF Served, OfJob, OfSession
<1>8. IsFiniteSet(Served(k)') /\ n >= Cardinality(Served(k)') + OfSession(k)' + OfJob(k)'
  BY <1>4, <1>5, <1>7
<1>9. PinsCover' /\ pins' \in [Key -> Nat]
  BY <1>1, <1>5, <1>6, <1>8, PinsMoved, Facts
<1>10. EncoderTypes' /\ RoomKept' /\ ReaderTypes' /\ Reconciled'
  BY <1>1, <1>2, Facts DEF EncoderTypes, RoomKept, ReaderTypes, Reconciled, Up, Bytes
<1>11. live' \subseteq Key
  BY <1>1, Facts
<1> QED BY <1>1, <1>2, <1>9, <1>10, <1>11, Facts, IInvNext

(* A reader moves: who serves an asset.                                    *)
Serves(s, k) == s.pc \in {"opening", "streaming"} /\ s.at[1] = k

LEMMA ServedAfter ==
  ASSUME rd \in [Reader -> RdState], NEW r \in Reader, NEW s, rd' = [rd EXCEPT ![r] = s], NEW k
  PROVE  /\ (Serves(s, k) <=> Serves(rd[r], k)) => Served(k)' = Served(k)
         /\ Serves(s, k) /\ ~Serves(rd[r], k) => Served(k)' = Served(k) \cup {r} /\ r \notin Served(k)
         /\ ~Serves(s, k) /\ Serves(rd[r], k) => Served(k)' = Served(k) \ {r} /\ r \in Served(k)
<1>1. \A q \in Reader : rd'[q] = IF q = r THEN s ELSE rd[q]
  OBVIOUS
<1>2. Served(k)' = {q \in Reader : Serves(rd'[q], k)} /\ Served(k) = {q \in Reader : Serves(rd[q], k)}
  BY DEF Served, Serves
<1> QED BY <1>1, <1>2

LEMMA ReaderUp == ASSUME IInv, NEW r \in Reader, rd[r].pc # "idle" PROVE Up /\ rd[r].at \in Place
<1>1. Up
  <2> SUFFICES ASSUME ~Up PROVE FALSE
    OBVIOUS
  <2>1. rd[r] = NoReader
    BY Facts DEF Reconciled
  <2> QED BY <2>1, Idle
<1> QED BY <1>1, Facts DEF ReaderTypes

LEMMA ReaderMovesInv ==
  ASSUME IInv, Up, NEW r \in Reader, NEW s \in RdState, rd' = [rd EXCEPT ![r] = s],
         s.pc # "idle" => s.at \in Place, file' \in [Place -> Stored],
         pins' \in [Key -> Nat], PinsCover', CatalogTypes', Accounts', RoomKept',
         UNCHANGED <<live, enc, boot>>
  PROVE  IInv'
<1>1. rd' \in [Reader -> RdState] /\ EncoderTypes'
  BY Facts DEF EncoderTypes
<1>2. ReaderTypes'
  BY Facts DEF ReaderTypes
<1>3. Reconciled'
  BY Facts DEF Reconciled, Up
<1> QED BY <1>1, <1>2, <1>3, Facts, IInvNext

(* A reader that serves the same asset as before, or none.                 *)
LEMMA SameServiceInv ==
  ASSUME IInv, Up, NEW r \in Reader, NEW s \in RdState, rd' = [rd EXCEPT ![r] = s],
         s.pc # "idle" => s.at \in Place, file' \in [Place -> Stored],
         \A k \in Key : Serves(s, k) <=> Serves(rd[r], k),
         CatalogTypes', Accounts', RoomKept',
         UNCHANGED <<pins, live, enc, boot>>
  PROVE  IInv'
<1>1. ASSUME NEW k \in Key
      PROVE  Served(k)' = Served(k) /\ OfSession(k)' <= OfSession(k) /\ OfJob(k)' <= OfJob(k)
  <2>1. Served(k)' = Served(k)
    BY ServedAfter, Facts
  <2> QED BY <2>1 DEF OfSession, OfJob
<1>2. PinsCover' /\ pins' \in [Key -> Nat]
  BY <1>1, PinsKept, Facts
<1> QED BY <1>2, ReaderMovesInv

LEMMA RoomStays ==
  ASSUME IInv, UNCHANGED enc, UNCHANGED catalogVars PROVE CatalogTypes' /\ Accounts' /\ RoomKept'
<1>1. CatalogTypes' /\ Accounts' /\ TotalBytes' = TotalBytes
  BY Facts, CatalogKept
<1> QED BY <1>1, Facts DEF RoomKept, Bytes

LEMMA LookingTypes ==
  ASSUME IInv, NEW t \in Place, NEW again \in BOOLEAN, NEW s \in {Looking(t, again), Missing(t)}
  PROVE  s \in RdState /\ s.at = t /\ \A k : ~Serves(s, k)
<1>1. row[t] \in Stored /\ NoContent \in Stored
  BY Facts DEF CatalogTypes, Stored
<1>2. t \in (Key \cup {NoKey}) \X Segment
  BY DEF Place
<1>3. s \in RdState /\ s.at = t /\ s.pc \in {"validating", "missed"}
  <2>1. CASE s = Looking(t, again)
    BY <1>1, <1>2, <2>1 DEF RdState, Looking
  <2>2. CASE s = Missing(t)
    BY <1>2, <2>2, Constants DEF NoReader, RdState, Missing
  <2> QED BY <2>1, <2>2
<1> QED BY <1>3 DEF Serves

LEMMA LoadSegmentInv ==
  ASSUME IInv, NEW r \in Reader, NEW t \in Place, NEW again \in BOOLEAN, LoadSegment(r, t, again)
  PROVE  IInv'
<1> PICK s : s = IF row[t] # NoContent THEN Looking(t, again) ELSE Missing(t)
  OBVIOUS
<1>1. /\ Up /\ rd[r].pc = "idle" /\ rd' = [rd EXCEPT ![r] = s]
      /\ UNCHANGED catalogVars /\ UNCHANGED <<file, pins, live, enc, boot>>
  BY DEF LoadSegment
<1>2. s \in RdState /\ s.at = t /\ \A k : ~Serves(s, k)
  BY LookingTypes
<1>3. \A k \in Key : Serves(s, k) <=> Serves(rd[r], k)
  BY <1>1, <1>2 DEF Serves
<1> QED BY <1>1, <1>2, <1>3, RoomStays, SameServiceInv, Facts

LEMMA LookAgainInv == ASSUME IInv, NEW r \in Reader, LookAgain(r) PROVE IInv'
<1> PICK t, s : t = rd[r].at /\ s = IF row[t] # NoContent THEN Looking(t, FALSE) ELSE NoReader
  OBVIOUS
<1>1. /\ rd[r].pc = "missed" /\ rd' = [rd EXCEPT ![r] = s]
      /\ UNCHANGED catalogVars /\ UNCHANGED <<file, pins, live, enc, boot>>
  BY DEF LookAgain
<1>2. Up /\ t \in Place
  BY <1>1, ReaderUp
<1>3. s \in RdState /\ (s.pc # "idle" => s.at = t) /\ \A k : ~Serves(s, k)
  <2>1. CASE s = NoReader
    BY <2>1, Idle, Constants DEF Serves
  <2>2. CASE s = Looking(t, FALSE)
    BY <1>2, <2>2, LookingTypes
  <2> QED BY <2>1, <2>2
<1>4. \A k \in Key : Serves(s, k) <=> Serves(rd[r], k)
  BY <1>1, <1>3 DEF Serves
<1> QED BY <1>1, <1>2, <1>3, <1>4, RoomStays, SameServiceInv, Facts

LEMMA ValidateInv == ASSUME IInv, NEW r \in Reader, Validate(r) PROVE IInv'
<1> PICK s : s = [rd[r] EXCEPT !.pc = IF file[rd[r].at] = rd[r].row THEN "returned" ELSE "removing"]
  OBVIOUS
<1>1. /\ rd[r].pc = "validating" /\ rd' = [rd EXCEPT ![r] = s]
      /\ UNCHANGED catalogVars /\ UNCHANGED <<file, pins, live, enc, boot>>
  BY DEF Validate
<1>2. Up /\ rd[r].at \in Place /\ rd[r] \in RdState
  BY <1>1, ReaderUp, Facts
<1>3. s \in RdState /\ s.pc \in {"returned", "removing"} /\ s.at = rd[r].at
  BY <1>2 DEF RdState
<1>4. \A k \in Key : Serves(s, k) <=> Serves(rd[r], k)
  BY <1>1, <1>3 DEF Serves
<1> QED BY <1>1, <1>2, <1>3, <1>4, RoomStays, SameServiceInv, Facts

LEMMA RemoveInvalidInv == ASSUME IInv, NEW r \in Reader, RemoveInvalid(r) PROVE IInv'
<1> PICK s : s = [rd[r] EXCEPT !.pc = "forgetting"]
  OBVIOUS
<1>1. /\ rd[r].pc = "removing" /\ rd' = [rd EXCEPT ![r] = s] /\ Unlinked(rd[r].at)
      /\ UNCHANGED catalogVars /\ UNCHANGED <<pins, live, enc, boot>>
  BY DEF RemoveInvalid
<1>2. Up /\ rd[r].at \in Place /\ rd[r] \in RdState
  BY <1>1, ReaderUp, Facts
<1>3. s \in RdState /\ s.pc = "forgetting" /\ s.at = rd[r].at
  BY <1>2 DEF RdState
<1>4. \A k \in Key : Serves(s, k) <=> Serves(rd[r], k)
  BY <1>1, <1>3 DEF Serves
<1>5. file' \in [Place -> Stored]
  BY <1>1, UnlinkedType, Facts
<1> QED BY <1>1, <1>2, <1>3, <1>4, <1>5, RoomStays, SameServiceInv

(* The total only shrinks, so the room that was found is still there.      *)
LEMMA ForgetInvalidInv == ASSUME IInv, NEW r \in Reader, ForgetInvalid(r) PROVE IInv'
<1> PICK t, s : t = rd[r].at /\ s = IF rd[r].again THEN Missing(t) ELSE NoReader
  OBVIOUS
<1>1. /\ rd[r].pc = "forgetting" /\ rd' = [rd EXCEPT ![r] = s] /\ DeleteSegment(rd[r].at)
      /\ UNCHANGED <<file, pins, live, enc, boot>>
  BY DEF ForgetInvalid
<1>2. Up /\ rd[r].at \in Place
  BY <1>1, ReaderUp
<1> PICK k, i : k \in Key /\ i \in Segment /\ rd[r].at = <<k, i>>
  BY <1>2 DEF Place
<1>3. /\ CatalogTypes' /\ Accounts'
      /\ TotalBytes' <= TotalBytes /\ TotalBytes \in Nat /\ TotalBytes' \in Nat
  BY <1>1, Facts, DeleteSegmentInv
<1>4. RoomKept'
  <2> SUFFICES ASSUME enc'.pc \in {"unlinking", "renaming", "recording"}
               PROVE  TotalBytes' + Bytes(enc.content) <= CacheMaxBytes
    BY <1>1 DEF RoomKept, Bytes
  <2>1. TotalBytes + Bytes(enc.content) <= CacheMaxBytes /\ enc.content \in Stored
    BY <1>1, Facts DEF RoomKept, EncState
  <2>2. Bytes(enc.content) \in Nat
    BY <2>1, BytesNat
  <2> PICK a, b, d : a = TotalBytes' /\ b = TotalBytes /\ d = Bytes(enc.content)
    OBVIOUS
  <2>3. a + d <= CacheMaxBytes
    BY ONLY <1>3, <2>1, <2>2, BoundAssumption, a = TotalBytes', b = TotalBytes, d = Bytes(enc.content)
  <2> QED BY <2>3
<1>5. /\ s \in RdState /\ (s.pc # "idle" => s.at = t) /\ (\A h : ~Serves(s, h))
      /\ file' \in [Place -> Stored]
  <2>1. CASE s = NoReader
    BY <1>1, <2>1, Idle, Constants, Facts DEF Serves
  <2>2. CASE s = Missing(t)
    BY <1>1, <1>2, <2>2, LookingTypes, Facts
  <2> QED BY <2>1, <2>2
<1>6. \A h \in Key : Serves(s, h) <=> Serves(rd[r], h)
  BY <1>1, <1>5 DEF Serves
<1> QED BY <1>1, <1>2, <1>3, <1>4, <1>5, <1>6, SameServiceInv

LEMMA OpenStreamInv == ASSUME IInv, NEW r \in Reader, OpenStream(r) PROVE IInv'
<1> PICK s : s = [rd[r] EXCEPT !.pc = "streaming", !.open = file[rd[r].at]]
  OBVIOUS
<1>1. /\ rd[r].pc = "opening" /\ UNCHANGED catalogVars
      /\ UNCHANGED <<file, pins, live, enc, boot>>
  BY DEF OpenStream
<1>2. Up /\ rd[r].at \in Place /\ rd[r] \in RdState /\ file[rd[r].at] \in Stored
  BY <1>1, ReaderUp, Facts
<1>3. rd' = [rd EXCEPT ![r] = s]
  BY Facts DEF OpenStream
<1>4. s \in RdState /\ s.pc = "streaming" /\ s.at = rd[r].at
  BY <1>2 DEF RdState
<1>5. \A k \in Key : Serves(s, k) <=> Serves(rd[r], k)
  BY <1>1, <1>4 DEF Serves
<1> QED BY <1>1, <1>2, <1>3, <1>4, <1>5, RoomStays, SameServiceInv, Facts

LEMMA PinServedInv == ASSUME IInv, NEW r \in Reader, PinServed(r) PROVE IInv'
<1> PICK s, k, n : s = [rd[r] EXCEPT !.pc = "opening"] /\ k = rd[r].at[1] /\ n = pins[k] + 1
  OBVIOUS
<1>1. /\ rd[r].pc = "returned" /\ rd' = [rd EXCEPT ![r] = s] /\ pins' = [pins EXCEPT ![k] = n]
      /\ UNCHANGED catalogVars /\ UNCHANGED <<file, live, enc, boot>>
  BY DEF PinServed, Pin
<1>2. Up /\ rd[r].at \in Place /\ rd[r] \in RdState
  BY <1>1, ReaderUp, Facts
<1>3. s \in RdState /\ s.pc = "opening" /\ s.at = rd[r].at
  BY <1>2 DEF RdState
<1>4. k \in Key /\ pins[k] \in Nat /\ n \in Nat
  BY <1>2, Facts DEF Place
<1>5. Serves(s, k) /\ \A h : ~Serves(rd[r], h) /\ (h # k => ~Serves(s, h))
  BY <1>1, <1>3 DEF Serves
<1>6. Served(k)' = Served(k) \cup {r} /\ r \notin Served(k)
  BY <1>1, <1>5, ServedAfter, Facts
<1>7. ASSUME NEW h \in Key \ {k}
      PROVE  Served(h)' = Served(h) /\ OfSession(h)' <= OfSession(h) /\ OfJob(h)' <= OfJob(h)
  <2>1. Served(h)' = Served(h)
    BY <1>1, <1>5, ServedAfter, Facts
  <2> QED BY <1>1, <2>1 DEF OfSession, OfJob
<1>8. IsFiniteSet(Served(k)') /\ Cardinality(Served(k)') = Cardinality(Served(k)) + 1
  <2> PICK S, T : S = Served(k) /\ T = Served(k)'
    OBVIOUS
  <2>1. IsFiniteSet(S) /\ T = S \cup {r} /\ r \notin S /\ Cardinality(S) \in Nat
    BY <1>4, <1>6, Facts, CountsNat
  <2>2. IsFiniteSet(T) /\ Cardinality(T) = Cardinality(S) + 1
    BY ONLY <2>1, FS_AddElement
  <2> QED BY <2>2
<1>9. OfSession(k)' = OfSession(k) /\ OfJob(k)' = OfJob(k)
  BY <1>1 DEF OfSession, OfJob
<1>10. n >= Cardinality(Served(k)') + OfSession(k)' + OfJob(k)'
  <2> PICK a, b, c : a = Cardinality(Served(k)) /\ b = OfSession(k) /\ c = OfJob(k)
    OBVIOUS
  <2>1. a \in Nat /\ b \in {0, 1} /\ c \in {0, 1, 2} /\ pins[k] >= a + b + c
    BY <1>4, Facts, CountsNat
  <2>2. n >= (a + 1) + b + c
    BY ONLY <2>1, <1>4, n = pins[k] + 1
  <2> QED BY <2>2, <1>8, <1>9
<1>11. PinsCover' /\ pins' \in [Key -> Nat]
  BY <1>1, <1>4, <1>7, <1>8, <1>10, PinsMoved, Facts
<1> QED BY <1>1, <1>2, <1>3, <1>11, RoomStays, ReaderMovesInv, Facts

LEMMA EndStreamInv == ASSUME IInv, NEW r \in Reader, EndStream(r) PROVE IInv'
<1> PICK k, n : k = rd[r].at[1] /\ n = pins[k] - 1
  OBVIOUS
<1>1. /\ rd[r].pc \in {"opening", "streaming"} /\ rd' = [rd EXCEPT ![r] = NoReader]
      /\ pins' = [pins EXCEPT ![k] = n]
      /\ UNCHANGED catalogVars /\ UNCHANGED <<file, live, enc, boot>>
  BY DEF EndStream, Unpin
<1>2. Up /\ rd[r].at \in Place
  BY <1>1, ReaderUp
<1>3. k \in Key /\ pins[k] \in Nat
  BY <1>2, Facts DEF Place
<1>4. Serves(rd[r], k) /\ \A h : ~Serves(NoReader, h) /\ (h # k => ~Serves(rd[r], h))
  BY <1>1, Idle DEF Serves
<1>5. Served(k)' = Served(k) \ {r} /\ r \in Served(k)
  BY <1>1, <1>4, ServedAfter, Facts
<1>6. ASSUME NEW h \in Key \ {k}
      PROVE  Served(h)' = Served(h) /\ OfSession(h)' <= OfSession(h) /\ OfJob(h)' <= OfJob(h)
  <2>1. Served(h)' = Served(h)
    BY <1>1, <1>4, ServedAfter, Facts
  <2> QED BY <1>1, <2>1 DEF OfSession, OfJob
<1>7. /\ IsFiniteSet(Served(k)') /\ Cardinality(Served(k)') = Cardinality(Served(k)) - 1
      /\ Cardinality(Served(k)') \in Nat
  BY <1>3, <1>5, FS_RemoveElement, FS_CardinalityType, Facts, CountsNat
<1>8. OfSession(k)' = OfSession(k) /\ OfJob(k)' = OfJob(k)
  BY <1>1 DEF OfSession, OfJob
<1>9. n \in Nat /\ n >= Cardinality(Served(k)') + OfSession(k)' + OfJob(k)'
  <2> PICK a, b, c, d : /\ a = Cardinality(Served(k)) /\ b = OfSession(k) /\ c = OfJob(k)
                        /\ d = Cardinality(Served(k)')
    OBVIOUS
  <2>1. a \in Nat /\ b \in {0, 1} /\ c \in {0, 1, 2} /\ pins[k] >= a + b + c
    BY <1>3, Facts, CountsNat
  <2>2. d = a - 1 /\ d \in Nat
    BY <1>7
  <2>3. n \in Nat /\ n >= d + b + c
    BY ONLY <2>1, <2>2, <1>3, n = pins[k] - 1
  <2> QED BY <2>3, <1>8
<1>10. PinsCover' /\ pins' \in [Key -> Nat]
  BY <1>1, <1>3, <1>6, <1>7, <1>9, PinsMoved, Facts
<1>11. NoReader \in RdState /\ NoReader.pc = "idle"
  BY Constants, Idle
<1> QED BY <1>1, <1>2, <1>10, <1>11, RoomStays, ReaderMovesInv, Facts

-------------------------------------------------------------------------------
(* The crash and the reconciliation.                                       *)

LEMMA CrashInv == ASSUME IInv, Crash PROVE IInv'
<1>1. /\ boot' = [pc |-> "checking", todo |-> assets, key |-> NoKey]
      /\ pins' = [k \in Key |-> 0] /\ live' = {} /\ enc' = NoEncoder
      /\ rd' = [r \in Reader |-> NoReader] /\ UNCHANGED catalogVars /\ UNCHANGED file
  BY DEF Crash
<1>2. CatalogTypes' /\ Accounts' /\ UNCHANGED row
  BY <1>1, CatalogKept, Facts DEF catalogVars
<1>3. /\ boot' \in BootState /\ pins' \in [Key -> Nat] /\ enc' \in EncState
      /\ rd' \in [Reader -> RdState] /\ live' \subseteq Key /\ file' \in [Place -> Stored]
  BY <1>1, Constants, Facts DEF BootState, CatalogTypes
<1>4. EncoderTypes' /\ RoomKept' /\ ReaderTypes'
  BY <1>1, Idle DEF EncoderTypes, RoomKept, ReaderTypes, InEncode
<1>5. PinsCover'
  <2> SUFFICES ASSUME NEW k \in Key
               PROVE  /\ IsFiniteSet(Served(k)')
                      /\ pins'[k] >= Cardinality(Served(k)') + OfSession(k)' + OfJob(k)'
    BY DEF PinsCover
  <2>1. Served(k)' = {}
    BY <1>1, Idle DEF Served
  <2>2. OfSession(k)' = 0 /\ OfJob(k)' = 0 /\ pins'[k] = 0
    BY <1>1, Idle DEF OfSession, OfJob
  <2>3. IsFiniteSet({}) /\ Cardinality({}) = 0
    BY FS_EmptySet
  <2> QED BY <2>1, <2>2, <2>3
<1>6. Reconciled'
  <2>1. ASSUME NEW k \in Key \ assets, NEW t \in Place PROVE ~(t[1] = k /\ row'[t] # NoContent)
    BY <1>2, Facts DEF Accounts, RowsHaveAssets
  <2>2. \A k \in Key \ boot'.todo : SizesAgree(k)'
    BY <1>1, <2>1 DEF SizesAgree
  <2> QED BY <1>1, <2>2 DEF Reconciled
<1> QED BY <1>2, <1>3, <1>4, <1>5, <1>6, IInvNext

LEMMA BootStepInv ==
  ASSUME IInv, ~Up, UNCHANGED memoryVars, boot' \in BootState, file' \in [Place -> Stored],
         CatalogTypes', Accounts', boot'.pc = "deleting" => boot'.key \in boot'.todo,
         \A k \in Key \ boot'.todo : ~Up' => SizesAgree(k)'
  PROVE  IInv'
<1>1. UNCHANGED <<pins, live, enc, rd>>
  BY DEF memoryVars
<1>2. live = {} /\ enc = NoEncoder /\ rd = [r \in Reader |-> NoReader]
  BY Facts DEF Reconciled
<1>3. EncoderTypes' /\ RoomKept' /\ ReaderTypes'
  BY <1>1, <1>2, Idle DEF EncoderTypes, RoomKept, ReaderTypes, InEncode
<1>4. ASSUME NEW k \in Key
      PROVE  Served(k)' = Served(k) /\ OfSession(k)' <= OfSession(k) /\ OfJob(k)' <= OfJob(k)
  BY <1>1 DEF Served, OfSession, OfJob
<1>5. PinsCover'
  BY <1>1, <1>4, PinsKept, Facts
<1>6. Reconciled'
  BY <1>1, <1>2 DEF Reconciled
<1>7. /\ pins' \in [Key -> Nat] /\ live' \subseteq Key /\ enc' \in EncState
      /\ rd' \in [Reader -> RdState]
  BY <1>1, Facts
<1> QED BY <1>3, <1>5, <1>6, <1>7, IInvNext

LEMMA ReconcileKeepsInv == ASSUME IInv, NEW k \in Key, ReconcileKeeps(k) PROVE IInv'
<1>1. /\ boot.pc = "checking" /\ SizesAgree(k) /\ boot' = [boot EXCEPT !.todo = @ \ {k}]
      /\ UNCHANGED catalogVars /\ UNCHANGED file /\ UNCHANGED memoryVars
  BY DEF ReconcileKeeps
<1>2. ~Up /\ boot' \in BootState /\ boot'.pc = "checking" /\ boot'.todo = boot.todo \ {k}
  BY <1>1, Facts DEF Up, BootState
<1>3. CatalogTypes' /\ Accounts' /\ UNCHANGED row
  BY <1>1, CatalogKept, Facts DEF catalogVars
<1>4. ASSUME NEW h \in Key \ boot'.todo PROVE SizesAgree(h)'
  <2>1. SizesAgree(h)
    BY <1>1, <1>2, Facts DEF Reconciled
  <2> QED BY <2>1, <1>1, <1>3 DEF SizesAgree, Bytes
<1> QED BY <1>1, <1>2, <1>3, <1>4, BootStepInv, Facts

LEMMA ReconcileDropsInv == ASSUME IInv, NEW k \in Key, ReconcileDrops(k) PROVE IInv'
<1>1. /\ boot.pc = "checking" /\ k \in boot.todo /\ boot' = [boot EXCEPT !.pc = "deleting", !.key = k]
      /\ UNCHANGED catalogVars /\ UNCHANGED file /\ UNCHANGED memoryVars
  BY DEF ReconcileDrops
<1>2. /\ ~Up /\ boot' \in BootState /\ boot'.key = k /\ boot'.todo = boot.todo
  BY <1>1, Facts DEF Up, BootState
<1>3. CatalogTypes' /\ Accounts' /\ UNCHANGED row
  BY <1>1, CatalogKept, Facts DEF catalogVars
<1>4. ASSUME NEW h \in Key \ boot'.todo PROVE SizesAgree(h)'
  <2>1. SizesAgree(h)
    BY <1>1, <1>2, Facts DEF Reconciled
  <2> QED BY <2>1, <1>1, <1>3 DEF SizesAgree, Bytes
<1> QED BY <1>1, <1>2, <1>3, <1>4, BootStepInv, Facts

LEMMA ReconcileUnlinksInv == ASSUME IInv, NEW t \in Place, ReconcileUnlinks(t) PROVE IInv'
<1>1. /\ boot.pc = "deleting" /\ t[1] = boot.key /\ Unlinked(t) /\ UNCHANGED boot
      /\ UNCHANGED catalogVars /\ UNCHANGED memoryVars
  BY DEF ReconcileUnlinks, FilesOf
<1>2. ~Up /\ boot.key \in boot.todo
  BY <1>1, Facts DEF Up, Reconciled
<1>3. CatalogTypes' /\ Accounts' /\ UNCHANGED row
  BY <1>1, CatalogKept, Facts DEF catalogVars
<1>4. file' \in [Place -> Stored] /\ \A u \in Place : u # t => file'[u] = file[u]
  BY <1>1, UnlinkedType, Facts DEF Unlinked
<1>5. ASSUME NEW h \in Key \ boot'.todo PROVE SizesAgree(h)'
  <2>1. SizesAgree(h) /\ h # t[1]
    BY <1>1, <1>2, Facts DEF Reconciled
  <2> QED BY <2>1, <1>3, <1>4 DEF SizesAgree, Bytes
<1> QED BY <1>1, <1>2, <1>3, <1>4, <1>5, BootStepInv, Facts

LEMMA ReconcileDeletesInv == ASSUME IInv, ReconcileDeletes PROVE IInv'
<1> PICK k : k = boot.key
  OBVIOUS
<1>1. /\ boot.pc = "deleting" /\ DeleteAsset(k) /\ UNCHANGED file /\ UNCHANGED memoryVars
      /\ boot' = [pc |-> "checking", todo |-> boot.todo \ {k}, key |-> NoKey]
  BY DEF ReconcileDeletes
<1>2. ~Up /\ k \in boot.todo /\ k \in Key
  BY <1>1, Facts DEF Up, Reconciled, BootState
<1>3. CatalogTypes' /\ Accounts'
  BY <1>1, <1>2, DeleteAssetInv, Facts
<1>4. \A u \in Place : row'[u] = IF u[1] = k THEN NoContent ELSE row[u]
  BY <1>1 DEF DeleteAsset
<1>5. ASSUME NEW h \in Key \ boot'.todo PROVE SizesAgree(h)'
  <2>1. h = k \/ SizesAgree(h)
    BY <1>1, <1>2, Facts DEF Reconciled
  <2>2. \A u \in Place : u[1] = h /\ row'[u] # NoContent => h # k /\ row'[u] = row[u]
    BY <1>4
  <2> QED BY <2>1, <2>2, <1>1 DEF SizesAgree, Bytes
<1>6. boot' \in BootState /\ boot'.pc = "checking" /\ file' \in [Place -> Stored]
  BY <1>1, Facts DEF BootState
<1> QED BY <1>1, <1>2, <1>3, <1>5, <1>6, BootStepInv

LEMMA RemoveUnexpectedInv == ASSUME IInv, RemoveUnexpectedFiles PROVE IInv'
<1>1. /\ boot.pc = "checking" /\ boot' = Serving
      /\ file' = [t \in Place |-> IF row[t] = NoContent THEN NoContent ELSE file[t]]
      /\ UNCHANGED catalogVars /\ UNCHANGED memoryVars
  BY DEF RemoveUnexpectedFiles
<1>2. ~Up /\ boot' \in BootState /\ boot'.pc = "serving" /\ Up'
  BY <1>1, Constants DEF Up, Serving
<1>3. CatalogTypes' /\ Accounts'
  BY <1>1, CatalogKept, Facts
<1>4. file' \in [Place -> Stored]
  BY <1>1, Facts DEF Stored
<1> QED BY <1>1, <1>2, <1>3, <1>4, BootStepInv

-------------------------------------------------------------------------------
LEMMA InitInv == ASSUME Init PROVE IInv
<1>1. /\ assets = {} /\ complete = {} /\ live = {} /\ total = [k \in Key |-> 0]
      /\ row = [t \in Place |-> NoContent] /\ file = row /\ pins = total
      /\ enc = NoEncoder /\ rd = [r \in Reader |-> NoReader] /\ boot = Serving
  BY DEF Init
<1>2. TypeOK
  <2>1. row \in [Place -> Stored] /\ total \in [Key -> Nat]
    BY <1>1 DEF Stored
  <2> QED BY <1>1, <2>1, Constants, Types DEF CatalogTypes
<1>3. EncoderTypes /\ ReaderTypes /\ RoomKept
  BY <1>1, Idle DEF EncoderTypes, ReaderTypes, RoomKept, InEncode
<1>4. IsFiniteSet({}) /\ Cardinality({}) = 0
  BY FS_EmptySet
<1>5. PinsCover
  <2> SUFFICES ASSUME NEW k \in Key
               PROVE  /\ IsFiniteSet(Served(k))
                      /\ pins[k] >= Cardinality(Served(k)) + OfSession(k) + OfJob(k)
    BY DEF PinsCover
  <2>1. Served(k) = {}
    BY <1>1, Idle DEF Served
  <2>2. OfSession(k) = 0 /\ OfJob(k) = 0 /\ pins[k] = 0
    BY <1>1, Idle DEF OfSession, OfJob
  <2> QED BY <2>1, <2>2, <1>4
<1>6. Reconciled
  BY <1>1 DEF Reconciled, Up, Serving
<1>7. RowsHaveAssets
  BY <1>1, <1>4 DEF RowsHaveAssets
<1>8. AccountingExact
  <2> SUFFICES ASSUME NEW k \in Key
               PROVE  total[k] = SumFunctionOnSet(RowsOf(row, k), Segment)
    BY AccountingRows
  <2> PICK f : f = RowsOf(row, k)
    OBVIOUS
  <2>1. ASSUME NEW j \in Segment PROVE f[j] = 0
    BY <1>1 DEF RowsOf, Bytes, Place
  <2>2. SumFunctionOnSet(f, Segment) = 0
    BY ONLY <2>1, Constants, SumZero
  <2> QED BY <2>2, <1>1
<1>9. CapRespected
  <2>1. SumFunctionOnSet(total, assets) = 0
    BY <1>1, SumEmpty
  <2> QED BY <2>1, BoundAssumption DEF CapRespected, TotalBytes
<1>10. CompleteIsWhole
  BY <1>1 DEF CompleteIsWhole
<1> QED BY <1>2, <1>3, <1>5, <1>6, <1>7, <1>8, <1>9, <1>10 DEF IInv, Accounts

LEMMA StutterInv == ASSUME IInv, UNCHANGED vars PROVE IInv'
<1>1. UNCHANGED catalogVars /\ UNCHANGED <<file, pins, live, enc, rd, boot>>
  BY DEF vars, catalogVars
<1>2. CatalogTypes' /\ Accounts' /\ RoomKept' /\ UNCHANGED row
  BY <1>1, RoomStays DEF catalogVars
<1>3. ASSUME NEW k \in Key
      PROVE  Served(k)' = Served(k) /\ OfSession(k)' <= OfSession(k) /\ OfJob(k)' <= OfJob(k)
  BY <1>1 DEF Served, OfSession, OfJob
<1>4. PinsCover'
  BY <1>1, <1>3, PinsKept, Facts
<1>5. EncoderTypes' /\ ReaderTypes'
  BY <1>1, Facts DEF EncoderTypes, ReaderTypes
<1>6. Reconciled'
  BY <1>1, <1>2, Facts DEF Reconciled, Up, SizesAgree, Bytes
<1> QED BY <1>1, <1>2, <1>4, <1>5, <1>6, Facts, IInvNext

LEMMA StepInv == ASSUME IInv, [Next]_vars PROVE IInv'
<1>1. CASE EvictionStep
  BY <1>1, ChooseVictimInv, EvictFileInv, EvictRowInv DEF EvictionStep
<1>2. CASE PromotionStep
  BY <1>2, PromoteSegmentInv, RoomFoundInv, RemoveOldInv, RenameStagedInv, RecordPromotedInv
  DEF PromotionStep
<1>3. CASE JobStep
  BY <1>3, EnterEncodeInv, DirectoryMadeInv, DirectoryFailsInv, EncodeCompletesInv, EncodeFailsInv,
     JobEndsInv
  DEF JobStep
<1>4. CASE ReconcileStep
  BY <1>4, ReconcileKeepsInv, ReconcileDropsInv, ReconcileUnlinksInv, ReconcileDeletesInv,
     RemoveUnexpectedInv DEF ReconcileStep
<1>5. ASSUME NEW r \in Reader, ReaderStep(r) PROVE IInv'
  BY <1>5, LookAgainInv, ValidateInv, RemoveInvalidInv, ForgetInvalidInv, PinServedInv, OpenStreamInv,
     EndStreamInv DEF ReaderStep
<1>6. ASSUME NEW k \in Key, OpenSession(k) \/ EndSession(k) PROVE IInv'
  BY <1>6, OpenSessionInv, EndSessionInv
<1> QED
  BY <1>1, <1>2, <1>3, <1>4, <1>5, <1>6, CrashInv, StartJobInv, LoadSegmentInv, DamageInv,
     StutterInv DEF Next

-------------------------------------------------------------------------------
(* The theorems.                                                           *)

(* The inductive invariant: no interleaving of the job, the lookups, the    *)
(* responses, crashes and restarts takes catalog, disk and pins apart.     *)
THEOREM Invariance == Spec => []IInv
  BY InitInv, StepInv, PTL DEF Spec

(* Every variable keeps its type; above all no release of a pin takes its   *)
(* count below zero, and no deletion the bytes of an asset.                *)
THEOREM TypeCorrect == Spec => []TypeOK
  BY Invariance, PTL DEF IInv

(* total_bytes of an asset is the sum of its rows for every number of       *)
(* segments, sizes and readers: a promotion that replaces a row and a lookup *)
(* that deletes the row just replaced each take what the row says then.     *)
THEOREM AccountingExactHolds == Spec => []AccountingExact
<1>1. IInv => AccountingExact
  BY DEF IInv, Accounts
<1> QED BY <1>1, Invariance, PTL

(* The cache never accounts for more than cacheMaxBytes: from the check of  *)
(* ensureCapacity to the row the total can only shrink.                    *)
THEOREM CapRespectedHolds == Spec => []CapRespected
<1>1. IInv => CapRespected
  BY DEF IInv, Accounts
<1> QED BY <1>1, Invariance, PTL

(* A window marked complete has all its rows, whatever is deleted, evicted, *)
(* encoded again or recovered.                                             *)
THEOREM CompleteIsWholeHolds == Spec => []CompleteIsWhole
<1>1. IInv => CompleteIsWhole
  BY DEF IInv, Accounts
<1> QED BY <1>1, Invariance, PTL

(* When the server listens again, every row has a file of its size and      *)
(* every file a row, whatever the crash interrupted.                       *)
THEOREM RecoveryAgreesHolds == Spec => RecoveryAgrees
<1> DEFINE Step == ~Up /\ boot'.pc = "serving" => \A t \in Place : Bytes(file'[t]) = Bytes(row'[t])
<1>1. ASSUME IInv, [Next]_vars PROVE [Step]_vars
  <2> SUFFICES ASSUME ~Up, boot'.pc = "serving", NEW t \in Place
               PROVE  Bytes(file'[t]) = Bytes(row'[t])
    OBVIOUS
  <2>1. RemoveUnexpectedFiles
    <3>1. /\ live = {} /\ enc = NoEncoder /\ rd = [r \in Reader |-> NoReader]
          /\ boot' # boot
      BY <1>1, Facts DEF Reconciled, Up
    <3>2. ~EvictionStep
      BY DEF EvictionStep, ChooseVictim, EvictFile, EvictRow, At
    <3>3. ~PromotionStep
      BY DEF PromotionStep, PromoteSegment, RoomFound, RemoveOld, RenameStaged, RecordPromoted, At
    <3>4. ~JobStep
      BY DEF JobStep, EnterEncode, DirectoryMade, DirectoryFails, EncodeCompletes, EncodeFails,
             JobEnds, At
    <3>5. ASSUME NEW r \in Reader PROVE ~ReaderStep(r)
      BY <3>1 DEF ReaderStep, LookAgain, Validate, RemoveInvalid, ForgetInvalid, PinServed, OpenStream,
                  EndStream
    <3>6. ~Crash
      BY DEF Crash
    <3>7. ReconcileStep
      BY <1>1, <3>1, <3>2, <3>3, <3>4, <3>5, <3>6
      DEF Next, vars, OpenSession, EndSession, StartJob, LoadSegment, Damage, At
    <3>8. \A k \in Key : ~ReconcileKeeps(k) /\ ~ReconcileDrops(k)
      BY <1>1, Facts DEF ReconcileKeeps, ReconcileDrops, BootState
    <3> QED BY <3>1, <3>7, <3>8 DEF ReconcileStep, ReconcileUnlinks, ReconcileDeletes
  <2>2. /\ boot.todo = {} /\ UNCHANGED row
        /\ file'[t] = IF row[t] = NoContent THEN NoContent ELSE file[t]
    BY <2>1 DEF RemoveUnexpectedFiles, catalogVars
  <2>3. t[1] \in Key \ boot.todo
    BY <2>2 DEF Place
  <2>4. SizesAgree(t[1])
    BY <1>1, <2>3, Facts DEF Reconciled
  <2> QED BY <2>2, <2>4 DEF SizesAgree, Bytes
<1>2. RecoveryAgrees <=> [][Step]_vars
  BY DEF RecoveryAgrees
<1> HIDE DEF Step
<1> QED BY <1>1, <1>2, Invariance, PTL DEF Spec
===============================================================================
