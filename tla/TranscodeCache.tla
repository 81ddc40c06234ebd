--------------------------- MODULE TranscodeCache ---------------------------
(***************************************************************************)
(* The transcode cache of the server (transcode/cache.ts) over its SQLite  *)
(* catalog (transcode/catalog.ts): segment files on disk, the rows that    *)
(* describe them, the byte totals that bound them, the pins that protect   *)
(* them, and the reconciliation at startup.                                *)
(*                                                                         *)
(* Files and rows have no common transaction: promoteSegment, loadSegment, *)
(* ensureCapacity and reconcile each touch one, await, and touch the       *)
(* other.  A step here is the code between two awaits; a crash may fall    *)
(* between any two steps and loses everything but disk and catalog.        *)
(*                                                                         *)
(* One promotion runs at a time and only the job it belongs to evicts: the *)
(* coordinator runs one job (OneJobPerWindow and Inv of module             *)
(* TranscodeCoordinator), and its encoder chains its promotions.           *)
(***************************************************************************)
EXTENDS Integers, Functions

CONSTANTS
  Key,                \* cache keys
  SegmentCount,       \* segments of an item
  SegmentsPerWindow,
  Content,            \* contents a segment file can have
  Encoded,            \* those FFmpeg writes; the disk may turn one into another
  sizeOf,             \* bytes of a content
  CacheMaxBytes,
  Reader,             \* concurrent lookups of a segment
  PinBound,           \* bound: no job starts on an asset with so many pins (they can leak)
  NoKey, NoContent

ASSUME BoundAssumption ==
  /\ SegmentCount \in Nat \ {0}
  /\ SegmentsPerWindow \in Nat \ {0}
  /\ CacheMaxBytes \in Nat
  /\ PinBound \in Nat
ASSUME ContentAssumption ==
  /\ Encoded \subseteq Content
  /\ sizeOf \in [Content -> Nat \ {0}]
ASSUME SentinelAssumption == NoKey \notin Key /\ NoContent \notin Content

Segment == 0 .. SegmentCount - 1
WindowOf(i) == i \div SegmentsPerWindow
Window == {WindowOf(i) : i \in Segment}
WindowSegments(w) == {i \in Segment : WindowOf(i) = w}
Place == Key \X Segment
Stored == Content \cup {NoContent}

VARIABLES
  assets,     \* transcode_assets: keys with a row
  total,      \* total_bytes of each asset
  row,        \* transcode_segments: the content a row describes
  complete,   \* transcode_windows marked complete
  file,       \* the segment files
  pins,       \* the pins map, summed per asset
  live,       \* keys of live sessions, each holding an active pin
  enc,        \* the window job: its await, key, window, promotions and victim
  rd,         \* the lookups: their await, place, the row read, what they opened
  boot        \* reconcile: its await, the assets left to check, the one deleted

catalogVars == <<assets, total, row, complete>>
memoryVars == <<pins, live, enc, rd>>
vars == <<assets, total, row, complete, file, pins, live, enc, rd, boot>>

(* Between "directory" and "recording" the job is inside encode(), which   *)
(* holds a pin of its own beside that of the job; when it has returned or  *)
(* thrown, the coordinator answers the waiters before it gives up its pin. *)
InEncode == {"directory", "encoding", "making room", "unlinking", "renaming", "recording"}
NoEncoder == [pc |-> "idle", key |-> NoKey, window |-> 0, segment |-> 0,
              done |-> {}, content |-> NoContent, victim |-> NoKey]
NoReader == [pc |-> "idle", at |-> <<NoKey, 0>>, again |-> FALSE,
             row |-> NoContent, open |-> NoContent]
Serving == [pc |-> "serving", todo |-> {}, key |-> NoKey]

TypeOK ==
  /\ assets \subseteq Key
  /\ total \in [Key -> Nat]
  /\ row \in [Place -> Stored]
  /\ complete \subseteq Key \X Window
  /\ file \in [Place -> Stored]
  /\ pins \in [Key -> Nat]
  /\ live \subseteq Key
  /\ enc \in [pc : {"idle", "first room", "settling"} \cup InEncode, key : Key \cup {NoKey},
              window : Window, segment : Segment, done : SUBSET Segment, content : Stored,
              victim : Key \cup {NoKey}]
  /\ rd \in [Reader -> [pc : {"idle", "missed", "validating", "removing", "forgetting",
                              "returned", "opening", "streaming"},
                        at : (Key \cup {NoKey}) \X Segment, again : BOOLEAN,
                        row : Stored, open : Stored]]
  /\ boot \in [pc : {"serving", "checking", "deleting"},
               todo : SUBSET Key, key : Key \cup {NoKey}]

Init ==
  /\ assets = {} /\ complete = {} /\ live = {}
  /\ total = [k \in Key |-> 0]
  /\ row = [t \in Place |-> NoContent]
  /\ file = row
  /\ pins = total
  /\ enc = NoEncoder
  /\ rd = [r \in Reader |-> NoReader]
  /\ boot = Serving

-----------------------------------------------------------------------------
(* The catalog.                                                            *)

Bytes(c) == IF c = NoContent THEN 0 ELSE sizeOf[c]
TotalBytes == SumFunctionOnSet(total, assets)
RowBytes(k) == [i \in Segment |-> Bytes(row[<<k, i>>])]

RecordSegmentAgain(t, c) ==     \* mutant: the row it replaces is counted twice
  /\ row' = [row EXCEPT ![t] = c]
  /\ total' = [total EXCEPT ![t[1]] = @ + Bytes(c)]
  /\ UNCHANGED <<assets, complete>>

RecordSegment(t, c) ==
  /\ row' = [row EXCEPT ![t] = c]
  /\ total' = [total EXCEPT ![t[1]] = @ - Bytes(row[t]) + Bytes(c)]
  /\ UNCHANGED <<assets, complete>>

DeleteSegmentOnly(t) ==         \* mutant: the mark of the window stays
  /\ row' = [row EXCEPT ![t] = NoContent]
  /\ total' = [total EXCEPT ![t[1]] = IF @ > Bytes(row[t]) THEN @ - Bytes(row[t]) ELSE 0]
  /\ UNCHANGED <<assets, complete>>

DeleteSegment(t) ==
  /\ row' = [row EXCEPT ![t] = NoContent]
  /\ total' = [total EXCEPT ![t[1]] = IF @ > Bytes(row[t]) THEN @ - Bytes(row[t]) ELSE 0]
  /\ complete' = IF row[t] = NoContent THEN complete ELSE complete \ {<<t[1], WindowOf(t[2])>>}
  /\ UNCHANGED assets

(* The rows of segments and windows go with their asset (ON DELETE         *)
(* CASCADE); a later row of the asset starts from zero bytes.              *)
DeleteAsset(k) ==
  /\ assets' = assets \ {k}
  /\ row' = [t \in Place |-> IF t[1] = k THEN NoContent ELSE row[t]]
  /\ total' = [total EXCEPT ![k] = 0]
  /\ complete' = {m \in complete : m[1] # k}

FilesOf(k) == {t \in Place : t[1] = k /\ file[t] # NoContent}
Unlinked(t) == file' = [file EXCEPT ![t] = NoContent]

Pin(k) == pins' = [pins EXCEPT ![k] = @ + 1]
Unpin(k) == pins' = [pins EXCEPT ![k] = @ - 1]

Up == boot.pc = "serving"

-----------------------------------------------------------------------------
(* Sessions of the coordinator: createSession loads the asset or inserts   *)
(* it, and pins it as active until the session ends.                       *)

OpenSession(k) ==
  /\ Up
  /\ k \notin live
  /\ live' = live \cup {k}
  /\ Pin(k)
  /\ assets' = assets \cup {k}
  /\ UNCHANGED <<total, row, complete, file, enc, rd, boot>>

EndSession(k) ==
  /\ Up
  /\ k \in live
  /\ live' = live \ {k}
  /\ Unpin(k)
  /\ UNCHANGED <<catalogVars, file, enc, rd, boot>>

-----------------------------------------------------------------------------
(* The window job.  It pins its asset from its start to its end.           *)

At(pc) == Up /\ enc.pc = pc /\ enc.victim = NoKey

StartJob(k, w) ==
  /\ At("idle")
  /\ k \in live
  /\ pins[k] < PinBound
  /\ Pin(k)
  /\ enc' = [NoEncoder EXCEPT !.pc = "first room", !.key = k, !.window = w]
  /\ UNCHANGED <<catalogVars, file, live, rd, boot>>

(* encode() pins the window and marks it partial before its try block: an  *)
(* asset row that has gone makes markWindow throw, and that pin stays.     *)
EnterEncode ==
  /\ At("first room")
  /\ TotalBytes <= CacheMaxBytes
  /\ Pin(enc.key)
  /\ complete' = complete \ {<<enc.key, enc.window>>}
  /\ enc' = [enc EXCEPT !.pc = IF enc.key \in assets THEN "directory" ELSE "settling"]
  /\ UNCHANGED <<assets, total, row, file, live, rd, boot>>

(* mkdir of the staging directory, still before the try block.             *)
DirectoryMade ==
  /\ At("directory")
  /\ enc' = [enc EXCEPT !.pc = "encoding"]
  /\ UNCHANGED <<catalogVars, file, pins, live, rd, boot>>

DirectoryFails ==
  /\ At("directory")
  /\ enc' = [enc EXCEPT !.pc = "settling"]
  /\ UNCHANGED <<catalogVars, file, pins, live, rd, boot>>

(* FFmpeg lists each segment once; promoteSegment has hashed it.           *)
PromoteSegment(i, c) ==
  /\ At("encoding")
  /\ i \in WindowSegments(enc.window) \ enc.done
  /\ enc' = [enc EXCEPT !.pc = "making room", !.segment = i, !.content = c]
  /\ UNCHANGED <<catalogVars, file, pins, live, rd, boot>>

(* ensureCapacity: there is room; or the first unpinned asset goes (the    *)
(* order of last access is left open), its directory file by file and then *)
(* its row, and the loop looks again.  The free space of the disk may ask  *)
(* for an eviction at any total.                                           *)
RoomFoundForOld ==              \* mutant: the new segment is not counted
  /\ At("making room")
  /\ TotalBytes <= CacheMaxBytes
  /\ enc' = [enc EXCEPT !.pc = "unlinking"]
  /\ UNCHANGED <<catalogVars, file, pins, live, rd, boot>>

RoomFound ==
  /\ At("making room")
  /\ TotalBytes + Bytes(enc.content) <= CacheMaxBytes
  /\ enc' = [enc EXCEPT !.pc = "unlinking"]
  /\ UNCHANGED <<catalogVars, file, pins, live, rd, boot>>

ChooseVictim(k) ==
  /\ At("making room") \/ At("first room")
  /\ k \in assets
  /\ pins[k] = 0
  /\ enc' = [enc EXCEPT !.victim = k]
  /\ UNCHANGED <<catalogVars, file, pins, live, rd, boot>>

EvictFile(t) ==
  /\ Up
  /\ t \in FilesOf(enc.victim)
  /\ Unlinked(t)
  /\ UNCHANGED <<catalogVars, memoryVars, boot>>

EvictRow ==
  /\ Up
  /\ enc.victim # NoKey
  /\ FilesOf(enc.victim) = {}
  /\ DeleteAsset(enc.victim)
  /\ enc' = [enc EXCEPT !.victim = NoKey]
  /\ UNCHANGED <<file, pins, live, rd, boot>>

RemoveOld ==
  /\ At("unlinking")
  /\ Unlinked(<<enc.key, enc.segment>>)
  /\ enc' = [enc EXCEPT !.pc = "renaming"]
  /\ UNCHANGED <<catalogVars, pins, live, rd, boot>>

RenameStaged ==
  /\ At("renaming")
  /\ file' = [file EXCEPT ![<<enc.key, enc.segment>>] = enc.content]
  /\ enc' = [enc EXCEPT !.pc = "recording"]
  /\ UNCHANGED <<catalogVars, pins, live, rd, boot>>

(* The row needs its asset (a foreign key).                                *)
RecordPromoted ==
  /\ At("recording")
  /\ enc.key \in assets
  /\ RecordSegment(<<enc.key, enc.segment>>, enc.content)
  /\ enc' = [enc EXCEPT !.pc = "encoding", !.done = @ \cup {enc.segment}]
  /\ UNCHANGED <<file, pins, live, rd, boot>>

EncodeCompletes ==
  /\ At("encoding")
  /\ \A i \in WindowSegments(enc.window) : row[<<enc.key, i>>] # NoContent
  /\ complete' = complete \cup {<<enc.key, enc.window>>}
  /\ Unpin(enc.key)
  /\ enc' = [enc EXCEPT !.pc = "settling"]
  /\ UNCHANGED <<assets, total, row, file, live, rd, boot>>

(* FFmpeg fails or is aborted, or a promotion throws: no victim is left, a *)
(* disk operation fails.                                                   *)
EncodeFails ==
  /\ At(enc.pc)
  /\ enc.pc \in InEncode \ {"directory"}
  /\ complete' = complete \ {<<enc.key, enc.window>>}
  /\ Unpin(enc.key)
  /\ enc' = [enc EXCEPT !.pc = "settling"]
  /\ UNCHANGED <<assets, total, row, file, live, rd, boot>>

(* encode() is over, or ensureCapacity(0) threw before it was called.      *)
JobEnds ==
  /\ At("settling") \/ At("first room")
  /\ Unpin(enc.key)
  /\ enc' = NoEncoder
  /\ UNCHANGED <<catalogVars, file, live, rd, boot>>

-----------------------------------------------------------------------------
(* loadSegment and the response that streams what it returns.  A request   *)
(* looks again after it has registered its waiter, even if its session has *)
(* ended by then; the coordinator looks once for the waiters of its job.   *)

Looking(t, again) == [pc |-> "validating", at |-> t, again |-> again,
                      row |-> row[t], open |-> NoContent]
Missing(t) == [NoReader EXCEPT !.pc = "missed", !.at = t]

LoadSegment(r, t, again) ==
  /\ Up
  /\ rd[r].pc = "idle"
  /\ t[1] \in IF again THEN live ELSE {enc.key}
  /\ row[t] # NoContent \/ again
  /\ rd' = [rd EXCEPT ![r] = IF row[t] # NoContent THEN Looking(t, again) ELSE Missing(t)]
  /\ UNCHANGED <<catalogVars, file, pins, live, enc, boot>>

LookAgain(r) ==
  /\ rd[r].pc = "missed"
  /\ rd' = [rd EXCEPT ![r] = IF row[@.at] # NoContent THEN Looking(@.at, FALSE) ELSE NoReader]
  /\ UNCHANGED <<catalogVars, file, pins, live, enc, boot>>

(* stat and hash of the file against the row read before them.             *)
Validate(r) ==
  /\ rd[r].pc = "validating"
  /\ rd' = [rd EXCEPT ![r].pc = IF file[rd[r].at] = rd[r].row THEN "returned" ELSE "removing"]
  /\ UNCHANGED <<catalogVars, file, pins, live, enc, boot>>

RemoveInvalid(r) ==
  /\ rd[r].pc = "removing"
  /\ Unlinked(rd[r].at)
  /\ rd' = [rd EXCEPT ![r].pc = "forgetting"]
  /\ UNCHANGED <<catalogVars, pins, live, enc, boot>>

ForgetInvalid(r) ==
  /\ rd[r].pc = "forgetting"
  /\ DeleteSegment(rd[r].at)
  /\ rd' = [rd EXCEPT ![r] = IF @.again THEN Missing(@.at) ELSE NoReader]
  /\ UNCHANGED <<file, pins, live, enc, boot>>

(* The response pins the segment and creates its read stream, which opens  *)
(* the file later.                                                         *)
PinServedNot(r) ==              \* mutant: the response releases a pin it never took
  /\ rd[r].pc = "returned"
  /\ rd' = [rd EXCEPT ![r].pc = "opening"]
  /\ UNCHANGED <<catalogVars, file, pins, live, enc, boot>>

PinServed(r) ==
  /\ rd[r].pc = "returned"
  /\ Pin(rd[r].at[1])
  /\ rd' = [rd EXCEPT ![r].pc = "opening"]
  /\ UNCHANGED <<catalogVars, file, live, enc, boot>>

OpenStream(r) ==
  /\ rd[r].pc = "opening"
  /\ rd' = [rd EXCEPT ![r].pc = "streaming", ![r].open = file[rd[r].at]]
  /\ UNCHANGED <<catalogVars, file, pins, live, enc, boot>>

EndStream(r) ==
  /\ rd[r].pc \in {"opening", "streaming"}
  /\ Unpin(rd[r].at[1])
  /\ rd' = [rd EXCEPT ![r] = NoReader]
  /\ UNCHANGED <<catalogVars, file, live, enc, boot>>

-----------------------------------------------------------------------------
(* A crash, and reconcile() before the server listens again: an asset with *)
(* a file that is missing or has another size is deleted, and then every   *)
(* file no row describes.                                                  *)

Crash ==
  /\ boot' = [pc |-> "checking", todo |-> assets, key |-> NoKey]
  /\ pins' = [k \in Key |-> 0]
  /\ live' = {}
  /\ enc' = NoEncoder
  /\ rd' = [r \in Reader |-> NoReader]
  /\ UNCHANGED <<catalogVars, file>>

SizesAgree(k) ==
  \A t \in Place : t[1] = k /\ row[t] # NoContent => Bytes(file[t]) = Bytes(row[t])

ReconcileKeepsAny(k) ==         \* mutant: sizes are not compared
  /\ boot.pc = "checking"
  /\ k \in boot.todo
  /\ boot' = [boot EXCEPT !.todo = @ \ {k}]
  /\ UNCHANGED <<catalogVars, file, memoryVars>>

ReconcileKeeps(k) ==
  /\ boot.pc = "checking"
  /\ k \in boot.todo
  /\ SizesAgree(k)
  /\ boot' = [boot EXCEPT !.todo = @ \ {k}]
  /\ UNCHANGED <<catalogVars, file, memoryVars>>

ReconcileDrops(k) ==
  /\ boot.pc = "checking"
  /\ k \in boot.todo
  /\ ~SizesAgree(k)
  /\ boot' = [boot EXCEPT !.pc = "deleting", !.key = k]
  /\ UNCHANGED <<catalogVars, file, memoryVars>>

ReconcileUnlinks(t) ==
  /\ boot.pc = "deleting"
  /\ t \in FilesOf(boot.key)
  /\ Unlinked(t)
  /\ UNCHANGED <<catalogVars, memoryVars, boot>>

ReconcileDeletes ==
  /\ boot.pc = "deleting"
  /\ FilesOf(boot.key) = {}
  /\ DeleteAsset(boot.key)
  /\ boot' = [pc |-> "checking", todo |-> boot.todo \ {boot.key}, key |-> NoKey]
  /\ UNCHANGED <<file, memoryVars>>

RemoveUnexpectedFiles ==
  /\ boot.pc = "checking"
  /\ boot.todo = {}
  /\ file' = [t \in Place |-> IF row[t] = NoContent THEN NoContent ELSE file[t]]
  /\ boot' = Serving
  /\ UNCHANGED <<catalogVars, memoryVars>>

(* The disk damages a file while the server runs.                          *)
Damage(t, c) ==
  /\ Up
  /\ file[t] \in Encoded
  /\ file' = [file EXCEPT ![t] = c]
  /\ UNCHANGED <<catalogVars, memoryVars, boot>>

-----------------------------------------------------------------------------
EvictionStep ==
  \/ \E k \in Key : ChooseVictim(k)
  \/ \E t \in Place : EvictFile(t)
  \/ EvictRow

PromotionStep ==
  \/ \E i \in Segment, c \in Encoded : PromoteSegment(i, c)
  \/ RoomFound \/ RemoveOld \/ RenameStaged \/ RecordPromoted

JobStep ==
  \/ EnterEncode \/ DirectoryMade \/ DirectoryFails
  \/ EncodeCompletes \/ EncodeFails \/ JobEnds

ReaderStep(r) ==
  \/ LookAgain(r) \/ Validate(r) \/ RemoveInvalid(r) \/ ForgetInvalid(r)
  \/ PinServed(r) \/ OpenStream(r) \/ EndStream(r)

ReconcileStep ==
  \/ \E k \in Key : ReconcileKeeps(k) \/ ReconcileDrops(k)
  \/ \E t \in Place : ReconcileUnlinks(t)
  \/ ReconcileDeletes \/ RemoveUnexpectedFiles

Next ==
  \/ EvictionStep \/ PromotionStep \/ JobStep \/ ReconcileStep \/ Crash
  \/ \E k \in Key : OpenSession(k) \/ EndSession(k)
  \/ \E k \in Key, w \in Window : StartJob(k, w)
  \/ \E r \in Reader, t \in Place, again \in BOOLEAN : LoadSegment(r, t, again)
  \/ \E r \in Reader : ReaderStep(r)
  \/ \E t \in Place, c \in Content \ Encoded : Damage(t, c)

Spec == Init /\ [][Next]_vars

-----------------------------------------------------------------------------
(* Properties.                                                             *)

(* total_bytes of every asset is the sum of its segment rows, although it  *)
(* is only ever incremented and decremented, by promotions that replace a  *)
(* row and by lookups that delete the row another promotion just wrote.    *)
AccountingExact == \A k \in Key : total[k] = SumFunctionOnSet(RowBytes(k), Segment)

(* "checks both limits" before committing a segment: the cache never       *)
(* accounts for more than cacheMaxBytes, although the check is awaits away *)
(* from the row it admits.                                                 *)
CapRespected == TotalBytes <= CacheMaxBytes

(* A window marked complete has all its rows, also after crashes between   *)
(* rename, row and mark and after recovery.                                *)
CompleteIsWhole ==
  \A m \in complete : \A i \in WindowSegments(m[2]) : row[<<m[1], i>>] # NoContent

(* Whatever the crash interrupted, when the server listens again there is  *)
(* a file of the recorded size for every row, and no other file: no        *)
(* promoted file that never reached its SQLite commit is left.             *)
RecoveryAgrees ==
  [][~Up /\ boot'.pc = "serving" =>
       \A t \in Place : Bytes(file'[t]) = Bytes(row'[t])]_vars

(* "Active, generating, and currently served assets are protected", and    *)
(* the others can go: a pin belongs to a live session, to the job of the   *)
(* asset or to a response.  Violated, see the README: a failure between *)
(* pinGenerating and the try block of encode() leaves its pin forever.     *)
PinsAreHeld ==
  \A k \in Key :
    pins[k] > 0 => \/ k \in live
                   \/ enc.key = k
                   \/ \E r \in Reader : rd[r].pc \in {"opening", "streaming"} /\ rd[r].at[1] = k

(* A segment is not "served from stale metadata" and "currently served     *)
(* assets are protected": also when its asset is live and no eviction is   *)
(* at work, a response streams the content that was validated for it.      *)
(* Violated, see the README: a window that is encoded again first removes  *)
(* the segments it replaces, whoever has validated and pinned them.        *)
ServedIsValidated ==
  \A r \in Reader :
    /\ rd[r].pc = "streaming"
    /\ rd[r].at[1] \in live \cap assets
    /\ rd[r].at[1] # enc.victim
    => rd[r].open = rd[r].row
=============================================================================
