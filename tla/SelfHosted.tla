----------------------------- MODULE SelfHosted -----------------------------
(***************************************************************************)
(* The life of the process: the composition that starts it                 *)
(* (runtime/self-hosted-composition.ts), its shutdown                      *)
(* (deploy/server-entry.ts) and what is left on the disk when it crashes;  *)
(* and the claim of a new installation (services/installation.ts,          *)
(* sqlite/installation-repository.ts), which are the requests here.        *)
(***************************************************************************)
EXTENDS Integers, FiniteSets

CONSTANTS
  Claimant,      \* claims, each with a passphrase of its own
  Newest,        \* SQLITE_MIGRATIONS.at(-1).version
  BootBound,     \* starts of the process
  Nobody

VARIABLES
  disk,          \* what is in /data
  process,       \* the phase of the process, and whether readiness says ready
  log,           \* history: whether the setup code is in the log, and starts
  claim,         \* the claims of the installation
  winner         \* history: claimants whose claim has been accepted

hostVars == <<disk, process, log, claim, winner>>

Idle == [pc |-> "idle", right |-> FALSE]

Init ==
  /\ disk = [key |-> "none", schema |-> 0, backup |-> 0, code |-> FALSE, installed |-> FALSE,
             configured |-> FALSE, owner |-> Nobody]
  /\ process = [phase |-> "down", ready |-> FALSE, draining |-> FALSE, signals |-> {}]
  /\ log = [announced |-> FALSE, boots |-> 0]
  /\ claim = [c \in Claimant |-> Idle]
  /\ winner = {}

-----------------------------------------------------------------------------
(* Startup, in the order of createSelfHostedComposition.                   *)

Starting == {"key", "writingKey", "database", "backingUp", "migrating", "installation",
             "announcing", "composing"}

To(phase) == process' = [process EXCEPT !.phase = phase]
OnDisk(from, next) ==
  /\ process.phase = from
  /\ next
  /\ UNCHANGED <<claim, winner>>

Boot ==
  /\ process.phase = "down" /\ log.boots < BootBound
  /\ process' = [phase |-> "key", ready |-> FALSE, draining |-> FALSE, signals |-> {}]
  /\ log' = [log EXCEPT !.boots = @ + 1]
  /\ UNCHANGED <<disk, claim, winner>>

(* readiness.fail, and the process ends.                                   *)
StartupFails ==
  /\ process.phase \in Starting
  /\ To("down")
  /\ disk' = IF process.phase = "writingKey" THEN [disk EXCEPT !.key = "none"] ELSE disk
  /\ UNCHANGED <<log, claim, winner>>

(* loadOrCreateMasterKey: a file that is created is written after that.    *)
CreateKey ==
  /\ disk.key = "none"
  /\ disk' = [disk EXCEPT !.key = "empty"]
  /\ To("writingKey")
  /\ UNCHANGED log

WriteKey ==
  /\ disk' = [disk EXCEPT !.key = "whole"]
  /\ To("database")
  /\ UNCHANGED log

ReadKey ==
  /\ disk.key # "none"
  /\ To(IF disk.key = "whole" THEN "database" ELSE "down")
  /\ UNCHANGED <<disk, log>>

(* applyPendingMigrations: a database that has been used is backed up, and *)
(* the copy verified; then each migration is a transaction.                *)
OpenDatabase ==
  /\ To(IF disk.schema \in 1 .. Newest - 1 THEN "backingUp" ELSE "migrating")
  /\ UNCHANGED <<disk, log>>

BackUp ==
  /\ disk' = [disk EXCEPT !.backup = disk.schema]
  /\ To("migrating")
  /\ UNCHANGED log

(* Mutant: the last migration is not taken as applied.                     *)
MigrateAgain ==
  /\ disk.schema <= Newest
  /\ disk' = [disk EXCEPT !.schema = @ + 1]
  /\ UNCHANGED <<process, log>>

Migrate ==
  /\ disk.schema < Newest
  /\ disk' = [disk EXCEPT !.schema = @ + 1]
  /\ UNCHANGED <<process, log>>

Migrated ==
  /\ disk.schema = Newest
  /\ To("installation")
  /\ UNCHANGED <<disk, log>>

(* initializeInstallation: the row, with the hash of a new setup code, or  *)
(* the row of an earlier start, whose code is not known any more.          *)
InitializeInstallation ==
  /\ IF disk.installed THEN To("composing") /\ UNCHANGED disk
     ELSE /\ disk' = [disk EXCEPT !.installed = TRUE, !.code = TRUE]
          /\ To("announcing")
  /\ UNCHANGED log

Announce ==
  /\ log' = [log EXCEPT !.announced = TRUE]
  /\ To("composing")
  /\ UNCHANGED disk

(* reconcile(), verifyMediaTools(), gateway.start(), listen(): markReady.  *)
Compose ==
  /\ process' = [process EXCEPT !.phase = "serving", !.ready = TRUE]
  /\ UNCHANGED <<disk, log>>

Startup ==
  \/ Boot \/ StartupFails
  \/ OnDisk("key", CreateKey) \/ OnDisk("writingKey", WriteKey) \/ OnDisk("key", ReadKey)
  \/ OnDisk("database", OpenDatabase) \/ OnDisk("backingUp", BackUp)
  \/ OnDisk("migrating", Migrate) \/ OnDisk("migrating", Migrated)
  \/ OnDisk("installation", InitializeInstallation) \/ OnDisk("announcing", Announce)
  \/ OnDisk("composing", Compose)

(* The machine loses power at any moment.                                  *)
Crash ==
  /\ process.phase # "down"
  /\ process' = [phase |-> "down", ready |-> FALSE, draining |-> FALSE, signals |-> {}]
  /\ claim' = [c \in Claimant |-> Idle]
  /\ UNCHANGED <<disk, log, winner>>

-----------------------------------------------------------------------------
(* Claims of the installation.                                             *)

Active == {c \in Claimant : claim[c].pc # "idle"}

(* installation-app: the origin, the rate limit and the body are right.    *)
Arrive(c) ==
  /\ process.phase = "serving" /\ claim[c].pc = "idle"
  /\ \E right \in BOOLEAN : claim' = [claim EXCEPT ![c] = [pc |-> "hashing", right |-> right]]
  /\ UNCHANGED <<disk, process, log, winner>>

(* Mutant: an installation that is configured is claimed again.            *)
AcceptsAgain(c) == claim[c].right

Accepts(c) == claim[c].right /\ ~disk.configured /\ disk.code

(* repository.claim(): the control document and the installation in one    *)
(* transaction.  A connection that has been closed refuses it.             *)
Claim(c) ==
  /\ claim[c].pc = "hashing"
  /\ claim' = [claim EXCEPT ![c] = [Idle EXCEPT !.pc = "answering"]]
  /\ IF Accepts(c) /\ process.phase # "closed"
     THEN /\ disk' = [disk EXCEPT !.configured = TRUE, !.code = FALSE, !.owner = c]
          /\ winner' = winner \cup {c}
     ELSE UNCHANGED <<disk, winner>>
  /\ UNCHANGED <<process, log>>

(* The passphrase cannot be hashed, or the transaction is rolled back.     *)
ClaimFails(c) ==
  /\ claim[c].pc = "hashing"
  /\ claim' = [claim EXCEPT ![c] = [Idle EXCEPT !.pc = "answering"]]
  /\ UNCHANGED <<disk, process, log, winner>>

Answered(c) ==
  /\ claim[c].pc = "answering"
  /\ claim' = [claim EXCEPT ![c] = Idle]
  /\ UNCHANGED <<disk, process, log, winner>>

-----------------------------------------------------------------------------
(* Shutdown.                                                               *)

(* SIGTERM: the server takes no more requests.                             *)
BeginDrain ==
  /\ process.phase = "serving"
  /\ process' = [process EXCEPT !.phase = "draining", !.ready = FALSE, !.draining = TRUE]
  /\ UNCHANGED <<disk, log, claim, winner>>

(* drain(): the requests have settled, or the deadline has passed, and     *)
(* what is left is aborted.                                                *)
Drained == Active = {}

DrainEnds ==
  /\ process.phase = "draining"
  /\ \/ Drained /\ To("closing")
     \/ process' = [process EXCEPT !.phase = "closing", !.signals = Active]
  /\ UNCHANGED <<disk, log, claim, winner>>

(* composition.close(): the transcoder, the gateway, then the database.    *)
Close ==
  /\ process.phase = "closing"
  /\ To("closed")
  /\ UNCHANGED <<disk, log, claim, winner>>

(* The process ends when it has nothing more to wait for.                  *)
Exit ==
  /\ process.phase = "closed" /\ Active = {}
  /\ process' = [process EXCEPT !.phase = "down", !.signals = {}]
  /\ UNCHANGED <<disk, log, claim, winner>>

Next ==
  \/ Startup \/ Crash \/ BeginDrain \/ DrainEnds \/ Close \/ Exit
  \/ \E c \in Claimant : Arrive(c) \/ Claim(c) \/ ClaimFails(c) \/ Answered(c)

Spec == Init /\ [][Next]_hostVars

-----------------------------------------------------------------------------
Phases == Starting \cup {"down", "serving", "draining", "closing", "closed"}

TypeOK ==
  /\ disk \in [key : {"none", "empty", "whole"}, schema : 0 .. Newest, backup : 0 .. Newest,
               code : BOOLEAN, installed : BOOLEAN, configured : BOOLEAN,
               owner : Claimant \cup {Nobody}]
  /\ process \in [phase : Phases, ready : BOOLEAN, draining : BOOLEAN, signals : SUBSET Claimant]
  /\ log \in [announced : BOOLEAN, boots : 0 .. BootBound]
  /\ claim \in [Claimant -> [pc : {"idle", "hashing", "answering"}, right : BOOLEAN]]
  /\ winner \subseteq Claimant

(* Of all claims, also those that overlap a shutdown or a crash, one is    *)
(* accepted: the passphrase that is stored is that of the only claimant    *)
(* whose claim was, the code is spent exactly then, and nothing of it is   *)
(* ever sealed under a master key that is not whole.                       *)
ClaimIsAtomic ==
  /\ winner = (IF disk.configured THEN {disk.owner} ELSE {})
  /\ disk.installed => disk.key = "whole" /\ (disk.code <=> ~disk.configured)
=============================================================================
