--------------------------- MODULE ThumbnailBatch ---------------------------
(***************************************************************************)
(* A batch of thumbnails (thumbnails() of services/direct-media.ts).       *)
(*                                                                         *)
(* The items are grouped by source and the groups are done one after the   *)
(* other.  Within a group a few workers take the items in their order, and *)
(* when the provider no longer takes the token they share one refresh.     *)
(* Items that arrive with an address sealed in their handle are answered   *)
(* at once.                                                                *)
(***************************************************************************)
EXTENDS Integers, FiniteSets

CONSTANTS
  Items,     \* the items of a batch are 1 .. Items
  Groups,    \* sources they belong to, in the order of their first item
  Workers    \* MAX_CONCURRENT_THUMBNAIL_REQUESTS

VARIABLES
  group,     \* the source of each item
  thumb,     \* what becomes of each item, and the generation of its last operation
  batch,     \* the group that is done: its next item, credentials and first error
  refreshes  \* history: refreshes of each group

batchVars == <<group, thumb, batch, refreshes>>

Item == 1 .. Items
InFlight == {"trying", "refreshing", "retrying"}
Settled == {"ready", "unavailable"}

NewGroup(g) == [pc |-> "credentials", group |-> g, generation |-> 0, refresh |-> "none",
                failed |-> FALSE, code |-> ""]

(* authorizeHandle has let every item in.  sealedPreview: an address that  *)
(* is good, one that is not, or none, as always when refresh is asked for. *)
Init ==
  /\ group \in {g \in [Item -> 1 .. Groups] : \A s \in 1 .. Groups : \E i \in Item : g[i] = s}
  /\ thumb \in [Item -> {[pc |-> p, generation |-> 0] : p \in Settled \cup {"waiting"}}]
  /\ batch = NewGroup(1)
  /\ refreshes = [g \in 1 .. Groups |-> 0]

-----------------------------------------------------------------------------
Mine(i) == group[i] = batch.group
Vendable == {i \in Item : Mine(i) /\ thumb[i].pc = "waiting"}
Flying == {i \in Item : thumb[i].pc \in InFlight}
Answer(code) == batch' = [batch EXCEPT !.pc = "answered", !.code = code]

(* credentialBroker.get() and compatibleCredentials: a version other than  *)
(* that of the handles ends the batch.  A group without an item to vend    *)
(* has no need of them.                                                    *)
Credentials ==
  /\ batch.pc = "credentials"
  /\ IF Vendable = {} THEN batch' = [batch EXCEPT !.pc = "vending"]
     ELSE \/ batch' = [batch EXCEPT !.pc = "vending"]
          \/ \E code \in {"ITEM_NOT_FOUND", "NAVIGATION_EXPIRED"} : Answer(code)
  /\ UNCHANGED <<group, thumb, refreshes>>

(* A worker takes the next item, unless an operation has failed.           *)
Take(i) ==
  /\ batch.pc = "vending" /\ ~batch.failed
  /\ i \in Vendable /\ \A j \in Vendable : i <= j
  /\ Cardinality(Flying) < Workers
  /\ thumb' = [thumb EXCEPT ![i] = [pc |-> "trying", generation |-> batch.generation]]
  /\ UNCHANGED <<group, batch, refreshes>>

(* getThumbnailUrl: an address, none or one that is not valid, or an error *)
(* that concerns only this item.                                           *)
Vended(i) ==
  /\ thumb[i].pc \in {"trying", "retrying"}
  /\ \E p \in Settled : thumb' = [thumb EXCEPT ![i].pc = p]
  /\ UNCHANGED <<group, batch, refreshes>>

Failed(i) ==
  /\ thumb' = [thumb EXCEPT ![i].pc = "failed"]
  /\ batch' = [batch EXCEPT !.failed = TRUE]

(* Any other error ends the batch.                                         *)
OperationFails(i) ==
  /\ thumb[i].pc \in {"trying", "retrying"}
  /\ Failed(i)
  /\ UNCHANGED <<group, refreshes>>

(* Mutant: every item refreshes for itself.                                *)
RefreshAlone(i) ==
  /\ thumb' = [thumb EXCEPT ![i].pc = "refreshing"]
  /\ batch' = [batch EXCEPT !.refresh = "pending"]
  /\ refreshes' = [refreshes EXCEPT ![batch.group] = @ + 1]

(* refreshedCredentials(): the first to ask starts the refresh.            *)
Refresh(i) ==
  /\ thumb' = [thumb EXCEPT ![i].pc = "refreshing"]
  /\ IF batch.refresh = "none"
     THEN /\ batch' = [batch EXCEPT !.refresh = "pending"]
          /\ refreshes' = [refreshes EXCEPT ![batch.group] = @ + 1]
     ELSE UNCHANGED <<batch, refreshes>>

(* The token is rejected: an operation of the first generation is tried    *)
(* again with the refreshed credentials, any other has failed.             *)
TokenRejected(i) ==
  /\ thumb[i].pc \in {"trying", "retrying"}
  /\ CASE thumb[i].pc = "retrying" \/ thumb[i].generation = 1 -> Failed(i) /\ UNCHANGED refreshes
       [] thumb[i].pc = "trying" /\ thumb[i].generation = 0 /\ batch.generation = 1 ->
            /\ thumb' = [thumb EXCEPT ![i] = [pc |-> "retrying", generation |-> 1]]
            /\ UNCHANGED <<batch, refreshes>>
       [] OTHER -> Refresh(i)
  /\ UNCHANGED group

(* The refresh ends.  It fails, too, when the token was rotated: the       *)
(* handles of the batch are then of a version that is gone.  An answer of  *)
(* the provider that is of no use counts as the error of each item.        *)
RefreshEnds ==
  /\ batch.refresh = "pending"
  /\ \/ batch' = [batch EXCEPT !.refresh = "done", !.generation = 1]
     \/ \E end \in {"rejected", "useless"} : batch' = [batch EXCEPT !.refresh = end]
  /\ UNCHANGED <<group, thumb, refreshes>>

Resume(i) ==
  /\ thumb[i].pc = "refreshing"
  /\ \/ /\ batch.refresh = "done"
        /\ thumb' = [thumb EXCEPT ![i] = [pc |-> "retrying", generation |-> batch.generation]]
        /\ UNCHANGED batch
     \/ batch.refresh = "rejected" /\ Failed(i)
     \/ /\ batch.refresh = "useless"
        /\ thumb' = [thumb EXCEPT ![i].pc = "unavailable"]
        /\ UNCHANGED batch
  /\ UNCHANGED <<group, refreshes>>

(* forEachWithConcurrency: every worker has stopped.                       *)
WorkersDone == Flying = {} /\ (batch.failed \/ Vendable = {})

GroupDone ==
  /\ batch.pc = "vending"
  /\ WorkersDone
  /\ CASE batch.failed -> Answer("ERROR")
       [] ~batch.failed /\ batch.group < Groups -> batch' = NewGroup(batch.group + 1)
       [] OTHER -> Answer("OK")
  /\ UNCHANGED <<group, thumb, refreshes>>

Next ==
  \/ \E i \in Item : Take(i) \/ Vended(i) \/ OperationFails(i) \/ TokenRejected(i) \/ Resume(i)
  \/ Credentials \/ RefreshEnds \/ GroupDone

Spec == Init /\ [][Next]_batchVars

-----------------------------------------------------------------------------
TypeOK ==
  /\ thumb \in [Item -> [pc : InFlight \cup Settled \cup {"waiting", "failed"}, generation : {0, 1}]]
  /\ batch \in [pc : {"credentials", "vending", "answered"}, group : 1 .. Groups,
                generation : {0, 1}, refresh : {"none", "pending", "done", "rejected", "useless"},
                failed : BOOLEAN, code : {"", "OK", "ERROR", "ITEM_NOT_FOUND", "NAVIGATION_EXPIRED"}]

(* However many items find the token rejected, and in whatever order they  *)
(* are told, a group refreshes it once, and who tries again does so with   *)
(* the new credentials.                                                    *)
SharedRefresh ==
  /\ \A g \in 1 .. Groups : refreshes[g] <= 1
  /\ \A i \in Item : thumb[i].pc = "retrying" => thumb[i].generation = 1
=============================================================================
