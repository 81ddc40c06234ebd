---------------------------- MODULE DeviceAccess ----------------------------
(***************************************************************************)
(* What enrollment promises for each device, whatever requests, polls and  *)
(* administrators do: a device is offered once, to whoever holds the       *)
(* request it was approved for; at most one client ever gets a session     *)
(* from that offer; and a revoked device gets no session any more.         *)
(***************************************************************************)
CONSTANTS Device, Client

VARIABLES
  access,   \* where each device stands
  holders,  \* clients with a session of the device, or an answer with one
  admitted  \* clients whose session of the device is accepted now

vars == <<access, holders, admitted>>

Init ==
  /\ access = [d \in Device |-> "none"]
  /\ holders = [d \in Device |-> {}]
  /\ admitted = [d \in Device |-> {}]

Keep(d) == access'[d] = access[d]
KeepHolders(d) == holders'[d] = holders[d]

(* The administrator approves a request with a new device.                 *)
Offer(d) == access[d] = "none" /\ access'[d] = "offered" /\ KeepHolders(d)

(* The offer is taken: its only session goes to one client.                *)
Take(d) ==
  /\ access[d] = "offered" /\ access'[d] = "settled"
  /\ holders[d] = {} /\ \E c \in Client : holders'[d] = {c}

(* Nobody took the offer before its request expired.                       *)
Lapse(d) == access[d] = "offered" /\ access'[d] = "settled" /\ KeepHolders(d)

Revoke(d) ==
  access[d] \in {"offered", "settled"} /\ access'[d] = "revoked" /\ KeepHolders(d)

(* The session expires, or its answer is lost.                             *)
End(d) == Keep(d) /\ holders'[d] = {}

(* One step of the document may touch several devices: expired requests    *)
(* are dropped whenever another request is changed.                        *)
Step(d) ==
  Offer(d) \/ Take(d) \/ Lapse(d) \/ Revoke(d) \/ End(d) \/ (Keep(d) /\ KeepHolders(d))

(* Only holders are let in, and nobody once the device is revoked; a       *)
(* device that is disabled for a while admits nobody either.               *)
Admits(d) ==
  /\ admitted'[d] \subseteq holders'[d]
  /\ access'[d] = "revoked" => admitted'[d] = {}

Next == \A d \in Device : Step(d) /\ Admits(d)

Spec == Init /\ [][Next]_vars
=============================================================================
