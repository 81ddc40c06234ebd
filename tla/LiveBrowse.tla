----------------------------- MODULE LiveBrowse -----------------------------
(***************************************************************************)
(* Navigation of a TV (services/live-browse.ts) and the addresses of the   *)
(* media it opens (services/direct-media.ts, provider-media-source.ts).    *)
(*                                                                         *)
(* Nothing about a folder is stored: home() seals a handle for every root  *)
(* of the device, folder() lists the folder of a handle at the provider    *)
(* and seals handles for what it finds, and media() asks for the address   *)
(* of one item.  A handle is good for half an hour and for one version of  *)
(* the credentials of the source (auth/browse-handles.ts); a request reads *)
(* the control document once and the broker reads it again.                *)
(*                                                                         *)
(* One device, one source, one root folder, and one request at a time: all *)
(* else that happens meanwhile is in the actions after "Around it".  Items *)
(* are moved at will, and a page may have items of another folder.         *)
(***************************************************************************)
EXTENDS Integers, FiniteSets

CONSTANTS
  Node, Folder, RootNode,  \* items of the provider, those that are folders, the root
  Life,                    \* HANDLE_LIFETIME_MS, in ticks
  VersionBound, TickBound, \* bounds of the model
  Nowhere                  \* the parent of what is outside the account's folders

VARIABLES
  parent,      \* parentProviderId of every node
  reached,     \* history: nodes that were once in a folder that had been reached
  version,     \* credentialVersion of the source
  standing,    \* what the document says of the device, its root and the source
  held,        \* the handle the TV goes on with, one of those it was given
  cursor,      \* the sealed cursor it goes on with
  browse,      \* the request
  tick         \* the time

browseVars == <<parent, reached, version, standing, held, cursor, browse, tick>>

Standings == {"good", "revoked", "unassigned", "unhealthy"}
Handles == [node : Node, version : 1 .. VersionBound, expires : 0 .. TickBound + Life]
Cursors == [folder : Folder, version : 1 .. VersionBound, expires : 0 .. TickBound + Life]
NoCursor == [folder |-> RootNode, version |-> 0, expires |-> 0]
NoHandle == [node |-> RootNode, version |-> 0, expires |-> 0]

Idle == [pc |-> "idle", op |-> "home", handle |-> NoHandle, cursor |-> NoCursor,
         ctx |-> [version |-> 0, standing |-> "good"], creds |-> 0, retried |-> FALSE,
         code |-> "", issued |-> {}, next |-> {}]

(* The nodes from which a way up in the tree comes to one of these.        *)
Closed(nodes, tree) == \A n \in Node : tree[n] \in nodes => n \in nodes
Reached(from, tree) ==
  {n \in Node : \A nodes \in SUBSET Node : from \subseteq nodes /\ Closed(nodes, tree) => n \in nodes}

Init ==
  /\ parent \in {p \in [Node -> Folder \cup {Nowhere}] :
       p[RootNode] = Nowhere /\ \A n \in Node \ {RootNode} : p[n] \in {RootNode, Nowhere}}
  /\ reached = Reached({RootNode}, parent)
  /\ version = 1
  /\ standing = "good"
  /\ held = NoHandle
  /\ cursor = NoCursor
  /\ browse = Idle
  /\ tick = 0

Unchanged == UNCHANGED <<parent, reached, standing, held, cursor, tick>>

-----------------------------------------------------------------------------
(* Authorization, from the context of the request.                         *)

(* The codec's common(): a sealed value that has expired does not open.    *)
Opens(sealed) == tick < sealed.expires

(* activeRootAndSource: the code with which a sealed value is refused.     *)
Verdict(ctx, sealed) ==
  IF ctx.standing = "revoked" THEN "DEVICE_UNAUTHORIZED"
  ELSE IF ~Opens(sealed) THEN "NAVIGATION_EXPIRED"
  ELSE IF ctx.standing \in {"unassigned", "unhealthy"} THEN "ITEM_NOT_FOUND"
  ELSE IF sealed.version # ctx.version THEN "NAVIGATION_EXPIRED"
  ELSE "OK"

(* authorizeItem, and authorizeCursor when the request has a cursor: it    *)
(* must be one of the folder it is used for.                               *)
Authorization ==
  LET k == browse
      item == Verdict(k.ctx, k.handle)
  IN
  IF item # "OK" THEN item
  ELSE IF k.op = "folder" /\ k.handle.node \notin Folder THEN "ITEM_NOT_FOUND"
  ELSE IF k.op = "media" /\ k.handle.node \in Folder THEN "ITEM_NOT_FOUND"
  ELSE IF k.cursor = NoCursor THEN "OK"
  ELSE IF Verdict(k.ctx, k.cursor) # "OK" THEN Verdict(k.ctx, k.cursor)
  ELSE IF k.cursor.folder # k.handle.node THEN "ITEM_NOT_FOUND"
  ELSE "OK"

-----------------------------------------------------------------------------
(* The TV.                                                                 *)

Ask(op, handle, after) ==
  /\ browse.pc = "idle"
  /\ browse' = [Idle EXCEPT !.pc = "loading", !.op = op, !.handle = handle, !.cursor = after]
  /\ UNCHANGED version /\ Unchanged

(* loadControlRequestContext: the request goes on with this document.      *)
Load ==
  /\ browse.pc = "loading"
  /\ browse' = [browse EXCEPT !.pc = "authorizing",
                              !.ctx = [version |-> version, standing |-> standing]]
  /\ UNCHANGED version /\ Unchanged

Fail(code) == browse' = [Idle EXCEPT !.pc = "answered", !.code = code]

(* rootClaims: the handle of the root for the version the context has.     *)
RootClaims == [node |-> RootNode, version |-> browse.ctx.version, expires |-> tick + Life]

(* home() has no await: it gives the roots that are assigned, enabled and  *)
(* of a healthy source.                                                    *)
Home ==
  /\ browse.pc = "authorizing" /\ browse.op = "home"
  /\ IF browse.ctx.standing = "revoked" THEN Fail("DEVICE_UNAUTHORIZED")
     ELSE browse' = [browse EXCEPT !.pc = "answered", !.code = "OK",
            !.issued = IF browse.ctx.standing = "good" THEN {RootClaims} ELSE {}]
  /\ UNCHANGED version /\ Unchanged

Authorize ==
  /\ browse.pc = "authorizing" /\ browse.op # "home"
  /\ IF Authorization = "OK" THEN browse' = [browse EXCEPT !.pc = "credentials"]
     ELSE Fail(Authorization)
  /\ UNCHANGED version /\ Unchanged

(* compatibleCredentials: media() only goes on with credentials of the     *)
(* version its handle names.  A listing goes on with a rotated token.      *)
Compatible(v) ==
  browse.op = "folder" \/ (v = browse.handle.version /\ v = browse.ctx.version)

(* credentialBroker.get() and refresh() read the document themselves: the  *)
(* source must still be healthy.  A refresh, which get() too may need, may *)
(* rotate the token and raises the version with it.                        *)
BrokerGives ==
  /\ browse.pc \in {"credentials", "refreshing"}
  /\ standing # "unhealthy"
  /\ version' \in {version, version + 1} /\ version' <= VersionBound
  /\ IF Compatible(version')
     THEN browse' = [browse EXCEPT !.pc = "asking", !.creds = version',
                                   !.retried = (browse.pc = "refreshing")]
     ELSE Fail("NAVIGATION_EXPIRED")
  /\ Unchanged

BrokerFails ==
  /\ browse.pc \in {"credentials", "refreshing"}
  /\ \E code \in {"ITEM_NOT_FOUND", "PROVIDER_UNAVAILABLE"} : Fail(code)
  /\ UNCHANGED version /\ Unchanged

(* The provider does not take the token: it is refreshed once, but not     *)
(* when the grant itself has ended.                                        *)
ProviderRejectsToken ==
  /\ browse.pc = "asking"
  /\ \E reason \in {"invalid_grant", "other"} :
       IF browse.retried \/ reason = "invalid_grant" THEN Fail("PROVIDER_REAUTH_REQUIRED")
       ELSE browse' = [browse EXCEPT !.pc = "refreshing"]
  /\ UNCHANGED version /\ Unchanged

(* It has no such item, it is throttled or it cannot be reached.           *)
ProviderFails ==
  /\ browse.pc = "asking"
  /\ \E code \in {"ITEM_NOT_FOUND", "PROVIDER_THROTTLED", "PROVIDER_UNAVAILABLE"} : Fail(code)
  /\ UNCHANGED version /\ Unchanged

(* It answers with what is no page of a folder, or with an address that is *)
(* not one of its own hosts: nothing of the answer is used.                *)
PageRefused ==
  /\ browse.pc = "asking" /\ browse.op = "folder"
  /\ Fail("PROVIDER_BAD_RESPONSE")
  /\ UNCHANGED version /\ Unchanged

AddressRefused ==
  /\ browse.pc = "asking" /\ browse.op = "media"
  /\ Fail("INVALID_PROVIDER_URL")
  /\ UNCHANGED version /\ Unchanged

(* Mutant: what a listing finds is sealed for the version of its handle.   *)
ItemClaimsOfHandle(node) ==
  [node |-> node, version |-> browse.handle.version, expires |-> tick + Life]

(* itemClaims, and the renewed claims of the folder itself.                *)
ItemClaims(node) == [node |-> node, version |-> browse.creds, expires |-> tick + Life]
CursorClaims ==
  [folder |-> browse.handle.node, version |-> browse.creds, expires |-> tick + Life]

(* Mutant: an item of another folder is kept.                              *)
SafeAnyNode(node) == TRUE

(* safeProviderNode: only items of the folder that was asked for.          *)
SafeProviderNode(node) == parent[node] = browse.handle.node

(* The provider lists a page, with a cursor when there is more.            *)
Listed ==
  /\ browse.pc = "asking" /\ browse.op = "folder"
  /\ \E page \in SUBSET (Node \ {RootNode}), more \in BOOLEAN :
       browse' = [browse EXCEPT !.pc = "answered", !.code = "OK",
         !.issued = {ItemClaims(n) : n \in {m \in page : SafeProviderNode(m)}}
                      \cup {ItemClaims(browse.handle.node)},
         !.next = IF more THEN {CursorClaims} ELSE {}]
  /\ UNCHANGED version /\ Unchanged

(* resolve(): the address that was given, with the credentials in it.      *)
Resolved ==
  /\ browse.pc = "asking" /\ browse.op = "media"
  /\ browse' = [browse EXCEPT !.pc = "answered", !.code = "OK"]
  /\ UNCHANGED version /\ Unchanged

(* The TV has the answer and goes on with something in it, or it does not  *)
(* get it.                                                                 *)
Answered ==
  /\ browse.pc = "answered"
  /\ held' \in browse.issued \cup {held}
  /\ cursor' \in browse.next \cup {cursor}
  /\ browse' = Idle
  /\ UNCHANGED <<parent, reached, version, standing, tick>>

-----------------------------------------------------------------------------
(* Around it.                                                              *)

Move(n, p) ==
  /\ n # RootNode /\ p # n /\ p # parent[n]
  /\ p \in Folder => parent[p] # n
  /\ parent' = [parent EXCEPT ![n] = p]
  /\ reached' = Reached(reached, parent')
  /\ UNCHANGED <<version, standing, held, cursor, browse, tick>>

(* The source is connected again, or its token is rotated by another.      *)
OtherVersion ==
  /\ version < VersionBound
  /\ version' = version + 1
  /\ UNCHANGED browse /\ Unchanged

(* An administrator revokes the device, takes its root or the source needs *)
(* to be authorized; all but the first can be put right.                   *)
ChangeStanding ==
  /\ standing # "revoked"
  /\ standing' \in Standings \ {standing}
  /\ UNCHANGED <<parent, reached, version, held, cursor, browse, tick>>

Tick ==
  /\ tick < TickBound
  /\ tick' = tick + 1
  /\ UNCHANGED <<parent, reached, version, standing, held, cursor, browse>>

Next ==
  \/ \E after \in {cursor, NoCursor} : held # NoHandle /\ Ask("folder", held, after)
  \/ held # NoHandle /\ Ask("media", held, NoCursor)
  \/ Ask("home", NoHandle, NoCursor)
  \/ Load \/ Home \/ Authorize \/ BrokerGives \/ BrokerFails \/ ProviderRejectsToken
  \/ ProviderFails \/ PageRefused \/ AddressRefused \/ Listed \/ Resolved \/ Answered
  \/ \E n \in Node, p \in Folder \cup {Nowhere} : Move(n, p)
  \/ OtherVersion \/ ChangeStanding \/ Tick

Spec == Init /\ [][Next]_browseVars

-----------------------------------------------------------------------------
TypeOK ==
  /\ parent \in [Node -> Folder \cup {Nowhere}]
  /\ reached \subseteq Node
  /\ version \in 1 .. VersionBound /\ standing \in Standings /\ tick \in 0 .. TickBound
  /\ held \in Handles \cup {NoHandle} /\ cursor \in Cursors \cup {NoCursor}
  /\ browse.issued \subseteq Handles /\ browse.next \subseteq Cursors
  /\ browse.creds \in 0 .. VersionBound

(* What a listing hands out is accepted by the next request for as long as *)
(* the version it was listed with is the current one, the grant stands and *)
(* half an hour has not passed: a rotation of the token during the listing *)
(* does not strand the TV in the folder it is in.                          *)
IssuedIsAccepted ==
  LET now == [version |-> version, standing |-> standing] IN
  /\ browse.op = "folder" /\ browse.code = "OK"
  /\ browse.creds = version /\ standing = "good"
  => \A sealed \in browse.issued \cup browse.next : Opens(sealed) => Verdict(now, sealed) = "OK"

(* A TV only ever holds handles of items that were once in its root, or in *)
(* a folder that had been: whatever the provider puts in a page, and       *)
(* however the folders are moved about meanwhile.                          *)
HeldWasReached == held.node \in reached
=============================================================================
