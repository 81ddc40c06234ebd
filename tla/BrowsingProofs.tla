--------------------------- MODULE BrowsingProofs ---------------------------
(***************************************************************************)
(* Proofs about what is browsed without being stored: the handles and      *)
(* cursors a TV is given (LiveBrowse) and the ancestry of a folder         *)
(* (ProviderFolders), as the parts "browse" and "folders" of MCServer.     *)
(***************************************************************************)
EXTENDS MCServer, Sequences, TLAPS

-----------------------------------------------------------------------------
(* LiveBrowse.                                                             *)
LEMMA BrowseConstants ==
  /\ RootNode \in Folder /\ RootNode \in Node /\ Folder \subseteq Node /\ Nowhere \notin Node
  /\ HandleLife \in Nat /\ VersionBound \in Nat \ {0} /\ TickBound \in Nat
BY ServerAssumption

BrowsePcs == {"idle", "loading", "authorizing", "credentials", "refreshing", "asking", "answered"}
BrowseOps == {"home", "folder", "media"}
BrowseCodes ==
  {"OK", "DEVICE_UNAUTHORIZED", "NAVIGATION_EXPIRED", "ITEM_NOT_FOUND", "PROVIDER_UNAVAILABLE",
   "PROVIDER_REAUTH_REQUIRED", "PROVIDER_THROTTLED", "PROVIDER_BAD_RESPONSE",
   "INVALID_PROVIDER_URL"}

BrowseContexts == [version : 0 .. VersionBound, standing : Browse!Standings]
BrowseRequest ==
  [pc : BrowsePcs, op : BrowseOps,
   handle : Browse!Handles \cup {Browse!NoHandle}, cursor : Browse!Cursors \cup {Browse!NoCursor},
   ctx : BrowseContexts,
   creds : 0 .. VersionBound, retried : BOOLEAN, code : BrowseCodes \cup {""},
   issued : SUBSET Browse!Handles, next : SUBSET Browse!Cursors]

BrowseTypes ==
  /\ parent \in [Node -> Folder \cup {Nowhere}]
  /\ reached \in SUBSET Node
  /\ version \in 1 .. VersionBound
  /\ standing \in Browse!Standings
  /\ tick \in 0 .. TickBound
  /\ held \in Browse!Handles \cup {Browse!NoHandle}
  /\ cursor \in Browse!Cursors \cup {Browse!NoCursor}
  /\ browse \in BrowseRequest

(* What the steps of a request rely on: the context has been loaded, a     *)
(* listing is one of a folder, and the provider is asked with credentials. *)
Prepared ==
  /\ browse.pc = "authorizing" => browse.ctx.version \in 1 .. VersionBound
  /\ browse.pc \in {"credentials", "refreshing", "asking"} =>
       (browse.op = "folder" => browse.handle.node \in Folder)
  /\ browse.pc = "asking" => browse.creds \in 1 .. VersionBound
  /\ browse.pc # "answered" => browse.issued = {} /\ browse.next = {} /\ browse.code = ""

(* A listing seals everything for the version it was made with.            *)
SealedForListing ==
  browse.op = "folder" =>
    \A sealed \in browse.issued \cup browse.next : sealed.version = browse.creds

(* Nothing that was reached leaves the set, and what is put in a folder    *)
(* that was reached is: so are the root and all that the TV has or is told *)
(* of.                                                                     *)
OnlyReached ==
  /\ RootNode \in reached
  /\ Browse!Closed(reached, parent)
  /\ held.node \in reached
  /\ browse.handle.node \in reached
  /\ \A sealed \in browse.issued : sealed.node \in reached

BrowseInv == BrowseTypes /\ Prepared /\ SealedForListing /\ OnlyReached

(* What is reached from a set is the least closed set that has it.         *)
LEMMA ReachedIsClosed ==
  ASSUME NEW from \in SUBSET Node, NEW tree
  PROVE  /\ from \subseteq Browse!Reached(from, tree)
         /\ Browse!Reached(from, tree) \in SUBSET Node
         /\ Browse!Closed(Browse!Reached(from, tree), tree)
<1>1. /\ from \subseteq Browse!Reached(from, tree)
      /\ Browse!Reached(from, tree) \in SUBSET Node
  BY DEF Browse!Reached
<1>2. ASSUME NEW n \in Node, tree[n] \in Browse!Reached(from, tree),
             NEW nodes \in SUBSET Node, from \subseteq nodes, Browse!Closed(nodes, tree)
      PROVE  n \in nodes
  BY <1>2 DEF Browse!Reached, Browse!Closed
<1>3. Browse!Closed(Browse!Reached(from, tree), tree)
  <2>1. SUFFICES ASSUME NEW n \in Node, tree[n] \in Browse!Reached(from, tree)
                 PROVE  n \in Browse!Reached(from, tree)
    BY DEF Browse!Closed
  <2> QED BY <1>2, <2>1 DEF Browse!Reached
<1> QED BY <1>1, <1>3

LEMMA IdleRequest == Browse!Idle \in BrowseRequest
<1>1. [version |-> 0, standing |-> "good"] \in BrowseContexts
  BY BrowseConstants DEF Browse!Standings, BrowseContexts
<1>2. 0 \in 0 .. VersionBound BY BrowseConstants
<1> QED BY <1>1, <1>2 DEF Browse!Idle, BrowseRequest, BrowsePcs, BrowseOps

LEMMA BrowseInit ==
  ASSUME Browse!Init
  PROVE  BrowseInv
<1> USE DEF Browse!NoHandle, Browse!NoCursor, Browse!Idle
<1>1. BrowseTypes
  <2>0. {RootNode} \in SUBSET Node BY BrowseConstants
  <2>1. /\ parent \in [Node -> Folder \cup {Nowhere}] /\ reached \in SUBSET Node
        /\ version \in 1 .. VersionBound /\ standing \in Browse!Standings
        /\ tick \in 0 .. TickBound
    <3>1. parent \in [Node -> Folder \cup {Nowhere}] BY DEF Browse!Init
    <3>2. reached \in SUBSET Node BY <2>0, ReachedIsClosed DEF Browse!Init
    <3>3. /\ version \in 1 .. VersionBound /\ standing \in Browse!Standings
          /\ tick \in 0 .. TickBound
      <4>1. version = 1 /\ tick = 0 /\ standing = "good" BY DEF Browse!Init
      <4>2. standing \in Browse!Standings BY <4>1 DEF Browse!Standings
      <4> QED BY <4>1, <4>2, BrowseConstants
    <3> QED BY <3>1, <3>2, <3>3
  <2>2. held \in Browse!Handles \cup {Browse!NoHandle}
        /\ cursor \in Browse!Cursors \cup {Browse!NoCursor}
    BY DEF Browse!Init
  <2>3. browse \in BrowseRequest
    BY IdleRequest DEF Browse!Init
  <2> QED BY <2>1, <2>2, <2>3 DEF BrowseTypes
<1>2. Prepared BY DEF Browse!Init, Prepared
<1>3. SealedForListing BY DEF Browse!Init, SealedForListing
<1>4. OnlyReached BY BrowseConstants, ReachedIsClosed DEF Browse!Init, OnlyReached
<1> QED BY <1>1, <1>2, <1>3, <1>4 DEF BrowseInv

(* A request goes on or ends without anything to hand out.                 *)
LEMMA BrowseGoesOn ==
  ASSUME BrowseInv, UNCHANGED <<parent, reached, standing, held, cursor, tick>>,
         version' \in 1 .. VersionBound,
         browse' \in BrowseRequest, Prepared', browse'.issued = {}, browse'.next = {},
         browse'.handle.node \in reached
  PROVE  BrowseInv'
<1>1. BrowseTypes' BY DEF BrowseInv, BrowseTypes
<1>2. SealedForListing' BY DEF SealedForListing
<1>3. OnlyReached' BY DEF BrowseInv, OnlyReached
<1> QED BY <1>1, <1>2, <1>3 DEF BrowseInv

LEMMA AskInv ==
  ASSUME BrowseInv, NEW op \in BrowseOps, NEW handle \in {held, Browse!NoHandle},
         NEW after \in {cursor, Browse!NoCursor}, Browse!Ask(op, handle, after)
  PROVE  BrowseInv'
<1>1. /\ browse' = [Browse!Idle EXCEPT !.pc = "loading", !.op = op, !.handle = handle,
                                       !.cursor = after]
      /\ UNCHANGED <<parent, reached, version, standing, held, cursor, tick>>
  BY DEF Browse!Ask, Browse!Unchanged
<1>2. browse' \in BrowseRequest
  BY <1>1, IdleRequest DEF BrowseRequest, BrowsePcs, BrowseInv, BrowseTypes, Browse!NoHandle
<1>3. /\ browse'.pc = "loading" /\ browse'.issued = {} /\ browse'.next = {}
      /\ browse'.code = "" /\ browse'.handle = handle
  BY <1>1 DEF Browse!Idle
<1>4. Prepared' BY <1>3 DEF Prepared
<1>5. browse'.handle.node \in reached
  <2>1. CASE handle = held BY <1>3, <2>1 DEF BrowseInv, OnlyReached
  <2>2. CASE handle = Browse!NoHandle
    <3>1. handle.node = RootNode BY <2>2 DEF Browse!NoHandle
    <3> QED BY <1>3, <3>1 DEF BrowseInv, OnlyReached
  <2> QED BY <2>1, <2>2
<1> QED BY <1>1, <1>2, <1>3, <1>4, <1>5, BrowseGoesOn DEF BrowseInv, BrowseTypes

LEMMA BrowseFails ==
  ASSUME BrowseInv, NEW code \in BrowseCodes, Browse!Fail(code), Browse!Unchanged,
         version' \in 1 .. VersionBound
  PROVE  BrowseInv'
<1>1. browse' = [Browse!Idle EXCEPT !.pc = "answered", !.code = code] BY DEF Browse!Fail
<1>2. browse' \in BrowseRequest
  BY <1>1, IdleRequest DEF BrowseRequest, BrowsePcs
<1>3. /\ browse'.pc = "answered" /\ browse'.issued = {} /\ browse'.next = {}
      /\ browse'.handle.node = RootNode
  BY <1>1 DEF Browse!Idle, Browse!NoHandle
<1>4. Prepared' BY <1>3 DEF Prepared
<1> QED BY <1>2, <1>3, <1>4, BrowseGoesOn DEF BrowseInv, OnlyReached, Browse!Unchanged

LEMMA LoadInv ==
  ASSUME BrowseInv, Browse!Load
  PROVE  BrowseInv'
<1>1. /\ browse.pc = "loading"
      /\ browse' = [browse EXCEPT !.pc = "authorizing",
                                  !.ctx = [version |-> version, standing |-> standing]]
      /\ UNCHANGED <<parent, reached, version, standing, held, cursor, tick>>
  BY DEF Browse!Load, Browse!Unchanged
<1>2. browse \in BrowseRequest /\ version \in 1 .. VersionBound /\ standing \in Browse!Standings
  BY DEF BrowseInv, BrowseTypes
<1>3. browse' \in BrowseRequest
  <2>1. [version |-> version, standing |-> standing] \in BrowseContexts
    BY <1>2, BrowseConstants DEF BrowseContexts
  <2> QED BY <1>1, <1>2, <2>1 DEF BrowseRequest, BrowsePcs
<1>4. /\ browse'.pc = "authorizing" /\ browse'.ctx.version = version /\ browse'.code = browse.code
      /\ browse'.issued = browse.issued /\ browse'.next = browse.next
      /\ browse'.handle = browse.handle
  BY <1>1, <1>2 DEF BrowseRequest
<1>5. Prepared' BY <1>1, <1>2, <1>4 DEF BrowseInv, Prepared
<1> QED
  BY <1>1, <1>2, <1>3, <1>4, <1>5, BrowseGoesOn DEF BrowseInv, Prepared, OnlyReached

LEMMA HomeInv ==
  ASSUME BrowseInv, Browse!Home
  PROVE  BrowseInv'
<1>1. browse \in BrowseRequest /\ version \in 1 .. VersionBound /\ tick \in 0 .. TickBound
  BY DEF BrowseInv, BrowseTypes
<1>2. CASE browse.ctx.standing = "revoked"
  BY <1>1, <1>2, BrowseFails DEF BrowseCodes, Browse!Home
<1>3. CASE browse.ctx.standing # "revoked"
  <2> DEFINE given == IF browse.ctx.standing = "good" THEN {Browse!RootClaims} ELSE {}
  <2>1. /\ browse.pc = "authorizing" /\ browse.op = "home"
        /\ browse' = [browse EXCEPT !.pc = "answered", !.code = "OK", !.issued = given]
        /\ UNCHANGED <<parent, reached, version, standing, held, cursor, tick>>
    BY <1>3 DEF Browse!Home, Browse!Unchanged
  <2>a. browse.ctx.version \in 1 .. VersionBound BY <2>1 DEF BrowseInv, Prepared
  <2>b. tick + HandleLife \in 0 .. TickBound + HandleLife BY <1>1, BrowseConstants
  <2>2. Browse!RootClaims \in Browse!Handles /\ Browse!RootClaims.node = RootNode
    BY <2>a, <2>b, BrowseConstants DEF Browse!RootClaims, Browse!Handles
  <2>3. given \in SUBSET Browse!Handles /\ \A sealed \in given : sealed.node = RootNode
    BY <2>2
  <2> HIDE DEF given
  <2>4. /\ browse'.pc = "answered" /\ browse'.op = "home" /\ browse'.handle = browse.handle
        /\ browse'.issued = given /\ browse'.next = browse.next
    BY <1>1, <2>1 DEF BrowseRequest
  <2>5. browse' \in BrowseRequest
    BY <1>1, <2>1, <2>3 DEF BrowseRequest, BrowsePcs, BrowseCodes
  <2>6. BrowseTypes' BY <2>1, <2>5 DEF BrowseInv, BrowseTypes
  <2>7. Prepared' /\ SealedForListing' BY <2>4 DEF Prepared, SealedForListing
  <2>8. OnlyReached' BY <2>1, <2>3, <2>4 DEF BrowseInv, OnlyReached
  <2> QED BY <2>6, <2>7, <2>8 DEF BrowseInv
<1> QED BY <1>2, <1>3

(* What is authorized as a folder is one.                                  *)
LEMMA AuthorizationIsCode ==
  /\ Browse!Authorization \in BrowseCodes
  /\ Browse!Authorization = "OK" /\ browse.op = "folder" => browse.handle.node \in Folder
<1>1. \A ctx, sealed : Browse!Verdict(ctx, sealed) \in BrowseCodes
  BY DEF Browse!Verdict, BrowseCodes
<1> QED BY <1>1 DEF Browse!Authorization, BrowseCodes

LEMMA AuthorizeInv ==
  ASSUME BrowseInv, Browse!Authorize
  PROVE  BrowseInv'
<1>1. browse \in BrowseRequest /\ version \in 1 .. VersionBound BY DEF BrowseInv, BrowseTypes
<1>2. CASE Browse!Authorization = "OK"
  <2>1. /\ browse.pc = "authorizing"
        /\ browse' = [browse EXCEPT !.pc = "credentials"]
        /\ UNCHANGED <<parent, reached, version, standing, held, cursor, tick>>
    BY <1>2 DEF Browse!Authorize, Browse!Unchanged
  <2>2. browse' \in BrowseRequest BY <1>1, <2>1 DEF BrowseRequest, BrowsePcs, BrowseCodes
  <2>3. /\ browse'.pc = "credentials" /\ browse'.code = browse.code /\ browse'.op = browse.op
        /\ browse'.issued = browse.issued /\ browse'.next = browse.next
        /\ browse'.handle = browse.handle
    BY <1>1, <2>1 DEF BrowseRequest
  <2>4. Prepared' BY <1>2, <2>1, <2>3, AuthorizationIsCode DEF BrowseInv, Prepared
  <2> QED
    BY <1>1, <2>1, <2>2, <2>3, <2>4, BrowseGoesOn DEF BrowseInv, Prepared, OnlyReached
<1>3. CASE Browse!Authorization # "OK"
  BY <1>1, <1>3, AuthorizationIsCode, BrowseFails DEF BrowseCodes, Browse!Authorize
<1> QED BY <1>2, <1>3

(* The broker has answered, or the token is not taken.                     *)
LEMMA TokenInv ==
  ASSUME BrowseInv, Browse!BrokerGives \/ Browse!ProviderRejectsToken
  PROVE  BrowseInv'
<1>1. browse \in BrowseRequest /\ version \in 1 .. VersionBound BY DEF BrowseInv, BrowseTypes
<1>2. CASE Browse!BrokerGives /\ Browse!Compatible(version')
  <2>1. /\ browse.pc \in {"credentials", "refreshing"}
        /\ version' \in 1 .. VersionBound
        /\ browse' = [browse EXCEPT !.pc = "asking", !.creds = version',
                                    !.retried = (browse.pc = "refreshing")]
        /\ UNCHANGED <<parent, reached, standing, held, cursor, tick>>
    BY <1>1, <1>2, BrowseConstants DEF Browse!BrokerGives, Browse!Unchanged
  <2>2. browse' \in BrowseRequest
    <3>1. version' \in 0 .. VersionBound /\ (browse.pc = "refreshing") \in BOOLEAN BY <2>1
    <3> QED BY <1>1, <2>1, <3>1 DEF BrowseRequest, BrowsePcs
  <2>3. /\ browse'.pc = "asking" /\ browse'.code = browse.code /\ browse'.op = browse.op
        /\ browse'.issued = browse.issued /\ browse'.next = browse.next
        /\ browse'.handle = browse.handle /\ browse'.creds = version'
    BY <1>1, <2>1 DEF BrowseRequest
  <2>4. Prepared' BY <2>1, <2>3 DEF BrowseInv, Prepared
  <2> QED
    BY <2>1, <2>2, <2>3, <2>4, BrowseGoesOn DEF BrowseInv, Prepared, OnlyReached
<1>3. CASE Browse!BrokerGives /\ ~Browse!Compatible(version')
  <2>1. version' \in 1 .. VersionBound
    BY <1>1, <1>3, BrowseConstants DEF Browse!BrokerGives
  <2> QED BY <1>3, <2>1, BrowseFails DEF BrowseCodes, Browse!BrokerGives
<1>4. CASE Browse!ProviderRejectsToken /\ Browse!Fail("PROVIDER_REAUTH_REQUIRED")
  BY <1>1, <1>4, BrowseFails DEF BrowseCodes, Browse!ProviderRejectsToken
<1>5. CASE Browse!ProviderRejectsToken /\ ~Browse!Fail("PROVIDER_REAUTH_REQUIRED")
  <2>1. /\ browse.pc = "asking"
        /\ browse' = [browse EXCEPT !.pc = "refreshing"]
        /\ UNCHANGED <<parent, reached, version, standing, held, cursor, tick>>
    BY <1>5 DEF Browse!ProviderRejectsToken, Browse!Unchanged
  <2>2. browse' \in BrowseRequest BY <1>1, <2>1 DEF BrowseRequest, BrowsePcs, BrowseCodes
  <2>3. /\ browse'.pc = "refreshing" /\ browse'.code = browse.code /\ browse'.op = browse.op
        /\ browse'.issued = browse.issued /\ browse'.next = browse.next
        /\ browse'.handle = browse.handle
    BY <1>1, <2>1 DEF BrowseRequest
  <2>4. Prepared' BY <2>1, <2>3 DEF BrowseInv, Prepared
  <2> QED
    BY <1>1, <2>1, <2>2, <2>3, <2>4, BrowseGoesOn DEF BrowseInv, Prepared, OnlyReached
<1> QED BY <1>2, <1>3, <1>4, <1>5

LEMMA ListedInv ==
  ASSUME BrowseInv, Browse!Listed
  PROVE  BrowseInv'
<1>1. browse \in BrowseRequest /\ tick \in 0 .. TickBound BY DEF BrowseInv, BrowseTypes
<1>2. PICK page \in SUBSET (Node \ {RootNode}), more \in BOOLEAN :
        browse' = [browse EXCEPT !.pc = "answered", !.code = "OK",
         !.issued = {Browse!ItemClaims(n) : n \in {m \in page : Browse!SafeProviderNode(m)}}
                      \cup {Browse!ItemClaims(browse.handle.node)},
         !.next = IF more THEN {Browse!CursorClaims} ELSE {}]
  BY DEF Browse!Listed
<1>3. /\ browse.pc = "asking" /\ browse.op = "folder"
      /\ UNCHANGED <<parent, reached, version, standing, held, cursor, tick>>
  BY DEF Browse!Listed, Browse!Unchanged
<1>4. browse.creds \in 1 .. VersionBound /\ browse.handle.node \in Folder
  BY <1>3 DEF BrowseInv, Prepared
<1>5. \A n \in Node : /\ Browse!ItemClaims(n) \in Browse!Handles
                      /\ Browse!ItemClaims(n).node = n
                      /\ Browse!ItemClaims(n).version = browse.creds
  BY <1>1, <1>4, BrowseConstants DEF Browse!ItemClaims, Browse!Handles
<1>6. Browse!CursorClaims \in Browse!Cursors /\ Browse!CursorClaims.version = browse.creds
  BY <1>1, <1>4, BrowseConstants DEF Browse!CursorClaims, Browse!Cursors
<1> DEFINE issued == {Browse!ItemClaims(n) : n \in {m \in page : Browse!SafeProviderNode(m)}}
                      \cup {Browse!ItemClaims(browse.handle.node)}
           next == IF more THEN {Browse!CursorClaims} ELSE {}
<1>7. \A n \in page : n \in Node /\ (Browse!SafeProviderNode(n) => n \in reached)
  BY DEF Browse!SafeProviderNode, BrowseInv, OnlyReached, Browse!Closed
<1>8. /\ issued \in SUBSET Browse!Handles
      /\ \A sealed \in issued : sealed.node \in reached /\ sealed.version = browse.creds
  BY <1>4, <1>5, <1>7, BrowseConstants DEF BrowseInv, OnlyReached
<1>9. next \in SUBSET Browse!Cursors /\ \A sealed \in next : sealed.version = browse.creds
  BY <1>6
<1>10. browse' = [browse EXCEPT !.pc = "answered", !.code = "OK", !.issued = issued, !.next = next]
  BY <1>2
<1> HIDE DEF issued, next
<1>11. /\ browse'.pc = "answered" /\ browse'.op = "folder" /\ browse'.handle = browse.handle
       /\ browse'.issued = issued /\ browse'.next = next /\ browse'.creds = browse.creds
  BY <1>1, <1>3, <1>10 DEF BrowseRequest
<1>12. browse' \in BrowseRequest
  BY <1>1, <1>8, <1>9, <1>10 DEF BrowseRequest, BrowsePcs, BrowseCodes
<1>13. BrowseTypes' BY <1>3, <1>12 DEF BrowseInv, BrowseTypes
<1>14. Prepared' BY <1>11 DEF Prepared
<1>15. SealedForListing' BY <1>8, <1>9, <1>11 DEF SealedForListing
<1>16. OnlyReached' BY <1>3, <1>8, <1>11 DEF BrowseInv, OnlyReached
<1> QED BY <1>13, <1>14, <1>15, <1>16 DEF BrowseInv

LEMMA ResolvedInv ==
  ASSUME BrowseInv, Browse!Resolved
  PROVE  BrowseInv'
<1>1. browse \in BrowseRequest BY DEF BrowseInv, BrowseTypes
<1>2. /\ browse.pc = "asking" /\ browse.op = "media"
      /\ browse' = [browse EXCEPT !.pc = "answered", !.code = "OK"]
      /\ UNCHANGED <<parent, reached, version, standing, held, cursor, tick>>
  BY DEF Browse!Resolved, Browse!Unchanged
<1>3. browse' \in BrowseRequest BY <1>1, <1>2 DEF BrowseRequest, BrowsePcs, BrowseCodes
<1>4. /\ browse'.pc = "answered" /\ browse'.handle = browse.handle
      /\ browse'.issued = browse.issued /\ browse'.next = browse.next
  BY <1>1, <1>2 DEF BrowseRequest
<1>5. Prepared' BY <1>4 DEF Prepared
<1> QED BY <1>2, <1>3, <1>4, <1>5, BrowseGoesOn
        DEF BrowseInv, BrowseTypes, Prepared, OnlyReached

LEMMA FolderAnsweredInv ==
  ASSUME BrowseInv, Browse!Answered
  PROVE  BrowseInv'
<1>1. /\ held' \in browse.issued \cup {held} /\ cursor' \in browse.next \cup {cursor}
      /\ browse' = Browse!Idle
      /\ UNCHANGED <<parent, reached, version, standing, tick>>
  BY DEF Browse!Answered
<1>2. browse \in BrowseRequest BY DEF BrowseInv, BrowseTypes
<1>3. browse' \in BrowseRequest
  BY <1>1, IdleRequest
<1>4. BrowseTypes' BY <1>1, <1>2, <1>3 DEF BrowseInv, BrowseTypes, BrowseRequest
<1>5. Prepared' /\ SealedForListing' BY <1>1 DEF Browse!Idle, Prepared, SealedForListing
<1>6. OnlyReached'
  BY <1>1, BrowseConstants DEF Browse!Idle, Browse!NoHandle, BrowseInv, OnlyReached
<1> QED BY <1>4, <1>5, <1>6 DEF BrowseInv

LEMMA AroundBrowseInv ==
  ASSUME BrowseInv,
         \/ \E n \in Node, p \in Folder \cup {Nowhere} : Browse!Move(n, p)
         \/ Browse!OtherVersion \/ Browse!ChangeStanding \/ Browse!Tick
  PROVE  BrowseInv'
<1>1. CASE \E n \in Node, p \in Folder \cup {Nowhere} : Browse!Move(n, p)
  <2>1. PICK n \in Node, p \in Folder \cup {Nowhere} : Browse!Move(n, p) BY <1>1
  <2>2. /\ parent' = [parent EXCEPT ![n] = p]
        /\ reached' = Browse!Reached(reached, parent')
        /\ UNCHANGED <<version, standing, held, cursor, browse, tick>>
    BY <2>1 DEF Browse!Move
  <2>3. /\ reached \subseteq reached' /\ reached' \in SUBSET Node
        /\ Browse!Closed(reached', parent')
    BY <2>2, ReachedIsClosed DEF BrowseInv, BrowseTypes
  <2>4. BrowseTypes' BY <2>2, <2>3 DEF BrowseInv, BrowseTypes
  <2>5. Prepared' /\ SealedForListing' BY <2>2 DEF BrowseInv, Prepared, SealedForListing
  <2>6. OnlyReached' BY <2>2, <2>3 DEF BrowseInv, OnlyReached
  <2> QED BY <2>4, <2>5, <2>6 DEF BrowseInv
<1>2. CASE Browse!OtherVersion \/ Browse!ChangeStanding \/ Browse!Tick
  <2>1. /\ UNCHANGED <<parent, reached, held, cursor, browse>>
        /\ version' \in 1 .. VersionBound /\ standing' \in Browse!Standings
        /\ tick' \in 0 .. TickBound
    BY <1>2, BrowseConstants
    DEF Browse!OtherVersion, Browse!ChangeStanding, Browse!Tick, Browse!Unchanged, BrowseInv,
        BrowseTypes
  <2>2. BrowseTypes' BY <2>1 DEF BrowseInv, BrowseTypes
  <2>3. Prepared' /\ SealedForListing' BY <2>1 DEF BrowseInv, Prepared, SealedForListing
  <2>4. OnlyReached' BY <2>1 DEF BrowseInv, OnlyReached
  <2> QED BY <2>2, <2>3, <2>4 DEF BrowseInv
<1> QED BY <1>1, <1>2

LEMMA BrowseStep ==
  ASSUME BrowseInv, Browse!Next \/ UNCHANGED browseVars
  PROVE  BrowseInv'
<1>1. CASE UNCHANGED browseVars
  BY <1>1 DEF browseVars, BrowseInv, BrowseTypes, Prepared, SealedForListing, OnlyReached
<1>2. CASE \/ \E after \in {cursor, Browse!NoCursor} :
                held # Browse!NoHandle /\ Browse!Ask("folder", held, after)
           \/ held # Browse!NoHandle /\ Browse!Ask("media", held, Browse!NoCursor)
           \/ Browse!Ask("home", Browse!NoHandle, Browse!NoCursor)
  BY <1>2, AskInv DEF BrowseOps
<1>3. CASE Browse!BrokerFails \/ Browse!ProviderFails \/ Browse!PageRefused \/ Browse!AddressRefused
  BY <1>3, BrowseFails
  DEF BrowseCodes, Browse!BrokerFails, Browse!ProviderFails, Browse!PageRefused, Browse!AddressRefused,
      BrowseInv, BrowseTypes
<1>4. CASE Browse!Load \/ Browse!Home \/ Browse!Authorize \/ Browse!BrokerGives
           \/ Browse!ProviderRejectsToken \/ Browse!Listed \/ Browse!Resolved \/ Browse!Answered
  BY <1>4, LoadInv, HomeInv, AuthorizeInv, TokenInv, ListedInv, ResolvedInv, FolderAnsweredInv
<1> QED BY <1>1, <1>2, <1>3, <1>4, AroundBrowseInv DEF Browse!Next

LEMMA BrowseHolds == Spec => [](part = "browse" => BrowseInv)
<1>1. Init => (part = "browse" => BrowseInv) BY BrowseInit DEF Init
<1>2. (part = "browse" => BrowseInv) /\ [Next]_vars => (part = "browse" => BrowseInv)'
  <2>1. SUFFICES ASSUME [Next]_vars, part' = "browse", part = "browse" => BrowseInv
                 PROVE  BrowseInv'
    OBVIOUS
  <2>2. part = "browse" BY <2>1 DEF Next, vars
  <2> QED BY <2>1, <2>2, BrowseStep DEF Next, vars
<1> QED BY <1>1, <1>2, PTL DEF Spec

(* Whatever rotates or connects the credentials while a folder is listed,  *)
(* the handles and the cursor of the answer open with the version it was   *)
(* listed with.                                                            *)
THEOREM IssuedIsAcceptedHolds == Spec => []IssuedIsAccepted
<1>1. BrowseInv => Browse!IssuedIsAccepted
  BY DEF Browse!IssuedIsAccepted, Browse!Verdict, BrowseInv, SealedForListing
<1>2. (part = "browse" => BrowseInv) => IssuedIsAccepted BY <1>1 DEF IssuedIsAccepted
<1> QED BY <1>2, BrowseHolds, PTL

(* A TV never gets hold of an item that was in none of its folders,        *)
(* whatever a page of the provider has in it and however items are moved.  *)
THEOREM HeldWasReachedHolds == Spec => []HeldWasReached
<1>1. (part = "browse" => BrowseInv) => HeldWasReached
  BY DEF HeldWasReached, Browse!HeldWasReached, BrowseInv, OnlyReached
<1> QED BY <1>1, BrowseHolds, PTL

(* The variables of navigation keep their types.                           *)
LEMMA BrowseTypeOK == BrowseInv => Browse!TypeOK
BY DEF Browse!TypeOK, BrowseInv, BrowseTypes, BrowseRequest

-----------------------------------------------------------------------------
(* ProviderFolders.                                                        *)
LEMMA FoldersConstants ==
  /\ ProviderRoot \notin Directory /\ Outside \notin Directory /\ Outside # ProviderRoot
  /\ AncestryLimit \in Nat \ {0}
BY ServerAssumption

FoldersPcs == {"idle", "root", "walking", "listing", "found", "mutating"}
Accounts == {"healthy", "reauth-required", "changed"}
FolderRequest ==
  [pc : FoldersPcs, op : {"browse", "resolveAncestry", "createRoot"},
   target : Directory \cup {ProviderRoot}, walk : {1, 2}, next : Directory \cup {ProviderRoot},
   trail : Seq(Directory \cup {ProviderRoot}), refreshed : BOOLEAN]

FoldersTypes ==
  /\ above \in [Directory -> Directory \cup {ProviderRoot, Outside}]
  /\ resolving \in FolderRequest
  /\ account \in Accounts /\ made = "healthy"

(* A way up: no folder twice, and each was in the one before it.           *)
WayUp(path) ==
  /\ \A i, j \in 1 .. Len(path) : path[i] = path[j] => i = j
  /\ \A i \in 2 .. Len(path) : <<path[i], path[i - 1]>> \in edges

(* While it walks, the request has the edges there are and those it saw.   *)
Walk ==
  resolving.pc = "walking" =>
    /\ Folders!EdgesOf(above) \subseteq edges
    /\ resolving.next \in Directory
    /\ resolving.trail \in Seq(Directory)
    /\ Len(resolving.trail) < AncestryLimit
    /\ WayUp(resolving.trail)
    /\ resolving.trail # <<>> => <<resolving.trail[1], resolving.next>> \in edges

(* What is stored is the whole way from the root of the account.           *)
Path ==
  resolving.pc = "mutating" =>
    /\ resolving.trail # <<>> /\ resolving.trail[1] = ProviderRoot
    /\ Len(resolving.trail) <= AncestryLimit + 1
    /\ WayUp(resolving.trail)

Elsewhere == resolving.pc \notin {"walking", "mutating"} => resolving.trail = <<>>

FoldersInv == FoldersTypes /\ Walk /\ Path /\ Elsewhere

(* A folder put before a way up that does not have it, and that begins in  *)
(* it.                                                                     *)
LEMMA Lengthened ==
  ASSUME NEW S, NEW path \in Seq(S), NEW x \in S, WayUp(path),
         \A i \in 1 .. Len(path) : path[i] # x,
         path # <<>> => <<path[1], x>> \in edges
  PROVE  /\ <<x>> \o path \in Seq(S) /\ <<x>> \o path # <<>>
         /\ Len(<<x>> \o path) = Len(path) + 1
         /\ (<<x>> \o path)[1] = x
         /\ WayUp(<<x>> \o path)
<1> DEFINE longer == <<x>> \o path
<1>1. /\ longer \in Seq(S) /\ Len(longer) = Len(path) + 1 /\ Len(path) \in Nat
      /\ longer[1] = x /\ \A i \in 2 .. Len(path) + 1 : longer[i] = path[i - 1]
  OBVIOUS
<1>2. longer # <<>> BY <1>1
<1>3. path # <<>> <=> Len(path) >= 1 OBVIOUS
<1> HIDE DEF longer
<1>4. \A i, j \in 1 .. Len(longer) : longer[i] = longer[j] => i = j
  <2>1. SUFFICES ASSUME NEW i \in 1 .. Len(longer), NEW j \in 1 .. Len(longer),
                        longer[i] = longer[j]
                 PROVE  i = j
    OBVIOUS
  <2>2. CASE i = 1 /\ j = 1 BY <2>2
  <2>3. CASE i = 1 /\ j # 1
    <3>1. longer[j] = path[j - 1] /\ j - 1 \in 1 .. Len(path) BY <1>1, <2>3
    <3> QED BY <1>1, <2>1, <2>3, <3>1
  <2>4. CASE i # 1 /\ j = 1
    <3>1. longer[i] = path[i - 1] /\ i - 1 \in 1 .. Len(path) BY <1>1, <2>4
    <3> QED BY <1>1, <2>1, <2>4, <3>1
  <2>5. CASE i # 1 /\ j # 1
    <3>1. /\ longer[i] = path[i - 1] /\ i - 1 \in 1 .. Len(path)
          /\ longer[j] = path[j - 1] /\ j - 1 \in 1 .. Len(path)
      BY <1>1, <2>5
    <3>2. i - 1 = j - 1 BY <2>1, <3>1 DEF WayUp
    <3> QED BY <3>2
  <2> QED BY <2>2, <2>3, <2>4, <2>5
<1>5. \A i \in 2 .. Len(longer) : <<longer[i], longer[i - 1]>> \in edges
  <2>1. SUFFICES ASSUME NEW i \in 2 .. Len(longer) PROVE <<longer[i], longer[i - 1]>> \in edges
    OBVIOUS
  <2>2. CASE i = 2
    <3>1. longer[2] = path[1] /\ longer[i - 1] = x /\ path # <<>> BY <1>1, <1>3, <2>2
    <3> QED BY <2>2, <3>1
  <2>3. CASE i # 2
    <3>1. /\ longer[i] = path[i - 1] /\ longer[i - 1] = path[(i - 1) - 1]
          /\ i - 1 \in 2 .. Len(path)
      BY <1>1, <2>3
    <3> QED BY <3>1 DEF WayUp
  <2> QED BY <2>2, <2>3
<1> QED BY <1>1, <1>2, <1>4, <1>5 DEF WayUp, longer

LEMMA FoldersInit ==
  ASSUME Folders!Init
  PROVE  FoldersInv
<1>1. /\ resolving = Folders!NoRequest /\ made = "healthy" /\ account = "healthy"
      /\ above \in [Directory -> Directory \cup {ProviderRoot, Outside}]
  BY DEF Folders!Init
<1>2. <<>> \in Seq(Directory \cup {ProviderRoot}) OBVIOUS
<1> QED BY <1>1, <1>2
        DEF FoldersInv, FoldersTypes, Walk, Path, Elsewhere, Folders!NoRequest, FolderRequest,
            FoldersPcs, Accounts

(* A request is answered.                                                  *)
LEMMA FolderAnswered ==
  ASSUME FoldersInv, Folders!Answer, UNCHANGED <<above, account>>, made' = "healthy"
  PROVE  FoldersInv'
<1>1. resolving' = Folders!NoRequest BY DEF Folders!Answer
<1>2. <<>> \in Seq(Directory \cup {ProviderRoot}) OBVIOUS
<1> QED BY <1>1, <1>2
        DEF FoldersInv, FoldersTypes, Walk, Path, Elsewhere, Folders!NoRequest, FolderRequest,
            FoldersPcs, Accounts

(* A walk that has come to the root.                                       *)
LEMMA FoundInv ==
  ASSUME FoldersInv, NEW path \in Seq(Directory \cup {ProviderRoot}),
         path # <<>>, path[1] = ProviderRoot, Len(path) <= AncestryLimit + 1, WayUp(path),
         Folders!Found(path), UNCHANGED <<above, account, made>>
  PROVE  FoldersInv'
<1> DEFINE storing == resolving.op = "createRoot" /\ resolving.walk = 2
           pc == CASE resolving.op = "createRoot" /\ resolving.walk = 1 -> "root"
                   [] storing -> "mutating"
                   [] resolving.op = "browse" -> "listing"
                   [] OTHER -> "found"
           kept == IF storing THEN path ELSE <<>>
<1>1. /\ edges' = IF storing THEN edges ELSE {}
      /\ resolving' = [resolving EXCEPT !.trail = kept, !.walk = 2, !.pc = pc]
  BY DEF Folders!Found
<1>2. resolving \in FolderRequest BY DEF FoldersInv, FoldersTypes
<1>3. pc \in {"root", "mutating", "listing", "found"} /\ (pc = "mutating" <=> storing)
  BY <1>2 DEF FolderRequest
<1>4. kept \in Seq(Directory \cup {ProviderRoot}) OBVIOUS
<1>5. storing => kept = path /\ edges' = edges BY <1>1
<1>6. ~storing => kept = <<>> OBVIOUS
<1> HIDE DEF storing, pc, kept
<1>7. resolving' \in FolderRequest /\ resolving'.pc = pc /\ resolving'.trail = kept
  BY <1>1, <1>2, <1>3, <1>4 DEF FolderRequest, FoldersPcs
<1>8. FoldersTypes' BY <1>7 DEF FoldersInv, FoldersTypes
<1>9. Walk' BY <1>3, <1>7 DEF Walk
<1>10. Path'
  <2>1. SUFFICES ASSUME pc = "mutating" PROVE Path' BY <1>7 DEF Path
  <2>2. resolving'.trail = path /\ edges' = edges BY <1>3, <1>5, <1>7, <2>1
  <2>3. WayUp(path)' BY <2>2 DEF WayUp
  <2>4. WayUp(resolving.trail)' BY <2>2 DEF WayUp
  <2> QED BY <2>2, <2>4 DEF Path
<1>11. Elsewhere' BY <1>3, <1>6, <1>7 DEF Elsewhere
<1> QED BY <1>8, <1>9, <1>10, <1>11 DEF FoldersInv

LEMMA GetRootInv ==
  ASSUME FoldersInv, Folders!GetRoot
  PROVE  FoldersInv'
<1>1. resolving \in FolderRequest /\ resolving.pc = "root"
      /\ UNCHANGED <<above, account, made>>
  BY DEF FoldersInv, FoldersTypes, Folders!GetRoot, Folders!Unchanged
<1>2. CASE Folders!Answer
  BY <1>1, <1>2, FolderAnswered DEF FoldersInv, FoldersTypes
<1>3. CASE resolving.target = ProviderRoot /\ ~Folders!Answer
  <2>1. Folders!Found(<<ProviderRoot>>) BY <1>3 DEF Folders!GetRoot
  <2>2. <<ProviderRoot>> \in Seq(Directory \cup {ProviderRoot}) /\ <<ProviderRoot>> # <<>>
        /\ <<ProviderRoot>>[1] = ProviderRoot /\ Len(<<ProviderRoot>>) = 1
    OBVIOUS
  <2>3. WayUp(<<ProviderRoot>>) BY <2>2 DEF WayUp
  <2>4. 1 <= AncestryLimit + 1 BY FoldersConstants
  <2> QED BY <1>1, <2>1, <2>2, <2>3, <2>4, FoundInv
<1>4. CASE resolving.target # ProviderRoot /\ ~Folders!Answer
  <2>1. /\ resolving' = [resolving EXCEPT !.pc = "walking", !.next = resolving.target,
                                          !.trail = <<>>]
        /\ edges' = Folders!EdgesOf(above)
    BY <1>4 DEF Folders!GetRoot
  <2>2. resolving.target \in Directory BY <1>1, <1>4 DEF FolderRequest
  <2>3. /\ <<>> \in Seq(Directory \cup {ProviderRoot}) /\ <<>> \in Seq(Directory)
        /\ Len(<<>>) = 0
    OBVIOUS
  <2>4. /\ resolving' \in FolderRequest /\ resolving'.pc = "walking"
        /\ resolving'.next = resolving.target /\ resolving'.trail = <<>>
    BY <1>1, <2>1, <2>2, <2>3 DEF FolderRequest, FoldersPcs
  <2>5. FoldersTypes' BY <1>1, <2>4 DEF FoldersInv, FoldersTypes
  <2>6. Walk'
    <3>1. Folders!EdgesOf(above)' = edges' BY <1>1, <2>1 DEF Folders!EdgesOf
    <3>2. WayUp(resolving.trail)' BY <2>3, <2>4 DEF WayUp
    <3> QED BY <2>2, <2>3, <2>4, <3>1, <3>2, FoldersConstants DEF Walk
  <2>7. Path' /\ Elsewhere' BY <2>4 DEF Path, Elsewhere
  <2> QED BY <2>5, <2>6, <2>7 DEF FoldersInv
<1> QED BY <1>2, <1>3, <1>4

LEMMA GetNodeInv ==
  ASSUME FoldersInv, Folders!GetNode
  PROVE  FoldersInv'
<1> DEFINE folder == resolving.next
           path == resolving.trail
<1>1. /\ resolving \in FolderRequest /\ resolving.pc = "walking"
      /\ UNCHANGED <<above, account, made>>
      /\ above \in [Directory -> Directory \cup {ProviderRoot, Outside}]
  BY DEF FoldersInv, FoldersTypes, Folders!GetNode, Folders!Unchanged
<1>2. /\ folder \in Directory /\ path \in Seq(Directory) /\ Len(path) < AncestryLimit
      /\ WayUp(path) /\ (path # <<>> => <<path[1], folder>> \in edges)
      /\ <<folder, above[folder]>> \in edges
  BY <1>1 DEF FoldersInv, Walk, Folders!EdgesOf
<1>3. Folders!Visited(folder) <=> \E i \in 1 .. Len(path) : path[i] = folder
  BY DEF Folders!Visited, Folders!Contains
<1>4. CASE Folders!Visited(folder)
  <2>1. Folders!Answer BY <1>4 DEF Folders!GetNode
  <2> QED BY <1>1, <2>1, FolderAnswered DEF FoldersInv, FoldersTypes
<1>5. CASE ~Folders!Visited(folder)
  <2> DEFINE longer == <<folder>> \o path
  <2>1. /\ longer \in Seq(Directory) /\ longer # <<>> /\ Len(longer) = Len(path) + 1
        /\ longer[1] = folder /\ WayUp(longer)
    <3> HIDE DEF folder, path
    <3> QED BY <1>2, <1>3, <1>5, Lengthened
  <2>2. CASE above[folder] = ProviderRoot
    <3>1. Folders!Found(<<ProviderRoot>> \o longer)
      BY <1>5, <2>2, FoldersConstants DEF Folders!GetNode
    <3> HIDE DEF longer
    <3>2. /\ longer \in Seq(Directory \cup {ProviderRoot})
          /\ \A i \in 1 .. Len(longer) : longer[i] # ProviderRoot
      <4>1. \A i \in 1 .. Len(longer) : longer[i] \in Directory BY <2>1
      <4>2. longer \in Seq(Directory \cup {ProviderRoot}) BY <2>1
      <4> QED BY <4>1, <4>2, FoldersConstants
    <3>3. <<longer[1], ProviderRoot>> \in edges BY <1>2, <2>1, <2>2
    <3>4. /\ <<ProviderRoot>> \o longer \in Seq(Directory \cup {ProviderRoot})
          /\ <<ProviderRoot>> \o longer # <<>>
          /\ Len(<<ProviderRoot>> \o longer) = Len(longer) + 1
          /\ (<<ProviderRoot>> \o longer)[1] = ProviderRoot
          /\ WayUp(<<ProviderRoot>> \o longer)
      BY <2>1, <3>2, <3>3, Lengthened
    <3>5. Len(<<ProviderRoot>> \o longer) <= AncestryLimit + 1
      <4>1. Len(path) \in Nat BY <1>2
      <4> HIDE DEF path
      <4> QED BY <1>2, <2>1, <3>4, <4>1, FoldersConstants
    <3> QED BY <1>1, <3>1, <3>4, <3>5, FoundInv
  <2>3. CASE above[folder] # ProviderRoot /\ Folders!Answer
    BY <1>1, <2>3, FolderAnswered DEF FoldersInv, FoldersTypes
  <2>4. CASE above[folder] # ProviderRoot /\ ~Folders!Answer
    <3>1. /\ above[folder] # Outside /\ Len(longer) # AncestryLimit
          /\ resolving' = [resolving EXCEPT !.next = above[folder], !.trail = longer]
          /\ edges' = edges
      BY <1>5, <2>4 DEF Folders!GetNode
    <3> HIDE DEF longer
    <3>2. above[folder] \in Directory BY <1>1, <1>2, <2>4, <3>1
    <3>3. longer \in Seq(Directory \cup {ProviderRoot}) BY <2>1
    <3>4. /\ resolving' \in FolderRequest /\ resolving'.pc = "walking"
          /\ resolving'.next = above[folder] /\ resolving'.trail = longer
      BY <1>1, <3>1, <3>2, <3>3 DEF FolderRequest
    <3>5. FoldersTypes' BY <1>1, <3>4 DEF FoldersInv, FoldersTypes
    <3>6. Walk'
      <4>1. Folders!EdgesOf(above)' \subseteq edges'
        BY <1>1, <3>1 DEF Folders!EdgesOf, FoldersInv, Walk
      <4>2. WayUp(resolving.trail)' BY <2>1, <3>1, <3>4 DEF WayUp
      <4>3. Len(longer) < AncestryLimit
        <5>1. Len(path) \in Nat BY <1>2
        <5> HIDE DEF path
        <5> QED BY <1>2, <2>1, <3>1, <5>1, FoldersConstants
      <4>4. <<longer[1], above[folder]>> \in edges' BY <1>2, <2>1, <3>1
      <4> QED BY <2>1, <3>2, <3>4, <4>1, <4>2, <4>3, <4>4 DEF Walk
    <3>7. Path' /\ Elsewhere' BY <3>4 DEF Path, Elsewhere
    <3> QED BY <3>5, <3>6, <3>7 DEF FoldersInv
  <2> QED BY <2>2, <2>3, <2>4
<1> QED BY <1>4, <1>5

(* A request begins, or its token is refreshed.                            *)
LEMMA FolderRequestInv ==
  ASSUME FoldersInv,
         \/ \E op \in Folders!Operations, d \in Directory \cup {ProviderRoot} :
              Folders!SourceContext(op, d)
         \/ Folders!TokenRejected
  PROVE  FoldersInv'
<1>1. resolving \in FolderRequest BY DEF FoldersInv, FoldersTypes
<1>2. ASSUME NEW op \in Folders!Operations, NEW d \in Directory \cup {ProviderRoot},
             Folders!SourceContext(op, d)
      PROVE  FoldersInv'
  <2>1. /\ resolving' = [Folders!NoRequest EXCEPT !.pc = "root", !.op = op, !.target = d]
        /\ UNCHANGED <<above, account, made>>
    BY <1>2 DEF Folders!SourceContext, Folders!Unchanged
  <2>2. <<>> \in Seq(Directory \cup {ProviderRoot}) OBVIOUS
  <2>3. resolving' \in FolderRequest /\ resolving'.pc = "root" /\ resolving'.trail = <<>>
    BY <2>1, <2>2 DEF Folders!NoRequest, FolderRequest, FoldersPcs, Folders!Operations
  <2> QED BY <2>1, <2>3 DEF FoldersInv, FoldersTypes, Walk, Path, Elsewhere
<1>3. CASE Folders!TokenRejected
  <2>1. CASE Folders!Answer
    BY <1>3, <2>1, FolderAnswered
    DEF Folders!TokenRejected, Folders!Unchanged, FoldersInv, FoldersTypes
  <2>2. CASE ~Folders!Answer
    <3>1. /\ resolving' = [resolving EXCEPT !.refreshed = TRUE] /\ edges' = edges
          /\ UNCHANGED <<above, account, made>>
      BY <1>3, <2>2 DEF Folders!TokenRejected, Folders!Unchanged
    <3>2. /\ resolving' \in FolderRequest /\ resolving'.pc = resolving.pc
          /\ resolving'.trail = resolving.trail /\ resolving'.next = resolving.next
      BY <1>1, <3>1 DEF FolderRequest
    <3>3. WayUp(resolving.trail) => WayUp(resolving.trail)' BY <3>1, <3>2 DEF WayUp
    <3>4. Folders!EdgesOf(above)' = Folders!EdgesOf(above) BY <3>1 DEF Folders!EdgesOf
    <3> QED BY <3>1, <3>2, <3>3, <3>4 DEF FoldersInv, FoldersTypes, Walk, Path, Elsewhere
  <2> QED BY <2>1, <2>2
<1> QED BY <1>2, <1>3

LEMMA FolderEndsInv ==
  ASSUME FoldersInv, Folders!ProviderFails \/ Folders!Listed \/ Folders!Mutate
  PROVE  FoldersInv'
BY FolderAnswered
DEF Folders!ProviderFails, Folders!Listed, Folders!Mutate, Folders!Unchanged, FoldersInv,
    FoldersTypes

LEMMA AroundFoldersInv ==
  ASSUME FoldersInv,
         \/ \E d \in Directory, p \in Directory \cup {ProviderRoot, Outside} : Folders!Move(d, p)
         \/ Folders!ChangeAccount
  PROVE  FoldersInv'
<1>1. ASSUME NEW d \in Directory, NEW p \in Directory \cup {ProviderRoot, Outside},
             Folders!Move(d, p)
      PROVE  FoldersInv'
  <2>1. /\ above' = [above EXCEPT ![d] = p]
        /\ edges' = IF resolving.pc = "walking" THEN edges \cup {<<d, p>>} ELSE edges
        /\ UNCHANGED <<account, resolving, made>>
    BY <1>1 DEF Folders!Move
  <2>2. FoldersTypes' BY <2>1 DEF FoldersInv, FoldersTypes
  <2>3. edges \subseteq edges' BY <2>1
  <2>4. WayUp(resolving.trail) => WayUp(resolving.trail)' BY <2>1, <2>3 DEF WayUp
  <2>5. resolving.pc = "walking" /\ Folders!EdgesOf(above) \subseteq edges
          => Folders!EdgesOf(above)' \subseteq edges'
    BY <2>1 DEF FoldersInv, FoldersTypes, Folders!EdgesOf
  <2>6. Walk' BY <2>1, <2>3, <2>4, <2>5 DEF FoldersInv, Walk
  <2>7. Path' /\ Elsewhere' BY <2>1, <2>4 DEF FoldersInv, Path, Elsewhere
  <2> QED BY <2>2, <2>6, <2>7 DEF FoldersInv
<1>2. CASE Folders!ChangeAccount
  <2>1. account' \in Accounts /\ UNCHANGED <<above, edges, resolving, made>>
    BY <1>2 DEF Folders!ChangeAccount, Accounts
  <2> QED BY <2>1
          DEF FoldersInv, FoldersTypes, Walk, Path, Elsewhere, WayUp, Folders!EdgesOf
<1> QED BY <1>1, <1>2

LEMMA FoldersStep ==
  ASSUME FoldersInv, Folders!Next \/ UNCHANGED foldersVars
  PROVE  FoldersInv'
<1>1. CASE UNCHANGED foldersVars
  BY <1>1
  DEF foldersVars, FoldersInv, FoldersTypes, Walk, Path, Elsewhere, WayUp, Folders!EdgesOf
<1> QED
  BY <1>1, GetRootInv, GetNodeInv, FolderRequestInv, FolderEndsInv, AroundFoldersInv
  DEF Folders!Next

LEMMA FoldersHold == Spec => [](part = "folders" => FoldersInv)
<1>1. Init => (part = "folders" => FoldersInv) BY FoldersInit DEF Init
<1>2. (part = "folders" => FoldersInv) /\ [Next]_vars => (part = "folders" => FoldersInv)'
  <2>1. SUFFICES ASSUME [Next]_vars, part' = "folders", part = "folders" => FoldersInv
                 PROVE  FoldersInv'
    OBVIOUS
  <2>2. part = "folders" BY <2>1 DEF Next, vars
  <2> QED BY <2>1, <2>2, FoldersStep DEF Next, vars
<1> QED BY <1>1, <1>2, PTL DEF Spec

(* The ancestry stored with a root is a way from the root of the account   *)
(* to the folder, every step of which existed since the walk began,        *)
(* however folders were moved under the walk.                              *)
THEOREM StoredPathExistedHolds == Spec => []StoredPathExisted
<1>1. FoldersInv => Folders!StoredPathExisted
  BY DEF Folders!StoredPathExisted, FoldersInv, FoldersTypes, FolderRequest, Path, WayUp
<1>2. (part = "folders" => FoldersInv) => StoredPathExisted BY <1>1 DEF StoredPathExisted
<1> QED BY <1>2, FoldersHold, PTL

(* The variables of ProviderFolders keep their types.                      *)
LEMMA FoldersTypeOK == FoldersInv => Folders!TypeOK
<1>1. ASSUME FoldersInv PROVE Len(resolving.trail) <= AncestryLimit + 1
  <2>1. Len(resolving.trail) \in Nat BY <1>1 DEF FoldersInv, FoldersTypes, FolderRequest
  <2>2. CASE resolving.trail = <<>> BY <2>2, FoldersConstants
  <2>3. CASE resolving.trail # <<>>
    BY <1>1, <2>1, <2>3, FoldersConstants DEF FoldersInv, Walk, Path, Elsewhere
  <2> QED BY <2>2, <2>3
<1> QED BY <1>1
        DEF Folders!TypeOK, FoldersInv, FoldersTypes, FolderRequest, FoldersPcs, Accounts,
            Folders!Operations, Folders!AtProvider
=============================================================================
