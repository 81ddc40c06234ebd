--------------------------- MODULE ProviderFolders ---------------------------
(***************************************************************************)
(* The folders of a source as its administrator sees them                  *)
(* (services/live-provider-folders.ts): browsing, the ancestry of a folder *)
(* and making a folder a root.                                             *)
(*                                                                         *)
(* Nothing of the tree is stored: a folder is resolved by asking the       *)
(* provider for it, then for its parent, and so on up to the root of the   *)
(* account.  Folders are moved while that goes on.  One request at a time; *)
(* what others do meanwhile are the actions after "Around it".             *)
(***************************************************************************)
EXTENDS Integers, Sequences, FiniteSets, SequencesExt

CONSTANTS
  Directory,     \* folders below the root of the account
  ProviderRoot,  \* providerRootId of the source
  Outside,       \* the parent of a folder that is outside of the account
  AncestryLimit  \* CONTROL_PLANE_LIMITS.ancestryEntries

VARIABLES
  above,         \* parentProviderId of each folder
  edges,         \* history: <<folder, parent>> that have held since the walk began
  account,       \* the source, "changed" when it was removed or is of another account
  resolving,     \* the request
  made           \* history: the account when the last root was stored

foldersVars == <<above, edges, account, resolving, made>>

NoRequest == [pc |-> "idle", op |-> "browse", target |-> ProviderRoot, walk |-> 1, next |-> ProviderRoot,
              trail |-> <<>>, refreshed |-> FALSE]
Operations == {"browse", "resolveAncestry", "createRoot"}
EdgesOf(tree) == {<<d, tree[d]>> : d \in Directory}

Init ==
  /\ above \in [Directory -> Directory \cup {ProviderRoot, Outside}]
  /\ edges = {}
  /\ account = "healthy"
  /\ resolving = NoRequest
  /\ made = "healthy"

-----------------------------------------------------------------------------
Answer == resolving' = NoRequest /\ edges' = {}
Unchanged == UNCHANGED <<above, account, made>>

(* sourceContext: the source of the document, and its credentials.         *)
SourceContext(op, target) ==
  /\ resolving.pc = "idle"
  /\ account = "healthy"
  /\ resolving' = [NoRequest EXCEPT !.pc = "root", !.op = op, !.target = target]
  /\ edges' = {}
  /\ Unchanged

(* resolveNodes has what it was asked for: createRoot() does it twice,     *)
(* browse() lists the folder that was found.                               *)
Found(trail) ==
  LET storing == resolving.op = "createRoot" /\ resolving.walk = 2 IN
  /\ edges' = IF storing THEN edges ELSE {}
  /\ resolving' = [resolving EXCEPT !.trail = IF storing THEN trail ELSE <<>>,
    !.walk = 2,
    !.pc = CASE resolving.op = "createRoot" /\ resolving.walk = 1 -> "root"
             [] storing -> "mutating"
             [] resolving.op = "browse" -> "listing"
             [] OTHER -> "found"]

(* getRoot: the provider's root must be the one the source was stored with. *)
GetRoot ==
  /\ resolving.pc = "root"
  /\ \/ IF resolving.target = ProviderRoot THEN Found(<<ProviderRoot>>)
        ELSE /\ resolving' = [resolving EXCEPT !.pc = "walking", !.next = resolving.target,
                                               !.trail = <<>>]
             /\ edges' = EdgesOf(above)
     \/ Answer
  /\ Unchanged

(* Mutant: a folder may come twice on the way up.                          *)
VisitedNot(folder) == FALSE

Visited(folder) == Contains(resolving.trail, folder)

(* getNode: the folder, as it is now, and what its parent makes of it.     *)
(* trail has what has been visited, the target last.                       *)
GetNode ==
  LET folder == resolving.next
      trail == <<folder>> \o resolving.trail
  IN
  /\ resolving.pc = "walking"
  /\ CASE Visited(folder) -> Answer
       [] ~Visited(folder) /\ above[folder] = ProviderRoot -> Found(<<ProviderRoot>> \o trail)
       [] ~Visited(folder) /\ (above[folder] = Outside \/ (above[folder] # ProviderRoot
                                                          /\ Len(trail) = AncestryLimit)) -> Answer
       [] OTHER -> /\ resolving' = [resolving EXCEPT !.next = above[folder], !.trail = trail]
                   /\ UNCHANGED edges
  /\ Unchanged

AtProvider == {"root", "walking", "listing"}

(* providerCall: one refresh for all the calls of a request.               *)
TokenRejected ==
  /\ resolving.pc \in AtProvider
  /\ IF resolving.refreshed THEN Answer
     ELSE resolving' = [resolving EXCEPT !.refreshed = TRUE] /\ UNCHANGED edges
  /\ Unchanged

(* The folder is gone or is not one, the provider does not answer, or the  *)
(* grant has ended, which no refresh can mend.                             *)
ProviderFails ==
  /\ resolving.pc \in AtProvider
  /\ Answer
  /\ Unchanged

Listed ==
  /\ resolving.pc \in {"listing", "found"}
  /\ Answer
  /\ Unchanged

(* The reducer: the source must be healthy and of the same account, which  *)
(* sameSourceIdentity compares.                                            *)
Mutate ==
  /\ resolving.pc = "mutating"
  /\ IF account = "healthy" THEN made' = account ELSE UNCHANGED made
  /\ Answer
  /\ UNCHANGED <<above, account>>

-----------------------------------------------------------------------------
(* Around it.                                                              *)

Move(d, p) ==
  /\ p # above[d]
  /\ above' = [above EXCEPT ![d] = p]
  /\ edges' = IF resolving.pc = "walking" THEN edges \cup {<<d, p>>} ELSE edges
  /\ UNCHANGED <<account, resolving, made>>

(* The source needs to be authorized, or it is removed and perhaps another *)
(* account connected in its place.                                         *)
ChangeAccount ==
  /\ account' \in IF resolving.pc = "idle" THEN {"healthy", "reauth-required"}
                 ELSE {"changed"} \cup {a \in {"healthy", "reauth-required"} : account # "changed"}
  /\ account' # account
  /\ UNCHANGED <<above, edges, resolving, made>>

Next ==
  \/ \E op \in Operations, d \in Directory \cup {ProviderRoot} : SourceContext(op, d)
  \/ GetRoot \/ GetNode \/ TokenRejected \/ ProviderFails \/ Listed \/ Mutate
  \/ \E d \in Directory, p \in Directory \cup {ProviderRoot, Outside} : Move(d, p)
  \/ ChangeAccount

Spec == Init /\ [][Next]_foldersVars

-----------------------------------------------------------------------------
TypeOK ==
  /\ above \in [Directory -> Directory \cup {ProviderRoot, Outside}]
  /\ resolving.pc \in AtProvider \cup {"idle", "found", "mutating"}
  /\ resolving.op \in Operations /\ resolving.walk \in {1, 2}
  /\ Len(resolving.trail) <= AncestryLimit + 1
  /\ account \in {"healthy", "reauth-required", "changed"}

(* The path with which a root is stored begins at the root of the account, *)
(* no folder comes twice in it, and each was in the one before it at some  *)
(* time since the walk began, however the folders were moved under it.     *)
(* And no root is stored in an account other than the one it was found in. *)
StoredPathExisted ==
  LET path == resolving.trail IN
  /\ made # "changed"
  /\ resolving.pc = "mutating" =>
       /\ Head(path) = ProviderRoot
       /\ \A i, j \in DOMAIN path : path[i] = path[j] => i = j
       /\ \A i \in 2 .. Len(path) : <<path[i], path[i - 1]>> \in edges
=============================================================================
