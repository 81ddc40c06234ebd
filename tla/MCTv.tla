--------------------------------- MODULE MCTv ----------------------------------
(***************************************************************************)
(* The media viewer of the TV and the bridge that plays Drive files for it, *)
(* on small instances.  A behaviour is one of one part: `part' says which,  *)
(* and the variables of the other stay Unused.                              *)
(***************************************************************************)
EXTENDS Integers, Sequences, FiniteSets

CONSTANTS
  Kinds, RequestBound, UserBound,
  Grant, urlOf, Element, MaxGrants, MaxMutations, RestartBound

(* A video followed by an image: the URL of the image is fetched while the  *)
(* video is watched, and the video may fall back to HLS.                    *)
MCKinds == <<"video", "image">>

(* Two sessions for one file, a worker that remembers one of them.          *)
MCUrlOf == [s \in Grant |-> "u"]

(* The bounds leave room for the window a viewer opens with.                *)
ASSUME TvAssumption ==
  /\ Kinds \in Seq({"image", "video"})
  /\ RequestBound \in Nat /\ RequestBound >= 3 /\ UserBound \in Nat
  /\ IsFiniteSet(Grant) /\ Grant # {}
  /\ MaxGrants \in Nat /\ MaxMutations \in Nat /\ RestartBound \in Nat

VARIABLES
  part,
  view, shown, owed, urlCalls, inflight, live, prepared, hls, fallback, evidence, ended, keys,
  automatic,
  session, told, seen, outdated, toWorker, toPage, stored, checking, mutations, request, restarts

Player == INSTANCE Viewer
Bridge == INSTANCE MediaBridge

Unused == "unused"
viewerVars == <<view, shown, owed, urlCalls, inflight, live, prepared, hls, fallback, evidence,
                ended, keys, automatic>>
bridgeVars == <<session, told, seen, outdated, toWorker, toPage, stored, checking, mutations,
                request, restarts>>
vars == <<part, viewerVars, bridgeVars>>

NoViewer == view = Unused /\ shown = Unused /\ owed = Unused /\ urlCalls = Unused
            /\ inflight = Unused /\ live = Unused /\ prepared = Unused /\ hls = Unused
            /\ fallback = Unused /\ evidence = Unused /\ ended = Unused /\ keys = Unused
            /\ automatic = Unused
NoBridge == session = Unused /\ told = Unused /\ seen = Unused /\ outdated = Unused
            /\ toWorker = Unused /\ toPage = Unused /\ stored = Unused /\ checking = Unused
            /\ mutations = Unused /\ request = Unused /\ restarts = Unused

Init ==
  \/ part = "viewer" /\ Player!Init /\ NoBridge
  \/ part = "bridge" /\ Bridge!Init /\ NoViewer

Next ==
  /\ UNCHANGED part
  /\ \/ part = "viewer" /\ Player!Next /\ UNCHANGED bridgeVars
     \/ part = "bridge" /\ Bridge!Next /\ UNCHANGED viewerVars

Spec == Init /\ [][Next]_vars

-------------------------------------------------------------------------------
(* Every variable of a part keeps its shape.                                *)
TypeOK ==
  /\ part = "viewer" => Player!TypeOK
  /\ part = "bridge" => Bridge!TypeOK

(* Viewer: the URL that is shown answers the last request for its item.     *)
AnswerIsTheLatest == part = "viewer" => Player!AnswerIsTheLatest

(* Viewer: no bearer session of the bridge is forgotten.                    *)
SessionsAccountedFor == part = "viewer" => Player!SessionsAccountedFor

(* Viewer: a rejected URL is refreshed once and not for ever.               *)
RefreshedOnce == part = "viewer" => Player!RefreshedOnce

(* Viewer: what is loading has a request under way.                         *)
LoadingIsAsked == part = "viewer" => Player!LoadingIsAsked

(* MediaBridge: a revoked token does not stay in the worker.                *)
RevokedStaysRevoked == part = "bridge" => Bridge!RevokedStaysRevoked
===============================================================================
