-------------------------------- MODULE Viewer --------------------------------
(***************************************************************************)
(* The media viewer of the TV: the pure reducer of packages/tv-core         *)
(* (viewer.ts) and the component that feeds it (apps/tv, viewer.tsx).       *)
(*                                                                         *)
(* The reducer keeps the URL window (the active item and the images next    *)
(* to it), each entry with the number of the request that must answer it,   *)
(* and a ledger of the refreshes an item has used.  The component asks the  *)
(* server for the URLs, holds the media sessions that come with them, and   *)
(* dispatches what happens.  React renders after a dispatch and runs the    *)
(* effects after that render, so a callback may run with `shown' (the state *)
(* of the last render, urlsRef and activeRef in the code) behind `view'.    *)
(*                                                                         *)
(* Left out: playback intent, the controls and the overlay, watch history   *)
(* and positions, which no step below reads.                               *)
(***************************************************************************)
EXTENDS Integers, Sequences, FiniteSets

CONSTANTS Kinds,            \* the sequence of media: "image" or "video" each
          RequestBound,     \* how many URL requests are made
          UserBound         \* how many keys are pressed

VARIABLES view,             \* the reducer's state
          shown,            \* the state of the last render
          owed,             \* the effects of the last render have not run
          urlCalls,         \* request -> the call api.mediaUrl made for it
          inflight,         \* item -> the request in inflightUrls, 0 if none
          live,             \* bridge sessions that were prepared and not released
          prepared,         \* preparedSessions: item -> session, 0 if none
          hls,              \* hlsSessions: item -> session, 0 if none
          fallback,         \* requestedHlsFallback
          evidence,         \* item -> the session whose evidence is awaited
          ended,            \* closed, unauthorized, expired or unmounted
          keys,             \* keys pressed
          automatic         \* item -> automatic refreshes since it was last fresh

viewerVars == <<view, shown, owed, urlCalls, inflight, live, prepared, hls, fallback,
                evidence, ended, keys, automatic>>

Media == DOMAIN Kinds
UrlRequest == 1..RequestBound

-------------------------------------------------------------------------------
(* The reducer.                                                             *)

Absent == [status |-> "none", request |-> 0, kind |-> "none", used |-> FALSE, answer |-> 0]
Loading(r, used) ==
  [status |-> "loading", request |-> r, kind |-> "none", used |-> used, answer |-> 0]

WithUrlWindow(v) ==
  LET near == {i \in Media : i \in v.index - 1 .. v.index + 1}
      wanted == {i \in near : i = v.index \/ Kinds[i] = "image"}
      fresh == {i \in wanted : v.urls[i].status = "none"}
      Number(i) == v.next + Cardinality({j \in fresh : j < i})
  IN [v EXCEPT
        !.urls = [i \in Media |-> IF i \notin wanted THEN Absent
                                  ELSE IF i \in fresh
                                       THEN Loading(Number(i), v.ledger[i] # "unused")
                                       ELSE v.urls[i]],
        !.next = @ + Cardinality(fresh)]

(* createViewerState *)
Opened(i) ==
  WithUrlWindow([index |-> i, slideshow |-> FALSE, error |-> "none",
                 urls |-> [m \in Media |-> Absent], ledger |-> [m \in Media |-> "unused"],
                 next |-> 1])

(* An error of the active item ends the slideshow; one of another item is   *)
(* kept in its entry only.                                                  *)
Stopped(v, i, error) ==
  IF i = v.index THEN [v EXCEPT !.error = error, !.slideshow = FALSE] ELSE v
Cleared(v, i) == IF i = v.index THEN [v EXCEPT !.error = "none"] ELSE v

Navigate(v, step) ==
  LET to == v.index + step
      failed == to \in Media /\ v.urls[to].status = "error"
  IN IF to \notin Media THEN v
     ELSE WithUrlWindow([v EXCEPT !.index = to,
                                  !.error = IF failed THEN v.urls[to].kind ELSE "none",
                                  !.slideshow = @ /\ ~failed])

Enter(v) ==
  IF Kinds[v.index] = "image"
  THEN [v EXCEPT !.slideshow = ~@, !.error = "none"] ELSE v

SlideshowTick(v) ==
  IF ~v.slideshow \/ Kinds[v.index] # "image" THEN v
  ELSE IF v.index = Len(Kinds) THEN [v EXCEPT !.slideshow = FALSE]
  ELSE Navigate(v, 1)

VideoEnded(v, i) ==
  IF i # v.index THEN v
  ELSE IF ~v.slideshow \/ i = Len(Kinds) THEN [v EXCEPT !.slideshow = FALSE]
  ELSE Navigate(v, 1)

AwaitsAnything(v, i, r) == v.urls[i].status = "loading"
Awaits(v, i, r) == v.urls[i].status = "loading" /\ v.urls[i].request = r

UrlReadyForgiving(v, i, r, kind) ==
  IF ~Awaits(v, i, r) THEN v
  ELSE [Cleared(v, i) EXCEPT
          !.urls[i] = [status |-> "ready", request |-> r, kind |-> kind, used |-> FALSE,
                       answer |-> r],
          !.ledger[i] = "unused"]
UrlReady(v, i, r, kind) ==
  IF ~Awaits(v, i, r) THEN v
  ELSE LET keeps == v.ledger[i] = "preserved"
       IN [Cleared(v, i) EXCEPT
             !.urls[i] = [status |-> "ready", request |-> v.urls[i].request, kind |-> kind,
                          used |-> keeps, answer |-> r],
             !.ledger[i] = IF keeps THEN "used" ELSE "unused"]

UrlFailed(v, i, r, error) ==
  IF ~Awaits(v, i, r) THEN v
  ELSE [Stopped(v, i, error) EXCEPT
          !.urls[i] = [@ EXCEPT !.status = "error", !.kind = error]]

UrlExpired(v, i, r) ==
  IF v.urls[i].status # "ready" \/ v.urls[i].request # r THEN v
  ELSE [Cleared(v, i) EXCEPT !.urls[i] = Loading(v.next, FALSE),
                             !.ledger[i] = "unused", !.next = @ + 1]

(* preserve is TRUE for authorization-expired and FALSE for manual-retry.   *)
RefreshUrlOnce(v, i, preserve) ==
  IF v.urls[i].status = "none" THEN v
  ELSE IF v.ledger[i] # "unused"
       THEN [Stopped(v, i, "final") EXCEPT
               !.urls[i] = [@ EXCEPT !.status = "error", !.kind = "final", !.used = TRUE]]
  ELSE [Cleared(v, i) EXCEPT !.urls[i] = Loading(v.next, TRUE),
                             !.ledger[i] = IF preserve THEN "preserved" ELSE "used",
                             !.next = @ + 1]

HlsFallback(v, i) ==
  IF v.urls[i].status # "ready" \/ v.urls[i].kind = "hls" THEN v
  ELSE [Cleared(v, i) EXCEPT !.urls[i] = Loading(v.next, v.urls[i].used), !.next = @ + 1]

-------------------------------------------------------------------------------
(* The component.                                                           *)

(* dispatch: the state changes; the render and its effects come later.      *)
Dispatch(v) == v.next <= RequestBound + 1 /\ view' = v

NoUrlCall == [phase |-> "none", item |-> 0, aborted |-> FALSE]

Init ==
  \E i \in Media :
    /\ view = Opened(i)
    /\ shown = Opened(i)
    /\ owed = TRUE
    /\ urlCalls = [r \in UrlRequest |-> NoUrlCall]
    /\ inflight = [m \in Media |-> 0]
    /\ live = {}
    /\ prepared = [m \in Media |-> 0]
    /\ hls = [m \in Media |-> 0]
    /\ fallback = {}
    /\ evidence = [m \in Media |-> 0]
    /\ ended = FALSE
    /\ keys = 0
    /\ automatic = [m \in Media |-> 0]

sessions == <<live, prepared, hls>>
failures == <<fallback, evidence>>
calling == <<urlCalls, inflight>>

Render ==
  /\ ~ended /\ ~owed /\ view # shown
  /\ shown' = view
  /\ owed' = TRUE
  /\ UNCHANGED <<view, calling, sessions, failures, ended, keys, automatic>>

(* The effects of a render: requests no entry waits for any more are        *)
(* aborted, every loading entry not yet asked for is asked for once         *)
(* (startedUrlRequests), and the sessions whose entry is not ready are      *)
(* released.                                                               *)
SupersededOffScreen(i) == inflight[i] # 0 /\ (~Awaits(shown, i, inflight[i]) \/ i # shown.index)
Superseded(i) == inflight[i] # 0 /\ ~Awaits(shown, i, inflight[i])

Effects ==
  LET starts == {i \in Media : /\ shown.urls[i].status = "loading"
                               /\ urlCalls[shown.urls[i].request].phase = "none"}
      stale == {i \in Media : Superseded(i)}
      Ready(i) == shown.urls[i].status = "ready"
  IN /\ ~ended /\ owed
     /\ owed' = FALSE
     /\ urlCalls' = [r \in UrlRequest |->
          IF \E i \in starts : shown.urls[i].request = r
          THEN LET i == CHOOSE m \in starts : shown.urls[m].request = r
               IN [phase |-> "asked", item |-> i, aborted |-> FALSE]
          ELSE IF \E i \in stale : inflight[i] = r
               THEN [urlCalls[r] EXCEPT !.aborted = TRUE] ELSE urlCalls[r]]
     /\ inflight' = [i \in Media |-> IF i \in starts THEN shown.urls[i].request
                                     ELSE IF i \in stale THEN 0 ELSE inflight[i]]
     /\ prepared' = [i \in Media |-> IF Ready(i) THEN prepared[i] ELSE 0]
     /\ live' = live \ {prepared[i] : i \in {m \in Media : ~Ready(m)}}
     /\ hls' = [i \in Media |-> IF Ready(i) /\ shown.urls[i].kind = "hls" THEN hls[i] ELSE 0]
     /\ UNCHANGED <<view, shown, failures, ended, keys, automatic>>

(* The continuation of a call reads every flag and the entry of the last    *)
(* render again: what nobody will show is released, the rest is registered  *)
(* and dispatched.                                                         *)
Outdated(r) ==
  urlCalls[r].aborted \/ ended \/ ~Awaits(shown, urlCalls[r].item, r)

Registered(r, kind) ==
  LET i == urlCalls[r].item
  IN /\ inflight' = [inflight EXCEPT ![i] = 0]
     /\ live' = live \ {prepared[i]}
     /\ prepared' = [prepared EXCEPT ![i] = IF kind = "raw" THEN r ELSE 0]
     /\ hls' = [hls EXCEPT ![i] = IF kind = "hls" THEN r ELSE 0]
     /\ Dispatch(UrlReady(view, i, r, kind))

(* The server answers with a signed URL or an HLS playlist, and the         *)
(* continuation follows; or with a bearer token, and the bridge is asked    *)
(* for a session.                                                          *)
Answers(r) ==
  LET i == urlCalls[r].item
      kinds == IF Kinds[i] = "image" THEN {"direct"}
               ELSE IF i \in fallback THEN {"hls"} ELSE {"direct", "hls"}
  IN /\ urlCalls[r].phase = "asked" /\ ~urlCalls[r].aborted
     /\ \/ /\ urlCalls' = [urlCalls EXCEPT ![r].phase = "done"]
           /\ \E kind \in kinds :
                IF Outdated(r) THEN UNCHANGED <<view, inflight, sessions>>
                ELSE Registered(r, kind)
        \/ /\ i \notin fallback
           /\ urlCalls' = [urlCalls EXCEPT ![r].phase = "preparing"]
           /\ UNCHANGED <<view, inflight, sessions>>
     /\ UNCHANGED <<shown, owed, failures, ended, keys, automatic>>

(* The worker acknowledges the grant: the session exists from here on, and  *)
(* the continuation may find that everything has changed meanwhile.         *)
Prepares(r) ==
  /\ urlCalls[r].phase = "preparing" /\ ~urlCalls[r].aborted
  /\ urlCalls' = [urlCalls EXCEPT ![r].phase = "prepared"]
  /\ live' = live \cup {r}
  /\ UNCHANGED <<view, shown, owed, inflight, prepared, hls, failures, ended, keys, automatic>>

ContinuesAnyway(r) ==
  /\ urlCalls[r].phase = "prepared"
  /\ urlCalls' = [urlCalls EXCEPT ![r].phase = "done"]
  /\ IF Outdated(r)
     THEN UNCHANGED <<view, inflight, sessions>>
     ELSE Registered(r, "raw")
  /\ UNCHANGED <<shown, owed, failures, ended, keys, automatic>>
Continues(r) ==
  /\ urlCalls[r].phase = "prepared"
  /\ urlCalls' = [urlCalls EXCEPT ![r].phase = "done"]
  /\ IF Outdated(r)
     THEN live' = live \ {r} /\ UNCHANGED <<view, inflight, prepared, hls>>
     ELSE Registered(r, "raw")
  /\ UNCHANGED <<shown, owed, failures, ended, keys, automatic>>

(* close, invalidateNavigation, propagateUnauthorized and the unmount all   *)
(* abort the requests, clear the timers and release every session.          *)
Ends ==
  /\ ended' = TRUE
  /\ urlCalls' = [r \in UrlRequest |->
                    IF \E i \in Media : inflight[i] = r
                    THEN [urlCalls[r] EXCEPT !.aborted = TRUE] ELSE urlCalls[r]]
  /\ inflight' = [i \in Media |-> 0]
  /\ live' = live \ {prepared[i] : i \in Media}
  /\ prepared' = [i \in Media |-> 0]
  /\ hls' = [i \in Media |-> 0]
  /\ UNCHANGED <<view, shown, owed, failures, automatic>>

(* authorization-expired: the refresh the viewer makes without being asked. *)
AuthorizationExpired(i) ==
  /\ Dispatch(RefreshUrlOnce(view, i, TRUE))
  /\ automatic' = [automatic EXCEPT ![i] =
                     IF view.urls[i].status # "none" /\ view.ledger[i] = "unused"
                     THEN @ + 1 ELSE @]

(* The call is rejected.  The catch forgets the request only if it is still *)
(* the one in flight, returns if it was aborted, and otherwise dispatches   *)
(* by the kind of error or ends the viewer.                                 *)
Fails(r) ==
  LET i == urlCalls[r].item
      forgotten == [inflight EXCEPT ![i] = IF @ = r THEN 0 ELSE @]
      done == [urlCalls EXCEPT ![r].phase = "done"]
  IN /\ urlCalls[r].phase \in {"asked", "preparing"}
     /\ \/ /\ urlCalls[r].aborted \/ ended
           /\ urlCalls' = done /\ inflight' = forgotten
           /\ UNCHANGED <<view, ended, sessions, automatic>>
        \/ /\ ~urlCalls[r].aborted /\ ~ended
           /\ urlCalls' = done /\ inflight' = forgotten
           /\ \/ AuthorizationExpired(i)
              \/ \E error \in {"generic", "final"} :
                   Dispatch(UrlFailed(view, i, r, error)) /\ UNCHANGED automatic
           /\ UNCHANGED <<ended, sessions>>
     /\ UNCHANGED <<shown, owed, failures, keys>>

(* The timer of a signed URL fires with the entry it was made for.          *)
Expires(i) ==
  /\ ~ended
  /\ shown.urls[i].status = "ready" /\ shown.urls[i].kind # "hls"
  /\ Dispatch(UrlExpired(view, i, shown.urls[i].request))
  /\ automatic' = [automatic EXCEPT ![i] = IF view' = view THEN @ ELSE 0]
  /\ UNCHANGED <<shown, owed, calling, sessions, failures, ended, keys>>

(* The element of the active item reports an error, or hls.js a fatal one.  *)
(* A direct video falls back to HLS once; one behind the bridge only when   *)
(* the evidence says that its bytes arrived.                                *)
CanFallBack(i) == Kinds[i] = "video" /\ i \notin fallback

FallsBack(i) ==
  /\ CanFallBack(i)
  /\ fallback' = fallback \cup {i}
  /\ live' = live \ {prepared[i]}
  /\ prepared' = [prepared EXCEPT ![i] = 0]
  /\ Dispatch(HlsFallback(view, i))
  /\ UNCHANGED hls

MediaFails(i) ==
  LET url == shown.urls[i] IN
  \/ /\ \/ url.status # "ready"
        \/ url.kind = "direct"
        \/ url.kind = "raw" /\ prepared[i] = 0
     /\ Dispatch(Stopped(view, i, "generic"))
     /\ UNCHANGED <<sessions, failures>>
  \/ /\ url.status = "ready" /\ url.kind = "hls"
     /\ hls' = [hls EXCEPT ![i] = 0]
     /\ Dispatch(Stopped(view, i, "final"))
     /\ UNCHANGED <<live, prepared, failures>>
  \/ /\ url.status = "ready" /\ url.kind = "direct"
     /\ FallsBack(i)
     /\ UNCHANGED evidence
  \/ /\ url.status = "ready" /\ url.kind = "raw" /\ prepared[i] # 0
     /\ evidence' = [evidence EXCEPT ![i] = prepared[i]]
     /\ UNCHANGED <<view, sessions, fallback>>

MediaError ==
  /\ ~ended /\ shown.error = "none"
  /\ MediaFails(shown.index)
  /\ UNCHANGED <<shown, owed, calling, ended, keys, automatic>>

(* The bridge reports what the worker saw of the delivery: nothing is done  *)
(* unless item, session and URL are still the ones that failed.             *)
EvidenceArrives(i) ==
  /\ ~ended /\ evidence[i] # 0
  /\ evidence' = [evidence EXCEPT ![i] = 0]
  /\ IF /\ shown.index = i /\ prepared[i] = evidence[i]
        /\ shown.urls[i].status = "ready" /\ shown.urls[i].kind = "raw"
        /\ shown.urls[i].answer = evidence[i]
     THEN \/ AuthorizationExpired(i) /\ UNCHANGED <<sessions, fallback>>
          \/ /\ \E error \in {"generic", "final"} : Dispatch(Stopped(view, i, error))
             /\ UNCHANGED <<sessions, fallback, automatic>>
          \/ FallsBack(i) /\ UNCHANGED automatic
     ELSE UNCHANGED <<view, sessions, fallback, automatic>>
  /\ UNCHANGED <<shown, owed, calling, ended, keys>>

(* A heartbeat finds the transcoding session gone.                          *)
HlsLost(i) ==
  /\ ~ended /\ hls[i] # 0
  /\ hls' = [hls EXCEPT ![i] = 0]
  /\ Dispatch(Stopped(view, i, "final"))
  /\ UNCHANGED <<shown, owed, calling, live, prepared, failures, ended, keys, automatic>>

(* The keys, the slideshow's timer and the end of a video.  "Try fresh URL" *)
(* is offered for a generic error of an entry that used no refresh.         *)
Steps(v) ==
  {Navigate(v, -1), Navigate(v, 1), Enter(v), SlideshowTick(v), VideoEnded(v, shown.index)}
    \cup IF shown.error = "generic" /\ ~shown.urls[shown.index].used
         THEN {RefreshUrlOnce(v, shown.index, FALSE)} ELSE {}

Uses ==
  /\ ~ended /\ keys < UserBound
  /\ keys' = keys + 1
  /\ \E v \in Steps(view) \ {view} : Dispatch(v)
  /\ automatic' = [i \in Media |->
                     IF view.urls[i].status = "none" \/ view'.urls[i].status = "none"
                     THEN 0 ELSE automatic[i]]
  /\ UNCHANGED <<shown, owed, calling, sessions, failures, ended>>

(* Back without the overlay, the unmount, or an answer that ends it (an     *)
(* unauthorized device, an expired navigation, an invalid response).        *)
Leaves == ~ended /\ keys < UserBound /\ keys' = keys + 1 /\ Ends

Next ==
  \/ Render \/ Effects \/ MediaError \/ Uses \/ Leaves
  \/ \E r \in UrlRequest :
       Answers(r) \/ Prepares(r) \/ Continues(r) \/ Fails(r)
  \/ \E i \in Media : Expires(i) \/ EvidenceArrives(i) \/ HlsLost(i)

Spec == Init /\ [][Next]_viewerVars

-------------------------------------------------------------------------------
Session0 == 0..RequestBound
Entry == [status : {"none", "loading", "ready", "error"}, request : Session0,
          kind : {"none", "direct", "raw", "hls", "generic", "final"}, used : BOOLEAN,
          answer : Session0]
State == [index : Media, slideshow : BOOLEAN,
          error : {"none", "generic", "final"}, urls : [Media -> Entry],
          ledger : [Media -> {"unused", "used", "preserved"}], next : 1..RequestBound + 1]

(* Every variable keeps the shape the code gives it.                        *)
TypeOK ==
  /\ view \in State /\ shown \in State
  /\ owed \in BOOLEAN /\ ended \in BOOLEAN
  /\ urlCalls \in [UrlRequest ->
       [phase : {"none", "asked", "preparing", "prepared", "done"},
        item : Media \cup {0}, aborted : BOOLEAN]]
  /\ inflight \in [Media -> Session0]
  /\ live \subseteq UrlRequest
  /\ prepared \in [Media -> Session0] /\ hls \in [Media -> Session0]
  /\ evidence \in [Media -> Session0]
  /\ fallback \subseteq Media
  /\ keys \in 0..UserBound /\ automatic \in [Media -> Nat]

(* The URL of an item is the answer to the last request made for it: one    *)
(* that arrives after a retry, an expiry or a fallback asked again is never *)
(* shown, even when the component has not rendered that yet (url-ready).    *)
AnswerIsTheLatest ==
  \A i \in Media : view.urls[i].status = "ready" => view.urls[i].answer = view.urls[i].request

(* A bearer session of the bridge never leaks: it is held for an item or    *)
(* the continuation that will hold or release it has yet to run; and once   *)
(* the effects have run, only items with a ready URL hold one.              *)
SessionsAccountedFor ==
  /\ \A s \in live : \/ \E i \in Media : prepared[i] = s
                     \/ urlCalls[s].phase = "prepared"
  /\ view = shown /\ ~owed =>
       \A i \in Media : prepared[i] # 0 => /\ prepared[i] \in live
                                           /\ view.urls[i].status = "ready"
                                           /\ view.urls[i].answer = prepared[i]

(* An item that entered the window, or whose URL expired, is refreshed by   *)
(* the viewer itself at most once: a token the provider goes on rejecting   *)
(* ends in an error and never in a loop of requests (preserveAfterReady).   *)
RefreshedOnce == \A i \in Media : automatic[i] <= 1

(* No item spins for ever: once the effects have run, every entry that is   *)
(* loading has a request under way that was not aborted.                    *)
LoadingIsAsked ==
  view = shown /\ ~owed /\ ~ended =>
    \A i \in Media : view.urls[i].status = "loading" =>
      LET call == urlCalls[view.urls[i].request]
      IN call.phase \in {"asked", "preparing", "prepared"} /\ ~call.aborted
===============================================================================
