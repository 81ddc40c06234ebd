# Verification of Cloudframe

Cloudframe is a self-hosted server that shows the photos and videos of Google
Drive and OneDrive on approved TVs.  The server is one Node.js process with a
SQLite file; the TV is a React application with a service worker.  Almost
everything that can go wrong in it goes wrong *between two awaits*: the code is
single threaded, but every `await` lets other requests, timers, aborts and
child processes in, and state read before the await is used after it.  These
modules state what must hold whatever happens in between, check it with TLC on
small instances, and prove the most important parts with TLAPS for every
instance.

Paths below are relative to the repository; `server/` is
`packages/server/src/`.

## 1. Inventory

| Component | State it keeps | Operations | What is hard |
|---|---|---|---|
| Transcode coordinator `server/transcode/coordinator.ts` | sessions with 45 s leases, the lease holder, segment waiters, demand queue and its keys, one prefetch, active job, active probe, closed | createSession, session, heartbeat, segment, release, playbackFailure, diagnostic, close, the sweep timer, onSegmentPromoted | every operation spans awaits; one FFmpeg at a time; waiters must be answered; shutdown |
| Window encoder, process runner, probe `window-encoder.ts`, `process-runner.ts`, `probe.ts` | staging directory, promotion chain, child process, timers | encode, run, probe | abort before, during and after the child; first-segment timeout; promotions after the exit |
| Transcode cache and catalog `cache.ts`, `catalog.ts`, `sqlite/migrations.ts` | files on disk, asset/segment/window rows, byte totals, pin counts | loadSegment, promoteSegment, ensureCapacity, pin*, reconcile, record/delete/mark | two stores without a common transaction; crashes between them; eviction against use |
| Source gateway and authorizer `source-gateway.ts`, `source-authorizer.ts` | grants with expiry and active requests | start, grant, revoke, close, handle | revocation against requests between five awaits; authorization again after a 401 |
| Control-plane store and mutations `sqlite/control-store.ts`, `control-plane/*` | the encrypted control document (household, devices, requests, sources, roots) and its revision | mutate, the mutations | limits, references between collections, compare-and-set |
| Enrollment and device authentication `control-enrollment.ts`, `control-auth.ts` | pending requests and devices in the document, cookies at the TV | create, poll, claim, approve, deny, revoke, settings | lost responses, expiry, revocation |
| HTTP surfaces `http/control-app.ts`, `transcode-app.ts`, `installation-app.ts`, `request-context.ts`, `runtime-rate-limit.ts` | windows of the rate limiter, the document a request has loaded, cookies | every route, consume, login, rotatePassphrase | checks in an order that differs by route; sessions against a rotation; pruning against counting |
| OAuth flow `control-oauth.ts`, `oauth-replay-cache.ts` | replay markers, states being completed | start, callback | replay; provider calls between check and commit |
| Credential broker `credential-broker.ts` | refreshes under way, cached access tokens, refresh tokens in the document | get, refresh | rotating refresh tokens, stale versions, reconnects meanwhile |
| Direct media `direct-media.ts` | credential generation of a batch | urls, thumbnails, refresh once | concurrent items sharing a refresh |
| Live browse `live-browse.ts`, `browse-handles.ts` | sealed handles and cursors only | home, folder, media | stateless; folders move and credentials change during a request |
| Provider folders `live-provider-folders.ts` | nothing | browse, resolveAncestry, createRoot | the tree changes while it is walked |
| Installation and database `installation-repository.ts`, `database.ts`, `local-keys.ts` | claim code, installation row, schema version, master key | claim, initialize, migrate, back up | first-run races, a crash at every step |
| Lifecycle `runtime/self-hosted-composition.ts`, `deploy/server-entry.ts` | readiness, tracked requests | start, drain, close | order of shutdown; requests left after the deadline |
| Viewer `packages/tv-core/src/viewer.ts`, `apps/tv/src/components/viewer.tsx` | URL window, request ids, retry ledger; sessions, fallback and evidence of the component | reduce(event), the effects and their continuations | late and reordered answers, renders behind the reducer, retries |
| Media bridge and worker `apps/tv/src/media/*` | grants on both sides of a message channel, pending acknowledgements, stamps | prepare, release, expire, grant, revoke, fetch | a revoke overtaking the check of its grant, workers stopped, timeouts |
| TV session poll, history, other screens; admin app; provider clients; navigation; theme; scripts | - | - | rendering, I/O, pure data |

How they interact: the TV calls the HTTP surface; the transcode routes ask the
authorizer and then the coordinator; the coordinator drives the encoder, which
reads the source through the loopback gateway and writes through the cache;
the gateway, live browse, provider folders and direct media get access tokens
from the broker; the viewer asks the API for addresses and the bridge for a
session that can play them;
the broker, OAuth and enrollment change the control document through the one
`mutate` of the store.

For each component the properties that make it correct are the ones section 3
checks, or, where it is not modelled, the ones its hazards in `PROJECT.json`
name.

## 2. Plan

Order, most important first.

1. `TranscodeCoordinator` with `TranscodeCoordinatorProofs`.
2. `TranscodeCache`: bytes, pins, files against rows, crash and recovery.
3. `CredentialBroker`: refresh-token rotation over the control store.
4. `ControlPlane` over the abstract `DeviceAccess`, with `ControlPlaneProofs`:
   document, limits, enrollment, revocation, references.
5. `Viewer`: the reducer and its component against an unreliable stream of
   answers.
6. `MediaBridge`: page, channel and worker.
7. `ControlApi` and `OAuthFlow`: every route with its checks, login, rotation of
   the passphrase and administrator sessions; states, callbacks and markers.
8. `LiveBrowse`, `ThumbnailBatch`, `SourceGateway`, `ProviderFolders`,
   `SelfHosted`: small and independent of each other.

All of these are done.  1 to 4 have MC modules and runs of their own; the
modules of 5 and 6 are checked side by side by one run (`MCTv`), those of 7 and 8
by another (`MCServer`).

What is left, in this order: the session poll of the TV
(`use-tv-session.ts:45`), the range arithmetic of the media worker, the hls.js
adapter, watch history, the retention of backups, deferred tasks.  Every safety
property that a passing run checks is proved (section 4).

## 3. Modules

### 3.1 TranscodeCoordinator

One step is the code between two awaits.  The closure state of
`createTranscodeCoordinator` is the record `co`; synchronous helpers
(`expireSession`, `enqueueDemand`, `startNextJob`, `queuePrefetch`, ...) are
operators from one coordinator state to the next and are composed exactly as
the code calls them, so every action contains all it triggers (for example
`SegmentCall` sweeps and renews, `EncodeFails` rejects waiters, frees the slot
and starts the next job).  Suspended calls are `call` (createSession) and `req`
(segment); their `pc` names the await.  The active job has a phase for each
await of `runJob` and of `encode`.  Rows and files are sets of keys, enough for
what the coordinator sees of them.

Anything may happen at any await the model keeps, also at those that only wait
for a resolved promise.  Some awaits are not kept and what stands around them is
one step: the promotion of a segment (3.2 takes it apart), the removal of the
staging directory with the first lookup of the report that follows it, and the
validation of a file with the removal of its row.  The way from the report to
`runJob`'s finally block is kept (phase "reported", `JobEnds`), because a demand
can join the job in between (finding 9).  What may throw and changes what others
see is a step: making room, encoding, the staging directory and the lookups of
the report (`EncodeFails`, `ReportFails`), and the two lookups of a request in
`Failing` (`LookupFails`).  A second lookup that throws leaves its waiter in the
table with nobody who waits (`pc` "failed").

| Run | Instance | Shows |
|---|---|---|
| coordinator_lease | 2 TVs, 2 films of 1 segment in windows of 2, a renewed binding, 2 calls, 2 sessions, 1 request whose lookups may throw | TypeOK, OneChild, NoJobAfterClose |
| coordinator_window | 2 sessions, 1 request, 2 windows of 1 segment, one file the disk may damage | OneJobPerWindow, CompleteIsWhole |
| coordinator_liveness | 1 session, 2 requests whose lookups may throw, 1 segment, no damage, fairness | NoLostWakeup, ActiveDemandSettles, EncoderIsReleased |
| stranded_after_reopen, live_asset_evicted | as small as each needs | findings 1 and 2 |

Bounds: `LeaseTicks` = 1 is enough because only the order of renewal and expiry
matters; a session id is used once, so two sessions give every
replaced/expired/reopened sequence of length two;
a last window that is shorter than the others is met in coordinator_lease, which
checks the bounds of windows in `TypeOK`, and a second window to prefetch in
coordinator_window.  A window of several segments of which some are promoted
multiplies either beyond what can be checked often; cache_crash has one, and the
theorems of section 4 are for windows of any size.  Sessions, calls and requests
are symmetric.

`NoJobAfterClose` is about jobs.  The child of a job that was started before
close() is another matter: its encoder may miss the abort
(`window-encoder.ts:34`, finding 4).  `ActiveDemandSettles` holds while no file
is damaged; with a damaged file the code breaks it (finding 9).

Fairness (`FairSpec`): weak fairness of the job's steps, of every suspended
call and request, of the promotion callbacks and of the return of close().
The event loop runs every continuation, and the process runner kills a child
at its timeout.  No fairness is assumed of clients, of time, or of eviction.

The system may stop (closed, every session id used), hence
`CHECK_DEADLOCK FALSE`.

### 3.2 TranscodeCache

`cache.ts` over `catalog.ts` at the level of rows and files.  `row` and `file`
map a place (key, segment) to the content described there or found there,
`total` is `total_bytes`, `complete` the marks of windows, `pins` the sum of the
pin maps of an asset; `TotalBytes` and `RowBytes` are the sums the catalog
asks SQLite for, over all assets and over the rows of one.  The one window job is `enc`, whose `pc` names the await
of `ensureCapacity`, `encode` or `promoteSegment` it is in and whose `victim`
is the asset an eviction is deleting; lookups and the responses that stream
their result are `rd`; `boot` is `reconcile()`.  One job, and one promotion of
it, runs at a time: that is what `Inv` and OneJobPerWindow of
TranscodeCoordinator establish and what `promotionChain` of the encoder does.
An asset being encoded has two pins, that of the job (`StartJob` to `JobEnds`)
and, inside it, that of `encode()`; between the two ends the job is "settling",
while the coordinator answers the waiters.  A request looks once, is "missed",
and looks a second time after it has registered its waiter (`LookAgain`), by when
its session may have ended.
Deleting a directory is one step per file, so a crash may leave it half
deleted.  The victim is any unpinned asset (the order by last access only
narrows it), and the free space of the disk may ask for an eviction at any
total.

| Run | Instance | Shows |
|---|---|---|
| cache_eviction | 2 films of one segment, contents of 1 and 2 bytes, a cap of 2, a lookup | TypeOK, AccountingExact, CapRespected |
| cache_crash | 1 film whose window has 2 segments, a lookup, crashes | CompleteIsWhole, RecoveryAgrees |

Bounds: `PinBound` stops new jobs on an asset with that many pins, since leaked
pins would grow without end; 2 lets a job start beside the pin of the session and
one more, leaked or of a response, stop it.  A cap of 2 bytes is the smallest that admits each content alone
and not both, so every promotion of the long one must evict.  A replacement may
have another size than the row it replaces, which is what makes the accounting
difficult.  Nothing is scheduled fairly: all properties are about safety.

### 3.3 CredentialBroker

One source of the broker.  `source` is the entry of the control document
(version, refresh token, status, whether the bootstrap token is usable), `good`
the refresh tokens the provider accepts.  A caller `call[c]` holds the source
its request loaded, which may be old, and `pc` names its await.  `refreshes` is
`owner`: a refresh that lost against a newer version goes on, inside its own
promise, with a promise for that version, so all promises a caller owns settle
together (`Settle`).  Reducers are atomic, as `mutate` of the store runs them in
one transaction; an error thrown in one leaves the store as "unavailable"
(`normalizeControlStoreError`).

| Run | Instance | Shows |
|---|---|---|
| broker | 2 callers, 2 rotations, 1 reconnect, revocation, removal, expiry, crashes, fairness | TypeOK, OneRefreshPerVersion, Usable, MarkedRightly, CallsAnswered |

Bounds: `TokenBound` limits the tokens the provider issues and
`ReconnectBound` the versions up to which the administrator reconnects; two of
each give a caller that loses twice.  The history variable `lost` names exactly
the cases in which the stored token may be useless through no fault of the
broker: the user revoked access, the answer with a rotated token was lost or a
crash came before it was stored, the store failed to store it (`StoreFails`,
`control-store.ts:178`), or a reconnect that got no new refresh token changed the
version while a refresh was under way.  `Usable` says that nothing else the model
knows of loses it: not stale callers, nor versions that race, nor refreshes that
fail.

Fairness: continuations run, and a call to the provider ends, because the fetch
of Node.js gives up on a silent server.  Callers are not obliged to call.

### 3.4 ControlPlane, DeviceAccess and AdminAnswers

`ControlPlane` is the control document and everything that changes its requests,
devices, sources and roots.  A call to `mutate` is one step, since its reducer
runs in one transaction without an await; what a call has read before is kept
where the code keeps it: `client[c]` for a poll on its way from the document it
has loaded to the mutation that claims the request, `adding` for a createRoot()
at its provider calls, and `late` for the clock of a call, which is read before
it waits for the store, so that an expired request may look fresh to it.  An
error thrown in a reducer rolls everything back: refused calls are no steps, and
the conditions of refusal are the `...Error` operators, in the order of the
code.  The cookies of one browser are shared by its pages, so any client may
poll any request.

`DeviceAccess` is what enrollment promises for each device: it is offered once,
at most one client ever takes the offer, only a holder is let in, and revocation
is final.  `EnrollmentIsSafe` says that `ControlPlane` implements it: a device
is "offered" while an approved request names it, its holders are the clients
with its session or with an answer that carries one, and admitted are those
`authenticateControlDevice` accepts.  The promise does not say that the offer is
taken *successfully*: a claim deletes the request before its answer arrives, so
an answer that is lost ends the only session and leaves the device in its slot
(that hazard is left as it is: no property speaks against it).

`AdminAnswers` adds to ControlPlane what the administrator who approves is told:
`AskToApprove` is the service with the transaction around it, `Normalized` what
`mutate()` makes of a reducer's error, and `answer` the last answer with the
status its request had.

| Run | Instance | Shows |
|---|---|---|
| control_plane | 3 requests (2 at a time), 2 devices, 2 clients, 1 source, 1 root, crashes | DocumentIsValid, ResolvedOnce, EnrollmentIsSafe |
| resolved_is_told | AdminAnswers with 1 request, 1 device | finding 3 |

Bounds: two stored requests are needed for one to be dropped while another is
changed, and a third meets the limit; two clients race for one request; one
root and one source suffice for a removal to overtake createRoot() or an
assignment.  Ids are used once, so the system may stop.  A session version
above 2 does not occur, which `TypeOK` says.  `DocumentIsValid` is `TypeOK`,
`ReferencesIntact` and `WithinLimits` together: what the schema of the document
demands, after every mutation.  Of the limits the run reaches that of requests;
that those of devices, sources and roots hold is proved (`DocumentStaysValid`).
No fairness: nothing in enrollment has to happen.

### 3.5 ControlApi

Every handler of the control, transcode and installation APIs is the sequence
of the checks it makes before its service, under the names of the functions that
make them and in the order of the code (`Handler`); an element is one step when
nothing of it depends on what others change, so that other requests come between
any two effects.  `call[c].ctx` is the document a request has loaded
(`request-context.ts` memoizes it), as its version of the passphrase; `sess` is
the session its cookie claims, with the passphrase its holder has shown;
`windows` are the counts of the rate limiter and `granted` remembers what they
let through.  The browsers' cookies are `jar`, and an answer may be lost.  The
document is only `pass` and `revoked` here: the rest is in ControlPlane.

Checked: `AdmittedProvesCurrent` (who is let in has shown the passphrase, or
holds a device session, that was good when the request arrived or later),
`ChangesAreGuarded` (what a request changes, it changes after all the guards of
that change, in whatever order its route has them, and after its budget was
taken), `BudgetRespected` (no bucket gives a subject more than its limit, however
windows are pruned).  An error does not say that nothing was changed: a callback
has set its replay marker, createRoot() has had the broker store a rotated token,
the broker marks a source and then throws.  `Leaves` says what a service may have
stored, `Serve` and `ServiceFails` both choose from it, and `effect` remembers
what was stored and behind which guards (`passed`).
Instance: two symmetric calls of seven routes that between them make every check
(first load, login, the callback, rotation, a mutation, a TV route, a transcode
route), a limit
of one call, one kept window (so that pruning happens at once), one rotation,
two windows of time and three arrivals: enough for a request to be under way
while another rotates and a third meets the limit.

### 3.6 OAuthFlow

One source.  `claims[s]` is what the sealed state says (the revision and
credential version the administrator saw) and its age; `callback[c].pc` names
the await of a callback, `completing` is `completingStates`, `marker` the rows
of `oauth_replay`.  Reading the marker and claiming the state in memory are one
step, because the SQLite cache is synchronous behind its await and nothing else
runs in between.  A restart loses `completing` and keeps the markers.

Checked: `OneCompletionPerState` and `NothingChangedSinceBegin`.  The reducer
compares two numbers, the revision and the version of the credential; the
property is what they stand for.  `untouched` are the states begun since the
document was last changed by anyone, and a source is stored for these only.
That the version alone would not do is its mutant: a source that was connected
and removed again has the version of one that never was.  Instance: two states, two
callbacks, a lifetime of one tick and three revisions: a replayed callback, one
after a restart, one after the marker has expired with the state, and a change
while the provider is asked.

### 3.7 LiveBrowse

One device, one source, one request at a time; what others do meanwhile are
actions of their own (`Move`, `OtherVersion`, `ChangeStanding`, `Tick`).  A
handle or cursor is what it seals: the item, the credential version, the expiry.
The request holds the document it has loaded (`ctx`) and the credentials it works
with (`creds`), which the broker may have got from a newer document; `issued` and
`next` are what it hands out.  A token the provider rejects is refreshed once,
except when the grant itself has ended (`invalid_grant`).

Checked: `IssuedIsAccepted` (handles sealed by a listing are good for the next
request, also when the token was rotated during the listing) and
`HeldWasReached` (no handle of an item that never was in a folder the TV could
reach).  Instance: a root, a folder and a video, two versions, one tick and a
lifetime of one: every item may be anywhere, and a handle expires or is of the
version before.

### 3.8 ThumbnailBatch

`thumbnails()` for one batch: groups one after the other, workers that take the
items in order, and one refresh a group shares.  `thumb[i]` is what becomes of an
item with the credential generation of its last operation.  A refresh is done,
is rejected, or gets an answer of no use, which makes each item unavailable.
Checked: `SharedRefresh`.  Instance: four items in two groups, two workers, so that one
item is rejected before, during and after the refresh another has begun.

### 3.9 SourceGateway

The loopback gateway and the authorizer behind it.  A fetcher is a request of the
encoder, whose `pc` names which of the five awaits before the provider's answer
it is in; `active` are the abort controllers of a capability; `aborted` is the
signal.  The document, the credentials and the film change at any time; what is
withdrawn may be given back (`Withdraw`, `Regrant`), and a request notices
neither unless it loads the document then.  So `FetchIsAuthorized` cannot say
that the device was authorized all along.  It says that the binding was valid at
some moment of the attempt that fetches: after the request arrived or, for the
second attempt, after the provider rejected the first (`valid` is that history).
Checked: `RevokedIsAborted` and `FetchIsAuthorized`.  Instance: two capabilities with one request at a time and
two requests, so that the limit is met, and two credential versions.

### 3.10 ProviderFolders

`resolveNodes` walks from a folder to the root of the account with one provider
call per folder; `above` is the tree, which others change at every step, and
`edges` remembers which parents have been true since the walk began.  Checked:
`StoredPathExisted`.  Instance: two folders under the root, which may become each
other's parents, and an ancestry of at most two: that is where a cycle of the two is
stopped, and a folder that is its own parent by the test for visited folders.

### 3.11 SelfHosted

Startup, in the order of `createSelfHostedComposition`, each await and each write
to /data one step with a crash possible between any two; drain, close and exit;
and the claims of a new installation as its requests.  `disk` is what survives,
`process` the phase and readiness, `log` what the administrator can read.
Checked: `ClaimIsAtomic`.  Instance: two claimants, two migrations, three starts:
a crash during the first start and one during the second.

### 3.12 Run server

The modules 3.5 to 3.11 have no common state but the document and the
credentials, which each abstracts for itself.  `MCServer` therefore chooses one
of them in Init (`part`), and the variables of the others stay "unused": the
state space is the sum and not the product.  Its constants are those of all
parts; `server.cfg` gives their values, and `ServerAssumption` says what a part
needs of them to make sense.  No fairness is assumed and only safety is checked.
Ids, time and starts run out, so a behaviour may end.

### 3.13 Viewer

The reducer is translated as operators on its state (`view`): the URL window, the
ids of requests, the ledger of retries.  Its component is the actions: React
renders after a dispatch (`Render` sets `shown`), and runs effects after that
(`owed`), so that a callback of the network, of the bridge, of a timer or of the
media element runs with refs of an older render.  `urlCalls` are the requests of
`api.mediaUrl` with their abort, `prepared`, `hls`, `fallback` and `evidence` the
maps of the component, and `live` the sessions of the bridge that nobody has
released.

Checked: `AnswerIsTheLatest`, `SessionsAccountedFor`, `RefreshedOnce`,
`LoadingIsAsked`.  Instance: a video followed by an image, so that one item is
shown and one is prefetched; three requests; two keys.  That is enough for an
answer to arrive after the retry that replaced it and for a fallback to HLS to
meet an expiry.

### 3.14 MediaBridge

Page and worker with the two directions of their channel, which keep their order.
The worker checks the fingerprint of a grant across an await, so a revoke can be
handled before the grant it revokes has been checked (`checking`); it may be
stopped whenever it holds nothing open (`Stop`), and then asks the page again.
`stored` and `mutations` are its tables in insertion order, with the limits that
make it forget the oldest.

Checked: `RevokedStaysRevoked`.  Instance: two sessions of one file and one
element, a worker that keeps one grant and one stamp and is stopped once: limits
of one make every eviction happen.

### 3.15 Run tv

`MCTv` composes Viewer and MediaBridge in the same way as `MCServer`.  The viewer
sees of the bridge that `prepare` ends with a session or fails, which is what
MediaBridge does.  No fairness: the user may leave, the network may be silent.
Its constants are those of both modules; `tv.cfg` gives their values.
`TvAssumption` says what makes sense: items are images and videos, there is a
session, sessions are finitely many, and the bound on requests leaves room for
the window a viewer opens with.


## 4. Proofs

`TranscodeCoordinatorProofs` proves for every value of the constants:
`Spec => []Inv`, `[]TypeOK`, `[]OneChild`, `[]CompleteIsWhole` and
`NoJobAfterClose`.  `OneChild` is not inductive: a step that spawns a child
must know that the job is the only owner.  `Inv` adds that the active probe is
exactly the probe of the one call awaiting FFprobe (`ProbeHasCall`), that job
and probe exclude each other and the children are the ones of the job's phase
(`ChildrenCounted`), and that sessions in use have bindings
(`SessionsExist`).  Helpers are described by three relations between
coordinator states, `Keeps` (the job keeps its phase), `Starts` (a job may
start, from an idle and open coordinator) and `Ends` (the job ends and another
may start); there is one lemma per helper and one per action (`ReportTurn` is a
turn of the loop of the report, whether or not it is the last).
The assumptions are those of the module (`BindingAssumption`,
`BoundAssumption`, `SentinelAssumption`), which TLC evaluates in every run.

`ControlPlaneProofs` proves for every set of requests, devices, sources, roots
and clients, and for all limits: `Spec => []Inv`, `[]TypeOK`,
`[]ReferencesIntact`, `[]DocumentIsValid`, `ResolvedOnce`, and
`EnrollmentIsSafe`, the refinement of DeviceAccess.  The invariant says what the
code never checks because it follows from its history: that a request names a
device exactly while it is approved, no two name the same, and nobody has a
session of a device whose offer stands (`RequestsConsistent`); that sessions are
of existing devices, one each (`ClientsConsistent`); and that version 2, revoked
and disabled for good go together (`DevicesConsistent`).  Without the second, a
claim could not be mapped to `Take`.  The refinement has one lemma for each kind
of step: most only take offers away (`FewerOffers`), and an approval, a claim, a
revocation and the end of a session have their own.  `DocumentIsValid` adds the
limits: one lemma per collection (`RequestsWithinLimit`, ...), from two facts of
finite sets (`LimitKept` for the steps that only remove, `RoomForOne` for those
that test the limit and add one).  The assumptions are `SourceAssumption`,
`SentinelAssumption` and `FiniteAssumption`.

`TranscodeCoordinatorProofs` also proves `[]OneJobPerWindow` and
`[]NoLostWakeup`.  The first needs more than that the jobs differ: that the key of
every queued job is in the table of queued keys and is not that of the active job
(`OnePerWindow`), because the code tests the table and never the queue.  Most
helpers leave queue, keys and window of the job alone (`SameLine`); the others
have a lemma each.  The second is inductive once it speaks of the requests that
are about to look again too (`WakeSafe`): a waiter whose file is there has a
notice on its way.

`CredentialBrokerProofs` proves for any number of callers, tokens and reconnects
`[]TypeOK`, `[]OneRefreshPerVersion`, `[]Usable` and `MarkedRightly`.  The
argument follows a rotated token from the provider to the store: whoever asks the
provider is registered for its version (`Registered`), a token that has arrived
and is not stored is nobody else's (`Undelivered`), a refused token is never
accepted later (`RefusedForGood`), and, unless something was lost, who holds the
stored token has it from the stored version and the token that is to replace it
is accepted (`Accounted`).

`TranscodeCacheProofs` proves `[]TypeOK`, `[]AccountingExact`, `[]CapRespected`,
`[]CompleteIsWhole` and `RecoveryAgrees`, for any films, segments, sizes and
cap.  Totals are only ever incremented and decremented, so the module begins with
what that does to a sum over a finite set: such a fact is an induction over the
size of the set, done without the induction theorems of the library by taking a
smallest counterexample (`BySize`).  The cap is tested awaits before the row
that needs it is written, and holds because the room found stays
(`RoomKept`): no one else adds rows.  That pins never go below zero needs all
their holders (`PinsCover`).  After a crash nothing else runs until every asset
has been compared (`Reconciled`), which is what `RecoveryAgrees` rests on.
Assumed are `BoundAssumption`, `ContentAssumption` (a content has a positive
size) and `SentinelAssumption`.

Three modules prove all that the run server checks, from `ServerAssumption`
alone, so for every instance that makes sense.  A part's invariant is proved from
the part's own Init and Next, and then carried to `MCServer`.

`ControlApiProofs` (module ControlApi): `[]AdmittedProvesCurrent`,
`[]ChangesAreGuarded`, `[]BudgetRespected`.  What is proved first is a fact about
the handlers: each loads the document before it authenticates, checks the
passphrase before it logs in, has at most one service, at its end, and before a
service that changes something all the guards of one of its sets (`Ordered`,
`HandlersOrdered`).  A request then always has the tail of an ordered list to do,
what it has passed are the guards in front of it (`RequestInv`), and what it has
done already is what its record says.
`Windows` says that a window of the present is never pruned and has counted all it
let through.

`BrowsingProofs` (LiveBrowse and ProviderFolders): `[]IssuedIsAccepted`,
`[]HeldWasReached`, `[]StoredPathExisted`.  What was reached is closed under the
present tree and under every later move (`OnlyReached`), and what a listing
issues is sealed for the version it was made with (`SealedForListing`).  A walk
knows all the edges there are now and those there were (`Walk`), so every step of
the path it stores was true at some time since it began (`Path`).

`ServerProofs` (OAuthFlow, ThumbnailBatch, SourceGateway, SelfHosted, and the
`TypeOK` of the whole):

- `[]OneCompletionPerState` and `NothingChangedSinceBegin`: callbacks at work hold
  claims that no two share (`Exclusive`), a state that has stored its source
  names a revision that is gone (`Spent`), and one that names the revision of now
  was begun since the last change (`RevisionNamesDocument`), since revisions only
  grow.  The proof does not mention the replay
  marker: the marker may expire or be left unset by a failure, and the comparison
  of the revision alone is what keeps a state from storing twice.
- `[]SharedRefresh`: the refreshes of a group are counted by the state of the
  group that is done (`RefreshesCounted`).
- `[]RevokedIsAborted` and `[]FetchIsAuthorized`: a request that is not idle has
  its controller in the set of its capability (`Registered`), and whoever is past
  `validateCurrent` was valid when it ran, which was within the attempt; only the
  beginning of a second attempt forgets it, and puts the request before
  `validateCurrent` again.
- `[]ClaimIsAtomic`: only a process with a whole key reaches the database, and
  only a key that nothing is sealed under is taken back (`KeyIsWhole`).
- `[]TypeOK`: the bounds that are not part of the invariants above (`OAuthBounds`,
  `GatewayBounds`, `HostBounds`: markers are young, counts of controllers and
  starts bounded, ...) are proved beside them.

`TvProofs` proves all six properties of the run tv from `TvAssumption` alone: for
any list of images and videos, any number of requests and keys, any sessions,
files and elements, and any limits of the worker.  Two invariants carry it.

- `ViewerInv`.  `[]AnswerIsTheLatest`, `[]SessionsAccountedFor`,
  `[]RefreshedOnce` and `[]LoadingIsAsked` are about the reducer, the state last
  rendered and the calls under way, three things that lag behind each other.
  The invariant relates them two by two: a request id belongs to one item and
  one call, and calls are only of requests that were rendered (`Order`); what
  the reducer shows as ready was rendered as loading or ready with the same
  request and its call is over, and what is loading is either not yet rendered
  or has a live call (`Linked`); a session kept for an item is the answer shown
  or, until the effects run, that of a request given up since (`Held`); the
  ledger of an item tells whether its one automatic refresh is spent
  (`Counted`); after a fallback to HLS an item has no bearer session nor a call
  preparing one (`Direct`).  Reducer
  helpers are described by what they keep of an entry; the effects of a render
  abort and start several calls at once, so their step is proved about the state
  of all calls after them (`CallsAfter`).
- `BridgeInv`.  `[]RevokedStaysRevoked` speaks of a quiet channel and is
  not inductive.  The invariant `Follows` says of every session that the page has
  given up and that has not expired: if the worker has it stored, or is still
  checking a grant of it that no message has made stale, then a revoke of it is
  on its way; and each grant of it on its way is followed by a revoke
  (`Pursued`).  It rests on the order of the channel, on the page telling every
  worker that was told a grant, pending ones included (`LiveTold`), and on the
  stamps: that pruning them only ever makes checks stale is why their limit does
  not matter.

`[]TypeOK` has the limits of the worker's tables with it: they are kept in
insertion order without duplicates (`Memory`).

Only model-checked: the liveness properties `ActiveDemandSettles`,
`EncoderIsReleased` and `CallsAnswered`, since fairness and ENABLED are out of
the prover's reach.

## 5. Findings

Each of these is a run in which TLC shows the code doing what a document, a
comment or a message of the repository says it does not; `PROJECT.json` quotes
it.

1. *Demand stranded after a reopen* (`coordinator.ts:325`).  Expiry removes
   queued jobs but not their keys, so the window can never be demanded again.
2. *Live asset evicted* (`cache.ts:158`).  The victim is chosen before an await
   and deleted after it.
3. *Errors of the document never arrive* (`control-store.ts:180`).  The store
   replaces every error a reducer throws by its own, so the codes the HTTP layer
   maps and the admin application reacts to (already resolved, expired, not
   found, stale) all reach it as "unavailable", 503.  The trace: a request is
   created, approved, and approved a second time; the second answer is
   CONTROL_PLANE_UNAVAILABLE and not DEVICE_REQUEST_RESOLVED.

The following have a definition in a module that TLC finds violated, but no run
of their own:

4. *FFmpeg started after close()* (`window-encoder.ts:34`, NoSpawnAfterClose).
   The abort listener is added after an await, and an abort that came before is
   not seen; the order of the drain in `docs/operations/self-hosting.md:110` does
   not hold for this child.
5. *Validated segment removed under a response* (`cache.ts:138`,
   ServedIsValidated).  A window that is encoded again removes each segment
   before it renames the new one into place, also when a response has validated
   and pinned it and has not opened it yet (`docs/operations/self-hosting.md:79`).
6. *Two live leases* (`coordinator.ts:179`, OneLiveLease, with two TVs).  The
   lease is checked before the probe is awaited and overwritten after it.
7. *Demand stranded behind a probe* (`coordinator.ts:162`, DemandIsBounded).  The
   end of a probe does not start the queue.
8. *A pin that stays* (`window-encoder.ts:28`, PinsAreHeld).  The pin of the job
   is taken before the `try` whose `finally` gives it back; when marking the
   window or making the staging directory fails, the asset can never be evicted
   again.
9. *Demand that joins a finished job* (`coordinator.ts:466`,
   ActiveDemandSettles, with one file the disk may damage).  When the report of a
   job has rejected its waiters, the job stays active for some microtasks, until
   the finally block of `runJob` (line 419).  A request whose file is damaged
   between its first lookup and the second one in just these joins the job
   (line 321), which answers nobody any more: it waits until its client leaves or
   another job of the window runs.

The following were seen while the code was translated; the models allow them, and
their properties are stated so as not to exclude them:

- When a session expires, only the waiters of the active window are rejected
  (`coordinator.ts:523`); those of its queued windows wait for their clients.
- `addEventListener` on a signal that has already fired is never called
  (`coordinator.ts:238`): a client that left before waits in the table of
  waiters.
- The lookup after a promotion is not awaited and has no handler
  (`void cachedSegment().then`, `coordinator.ts:401`): should it throw, that is an
  unhandled rejection, which by the defaults of Node.js ends the process.
- A second lookup that throws (`coordinator.ts:247`) leaves its waiter in the
  table; nobody waits for it, but until something settles it its window has
  waiters.
- A demand joins an active job that has been aborted (`coordinator.ts:321`) and
  is rejected with it.
- A crash between the commit of the installation and the line that logs its setup
  code (`installation-repository.ts:64`) leaves an installation nobody can claim;
  `docs/operations/self-hosting.md:55` knows only of the log.
- A crash between the creation of master.key and its write (`local-keys.ts:31`)
  leaves a file that every later start refuses.
- A store error in a transcode route reaches the TV as 401, "Device is not
  authorized." (`transcode-app.ts:141`, mapError).
- The loser of two concurrent passphrase rotations is told 503, not of a
  conflict: finding 3 for administrators.
- A request that took the old window of the rate limiter and was slow may open it
  again after it has been pruned: the count starts from one in a window that is
  over, which `BudgetRespected` tolerates.
- A folder moved out of the root can be browsed on as long as its handles are
  renewed (`live-browse.ts`): `HeldWasReached` says was, not is.
- An HLS session that the answer to an outdated request brings is left to its
  lease: the component drops the answer without a release.
- An authorization failure of an outdated request puts the viewer in error
  although a newer request would succeed.
- A grant sent in answer to a lookup of the worker, while the page's own is being
  checked, makes the latter outdated: no acknowledgement, and prepare() ends by
  its timeout.

## 6. Not modelled

Components: the HTTP clients of the providers (I/O and parsing), the admin
application (forms over the control API), focus, navigation and keys of the TV
(small pure functions with unit tests), the other screens of the TV with the
session poll and watch history, shared types, theme, build scripts, and static
files.

Inside the coordinator: busyRejections, lastErrorCode and the progress shown by
diagnostic().  Inside the encoder: the arguments of FFmpeg, the parsing of its
list of segments and the limits of its output.  Inside the cache: last-access
times, hashing as such (a content is its hash), the names of files.  Inside the
broker: encryption and key rotation, malformed entries of the token cache.
Inside the control plane: names, orders and slideshow seconds, `enabled` of
roots, which nothing clears, polls that change nothing, encryption of the
document; the passphrase is in ControlApi and the credentials of sources in
CredentialBroker.  Inside the APIs: DTOs, headers, sizes of bodies and static
files.  In browsing and thumbnails: names, previews, sorting and more than one
root; media kinds.  In the folders: listing order and names.  In the gateway:
ranges and the bytes streamed.  In the host: parsing of the configuration, the
SQL of migrations, the retention of backups, deferred tasks.  In the viewer:
playback intent, the controls, the overlay, positions and history.  In the
bridge: ranges and their arithmetic, several pages, the registration of the
worker.

Smaller things, left out or moved because nothing checked can tell: in the
viewer, the fallback is read when an answer comes and not when its request starts
(`viewer.tsx:235`; it cannot change for a live request in between), and a
session is not looked for under another node (`displacedNodeId`,
`viewer.tsx:263`), since session ids are random; effects stop with the viewer at
`ended`, also those the code would still run and whose answers it would drop.  In
the bridge, the await of the fingerprint between a failed lookup and the question
to the page is one step with them (`google-media-worker-runtime.ts:273`), and the
numbers of the questions do not start again when the worker does.
