----------------------------- MODULE ControlApi -----------------------------
(***************************************************************************)
(* The HTTP APIs (http/control-app.ts, transcode-app.ts and                *)
(* installation-app.ts) and what guards them: sessions                     *)
(* (services/control-auth.ts), the context a request loads once            *)
(* (http/request-context.ts), the rate limiter                             *)
(* (services/runtime-rate-limit.ts) and the rotation of the passphrase     *)
(* (services/control-admin.ts).                                            *)
(*                                                                         *)
(* A handler is the sequence of the checks it makes before its service, in *)
(* the order of the code and under the names of the functions; the service *)
(* is its last element: a "read" of the document, a "change", or a call of *)
(* a "provider", for which the broker may store credentials.  Other        *)
(* requests come between any two effects: the checks between these depend  *)
(* on nothing that others change, and are one step.  Of the document only  *)
(* the version of the passphrase and whether the one device is revoked are *)
(* kept: all else is in ControlPlane.                                      *)
(***************************************************************************)
EXTENDS Integers, Sequences, FiniteSets

CONSTANTS
  Call,        \* requests under way
  Route,       \* the handlers that are called
  Limit,       \* calls of one bucket and subject in one window
  KeyBound,    \* windows kept before the expired ones are dropped (1024 in the code)
  PassBound, ClockBound, ArrivalBound,
  ServiceCode  \* codes with which a service may refuse a call

VARIABLES
  pass,        \* household.adminPassphraseVersion, which stands for the passphrase too
  revoked,     \* whether the device is revoked
  jar,         \* cookies of the browsers: of the administrator and of the TV
  call,        \* the requests
  windows,     \* the counts of the rate limiter
  granted,     \* history: calls let through in the window of the present
  clock,       \* windows that have passed
  arrivals     \* requests that have arrived, a bound of the model

vars == <<pass, revoked, jar, call, windows, granted, clock, arrivals>>

(* An admin session claims a version of the passphrase; proved is the      *)
(* passphrase its holder has shown.                                        *)
NoSession == [claims |-> 0, proved |-> 0]
Session == [claims : 1 .. PassBound, proved : 1 .. PassBound]

-----------------------------------------------------------------------------
(* Handlers.                                                               *)

protectedAdmin == <<"admin_session", "loadControlRequestContext", "authenticateControlAdmin">>
protectedDevice == <<"device_session", "loadControlRequestContext", "authenticateControlDevice">>
authorizeAdminMutation == <<"verifyAdminMutation", "admin-mutation">>
Body(check) == <<"readBoundedJsonObject", check>>
(* Mutant: the change is made before its budget is taken.                  *)
MutationLimitLast(check) ==
  Body(check) \o protectedAdmin \o <<"verifyAdminMutation", "change", "admin-mutation">>

Mutation(check) == Body(check) \o protectedAdmin \o authorizeAdminMutation

bootstrap == <<"loadControlRequestContext", "enrollment">>
adminLogin == <<"admin-login">> \o Body("INVALID_PASSPHRASE") \o <<"verifyPassphrase", "login">>
adminLogout == Mutation("INVALID_REQUEST") \o <<"logout">>
adminSnapshot == protectedAdmin \o <<"read">>
adminSettings == Mutation("INVALID_SETTINGS") \o <<"change">>
adminPassphrase ==
  Mutation("INVALID_PASSPHRASE") \o <<"verifyPassphrase", "rotatePassphrase">>
adminRequests == protectedAdmin \o <<"read">>
resolveDeviceRequest == Mutation("INVALID_DEVICE") \o <<"change">>
adminDevices == protectedAdmin \o <<"read">>
(* The method is DELETE; GET and PATCH are as adminDevices and adminSettings. *)
adminDevice == Mutation("INVALID_DEVICE") \o <<"revokeDevice">>
adminSources == protectedAdmin \o <<"read">>
oauthAuthorize == Mutation("INVALID_SOURCE") \o <<"read">>
(* Whatever happens the answer is a redirect, which names the error.       *)
oauthCallback == <<"oauth_state">> \o protectedAdmin \o <<"change">>
sourceImpact == protectedAdmin \o <<"read">>
removeSource == Mutation("CONFIRMATION_REQUIRED") \o <<"change">>
providerFolders == protectedAdmin \o <<"provider">>
createRoot == Mutation("INVALID_ROOT") \o <<"change">>
rootImpact == protectedAdmin \o <<"read">>
removeRoot == Mutation("CONFIRMATION_REQUIRED") \o <<"change">>
createDeviceRequest == <<"device-request-create">> \o Body("INVALID_DEVICE_NAME") \o <<"change">>
deviceRequestStatus ==
  <<"device-request-status", "device_request", "loadControlRequestContext", "change">>
tvHome == protectedDevice \o <<"read">>
tvFolder == protectedDevice \o <<"provider">>
thumbnailUrls ==
  Body("INVALID_THUMBNAIL_REQUEST") \o protectedDevice \o <<"url-vending", "provider">>
mediaUrl == Body("INVALID_MEDIA_REQUEST") \o protectedDevice \o <<"url-vending", "provider">>

(* The transcoding API loads the context first and clears no cookie; its   *)
(* sessions are those of TranscodeCoordinator.                             *)
transcodeStatus == <<"loadControlRequestContext", "admin_session", "authenticateControlAdmin",
                     "read">>
transcodeSession == <<"loadControlRequestContext", "device_session",
                      "authenticateControlDevice", "session">>
transcodeRead == transcodeSession \o <<"read">>
transcodeMutation == transcodeSession \o <<"requireOrigin", "change">>

(* The installation API, before there is an administrator.                 *)
setupStatus == <<"read">>
setupClaim == <<"requireOrigin", "setup-claim">> \o Body("INVALID_REQUEST") \o <<"change">>

(* createSelfHostedApp asks these apps first.                              *)
LocalHandler(route) ==
  CASE route = "transcodeStatus" -> transcodeStatus
    [] route = "transcodeRead" -> transcodeRead
    [] route = "transcodeMutation" -> transcodeMutation
    [] route = "setupStatus" -> setupStatus
    [] route = "setupClaim" -> setupClaim

(* routeRequest.                                                           *)
TvHandler(route) ==
  CASE route = "bootstrap" -> bootstrap
    [] route = "createDeviceRequest" -> createDeviceRequest
    [] route = "deviceRequestStatus" -> deviceRequestStatus
    [] route = "tvHome" -> tvHome
    [] route = "tvFolder" -> tvFolder
    [] route = "thumbnailUrls" -> thumbnailUrls
    [] route = "mediaUrl" -> mediaUrl
    [] OTHER -> LocalHandler(route)

SourceHandler(route) ==
  CASE route = "adminSources" -> adminSources
    [] route = "oauthAuthorize" -> oauthAuthorize
    [] route = "oauthCallback" -> oauthCallback
    [] route = "sourceImpact" -> sourceImpact
    [] route = "providerFolders" -> providerFolders
    [] route = "createRoot" -> createRoot
    [] route = "removeSource" -> removeSource
    [] route = "rootImpact" -> rootImpact
    [] route = "removeRoot" -> removeRoot
    [] OTHER -> TvHandler(route)

Handler(route) ==
  CASE route = "adminLogin" -> adminLogin
    [] route = "adminLogout" -> adminLogout
    [] route = "adminSnapshot" -> adminSnapshot
    [] route = "adminSettings" -> adminSettings
    [] route = "adminPassphrase" -> adminPassphrase
    [] route = "adminRequests" -> adminRequests
    [] route = "resolveDeviceRequest" -> resolveDeviceRequest
    [] route = "adminDevices" -> adminDevices
    [] route = "adminDevice" -> adminDevice
    [] OTHER -> SourceHandler(route)

Routes ==
  {"bootstrap", "adminLogin", "adminLogout", "adminSnapshot", "adminSettings", "adminPassphrase",
   "adminRequests", "resolveDeviceRequest", "adminDevices", "adminDevice", "adminSources",
   "oauthAuthorize", "oauthCallback", "sourceImpact", "removeSource", "providerFolders",
   "createRoot", "rootImpact", "removeRoot", "createDeviceRequest", "deviceRequestStatus",
   "tvHome", "tvFolder", "thumbnailUrls", "mediaUrl", "transcodeStatus", "transcodeRead",
   "transcodeMutation", "setupStatus", "setupClaim"}

KeepsCookies == {"transcodeStatus", "transcodeRead", "transcodeMutation"}

Buckets == {"setup-claim", "admin-login", "admin-mutation", "device-request-create",
            "device-request-status", "url-vending"}
BodyCodes == {"UNSUPPORTED_MEDIA_TYPE", "BODY_TOO_LARGE", "INVALID_JSON"}
ShapeCodes == {"INVALID_PASSPHRASE", "INVALID_REQUEST", "INVALID_SETTINGS", "INVALID_DEVICE",
               "INVALID_SOURCE", "CONFIRMATION_REQUIRED", "INVALID_ROOT", "INVALID_DEVICE_NAME",
               "INVALID_THUMBNAIL_REQUEST", "INVALID_MEDIA_REQUEST"}

(* normalizeHttpError and the helpers it uses: the status of an error.     *)
StatusOf(code) ==
  CASE code = "OK" -> 200
    [] code \in ShapeCodes \cup {"INVALID_JSON", "INVALID_QUERY", "INVALID_PAGE_SIZE",
                 "INVALID_PATH", "OAUTH_STATE_INVALID", "OAUTH_CANCELLED"} -> 400
    [] code \in {"ADMIN_UNAUTHORIZED", "DEVICE_UNAUTHORIZED", "INVALID_CREDENTIALS",
                 "DEVICE_REQUEST_REQUIRED", "SETUP_CODE_INVALID"} -> 401
    [] code \in {"ORIGIN_INVALID", "CSRF_INVALID", "DEVICE_REQUESTS_DISABLED"} -> 403
    [] code \in {"NOT_FOUND", "HOUSEHOLD_NOT_FOUND", "DEVICE_NOT_FOUND", "SOURCE_NOT_FOUND",
                 "DEVICE_REQUEST_NOT_FOUND", "ROOT_NOT_FOUND", "ITEM_NOT_FOUND",
                 "NAVIGATION_EXPIRED", "PROVIDER_NOT_FOUND"} -> 404
    [] code = "METHOD_NOT_ALLOWED" -> 405
    [] code \in {"CONTROL_PLANE_CONFLICT", "PROVIDER_REAUTH_REQUIRED", "TRANSCODER_BUSY",
                 "DEVICE_ALREADY_EXISTS", "DEVICE_REVOKED", "DEVICE_REQUEST_EXPIRED",
                 "DEVICE_REQUEST_RESOLVED", "ROOT_IDENTITY_MISMATCH",
                 "SOURCE_IDENTITY_MISMATCH", "INSTALLATION_ALREADY_CONFIGURED"} -> 409
    [] code = "TRANSCODER_SESSION_EXPIRED" -> 410
    [] code = "BODY_TOO_LARGE" -> 413
    [] code = "UNSUPPORTED_MEDIA_TYPE" -> 415
    [] code \in {"RATE_LIMITED", "PROVIDER_THROTTLED"} -> 429
    [] code = "PROVIDER_BAD_RESPONSE" -> 502
    [] code \in {"CONTROL_PLANE_UNAVAILABLE", "PROVIDER_NOT_CONFIGURED", "PROVIDER_TIMEOUT",
                 "PROVIDER_UNAVAILABLE", "TRANSCODER_SOURCE_UNAVAILABLE"} -> 503
    [] code = "TRANSCODER_WINDOW_TIMEOUT" -> 504
    [] code = "TRANSCODER_CACHE_FULL" -> 507
    [] OTHER -> 500

-----------------------------------------------------------------------------
(* Requests.                                                               *)

(* What a request has changed, and the guards it had passed before.        *)
Guards == {"authenticateControlAdmin", "authenticateControlDevice", "verifyAdminMutation",
           "requireOrigin", "oauth_state", "device_request"} \cup Buckets
NoEffect == [kind |-> "none", after |-> {}]

IdleCall == [todo |-> <<>>, keeps |-> FALSE, status |-> 0, fault |-> "none",
             sess |-> NoSession, device |-> FALSE, knows |-> 0, now |-> 0, born |-> 0,
             bornRevoked |-> FALSE, ctx |-> 0, ctxRevoked |-> FALSE, expected |-> 0,
             issued |-> NoSession, clears |-> {}, effect |-> NoEffect, passed |-> {},
             admitted |-> "nobody"]

(* What can be wrong with a request to a route.                            *)
Faults(route) ==
  LET todo == Handler(route)
      has(stages) == \E i \in DOMAIN todo : todo[i] \in stages
  IN {"none", "route"}
     \cup (IF has({"readBoundedJsonObject"}) THEN {"body", "shape"} ELSE {})
     \cup (IF has({"verifyAdminMutation", "requireOrigin"}) THEN {"token"} ELSE {})
     \cup (IF has({"device_request", "oauth_state"}) THEN {"cookie"} ELSE {})

Init ==
  /\ pass = 1
  /\ revoked = FALSE
  /\ jar = [admin |-> [claims |-> 1, proved |-> 1], device |-> TRUE]
  /\ call = [c \in Call |-> IdleCall]
  /\ windows = <<>>
  /\ granted = <<>>
  /\ clock = 0
  /\ arrivals = 0

(* A request of the route, with the cookies of its browser and the clock   *)
(* of its arrival.  At most one thing is wrong with it: its method or      *)
(* query, its body, another cookie it needs, or its CSRF token, which may  *)
(* be that of the session before.  knows is the passphrase typed in.       *)
NewCall(route, knows, fault) ==
  [IdleCall EXCEPT
     !.todo = IF fault = "route" THEN <<>> ELSE Handler(route),
     !.status = IF fault = "route" THEN StatusOf("METHOD_NOT_ALLOWED") ELSE 0,
     !.keeps = route \in KeepsCookies, !.fault = fault, !.sess = jar.admin,
     !.device = jar.device, !.knows = knows, !.now = clock, !.born = pass,
     !.bornRevoked = revoked]

Arrive(c) ==
  /\ call[c] = IdleCall
  /\ arrivals < ArrivalBound
  /\ \E route \in Route, knows \in 0 .. pass : \E fault \in Faults(route) :
       /\ knows = 0 \/ route \in {"adminLogin", "adminPassphrase"}
       /\ call' = [call EXCEPT ![c] = NewCall(route, knows, fault)]
  /\ arrivals' = arrivals + 1
  /\ UNCHANGED <<pass, revoked, jar, windows, granted, clock>>

At(c, stage) == call[c].todo # <<>> /\ Head(call[c].todo) = stage
Rest(c) == Tail(call[c].todo)

(* The transcoding API maps every other error that has a code to 401.      *)
Status(k, code) ==
  IF k.keeps /\ code \in {"CONTROL_PLANE_CONFLICT", "CONTROL_PLANE_UNAVAILABLE"}
  THEN 401 ELSE StatusOf(code)

(* The request is answered with an error, and what it had to do is dropped. *)
Answered(k, code) == [IdleCall EXCEPT !.status = Status(k, code), !.effect = k.effect]
Unauthorized(cookie) == IF cookie = "admin" THEN "ADMIN_UNAUTHORIZED" ELSE "DEVICE_UNAUTHORIZED"
Refused(c, code) ==
  [call EXCEPT ![c] = [Answered(@, code) EXCEPT
     !.clears = {cookie \in {"admin", "device"} :
       ~call[c].keeps /\ code = Unauthorized(cookie)}]]
Passed(c) ==
  [call EXCEPT ![c] = IF Rest(c) = <<>> THEN Answered(@, "OK") ELSE [@ EXCEPT !.todo = Rest(c)]]

(* The checks without an effect: what each refuses, and with which code.   *)
Refusals(k, s) ==
  CASE s = "readBoundedJsonObject" -> IF k.fault = "body" THEN BodyCodes ELSE {}
    [] s \in ShapeCodes -> IF k.fault = "shape" THEN {s} ELSE {}
    [] s = "admin_session" -> IF k.sess = NoSession THEN {"ADMIN_UNAUTHORIZED"} ELSE {}
    [] s = "device_session" -> IF k.device THEN {} ELSE {"DEVICE_UNAUTHORIZED"}
    [] s = "device_request" -> IF k.fault = "cookie" THEN {"DEVICE_REQUEST_REQUIRED"} ELSE {}
    [] s = "oauth_state" -> IF k.fault = "cookie" THEN {"OAUTH_STATE_INVALID"} ELSE {}
    [] s = "authenticateControlAdmin" ->
         IF k.sess.claims = k.ctx THEN {} ELSE {"ADMIN_UNAUTHORIZED"}
    [] s = "authenticateControlDevice" ->
         IF k.ctxRevoked THEN {"DEVICE_UNAUTHORIZED"} ELSE {}
    [] s = "verifyAdminMutation" ->
         IF k.fault = "token" THEN {"ORIGIN_INVALID", "CSRF_INVALID"} ELSE {}
    [] s = "requireOrigin" -> IF k.fault = "token" THEN {"ORIGIN_INVALID"} ELSE {}
    [] OTHER -> {}

(* A session ends after a year: an authentication may fail for its age;    *)
(* a playback session may be over, or be another TV's.                     *)
MayExpire(s) ==
  CASE s = "authenticateControlAdmin" -> {"ADMIN_UNAUTHORIZED"}
    [] s = "authenticateControlDevice" -> {"DEVICE_UNAUTHORIZED"}
    [] s = "session" -> {"TRANSCODER_SESSION_EXPIRED", "DEVICE_UNAUTHORIZED"}
    [] OTHER -> {}

Checks == {"readBoundedJsonObject", "admin_session", "device_session", "device_request",
           "oauth_state", "authenticateControlAdmin", "authenticateControlDevice",
           "session", "verifyAdminMutation", "requireOrigin"} \cup ShapeCodes

(* A check depends on nothing that others change, so those between two     *)
(* effects of a handler are one step: all are passed, or one refuses.      *)
Leading(todo) ==
  {i \in DOMAIN todo : \A j \in 1 .. i : todo[j] \in Checks}

First(k, n) == {k.todo[i] : i \in 1 .. n}
Behind(k, n) ==
  [k EXCEPT !.todo = SubSeq(k.todo, n + 1, Len(k.todo)),
            !.passed = k.passed \cup (First(k, n) \cap Guards),
            !.admitted = IF "authenticateControlAdmin" \in First(k, n) THEN "admin"
                         ELSE IF "authenticateControlDevice" \in First(k, n) THEN "device"
                         ELSE k.admitted]

PassesAll(c) ==
  LET k == call[c]
      n == Cardinality(Leading(k.todo))
  IN /\ n > 0
     /\ \A s \in First(k, n) : Refusals(k, s) = {}
     /\ call' = [call EXCEPT ![c] = Behind(k, n)]
     /\ UNCHANGED <<pass, revoked, jar, windows, granted, clock, arrivals>>

FailsOne(c) ==
  LET k == call[c] IN
  /\ \E i \in Leading(k.todo) :
       /\ \A j \in 1 .. i - 1 : Refusals(k, k.todo[j]) = {}
       /\ \E code \in Refusals(k, k.todo[i]) \cup MayExpire(k.todo[i]) : call' = Refused(c, code)
  /\ UNCHANGED <<pass, revoked, jar, windows, granted, clock, arrivals>>

(* Mutant: the context of a request is visible to those that come after.   *)
LoadSharedContext(c) ==
  /\ At(c, "loadControlRequestContext")
  /\ \E d \in Call : (call[d].ctx # 0 \/ d = c) /\
       call' = [Passed(c) EXCEPT ![c].ctx = IF d = c THEN pass ELSE call[d].ctx,
                                 ![c].ctxRevoked = IF d = c THEN revoked ELSE call[d].ctxRevoked]
  /\ UNCHANGED <<pass, revoked, jar, windows, granted, clock, arrivals>>

LoadContext(c) ==
  /\ At(c, "loadControlRequestContext")
  /\ call' = [Passed(c) EXCEPT ![c].ctx = pass, ![c].ctxRevoked = revoked]
  /\ UNCHANGED <<pass, revoked, jar, windows, granted, clock, arrivals>>

-----------------------------------------------------------------------------
(* The rate limiter.                                                       *)

Count(f, key) == IF key \in DOMAIN f THEN f[key] ELSE 0
Counted(f, key) ==
  [k \in DOMAIN f \cup {key} |-> IF k = key THEN Count(f, key) + 1 ELSE f[k]]
Restricted(f, keys) == [k \in keys |-> f[k]]

(* Mutant: the windows that have not expired are dropped.                  *)
PrunedLive(f, now) ==
  IF Cardinality(DOMAIN f) > KeyBound
  THEN Restricted(f, {k \in DOMAIN f : k.window < now})
  ELSE f

Pruned(f, now) ==
  IF Cardinality(DOMAIN f) > KeyBound
  THEN Restricted(f, {k \in DOMAIN f : ~(k.window < now)})
  ELSE f

(* The session, the device, the cookie or else the address of the peer.    *)
(* Sessions with the same claims count as one.                             *)
Subject(k, bucket) ==
  CASE bucket = "admin-mutation" -> k.sess
    [] bucket = "url-vending" -> [device |-> TRUE]
    [] bucket = "device-request-status" -> [cookie |-> k.fault # "cookie"]
    [] OTHER -> [peer |-> TRUE]

Consume(c, bucket) ==
  LET k == call[c]
      key == [bucket |-> bucket, subject |-> Subject(k, bucket), window |-> k.now]
  IN
  /\ At(c, bucket)
  /\ IF Count(windows, key) >= Limit
     THEN call' = Refused(c, "RATE_LIMITED") /\ UNCHANGED <<windows, granted>>
     ELSE /\ call' = [Passed(c) EXCEPT ![c].passed = @ \cup {bucket}]
          /\ windows' = Pruned(Counted(windows, key), k.now)
          /\ granted' = IF k.now = clock THEN Counted(granted, key) ELSE granted
  /\ UNCHANGED <<pass, revoked, jar, clock, arrivals>>

Tick ==
  /\ clock < ClockBound
  /\ clock' = clock + 1
  /\ granted' = <<>>
  /\ UNCHANGED <<pass, revoked, jar, call, windows, arrivals>>

-----------------------------------------------------------------------------
(* Services.                                                               *)

(* The document is loaded, and the hash it has is verified: login() and    *)
(* rotatePassphrase() go on with the version they have loaded.             *)
VerifyPassphrase(c) ==
  /\ At(c, "verifyPassphrase")
  /\ IF call[c].knows = pass
     THEN call' = [Passed(c) EXCEPT ![c].expected = pass]
     ELSE call' = Refused(c, "INVALID_CREDENTIALS")
  /\ UNCHANGED <<pass, revoked, jar, windows, granted, clock, arrivals>>

Login(c) ==
  /\ At(c, "login")
  /\ call' = [Passed(c) EXCEPT
                ![c].issued = [claims |-> call[c].expected, proved |-> call[c].knows]]
  /\ UNCHANGED <<pass, revoked, jar, windows, granted, clock, arrivals>>

(* What a service may have changed, whether it succeeds or fails: the      *)
(* callback has set the marker of its state, and createRoot() has had the  *)
(* broker store credentials, before the transaction that may fail; the     *)
(* broker stores a rotated token before a listing fails, or marks the      *)
(* source and then throws.                                                 *)
Leaves(service) ==
  CASE service = "change" -> {"none", "change"}
    [] service = "provider" -> {"none", "credential"}
    [] service = "enrollment" -> {"none", "claim"}
    [] OTHER -> {"none"}
Effect(c, kind) ==
  IF kind = "none" THEN NoEffect ELSE [kind |-> kind, after |-> call[c].passed]

(* The reducer compares the hash; the error it throws otherwise leaves the *)
(* store as "unavailable".                                                 *)
RotatePassphrase(c) ==
  /\ At(c, "rotatePassphrase")
  /\ IF call[c].expected = pass
     THEN /\ pass < PassBound
          /\ pass' = pass + 1
          /\ call' = [Passed(c) EXCEPT ![c].effect = Effect(c, "change"), ![c].clears = {"admin"}]
     ELSE /\ call' = Refused(c, "CONTROL_PLANE_UNAVAILABLE")
          /\ UNCHANGED pass
  /\ UNCHANGED <<revoked, jar, windows, granted, clock, arrivals>>

RevokeDevice(c) ==
  /\ At(c, "revokeDevice")
  /\ revoked' = TRUE
  /\ call' = [Passed(c) EXCEPT ![c].effect = Effect(c, "change")]
  /\ UNCHANGED <<pass, jar, windows, granted, clock, arrivals>>

(* Any other service: it reads, or it changes what is not modelled here.   *)
(* Logging out only clears the cookie.                                     *)
Serve(c) ==
  /\ \E s \in {"read", "provider", "change", "logout"} :
       /\ At(c, s)
       /\ \E kind \in Leaves(s) :
            call' = [Passed(c) EXCEPT ![c].effect = Effect(c, kind),
                                      ![c].clears = IF s = "logout" THEN {"admin"} ELSE {}]
  /\ UNCHANGED <<pass, revoked, jar, windows, granted, clock, arrivals>>

(* The device cookie of a bootstrap() may be refused without an error: the *)
(* cookie is cleared and the answer tells the TV that it has been revoked, *)
(* or else how its request stands, which may claim an approved one.        *)
Bootstrap(c) ==
  /\ At(c, "enrollment")
  /\ \E bad \in (IF call[c].ctxRevoked THEN {TRUE} ELSE BOOLEAN) :
       \E kind \in IF ~call[c].device \/ (bad /\ ~call[c].ctxRevoked)
                   THEN Leaves("enrollment") ELSE {"none"} :
         call' = [Passed(c) EXCEPT ![c].effect = Effect(c, kind),
                                   ![c].clears = IF call[c].device /\ bad THEN {"device"} ELSE {}]
  /\ UNCHANGED <<pass, revoked, jar, windows, granted, clock, arrivals>>

(* The store or a service throws.  The transactions of the two mutations   *)
(* above are rolled back; what the others have left is left.               *)
ServiceFails(c) ==
  /\ \E s \in {"loadControlRequestContext", "verifyPassphrase", "rotatePassphrase",
               "revokeDevice", "read", "provider", "change", "enrollment"} :
       /\ At(c, s)
       /\ \E code \in ServiceCode, kind \in Leaves(s) :
            call' = [Refused(c, code) EXCEPT ![c].effect = Effect(c, kind)]
  /\ UNCHANGED <<pass, revoked, jar, windows, granted, clock, arrivals>>

-----------------------------------------------------------------------------
(* Answers: the browser applies the cookies they set or clear.             *)

NewJar(k) ==
  [admin |-> IF k.issued # NoSession THEN k.issued
             ELSE IF "admin" \in k.clears THEN NoSession ELSE jar.admin,
   device |-> jar.device /\ "device" \notin k.clears]

Answer(c) ==
  /\ call[c].status # 0
  /\ jar' = NewJar(call[c])
  /\ call' = [call EXCEPT ![c] = IdleCall]
  /\ UNCHANGED <<pass, revoked, windows, granted, clock, arrivals>>

AnswerLost(c) ==
  /\ call[c].status # 0
  /\ call' = [call EXCEPT ![c] = IdleCall]
  /\ UNCHANGED <<pass, revoked, jar, windows, granted, clock, arrivals>>

Next ==
  \/ \E c \in Call :
       \/ Arrive(c) \/ PassesAll(c) \/ FailsOne(c) \/ LoadContext(c)
       \/ \E b \in Buckets : Consume(c, b)
       \/ VerifyPassphrase(c) \/ Login(c) \/ RotatePassphrase(c) \/ RevokeDevice(c)
       \/ Serve(c) \/ Bootstrap(c) \/ ServiceFails(c) \/ Answer(c) \/ AnswerLost(c)
  \/ Tick

Spec == Init /\ [][Next]_vars

-----------------------------------------------------------------------------
TypeOK ==
  /\ pass \in 1 .. PassBound
  /\ revoked \in BOOLEAN
  /\ jar.admin \in Session \cup {NoSession} /\ jar.device \in BOOLEAN
  /\ \A c \in Call : call[c].sess \in Session \cup {NoSession}
                     /\ call[c].ctx \in 0 .. pass /\ call[c].born \in 0 .. pass
  /\ clock \in 0 .. ClockBound /\ arrivals \in 0 .. ArrivalBound

(* A request that is let in comes from someone who has shown the           *)
(* passphrase, or holds a session of the device, that was good when the    *)
(* request arrived or since: a rotation or a revocation ends every session *)
(* for all requests that arrive after it.                                  *)
AdmittedProvesCurrent ==
  \A c \in Call :
    /\ call[c].admitted = "admin" => /\ call[c].sess.proved = call[c].ctx
                                     /\ call[c].ctx >= call[c].born
    /\ call[c].admitted = "device" => ~call[c].bornRevoked

(* The guards of which each change needs one set: an administrator with    *)
(* the token of the session and a budget, or back from the provider with   *)
(* the cookie of the state; a TV with the origin of the app; whoever asks  *)
(* for a device, within a budget; the TV that has asked, likewise; and     *)
(* whoever claims the installation.                                        *)
ChangeGuards ==
  {{"authenticateControlAdmin", "verifyAdminMutation", "admin-mutation"},
   {"authenticateControlAdmin", "oauth_state"},
   {"authenticateControlDevice", "requireOrigin"},
   {"device-request-create"},
   {"device-request-status", "device_request"},
   {"requireOrigin", "setup-claim"}}
Authentications == {"authenticateControlAdmin", "authenticateControlDevice"}

(* An error does not say that nothing has changed: a service can have      *)
(* stored something before it fails.  So whatever is changed, also by a    *)
(* request that is then answered with an error or never, was changed after *)
(* all the guards of that change had been passed and its budget taken; and *)
(* credentials are stored for no one who has not been authenticated.       *)
ChangesAreGuarded ==
  \A c \in Call :
    LET effect == call[c].effect IN
    /\ effect.kind = "change" => \E G \in ChangeGuards : G \subseteq effect.after
    /\ effect.kind = "credential" => effect.after \cap Authentications # {}

(* No subject gets more calls of a bucket in a window than its limit, also *)
(* when the limiter drops windows to stay small.                           *)
BudgetRespected == \A key \in DOMAIN granted : granted[key] <= Limit
=============================================================================
