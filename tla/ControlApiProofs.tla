--------------------------- MODULE ControlApiProofs ---------------------------
(***************************************************************************)
(* Proofs about the HTTP APIs (ControlApi), as the part "api" of MCServer: *)
(* the order of the checks in every handler, and what follows from it for  *)
(* whoever is let in and for whatever is changed; and the rate limiter.    *)
(***************************************************************************)
EXTENDS MCServer, Sequences, FiniteSetTheorems, WellFoundedInduction, TLAPS

LEMMA ApiConstants ==
  /\ Route \subseteq Api!Routes /\ Limit \in Nat
  /\ PassBound \in Nat \ {0} /\ ClockBound \in Nat /\ ArrivalBound \in Nat
BY ServerAssumption

-----------------------------------------------------------------------------
(* The order of the stages of a handler.                                   *)
Stages == Api!Checks \cup Api!Buckets \cup
  {"loadControlRequestContext", "verifyPassphrase", "login", "rotatePassphrase", "revokeDevice",
   "enrollment", "read", "provider", "change", "logout"}
Authentications == {"authenticateControlAdmin", "authenticateControlDevice"}
Changes == {"change", "rotatePassphrase", "revokeDevice"}
Effects == Changes \cup {"enrollment", "provider"}

(* Every s of a handler comes after a t, unless that is behind it.         *)
After(todo, s, t, done) ==
  \A i \in 1 .. Len(todo) : todo[i] = s => done \/ \E j \in 1 .. i - 1 : todo[j] = t

EndsWith(todo) == \A i \in 1 .. Len(todo) : todo[i] \in Effects => i = Len(todo)
LoadsFirst(todo) ==
  \A i, j \in 1 .. Len(todo) :
    todo[i] \in Authentications /\ todo[j] = "loadControlRequestContext" => j < i

(* All changes of a handler come after the guards of one of the sets, and  *)
(* its call of a provider after an authentication, unless these are behind *)
(* it.                                                                     *)
GuardedBy(todo, passed) ==
  /\ \E G \in Api!ChangeGuards : \A g \in G, s \in Changes : After(todo, s, g, g \in passed)
  /\ \E a \in Authentications : After(todo, "provider", a, a \in passed)

Ordered(todo) ==
  /\ After(todo, "login", "verifyPassphrase", FALSE)
  /\ After(todo, "authenticateControlAdmin", "loadControlRequestContext", FALSE)
  /\ After(todo, "authenticateControlDevice", "loadControlRequestContext", FALSE)
  /\ EndsWith(todo) /\ LoadsFirst(todo) /\ GuardedBy(todo, {})

(* What makes a handler guarded, for each set of guards.                   *)
ChangesAfter(todo, G) == \A g \in G, s \in Changes : After(todo, s, g, FALSE)
ProviderAfter(todo, a) == After(todo, "provider", a, FALSE)

LEMMA IsGuardedBy ==
  ASSUME NEW todo, NEW G \in Api!ChangeGuards, ChangesAfter(todo, G),
         NEW a \in Authentications, ProviderAfter(todo, a)
  PROVE  GuardedBy(todo, {})
<1>1. \A g \in G, s \in Changes : After(todo, s, g, g \in {})
  BY DEF ChangesAfter, After
<1>2. After(todo, "provider", a, a \in {}) BY DEF ProviderAfter, After
<1> QED BY <1>1, <1>2 DEF GuardedBy

Served == {"logout", "change", "read", "revokeDevice"}

LEMMA MutationOrdered ==
  ASSUME NEW check \in Api!ShapeCodes, NEW last \in Served
  PROVE  /\ Api!Mutation(check) \o <<last>> \in Seq(Stages)
         /\ Ordered(Api!Mutation(check) \o <<last>>)
<1> DEFINE todo == Api!Mutation(check) \o <<last>>
<1>1. /\ Len(todo) = 8 /\ todo[1] = "readBoundedJsonObject" /\ todo[2] = check
      /\ todo[3] = "admin_session" /\ todo[4] = "loadControlRequestContext"
      /\ todo[5] = "authenticateControlAdmin" /\ todo[6] = "verifyAdminMutation"
      /\ todo[7] = "admin-mutation" /\ todo[8] = last
  BY DEF Api!Mutation, Api!Body, Api!protectedAdmin, Api!authorizeAdminMutation
<1>2. /\ check \notin Effects \cup Authentications \cup {"loadControlRequestContext", "login"}
      /\ last \notin Authentications \cup {"loadControlRequestContext", "login"}
  BY DEF Api!ShapeCodes, Effects, Changes, Authentications, Served
<1>3. todo \in Seq(Stages)
  <2>1. check \in Stages /\ last \in Stages BY DEF Stages, Api!Checks, Served
  <2> QED BY <2>1 DEF Api!Mutation, Api!Body, Api!protectedAdmin, Api!authorizeAdminMutation, Stages, Api!Checks, Api!Buckets
<1> HIDE DEF todo
<1>4. After(todo, "login", "verifyPassphrase", FALSE)
  BY <1>1, <1>2 DEF After
<1>5. /\ After(todo, "authenticateControlAdmin", "loadControlRequestContext", FALSE)
      /\ After(todo, "authenticateControlDevice", "loadControlRequestContext", FALSE)
  BY <1>1, <1>2 DEF After, Authentications
<1>6. EndsWith(todo)
  <2>1. \A i \in 1 .. 7 : todo[i] \notin Effects
    BY <1>1, <1>2 DEF Effects, Changes
  <2> QED BY <1>1, <2>1 DEF EndsWith
<1>7. LoadsFirst(todo) BY <1>1, <1>2 DEF LoadsFirst, Authentications
<1>8. ChangesAfter(todo, {"authenticateControlAdmin", "verifyAdminMutation", "admin-mutation"})
  BY <1>1, <1>2 DEF ChangesAfter, After, Effects, Changes
<1>9. ProviderAfter(todo, "authenticateControlAdmin")
  BY <1>1, <1>2 DEF ProviderAfter, After, Effects, Served
<1>10. GuardedBy(todo, {})
  <2>1. {"authenticateControlAdmin", "verifyAdminMutation", "admin-mutation"} \in Api!ChangeGuards
    BY DEF Api!ChangeGuards
  <2>2. "authenticateControlAdmin" \in Authentications BY DEF Authentications
  <2> QED BY <1>8, <1>9, <2>1, <2>2, IsGuardedBy
<1> QED BY <1>3, <1>4, <1>5, <1>6, <1>7, <1>10 DEF Ordered, todo

LEMMA HandlersOrdered ==
  ASSUME NEW route \in Api!Routes
  PROVE  Api!Handler(route) \in Seq(Stages) /\ Ordered(Api!Handler(route))
<1> DEFINE Good(todo) == todo \in Seq(Stages) /\ Ordered(todo)
<1> DEFINE Sorted(todo) ==
      /\ todo \in Seq(Stages)
      /\ After(todo, "login", "verifyPassphrase", FALSE)
      /\ After(todo, "authenticateControlAdmin", "loadControlRequestContext", FALSE)
      /\ After(todo, "authenticateControlDevice", "loadControlRequestContext", FALSE)
      /\ EndsWith(todo) /\ LoadsFirst(todo)
<1> DEFINE Guarded(todo, G, a) == ChangesAfter(todo, G) /\ ProviderAfter(todo, a)
<1>a. ASSUME NEW todo, Sorted(todo), NEW G \in Api!ChangeGuards, NEW a \in Authentications,
             Guarded(todo, G, a)
      PROVE  Good(todo)
  BY <1>a, IsGuardedBy DEF Ordered
<1>b. ASSUME NEW todo, Sorted(todo), Guarded(todo, {"authenticateControlAdmin", "oauth_state"},
                                             "authenticateControlAdmin")
      PROVE  Good(todo)
  BY <1>a, <1>b DEF Api!ChangeGuards, Authentications
<1>c. ASSUME NEW todo, Sorted(todo), Guarded(todo, {"authenticateControlDevice", "requireOrigin"},
                                             "authenticateControlDevice")
      PROVE  Good(todo)
  BY <1>a, <1>c DEF Api!ChangeGuards, Authentications
<1> HIDE DEF Good
<1> USE DEF After, EndsWith, LoadsFirst, Effects, Changes, Authentications, ChangesAfter,
            ProviderAfter
<1>s1. Good(Api!adminSnapshot)
  <2>1. Sorted(Api!adminSnapshot)
    BY DEF Api!adminSnapshot, Api!protectedAdmin, Stages, Api!Checks, Api!Buckets, Api!ShapeCodes
  <2>2. Guarded(Api!adminSnapshot, {"authenticateControlAdmin", "oauth_state"},
             "authenticateControlAdmin")
    BY DEF Api!adminSnapshot, Api!protectedAdmin
  <2> QED BY <2>1, <2>2, <1>b
<1>s2. Good(Api!adminRequests)
  <2>1. Sorted(Api!adminRequests)
    BY DEF Api!adminRequests, Api!protectedAdmin, Stages, Api!Checks, Api!Buckets, Api!ShapeCodes
  <2>2. Guarded(Api!adminRequests, {"authenticateControlAdmin", "oauth_state"},
             "authenticateControlAdmin")
    BY DEF Api!adminRequests, Api!protectedAdmin
  <2> QED BY <2>1, <2>2, <1>b
<1>s3. Good(Api!adminDevices)
  <2>1. Sorted(Api!adminDevices)
    BY DEF Api!adminDevices, Api!protectedAdmin, Stages, Api!Checks, Api!Buckets, Api!ShapeCodes
  <2>2. Guarded(Api!adminDevices, {"authenticateControlAdmin", "oauth_state"},
             "authenticateControlAdmin")
    BY DEF Api!adminDevices, Api!protectedAdmin
  <2> QED BY <2>1, <2>2, <1>b
<1>s4. Good(Api!adminSources)
  <2>1. Sorted(Api!adminSources)
    BY DEF Api!adminSources, Api!protectedAdmin, Stages, Api!Checks, Api!Buckets, Api!ShapeCodes
  <2>2. Guarded(Api!adminSources, {"authenticateControlAdmin", "oauth_state"},
             "authenticateControlAdmin")
    BY DEF Api!adminSources, Api!protectedAdmin
  <2> QED BY <2>1, <2>2, <1>b
<1>s5. Good(Api!sourceImpact)
  <2>1. Sorted(Api!sourceImpact)
    BY DEF Api!sourceImpact, Api!protectedAdmin, Stages, Api!Checks, Api!Buckets, Api!ShapeCodes
  <2>2. Guarded(Api!sourceImpact, {"authenticateControlAdmin", "oauth_state"},
             "authenticateControlAdmin")
    BY DEF Api!sourceImpact, Api!protectedAdmin
  <2> QED BY <2>1, <2>2, <1>b
<1>s6. Good(Api!providerFolders)
  <2>1. Sorted(Api!providerFolders)
    BY DEF Api!providerFolders, Api!protectedAdmin, Stages, Api!Checks, Api!Buckets, Api!ShapeCodes
  <2>2. Guarded(Api!providerFolders, {"authenticateControlAdmin", "oauth_state"},
             "authenticateControlAdmin")
    BY DEF Api!providerFolders, Api!protectedAdmin
  <2> QED BY <2>1, <2>2, <1>b
<1>s7. Good(Api!rootImpact)
  <2>1. Sorted(Api!rootImpact)
    BY DEF Api!rootImpact, Api!protectedAdmin, Stages, Api!Checks, Api!Buckets, Api!ShapeCodes
  <2>2. Guarded(Api!rootImpact, {"authenticateControlAdmin", "oauth_state"},
             "authenticateControlAdmin")
    BY DEF Api!rootImpact, Api!protectedAdmin
  <2> QED BY <2>1, <2>2, <1>b
<1>s8. Good(Api!oauthCallback)
  <2>1. Sorted(Api!oauthCallback)
    BY DEF Api!oauthCallback, Api!protectedAdmin, Stages, Api!Checks, Api!Buckets, Api!ShapeCodes
  <2>2. Guarded(Api!oauthCallback, {"authenticateControlAdmin", "oauth_state"},
             "authenticateControlAdmin")
    BY DEF Api!oauthCallback, Api!protectedAdmin
  <2> QED BY <2>1, <2>2, <1>b
<1>s9. Good(Api!tvHome)
  <2>1. Sorted(Api!tvHome)
    BY DEF Api!tvHome, Api!protectedDevice, Stages, Api!Checks, Api!Buckets, Api!ShapeCodes
  <2>2. Guarded(Api!tvHome, {"authenticateControlDevice", "requireOrigin"},
             "authenticateControlDevice")
    BY DEF Api!tvHome, Api!protectedDevice
  <2> QED BY <2>1, <2>2, <1>c
<1>s10. Good(Api!tvFolder)
  <2>1. Sorted(Api!tvFolder)
    BY DEF Api!tvFolder, Api!protectedDevice, Stages, Api!Checks, Api!Buckets, Api!ShapeCodes
  <2>2. Guarded(Api!tvFolder, {"authenticateControlDevice", "requireOrigin"},
             "authenticateControlDevice")
    BY DEF Api!tvFolder, Api!protectedDevice
  <2> QED BY <2>1, <2>2, <1>c
<1>s11. Good(Api!bootstrap)
  <2>1. Sorted(Api!bootstrap)
    BY DEF Api!bootstrap, Stages, Api!Checks, Api!Buckets, Api!ShapeCodes
  <2>2. Guarded(Api!bootstrap, {"authenticateControlDevice", "requireOrigin"},
             "authenticateControlDevice")
    BY DEF Api!bootstrap
  <2> QED BY <2>1, <2>2, <1>c
<1>s12. Good(Api!deviceRequestStatus)
  <2>1. Sorted(Api!deviceRequestStatus)
    BY DEF Api!deviceRequestStatus, Stages, Api!Checks, Api!Buckets, Api!ShapeCodes
  <2>2. Guarded(Api!deviceRequestStatus, {"device-request-status", "device_request"},
             "authenticateControlDevice")
    BY DEF Api!deviceRequestStatus
  <2>3. {"device-request-status", "device_request"} \in Api!ChangeGuards BY DEF Api!ChangeGuards
  <2> QED BY <2>1, <2>2, <2>3, <1>a
<1>s13. Good(Api!transcodeStatus)
  <2>1. Sorted(Api!transcodeStatus)
    BY DEF Api!transcodeStatus, Stages, Api!Checks, Api!Buckets, Api!ShapeCodes
  <2>2. Guarded(Api!transcodeStatus, {"authenticateControlDevice", "requireOrigin"},
             "authenticateControlDevice")
    BY DEF Api!transcodeStatus
  <2> QED BY <2>1, <2>2, <1>c
<1>s14. Good(Api!setupStatus)
  <2>1. Sorted(Api!setupStatus)
    BY DEF Api!setupStatus, Stages, Api!Checks, Api!Buckets, Api!ShapeCodes
  <2>2. Guarded(Api!setupStatus, {"authenticateControlDevice", "requireOrigin"},
             "authenticateControlDevice")
    BY DEF Api!setupStatus
  <2> QED BY <2>1, <2>2, <1>c
<1>s16. Good(Api!transcodeRead)
  <2>1. Sorted(Api!transcodeRead)
    BY DEF Api!transcodeRead, Api!transcodeSession, Stages, Api!Checks, Api!Buckets, Api!ShapeCodes
  <2>2. Guarded(Api!transcodeRead, {"authenticateControlDevice", "requireOrigin"},
             "authenticateControlDevice")
    BY DEF Api!transcodeRead, Api!transcodeSession
  <2> QED BY <2>1, <2>2, <1>c
<1>s17. Good(Api!transcodeMutation)
  <2>1. Sorted(Api!transcodeMutation)
    BY DEF Api!transcodeMutation, Api!transcodeSession, Stages, Api!Checks, Api!Buckets, Api!ShapeCodes
  <2>2. Guarded(Api!transcodeMutation, {"authenticateControlDevice", "requireOrigin"},
             "authenticateControlDevice")
    BY DEF Api!transcodeMutation, Api!transcodeSession
  <2> QED BY <2>1, <2>2, <1>c
<1>s18. Good(Api!adminLogin)
  <2>1. Sorted(Api!adminLogin)
    BY DEF Api!adminLogin, Api!Body, Stages, Api!Checks, Api!Buckets, Api!ShapeCodes
  <2>2. Guarded(Api!adminLogin, {"authenticateControlDevice", "requireOrigin"},
             "authenticateControlDevice")
    BY DEF Api!adminLogin, Api!Body
  <2> QED BY <2>1, <2>2, <1>c
<1>s19. Good(Api!createDeviceRequest)
  <2>1. Sorted(Api!createDeviceRequest)
    BY DEF Api!createDeviceRequest, Api!Body, Stages, Api!Checks, Api!Buckets, Api!ShapeCodes
  <2>2. Guarded(Api!createDeviceRequest, {"device-request-create"},
             "authenticateControlDevice")
    BY DEF Api!createDeviceRequest, Api!Body
  <2>3. {"device-request-create"} \in Api!ChangeGuards BY DEF Api!ChangeGuards
  <2> QED BY <2>1, <2>2, <2>3, <1>a
<1>s20. Good(Api!setupClaim)
  <2>1. Sorted(Api!setupClaim)
    BY DEF Api!setupClaim, Api!Body, Stages, Api!Checks, Api!Buckets, Api!ShapeCodes
  <2>2. Guarded(Api!setupClaim, {"requireOrigin", "setup-claim"}, "authenticateControlDevice")
    BY DEF Api!setupClaim, Api!Body
  <2>3. {"requireOrigin", "setup-claim"} \in Api!ChangeGuards BY DEF Api!ChangeGuards
  <2> QED BY <2>1, <2>2, <2>3, <1>a
<1>s21. Good(Api!thumbnailUrls)
  <2>1. Sorted(Api!thumbnailUrls)
    BY DEF Api!thumbnailUrls, Api!Body, Api!protectedDevice, Stages, Api!Checks, Api!Buckets, Api!ShapeCodes
  <2>2. Guarded(Api!thumbnailUrls, {"authenticateControlDevice", "requireOrigin"},
             "authenticateControlDevice")
    BY DEF Api!thumbnailUrls, Api!Body, Api!protectedDevice
  <2> QED BY <2>1, <2>2, <1>c
<1>s22. Good(Api!mediaUrl)
  <2>1. Sorted(Api!mediaUrl)
    BY DEF Api!mediaUrl, Api!Body, Api!protectedDevice, Stages, Api!Checks, Api!Buckets, Api!ShapeCodes
  <2>2. Guarded(Api!mediaUrl, {"authenticateControlDevice", "requireOrigin"},
             "authenticateControlDevice")
    BY DEF Api!mediaUrl, Api!Body, Api!protectedDevice
  <2> QED BY <2>1, <2>2, <1>c
<1>s23. Good(Api!adminPassphrase)
  <2>1. Sorted(Api!adminPassphrase)
    BY DEF Api!adminPassphrase, Api!Mutation, Api!Body, Api!protectedAdmin, Api!authorizeAdminMutation, Stages, Api!Checks, Api!Buckets, Api!ShapeCodes
  <2>2. Guarded(Api!adminPassphrase, {"authenticateControlAdmin", "verifyAdminMutation", "admin-mutation"},
             "authenticateControlAdmin")
    BY DEF Api!adminPassphrase, Api!Mutation, Api!Body, Api!protectedAdmin, Api!authorizeAdminMutation
  <2>3. {"authenticateControlAdmin", "verifyAdminMutation", "admin-mutation"} \in Api!ChangeGuards BY DEF Api!ChangeGuards
  <2> QED BY <2>1, <2>2, <2>3, <1>a
<1> HIDE DEF After, EndsWith, LoadsFirst, Effects, Changes, Authentications, ChangesAfter,
             ProviderAfter
<1>m. Good(Api!adminLogout) /\ Good(Api!adminSettings) /\ Good(Api!resolveDeviceRequest) /\ Good(Api!adminDevice) /\ Good(Api!oauthAuthorize) /\ Good(Api!removeSource) /\ Good(Api!createRoot) /\ Good(Api!removeRoot)
  BY MutationOrdered DEF Good, Served, Api!adminLogout, Api!adminSettings, Api!resolveDeviceRequest, Api!adminDevice, Api!oauthAuthorize, Api!removeSource, Api!createRoot, Api!removeRoot, Api!ShapeCodes
<1>1. CASE route \in {"transcodeStatus", "transcodeRead", "transcodeMutation", "setupStatus",
                      "setupClaim"}
  <2>1. Api!Handler(route) = Api!LocalHandler(route)
    BY <1>1 DEF Api!Handler, Api!SourceHandler, Api!TvHandler
  <2> QED BY <1>1, <2>1, <1>s13, <1>s14, <1>s16, <1>s17, <1>s20 DEF Api!LocalHandler, Good
<1>2. CASE route \in {"bootstrap", "createDeviceRequest", "deviceRequestStatus", "tvHome",
                      "tvFolder", "thumbnailUrls", "mediaUrl"}
  <2>1. Api!Handler(route) = Api!TvHandler(route)
    BY <1>2 DEF Api!Handler, Api!SourceHandler
  <2> QED BY <1>2, <2>1, <1>s9, <1>s10, <1>s11, <1>s12, <1>s19, <1>s21, <1>s22 DEF Api!TvHandler, Good
<1>3. CASE route \in {"adminSources", "oauthAuthorize", "oauthCallback", "sourceImpact",
                      "providerFolders", "createRoot", "removeSource", "rootImpact", "removeRoot"}
  <2>1. Api!Handler(route) = Api!SourceHandler(route)
    BY <1>3 DEF Api!Handler
  <2> QED BY <1>3, <2>1, <1>s4, <1>s5, <1>s6, <1>s7, <1>s8, <1>m DEF Api!SourceHandler, Good
<1>4. CASE route \in {"adminLogin", "adminLogout", "adminSnapshot", "adminSettings",
                      "adminPassphrase", "adminRequests", "resolveDeviceRequest", "adminDevices",
                      "adminDevice"}
  BY <1>4, <1>s1, <1>s2, <1>s3, <1>s18, <1>s23, <1>m DEF Api!Handler, Good
<1> QED BY <1>1, <1>2, <1>3, <1>4 DEF Api!Routes

-----------------------------------------------------------------------------
(* Requests.                                                               *)
AnySession == Api!Session \cup {Api!NoSession}
FaultKinds == {"none", "route", "body", "shape", "token", "cookie"}
Change == [kind : {"none", "change", "credential", "claim"}, after : SUBSET Api!Guards]
Request ==
  [todo : Seq(Stages), keeps : BOOLEAN, status : Nat, fault : FaultKinds,
   sess : AnySession, device : BOOLEAN, knows : Nat, now : Nat, born : Nat,
   bornRevoked : BOOLEAN, ctx : Nat, ctxRevoked : BOOLEAN, expected : Nat,
   issued : AnySession, clears : SUBSET {"admin", "device"}, effect : Change,
   passed : SUBSET Api!Guards, admitted : {"nobody", "admin", "device"}]

(* Whose session is what its holder has shown.                             *)
Honest(session) == session.claims = session.proved

(* The context was loaded after the request arrived.                       *)
Loaded(k) == k.ctx >= k.born /\ (k.bornRevoked => k.ctxRevoked)
Verified(k) == k.expected = k.knows /\ k.expected \in 1 .. PassBound

(* What a request has still to do is in order, with what it has done.      *)
InOrder(k) ==
  /\ After(k.todo, "login", "verifyPassphrase", Verified(k))
  /\ After(k.todo, "authenticateControlAdmin", "loadControlRequestContext", Loaded(k))
  /\ After(k.todo, "authenticateControlDevice", "loadControlRequestContext", Loaded(k))
  /\ EndsWith(k.todo) /\ LoadsFirst(k.todo) /\ GuardedBy(k.todo, k.passed)
  /\ k.admitted # "nobody" =>
       \A i \in 1 .. Len(k.todo) : k.todo[i] # "loadControlRequestContext"

(* Who is let in has shown what the context has.                           *)
Admission(k) ==
  /\ k.admitted = "admin" => k.sess.claims = k.ctx /\ Loaded(k)
  /\ k.admitted = "device" => ~k.ctxRevoked /\ Loaded(k)

(* What has been changed was guarded, and is the last a request does.      *)
Guarded(effect) ==
  /\ effect.kind = "change" => \E G \in Api!ChangeGuards : G \subseteq effect.after
  /\ effect.kind = "credential" => effect.after \cap Authentications # {}
EffectLast(k) == Guarded(k.effect) /\ (k.effect # Api!NoEffect => k.todo = <<>>)

LEMMA NoEffectGuarded == Guarded(Api!NoEffect) /\ Api!NoEffect \in Change
BY DEF Guarded, Api!NoEffect, Change

(* It knows nothing from the future.                                       *)
Past(k) ==
  /\ k.born <= pass /\ k.ctx <= pass /\ k.now <= clock
  /\ k.bornRevoked => revoked

RequestInv(k) ==
  /\ k \in Request /\ Honest(k.sess) /\ Honest(k.issued)
  /\ InOrder(k) /\ Admission(k) /\ EffectLast(k) /\ Past(k)

ApiTypes ==
  /\ pass \in 1 .. PassBound /\ revoked \in BOOLEAN
  /\ jar \in [admin : AnySession, device : BOOLEAN] /\ Honest(jar.admin)
  /\ DOMAIN call = Call /\ call = [c \in Call |-> call[c]]
  /\ clock \in 0 .. ClockBound /\ arrivals \in 0 .. ArrivalBound

(* A window of the present is never dropped, and counts all that it let    *)
(* through.                                                                *)
Windows ==
  /\ \A key \in DOMAIN windows : windows[key] \in Nat /\ windows[key] <= Limit
  /\ \A key \in DOMAIN granted :
       /\ key.window = clock /\ key \in DOMAIN windows
       /\ granted[key] \in Nat /\ granted[key] <= windows[key]

ApiInv == ApiTypes /\ (\A c \in Call : RequestInv(call[c])) /\ Windows

LEMMA IdleCallType == Api!IdleCall \in Request
<1>1. <<>> \in Seq(Stages) OBVIOUS
<1> QED BY <1>1, NoEffectGuarded DEF Api!IdleCall, Request, AnySession, FaultKinds

LEMMA NoSessionHonest == Honest(Api!NoSession)
BY DEF Honest, Api!NoSession

LEMMA NothingGuarded ==
  ASSUME NEW todo, Len(todo) = 0, NEW passed
  PROVE  GuardedBy(todo, passed)
<1>1. \A s, g : \A done : After(todo, s, g, done) BY DEF After
<1>2. {"device-request-create"} \in Api!ChangeGuards BY DEF Api!ChangeGuards
<1>3. "authenticateControlAdmin" \in Authentications BY DEF Authentications
<1> QED BY <1>1, <1>2, <1>3 DEF GuardedBy

(* A request that has nothing left to do is in order.                      *)
LEMMA DoneInv ==
  ASSUME NEW k \in Request, k.todo = <<>>, k.admitted = "nobody", Honest(k.sess),
         Honest(k.issued), Guarded(k.effect), Past(k)
  PROVE  RequestInv(k)
<1>1. Len(k.todo) = 0 OBVIOUS
<1>2. InOrder(k) BY <1>1, NothingGuarded DEF InOrder, After, EndsWith, LoadsFirst
<1> QED BY <1>2 DEF RequestInv, Admission, EffectLast

LEMMA StatusIsNat == \A k, code : Api!Status(k, code) \in Nat /\ Api!StatusOf(code) \in Nat
<1>1. \A code : Api!StatusOf(code) \in Nat BY DEF Api!StatusOf
<1> QED BY <1>1 DEF Api!Status

LEMMA StatusOfOK == \A k : Api!Status(k, "OK") = 200
BY DEF Api!Status, Api!StatusOf, Api!ShapeCodes

(* What is left of a handler in order, when what is left out of its front  *)
(* either has no t or is now done.                                         *)
LEMMA AfterRest ==
  ASSUME NEW todo, NEW rest, NEW n \in Nat, NEW s, NEW t, NEW done, NEW later,
         Len(todo) \in Nat, n <= Len(todo), Len(rest) = Len(todo) - n,
         \A i \in 1 .. Len(rest) : rest[i] = todo[i + n],
         After(todo, s, t, done), done => later,
         (\E i \in 1 .. n : todo[i] = t) => later
  PROVE  After(rest, s, t, later)
<1>1. SUFFICES ASSUME NEW i \in 1 .. Len(rest), rest[i] = s, ~later
               PROVE  \E j \in 1 .. i - 1 : rest[j] = t
  BY DEF After
<1>2. i + n \in 1 .. Len(todo) /\ todo[i + n] = s BY <1>1
<1>3. PICK j \in 1 .. (i + n) - 1 : todo[j] = t BY <1>1, <1>2 DEF After
<1>4. j > n BY <1>1, <1>3
<1>5. j - n \in 1 .. i - 1 /\ j - n \in 1 .. Len(rest) /\ (j - n) + n = j BY <1>4
<1>6. rest[j - n] = t BY <1>3, <1>5
<1> QED BY <1>5, <1>6

LEMMA OrderRest ==
  ASSUME NEW todo, NEW rest, NEW n \in Nat, Len(todo) \in Nat, n <= Len(todo),
         Len(rest) = Len(todo) - n, \A i \in 1 .. Len(rest) : rest[i] = todo[i + n],
         EndsWith(todo), LoadsFirst(todo)
  PROVE  EndsWith(rest) /\ LoadsFirst(rest)
<1>1. \A i \in 1 .. Len(rest) : i + n \in 1 .. Len(todo) OBVIOUS
<1>2. EndsWith(rest)
  <2>1. SUFFICES ASSUME NEW i \in 1 .. Len(rest), rest[i] \in Effects PROVE i = Len(rest)
    BY DEF EndsWith
  <2>2. i + n = Len(todo) BY <1>1, <2>1 DEF EndsWith
  <2>3. i \in Int /\ n \in Int /\ Len(todo) \in Int /\ Len(rest) = Len(todo) - n BY <2>1
  <2> QED BY ONLY <2>2, <2>3
<1>3. LoadsFirst(rest)
  <2>1. SUFFICES ASSUME NEW i \in 1 .. Len(rest), NEW j \in 1 .. Len(rest),
                        rest[i] \in Authentications, rest[j] = "loadControlRequestContext"
                 PROVE  j < i
    BY DEF LoadsFirst
  <2>2. j + n < i + n BY <1>1, <2>1 DEF LoadsFirst
  <2> QED BY <2>2
<1> QED BY <1>2, <1>3

LEMMA ChangeGuardsAreGuards ==
  (\A G \in Api!ChangeGuards : G \subseteq Api!Guards) /\ Authentications \subseteq Api!Guards
BY DEF Api!ChangeGuards, Api!Guards, Api!Buckets, Authentications

LEMMA GuardedRest ==
  ASSUME NEW todo, NEW rest, NEW n \in Nat, Len(todo) \in Nat, n <= Len(todo),
         Len(rest) = Len(todo) - n, \A i \in 1 .. Len(rest) : rest[i] = todo[i + n],
         NEW passed, NEW later, GuardedBy(todo, passed), passed \subseteq later,
         \A g \in Api!Guards : (\E i \in 1 .. n : todo[i] = g) => g \in later
  PROVE  GuardedBy(rest, later)
<1>1. ASSUME NEW s, NEW g \in Api!Guards, After(todo, s, g, g \in passed)
      PROVE  After(rest, s, g, g \in later)
  <2>1. /\ g \in passed => g \in later
        /\ (\E i \in 1 .. n : todo[i] = g) => g \in later
    BY <1>1
  <2> QED BY <1>1, <2>1, AfterRest
<1>2. PICK G \in Api!ChangeGuards : \A g \in G, s \in Changes : After(todo, s, g, g \in passed)
  BY DEF GuardedBy
<1>3. \A g \in G, s \in Changes : After(rest, s, g, g \in later)
  BY <1>1, <1>2, ChangeGuardsAreGuards
<1>4. PICK a \in Authentications : After(todo, "provider", a, a \in passed) BY DEF GuardedBy
<1>5. After(rest, "provider", a, a \in later) BY <1>1, <1>4, ChangeGuardsAreGuards
<1> QED BY <1>3, <1>5 DEF GuardedBy

LEMMA TailIsRest ==
  ASSUME NEW todo \in Seq(Stages), todo # <<>>
  PROVE  /\ Tail(todo) \in Seq(Stages) /\ Len(todo) \in Nat /\ 1 <= Len(todo)
         /\ Len(Tail(todo)) = Len(todo) - 1
         /\ \A i \in 1 .. Len(Tail(todo)) : Tail(todo)[i] = todo[i + 1]
         /\ Head(todo) = todo[1]
OBVIOUS

LEMMA ApiInit ==
  ASSUME Api!Init
  PROVE  ApiInv
<1>1. /\ pass = 1 /\ revoked = FALSE /\ clock = 0 /\ arrivals = 0
      /\ jar = [admin |-> [claims |-> 1, proved |-> 1], device |-> TRUE]
      /\ call = [c \in Call |-> Api!IdleCall]
      /\ windows = <<>> /\ granted = <<>>
  BY DEF Api!Init
<1>2. [claims |-> 1, proved |-> 1] \in AnySession
  BY ApiConstants DEF AnySession, Api!Session
<1>3. ApiTypes
  <2>1. jar \in [admin : AnySession, device : BOOLEAN] /\ Honest(jar.admin)
    BY <1>1, <1>2 DEF Honest
  <2>2. DOMAIN call = Call /\ call = [c \in Call |-> call[c]] BY <1>1
  <2>3. /\ pass \in 1 .. PassBound /\ revoked \in BOOLEAN
        /\ clock \in 0 .. ClockBound /\ arrivals \in 0 .. ArrivalBound
    <3>1. pass = 1 /\ revoked = FALSE /\ clock = 0 /\ arrivals = 0 BY <1>1
    <3>2. 1 \in 1 .. PassBound /\ 0 \in 0 .. ClockBound /\ 0 \in 0 .. ArrivalBound
      BY ApiConstants
    <3> QED BY ONLY <3>1, <3>2
  <2> QED BY <2>1, <2>2, <2>3 DEF ApiTypes
<1>4. /\ Api!IdleCall.todo = <<>> /\ Api!IdleCall.admitted = "nobody" /\ Api!IdleCall.effect = Api!NoEffect
      /\ Api!IdleCall.sess = Api!NoSession /\ Api!IdleCall.issued = Api!NoSession
      /\ Api!IdleCall.born = 0 /\ Api!IdleCall.ctx = 0 /\ Api!IdleCall.now = 0
      /\ Api!IdleCall.bornRevoked = FALSE
  BY DEF Api!IdleCall
<1>5. RequestInv(Api!IdleCall)
  <2>1. Past(Api!IdleCall) BY <1>1, <1>4 DEF Past
  <2> QED BY <1>4, <2>1, IdleCallType, NoSessionHonest, NoEffectGuarded, DoneInv
<1>6. Windows BY <1>1 DEF Windows
<1> QED BY <1>1, <1>3, <1>5, <1>6 DEF ApiInv

(* What is past stays past.                                                *)
LEMMA RequestStands ==
  ASSUME NEW k, RequestInv(k), pass \in Nat, pass' \in Nat, pass <= pass',
         clock \in Nat, clock' \in Nat, clock <= clock', revoked => revoked'
  PROVE  RequestInv(k)'
<1>1. Past(k)' BY DEF RequestInv, Past, Request
<1> QED BY <1>1
        DEF RequestInv, Request, Honest, InOrder, After, EndsWith, LoadsFirst, Verified, Loaded,
            GuardedBy, Admission, EffectLast, Guarded

(* A step of one request, whatever it leaves to the others.                *)
LEMMA OneRequest ==
  ASSUME ApiInv, NEW c \in Call, NEW k, call' = [call EXCEPT ![c] = k], RequestInv(k)',
         pass' \in 1 .. PassBound, pass <= pass', revoked' \in BOOLEAN, revoked => revoked',
         UNCHANGED clock
  PROVE  /\ \A d \in Call : RequestInv(call[d])'
         /\ DOMAIN call' = Call /\ call' = [d \in Call |-> call'[d]]
<1>1. \A d \in Call : call'[d] = IF d = c THEN k ELSE call[d] BY DEF ApiInv, ApiTypes
<1>2. pass \in Nat /\ pass' \in Nat /\ clock \in Nat /\ clock' \in Nat
  BY ApiConstants DEF ApiInv, ApiTypes
<1>3. ASSUME NEW d \in Call PROVE RequestInv(call[d])'
  <2>1. CASE d = c BY <1>1, <2>1
  <2>2. CASE d # c
    <3>1. call'[d] = call[d] BY <1>1, <2>2
    <3> QED BY <1>2, <3>1, RequestStands DEF ApiInv
  <2> QED BY <2>1, <2>2
<1>4. DOMAIN call' = Call /\ call' = [d \in Call |-> call'[d]] BY DEF ApiInv, ApiTypes
<1> QED BY <1>3, <1>4

(* A step that changes what one request has, and not the cookies.          *)
LEMMA RequestStep ==
  ASSUME ApiInv, NEW c \in Call, NEW k, call' = [call EXCEPT ![c] = k], RequestInv(k)',
         pass' \in 1 .. PassBound, pass <= pass', revoked' \in BOOLEAN, revoked => revoked',
         UNCHANGED <<jar, clock>>, arrivals' \in 0 .. ArrivalBound, Windows'
  PROVE  ApiInv'
<1>1. UNCHANGED clock OBVIOUS
<1>2. /\ \A d \in Call : RequestInv(call[d])'
      /\ DOMAIN call' = Call /\ call' = [d \in Call |-> call'[d]]
  BY <1>1, OneRequest
<1>3. ApiTypes' BY <1>2 DEF ApiInv, ApiTypes
<1> QED BY <1>2, <1>3 DEF ApiInv

(* What a request is when it has been answered.                            *)
LEMMA AnsweredInv ==
  ASSUME ApiInv, NEW k \in Request, k.todo = <<>>, k.admitted = "nobody",
         Guarded(k.effect), Honest(k.sess), Honest(k.issued),
         k.born = 0, k.ctx = 0, k.now = 0, k.bornRevoked = FALSE,
         UNCHANGED <<pass, clock>>
  PROVE  RequestInv(k)'
<1>1. pass \in 1 .. PassBound /\ clock \in 0 .. ClockBound BY DEF ApiInv, ApiTypes
<1>2. Past(k)' BY <1>1, ApiConstants DEF Past
<1>3. Len(k.todo) = 0 OBVIOUS
<1>4. InOrder(k)'
  <2>1. GuardedBy(k.todo, k.passed) BY <1>3, NothingGuarded
  <2>2. GuardedBy(k.todo, k.passed)' BY <2>1 DEF GuardedBy, After
  <2> QED BY <1>3, <2>2 DEF InOrder, After, EndsWith, LoadsFirst
<1> QED BY <1>2, <1>4 DEF RequestInv, Admission, EffectLast, Guarded, Honest

(* A request ends with an error, and leaves what it has changed.           *)
LEMMA RefusedWithInv ==
  ASSUME ApiInv, NEW c \in Call, call[c].todo # <<>>, NEW code, NEW effect \in Change,
         Guarded(effect), call' = [Api!Refused(c, code) EXCEPT ![c].effect = effect],
         UNCHANGED <<pass, revoked, jar, clock, arrivals>>, Windows'
  PROVE  ApiInv'
<1>1. PICK k : k = call[c] OBVIOUS
<1>2. PICK gone : gone = {cookie \in {"admin", "device"} :
                            ~k.keeps /\ code = Api!Unauthorized(cookie)}
  OBVIOUS
<1>3. PICK status : status = Api!Status(k, code) OBVIOUS
<1>4. PICK q : q = [Api!IdleCall EXCEPT !.status = status, !.clears = gone, !.effect = effect]
  OBVIOUS
<1>5. call' = [call EXCEPT ![c] = q]
  <2>1. [[[Api!IdleCall EXCEPT !.status = status, !.effect = k.effect] EXCEPT !.clears = gone]
          EXCEPT !.effect = effect] = q
    BY <1>4 DEF Api!IdleCall
  <2> QED BY <1>1, <1>2, <1>3, <2>1 DEF Api!Refused, Api!Answered, ApiInv, ApiTypes
<1>6. gone \in SUBSET {"admin", "device"} /\ status \in Nat BY <1>2, <1>3, StatusIsNat
<1>7. q \in Request BY <1>4, <1>6, IdleCallType DEF Request
<1>8. /\ q.todo = <<>> /\ q.admitted = "nobody" /\ q.effect = effect
      /\ q.sess = Api!NoSession /\ q.issued = Api!NoSession
      /\ q.born = 0 /\ q.ctx = 0 /\ q.now = 0 /\ q.bornRevoked = FALSE
  BY <1>4 DEF Api!IdleCall
<1>9. RequestInv(q)'
  <2>1. UNCHANGED <<pass, clock>> OBVIOUS
  <2> QED BY <1>7, <1>8, <2>1, NoSessionHonest, AnsweredInv
<1>10. /\ pass' \in 1 .. PassBound /\ pass <= pass' /\ revoked' \in BOOLEAN
       /\ (revoked => revoked') /\ arrivals' \in 0 .. ArrivalBound
  BY ApiConstants DEF ApiInv, ApiTypes
<1> QED BY <1>5, <1>9, <1>10, RequestStep

LEMMA RefusedInv ==
  ASSUME ApiInv, NEW c \in Call, call[c].todo # <<>>, NEW code, call' = Api!Refused(c, code),
         UNCHANGED <<pass, revoked, jar, clock, arrivals>>, Windows'
  PROVE  ApiInv'
<1>1. call[c].effect = Api!NoEffect BY DEF ApiInv, RequestInv, EffectLast
<1>2. Api!Refused(c, code) = [Api!Refused(c, code) EXCEPT ![c].effect = Api!NoEffect]
  <2>1. DOMAIN call = Call BY DEF ApiInv, ApiTypes
  <2>2. PICK q : q = [Api!Answered(call[c], code) EXCEPT
                        !.clears = {cookie \in {"admin", "device"} :
                          ~call[c].keeps /\ code = Api!Unauthorized(cookie)}]
    OBVIOUS
  <2>3. Api!Refused(c, code) = [call EXCEPT ![c] = q] BY <2>1, <2>2 DEF Api!Refused
  <2>4. [q EXCEPT !.effect = Api!NoEffect] = q
    BY <1>1, <2>2 DEF Api!Answered, Api!IdleCall
  <2> QED BY <2>1, <2>3, <2>4
<1>3. call' = [Api!Refused(c, code) EXCEPT ![c].effect = Api!NoEffect] BY <1>2
<1> QED BY <1>3, NoEffectGuarded, RefusedWithInv

(* What a request has when it has passed its first stage: it is answered,  *)
(* or goes on with the rest.                                               *)
PassedTo(c, k) ==
  /\ k \in Request /\ Honest(k.sess) /\ Honest(k.issued) /\ k.effect = Api!NoEffect
  /\ k.born <= pass /\ k.ctx <= pass /\ k.now <= clock /\ (k.bornRevoked => revoked)
  /\ \/ /\ k.todo = <<>> /\ k.admitted = "nobody" /\ k.status = 200
        /\ Len(call[c].todo) = 1
     \/ /\ k = [call[c] EXCEPT !.todo = Tail(call[c].todo)]
        /\ Len(call[c].todo) # 1

LEMMA PassedIs ==
  ASSUME ApiInv, NEW c \in Call, call[c].todo # <<>>
  PROVE  \E k : PassedTo(c, k) /\ Api!Passed(c) = [call EXCEPT ![c] = k]
<1>1. PICK k : k = call[c] OBVIOUS
<1>2. /\ k \in Request /\ k.effect = Api!NoEffect /\ Honest(k.sess) /\ Honest(k.issued) /\ Past(k)
      /\ k.todo \in Seq(Stages) /\ k.todo # <<>>
  BY <1>1 DEF ApiInv, RequestInv, EffectLast, Request
<1>3. pass \in 1 .. PassBound /\ clock \in 0 .. ClockBound BY DEF ApiInv, ApiTypes
<1>4. CASE Tail(k.todo) = <<>>
  <2>1. PICK q : q = Api!Answered(k, "OK") OBVIOUS
  <2>2. Api!Passed(c) = [call EXCEPT ![c] = q]
    <3>2. Api!Rest(c) = <<>> BY <1>1, <1>4 DEF Api!Rest
    <3>3. Api!Passed(c) = [call EXCEPT ![c] = Api!Answered(call[c], "OK")]
      BY <3>2 DEF Api!Passed, ApiInv, ApiTypes
    <3> QED BY <1>1, <2>1, <3>3
  <2>a. q = [Api!IdleCall EXCEPT !.status = Api!Status(k, "OK"), !.effect = k.effect]
    BY <2>1 DEF Api!Answered
  <2>3. q \in Request BY <1>2, <2>a, StatusIsNat, IdleCallType DEF Request
  <2>4. /\ q.todo = <<>> /\ q.admitted = "nobody" /\ q.effect = Api!NoEffect /\ q.status = 200
        /\ q.sess = Api!NoSession /\ q.issued = Api!NoSession
        /\ q.born = 0 /\ q.ctx = 0 /\ q.now = 0 /\ q.bornRevoked = FALSE
    BY <1>2, <2>a, StatusOfOK DEF Api!IdleCall
  <2>5. 0 <= pass /\ 0 <= clock BY <1>3, ApiConstants
  <2>6. Len(k.todo) = 1
    <3>0. Len(<<>>) = 0 OBVIOUS
    <3>1. Len(Tail(k.todo)) = 0 BY ONLY <1>4, <3>0
    <3>2. Len(k.todo) \in Nat /\ Len(Tail(k.todo)) = Len(k.todo) - 1 BY <1>2, TailIsRest
    <3> QED BY <3>1, <3>2
  <2>7. Honest(q.sess) /\ Honest(q.issued) BY <2>4, NoSessionHonest
  <2>8. q.born <= pass /\ q.ctx <= pass /\ q.now <= clock /\ (q.bornRevoked => revoked)
    BY <2>4, <2>5
  <2>9. Len(call[c].todo) = 1 BY <1>1, <2>6
  <2> QED BY <2>2, <2>3, <2>4, <2>7, <2>8, <2>9 DEF PassedTo
<1>5. CASE Tail(k.todo) # <<>>
  <2>1. PICK q : q = [k EXCEPT !.todo = Tail(k.todo)] OBVIOUS
  <2>2. Api!Passed(c) = [call EXCEPT ![c] = q]
    BY <1>1, <1>5, <2>1 DEF Api!Passed, Api!Rest, ApiInv, ApiTypes
  <2>3. Tail(k.todo) \in Seq(Stages) BY <1>2
  <2>4. q \in Request BY <1>2, <2>1, <2>3 DEF Request
  <2>5. /\ q.effect = k.effect /\ q.sess = k.sess /\ q.issued = k.issued /\ q.born = k.born
        /\ q.ctx = k.ctx /\ q.now = k.now /\ q.bornRevoked = k.bornRevoked
    BY <1>2, <2>1 DEF Request
  <2>6. Len(k.todo) # 1
    <3>1. PICK rest : rest = Tail(k.todo) OBVIOUS
    <3>2. Len(k.todo) \in Nat /\ Len(rest) = Len(k.todo) - 1
      BY <1>2, <3>1, TailIsRest
    <3>3. rest \in Seq(Stages) /\ rest # <<>> BY <1>5, <2>3, <3>1
    <3>4. Len(rest) # 0 BY ONLY <3>3
    <3> QED BY ONLY <3>2, <3>4
  <2>7. /\ Honest(q.sess) /\ Honest(q.issued) /\ q.effect = Api!NoEffect
        /\ q.born <= pass /\ q.ctx <= pass /\ q.now <= clock /\ (q.bornRevoked => revoked)
    BY <1>2, <2>5 DEF Past
  <2>8. q = [call[c] EXCEPT !.todo = Tail(call[c].todo)] /\ Len(call[c].todo) # 1
    BY <1>1, <2>1, <2>6
  <2> QED BY <2>2, <2>4, <2>7, <2>8 DEF PassedTo
<1> QED BY <1>4, <1>5

(* The rest of what a request has to do is in order, when the stage it has *)
(* passed is done.                                                         *)
LEMMA RestInOrder ==
  ASSUME NEW k \in Request, InOrder(k), k.todo # <<>>, NEW q \in Request,
         q.todo = Tail(k.todo), q.admitted = k.admitted,
         Verified(k) \/ k.todo[1] = "verifyPassphrase" => Verified(q),
         Loaded(k) \/ k.todo[1] = "loadControlRequestContext" => Loaded(q),
         k.passed \subseteq q.passed, k.todo[1] \in Api!Guards => k.todo[1] \in q.passed
  PROVE  InOrder(q)
<1>1. PICK todo : todo = k.todo OBVIOUS
<1>2. PICK rest : rest = q.todo OBVIOUS
<1>3. /\ Len(todo) \in Nat /\ 1 <= Len(todo) /\ Len(rest) = Len(todo) - 1
      /\ \A i \in 1 .. Len(rest) : rest[i] = todo[i + 1]
  BY <1>1, <1>2, TailIsRest DEF Request
<1>4. /\ After(todo, "login", "verifyPassphrase", Verified(k))
      /\ After(todo, "authenticateControlAdmin", "loadControlRequestContext", Loaded(k))
      /\ After(todo, "authenticateControlDevice", "loadControlRequestContext", Loaded(k))
      /\ EndsWith(todo) /\ LoadsFirst(todo)
      /\ k.admitted # "nobody" =>
           \A i \in 1 .. Len(todo) : todo[i] # "loadControlRequestContext"
  BY <1>1 DEF InOrder
<1>5. /\ (\E i \in 1 .. 1 : todo[i] = "verifyPassphrase") => Verified(q)
      /\ (\E i \in 1 .. 1 : todo[i] = "loadControlRequestContext") => Loaded(q)
      /\ (Verified(k) => Verified(q)) /\ (Loaded(k) => Loaded(q))
  BY <1>1
<1>6. After(rest, "login", "verifyPassphrase", Verified(q))
  BY <1>3, <1>4, <1>5, AfterRest
<1>7. After(rest, "authenticateControlAdmin", "loadControlRequestContext", Loaded(q))
  BY <1>3, <1>4, <1>5, AfterRest
<1>8. After(rest, "authenticateControlDevice", "loadControlRequestContext", Loaded(q))
  BY <1>3, <1>4, <1>5, AfterRest
<1>9. EndsWith(rest) /\ LoadsFirst(rest) BY <1>3, <1>4, OrderRest
<1>10. q.admitted # "nobody" =>
         \A i \in 1 .. Len(rest) : rest[i] # "loadControlRequestContext"
  <2>1. \A i \in 1 .. Len(rest) : i + 1 \in 1 .. Len(todo) BY <1>3
  <2> QED BY <1>3, <1>4, <2>1
<1>11. GuardedBy(rest, q.passed)
  <2>1. \A g \in Api!Guards : (\E i \in 1 .. 1 : todo[i] = g) => g \in q.passed BY <1>1
  <2>2. GuardedBy(todo, k.passed) BY <1>1 DEF InOrder
  <2> QED BY <1>3, <2>1, <2>2, GuardedRest
<1> QED BY <1>2, <1>6, <1>7, <1>8, <1>9, <1>10, <1>11 DEF InOrder

(* A stage that is passed, with what it changes of the request.            *)
LEMMA StageInv ==
  ASSUME ApiInv, NEW c \in Call, call[c].todo # <<>>, NEW k, PassedTo(c, k), NEW q \in Request,
         call' = [call EXCEPT ![c] = q],
         q.todo = k.todo, q.admitted = k.admitted, q.status = k.status, q.sess = k.sess,
         q.born = k.born, q.bornRevoked = k.bornRevoked, q.now = k.now, Honest(q.issued),
         Guarded(q.effect), q.effect # Api!NoEffect => Len(call[c].todo) = 1,
         k.passed \subseteq q.passed,
         call[c].todo[1] \in Api!Guards => call[c].todo[1] \in q.passed,
         \/ /\ q.ctx = k.ctx /\ q.ctxRevoked = k.ctxRevoked
            /\ call[c].todo[1] # "loadControlRequestContext"
         \/ /\ q.ctx = pass /\ q.ctxRevoked = revoked
            /\ call[c].todo[1] = "loadControlRequestContext",
         \/ /\ q.expected = k.expected /\ q.knows = k.knows
            /\ call[c].todo[1] # "verifyPassphrase"
         \/ Verified(q),
         pass' \in 1 .. PassBound, pass <= pass', revoked' \in BOOLEAN, revoked => revoked',
         UNCHANGED <<jar, clock, arrivals>>, Windows'
  PROVE  ApiInv'
<1>1. pass \in 1 .. PassBound /\ clock \in 0 .. ClockBound /\ arrivals' \in 0 .. ArrivalBound
  BY DEF ApiInv, ApiTypes
<1>2. /\ k \in Request /\ k.born <= pass /\ k.ctx <= pass /\ k.now <= clock
      /\ (k.bornRevoked => revoked) /\ Honest(q.sess)
  BY DEF PassedTo
<1>3. Past(q)'
  <2>1. /\ q.born \in Nat /\ q.ctx \in Nat /\ q.now \in Nat /\ pass \in Nat /\ pass' \in Nat
        /\ q.ctx <= pass
    BY <1>1, <1>2, ApiConstants DEF Request
  <2> QED BY <1>2, <2>1 DEF Past
<1>4. CASE k.todo = <<>> /\ k.admitted = "nobody" /\ k.status = 200
  <2>1. Len(q.todo) = 0 BY <1>4
  <2>a. GuardedBy(q.todo, q.passed)' BY <2>1, NothingGuarded DEF GuardedBy, After
  <2>2. InOrder(q)' BY <1>4, <2>1, <2>a DEF InOrder, After, EndsWith, LoadsFirst
  <2>3. RequestInv(q)'
    BY <1>2, <1>3, <1>4, <2>2 DEF RequestInv, Admission, EffectLast, Guarded, Honest
  <2> QED BY <1>1, <2>3, RequestStep
<1>5. CASE k = [call[c] EXCEPT !.todo = Tail(call[c].todo)] /\ Len(call[c].todo) # 1
  <2>1. PICK p : p = call[c] OBVIOUS
  <2>2. p \in Request /\ InOrder(p) /\ Admission(p) BY <2>1 DEF ApiInv, RequestInv
  <2>3. /\ k.todo = Tail(p.todo) /\ k.admitted = p.admitted /\ k.sess = p.sess
        /\ k.born = p.born /\ k.bornRevoked = p.bornRevoked /\ k.ctx = p.ctx
        /\ k.ctxRevoked = p.ctxRevoked /\ k.expected = p.expected /\ k.knows = p.knows
        /\ k.passed = p.passed
    BY <1>5, <2>1, <2>2 DEF Request
  <2>4. Verified(p) \/ p.todo[1] = "verifyPassphrase" => Verified(q)
    BY <2>1, <2>3 DEF Verified
  <2>5. Loaded(p) \/ p.todo[1] = "loadControlRequestContext" => Loaded(q)
    <3>1. q.born <= pass /\ (q.bornRevoked => revoked) BY <1>2
    <3> QED BY <2>1, <2>3, <3>1 DEF Loaded
  <2>6. InOrder(q)
    <3>1. /\ q.todo = Tail(p.todo) /\ q.admitted = p.admitted /\ p.passed \subseteq q.passed
          /\ p.todo # <<>> /\ (p.todo[1] \in Api!Guards => p.todo[1] \in q.passed)
      BY <2>1, <2>3
    <3> QED BY <2>2, <2>4, <2>5, <3>1, RestInOrder
  <2>7. p.admitted # "nobody" => p.todo[1] # "loadControlRequestContext"
    <3>1. 1 \in 1 .. Len(p.todo) BY <2>1, <2>2, TailIsRest DEF Request
    <3> QED BY <2>2, <3>1 DEF InOrder
  <2>8. Admission(q) BY <2>1, <2>2, <2>3, <2>5, <2>7 DEF Admission
  <2>9. q.effect = Api!NoEffect BY <1>5
  <2>10. RequestInv(q)'
    <3>1. InOrder(q)' BY <2>6 DEF InOrder, After, EndsWith, LoadsFirst, GuardedBy, Verified, Loaded
    <3>2. Admission(q)' BY <2>8 DEF Admission, Loaded
    <3> QED BY <1>2, <1>3, <2>9, <3>1, <3>2 DEF RequestInv, EffectLast, Guarded, Honest
  <2> QED BY <1>1, <2>10, RequestStep
<1> QED BY <1>4, <1>5 DEF PassedTo

(* A stage with which a request changes something is its last one.         *)
LEMMA EffectEnds ==
  ASSUME ApiInv, NEW c \in Call, call[c].todo # <<>>, call[c].todo[1] \in Effects
  PROVE  Len(call[c].todo) = 1
<1>1. PICK p : p = call[c] OBVIOUS
<1>2. p.todo \in Seq(Stages) /\ EndsWith(p.todo)
  BY <1>1 DEF ApiInv, RequestInv, InOrder, Request
<1>3. 1 \in 1 .. Len(p.todo) BY <1>1, <1>2, TailIsRest
<1> QED BY <1>1, <1>2, <1>3 DEF EndsWith

(* What a stage leaves, it leaves behind its guards.                       *)
LEMMA EffectGuarded ==
  ASSUME ApiInv, NEW c \in Call, call[c].todo # <<>>, NEW kind,
         \/ kind \in Api!Leaves(call[c].todo[1])
         \/ kind = "change" /\ call[c].todo[1] \in Changes
  PROVE  Api!Effect(c, kind) \in Change /\ Guarded(Api!Effect(c, kind))
<1>1. PICK p : p = call[c] OBVIOUS
<1>2. p \in Request /\ p.todo \in Seq(Stages) /\ GuardedBy(p.todo, p.passed)
      /\ p.passed \in SUBSET Api!Guards
  BY <1>1 DEF ApiInv, RequestInv, InOrder, Request
<1>3. 1 \in 1 .. Len(p.todo) BY <1>1, <1>2, TailIsRest
<1>4. CASE kind = "none"
  <2>1. Api!Effect(c, kind) = Api!NoEffect BY <1>4 DEF Api!Effect
  <2> QED BY <2>1, NoEffectGuarded
<1>5. CASE kind # "none"
  <2>1. Api!Effect(c, kind) = [kind |-> kind, after |-> p.passed] BY <1>1, <1>5 DEF Api!Effect
  <2>2. /\ kind \in {"change", "credential", "claim"}
        /\ kind = "change" => p.todo[1] \in Changes
        /\ kind = "credential" => p.todo[1] = "provider"
    BY <1>1, <1>5 DEF Api!Leaves, Changes
  <2>3. ASSUME kind = "change" PROVE \E G \in Api!ChangeGuards : G \subseteq p.passed
    <3>1. PICK G \in Api!ChangeGuards :
            \A g \in G, s \in Changes : After(p.todo, s, g, g \in p.passed)
      BY <1>2 DEF GuardedBy
    <3>2. \A g \in G : g \in p.passed BY <1>3, <2>2, <2>3, <3>1 DEF After
    <3> QED BY <3>2
  <2>4. ASSUME kind = "credential" PROVE p.passed \cap Authentications # {}
    <3>1. PICK a \in Authentications : After(p.todo, "provider", a, a \in p.passed)
      BY <1>2 DEF GuardedBy
    <3>2. a \in p.passed BY <1>3, <2>2, <2>4, <3>1 DEF After
    <3> QED BY <3>2
  <2> QED BY <1>2, <2>1, <2>2, <2>3, <2>4 DEF Guarded, Change
<1> QED BY <1>4, <1>5

LEMMA AtStage ==
  ASSUME ApiInv, NEW c \in Call, NEW stage, Api!At(c, stage)
  PROVE  call[c].todo # <<>> /\ call[c].todo[1] = stage
<1>1. PICK todo : todo = call[c].todo OBVIOUS
<1>2. todo \in Seq(Stages) BY <1>1 DEF ApiInv, RequestInv, Request
<1> QED BY <1>1, <1>2, TailIsRest DEF Api!At

(* The variables that no stage but a change of the document writes.        *)
LEMMA Standing ==
  ASSUME ApiInv, UNCHANGED <<windows, granted, clock>>
  PROVE  /\ Windows' /\ pass \in 1 .. PassBound /\ pass <= pass /\ revoked \in BOOLEAN
         /\ pass \in Nat
BY ApiConstants DEF ApiInv, ApiTypes, Windows

-----------------------------------------------------------------------------
(* Actions.                                                                *)
LEMMA LoadContextInv ==
  ASSUME ApiInv, NEW c \in Call, Api!LoadContext(c)
  PROVE  ApiInv'
<1>1. /\ Api!At(c, "loadControlRequestContext")
      /\ call' = [Api!Passed(c) EXCEPT ![c].ctx = pass, ![c].ctxRevoked = revoked]
      /\ UNCHANGED <<pass, revoked, jar, windows, granted, clock, arrivals>>
  BY DEF Api!LoadContext
<1>2. call[c].todo # <<>> /\ call[c].todo[1] = "loadControlRequestContext"
  BY <1>1, AtStage
<1>3. PICK k : PassedTo(c, k) /\ Api!Passed(c) = [call EXCEPT ![c] = k] BY <1>2, PassedIs
<1>4. PICK q : q = [k EXCEPT !.ctx = pass, !.ctxRevoked = revoked] OBVIOUS
<1>5. call' = [call EXCEPT ![c] = q] BY <1>1, <1>3, <1>4 DEF ApiInv, ApiTypes
<1>6. k \in Request /\ Honest(k.issued) /\ k.effect = Api!NoEffect BY <1>3 DEF PassedTo
<1>7. q \in Request BY <1>4, <1>6, Standing, <1>1 DEF Request
<1>8. /\ q.todo = k.todo /\ q.admitted = k.admitted /\ q.status = k.status /\ q.sess = k.sess
      /\ q.born = k.born /\ q.bornRevoked = k.bornRevoked /\ q.now = k.now
      /\ q.issued = k.issued /\ q.effect = k.effect /\ q.ctx = pass /\ q.ctxRevoked = revoked
      /\ q.expected = k.expected /\ q.knows = k.knows
      /\ q.passed = k.passed
  BY <1>4, <1>6 DEF Request
<1>9. Guarded(q.effect) /\ q.effect = Api!NoEffect BY <1>6, <1>8, NoEffectGuarded
<1>10. call[c].todo[1] \notin Api!Guards BY <1>2 DEF Api!Guards, Api!Buckets
<1> QED BY <1>1, <1>2, <1>3, <1>5, <1>6, <1>7, <1>8, <1>9, <1>10, Standing, StageInv

LEMMA VerifyInv ==
  ASSUME ApiInv, NEW c \in Call, Api!VerifyPassphrase(c)
  PROVE  ApiInv'
<1>1. /\ Api!At(c, "verifyPassphrase")
      /\ UNCHANGED <<pass, revoked, jar, windows, granted, clock, arrivals>>
  BY DEF Api!VerifyPassphrase
<1>2. call[c].todo # <<>> /\ call[c].todo[1] = "verifyPassphrase" BY <1>1, AtStage
<1>3. CASE call[c].knows = pass
  <2>1. call' = [Api!Passed(c) EXCEPT ![c].expected = pass]
    BY <1>3 DEF Api!VerifyPassphrase
  <2>2. PICK k : PassedTo(c, k) /\ Api!Passed(c) = [call EXCEPT ![c] = k] BY <1>2, PassedIs
  <2>3. PICK q : q = [k EXCEPT !.expected = pass] OBVIOUS
  <2>4. call' = [call EXCEPT ![c] = q] BY <2>1, <2>2, <2>3 DEF ApiInv, ApiTypes
  <2>5. k \in Request /\ Honest(k.issued) /\ k.effect = Api!NoEffect BY <2>2 DEF PassedTo
  <2>6. q \in Request BY <1>1, <2>3, <2>5, Standing DEF Request
  <2>7. /\ q.todo = k.todo /\ q.admitted = k.admitted /\ q.status = k.status /\ q.sess = k.sess
        /\ q.born = k.born /\ q.bornRevoked = k.bornRevoked /\ q.now = k.now
        /\ q.issued = k.issued /\ q.effect = k.effect /\ q.ctx = k.ctx
        /\ q.ctxRevoked = k.ctxRevoked /\ q.expected = pass /\ q.knows = k.knows
        /\ q.passed = k.passed
    BY <2>3, <2>5 DEF Request
  <2>8. call[c] \in Request BY DEF ApiInv, RequestInv
  <2>11. Guarded(q.effect) /\ q.effect = Api!NoEffect BY <2>5, <2>7, NoEffectGuarded
  <2>12. call[c].todo[1] \notin Api!Guards BY <1>2 DEF Api!Guards, Api!Buckets
  <2>9. CASE k = [call[c] EXCEPT !.todo = Tail(call[c].todo)]
    <3>1. k.knows = pass BY <1>3, <2>8, <2>9 DEF Request
    <3>2. Verified(q) BY <2>7, <3>1, <1>1, Standing DEF Verified
    <3> QED
      BY <1>1, <1>2, <2>2, <2>4, <2>5, <2>6, <2>7, <2>11, <2>12, <3>2, Standing, StageInv
  <2>10. CASE k.todo = <<>> /\ k.admitted = "nobody" /\ k.status = 200
    <3>1. Past(q)'
      BY <1>1, <2>2, <2>7 DEF PassedTo, Past
    <3>2. Honest(q.sess) /\ Honest(q.issued) BY <2>2, <2>7 DEF PassedTo
    <3>3. Len(q.todo) = 0 BY <2>7, <2>10
    <3>a. GuardedBy(q.todo, q.passed)' BY <3>3, NothingGuarded DEF GuardedBy, After
    <3>4. InOrder(q)' BY <2>7, <2>10, <3>3, <3>a DEF InOrder, After, EndsWith, LoadsFirst
    <3>5. RequestInv(q)'
      BY <2>5, <2>6, <2>7, <2>10, <2>11, <3>1, <3>2, <3>4
      DEF RequestInv, Admission, EffectLast, Guarded, Honest
    <3> QED BY <1>1, <2>4, <3>5, Standing, RequestStep DEF ApiInv, ApiTypes
  <2> QED BY <2>2, <2>9, <2>10 DEF PassedTo
<1>4. CASE call[c].knows # pass
  BY <1>1, <1>2, <1>4, Standing, RefusedInv DEF Api!VerifyPassphrase
<1> QED BY <1>3, <1>4

LEMMA LoginInv ==
  ASSUME ApiInv, NEW c \in Call, Api!Login(c)
  PROVE  ApiInv'
<1>1. /\ Api!At(c, "login")
      /\ call' = [Api!Passed(c) EXCEPT
                    ![c].issued = [claims |-> call[c].expected, proved |-> call[c].knows]]
      /\ UNCHANGED <<pass, revoked, jar, windows, granted, clock, arrivals>>
  BY DEF Api!Login
<1>2. call[c].todo # <<>> /\ call[c].todo[1] = "login" BY <1>1, AtStage
<1>3. Verified(call[c])
  <2>1. PICK p : p = call[c] OBVIOUS
  <2>2. p \in Request /\ After(p.todo, "login", "verifyPassphrase", Verified(p))
    BY <2>1 DEF ApiInv, RequestInv, InOrder
  <2>3. 1 \in 1 .. Len(p.todo) BY <1>2, <2>1, <2>2, TailIsRest DEF Request
  <2>4. Verified(p) BY <1>2, <2>1, <2>2, <2>3 DEF After
  <2> QED BY <2>1, <2>4
<1>4. PICK k : PassedTo(c, k) /\ Api!Passed(c) = [call EXCEPT ![c] = k] BY <1>2, PassedIs
<1>5. PICK session : session = [claims |-> call[c].expected, proved |-> call[c].knows] OBVIOUS
<1>6. session \in AnySession /\ Honest(session)
  BY <1>3, <1>5 DEF Verified, AnySession, Api!Session, Honest
<1>7. PICK q : q = [k EXCEPT !.issued = session] OBVIOUS
<1>8. call' = [call EXCEPT ![c] = q] BY <1>1, <1>4, <1>5, <1>7 DEF ApiInv, ApiTypes
<1>9. k \in Request /\ k.effect = Api!NoEffect BY <1>4 DEF PassedTo
<1>10. q \in Request BY <1>6, <1>7, <1>9 DEF Request
<1>11. /\ q.todo = k.todo /\ q.admitted = k.admitted /\ q.status = k.status /\ q.sess = k.sess
       /\ q.born = k.born /\ q.bornRevoked = k.bornRevoked /\ q.now = k.now
       /\ q.issued = session /\ q.effect = k.effect /\ q.ctx = k.ctx
       /\ q.ctxRevoked = k.ctxRevoked /\ q.expected = k.expected /\ q.knows = k.knows
      /\ q.passed = k.passed
  BY <1>7, <1>9 DEF Request
<1>12. Guarded(q.effect) /\ q.effect = Api!NoEffect BY <1>9, <1>11, NoEffectGuarded
<1>13. call[c].todo[1] \notin Api!Guards BY <1>2 DEF Api!Guards, Api!Buckets
<1> QED
  BY <1>1, <1>2, <1>4, <1>6, <1>8, <1>9, <1>10, <1>11, <1>12, <1>13, Standing, StageInv

(* A service ends its request: the answer clears a cookie or none.         *)
ServiceStages == Effects \cup {"read", "logout"}

LEMMA ChangeInv ==
  ASSUME ApiInv, NEW c \in Call, NEW stage \in ServiceStages, Api!At(c, stage),
         NEW clears \in SUBSET {"admin", "device"}, NEW kind,
         \/ kind \in Api!Leaves(stage)
         \/ kind = "change" /\ stage \in Changes,
         call' = [Api!Passed(c) EXCEPT ![c].effect = Api!Effect(c, kind), ![c].clears = clears],
         pass' \in 1 .. PassBound, pass <= pass', revoked' \in BOOLEAN, revoked => revoked',
         UNCHANGED <<jar, windows, granted, clock, arrivals>>
  PROVE  ApiInv'
<1>1. call[c].todo # <<>> /\ call[c].todo[1] = stage BY AtStage
<1>2. PICK k : PassedTo(c, k) /\ Api!Passed(c) = [call EXCEPT ![c] = k] BY <1>1, PassedIs
<1>a. PICK effect : effect = Api!Effect(c, kind) OBVIOUS
<1>b. effect \in Change /\ Guarded(effect) BY <1>1, <1>a, EffectGuarded
<1>3. PICK q : q = [k EXCEPT !.effect = effect, !.clears = clears] OBVIOUS
<1>4. call' = [call EXCEPT ![c] = q] BY <1>2, <1>a, <1>3 DEF ApiInv, ApiTypes
<1>5. k \in Request /\ Honest(k.issued) BY <1>2 DEF PassedTo
<1>6. q \in Request BY <1>b, <1>3, <1>5 DEF Request
<1>7. /\ q.todo = k.todo /\ q.admitted = k.admitted /\ q.status = k.status /\ q.sess = k.sess
      /\ q.born = k.born /\ q.bornRevoked = k.bornRevoked /\ q.now = k.now
      /\ q.issued = k.issued /\ q.effect = effect /\ q.ctx = k.ctx
      /\ q.ctxRevoked = k.ctxRevoked /\ q.expected = k.expected /\ q.knows = k.knows
      /\ q.passed = k.passed
  BY <1>3, <1>5 DEF Request
<1>8. effect # Api!NoEffect => Len(call[c].todo) = 1
  <2>1. SUFFICES ASSUME effect # Api!NoEffect PROVE stage \in Effects BY <1>1, EffectEnds
  <2>2. kind # "none" BY <1>a, <2>1 DEF Api!Effect
  <2> QED BY <2>2 DEF Api!Leaves, Effects, Changes
<1>9. call[c].todo[1] \notin {"loadControlRequestContext", "verifyPassphrase"} \cup Api!Guards
  BY <1>1 DEF ServiceStages, Effects, Changes, Api!Guards, Api!Buckets
<1>10. q.effect # Api!NoEffect => Len(call[c].todo) = 1 BY <1>7, <1>8
<1>11. Honest(q.issued) BY <1>5, <1>7
<1>12. Windows' BY Standing
<1>13. Guarded(q.effect) /\ k.passed \subseteq q.passed BY <1>b, <1>7
<1>14. call[c].todo[1] \in Api!Guards => call[c].todo[1] \in q.passed BY <1>9
<1>15. /\ q.ctx = k.ctx /\ q.ctxRevoked = k.ctxRevoked
       /\ call[c].todo[1] # "loadControlRequestContext"
       /\ q.expected = k.expected /\ q.knows = k.knows
       /\ call[c].todo[1] # "verifyPassphrase"
  BY <1>7, <1>9
<1>16. /\ q.todo = k.todo /\ q.admitted = k.admitted /\ q.status = k.status /\ q.sess = k.sess
       /\ q.born = k.born /\ q.bornRevoked = k.bornRevoked /\ q.now = k.now
  BY <1>7
<1>17. call[c].todo # <<>> /\ PassedTo(c, k) /\ UNCHANGED <<jar, clock, arrivals>>
  BY <1>1, <1>2
<1> QED
  BY <1>17, <1>4, <1>6, <1>10, <1>11, <1>12, <1>13, <1>14, <1>15, <1>16, StageInv

LEMMA ServicesInv ==
  ASSUME ApiInv, NEW c \in Call,
         Api!RotatePassphrase(c) \/ Api!RevokeDevice(c) \/ Api!Serve(c) \/ Api!Bootstrap(c)
  PROVE  ApiInv'
<1>1. pass \in 1 .. PassBound /\ revoked \in BOOLEAN /\ pass \in Nat
  BY ApiConstants DEF ApiInv, ApiTypes
<1>2. CASE Api!RotatePassphrase(c) /\ call[c].expected = pass
  <2>1. /\ Api!At(c, "rotatePassphrase") /\ pass' = pass + 1 /\ pass < PassBound
        /\ call' = [Api!Passed(c) EXCEPT ![c].effect = Api!Effect(c, "change"),
                                        ![c].clears = {"admin"}]
        /\ UNCHANGED <<revoked, jar, windows, granted, clock, arrivals>>
    BY <1>2 DEF Api!RotatePassphrase
  <2>2. pass' \in 1 .. PassBound /\ pass <= pass' BY <1>1, <2>1, ApiConstants
  <2>3. {"admin"} \in SUBSET {"admin", "device"} OBVIOUS
  <2>4. "rotatePassphrase" \in ServiceStages /\ "rotatePassphrase" \in Changes
    BY DEF ServiceStages, Effects, Changes
  <2> QED BY <1>1, <2>1, <2>2, <2>3, <2>4, ChangeInv
<1>3. CASE Api!RotatePassphrase(c) /\ call[c].expected # pass
  <2>1. Api!At(c, "rotatePassphrase") BY <1>3 DEF Api!RotatePassphrase
  <2>2. call[c].todo # <<>> BY <2>1, AtStage
  <2> QED BY <1>3, <2>2, Standing, RefusedInv DEF Api!RotatePassphrase
<1>4. CASE Api!RevokeDevice(c)
  <2>1. /\ Api!At(c, "revokeDevice") /\ revoked' = TRUE
        /\ call' = [Api!Passed(c) EXCEPT ![c].effect = Api!Effect(c, "change")]
        /\ UNCHANGED <<pass, jar, windows, granted, clock, arrivals>>
    BY <1>4 DEF Api!RevokeDevice
  <2>2. call[c].todo # <<>> BY <2>1, AtStage
  <2>3. pass' \in 1 .. PassBound /\ pass <= pass' BY <1>1, <2>1
  <2>4. PICK k : PassedTo(c, k) /\ Api!Passed(c) = [call EXCEPT ![c] = k] BY <2>2, PassedIs
  <2>5. k \in Request /\ DOMAIN call = Call BY <2>4 DEF PassedTo, ApiInv, ApiTypes
  <2>6. PICK clears \in SUBSET {"admin", "device"} : clears = k.clears BY <2>5 DEF Request
  <2>7. PICK effect : effect = Api!Effect(c, "change") OBVIOUS
  <2>8. [k EXCEPT !.effect = effect] = [k EXCEPT !.effect = effect, !.clears = clears]
    BY <2>5, <2>6 DEF Request
  <2>9. call' = [Api!Passed(c) EXCEPT ![c].effect = effect, ![c].clears = clears]
    BY <2>1, <2>4, <2>5, <2>7, <2>8 DEF ApiInv, ApiTypes
  <2>10. call' = [Api!Passed(c) EXCEPT ![c].effect = Api!Effect(c, "change"),
                                     ![c].clears = clears]
    BY <2>7, <2>9
  <2>11. "revokeDevice" \in ServiceStages /\ "revokeDevice" \in Changes
    BY DEF ServiceStages, Effects, Changes
  <2> QED BY <1>1, <2>1, <2>3, <2>10, <2>11, ChangeInv
<1>5. CASE Api!Serve(c)
  <2>1. PICK s \in {"read", "provider", "change", "logout"} :
          /\ Api!At(c, s)
          /\ \E kind \in Api!Leaves(s) :
               call' = [Api!Passed(c) EXCEPT ![c].effect = Api!Effect(c, kind),
                          ![c].clears = IF s = "logout" THEN {"admin"} ELSE {}]
    BY <1>5 DEF Api!Serve
  <2>2. PICK kind \in Api!Leaves(s) :
          call' = [Api!Passed(c) EXCEPT ![c].effect = Api!Effect(c, kind),
                     ![c].clears = IF s = "logout" THEN {"admin"} ELSE {}]
    BY <2>1
  <2>3. PICK clears \in SUBSET {"admin", "device"} :
          clears = IF s = "logout" THEN {"admin"} ELSE {}
    OBVIOUS
  <2>4. call' = [Api!Passed(c) EXCEPT ![c].effect = Api!Effect(c, kind), ![c].clears = clears]
    BY <2>2, <2>3
  <2>5. UNCHANGED <<pass, revoked, jar, windows, granted, clock, arrivals>>
    BY <1>5 DEF Api!Serve
  <2>6. pass' \in 1 .. PassBound /\ pass <= pass' /\ revoked' \in BOOLEAN
        /\ (revoked => revoked')
    BY <1>1, <2>5
  <2>7. s \in ServiceStages BY DEF ServiceStages, Effects, Changes
  <2> QED BY <2>1, <2>4, <2>5, <2>6, <2>7, ChangeInv
<1>6. CASE Api!Bootstrap(c)
  <2>1. PICK bad \in BOOLEAN : \E kind \in Api!Leaves("enrollment") :
          call' = [Api!Passed(c) EXCEPT
            ![c].effect = Api!Effect(c, kind),
            ![c].clears = IF call[c].device /\ bad THEN {"device"} ELSE {}]
    <3>1. "none" \in Api!Leaves("enrollment") BY DEF Api!Leaves
    <3> QED BY <1>6, <3>1 DEF Api!Bootstrap
  <2>2. PICK kind \in Api!Leaves("enrollment") :
          call' = [Api!Passed(c) EXCEPT
            ![c].effect = Api!Effect(c, kind),
            ![c].clears = IF call[c].device /\ bad THEN {"device"} ELSE {}]
    BY <2>1
  <2>3. PICK clears \in SUBSET {"admin", "device"} :
          clears = IF call[c].device /\ bad THEN {"device"} ELSE {}
    OBVIOUS
  <2>4. call' = [Api!Passed(c) EXCEPT ![c].effect = Api!Effect(c, kind), ![c].clears = clears]
    BY <2>2, <2>3
  <2>5. Api!At(c, "enrollment")
        /\ UNCHANGED <<pass, revoked, jar, windows, granted, clock, arrivals>>
    BY <1>6 DEF Api!Bootstrap
  <2>6. pass' \in 1 .. PassBound /\ pass <= pass' /\ revoked' \in BOOLEAN
        /\ (revoked => revoked')
    BY <1>1, <2>5
  <2>7. "enrollment" \in ServiceStages BY DEF ServiceStages, Effects
  <2> QED BY <2>4, <2>5, <2>6, <2>7, ChangeInv
<1> QED BY <1>2, <1>3, <1>4, <1>5, <1>6

(* A request arrives with its handler in order and nothing done.           *)
LEMMA ArrivesInv ==
  ASSUME ApiInv, NEW c \in Call, Api!Arrive(c)
  PROVE  ApiInv'
<1>1. PICK route \in Route : \E knows \in 0 .. pass : \E fault \in Api!Faults(route) :
        call' = [call EXCEPT ![c] = Api!NewCall(route, knows, fault)]
  BY DEF Api!Arrive
<1>2. PICK knows \in 0 .. pass, fault \in Api!Faults(route) :
        call' = [call EXCEPT ![c] = Api!NewCall(route, knows, fault)]
  BY <1>1
<1>3. /\ arrivals < ArrivalBound /\ arrivals' = arrivals + 1
      /\ UNCHANGED <<pass, revoked, jar, windows, granted, clock>>
  BY DEF Api!Arrive
<1>4. PICK todo : todo = IF fault = "route" THEN <<>> ELSE Api!Handler(route) OBVIOUS
<1>5. PICK status : status = IF fault = "route" THEN Api!StatusOf("METHOD_NOT_ALLOWED") ELSE 0
  OBVIOUS
<1>6. PICK keeps : keeps = (route \in Api!KeepsCookies) OBVIOUS
<1>7. PICK q : q = [Api!IdleCall EXCEPT
             !.todo = todo, !.status = status, !.keeps = keeps, !.fault = fault,
             !.sess = jar.admin, !.device = jar.device, !.knows = knows, !.now = clock,
             !.born = pass, !.bornRevoked = revoked]
  OBVIOUS
<1>8. call' = [call EXCEPT ![c] = q]
  BY <1>2, <1>4, <1>5, <1>6, <1>7 DEF Api!NewCall
<1>9. todo \in Seq(Stages) /\ Ordered(todo)
  <2>1. CASE fault = "route"
    <3>1. todo = <<>> BY <1>4, <2>1
    <3>2. Len(<<>>) = 0 /\ <<>> \in Seq(Stages) OBVIOUS
    <3> QED BY <3>1, <3>2, NothingGuarded DEF Ordered, After, EndsWith, LoadsFirst
  <2>2. CASE fault # "route"
    BY <1>4, <2>2, ApiConstants, HandlersOrdered
  <2> QED BY <2>1, <2>2
<1>10. /\ pass \in Nat /\ clock \in Nat /\ knows \in Nat /\ revoked \in BOOLEAN
       /\ jar.admin \in AnySession /\ jar.device \in BOOLEAN /\ Honest(jar.admin)
  BY ApiConstants DEF ApiInv, ApiTypes
<1>11. status \in Nat BY <1>5, StatusIsNat
<1>12. fault \in FaultKinds BY DEF Api!Faults, FaultKinds
<1>13. q \in Request
  <2>1. keeps \in BOOLEAN BY <1>6
  <2> PICK sess, device, now, born, bornRevoked :
        /\ sess = jar.admin /\ device = jar.device /\ now = clock /\ born = pass
        /\ bornRevoked = revoked
    OBVIOUS
  <2>2. /\ sess \in AnySession /\ device \in BOOLEAN /\ now \in Nat /\ born \in Nat
        /\ bornRevoked \in BOOLEAN /\ todo \in Seq(Stages)
    BY <1>9, <1>10
  <2>3. q = [Api!IdleCall EXCEPT
              !.todo = todo, !.status = status, !.keeps = keeps, !.fault = fault,
              !.sess = sess, !.device = device, !.knows = knows, !.now = now,
              !.born = born, !.bornRevoked = bornRevoked]
    BY <1>7
  <2>4. /\ keeps \in BOOLEAN /\ status \in Nat /\ fault \in FaultKinds /\ knows \in Nat
    BY <1>10, <1>11, <1>12, <2>1
  <2>5. [Api!IdleCall EXCEPT
           !.todo = todo, !.status = status, !.keeps = keeps, !.fault = fault,
           !.sess = sess, !.device = device, !.knows = knows, !.now = now,
           !.born = born, !.bornRevoked = bornRevoked] \in Request
    BY ONLY <2>2, <2>4, IdleCallType DEF Request
  <2> QED BY <2>3, <2>5
<1>14. /\ q.todo = todo /\ q.sess = jar.admin /\ q.now = clock /\ q.born = pass
       /\ q.bornRevoked = revoked
       /\ q.ctx = 0 /\ q.issued = Api!NoSession /\ q.admitted = "nobody"
       /\ q.effect = Api!NoEffect /\ q.passed = {}
  BY <1>7 DEF Api!IdleCall
<1>15. RequestInv(q)'
  <2>1. Past(q)' BY <1>3, <1>10, <1>14 DEF Past
  <2>2. InOrder(q)'
    <3>1. GuardedBy(q.todo, q.passed)' BY <1>9, <1>14 DEF Ordered, GuardedBy, After
    <3> QED BY <1>9, <1>14, <3>1 DEF Ordered, InOrder, After, EndsWith, LoadsFirst
  <2>3. Honest(q.sess) /\ Honest(q.issued) BY <1>10, <1>14, NoSessionHonest
  <2>4. EffectLast(q)' BY <1>14, NoEffectGuarded DEF EffectLast, Guarded
  <2> QED BY <1>13, <1>14, <2>1, <2>2, <2>3, <2>4 DEF RequestInv, Admission, Honest
<1>16. /\ pass' \in 1 .. PassBound /\ pass <= pass' /\ revoked' \in BOOLEAN
       /\ (revoked => revoked')
  BY <1>3, <1>10 DEF ApiInv, ApiTypes
<1>17. arrivals' \in 0 .. ArrivalBound BY <1>3, ApiConstants DEF ApiInv, ApiTypes
<1> QED BY <1>3, <1>8, <1>15, <1>16, <1>17, Standing, RequestStep

(* The leading checks are a front of what there is to do.                  *)
LEMMA LeadingIsFront ==
  ASSUME NEW todo \in Seq(Stages)
  PROVE  \E n \in 0 .. Len(todo) :
           /\ Api!Leading(todo) = 1 .. n
           /\ Api!Cardinality(Api!Leading(todo)) = n
           /\ \A i \in 1 .. n : todo[i] \in Api!Checks
<1> DEFINE L == Api!Leading(todo)
<1>1. L \subseteq 1 .. Len(todo) /\ Len(todo) \in Nat BY DEF Api!Leading
<1>2. ASSUME NEW i \in L, NEW j \in 1 .. i PROVE j \in L
  <2>1. i \in 1 .. Len(todo) /\ \A m \in 1 .. i : todo[m] \in Api!Checks
    BY <1>1 DEF Api!Leading
  <2>2. j \in 1 .. Len(todo) BY <1>1, <2>1
  <2>3. \A m \in 1 .. j : m \in 1 .. i BY <2>1
  <2>4. DOMAIN todo = 1 .. Len(todo) OBVIOUS
  <2> QED BY <2>1, <2>2, <2>3, <2>4 DEF Api!Leading
<1>3. \A i \in L : todo[i] \in Api!Checks BY <1>1 DEF Api!Leading
<1> HIDE DEF L
<1>4. \E n \in 0 .. Len(todo) : L = 1 .. n
  <2> DEFINE Rest == {i \in 1 .. Len(todo) + 1 : i \notin L}
  <2>1. Rest \in SUBSET Nat /\ Len(todo) + 1 \in Rest BY <1>1
  <2>2. PICK b \in Rest : \A m \in Rest : b <= m
    <3>1. PICK smaller : smaller = OpToRel(<, Nat) OBVIOUS
    <3>2. IsWellFoundedOn(smaller, Nat) BY <3>1, NatLessThanWellFounded
    <3>3. Rest \subseteq Nat /\ Rest # {} BY <2>1
    <3> HIDE DEF Rest
    <3>4. PICK b \in Rest : \A m \in Rest : ~(<<m, b>> \in smaller) BY <3>2, <3>3, WFMin
    <3>5. ASSUME NEW m \in Rest PROVE b <= m
      <4>1. m \in Nat /\ b \in Nat BY <3>3, <3>4
      <4>2. m < b => <<m, b>> \in smaller BY <3>1, <4>1 DEF OpToRel
      <4> QED BY <3>4, <4>1, <4>2
    <3> QED BY <3>4, <3>5
  <2>3. b \in 1 .. Len(todo) + 1 /\ b \notin L BY <2>2
  <2>4. \A i \in 1 .. b - 1 : i \in L
    <3>1. ASSUME NEW i \in 1 .. b - 1, i \notin L PROVE FALSE
      <4>1. i \in Rest BY <1>1, <2>3, <3>1
      <4> QED BY <2>2, <2>3, <4>1
    <3> QED BY <3>1
  <2>5. \A i \in L : i \in 1 .. b - 1
    <3>1. SUFFICES ASSUME NEW i \in L, b <= i PROVE FALSE BY <1>1, <2>3
    <3> QED BY <1>1, <1>2, <2>3, <3>1
  <2>6. b - 1 \in 0 .. Len(todo) BY <1>1, <2>3
  <2> QED BY <2>4, <2>5, <2>6
<1>5. PICK n \in 0 .. Len(todo) : L = 1 .. n BY <1>4
<1>6. Cardinality(1 .. n) = n BY <1>1, <1>5, FS_Interval
<1>7. Api!Cardinality(L) = n BY <1>5, <1>6 DEF Api!Cardinality, Cardinality
<1> QED BY <1>3, <1>5, <1>7 DEF L

(* The checks in front of a handler, when all are passed: they neither     *)
(* load nor verify, so what they admit has its context already.            *)
LEMMA PassesAllInv ==
  ASSUME ApiInv, NEW c \in Call, Api!PassesAll(c)
  PROVE  ApiInv'
<1>1. PICK p : p = call[c] OBVIOUS
<1>2. p \in Request /\ RequestInv(p) /\ p.todo \in Seq(Stages)
  BY <1>1 DEF ApiInv, RequestInv, Request
<1>3. PICK n \in 0 .. Len(p.todo) :
        /\ Api!Leading(p.todo) = 1 .. n /\ Api!Cardinality(Api!Leading(p.todo)) = n
        /\ \A i \in 1 .. n : p.todo[i] \in Api!Checks
  BY <1>2, LeadingIsFront
<1>4. PICK passed : passed = {p.todo[i] : i \in 1 .. n} OBVIOUS
<1>5. PICK rest : rest = SubSeq(p.todo, n + 1, Len(p.todo)) OBVIOUS
<1>6. PICK admitted :
        admitted = IF "authenticateControlAdmin" \in passed THEN "admin"
                   ELSE IF "authenticateControlDevice" \in passed THEN "device"
                   ELSE p.admitted
  OBVIOUS
<1>7. /\ n > 0 /\ \A s \in passed : Api!Refusals(p, s) = {}
      /\ call' = [call EXCEPT ![c] = Api!Behind(p, n)]
      /\ UNCHANGED <<pass, revoked, jar, windows, granted, clock, arrivals>>
  BY <1>1, <1>3, <1>4 DEF Api!PassesAll, Api!First
<1>8. PICK q : q = [p EXCEPT !.todo = rest, !.passed = p.passed \cup (passed \cap Api!Guards),
                            !.admitted = admitted]
  OBVIOUS
<1>9. call' = [call EXCEPT ![c] = q]
  <2>1. q = Api!Behind(p, n) BY <1>4, <1>5, <1>6, <1>8 DEF Api!Behind, Api!First
  <2> QED BY <1>7, <2>1
<1>10. /\ Len(p.todo) \in Nat /\ n \in Nat /\ n <= Len(p.todo)
       /\ rest \in Seq(Stages) /\ Len(rest) = Len(p.todo) - n
       /\ \A i \in 1 .. Len(rest) : rest[i] = p.todo[i + n]
  <2>1. PICK todo \in Seq(Stages) : todo = p.todo BY <1>2
  <2>2. Len(todo) \in Nat /\ n \in Nat /\ n <= Len(todo) BY <1>3, <2>1
  <2>3. rest = SubSeq(todo, n + 1, Len(todo)) BY <1>5, <2>1
  <2>4. /\ rest \in Seq(Stages) /\ Len(rest) = Len(todo) - n
        /\ \A i \in 1 .. Len(rest) : rest[i] = todo[i + n]
    BY ONLY <2>2, <2>3
  <2> QED BY <2>1, <2>2, <2>4
<1>11. admitted \in {"nobody", "admin", "device"} BY <1>2, <1>6 DEF Request
<1>12. q \in Request BY <1>2, <1>8, <1>10, <1>11 DEF Request
<1>13. /\ q.todo = rest /\ q.admitted = admitted /\ q.status = p.status /\ q.sess = p.sess
       /\ q.born = p.born /\ q.bornRevoked = p.bornRevoked /\ q.now = p.now
       /\ q.issued = p.issued /\ q.effect = p.effect /\ q.ctx = p.ctx
       /\ q.ctxRevoked = p.ctxRevoked /\ q.expected = p.expected /\ q.knows = p.knows
       /\ q.passed = p.passed \cup (passed \cap Api!Guards)
  BY <1>2, <1>8 DEF Request
<1>14. /\ InOrder(p) /\ Admission(p) /\ EffectLast(p) /\ Past(p)
       /\ Honest(p.sess) /\ Honest(p.issued)
  BY <1>2 DEF RequestInv
<1>15. /\ "verifyPassphrase" \notin Api!Checks /\ "loadControlRequestContext" \notin Api!Checks
  BY DEF Api!Checks, Api!ShapeCodes
<1>16. \A i \in 1 .. n : p.todo[i] # "verifyPassphrase"
                        /\ p.todo[i] # "loadControlRequestContext"
  BY <1>3, <1>15
<1>17. \A i \in 1 .. n : i \in 1 .. Len(p.todo) /\ \A j \in 1 .. i - 1 : j \in 1 .. n
  BY <1>10
<1>18. (Verified(p) <=> Verified(q)) /\ (Loaded(p) <=> Loaded(q))
  BY <1>13 DEF Verified, Loaded
<1>19. \A i \in 1 .. n : p.todo[i] \in Authentications =>
         /\ Loaded(p)
         /\ \A j \in 1 .. Len(p.todo) : p.todo[j] # "loadControlRequestContext"
  <2>1. SUFFICES ASSUME NEW i \in 1 .. n, p.todo[i] \in Authentications
                 PROVE  /\ Loaded(p)
                        /\ \A j \in 1 .. Len(p.todo) : p.todo[j] # "loadControlRequestContext"
    OBVIOUS
  <2>2. Loaded(p)
    BY <1>14, <1>16, <1>17, <2>1 DEF InOrder, After, Authentications
  <2>3. ASSUME NEW j \in 1 .. Len(p.todo), p.todo[j] = "loadControlRequestContext" PROVE FALSE
    <3>1. j < i BY <1>14, <1>17, <2>1, <2>3 DEF InOrder, LoadsFirst
    <3>2. j \in 1 .. n BY <1>10, <2>1, <2>3, <3>1
    <3> QED BY <1>16, <2>3, <3>2
  <2> QED BY <2>2, <2>3
<1>20. InOrder(q)
  <2>0. /\ ~(\E i \in 1 .. n : p.todo[i] = "verifyPassphrase")
        /\ ~(\E i \in 1 .. n : p.todo[i] = "loadControlRequestContext")
    BY <1>16
  <2>a. PICK todo : todo = p.todo OBVIOUS
  <2>b. PICK verified, loaded : verified = Verified(p) /\ loaded = Loaded(p) OBVIOUS
  <2>c. /\ After(todo, "login", "verifyPassphrase", verified)
        /\ After(todo, "authenticateControlAdmin", "loadControlRequestContext", loaded)
        /\ After(todo, "authenticateControlDevice", "loadControlRequestContext", loaded)
    BY <1>14, <2>a, <2>b DEF InOrder
  <2>d. /\ After(rest, "login", "verifyPassphrase", verified)
        /\ After(rest, "authenticateControlAdmin", "loadControlRequestContext", loaded)
        /\ After(rest, "authenticateControlDevice", "loadControlRequestContext", loaded)
    <3>1. /\ Len(todo) \in Nat /\ n \in Nat /\ n <= Len(todo) /\ Len(rest) = Len(todo) - n
          /\ \A i \in 1 .. Len(rest) : rest[i] = todo[i + n]
      BY <1>10, <2>a
    <3>2. /\ ~(\E i \in 1 .. n : todo[i] = "verifyPassphrase")
          /\ ~(\E i \in 1 .. n : todo[i] = "loadControlRequestContext")
      BY <2>0, <2>a
    <3>0. ASSUME NEW s, NEW t, NEW done, After(todo, s, t, done),
                 ~(\E i \in 1 .. n : todo[i] = t)
          PROVE  After(rest, s, t, done)
      <4>1. /\ (done => done)
            /\ ((\E i \in 1 .. n : todo[i] = t) => done)
        BY <3>0
      <4> QED BY ONLY <3>0, <3>1, <4>1, AfterRest
    <3>3. After(rest, "login", "verifyPassphrase", verified)
      BY ONLY <2>c, <3>0, <3>2
    <3>4. After(rest, "authenticateControlAdmin", "loadControlRequestContext", loaded)
      BY ONLY <2>c, <3>0, <3>2
    <3>5. After(rest, "authenticateControlDevice", "loadControlRequestContext", loaded)
      BY ONLY <2>c, <3>0, <3>2
    <3> QED BY <3>3, <3>4, <3>5
  <2>1. /\ After(rest, "login", "verifyPassphrase", Verified(q))
        /\ After(rest, "authenticateControlAdmin", "loadControlRequestContext", Loaded(q))
        /\ After(rest, "authenticateControlDevice", "loadControlRequestContext", Loaded(q))
    BY <1>18, <2>b, <2>d DEF After
  <2>3. EndsWith(rest) /\ LoadsFirst(rest) BY <1>10, <1>14, OrderRest DEF InOrder
  <2>4. ASSUME admitted # "nobody", NEW i \in 1 .. Len(rest)
        PROVE  rest[i] # "loadControlRequestContext"
    <3>1. i + n \in 1 .. Len(p.todo) /\ rest[i] = p.todo[i + n] BY <1>10
    <3>2. CASE p.admitted # "nobody" BY <1>14, <3>1, <3>2 DEF InOrder
    <3>3. CASE p.admitted = "nobody"
      <4>1. \E m \in 1 .. n : p.todo[m] \in Authentications
        BY <1>4, <1>6, <2>4, <3>3 DEF Authentications
      <4> QED BY <1>19, <3>1, <4>1
    <3> QED BY <3>2, <3>3
  <2>5. GuardedBy(rest, q.passed)
    <3>1. \A g \in Api!Guards : (\E i \in 1 .. n : p.todo[i] = g) => g \in q.passed
      BY <1>4, <1>13
    <3>2. GuardedBy(p.todo, p.passed) /\ p.passed \subseteq q.passed BY <1>13, <1>14 DEF InOrder
    <3> QED BY <1>10, <3>1, <3>2, GuardedRest
  <2> QED BY <1>13, <2>1, <2>3, <2>4, <2>5 DEF InOrder
<1>21. Admission(q)
  <2>1. ASSUME "authenticateControlAdmin" \in passed
        PROVE  p.sess.claims = p.ctx /\ Loaded(p)
    <3>1. Loaded(p) BY <1>4, <1>19, <2>1 DEF Authentications
    <3>2. Api!Refusals(p, "authenticateControlAdmin") = {} BY <1>7, <2>1
    <3>3. Api!Refusals(p, "authenticateControlAdmin")
            = IF p.sess.claims = p.ctx THEN {} ELSE {"ADMIN_UNAUTHORIZED"}
      BY DEF Api!Refusals, Api!ShapeCodes
    <3>4. p.sess.claims = p.ctx BY ONLY <3>2, <3>3
    <3> QED BY <3>1, <3>4
  <2>2. ASSUME "authenticateControlDevice" \in passed
        PROVE  ~p.ctxRevoked /\ Loaded(p)
    <3>1. Loaded(p) BY <1>4, <1>19, <2>2 DEF Authentications
    <3>2. Api!Refusals(p, "authenticateControlDevice") = {} BY <1>7, <2>2
    <3>3. Api!Refusals(p, "authenticateControlDevice")
            = IF p.ctxRevoked THEN {"DEVICE_UNAUTHORIZED"} ELSE {}
      BY DEF Api!Refusals, Api!ShapeCodes
    <3>4. ~p.ctxRevoked BY ONLY <3>2, <3>3
    <3> QED BY <3>1, <3>4
  <2>3. (admitted = "admin" => p.sess.claims = p.ctx /\ Loaded(p))
        /\ (admitted = "device" => ~p.ctxRevoked /\ Loaded(p))
    BY <1>6, <1>14, <2>1, <2>2 DEF Admission
  <2> QED BY <1>13, <1>18, <2>3 DEF Admission
<1>22. p.effect = Api!NoEffect
  <2>1. p.todo # <<>>
    <3>1. Len(p.todo) > 0 BY <1>7, <1>10
    <3>2. Len(<<>>) = 0 OBVIOUS
    <3> QED BY <3>1, <3>2
  <2> QED BY <1>14, <2>1 DEF EffectLast
<1>23. RequestInv(q)'
  <2>1. Past(q)' BY <1>7, <1>13, <1>14 DEF Past
  <2>2. InOrder(q)'
    BY <1>20 DEF InOrder, After, EndsWith, LoadsFirst, GuardedBy, Verified, Loaded
  <2>3. Admission(q)' BY <1>21 DEF Admission, Loaded
  <2>4. EffectLast(q)' BY <1>13, <1>22, NoEffectGuarded DEF EffectLast, Guarded
  <2> QED BY <1>12, <1>13, <1>14, <2>1, <2>2, <2>3, <2>4 DEF RequestInv, Honest
<1>24. /\ pass' \in 1 .. PassBound /\ pass <= pass' /\ revoked' \in BOOLEAN
       /\ (revoked => revoked') /\ arrivals' \in 0 .. ArrivalBound
  BY <1>7, ApiConstants DEF ApiInv, ApiTypes
<1>25. Windows' BY <1>7, Standing
<1> QED BY <1>7, <1>9, <1>23, <1>24, <1>25, RequestStep

(* A refusal of a check or of a service.                                   *)
LEMMA FailuresInv ==
  ASSUME ApiInv, NEW c \in Call, Api!FailsOne(c) \/ Api!ServiceFails(c)
  PROVE  ApiInv'
<1>1. UNCHANGED <<pass, revoked, jar, windows, granted, clock, arrivals>>
  BY DEF Api!FailsOne, Api!ServiceFails
<1>2. CASE Api!FailsOne(c)
  <2>1. PICK code : call' = Api!Refused(c, code) BY <1>2 DEF Api!FailsOne
  <2>2. PICK p : p = call[c] OBVIOUS
  <2>3. p.todo \in Seq(Stages) BY <2>2 DEF ApiInv, RequestInv, Request
  <2>4. \E i \in DOMAIN p.todo : TRUE BY <1>2, <2>2 DEF Api!FailsOne, Api!Leading
  <2>5. Len(p.todo) # 0 BY <2>3, <2>4
  <2>6. Len(<<>>) = 0 OBVIOUS
  <2>7. call[c].todo # <<>> BY <2>2, <2>5, <2>6
  <2> QED BY <1>1, <2>1, <2>7, Standing, RefusedInv
<1>3. CASE Api!ServiceFails(c)
  <2>1. PICK s : /\ Api!At(c, s)
                 /\ \E code \in ServiceCode, kind \in Api!Leaves(s) :
                      call' = [Api!Refused(c, code) EXCEPT ![c].effect = Api!Effect(c, kind)]
    BY <1>3 DEF Api!ServiceFails
  <2>2. PICK code \in ServiceCode, kind \in Api!Leaves(s) :
          call' = [Api!Refused(c, code) EXCEPT ![c].effect = Api!Effect(c, kind)]
    BY <2>1
  <2>3. call[c].todo # <<>> /\ call[c].todo[1] = s BY <2>1, AtStage
  <2>4. PICK effect : effect = Api!Effect(c, kind) OBVIOUS
  <2>5. effect \in Change /\ Guarded(effect) BY <2>3, <2>4, EffectGuarded
  <2>6. call' = [Api!Refused(c, code) EXCEPT ![c].effect = effect] BY <2>2, <2>4
  <2> QED BY <1>1, <2>3, <2>5, <2>6, Standing, RefusedWithInv
<1> QED BY <1>2, <1>3

-----------------------------------------------------------------------------
(* The rate limiter.                                                       *)
LEMMA CountedIs ==
  ASSUME NEW f, NEW key
  PROVE  /\ DOMAIN Api!Counted(f, key) = DOMAIN f \cup {key}
         /\ Api!Counted(f, key)[key] = Api!Count(f, key) + 1
         /\ \A x \in DOMAIN f : x # key => Api!Counted(f, key)[x] = f[x]
BY DEF Api!Counted

(* Whatever is dropped to stay small has expired.                          *)
LEMMA PrunedIs ==
  ASSUME NEW f, NEW now
  PROVE  /\ DOMAIN Api!Pruned(f, now) \subseteq DOMAIN f
         /\ \A x \in DOMAIN Api!Pruned(f, now) : Api!Pruned(f, now)[x] = f[x]
         /\ \A x \in DOMAIN f : ~(x.window < now) => x \in DOMAIN Api!Pruned(f, now)
<1>1. CASE Api!Cardinality(DOMAIN f) > KeyBound
  <2>1. Api!Pruned(f, now) = Api!Restricted(f, {k \in DOMAIN f : ~(k.window < now)})
    BY <1>1 DEF Api!Pruned
  <2> QED BY <2>1 DEF Api!Restricted
<1>2. CASE ~(Api!Cardinality(DOMAIN f) > KeyBound)
  <2>1. Api!Pruned(f, now) = f BY <1>2 DEF Api!Pruned
  <2> QED BY <2>1
<1> QED BY <1>1, <1>2

LEMMA ConsumedWindows ==
  ASSUME ApiInv, NEW now \in Nat, now <= clock, NEW key, key.window = now,
         ~(Api!Count(windows, key) >= Limit), UNCHANGED clock,
         windows' = Api!Pruned(Api!Counted(windows, key), now),
         granted' = IF now = clock THEN Api!Counted(granted, key) ELSE granted
  PROVE  Windows'
<1>1. PICK counted : counted = Api!Counted(windows, key) OBVIOUS
<1>2. /\ \A x \in DOMAIN windows : windows[x] \in Nat /\ windows[x] <= Limit
      /\ \A x \in DOMAIN granted :
           /\ x.window = clock /\ x \in DOMAIN windows
           /\ granted[x] \in Nat /\ granted[x] <= windows[x]
      /\ Limit \in Nat /\ clock \in Nat
  BY ApiConstants DEF ApiInv, Windows, ApiTypes
<1>3. Api!Count(windows, key) \in Nat /\ Api!Count(windows, key) + 1 <= Limit
  <2>1. Api!Count(windows, key) \in Nat BY <1>2 DEF Api!Count
  <2> QED BY <1>2, <2>1
<1>4. Api!Count(granted, key) \in Nat /\ Api!Count(granted, key) <= Api!Count(windows, key)
  BY <1>2, <1>3 DEF Api!Count
<1>5. /\ DOMAIN counted = DOMAIN windows \cup {key}
      /\ counted[key] = Api!Count(windows, key) + 1
      /\ \A x \in DOMAIN windows : x # key => counted[x] = windows[x]
  BY <1>1, CountedIs
<1>6. \A x \in DOMAIN counted : counted[x] \in Nat /\ counted[x] <= Limit
  BY <1>2, <1>3, <1>5
<1>7. /\ DOMAIN windows' \subseteq DOMAIN counted
      /\ \A x \in DOMAIN windows' : windows'[x] = counted[x]
      /\ \A x \in DOMAIN counted : ~(x.window < now) => x \in DOMAIN windows'
  BY <1>1, PrunedIs
<1>8. \A x \in DOMAIN windows' : windows'[x] \in Nat /\ windows'[x] <= Limit BY <1>6, <1>7
<1>9. ASSUME NEW x \in DOMAIN granted'
      PROVE  /\ x.window = clock /\ x \in DOMAIN counted
             /\ granted'[x] \in Nat /\ granted'[x] <= counted[x]
  <2>1. CASE now = clock
    <3>a. PICK g : g = Api!Counted(granted, key) OBVIOUS
    <3>b. /\ DOMAIN g = DOMAIN granted \cup {key} /\ g[key] = Api!Count(granted, key) + 1
          /\ \A y \in DOMAIN granted : y # key => g[y] = granted[y]
      BY <3>a, CountedIs
    <3>1. granted' = g BY <2>1, <3>a
    <3>2. /\ DOMAIN granted' = DOMAIN granted \cup {key}
          /\ granted'[key] = Api!Count(granted, key) + 1
          /\ \A y \in DOMAIN granted : y # key => granted'[y] = granted[y]
      BY <3>1, <3>b
    <3>3. CASE x = key
      <4>1. granted'[x] = Api!Count(granted, key) + 1 BY <3>2, <3>3
      <4>2. counted[x] = Api!Count(windows, key) + 1 BY <1>5, <3>3
      <4>3. x.window = clock /\ x \in DOMAIN counted BY <1>5, <2>1, <3>3
      <4> QED BY <1>3, <1>4, <4>1, <4>2, <4>3
    <3>4. CASE x # key
      <4>1. x \in DOMAIN granted /\ granted'[x] = granted[x] BY <3>2, <3>4
      <4>2. x \in DOMAIN windows /\ counted[x] = windows[x] BY <1>2, <1>5, <3>4, <4>1
      <4> QED BY <1>2, <1>5, <4>1, <4>2
    <3> QED BY <3>3, <3>4
  <2>2. CASE now # clock
    <3>1. granted' = granted BY <2>2
    <3>2. x \in DOMAIN granted /\ x.window = clock /\ x # key BY <1>2, <2>2, <3>1
    <3>3. x \in DOMAIN windows /\ counted[x] = windows[x] BY <1>2, <1>5, <3>2
    <3> QED BY <1>2, <1>5, <3>1, <3>2, <3>3
  <2> QED BY <2>1, <2>2
<1>10. ASSUME NEW x \in DOMAIN granted'
       PROVE  /\ x.window = clock' /\ x \in DOMAIN windows'
              /\ granted'[x] \in Nat /\ granted'[x] <= windows'[x]
  <2>1. ~(x.window < now) BY <1>2, <1>9
  <2>2. x \in DOMAIN windows' /\ windows'[x] = counted[x] BY <1>7, <1>9, <2>1
  <2> QED BY <1>9, <2>2
<1> QED BY <1>8, <1>10 DEF Windows

LEMMA ConsumeInv ==
  ASSUME ApiInv, NEW c \in Call, NEW bucket \in Api!Buckets, Api!Consume(c, bucket)
  PROVE  ApiInv'
<1>1. PICK key : key = [bucket |-> bucket, subject |-> Api!Subject(call[c], bucket),
                        window |-> call[c].now]
  OBVIOUS
<1>2. Api!At(c, bucket) /\ UNCHANGED <<pass, revoked, jar, clock, arrivals>>
  BY DEF Api!Consume
<1>3. call[c].todo # <<>> /\ call[c].todo[1] = bucket BY <1>2, AtStage
<1>4. CASE Api!Count(windows, key) >= Limit
  <2>1. call' = Api!Refused(c, "RATE_LIMITED") /\ UNCHANGED <<windows, granted>>
    BY <1>1, <1>4 DEF Api!Consume
  <2>2. UNCHANGED <<windows, granted, clock>> BY <1>2, <2>1
  <2>3. Windows' BY <2>2, Standing
  <2> QED BY <1>2, <1>3, <2>1, <2>3, RefusedInv
<1>5. CASE ~(Api!Count(windows, key) >= Limit)
  <2>1. /\ call' = [Api!Passed(c) EXCEPT ![c].passed = @ \cup {bucket}]
        /\ windows' = Api!Pruned(Api!Counted(windows, key), call[c].now)
        /\ granted' = IF call[c].now = clock THEN Api!Counted(granted, key) ELSE granted
    BY <1>1, <1>5 DEF Api!Consume
  <2>2. PICK k : PassedTo(c, k) /\ Api!Passed(c) = [call EXCEPT ![c] = k] BY <1>3, PassedIs
  <2>3. PICK now : now = call[c].now OBVIOUS
  <2>4. now \in Nat /\ now <= clock /\ key.window = now
    BY <1>1, <2>3 DEF ApiInv, RequestInv, Past, Request
  <2>5. Windows'
    <3>1. UNCHANGED clock BY <1>2
    <3>2. /\ windows' = Api!Pruned(Api!Counted(windows, key), now)
          /\ granted' = IF now = clock THEN Api!Counted(granted, key) ELSE granted
      BY <2>1, <2>3
    <3> QED BY <1>5, <2>4, <3>1, <3>2, ConsumedWindows
  <2>6. k \in Request /\ Honest(k.issued) /\ k.effect = Api!NoEffect BY <2>2 DEF PassedTo
  <2>7. /\ call[c].todo[1] # "loadControlRequestContext"
        /\ call[c].todo[1] # "verifyPassphrase"
    BY <1>3 DEF Api!Buckets
  <2>8. /\ pass' \in 1 .. PassBound /\ pass <= pass' /\ revoked' \in BOOLEAN
        /\ (revoked => revoked') /\ UNCHANGED <<jar, clock, arrivals>>
    BY <1>2, ApiConstants DEF ApiInv, ApiTypes
  <2>9. PICK passed : passed = k.passed \cup {bucket} OBVIOUS
  <2>10. PICK q : q = [k EXCEPT !.passed = passed] OBVIOUS
  <2>11. call' = [call EXCEPT ![c] = q] BY <2>1, <2>2, <2>9, <2>10 DEF ApiInv, ApiTypes
  <2>12. passed \in SUBSET Api!Guards BY <2>6, <2>9 DEF Request, Api!Guards
  <2>13. q \in Request BY <2>6, <2>10, <2>12 DEF Request
  <2>14. /\ q.todo = k.todo /\ q.admitted = k.admitted /\ q.status = k.status /\ q.sess = k.sess
         /\ q.born = k.born /\ q.bornRevoked = k.bornRevoked /\ q.now = k.now
         /\ q.issued = k.issued /\ q.effect = k.effect /\ q.ctx = k.ctx
         /\ q.ctxRevoked = k.ctxRevoked /\ q.expected = k.expected /\ q.knows = k.knows
         /\ q.passed = passed
    BY <2>6, <2>10 DEF Request
  <2>15. Guarded(q.effect) /\ q.effect = Api!NoEffect BY <2>6, <2>14, NoEffectGuarded
  <2>16. k.passed \subseteq q.passed /\ call[c].todo[1] \in q.passed BY <1>3, <2>9, <2>14
  <2>17. /\ q.effect # Api!NoEffect => Len(call[c].todo) = 1
         /\ call[c].todo[1] \in Api!Guards => call[c].todo[1] \in q.passed
    BY <2>15, <2>16
  <2>18. Honest(q.issued) BY <2>6, <2>14
  <2>19. call[c].todo # <<>> /\ PassedTo(c, k) BY <1>3, <2>2
  <2>20. /\ q.todo = k.todo /\ q.admitted = k.admitted /\ q.status = k.status /\ q.sess = k.sess
         /\ q.born = k.born /\ q.bornRevoked = k.bornRevoked /\ q.now = k.now
    BY <2>14
  <2>21. /\ q.ctx = k.ctx /\ q.ctxRevoked = k.ctxRevoked
         /\ call[c].todo[1] # "loadControlRequestContext"
         /\ q.expected = k.expected /\ q.knows = k.knows
         /\ call[c].todo[1] # "verifyPassphrase"
    BY <2>7, <2>14
  <2>22. k.passed \subseteq q.passed /\ Guarded(q.effect) BY <2>15, <2>16
  <2> QED
    BY <2>5, <2>8, <2>11, <2>13, <2>17, <2>18, <2>19, <2>20, <2>21, <2>22, StageInv
<1> QED BY <1>4, <1>5

(* The present ends, and with it what counts for it.                       *)
LEMMA TickInv ==
  ASSUME ApiInv, Api!Tick
  PROVE  ApiInv'
<1>1. /\ clock < ClockBound /\ clock' = clock + 1 /\ granted' = <<>>
      /\ UNCHANGED <<pass, revoked, jar, windows, arrivals>> /\ call' = call
  BY DEF Api!Tick
<1>2. /\ pass \in Nat /\ pass' \in Nat /\ pass <= pass'
      /\ clock \in Nat /\ clock' \in Nat /\ clock <= clock' /\ (revoked => revoked')
      /\ clock' \in 0 .. ClockBound
  BY <1>1, ApiConstants DEF ApiInv, ApiTypes
<1>3. ApiTypes' BY <1>1, <1>2 DEF ApiInv, ApiTypes
<1>4. ASSUME NEW c \in Call PROVE RequestInv(call[c])'
  <2>1. call'[c] = call[c] BY <1>1
  <2> QED BY <1>2, <2>1, RequestStands DEF ApiInv
<1>5. Windows'
  <2>1. DOMAIN granted' = {} BY <1>1
  <2> QED BY <1>1, <2>1 DEF ApiInv, Windows
<1> QED BY <1>3, <1>4, <1>5 DEF ApiInv

(* A browser has no session but one whose passphrase its user typed in.    *)
LEMMA AnswersInv ==
  ASSUME ApiInv, NEW c \in Call, Api!Answer(c) \/ Api!AnswerLost(c)
  PROVE  ApiInv'
<1>1. PICK p : p = call[c] OBVIOUS
<1>2. p \in Request /\ Honest(p.issued) BY <1>1 DEF ApiInv, RequestInv
<1>3. /\ call' = [call EXCEPT ![c] = Api!IdleCall]
      /\ UNCHANGED <<pass, revoked, windows, granted, clock, arrivals>>
  BY DEF Api!Answer, Api!AnswerLost
<1>4. /\ Api!IdleCall.todo = <<>> /\ Api!IdleCall.admitted = "nobody"
      /\ Api!IdleCall.effect = Api!NoEffect
      /\ Api!IdleCall.sess = Api!NoSession /\ Api!IdleCall.issued = Api!NoSession
      /\ Api!IdleCall.born = 0 /\ Api!IdleCall.ctx = 0 /\ Api!IdleCall.now = 0
      /\ Api!IdleCall.bornRevoked = FALSE
  BY DEF Api!IdleCall
<1>5. RequestInv(Api!IdleCall)'
  BY <1>3, <1>4, IdleCallType, NoSessionHonest, NoEffectGuarded, AnsweredInv
<1>6. /\ pass' \in 1 .. PassBound /\ pass <= pass' /\ revoked' \in BOOLEAN
      /\ (revoked => revoked') /\ UNCHANGED clock
  BY <1>3, ApiConstants DEF ApiInv, ApiTypes
<1>7. /\ \A d \in Call : RequestInv(call[d])'
      /\ DOMAIN call' = Call /\ call' = [d \in Call |-> call'[d]]
  BY <1>3, <1>5, <1>6, OneRequest
<1>8. jar' \in [admin : AnySession, device : BOOLEAN] /\ Honest(jar'.admin)
  <2>1. jar \in [admin : AnySession, device : BOOLEAN] /\ Honest(jar.admin)
    BY DEF ApiInv, ApiTypes
  <2>2. CASE Api!AnswerLost(c) BY <2>1, <2>2 DEF Api!AnswerLost
  <2>3. CASE Api!Answer(c)
    <3>1. PICK admin, device :
            /\ admin = IF p.issued # Api!NoSession THEN p.issued
                       ELSE IF "admin" \in p.clears THEN Api!NoSession ELSE jar.admin
            /\ device = (jar.device /\ "device" \notin p.clears)
      OBVIOUS
    <3>2. jar' = [admin |-> admin, device |-> device]
      BY <1>1, <2>3, <3>1 DEF Api!Answer, Api!NewJar
    <3>3. admin \in AnySession /\ Honest(admin)
      BY <1>2, <2>1, <3>1, NoSessionHonest DEF Request, AnySession
    <3>4. device \in BOOLEAN BY <2>1, <3>1
    <3> QED BY <3>2, <3>3, <3>4
  <2> QED BY <2>2, <2>3
<1>9. ApiTypes' BY <1>3, <1>6, <1>7, <1>8 DEF ApiInv, ApiTypes, Honest
<1>10. Windows' BY <1>3, Standing
<1> QED BY <1>7, <1>9, <1>10 DEF ApiInv

-----------------------------------------------------------------------------
(* Theorems.                                                               *)
LEMMA ApiStep ==
  ASSUME ApiInv, Api!Next
  PROVE  ApiInv'
<1>1. CASE Api!Tick BY <1>1, TickInv
<1>2. ASSUME NEW c \in Call,
             \/ Api!Arrive(c) \/ Api!PassesAll(c) \/ Api!FailsOne(c) \/ Api!LoadContext(c)
             \/ \E b \in Api!Buckets : Api!Consume(c, b)
             \/ Api!VerifyPassphrase(c) \/ Api!Login(c) \/ Api!RotatePassphrase(c)
             \/ Api!RevokeDevice(c) \/ Api!Serve(c) \/ Api!Bootstrap(c)
             \/ Api!ServiceFails(c) \/ Api!Answer(c) \/ Api!AnswerLost(c)
      PROVE  ApiInv'
  BY <1>2, ArrivesInv, PassesAllInv, FailuresInv, LoadContextInv, ConsumeInv, VerifyInv,
     LoginInv, ServicesInv, AnswersInv
<1> QED BY <1>1, <1>2 DEF Api!Next

LEMMA ApiStutters ==
  ASSUME ApiInv, UNCHANGED apiVars
  PROVE  ApiInv'
<1>1. /\ UNCHANGED <<pass, revoked, jar, windows, granted, clock, arrivals>> /\ call' = call
  BY DEF apiVars
<1>2. pass \in Nat /\ clock \in Nat /\ pass' = pass /\ clock' = clock
  BY <1>1, ApiConstants DEF ApiInv, ApiTypes
<1>3. ASSUME NEW c \in Call PROVE RequestInv(call[c])'
  <2>1. call'[c] = call[c] BY <1>1
  <2>2. pass <= pass /\ clock <= clock /\ (revoked => revoked') BY <1>1, <1>2
  <2> QED BY <1>2, <2>1, <2>2, RequestStands DEF ApiInv
<1>4. ApiTypes' /\ Windows' BY <1>1 DEF ApiInv, ApiTypes, Windows
<1> QED BY <1>3, <1>4 DEF ApiInv

LEMMA ApiHolds == Spec => [](part = "api" => ApiInv)
<1>1. Init => (part = "api" => ApiInv) BY ApiInit DEF Init
<1>2. (part = "api" => ApiInv) /\ [Next]_vars => (part = "api" => ApiInv)'
  <2>1. SUFFICES ASSUME [Next]_vars, part' = "api", part = "api" => ApiInv
                 PROVE  ApiInv'
    OBVIOUS
  <2>2. part = "api" BY <2>1 DEF Next, vars
  <2>3. CASE UNCHANGED vars BY <2>1, <2>2, <2>3, ApiStutters DEF vars
  <2>4. CASE Next
    <3>1. Api!Next BY <2>2, <2>4 DEF Next
    <3> QED BY <2>1, <2>2, <3>1, ApiStep
  <2> QED BY <2>1, <2>3, <2>4
<1> QED BY <1>1, <1>2, PTL DEF Spec

(* Nobody is let in with a session of a passphrase that had been rotated,  *)
(* or as a device that had been revoked, when the request arrived.         *)
THEOREM AdmittedProvesCurrentHolds == Spec => []AdmittedProvesCurrent
<1>1. ApiInv => Api!AdmittedProvesCurrent
  <2>1. SUFFICES ASSUME ApiInv, NEW c \in Call
                 PROVE  /\ call[c].admitted = "admin" => /\ call[c].sess.proved = call[c].ctx
                                                         /\ call[c].ctx >= call[c].born
                        /\ call[c].admitted = "device" => ~call[c].bornRevoked
    BY DEF Api!AdmittedProvesCurrent
  <2>2. Admission(call[c]) /\ Honest(call[c].sess) BY <2>1 DEF ApiInv, RequestInv
  <2> QED BY <2>2 DEF Admission, Loaded, Honest
<1>2. (part = "api" => ApiInv) => AdmittedProvesCurrent BY <1>1 DEF AdmittedProvesCurrent
<1> QED BY <1>2, ApiHolds, PTL

(* Whatever is changed is changed behind its guards and its budget, also   *)
(* by a request that is answered with an error or not at all; credentials  *)
(* are stored for no one who has not been authenticated.                   *)
THEOREM ChangesAreGuardedHolds == Spec => []ChangesAreGuarded
<1>1. ApiInv => Api!ChangesAreGuarded
  <2>1. \A c \in Call : ApiInv => Guarded(call[c].effect) BY DEF ApiInv, RequestInv, EffectLast
  <2> QED BY <2>1 DEF Api!ChangesAreGuarded, Guarded, Authentications, Api!Authentications
<1>2. (part = "api" => ApiInv) => ChangesAreGuarded BY <1>1 DEF ChangesAreGuarded
<1> QED BY <1>2, ApiHolds, PTL

(* No subject gets more calls of a bucket in a window than its limit, for  *)
(* any limit and however few windows the limiter keeps.                    *)
THEOREM BudgetRespectedHolds == Spec => []BudgetRespected
<1>1. ApiInv => Api!BudgetRespected
  <2>1. SUFFICES ASSUME ApiInv, NEW key \in DOMAIN granted
                 PROVE  granted[key] <= Limit
    BY DEF Api!BudgetRespected
  <2>2. /\ granted[key] \in Nat /\ windows[key] \in Nat
        /\ granted[key] <= windows[key] /\ windows[key] <= Limit
    BY <2>1 DEF ApiInv, Windows
  <2> QED BY <2>2, ApiConstants
<1>2. (part = "api" => ApiInv) => BudgetRespected BY <1>1 DEF BudgetRespected
<1> QED BY <1>2, ApiHolds, PTL

(* The variables of the API keep their types.                              *)
LEMMA ApiTypeOK == ApiInv => Api!TypeOK
<1>1. ASSUME ApiInv, NEW c \in Call
      PROVE  /\ call[c].sess \in AnySession
             /\ call[c].ctx \in 0 .. pass /\ call[c].born \in 0 .. pass
  <2>1. call[c] \in Request /\ Past(call[c]) /\ pass \in Nat
    BY <1>1, ApiConstants DEF ApiInv, RequestInv, ApiTypes
  <2>2. PICK p : p = call[c] OBVIOUS
  <2> QED BY <2>1, <2>2 DEF Past, Request
<1>2. ASSUME ApiInv
      PROVE  /\ pass \in 1 .. PassBound /\ revoked \in BOOLEAN
             /\ jar.admin \in AnySession /\ jar.device \in BOOLEAN
             /\ clock \in 0 .. ClockBound /\ arrivals \in 0 .. ArrivalBound
  BY <1>2 DEF ApiInv, ApiTypes
<1> QED BY <1>1, <1>2 DEF Api!TypeOK, AnySession
=============================================================================
