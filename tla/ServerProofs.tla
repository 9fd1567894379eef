---------------------------- MODULE ServerProofs ----------------------------
(***************************************************************************)
(* Theorems about Server: its start-up, for every set of configurations    *)
(* and every order in which the stores are built or fail, and whom its     *)
(* middleware lets in, for every set of requests.                          *)
(***************************************************************************)
EXTENDS Server, SequenceTheorems, TLAPS

\* The sizes of the configuration the process runs with are numbers.
Sized ==
  stage # "down" => /\ config.cache.max_memory \in Nat
                    /\ config.cache.max_object_size \in Nat

\* The cap was selected from that configuration, and the cache was opened with
\* memory: two components each know one half of why the cap is not 0.
CapSelected ==
  /\ stage \in {"cache", "bind", "serving"} => cap = SelectCap(config.cache)
  /\ stage \in {"bind", "serving"} => config.cache.max_memory # 0

\* The stores are complete as soon as the loop over them is left.
StoresComplete ==
  stage \in {"cache", "bind", "serving"} => DOMAIN stores = DOMAIN config.stores

IInv == Sized /\ CapSelected /\ StoresComplete

-----------------------------------------------------------------------------
\* Nothing is claimed of a process that does not run.
LEMMA DownIInv == stage = "down" => IInv
BY DEF IInv, Sized, CapSelected, StoresComplete

\* Every step of the start-up, of serving and of a crash preserves IInv.
LEMMA NextIInv == IInv /\ [Next]_vars => IInv'
<1>. SUFFICES ASSUME IInv, [Next]_vars PROVE IInv'
  OBVIOUS
<1>d. Down => IInv'
  BY DEF Down, IInv, Sized, CapSelected, StoresComplete
<1>s. UNCHANGED process => IInv'
  BY DEF process, IInv, Sized, CapSelected, StoresComplete
<1>1. ASSUME NEW g \in Givens, Launch(g) PROVE IInv'
  <2>1. CASE UNCHANGED process
    BY <2>1, <1>s
  <2>2. CASE ~UNCHANGED process
    <3>1. /\ LoadConfig(g) \notin {None, Garbled}
          /\ stage' = "auth" /\ config' = LoadConfig(g)
      BY <1>1, <2>2 DEF Launch
    <3>. QED
      BY <3>1, DocumentAssumption DEF IInv, Sized, CapSelected, StoresComplete
  <2>. QED  BY <2>1, <2>2
<1>2. CASE InitAuth
  <2>1. CASE Down
    BY <2>1, <1>d
  <2>2. CASE ~Down
    <3>1. stage = "auth" /\ stage' = "stores" /\ config' = config
      BY <1>2, <2>2 DEF InitAuth
    <3>. QED  BY <3>1 DEF IInv, Sized, CapSelected, StoresComplete
  <2>. QED  BY <2>1, <2>2
<1>3. ASSUME NEW id \in DOMAIN config.stores, BuildStore(id) PROVE IInv'
  <2>1. CASE Down
    BY <2>1, <1>d
  <2>2. CASE ~Down
    <3>1. stage = "stores" /\ stage' = stage /\ config' = config
      BY <1>3, <2>2 DEF BuildStore, Built
    <3>. QED  BY <3>1 DEF IInv, Sized, CapSelected, StoresComplete
  <2>. QED  BY <2>1, <2>2
<1>4. CASE StoresBuilt
  BY <1>4 DEF StoresBuilt, IInv, Sized, CapSelected, StoresComplete
<1>5. CASE OpenCache
  <2>1. CASE Down
    BY <2>1, <1>d
  <2>2. CASE ~Down
    <3>1. /\ stage = "cache" /\ stage' = "bind" /\ config.cache.max_memory # 0
          /\ config' = config /\ stores' = stores /\ cap' = cap
      BY <1>5, <2>2 DEF OpenCache
    <3>. QED  BY <3>1 DEF IInv, Sized, CapSelected, StoresComplete
  <2>. QED  BY <2>1, <2>2
<1>6. CASE Bind
  <2>1. CASE Down
    BY <2>1, <1>d
  <2>2. CASE ~Down
    <3>1. /\ stage = "bind" /\ stage' = "serving"
          /\ config' = config /\ stores' = stores /\ cap' = cap
      BY <1>6, <2>2 DEF Bind
    <3>. QED  BY <3>1 DEF IInv, Sized, CapSelected, StoresComplete
  <2>. QED  BY <2>1, <2>2
<1>7. ASSUME NEW req \in Requests, Arrive(req) PROVE IInv'
  BY <1>7, <1>s DEF Arrive
<1>8. CASE Route \/ Done \/ Tick
  BY <1>8, <1>s DEF Route, Done, Tick
<1>9. CASE Kill
  BY <1>9, <1>d DEF Kill
<1>10. CASE UNCHANGED vars
  BY <1>10, <1>s DEF vars
<1>. QED
  BY <1>1, <1>2, <1>3, <1>4, <1>5, <1>6, <1>7, <1>8, <1>9, <1>10 DEF Next, BuildNext

LEMMA IInvHolds == Spec => []IInv
<1>1. Init => IInv
  BY DownIInv DEF Init
<1>. QED  BY <1>1, NextIInv, PTL DEF Spec

-----------------------------------------------------------------------------
\* A process that serves has every configured store, whatever the order in which
\* the HashMap yielded them (store/mod.rs:16-51, main.rs:146).
THEOREM AllStoresBuilt == Spec => []EveryStoreBuilt
<1>1. IInv => EveryStoreBuilt
  BY DEF IInv, StoresComplete, EveryStoreBuilt
<1>. QED  BY <1>1, IInvHolds, PTL

\* No process serves with a cap of 0, so the `cap_bytes == 0` branches of the
\* handlers are dead (main.rs:151, cache/foyer.rs:29, handler.rs:402, 559).
THEOREM CapNeverZero == Spec => []CapPositive
<1>1. IInv => CapPositive
  BY DEF IInv, Sized, CapSelected, SelectCap, CapPositive
<1>. QED  BY <1>1, IInvHolds, PTL

-----------------------------------------------------------------------------
(***************************************************************************)
(* Who gets in                                                             *)
(***************************************************************************)
\* The bearer token of a header is its second word, after either spelling of the
\* scheme (handler.rs:103-112).
LEMMA BearerExact ==
  ASSUME NEW req \in Requests, NEW c \in AuthConfig, NEW a,
         a = A!FromConfig(c), a # None
  PROVE  LET token == A!ParseBearerToken(req.header)
         IN  token # None /\ A!VerifyBearer(a, token) = "Ok" <=>
               /\ c.bearer_token # None /\ req.header # None
               /\ \E scheme \in {"Bearer", "bearer"} :
                    IsPrefix(<<scheme, c.bearer_token>>, req.header)
<1>. DEFINE h == req.header
            token == A!ParseBearerToken(h)
<1>1. /\ h \in Seq(STRING) \cup {None} /\ (h \notin {None, <<>>} => h[1] \in DOMAIN A!Lower)
      /\ None \notin STRING \cup Seq(STRING)
  BY RequestAssumption DEF RequestType
<1>2. a.bearer_token = c.bearer_token /\ c.bearer_token \in STRING \cup {None}
  BY DEF A!FromConfig, AuthConfig
<1>3. A!VerifyBearer(a, token) = "Ok" <=> c.bearer_token # None /\ token = c.bearer_token
  BY <1>2 DEF A!VerifyBearer
<1>4. CASE h = None
  BY <1>4 DEF A!ParseBearerToken
<1>5. CASE h # None
  <2>1. h \in Seq(STRING) /\ Len(h) \in Nat
    BY <1>1, <1>5
  <2>2. ASSUME NEW scheme \in {"Bearer", "bearer"}, c.bearer_token \in STRING
        PROVE  IsPrefix(<<scheme, c.bearer_token>>, h) <=>
                 Len(h) >= 2 /\ h[1] = scheme /\ h[2] = c.bearer_token
    <3>. DEFINE w == <<scheme, c.bearer_token>>
                W == STRING \cup {scheme}
    <3>1. w \in Seq(W) /\ Len(w) = 2 /\ w[1] = scheme /\ w[2] = c.bearer_token
      BY <2>2
    <3>. HIDE DEF w, W
    <3>2. SubSeq(w, 1, 2) = w
      BY <3>1, SubSeqFull
    <3>3. ASSUME Len(h) >= 2
          PROVE  SubSeq(h, 1, 2) = w <=> h[1] = scheme /\ h[2] = c.bearer_token
      <4>1. \A i \in 1..2 : h[i] \in W
        BY <2>1, <3>3, ElementOfSeq DEF W
      <4>2. /\ SubSeq(h, 1, 2) \in Seq(W) /\ Len(SubSeq(h, 1, 2)) = 2
            /\ SubSeq(h, 1, 2)[1] = h[1] /\ SubSeq(h, 1, 2)[2] = h[2]
        BY <4>1, SubSeqProperties
      <4>. QED  BY <3>1, <4>2, SeqEqual
    <3>4. IsPrefix(w, h) <=> Len(h) >= 2 /\ w = SubSeq(h, 1, 2)
      BY <2>1, <3>1, <3>2 DEF IsPrefix
    <3>. QED  BY <3>3, <3>4 DEF w
  <2>3. Len(h) >= 2 => (A!Lower[h[1]] = "bearer" <=> h[1] \in {"Bearer", "bearer"})
    BY <1>1, <1>5, <2>1 DEF A!Lower
  <2>4. token # None => token = h[2] /\ Len(h) >= 2 /\ h[1] \in {"Bearer", "bearer"}
    BY <1>5, <2>3 DEF A!ParseBearerToken
  <2>5. Len(h) >= 2 /\ h[1] \in {"Bearer", "bearer"} => token = h[2]
    BY <1>5, <2>3 DEF A!ParseBearerToken
  <2>6. Len(h) >= 2 => h[2] \in STRING
    BY <2>1, ElementOfSeq
  <2>7. c.bearer_token \in STRING =>
          ((\E scheme \in {"Bearer", "bearer"} : IsPrefix(<<scheme, c.bearer_token>>, h)) <=>
             Len(h) >= 2 /\ h[1] \in {"Bearer", "bearer"} /\ h[2] = c.bearer_token)
    BY <2>2, Zenon
  <2>. QED  BY <1>1, <1>2, <1>3, <1>5, <2>4, <2>5, <2>6, <2>7
<1>. QED  BY <1>4, <1>5

\* A signature verifies exactly if the private key made it over a claim of this
\* request that has not expired (auth.rs:103-153).
LEMMA PresignExact ==
  ASSUME NEW req \in Requests, req.sig # Garbled, NEW c \in AuthConfig, NEW a,
         a = A!FromConfig(c), a # None, NEW t \in Nat
  PROVE  req.sig # None /\ A!Verify(a, t, req) = "Ok" <=>
           \E m \in {w \in DOMAIN A!Upper : A!Upper[w] = req.method}, e \in t..MaxTime :
             req.sig = Presigned(c.private_key,
                         [v |-> 1, exp |-> e, m |-> m, b |-> req.bucket, p |-> req.path])
<1>. DEFINE claim == req.sig.payload
<1>1. /\ req.sig \in Parameters \cup {None} /\ req.method \in {"GET", "HEAD", "PUT"}
      /\ req.bucket \in STRING /\ req.path \in STRING
      /\ MaxTime \in Nat /\ None \notin Parameters
      /\ Garbled \notin PresignPayload /\ Garbled \notin Signature
  BY RequestAssumption DEF RequestType
<1>2. a.verifying_key = c.private_key /\ c.private_key \in STRING
  BY RequestAssumption DEF A!FromConfig, AuthConfig
<1>3. A!Upper[req.method] = req.method
  BY <1>1 DEF A!Upper
<1>4. ASSUME req.sig # None, A!Verify(a, t, req) = "Ok"
      PROVE  \E m \in {w \in DOMAIN A!Upper : A!Upper[w] = req.method}, e \in t..MaxTime :
               req.sig = Presigned(c.private_key,
                           [v |-> 1, exp |-> e, m |-> m, b |-> req.bucket, p |-> req.path])
  <2>1. /\ req.sig \in Parameters /\ req.sig.dot /\ claim # Garbled /\ claim.v = 1
        /\ ~(claim.exp < t) /\ A!Upper[claim.m] = A!Upper[req.method]
        /\ claim.b = req.bucket /\ claim.p = req.path
        /\ req.sig.signature = [by |-> a.verifying_key, over |-> claim]
    BY <1>1, <1>4 DEF A!Verify, A!Expired
  <2>2. claim \in PresignPayload
    BY <2>1 DEF Parameters
  <2>3. /\ claim.m \in {w \in DOMAIN A!Upper : A!Upper[w] = req.method}
        /\ claim.exp \in t..MaxTime
    BY <1>1, <1>3, <2>1, <2>2 DEF PresignPayload
  <2>4. claim = [v |-> 1, exp |-> claim.exp, m |-> claim.m, b |-> req.bucket, p |-> req.path]
    BY <2>1, <2>2 DEF PresignPayload
  <2>5. req.sig = [dot |-> TRUE, payload |-> claim,
                   signature |-> [by |-> c.private_key, over |-> claim]]
    BY <1>2, <2>1 DEF Parameters
  <2>6. req.sig = Presigned(c.private_key, claim)
    BY <2>5 DEF Presigned
  <2>. QED  BY <2>3, <2>4, <2>6
<1>5. ASSUME NEW m \in {w \in DOMAIN A!Upper : A!Upper[w] = req.method},
             NEW e \in t..MaxTime,
             req.sig = Presigned(c.private_key,
                         [v |-> 1, exp |-> e, m |-> m, b |-> req.bucket, p |-> req.path])
      PROVE  req.sig # None /\ A!Verify(a, t, req) = "Ok"
  <2>. DEFINE d == [v |-> 1, exp |-> e, m |-> m, b |-> req.bucket, p |-> req.path]
              g == [by |-> c.private_key, over |-> d]
  <2>1. d \in PresignPayload /\ g \in Signature /\ d # Garbled /\ g # Garbled
    <3>1. e \in 0..MaxTime
      BY <1>1
    <3>2. d \in PresignPayload
      BY <1>1, <3>1 DEF PresignPayload
    <3>3. g \in Signature
      BY <1>2, <3>2 DEF Signature
    <3>. QED  BY <1>1, <3>2, <3>3
  <2>2. /\ req.sig.dot /\ req.sig.payload = d /\ req.sig.signature = g
        /\ req.sig \in Parameters
    BY <1>5, <2>1 DEF Presigned, Parameters
  <2>3. d.v = 1 /\ ~(d.exp < t) /\ d.m = m /\ d.b = req.bucket /\ d.p = req.path
    BY <1>1
  <2>. HIDE DEF d, g
  <2>4. A!Verify(a, t, req) = "Ok"
    BY <1>2, <1>3, <2>1, <2>2, <2>3 DEF A!Verify, A!Expired, g
  <2>. QED  BY <1>1, <2>2, <2>4
<1>. QED  BY <1>4, <1>5

\* The middleware lets through exactly whom it should (handler.rs:69-101).
LEMMA DecideExact ==
  ASSUME NEW req \in Requests, req.sig # Garbled, NEW c \in AuthConfig, NEW a,
         a = A!FromConfig(c), a # None, NEW t \in Nat
  PROVE  A!Decide(a, t, req) \in {"Bearer", "Presign"} <=> Entitled(c, t, req)
<1>. DEFINE token == A!ParseBearerToken(req.header)
<1>1. /\ A!VerifyBearer(a, token) \in {"BearerNotConfigured", "InvalidBearer", "Ok"}
      /\ A!Verify(a, t, req) \in {"MalformedSignature", "MalformedPayload",
           "UnsupportedVersion", "Expired", "MethodMismatch", "BucketMismatch",
           "PathMismatch", "InvalidSignature", "Ok"}
  BY DEF A!VerifyBearer, A!Verify
<1>2. A!Decide(a, t, req) \in {"Bearer", "Presign"} <=>
        \/ token # None /\ A!VerifyBearer(a, token) = "Ok"
        \/ req.sig # None /\ A!Verify(a, t, req) = "Ok"
  BY <1>1 DEF A!Decide
<1>. QED  BY <1>2, BearerExact, PresignExact DEF Entitled

\* A process past InitAuth judges with the authenticator of its configuration.
AuthBuilt ==
  /\ stage # "down" => config.auth \in AuthConfig
  /\ stage \notin {"down", "auth"} => auth = A!FromConfig(config.auth) /\ auth # None

\* Only a process that serves has a request under way.
ConnTyped ==
  /\ now \in Nat
  /\ stage # "serving" => conn = None
  /\ conn # None => conn \in [req : Requests, at : Nat \cup {None},
                             outcome : Outcomes \cup {None}]

AInv == AuthBuilt /\ ConnTyped /\ AdmitsExactly

\* An authenticator and the requests judged with it go together, over every
\* launch, failure and tick of the clock.
LEMMA NextAInv == AInv /\ [Next]_vars => AInv'
<1>. SUFFICES ASSUME AInv, [Next]_vars PROVE AInv'
  OBVIOUS
<1>i. AuthBuilt /\ ConnTyped /\ AdmitsExactly
  BY DEF AInv
<1>d. Down /\ now' = now => AInv'
  BY <1>i DEF Down, AInv, AuthBuilt, ConnTyped, AdmitsExactly
<1>s. UNCHANGED <<process, conn>> /\ now' \in Nat => AInv'
  BY <1>i DEF process, AInv, AuthBuilt, ConnTyped, AdmitsExactly, Entitled
<1>b. ASSUME stage' \notin {"down", "auth", "serving"}, stage # "serving",
             UNCHANGED <<config, auth, conn, now>>, stage \notin {"down", "auth"}
      PROVE  AInv'
  BY <1>i, <1>b DEF AInv, AuthBuilt, ConnTyped, AdmitsExactly
<1>1. ASSUME NEW g \in Givens, Launch(g) PROVE AInv'
  <2>1. CASE UNCHANGED process
    BY <1>1, <1>i, <1>s, <2>1 DEF Launch, ConnTyped
  <2>2. CASE ~UNCHANGED process
    <3>1. /\ LoadConfig(g) \notin {None, Garbled} /\ stage = "down"
          /\ stage' = "auth" /\ config' = LoadConfig(g) /\ UNCHANGED <<now, conn>>
      BY <1>1, <2>2 DEF Launch
    <3>2. config'.auth \in AuthConfig
      BY <3>1, DocumentAssumption
    <3>. QED  BY <1>i, <3>1, <3>2 DEF AInv, AuthBuilt, ConnTyped, AdmitsExactly
  <2>. QED  BY <2>1, <2>2
<1>2. CASE InitAuth
  <2>1. CASE Down
    BY <1>2, <1>d, <2>1 DEF InitAuth
  <2>2. CASE ~Down
    <3>1. /\ stage = "auth" /\ stage' = "stores" /\ UNCHANGED <<config, conn, now>>
          /\ auth' = A!FromConfig(config.auth) /\ auth' # None
      BY <1>2, <2>2 DEF InitAuth
    <3>. QED  BY <1>i, <3>1 DEF AInv, AuthBuilt, ConnTyped, AdmitsExactly
  <2>. QED  BY <2>1, <2>2
<1>3. ASSUME NEW id \in DOMAIN config.stores, BuildStore(id) PROVE AInv'
  BY <1>3, <1>b, <1>d DEF BuildStore, Built
<1>4. CASE StoresBuilt
  BY <1>4, <1>b DEF StoresBuilt
<1>5. CASE OpenCache
  BY <1>5, <1>b, <1>d DEF OpenCache
<1>6. CASE Bind
  <2>1. CASE Down
    BY <1>6, <1>d, <2>1 DEF Bind
  <2>2. CASE ~Down
    <3>1. stage = "bind" /\ stage' = "serving" /\ UNCHANGED <<config, auth, conn, now>>
      BY <1>6, <2>2 DEF Bind
    <3>. QED  BY <1>i, <3>1 DEF AInv, AuthBuilt, ConnTyped, AdmitsExactly
  <2>. QED  BY <2>1, <2>2
<1>7. ASSUME NEW req \in Requests, Arrive(req) PROVE AInv'
  <2>1. /\ stage = "serving" /\ conn' = [req |-> req, at |-> None, outcome |-> None]
        /\ UNCHANGED <<process, now>>
    BY <1>7 DEF Arrive
  <2>2. conn'.outcome \notin {"handled", "unauthorized"}
    BY <2>1, RequestAssumption DEF Outcomes
  <2>. QED  BY <1>i, <2>1, <2>2 DEF process, AInv, AuthBuilt, ConnTyped, AdmitsExactly
<1>8. CASE Route
  <2>. DEFINE req == conn.req
              by  == A!Decide(auth, now, req)
  <2>1. /\ stage = "serving" /\ conn # None /\ UNCHANGED <<process, now>>
        /\ conn' = [conn EXCEPT !.at = now, !.outcome =
                      IF req.route # "object" THEN "open"
                      ELSE IF req.sig = Garbled THEN "bad request"
                      ELSE IF by \notin {"Bearer", "Presign"} THEN "unauthorized"
                      ELSE "handled"]
    BY <1>8 DEF Route
  <2>2. conn \in [req : Requests, at : Nat \cup {None}, outcome : Outcomes \cup {None}]
    BY <1>i, <2>1 DEF ConnTyped
  <2>3. /\ conn'.req = req /\ req \in Requests /\ conn'.at = now
        /\ conn'.outcome \in {"handled", "unauthorized"} =>
             /\ req.sig # Garbled
             /\ conn'.outcome = "handled" <=> by \in {"Bearer", "Presign"}
    BY <2>1, <2>2
  <2>4. req.sig # Garbled => (by \in {"Bearer", "Presign"} <=> Entitled(config.auth, now, req))
    BY <1>i, <2>1, <2>3, DecideExact DEF AuthBuilt, ConnTyped
  <2>5. AdmitsExactly'
    <3>1. config' = config /\ conn'.at = now /\ conn'.req = req
      BY <2>1, <2>3 DEF process
    <3>2. Entitled(config.auth, conn.at, conn.req)' <=> Entitled(config.auth, now, req)
      BY <3>1 DEF Entitled
    <3>3. conn'.outcome \in {"handled", "unauthorized"} =>
            (conn'.outcome = "handled" <=> Entitled(config.auth, now, req))
      BY <2>3, <2>4
    <3>. QED  BY <3>2, <3>3 DEF AdmitsExactly
  <2>6. AuthBuilt' /\ ConnTyped'
    BY <1>i, <2>1, <2>2 DEF AuthBuilt, ConnTyped, Outcomes, process
  <2>. QED  BY <2>5, <2>6 DEF AInv
<1>9. CASE Done
  BY <1>9, <1>i DEF Done, process, AInv, AuthBuilt, ConnTyped, AdmitsExactly
<1>10. CASE Tick
  BY <1>10, <1>i, <1>s DEF Tick, ConnTyped
<1>11. CASE Kill
  BY <1>11, <1>d DEF Kill
<1>12. CASE UNCHANGED vars
  BY <1>12, <1>i, <1>s DEF vars, ConnTyped
<1>. QED
  BY <1>1, <1>2, <1>3, <1>4, <1>5, <1>6, <1>7, <1>8, <1>9, <1>10, <1>11, <1>12
     DEF Next, BuildNext

\* Exactly the entitled requests reach the object handlers, for every set of
\* requests and configurations (handler.rs:69-101, auth.rs:81-153).
THEOREM EntitledGetIn == Spec => []AdmitsExactly
<1>1. Init => AInv
  BY DEF Init, AInv, AuthBuilt, ConnTyped, AdmitsExactly
<1>2. AInv => AdmitsExactly
  BY DEF AInv
<1>. QED  BY <1>1, <1>2, NextAInv, PTL DEF Spec

-----------------------------------------------------------------------------
(* The types, and what the stores are made of.                             *)

\* A stage sets what it is there for, and nothing before it does.
Staged ==
  /\ stage \in {"down", "auth", "stores", "cache", "bind", "serving"}
  /\ stage = "down" <=> config = None
  /\ stage \in {"down", "auth"} <=> auth = None
  /\ stage \in {"down", "auth", "stores"} <=> cap = None
  /\ stage \in {"bind", "serving"} <=> tier # None

\* The clock and the launches are bounded, and a request has one of its outcomes.
Counted ==
  /\ now \in 0..MaxTime /\ launches \in 0..MaxLaunches
  /\ conn # None => /\ stage = "serving"
                    /\ conn \in [req : Requests, at : Nat \cup {None},
                                 outcome : Outcomes \cup {None}]

TInv == Staged /\ Counted

\* Every step preserves the types; the cap and the tier a stage sets are not None.
LEMMA NextTInv == Sized /\ TInv /\ [Next]_vars => TInv'
<1>. SUFFICES ASSUME Sized, TInv, [Next]_vars PROVE TInv'
  OBVIOUS
<1>i. Staged /\ Counted
  BY DEF TInv
<1>d. Down /\ UNCHANGED <<now, launches>> => TInv'
  BY <1>i DEF Down, TInv, Staged, Counted
<1>1. ASSUME NEW g \in Givens, Launch(g) PROVE TInv'
  <2>1. /\ stage = "down" /\ conn = None /\ UNCHANGED <<now, conn>>
        /\ launches' \in 0..MaxLaunches
    BY <1>1, <1>i, RequestAssumption DEF Launch, Counted
  <2>2. CASE UNCHANGED process
    BY <1>i, <2>1, <2>2 DEF process, TInv, Staged, Counted
  <2>3. CASE ~UNCHANGED process
    <3>1. /\ stage' = "auth" /\ config' # None /\ UNCHANGED <<auth, stores, cap, tier>>
      BY <1>1, <2>3 DEF Launch
    <3>. QED  BY <1>i, <2>1, <3>1 DEF TInv, Staged, Counted
  <2>. QED  BY <2>2, <2>3
<1>2. CASE InitAuth
  <2>1. CASE Down
    BY <1>2, <1>d, <2>1 DEF InitAuth
  <2>2. CASE ~Down
    BY <1>2, <1>i, <2>2 DEF InitAuth, TInv, Staged, Counted
  <2>. QED  BY <2>1, <2>2
<1>3. ASSUME NEW id \in DOMAIN config.stores, BuildStore(id) PROVE TInv'
  <2>1. CASE Down
    BY <1>3, <1>d, <2>1 DEF BuildStore
  <2>2. CASE ~Down
    BY <1>3, <1>i, <2>2 DEF BuildStore, Built, TInv, Staged, Counted
  <2>. QED  BY <2>1, <2>2
<1>4. CASE StoresBuilt
  <2>1. SelectCap(config.cache) \in Nat
    BY <1>4, <1>i DEF StoresBuilt, Sized, SelectCap
  <2>2. SelectCap(config.cache) # None
    BY <2>1, RequestAssumption
  <2>. QED  BY <1>4, <1>i, <2>2 DEF StoresBuilt, TInv, Staged, Counted
<1>5. CASE OpenCache
  <2>1. CASE Down
    BY <1>5, <1>d, <2>1 DEF OpenCache
  <2>2. CASE ~Down
    <3>1. /\ stage = "cache" /\ stage' = "bind"
          /\ \/ tier' \in {"memory", "/tmp/cachegate_cache"}
             \/ tier' = config.cache.disk_path /\ config.cache.disk_path # None
          /\ UNCHANGED <<config, auth, stores, cap, conn, now, launches>>
      BY <1>5, <2>2 DEF OpenCache
    <3>2. None \notin {"memory", "/tmp/cachegate_cache"}
      BY RequestAssumption DEF Tiers
    <3>3. tier' # None
      BY <3>1, <3>2
    <3>. QED  BY <1>i, <3>1, <3>3 DEF TInv, Staged, Counted
  <2>. QED  BY <2>1, <2>2
<1>6. CASE Bind
  <2>1. CASE Down
    BY <1>6, <1>d, <2>1 DEF Bind
  <2>2. CASE ~Down
    BY <1>6, <1>i, <2>2 DEF Bind, TInv, Staged, Counted
  <2>. QED  BY <2>1, <2>2
<1>7. ASSUME NEW req \in Requests, Arrive(req) PROVE TInv'
  BY <1>7, <1>i DEF Arrive, process, TInv, Staged, Counted
<1>8. CASE Route
  <2>1. /\ stage = "serving" /\ conn # None /\ UNCHANGED <<process, now, launches>>
        /\ conn \in [req : Requests, at : Nat \cup {None}, outcome : Outcomes \cup {None}]
        /\ now \in Nat
    BY <1>8, <1>i, RequestAssumption DEF Route, Counted
  <2>2. \E o \in Outcomes : conn' = [conn EXCEPT !.at = now, !.outcome = o]
    BY <1>8 DEF Route, Outcomes
  <2>3. conn' \in [req : Requests, at : Nat \cup {None}, outcome : Outcomes \cup {None}]
    BY <2>1, <2>2
  <2>. QED  BY <1>i, <2>1, <2>3 DEF process, TInv, Staged, Counted
<1>9. CASE Done
  BY <1>9, <1>i DEF Done, process, TInv, Staged, Counted
<1>10. CASE Tick
  <2>1. now' \in 0..MaxTime
    BY <1>10, <1>i, RequestAssumption DEF Tick, Counted
  <2>. QED  BY <1>10, <1>i, <2>1 DEF Tick, process, TInv, Staged, Counted
<1>11. CASE Kill
  BY <1>11, <1>d DEF Kill
<1>12. CASE UNCHANGED vars
  BY <1>12, <1>i DEF vars, process, TInv, Staged, Counted
<1>. QED
  BY <1>1, <1>2, <1>3, <1>4, <1>5, <1>6, <1>7, <1>8, <1>9, <1>10, <1>11, <1>12
     DEF Next, BuildNext

\* Every variable keeps its type over every start-up, failure and launch.
THEOREM TypeCorrect == Spec => []TypeOK
<1>1. Init => TInv
  BY RequestAssumption DEF Init, TInv, Staged, Counted
<1>2. TInv => TypeOK
  BY DEF TInv, Staged, Counted, TypeOK
<1>3. IInv => Sized
  BY DEF IInv
<1>. QED  BY <1>1, <1>2, <1>3, IInvHolds, NextTInv, PTL DEF Spec

\* The process runs with a document, whose connection strings are segments.
Documented ==
  stage # "down" =>
    \A id \in DOMAIN config.stores :
      config.stores[id].type = "azure" =>
        config.stores[id].connection_string \in Seq(Azure!Segments)

\* A store is what its configuration is parsed to, and there is none in a process
\* that does not run: nothing of an earlier launch is left.
StoresParsed ==
  \A id \in DOMAIN stores :
    /\ stage # "down" /\ id \in DOMAIN config.stores
    /\ stores[id] = StoreInfo(config.stores[id]) /\ stores[id] # None

DInv == Documented /\ StoresParsed

\* Only BuildStore adds a store, from the configuration at hand.
LEMMA NextDInv == DInv /\ [Next]_vars => DInv'
<1>. SUFFICES ASSUME DInv, [Next]_vars PROVE DInv'
  OBVIOUS
<1>i. Documented /\ StoresParsed
  BY DEF DInv
<1>d. Down => DInv'
  BY DEF Down, Empty, DInv, Documented, StoresParsed
<1>s. stage # "down" /\ stage' # "down" /\ UNCHANGED <<config, stores>> => DInv'
  BY <1>i DEF DInv, Documented, StoresParsed
<1>p. UNCHANGED process => DInv'
  BY <1>i DEF process, DInv, Documented, StoresParsed
<1>1. ASSUME NEW g \in Givens, Launch(g) PROVE DInv'
  <2>1. CASE UNCHANGED process
    BY <1>p, <2>1
  <2>2. CASE ~UNCHANGED process
    <3>1. /\ LoadConfig(g) \notin {None, Garbled} /\ stage = "down"
          /\ config' = LoadConfig(g) /\ stores' = stores
      BY <1>1, <2>2 DEF Launch
    <3>2. DOMAIN stores = {}
      BY <1>i, <3>1 DEF StoresParsed
    <3>. QED  BY <3>1, <3>2, DocumentAssumption DEF DInv, Documented, StoresParsed
  <2>. QED  BY <2>1, <2>2
<1>2. CASE InitAuth
  BY <1>2, <1>d, <1>s DEF InitAuth
<1>3. ASSUME NEW id \in DOMAIN config.stores, BuildStore(id) PROVE DInv'
  <2>1. CASE Down
    BY <1>d, <2>1
  <2>2. CASE ~Down
    <3>. DEFINE info == StoreInfo(config.stores[id])
    <3>1. /\ stage = "stores" /\ stage' = stage /\ config' = config /\ info # None
          /\ stores' = [k \in {id} \cup DOMAIN stores |->
                          IF k = id THEN info ELSE stores[k]]
      BY <1>3, <2>2 DEF BuildStore, Built
    <3>. HIDE DEF info
    <3>2. /\ DOMAIN stores' = {id} \cup DOMAIN stores
          /\ stores'[id] = info
          /\ \A k \in DOMAIN stores : k # id => stores'[k] = stores[k]
      BY <3>1
    <3>3. Documented'
      BY <1>i, <3>1 DEF Documented
    <3>4. ASSUME NEW k \in DOMAIN stores'
          PROVE  /\ k \in DOMAIN config.stores
                 /\ stores'[k] = StoreInfo(config.stores[k]) /\ stores'[k] # None
      BY <1>i, <1>3, <3>1, <3>2 DEF StoresParsed, info
    <3>5. StoresParsed'
      BY <3>1, <3>4 DEF StoresParsed, StoreInfo
    <3>. QED  BY <3>3, <3>5 DEF DInv
  <2>. QED  BY <2>1, <2>2
<1>4. CASE StoresBuilt \/ OpenCache \/ Bind
  BY <1>4, <1>d, <1>s DEF StoresBuilt, OpenCache, Bind
<1>5. ASSUME NEW req \in Requests, Arrive(req) PROVE DInv'
  BY <1>5, <1>p DEF Arrive
<1>6. CASE Route \/ Done \/ Tick
  BY <1>6, <1>p DEF Route, Done, Tick
<1>7. CASE Kill
  BY <1>7, <1>d DEF Kill
<1>8. CASE UNCHANGED vars
  BY <1>8, <1>p DEF vars
<1>. QED  BY <1>1, <1>2, <1>3, <1>4, <1>5, <1>6, <1>7, <1>8 DEF Next, BuildNext

AP == INSTANCE AzureConnProofs

\* The parser and the reading of the last segment are those of AzureConnProofs.
LEMMA SameAzure ==
  ASSUME NEW segments
  PROVE  /\ AP!Parse(segments) = Azure!Parse(segments)
         /\ \A keys : AP!LastOf(segments, keys) = Azure!LastOf(segments, keys)
         /\ \A url : AP!SaysHttp(url) = Azure!SaysHttp(url)
         /\ AP!Segments = Azure!Segments /\ AP!LowerKey = Azure!LowerKey
         /\ AP!LowerScheme = Azure!LowerScheme
<1>1. AP!Values(segments) = Azure!Values(segments)
  BY DEF AP!Values, Azure!Values, AP!Insert, Azure!Insert, AP!Keys, Azure!Keys,
         AP!LowerKey, Azure!LowerKey, AP!FoldLeft, Azure!FoldLeft,
         AP!MapThenFoldSet, Azure!MapThenFoldSet, AP!Max, Azure!Max
<1>2. AP!LowerKey = Azure!LowerKey /\ AP!LowerScheme = Azure!LowerScheme
  BY DEF AP!LowerKey, Azure!LowerKey, AP!LowerScheme, Azure!LowerScheme
<1>3. AP!Parse(segments) = Azure!Parse(segments)
  BY <1>1, <1>2 DEF AP!Parse, Azure!Parse, AP!Endpoint, Azure!Endpoint,
       AP!Protocol, Azure!Protocol, AP!IsHttp, Azure!IsHttp
<1>4. /\ \A keys : AP!LastOf(segments, keys) = Azure!LastOf(segments, keys)
      /\ \A url : AP!SaysHttp(url) = Azure!SaysHttp(url)
  BY DEF AP!LastOf, Azure!LastOf, AP!Max, Azure!Max, AP!SaysHttp, Azure!SaysHttp
<1>5. AP!Segments = Azure!Segments
  BY <1>2 DEF AP!Segments, Azure!Segments, AP!Url, Azure!Url
<1>. QED  BY <1>2, <1>3, <1>4, <1>5

\* Every Azure store a process has speaks for the account with the access key, and
\* allows plain HTTP, as the last segments of its connection string say, for every connection
\* string of any length (azure.rs:52-119, store/mod.rs:16-51).
THEOREM AzureStoresAsWritten == Spec => []AzureAsWritten
<1>1. Init => DInv
  BY DEF Init, Empty, DInv, Documented, StoresParsed
<1>2. DInv => AzureAsWritten
  <2>. SUFFICES ASSUME DInv, NEW id \in DOMAIN stores,
                       config.stores[id].type = "azure"
                PROVE  LET segments == config.stores[id].connection_string
                           url      == Azure!LastOf(segments, {"BlobEndpoint"})
                           protocol == Azure!LastOf(segments, {"DefaultEndpointsProtocol"})
                       IN  /\ stores[id].account =
                                Azure!LastOf(segments, {"AccountName", "ACCOUNTNAME"})
                           /\ stores[id].access_key = Azure!LastOf(segments, {"AccountKey"})
                           /\ stores[id].allow_http <=>
                                protocol \in {"http", "HTTP"} \/ Azure!SaysHttp(url)
                           /\ Azure!SaysHttp(stores[id].endpoint) => stores[id].allow_http
    BY DEF AzureAsWritten
  <2>. DEFINE segments == config.stores[id].connection_string
  <2>1. /\ segments \in Seq(Azure!Segments)
        /\ stores[id] = Azure!Parse(segments) /\ stores[id] # None
    BY DEF DInv, Documented, StoresParsed, StoreInfo
  <2>. HIDE DEF segments
  <2>2. LET info == Azure!Parse(segments)
            url  == Azure!LastOf(segments, {"BlobEndpoint"})
            p    == Azure!LastOf(segments, {"DefaultEndpointsProtocol"})
        IN  /\ info.account = Azure!LastOf(segments, {"AccountName", "ACCOUNTNAME"})
            /\ info.access_key = Azure!LastOf(segments, {"AccountKey"})
            /\ info.allow_http <=> p \in {"http", "HTTP"} \/ Azure!SaysHttp(url)
            /\ Azure!SaysHttp(info.endpoint) => info.allow_http
    BY <2>1, SameAzure, BlankAssumption, AP!ParsesAsWritten
  <2>. QED  BY <2>1, <2>2 DEF segments
<1>. QED  BY <1>1, <1>2, NextDInv, PTL DEF Spec
=============================================================================
