------------------------------- MODULE Server -------------------------------
(***************************************************************************)
(* The life of one cachegate process: main reads a configuration, builds   *)
(* the authenticator, the stores and the cache in that order (async_main), *)
(* binds and serves (run_server); a failure on the way ends the process.   *)
(* A supervisor may launch it again, with another configuration.  Requests *)
(* reach auth_middleware only on the object route.                         *)
(*                                                                         *)
(* Auth and AzureConn hold the decisions; what the object handlers do with *)
(* a request that is let through is module Gateway.                        *)
(***************************************************************************)
EXTENDS Naturals, Sequences, SequencesExt

CONSTANTS
  None, Garbled, Blank,
  Givens,       \* what an operator launches it with: argument, file, environment
  Requests,     \* the requests clients send
  MaxTime,      \* the last second of the model
  MaxLaunches   \* how often the process is launched

\* main and load_from_env: one document is read and the others are ignored.
\* None is a missing document, Garbled one that does not parse.
LoadConfig(g) ==
  CASE g.arg = "path" -> g.file
    [] g.arg = "env" /\ g.whole # None -> g.whole
    [] g.arg = "env" /\ g.whole = None -> g.vars
    [] OTHER -> None

VARIABLES
  stage,      \* how far async_main has come
  config,     \* Config, once read
  auth,       \* AppState::auth
  stores,     \* the stores built so far, AppState::stores once all are
  cap,        \* AppState::cache_max_object_bytes
  tier,       \* "memory", or the directory of the disk tier
  now,        \* unix_timestamp
  launches,
  conn        \* the request under way, and its answer

A == INSTANCE Auth
Azure == INSTANCE AzureConn

\* AuthConfig: texts, of which a key may not decode and a token may be missing.
AuthConfig == [public_key : STRING \cup {Garbled}, private_key : STRING \cup {Garbled},
               bearer_token : STRING \cup {None}]

\* A document that parses has sizes that are numbers (u64, no overflow anywhere),
\* keys that are texts, and connection strings that are texts between semicolons.
ASSUME DocumentAssumption ==
  \A g \in Givens :
    LoadConfig(g) \notin {None, Garbled} =>
      LET c == LoadConfig(g)
      IN  /\ c.cache.max_memory \in Nat
          /\ c.cache.max_object_size \in Nat
          /\ c.auth \in AuthConfig
          /\ \A id \in DOMAIN c.stores :
               c.stores[id].type = "azure" =>
                 c.stores[id].connection_string \in Seq(Azure!Segments)

\* What is missing or blank is none of the words a connection string may have.
ASSUME BlankAssumption ==
  /\ Blank \notin DOMAIN Azure!LowerKey
  /\ {None, Blank} \cap DOMAIN Azure!LowerScheme = {}

\* What a `sig` parameter decodes to: PresignPayload, and the two parts of it.
PresignPayload == [v : Nat, exp : 0..MaxTime, m : DOMAIN A!Upper, b : STRING, p : STRING]
Signature  == [by : STRING, over : PresignPayload]
Parameters == [dot : BOOLEAN, payload : PresignPayload \cup {Garbled},
               signature : Signature \cup {Garbled}]

\* What the router and the extractors hand to auth_middleware.
RequestType == [route : STRING, method : {"GET", "HEAD", "PUT"}, bucket : STRING,
                path : STRING, header : Seq(STRING) \cup {None},
                sig : Parameters \cup {None, Garbled}]

\* What becomes of a request before it reaches its handler, or that it does.
Outcomes == {"open", "bad request", "unauthorized", "handled"}

\* The tiers that have a name of their own: no disk, and the default directory.
Tiers == {"memory", "/tmp/cachegate_cache"}

ASSUME RequestAssumption ==
  /\ Requests \subseteq RequestType
  /\ \A req \in Requests :
       req.header \notin {None, <<>>} => req.header[1] \in DOMAIN A!Lower
  /\ MaxTime \in Nat /\ MaxLaunches \in Nat
  /\ None \notin Nat \cup STRING \cup Seq(STRING) \cup Parameters \cup Outcomes \cup Tiers
  /\ Garbled \notin STRING \cup PresignPayload \cup Signature \cup Parameters

process == <<stage, config, auth, stores, cap, tier>>
vars == <<process, now, launches, conn>>

Empty == [id \in {} |-> None]

\* A process that does not run.
Down ==
  /\ stage' = "down" /\ config' = None /\ auth' = None /\ stores' = Empty
  /\ cap' = None /\ tier' = None /\ conn' = None

Init ==
  /\ stage = "down" /\ config = None /\ auth = None /\ stores = Empty
  /\ cap = None /\ tier = None
  /\ now = 0 /\ launches = 0 /\ conn = None

-----------------------------------------------------------------------------
(* Start-up.                                                               *)

\* init_sentry panics on a DSN that does not parse.
Launch(g) ==
  /\ stage = "down" /\ launches < MaxLaunches
  /\ launches' = launches + 1
  /\ LET c == LoadConfig(g)
     IN  IF c \in {None, Garbled} \/ c.sentry = Garbled
         THEN UNCHANGED process
         ELSE stage' = "auth" /\ config' = c /\ UNCHANGED <<auth, stores, cap, tier>>
  /\ UNCHANGED <<now, conn>>

\* Mutant: the start-up goes on without an authenticator.
InitAuthGoesOn ==
  /\ stage = "auth"
  /\ auth' = A!FromConfig(config.auth) /\ stage' = "stores"
  /\ UNCHANGED <<config, stores, cap, tier, conn, now, launches>>

InitAuth ==
  /\ stage = "auth"
  /\ LET a == A!FromConfig(config.auth)
     IN  IF a = None THEN Down
         ELSE auth' = a /\ stage' = "stores" /\ UNCHANGED <<config, stores, cap, tier, conn>>
  /\ UNCHANGED <<now, launches>>

\* The builder's own validation, external: it refuses an endpoint without a scheme.
Buildable(info) == info.endpoint # None => info.endpoint.scheme # Blank

\* One turn of build_stores' loop: the store's settings, None for a bad
\* connection string (build_azure_store).
StoreInfo(c) ==
  IF c.type = "azure" THEN Azure!Parse(c.connection_string)
  ELSE [endpoint |-> c.endpoint, allow_http |-> c.allow_http = TRUE]

Built(id) ==
  LET info == StoreInfo(config.stores[id])
  IN  /\ info # None /\ Buildable(info)
      /\ stores' = [k \in {id} \cup DOMAIN stores |-> IF k = id THEN info ELSE stores[k]]
      /\ UNCHANGED <<stage, config, auth, cap, tier, conn>>

\* Mutant: the loop ends at a store that cannot be built.
BuildStoreBreaks(id) ==
  /\ stage = "stores" /\ id \notin DOMAIN stores
  /\ \/ Built(id)
     \/ /\ stage' = "cache" /\ cap' = config.cache.max_memory
        /\ UNCHANGED <<config, auth, stores, tier, conn>>
  /\ UNCHANGED <<now, launches>>

\* Mutant: a store that cannot be built is tried again.
BuildStoreRetries(id) ==
  /\ stage = "stores" /\ id \notin DOMAIN stores
  /\ Built(id)
  /\ UNCHANGED <<now, launches>>

\* The configurations are a HashMap: the order is arbitrary.  build() may fail
\* for reasons of its own, and the first failure ends the start-up.
BuildStore(id) ==
  /\ stage = "stores" /\ id \notin DOMAIN stores
  /\ Built(id) \/ Down
  /\ UNCHANGED <<now, launches>>

\* Mutant: the configured size is used as it is.
SelectCapAsIs(c) == c.max_object_size

SelectCap(c) == IF c.max_object_size = 0 THEN c.max_memory ELSE c.max_object_size

StoresBuilt ==
  /\ stage = "stores" /\ DOMAIN stores = DOMAIN config.stores
  /\ stage' = "cache" /\ cap' = SelectCap(config.cache)
  /\ UNCHANGED <<config, auth, stores, tier, now, launches, conn>>

\* FoyerCache::new: no cache without memory; a disk tier only with a capacity,
\* in its directory, which may not come up.
OpenCache ==
  /\ stage = "cache"
  /\ LET c == config.cache
     IN  \/ /\ c.max_memory # 0
            /\ tier' = IF c.max_disk = 0 THEN "memory"
                       ELSE IF c.disk_path = None THEN "/tmp/cachegate_cache" ELSE c.disk_path
            /\ stage' = "bind"
            /\ UNCHANGED <<config, auth, stores, cap, conn>>
         \/ Down
  /\ UNCHANGED <<now, launches>>

Bind ==
  /\ stage = "bind"
  /\ \/ stage' = "serving" /\ UNCHANGED <<config, auth, stores, cap, tier, conn>>
     \/ Down
  /\ UNCHANGED <<now, launches>>

-----------------------------------------------------------------------------
(* Serving.                                                                *)

Arrive(req) ==
  /\ stage = "serving" /\ conn = None
  /\ conn' = [req |-> req, at |-> None, outcome |-> None]
  /\ UNCHANGED <<process, now, launches>>

\* The routes outside `protected` are open; on the object route auth_middleware
\* lets a request through to its handler.  A query that does not parse is a bad
\* request.
Route ==
  /\ stage = "serving" /\ conn # None /\ conn.outcome = None
  /\ LET req == conn.req
         by  == A!Decide(auth, now, req)
     IN  conn' = [conn EXCEPT !.at = now, !.outcome =
                    IF req.route # "object" THEN "open"
                    ELSE IF req.sig = Garbled THEN "bad request"
                    ELSE IF by \notin {"Bearer", "Presign"} THEN "unauthorized"
                    ELSE "handled"]
  /\ UNCHANGED <<process, now, launches>>

Done ==
  /\ conn # None /\ conn.outcome # None
  /\ conn' = None
  /\ UNCHANGED <<process, now, launches>>

\* The operator or the system ends the process, at any moment.
Kill ==
  /\ stage # "down"
  /\ Down /\ UNCHANGED <<now, launches>>

Tick ==
  /\ now < MaxTime /\ now' = now + 1
  /\ UNCHANGED <<process, launches, conn>>

\* The next turn of the loop over the configured stores.
BuildNext == stage = "stores" /\ \E id \in DOMAIN config.stores : BuildStore(id)

Next ==
  \/ \E g \in Givens : Launch(g)
  \/ InitAuth
  \/ BuildNext \/ StoresBuilt \/ OpenCache \/ Bind
  \/ \E req \in Requests : Arrive(req)
  \/ Route \/ Done \/ Kill \/ Tick

Spec == Init /\ [][Next]_vars

\* async_main runs on, and so does the task of a request.  Launches, requests,
\* kills and the clock are not fair.
Fairness ==
  /\ WF_vars(InitAuth) /\ WF_vars(BuildNext) /\ WF_vars(StoresBuilt)
  /\ WF_vars(OpenCache) /\ WF_vars(Bind) /\ WF_vars(Route)

FairSpec == Spec /\ Fairness

-----------------------------------------------------------------------------
(* Properties.                                                             *)

\* Every variable keeps its type, and what a stage has not reached yet is unset.
TypeOK ==
  /\ stage \in {"down", "auth", "stores", "cache", "bind", "serving"}
  /\ stage = "down" <=> config = None
  /\ stage \in {"down", "auth"} <=> auth = None
  /\ stage \in {"down", "auth", "stores"} <=> cap = None
  /\ stage \in {"bind", "serving"} <=> tier # None
  /\ now \in 0..MaxTime /\ launches \in 0..MaxLaunches
  /\ conn # None => /\ stage = "serving"
                    /\ conn.req \in Requests /\ conn.outcome \in Outcomes \cup {None}

\* A process that serves has every configured store, whichever of them failed in
\* whichever order: there is no partial start (store/mod.rs:39, main.rs:146).
EveryStoreBuilt ==
  stage \in {"bind", "serving"} => DOMAIN stores = DOMAIN config.stores

\* The cap the handlers compare sizes with is never 0: 0 selects max_memory, and
\* a max_memory of 0 is refused, but by another component and only after the cap
\* was taken from it (main.rs:151, cache/foyer.rs:29).
CapPositive == stage \in {"bind", "serving"} => cap > 0

\* The signature parameter a holder of the private key makes for a claim.
Presigned(private_key, claim) ==
  [dot |-> TRUE, payload |-> claim,
   signature |-> [by |-> private_key, over |-> claim]]

\* Who should get in: whoever shows the configured bearer token, and whoever
\* holds a signature made with the configured private key over this method,
\* bucket and path that has not expired.
Entitled(c, t, req) ==
  \/ /\ c.bearer_token # None /\ req.header # None
     /\ \E scheme \in {"Bearer", "bearer"} :
          IsPrefix(<<scheme, c.bearer_token>>, req.header)
  \/ \E m \in {w \in DOMAIN A!Upper : A!Upper[w] = req.method}, e \in t..MaxTime :
       req.sig = Presigned(c.private_key,
                   [v |-> 1, exp |-> e, m |-> m, b |-> req.bucket, p |-> req.path])

\* Exactly the entitled requests reach the object handlers, judged by the
\* configuration the process runs with and the second the middleware looks at
\* the clock: a refused token does not spoil a good signature, a signature of an
\* earlier launch's key is worthless (handler.rs:69-101, auth.rs:81-153).
AdmitsExactly ==
  conn # None /\ conn.outcome \in {"handled", "unauthorized"} =>
    (conn.outcome = "handled" <=> Entitled(config.auth, conn.at, conn.req))

\* An Azure store speaks for the account written last, with the access key written
\* last, and plain HTTP is allowed for it exactly when the last protocol or the
\* last endpoint in the connection string says so, whatever the case and the order
\* (azure.rs:52-110).
AzureAsWritten ==
  \A id \in DOMAIN stores :
    config.stores[id].type = "azure" =>
      LET segments == config.stores[id].connection_string
          url      == Azure!LastOf(segments, {"BlobEndpoint"})
          protocol == Azure!LastOf(segments, {"DefaultEndpointsProtocol"})
      IN  /\ stores[id].account = Azure!LastOf(segments, {"AccountName", "ACCOUNTNAME"})
          /\ stores[id].access_key = Azure!LastOf(segments, {"AccountKey"})
          /\ stores[id].allow_http <=>
               protocol \in {"http", "HTTP"} \/ Azure!SaysHttp(url)
          /\ Azure!SaysHttp(stores[id].endpoint) => stores[id].allow_http

\* A launch does not hang: it ends in a process that serves or in none.
BootEnds == stage # "down" ~> stage \in {"down", "serving"}
=============================================================================
