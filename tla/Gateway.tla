------------------------------ MODULE Gateway -------------------------------
(***************************************************************************)
(* The request handlers of src/src/handler.rs over the state they share:   *)
(* get_object, head_object with its spawned prefetch, put_object, the auth *)
(* middleware in front of them, fetch_and_cache_entry, the singleflight    *)
(* table (module Inflight), the cache (cache/foyer.rs), the upstream       *)
(* object store (external) and the metrics counters.                       *)
(*                                                                         *)
(* A step runs a handler from one await that can suspend to the next; any  *)
(* other task, a client disconnect or the upstream may act in between.     *)
(* Object contents are abstracted to values, an AppError to its status.    *)
(* The process may be killed and started again over the disk tier of its   *)
(* cache.                                                                  *)
(***************************************************************************)
EXTENDS Naturals, FiniteSets

CONSTANTS
  Requests,    \* client requests, each served once
  Keys,        \* CacheKeys: bucket and path
  Locations,   \* where objects are upstream
  Location,    \* [Keys -> Locations]: object_store's Path drops empty segments,
               \* so "a//b" and "a/b" are two keys of one object
  BadPaths,    \* keys whose path is empty, has ".." or starts with "/"
  Unrouted,    \* keys whose bucket is in no store (state.stores.get is None)
  Lossy,       \* keys whose cached entry may be evicted or fail to be read
  Values,      \* object contents
  Oversize,    \* contents longer than cache_max_object_bytes
  Guess,       \* [Keys -> type or None]: mime_guess on the path
  Magic,       \* [Values -> type or None]: infer on the bytes
  CTypes,      \* content types
  Octet,       \* application/octet-stream
  InitStore,   \* what the upstream holds at first: [Locations -> Values or None]
  Ops,         \* the requests clients may send
  MaxRestarts, \* how often the process is killed and started again
  None,
  Open         \* Inflight's mark of a flight that has not landed

NotFound   == 404
BadGateway == 502
Errors     == {NotFound, BadGateway}

\* A handler, and the prefetch task a HEAD handler may spawn.
Handler(r)  == <<r, "handler">>
Prefetch(r) == <<r, "prefetch">>
Tasks == Requests \X {"handler", "prefetch"}

CacheEntries == [body : Values, ctype : CTypes \cup {None}]

\* A Result<CacheEntry, AppError>, also what a client is answered.
Reply(status, body, ctype) == [status |-> status, body |-> body, ctype |-> ctype]
Found(e)  == Reply(200, e.body, e.ctype)
Fail(status) == Reply(status, None, None)
Successes == {Found(e) : e \in CacheEntries}
Results   == Successes \cup {Fail(e) : e \in Errors}

\* What a client may be answered.
Replies == [status : {200, 400, 401, 404, 502}, body : Values \cup {None},
            ctype : CTypes \cup {None}]

OpType == [method : {"GET", "HEAD", "PREFETCH", "PUT"}, key : Keys,
           body : Values \cup {None}, ctype : CTypes \cup {None},
           prefetch : BOOLEAN, auth : BOOLEAN, decodes : BOOLEAN]

ASSUME GatewayAssumption ==
  /\ BadPaths \subseteq Keys /\ Unrouted \subseteq Keys /\ Lossy \subseteq Keys
  /\ Oversize \subseteq Values
  /\ None \notin Values \cup CTypes /\ Octet \in CTypes
  /\ Location \in [Keys -> Locations]
  /\ Guess \in [Keys -> CTypes \cup {None}] /\ Magic \in [Values -> CTypes \cup {None}]
  /\ InitStore \in [Locations -> Values \cup {None}]
  /\ MaxRestarts \in Nat
  /\ Ops \subseteq OpType
  /\ \A o \in Ops : o.method # "PREFETCH" /\ (o.method = "PUT" => o.body \in Values)

\* The markers are neither tasks, answers, entries nor requests.
ASSUME MarkerAssumption ==
  /\ None \notin Tasks \cup Replies \cup CacheEntries \cup OpType
  /\ Open \notin Replies \cup {None}

VARIABLES
  inner, result, step, key, entry, got,   \* the singleflight table
  op,        \* op[t]: the request task t serves
  pc,        \* pc[t]: the await task t is suspended at
  fetched,   \* fetched[t]: what t's upstream fetch (or its leader's) returned
  upload,    \* upload[t]: the completion of t's multipart upload upstream
  resp,      \* resp[t]: the response sent to the client
  store,     \* store[l]: the upstream object, or None
  cache,     \* cache[k]: the cached entry, or None
  disk,      \* disk[k]: entries a restart may recover for k from the disk tier
  restarts,  \* how often the process was started again
  inserts,   \* FoyerCache::inserts
  metrics,   \* the counters of metrics.rs
  seen,      \* history: what the store held for the key while t ran
  barred,    \* history: contents an acknowledged PUT had replaced when t arrived
  past       \* history: the tasks of earlier runs of the process

I == INSTANCE Inflight

table   == <<inner, result, step, key, entry, got>>
caching == <<cache, disk, inserts>>
runs    == <<past, restarts>>
history == <<seen, barred, runs>>
vars == <<table, op, pc, fetched, upload, resp, store, caching, metrics, history>>

Counters == {"requests", "auth_fail", "cache_hit", "cache_miss",
             "upstream_ok", "upstream_err"}

Init ==
  /\ I!Init
  /\ op      = [t \in Tasks |-> None]
  /\ pc      = [t \in Tasks |-> "new"]
  /\ fetched = [t \in Tasks |-> None]
  /\ upload  = [t \in Tasks |-> "none"]
  /\ resp    = [t \in Tasks |-> None]
  /\ store   = InitStore
  /\ cache   = [k \in Keys |-> None]
  /\ disk    = [k \in Keys |-> {}]
  /\ restarts = 0
  /\ inserts = 0
  /\ metrics = [c \in Counters |-> 0]
  /\ seen    = [t \in Tasks |-> {}]
  /\ barred  = [t \in Tasks |-> {}]
  /\ past    = {}

-----------------------------------------------------------------------------
(***************************************************************************)
(* Building blocks                                                         *)
(***************************************************************************)
\* The upstream object a request is about.
At(t) == Location[op[t].key]

Goto(t, where) ==
  /\ pc' = [pc EXCEPT ![t] = where]
  /\ UNCHANGED resp

End(t, reply) ==
  /\ pc'   = [pc EXCEPT ![t] = "done"]
  /\ resp' = [resp EXCEPT ![t] = reply]

Count(S) ==
  metrics' = [c \in Counters |-> IF c \in S THEN metrics[c] + 1 ELSE metrics[c]]

\* resolve_content_type, for what a fetch caches.
Resolve(k, v) ==
  IF Guess[k] # None THEN Guess[k]
  ELSE IF Magic[v] # None THEN Magic[v]
  ELSE Octet

\* content_type_from_headers, for what an upload caches: the bytes are not looked at.
PutType(o) == IF o.ctype # None THEN o.ctype ELSE Guess[o.key]

\* FoyerCache::put replaces whatever entry there is, and hands the entry to the
\* disk tier (WriteOnInsertion), which writes it some time later, or never.
CachePut(k, e) ==
  /\ cache' = [cache EXCEPT ![k] = e]
  /\ disk' = [disk EXCEPT ![k] = @ \cup {e}]
  /\ inserts' = inserts + 1

\* An object above the cap is neither cached nor is an older entry removed.
CacheUnlessCapped(k, v, ctype) ==
  IF v \in Oversize THEN UNCHANGED caching
  ELSE CachePut(k, [body |-> v, ctype |-> ctype])

Live(t) == pc[t] \notin {"new", "done", "cancelled"}

-----------------------------------------------------------------------------
(***************************************************************************)
(* Arrival: auth_middleware, then the synchronous prefix of the handler.   *)
(***************************************************************************)
\* A PUT of k has been answered 200, and no other upload of k is in doubt.
Settled(k) ==
  LET uploads == {u \in Tasks : upload[u] # "none" /\ op[u].key = k}
  IN  /\ uploads # {}
      /\ \A u \in uploads : pc[u] = "done" /\ resp[u].status = 200

Arrive(t, o) ==
  /\ pc[t] = "new"
  /\ op' = [op EXCEPT ![t] = o]
  /\ seen' = [seen EXCEPT ![t] = {store[Location[o.key]]}]
  /\ barred' = [barred EXCEPT ![t] = IF Settled(o.key)
                                    THEN (Values \cup {None}) \ {store[Location[o.key]]}
                                    ELSE {}]
  /\ UNCHANGED <<table, fetched, upload, store, caching, runs>>

\* Path or Query extraction fails: the middleware's `?`, uncounted.
Undecodable(t, o) ==
  /\ ~o.decodes
  /\ Arrive(t, o)
  /\ End(t, Fail(400))
  /\ UNCHANGED metrics

Unauthorized(t, o) ==
  /\ o.decodes /\ ~o.auth
  /\ Arrive(t, o)
  /\ End(t, Fail(401))
  /\ Count({"auth_fail"})

\* o reaches its handler.
Admitted(o) == o.decodes /\ o.auth

InvalidPath(t, o) ==
  /\ Admitted(o) /\ o.key \in BadPaths
  /\ Arrive(t, o)
  /\ End(t, Fail(400))
  /\ Count({"requests"})

StartRead(t, o) ==
  /\ Admitted(o) /\ o.key \notin BadPaths /\ o.method # "PUT"
  /\ Arrive(t, o)
  /\ Goto(t, "lookup")
  /\ UNCHANGED metrics

StartPut(t, o) ==
  /\ Admitted(o) /\ o.key \notin BadPaths \cup Unrouted /\ o.method = "PUT"
  /\ Arrive(t, o)
  /\ Goto(t, "init_upload")
  /\ UNCHANGED metrics

\* The `?` on an unknown bucket returns before inc_requests.
PutUnknownBucket(t, o) ==
  /\ Admitted(o) /\ o.key \in Unrouted \ BadPaths /\ o.method = "PUT"
  /\ Arrive(t, o)
  /\ End(t, Fail(NotFound))
  /\ UNCHANGED metrics

-----------------------------------------------------------------------------
(***************************************************************************)
(* The cache lookup that opens get_object and head_object.                 *)
(***************************************************************************)
CacheHit(t) ==
  /\ pc[t] = "lookup"
  /\ cache[op[t].key] # None
  /\ End(t, Found(cache[op[t].key]))
  /\ Count({"cache_hit", "requests"})
  /\ UNCHANGED <<table, op, fetched, upload, store, caching, history>>

\* The cache has no entry, or foyer failed to read it (foyer.rs:105-108).
Missed(k) == cache[k] = None \/ k \in Lossy

GetMiss(t) ==
  /\ pc[t] = "lookup" /\ op[t].method = "GET"
  /\ Missed(op[t].key)
  /\ Goto(t, "acquire")
  /\ Count({"cache_miss"})
  /\ UNCHANGED <<table, op, fetched, upload, store, caching, history>>

HeadMiss(t) ==
  /\ pc[t] = "lookup" /\ op[t].method = "HEAD"
  /\ Missed(op[t].key)
  /\ IF op[t].key \in Unrouted THEN End(t, Fail(NotFound))
                               ELSE Goto(t, "head")
  /\ Count({"cache_miss"})
  /\ UNCHANGED <<table, op, fetched, upload, store, caching, history>>

-----------------------------------------------------------------------------
(***************************************************************************)
(* get_object after a miss, and head_prefetch: lead the fetch or follow.   *)
(***************************************************************************)
Acquire(t) ==
  /\ pc[t] = "acquire"
  /\ I!Acquire(t, op[t].key)
  /\ \/ step'[t] = "leader" /\ Goto(t, "fetch")
     \/ step'[t] = "follower" /\ Goto(t, "wait")
  /\ UNCHANGED <<op, fetched, upload, store, caching, metrics, history>>

\* A prefetch that finds a flight drops its entry without waiting.
PrefetchSkip(t) ==
  /\ pc[t] = "wait" /\ op[t].method = "PREFETCH"
  /\ I!Abandon(t)
  /\ Goto(t, "done")
  /\ UNCHANGED <<op, fetched, upload, store, caching, metrics, history>>

Register(t) ==
  /\ pc[t] = "wait" /\ op[t].method = "GET"
  /\ I!Register(t)
  /\ UNCHANGED <<op, pc, fetched, upload, resp, store, caching, metrics, history>>

\* Mutant: a leader that vanished is taken for a success.
ResumeIgnoresNone(t) ==
  /\ pc[t] = "wait"
  /\ I!ReadResult(t)
  /\ fetched' = [fetched EXCEPT ![t] = got'[t]]
  /\ Goto(t, "recheck")
  /\ UNCHANGED <<op, upload, store, caching, metrics, history>>

\* Mutant: a follower retries a failed fetch by itself.
ResumeRetries(t) ==
  /\ pc[t] = "wait"
  /\ I!ReadResult(t)
  /\ fetched' = [fetched EXCEPT ![t] = got'[t]]
  /\ \/ got'[t] \in Successes /\ Goto(t, "recheck")
     \/ got'[t] \notin Successes /\ Goto(t, "fetch")
  /\ UNCHANGED <<op, upload, store, caching, metrics, history>>

\* wait() returns: the leader's Ok is checked against the cache once more, its
\* Err is returned as it is, and without a result the follower fetches by itself.
Resume(t) ==
  /\ pc[t] = "wait"
  /\ I!ReadResult(t)
  /\ fetched' = [fetched EXCEPT ![t] = got'[t]]
  /\ \/ got'[t] \in Successes /\ Goto(t, "recheck") /\ UNCHANGED metrics
     \/ got'[t] \in Results \ Successes /\ End(t, got'[t]) /\ Count({"requests"})
     \/ got'[t] = None /\ Goto(t, "fetch") /\ UNCHANGED metrics
  /\ UNCHANGED <<op, upload, store, caching, history>>

\* Mutant: the second look into the cache is counted as another hit.
RecheckCounted(t) ==
  /\ pc[t] = "recheck" /\ cache[op[t].key] # None
  /\ End(t, Found(cache[op[t].key]))
  /\ Count({"cache_hit", "requests"})
  /\ UNCHANGED <<table, op, fetched, upload, store, caching, history>>

\* Mutant: the cached body is sent with the type the leader resolved.
RecheckMixes(t) ==
  /\ pc[t] = "recheck"
  /\ LET k == op[t].key
     IN  \/ cache[k] # None /\ End(t, Reply(200, cache[k].body, fetched[t].ctype))
         \/ Missed(k) /\ End(t, fetched[t])
  /\ Count({"requests"})
  /\ UNCHANGED <<table, op, fetched, upload, store, caching, history>>

Recheck(t) ==
  /\ pc[t] = "recheck"
  /\ LET k == op[t].key
     IN  \/ cache[k] # None /\ End(t, Found(cache[k]))
         \/ Missed(k) /\ End(t, fetched[t])
  /\ Count({"requests"})
  /\ UNCHANGED <<table, op, fetched, upload, store, caching, history>>

-----------------------------------------------------------------------------
(***************************************************************************)
(* fetch_and_cache_entry, called with the guard held (leader) or, by a     *)
(* follower whose leader vanished, without it.                             *)
(***************************************************************************)
FetchReturns(t, res, counted) ==
  /\ fetched' = [fetched EXCEPT ![t] = res]
  /\ \/ step[t] = "leader" /\ Goto(t, "complete") /\ Count(counted)
     \/ step[t] # "leader" /\ End(t, res)
                           /\ Count(counted \cup {"requests"})

FetchUnknownBucket(t) ==
  /\ pc[t] = "fetch" /\ op[t].key \in Unrouted
  /\ FetchReturns(t, Fail(NotFound), {})
  /\ UNCHANGED <<table, op, upload, store, caching, history>>

\* store.get: the object as it is now, NotFound, or another error.
FetchGet(t) ==
  /\ pc[t] = "fetch" /\ op[t].key \notin Unrouted
  /\ \/ /\ store[At(t)] # None
        /\ fetched' = [fetched EXCEPT ![t] =
                         Reply(200, store[At(t)], Resolve(op[t].key, store[At(t)]))]
        /\ Goto(t, "bytes")
        /\ UNCHANGED metrics
     \/ /\ store[At(t)] = None
        /\ FetchReturns(t, Fail(NotFound), {"upstream_err"})
     \/ FetchReturns(t, Fail(BadGateway), {"upstream_err"})
  /\ UNCHANGED <<table, op, upload, store, caching, history>>

\* Mutant: the insertion into the cache is forgotten.
FetchBytesUncached(t) ==
  /\ pc[t] = "bytes"
  /\ \/ FetchReturns(t, fetched[t], {"upstream_ok"})
     \/ FetchReturns(t, Fail(BadGateway), {"upstream_err"})
  /\ UNCHANGED <<table, op, upload, store, caching, history>>

\* result.bytes, then the insertion into the cache.
FetchBytes(t) ==
  /\ pc[t] = "bytes"
  /\ \/ /\ FetchReturns(t, fetched[t], {"upstream_ok"})
        /\ CacheUnlessCapped(op[t].key, fetched[t].body, fetched[t].ctype)
     \/ /\ FetchReturns(t, Fail(BadGateway), {"upstream_err"})
        /\ UNCHANGED caching
  /\ UNCHANGED <<table, op, upload, store, history>>

\* guard.complete(result), in the two critical sections of module Inflight.
Complete(t) ==
  /\ pc[t] = "complete"
  /\ I!StoreResult(t, fetched[t])
  /\ Goto(t, "release")
  /\ UNCHANGED <<op, fetched, upload, store, caching, metrics, history>>

CompleteRelease(t) ==
  /\ pc[t] = "release"
  /\ I!CompleteRelease(t)
  /\ \/ /\ op[t].method = "GET"
        /\ End(t, fetched[t])
        /\ Count({"requests"})
     \/ /\ op[t].method = "PREFETCH"
        /\ Goto(t, "done")
        /\ UNCHANGED metrics
  /\ UNCHANGED <<op, fetched, upload, store, caching, history>>

-----------------------------------------------------------------------------
(***************************************************************************)
(* head_object after a miss: ask the upstream, spawn the prefetch.         *)
(***************************************************************************)
SpawnPrefetch(r, k) ==
  /\ pc' = [pc EXCEPT ![Handler(r)] = "done", ![Prefetch(r)] = "acquire"]
  /\ op' = [op EXCEPT ![Prefetch(r)] =
              [method |-> "PREFETCH", key |-> k, body |-> None, ctype |-> None,
               prefetch |-> FALSE, auth |-> TRUE, decodes |-> TRUE]]

HeadOk(r) ==
  LET t == Handler(r)
      k == op[t].key
  IN  /\ pc[t] = "head" /\ store[Location[k]] # None
      /\ resp' = [resp EXCEPT ![t] = Reply(200, store[Location[k]], Guess[k])]
      /\ \/ op[t].prefetch /\ SpawnPrefetch(r, k)
         \/ ~op[t].prefetch /\ pc' = [pc EXCEPT ![t] = "done"] /\ UNCHANGED op
      /\ Count({"upstream_ok", "requests"})
      /\ UNCHANGED <<table, fetched, upload, store, caching, history>>

\* The error is returned from inside the block: inc_requests is not reached.
HeadErr(r) ==
  LET t == Handler(r)
  IN  /\ pc[t] = "head"
      /\ \/ store[At(t)] = None /\ End(t, Fail(NotFound))
         \/ End(t, Fail(BadGateway))
      /\ Count({"upstream_err"})
      /\ UNCHANGED <<table, op, fetched, upload, store, caching, history>>

-----------------------------------------------------------------------------
(***************************************************************************)
(* put_object: open a multipart upload, stream the body into it, finish,   *)
(* and cache what was uploaded.  The upstream applies a finish request on  *)
(* its own time: before the answer, after a lost answer, or after the      *)
(* client has gone.                                                        *)
(***************************************************************************)
PutInit(t) ==
  /\ pc[t] = "init_upload"
  /\ \/ Goto(t, "upload") /\ UNCHANGED metrics
     \/ \E e \in Errors : /\ End(t, Fail(e))
                          /\ Count({"upstream_err", "requests"})
  /\ UNCHANGED <<table, op, fetched, upload, store, caching, history>>

\* Mutant: the body is cached as soon as it has been read.
PutBodyCached(t) ==
  /\ pc[t] = "upload"
  /\ upload' = [upload EXCEPT ![t] = "sent"]
  /\ CacheUnlessCapped(op[t].key, op[t].body, PutType(op[t]))
  /\ Goto(t, "finish")
  /\ UNCHANGED <<table, op, fetched, store, metrics, history>>

PutBody(t) ==
  /\ pc[t] = "upload"
  /\ upload' = [upload EXCEPT ![t] = "sent"]
  /\ Goto(t, "finish")
  /\ UNCHANGED <<table, op, fetched, store, caching, metrics, history>>

\* The body stream fails: the upload is aborted.
PutBodyErr(t) ==
  /\ pc[t] = "upload"
  /\ End(t, Fail(400))
  /\ Count({"requests"})
  /\ UNCHANGED <<table, op, fetched, upload, store, caching, history>>

ApplyUpload(t) ==
  /\ upload[t] = "sent"
  /\ upload' = [upload EXCEPT ![t] = "applied"]
  /\ store' = [store EXCEPT ![At(t)] = op[t].body]
  /\ seen' = [u \in Tasks |-> IF Live(u) /\ At(u) = At(t)
                              THEN seen[u] \cup {op[t].body} ELSE seen[u]]
  /\ barred' = [u \in Tasks |-> IF Live(u) /\ At(u) = At(t)
                                THEN barred[u] \ {op[t].body} ELSE barred[u]]
  /\ UNCHANGED <<table, op, pc, fetched, resp, caching, metrics, runs>>

\* Mutant: an upload is not written through to the cache.
PutOkUncached(t) ==
  /\ pc[t] = "finish" /\ upload[t] = "applied"
  /\ End(t, Reply(200, None, None))
  /\ Count({"upstream_ok", "requests"})
  /\ UNCHANGED <<table, op, fetched, upload, store, caching, history>>

PutOk(t) ==
  /\ pc[t] = "finish" /\ upload[t] = "applied"
  /\ CacheUnlessCapped(op[t].key, op[t].body, PutType(op[t]))
  /\ End(t, Reply(200, None, None))
  /\ Count({"upstream_ok", "requests"})
  /\ UNCHANGED <<table, op, fetched, upload, store, history>>

\* Mutant: the body is cached although finish failed.
PutErrCached(t) ==
  /\ pc[t] = "finish"
  /\ \E e \in Errors : End(t, Fail(e))
  /\ CacheUnlessCapped(op[t].key, op[t].body, PutType(op[t]))
  /\ Count({"upstream_err", "requests"})
  /\ UNCHANGED <<table, op, fetched, upload, store, history>>

PutErr(t) ==
  /\ pc[t] = "finish"
  /\ \E e \in Errors : End(t, Fail(e))
  /\ Count({"upstream_err", "requests"})
  /\ UNCHANGED <<table, op, fetched, upload, store, caching, history>>

-----------------------------------------------------------------------------
(***************************************************************************)
(* The client goes away and the server drops the handler's future at the   *)
(* await it is suspended at.  Between acquire and the creation of the      *)
(* Notified future there is none, so a "follower" cannot be dropped.  The  *)
(* prefetch task is spawned and outlives its request.                      *)
(***************************************************************************)
Cancel(r) ==
  LET t == Handler(r)
  IN  /\ Live(t)
      /\ Goto(t, "cancelled")
      /\ \/ I!DropGuard(t)
         \/ step[t] \in {"waiting", "woken"} /\ I!Abandon(t)
         \/ step[t] \in {"idle", "done"} /\ UNCHANGED table
      /\ UNCHANGED <<op, fetched, upload, store, caching, metrics, history>>

SpawnedRelease(t) ==
  /\ I!SpawnedRelease(t)
  /\ UNCHANGED <<op, pc, fetched, upload, resp, store, caching, metrics, history>>

Evict(k) ==
  /\ k \in Lossy /\ cache[k] # None
  /\ cache' = [cache EXCEPT ![k] = None]
  /\ UNCHANGED <<table, op, pc, fetched, upload, resp, store, disk, inserts,
                 metrics, history>>

\* The process is killed and started again: every task is gone, the table, the
\* metrics and the cache in memory are new, and a key finds what the disk tier
\* recovers, if anything (RecoverMode::Quiet).  The upstream may still apply an
\* upload it was sent.
Restart ==
  /\ restarts < MaxRestarts
  /\ restarts' = restarts + 1
  /\ I!Reset
  /\ pc' = [t \in Tasks |-> IF Live(t) THEN "cancelled" ELSE pc[t]]
  /\ fetched' = [t \in Tasks |-> None]
  /\ past' = {t \in Tasks : pc[t] # "new"}
  /\ cache' \in {c \in [Keys -> CacheEntries \cup {None}] :
                   \A k \in Keys : c[k] \in disk[k] \cup {None}}
  /\ inserts' = 0
  /\ metrics' = [c \in Counters |-> 0]
  /\ seen' = [t \in Tasks |-> {}] /\ barred' = [t \in Tasks |-> {}]
  /\ UNCHANGED <<op, upload, resp, store, disk>>

-----------------------------------------------------------------------------
\* A request of the menu arrives.
Request(t, o) ==
  \/ Undecodable(t, o) \/ Unauthorized(t, o) \/ InvalidPath(t, o)
  \/ StartRead(t, o) \/ StartPut(t, o) \/ PutUnknownBucket(t, o)

\* Task t, polled by the runtime, runs to its next await.
Poll(t) ==
  \/ CacheHit(t) \/ GetMiss(t) \/ HeadMiss(t)
  \/ Acquire(t) \/ PrefetchSkip(t) \/ Register(t) \/ Resume(t) \/ Recheck(t)
  \/ FetchUnknownBucket(t) \/ FetchGet(t) \/ FetchBytes(t)
  \/ Complete(t) \/ CompleteRelease(t) \/ SpawnedRelease(t)
  \/ PutInit(t) \/ PutBody(t) \/ PutBodyErr(t) \/ PutOk(t) \/ PutErr(t)

PollHead(r) == HeadOk(r) \/ HeadErr(r)

Next ==
  \/ \E r \in Requests :
       \/ \E o \in Ops : Request(Handler(r), o)
       \/ PollHead(r)
       \/ Cancel(r)
  \/ \E t \in Tasks : Poll(t) \/ ApplyUpload(t)
  \/ \E k \in Keys : Evict(k)
  \/ Restart

Spec == Init /\ [][Next]_vars

(***************************************************************************)
(* The runtime polls runnable tasks again, and every upstream call returns *)
(* (object_store's client times out).  Requests, disconnects, evictions    *)
(* and the upstream's late application of an upload are not fair.          *)
(***************************************************************************)
Fairness ==
  /\ \A t \in Tasks : WF_vars(Poll(t))
  /\ \A r \in Requests : WF_vars(PollHead(r))

FairSpec == Spec /\ Fairness

-----------------------------------------------------------------------------
(***************************************************************************)
(* Properties                                                              *)
(***************************************************************************)
Places == {"new", "lookup", "acquire", "wait", "recheck", "fetch", "bytes",
           "complete", "release", "head", "init_upload", "upload", "finish",
           "done", "cancelled"}

\* t was answered by the process that runs now.
Answered(t) == pc[t] = "done" /\ op[t].method # "PREFETCH" /\ t \notin past

\* Every variable keeps its type, the table's variables keep Inflight's, and a
\* handler does not end without an answer.
TypeOK ==
  /\ I!TypeOK
  /\ op       \in [Tasks -> OpType \cup {None}]
  /\ pc       \in [Tasks -> Places]
  /\ fetched  \in [Tasks -> Results \cup {None}]
  /\ upload   \in [Tasks -> {"none", "sent", "applied"}]
  /\ resp     \in [Tasks -> Replies \cup {None}]
  /\ store    \in [Locations -> Values \cup {None}]
  /\ cache    \in [Keys -> CacheEntries \cup {None}]
  /\ disk     \in [Keys -> SUBSET CacheEntries]
  /\ restarts \in 0..MaxRestarts
  /\ inserts  \in Nat
  /\ metrics  \in [Counters -> Nat]
  /\ seen     \in [Tasks -> SUBSET (Values \cup {None})]
  /\ barred   \in [Tasks -> SUBSET (Values \cup {None})]
  /\ past     \subseteq Tasks
  /\ \A t \in Tasks : Answered(t) => resp[t] # None

\* Contents the upstream has held at l.
Stored(l) ==
  {InitStore[l]} \cup
  {op[t].body : t \in {u \in Tasks : upload[u] = "applied" /\ At(u) = l}}

\* Neither the cache nor an answer holds anything the upstream never held under
\* that key: not the body of a PUT that failed, was cut short or was abandoned
\* (handler.rs:378-463), not the object of another location;
\* a key that is another name of the object included.
NothingInvented ==
  /\ \A k \in Keys : cache[k] # None => cache[k].body \in Stored(Location[k])
  /\ \A t \in Tasks :
       Answered(t) /\ resp[t].body # None => resp[t].body \in Stored(At(t))

\* The types v may have under k: what a fetch makes of it, or what an upload of
\* these very contents to this key said.
TypesOf(k, v) ==
  {Resolve(k, v)} \cup
  {PutType(op[t]) : t \in {u \in Tasks : /\ upload[u] = "applied" /\ op[u].key = k
                                         /\ op[u].body = v}}

\* A body is never paired with the content type of other contents, in the cache
\* or in an answer, although uploads and fetches of the key overlap; only an
\* upload can leave a body without a type (handler.rs:457-462, 556-598, 722-733).
TypesBelong ==
  /\ \A k \in Keys : cache[k] # None => cache[k].ctype \in TypesOf(k, cache[k].body)
  /\ \A t \in Tasks :
       Answered(t) /\ resp[t].body # None =>
         \/ resp[t].ctype \in TypesOf(op[t].key, resp[t].body)
         \/ op[t].method = "HEAD" /\ resp[t].ctype = Guess[op[t].key]

\* While objects are immutable, as README.md:11 assumes, the cache agrees with
\* the upstream whatever fetches, uploads, disconnects and restarts interleave.
CacheAgreesWithStore ==
  \A k \in Keys : cache[k] # None => cache[k].body = store[Location[k]]

\* While objects are immutable, as README.md:11 assumes, nobody can tell cachegate
\* from a gateway that asks the upstream for every download at the moment it
\* answers: neither the cache nor the flights of others, neither disconnects nor
\* a restart over the disk tier show in the answers.
P == INSTANCE Proxy WITH
  applied <- {r \in Requests : upload[Handler(r)] = "applied"},
  asked   <- [r \in Requests |-> op[Handler(r)]],
  answer  <- [r \in Requests |-> resp[Handler(r)]]
ImplementsProxy == P!Spec

\* A GET or HEAD answered 200 carries contents the upstream held at some moment
\* while that request was being served, also when they come from the cache or
\* from another request's flight (handler.rs:142-190).
FreshReads ==
  \A t \in Tasks :
    Answered(t) /\ op[t].method # "PUT" /\ resp[t].status = 200
      => resp[t].body \in seen[t]

\* Read your writes: a GET or HEAD sent after a PUT of the same key was answered
\* 200 neither returns contents that PUT replaced nor is told that the object
\* does not exist, unless a later PUT brought that state back.
AckedWritesVisible ==
  \A t \in Tasks :
    Answered(t) /\ op[t].method # "PUT" /\ resp[t].status \in {200, NotFound}
      => resp[t].body \notin barred[t]

\* t has an upstream GET of k under way.
Fetching(t, k) == pc[t] \in {"fetch", "bytes"} /\ op[t].key = k

\* Two upstream GETs of one key overlap only after a leader was cancelled, and
\* then at most one of them holds the guard; the others are its followers, told
\* None (handler.rs:180-189).
OverlapNeedsLostLeader ==
  \A t, u \in Tasks, k \in Keys :
    Fetching(t, k) /\ Fetching(u, k) /\ t # u =>
      \E f \in {t, u} : entry[f] # None /\ pc[entry[f]] = "cancelled"

\* Singleflight: at most one upstream GET per key at any time.
AtMostOneFetch ==
  \A t, u \in Tasks, k \in Keys : Fetching(t, k) /\ Fetching(u, k) => t = u

\* A leader publishes a cacheable object only after caching it, so nobody can
\* find the flight gone and the cache still empty (handler.rs:159-160, 567-572).
CachedBeforeLanding ==
  \A t \in Tasks :
    ( /\ entry[t] = None /\ step[t] \in {"stored", "done"}
      /\ result[t] \in Successes /\ result[t].body \notin Oversize
      /\ key[t] \notin Lossy )
    => cache[key[t]] # None

\* Answers that return before inc_requests: undecodable requests, HEAD's unknown
\* bucket and upstream errors, PUT's unknown bucket (handler.rs:48-55, 264-267,
\* 291, 359-362).
SkipsCounting(t) ==
  \/ ~op[t].decodes
  \/ op[t].method = "HEAD" /\ resp[t].status \in Errors
  \/ op[t].method = "PUT" /\ resp[t].status = NotFound /\ op[t].key \in Unrouted

\* requests_total counts exactly the answers of authenticated requests, once
\* each, early returns excepted; a lookup counts once, as a hit or as a miss,
\* although a follower looks twice (handler.rs:142-150, 171, 210).
CountersReconcile ==
  LET answered == {t \in Tasks : Answered(t)}
      lookedUp == {t \in Tasks \ past :
                     /\ pc[t] \notin {"new", "lookup", "cancelled"}
                     /\ op[t].method \in {"GET", "HEAD"}
                     /\ pc[t] = "done" => resp[t].status \notin {400, 401}}
      cut == {t \in Tasks \ past : pc[t] = "cancelled"}
  IN  /\ metrics["auth_fail"] =
           Cardinality({t \in answered : resp[t].status = 401})
      /\ metrics["requests"] =
           Cardinality({t \in answered : resp[t].status # 401 /\ ~SkipsCounting(t)})
      /\ metrics["cache_hit"] + metrics["cache_miss"] - Cardinality(lookedUp)
           \in 0..Cardinality(cut)

\* The fields of the /stats answer the properties speak of.
Stats == [requests_total  |-> metrics["requests"],
          auth_fail_total |-> metrics["auth_fail"],
          cache_entries   |-> inserts]

\* What the help text of cachegate_requests_total says (metrics.rs:63).
EveryAnswerCounted ==
  Stats.requests_total + Stats.auth_fail_total >=
    Cardinality({t \in Tasks : Answered(t)})

\* The cache size /stats reports (handler.rs:628-631) is the number of entries.
StatsReportsEntries ==
  Stats.cache_entries = Cardinality({k \in Keys : cache[k] # None})

\* t waits for a notification that has already been sent.
Stranded(t) == step[t] = "waiting" /\ inner[key[t]] # entry[t]

\* Waiting does not chain: whoever waits, and has not missed the wake-up, waits for
\* a leader that has its upstream call or its own release to get on with, or for
\* the task that releases what a lost leader held, and never for another waiter.
\* Two requests cannot end up waiting for each other, also not when a follower of
\* a lost leader fetches beside a new flight (handler.rs:146-190, 787-803,
\* inflight.rs:66-89).
WaitsOnARunner ==
  \A t \in Tasks :
    step[t] = "waiting" /\ ~Stranded(t) =>
      \/ step[entry[t]] = "dropped"
      \/ pc[entry[t]] \in {"fetch", "bytes", "complete", "release"}

\* Every request is answered and every prefetch ends, unless the client leaves;
\* the one way to hang is to have missed the wake-up of a flight.
AnsweredUnlessStranded ==
  \A t \in Tasks : Live(t) ~> (~Live(t) \/ Stranded(t))
=============================================================================
