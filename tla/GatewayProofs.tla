---------------------------- MODULE GatewayProofs ---------------------------
(***************************************************************************)
(* Theorems about Gateway, for every set of requests, keys and contents:   *)
(* what the proofs of Inflight say of its tasks holds of the handlers that *)
(* use it, upstream fetches overlap only after a lost leader, and nothing  *)
(* is cached or answered that the upstream did not hold.                   *)
(***************************************************************************)
EXTENDS Gateway, TLAPS

IP == INSTANCE InflightProofs

\* What the proofs need to know of the types.
Typed ==
  /\ op      \in [Tasks -> OpType \cup {None}]
  /\ pc      \in [Tasks -> Places]
  /\ fetched \in [Tasks -> Results \cup {None}]
  /\ upload  \in [Tasks -> {"none", "sent", "applied"}]
  /\ resp    \in [Tasks -> Replies \cup {None}]
  /\ store   \in [Locations -> Values \cup {None}]
  /\ cache   \in [Keys -> CacheEntries \cup {None}]
  /\ disk    \in [Keys -> SUBSET CacheEntries]

\* How far a task is in the table, at each await of its handler.
PlacedAt(t) ==
  /\ pc[t] # "new" => op[t] \in OpType
  /\ pc[t] \in {"new", "lookup", "acquire", "head", "init_upload", "upload", "finish"}
       => step[t] = "idle"
  /\ pc[t] = "head" => op[t].method = "HEAD"
  /\ pc[t] = "wait" => step[t] \in {"follower", "waiting", "woken"}
  /\ pc[t] \in {"fetch", "bytes"} =>
       \/ step[t] = "leader"
       \/ step[t] = "done" /\ entry[t] # None /\ got[t] = None
  /\ pc[t] \in {"bytes", "recheck"} => fetched[t] \in Successes
  /\ pc[t] \in {"complete", "release"} => fetched[t] \in Results
  /\ pc[t] = "complete" => step[t] = "leader"
  /\ pc[t] = "release" => step[t] = "stored"
  /\ step[t] = "leader" => pc[t] \in {"fetch", "bytes", "complete"}
  /\ step[t] = "stored" => pc[t] = "release"
  /\ step[t] # "idle" => key[t] = op[t].key
  /\ step[t] \in {"dropped", "gone"} /\ entry[t] = None => pc[t] = "cancelled"

Placed == \A t \in Tasks : PlacedAt(t)

\* A prefetch task is new until its HEAD handler spawns it, and is no request.
PrefetchesFollow ==
  \A r \in Requests :
    /\ pc[Handler(r)] \in {"new", "lookup", "head"} => pc[Prefetch(r)] = "new"
    /\ pc[Prefetch(r)] # "new" => op[Prefetch(r)].method = "PREFETCH"

\* Uploads belong to PUT handlers, and each handler completes one at most.
Uploading ==
  \A t \in Tasks :
    /\ upload[t] # "none" => pc[t] \in {"finish", "done", "cancelled"}
    /\ pc[t] \in {"init_upload", "upload", "finish"} \/ upload[t] # "none"
         => op[t].method = "PUT" /\ op[t].body \in Values

\* Only a prefetch ends without an answer.
Responded ==
  \A t \in Tasks : pc[t] = "done" => resp[t] # None \/ op[t].method = "PREFETCH"

\* What the upstream has held, and where.
Held == {p \in Locations \X (Values \cup {None}) : p[2] \in Stored(p[1])}

\* Keys with contents and a type the upstream and the code account for.
Genuine ==
  {p \in Keys \X Values \X (CTypes \cup {None}) :
     p[2] \in Stored(Location[p[1]]) /\ p[3] \in TypesOf(p[1], p[2])}

\* The answer or entry x is genuine under k.
IsGenuine(x, k) == <<k, x.body, x.ctype>> \in Genuine

\* Whatever the handlers hand to each other, in the cache, through the table or
\* from one await to the next, is genuine.
SharedGenuine ==
  /\ \A l \in Locations : <<l, store[l]>> \in Held
  /\ \A k \in Keys : cache[k] # None => IsGenuine(cache[k], k)
  /\ \A k \in Keys : \A e \in disk[k] : IsGenuine(e, k)

TaskGenuine(t) ==
  /\ fetched[t] \in Successes => IsGenuine(fetched[t], op[t].key)
  /\ result[t] \in Successes => IsGenuine(result[t], key[t])
  /\ got[t] \in Successes => IsGenuine(got[t], key[t])
  /\ resp[t] # None /\ resp[t].body # None =>
       \/ IsGenuine(resp[t], op[t].key)
       \/ /\ op[t].method = "HEAD" /\ resp[t].ctype = Guess[op[t].key]
          /\ <<At(t), resp[t].body>> \in Held

AllGenuine == SharedGenuine /\ \A t \in Tasks : TaskGenuine(t)

\* What a task has not reached yet is unset.
Untouched ==
  \A t \in Tasks :
    /\ pc[t] = "new" => fetched[t] = None /\ resp[t] = None
    /\ step[t] = "idle" => result[t] = None

\* A follower follows a flight of its own key.
FollowsOwnKey == \A t \in Tasks : entry[t] # None => key[entry[t]] = key[t]

\* A leader has cached what it is about to publish.
CachedBeforeComplete ==
  \A t \in Tasks :
    ( /\ pc[t] = "complete" /\ fetched[t] \in Successes
      /\ fetched[t].body \notin Oversize /\ op[t].key \notin Lossy )
    => cache[op[t].key] # None

IInv ==
  /\ IP!IInv
  /\ Typed /\ Placed /\ PrefetchesFollow /\ Uploading /\ Responded
  /\ Untouched /\ FollowsOwnKey /\ AllGenuine
  /\ CachedBeforeComplete /\ CachedBeforeLanding

-----------------------------------------------------------------------------
(***************************************************************************)
(* Facts about the constant operators                                      *)
(***************************************************************************)
\* The tasks of a request are distinct, and nobody else's.
LEMMA TaskFacts ==
  /\ \A r \in Requests : /\ Handler(r) \in Tasks /\ Prefetch(r) \in Tasks
                         /\ Handler(r) # Prefetch(r)
  /\ \A r, q \in Requests : /\ Handler(r) # Prefetch(q)
                            /\ Handler(r) = Handler(q) => r = q
                            /\ Prefetch(r) = Prefetch(q) => r = q
BY DEF Tasks, Handler, Prefetch

\* Results and answers, and what can be read off them (handler.rs:654-720, 851-859).
LEMMA ReplyFacts ==
  /\ Successes \subseteq Results /\ Results \subseteq Replies
  /\ \A e \in CacheEntries : /\ Found(e) \in Successes
                             /\ Found(e).body = e.body /\ Found(e).ctype = e.ctype
                             /\ e.body \in Values /\ e.ctype \in CTypes \cup {None}
  /\ \A s \in {NotFound, BadGateway} : Fail(s) \in Results \ Successes
  /\ \A s \in {400, 401, NotFound, BadGateway} : Fail(s) \in Replies /\ Fail(s).body = None
  /\ Reply(200, None, None) \in Replies /\ Reply(200, None, None).body = None
  /\ \A v \in Values, c \in CTypes \cup {None} :
       LET x == Reply(200, v, c)
       IN  x \in Successes /\ x.body = v /\ x.ctype = c
  /\ \A x \in Successes : x.body \in Values /\ x.ctype \in CTypes \cup {None}
  /\ \A x \in Results \ Successes : x.body = None
<1>1. \A e \in CacheEntries : e.body \in Values /\ e.ctype \in CTypes \cup {None}
  BY DEF CacheEntries
<1>2. \A e \in CacheEntries : /\ Found(e) \in Successes
                              /\ Found(e).body = e.body /\ Found(e).ctype = e.ctype
  BY DEF Successes, Found, Reply
<1>3. \A v \in Values, c \in CTypes \cup {None} :
        LET x == Reply(200, v, c)
        IN  x \in Successes /\ x.body = v /\ x.ctype = c
  <2>1. SUFFICES ASSUME NEW v \in Values, NEW c \in CTypes \cup {None}
                 PROVE  Reply(200, v, c) \in Successes
    BY DEF Reply
  <2>2. [body |-> v, ctype |-> c] \in CacheEntries
    BY DEF CacheEntries
  <2>3. Found([body |-> v, ctype |-> c]) = Reply(200, v, c)
    BY DEF Found
  <2>. QED  BY <2>2, <2>3, <1>2
<1>4. \A x \in Successes : /\ x.body \in Values /\ x.ctype \in CTypes \cup {None}
                           /\ x.status = 200 /\ x \in Replies
  BY <1>1 DEF Successes, Found, Reply, Replies
<1>5. \A s \in {400, 401, NotFound, BadGateway} : Fail(s) \in Replies /\ Fail(s).body = None
  BY DEF Fail, Reply, Replies, NotFound, BadGateway
<1>6. \A s \in {NotFound, BadGateway} : Fail(s) \in Results \ Successes
  BY <1>4, GatewayAssumption DEF Results, Errors, Fail, Reply
<1>7. Successes \subseteq Results /\ \A x \in Results \ Successes : x.body = None
  BY DEF Results, Fail, Reply
<1>8. Results \subseteq Replies
  BY <1>4, <1>5 DEF Results, Errors
<1>9. Reply(200, None, None) \in Replies /\ Reply(200, None, None).body = None
  BY DEF Reply, Replies
<1>. QED  BY <1>1, <1>2, <1>3, <1>4, <1>5, <1>6, <1>7, <1>8, <1>9

\* Requests, and the content type an upload caches (handler.rs:722-733).
LEMMA OpFacts ==
  /\ \A o \in Ops : o \in OpType /\ (o.method = "PUT" => o.body \in Values)
  /\ \A o \in OpType : /\ o.key \in Keys /\ o.body \in Values \cup {None}
                       /\ PutType(o) \in CTypes \cup {None}
  /\ \A k \in Keys : /\ Location[k] \in Locations
                     /\ Guess[k] \in CTypes \cup {None}
                     /\ \A v \in Values : Resolve(k, v) \in CTypes \cup {None}
BY GatewayAssumption DEF OpType, PutType, Resolve

\* The markers are none of the values they stand beside.
LEMMA MarkerFacts ==
  /\ None \notin Tasks /\ None \notin Replies /\ None \notin Results
  /\ None \notin Successes /\ None \notin CacheEntries
  /\ None \notin OpType /\ None \notin Values
  /\ Open \notin Results \cup {None}
BY MarkerAssumption, GatewayAssumption, ReplyFacts

-----------------------------------------------------------------------------
(***************************************************************************)
(* Types                                                                   *)
(***************************************************************************)
\* Why an arrival is refused at once, by the status it is refused with
\* (handler.rs:42-111, 359-364).
RefusedAt(o, s) ==
  \/ s = 400 /\ (~o.decodes \/ (Admitted(o) /\ o.key \in BadPaths))
  \/ s = 401 /\ o.decodes /\ ~o.auth
  \/ s = NotFound /\ o.method = "PUT" /\ Admitted(o) /\ o.key \notin BadPaths

\* What an arrival does to its own task, and that it touches no other: it is
\* answered with an error at once or reaches the first await of its handler
\* (handler.rs:42-111, 359-364).
LEMMA RequestMoves ==
  ASSUME Typed, NEW r \in Requests, NEW o \in Ops, Request(Handler(r), o)
  PROVE  LET t == Handler(r)
         IN  /\ t \in Tasks /\ o \in OpType /\ pc[t] = "new" /\ Arrive(t, o)
             /\ UNCHANGED <<table, fetched, upload, store, caching, runs>>
             /\ op' = [op EXCEPT ![t] = o] /\ op'[t] = o /\ pc' = [pc EXCEPT ![t] = pc'[t]]
             /\ \A u \in Tasks \ {t} : op'[u] = op[u] /\ pc'[u] = pc[u] /\ resp'[u] = resp[u]
             /\ \/ /\ pc'[t] = "lookup" /\ resp' = resp
                   /\ o.method # "PUT" /\ Admitted(o) /\ o.key \notin BadPaths
                \/ /\ pc'[t] = "init_upload" /\ resp' = resp
                   /\ o.method = "PUT" /\ Admitted(o) /\ o.key \notin BadPaths \cup Unrouted
                \/ /\ pc'[t] = "done"
                   /\ \E s \in {400, 401, NotFound} :
                        /\ resp' = [resp EXCEPT ![t] = Fail(s)] /\ resp'[t] = Fail(s)
                        /\ RefusedAt(o, s)
<1>. DEFINE t == Handler(r)
            Moves == pc' = [pc EXCEPT ![t] = pc'[t]]
                     /\ \A u \in Tasks \ {t} : pc'[u] = pc[u] /\ resp'[u] = resp[u]
            Reads == /\ pc'[t] = "lookup" /\ resp' = resp
                     /\ o.method # "PUT" /\ Admitted(o) /\ o.key \notin BadPaths
            Puts  == /\ pc'[t] = "init_upload" /\ resp' = resp
                     /\ o.method = "PUT" /\ Admitted(o) /\ o.key \notin BadPaths \cup Unrouted
            Fails == /\ pc'[t] = "done"
                     /\ \E s \in {400, 401, NotFound} :
                          /\ resp' = [resp EXCEPT ![t] = Fail(s)] /\ resp'[t] = Fail(s)
                          /\ RefusedAt(o, s)
<1>1. t \in Tasks /\ o \in OpType
  BY TaskFacts, OpFacts
<1>2. Arrive(t, o)
  BY DEF Request, Undecodable, Unauthorized, InvalidPath, StartRead, StartPut,
         PutUnknownBucket
<1>3. /\ pc[t] = "new" /\ op' = [op EXCEPT ![t] = o] /\ op'[t] = o
      /\ UNCHANGED <<table, fetched, upload, store, caching, runs>>
      /\ \A u \in Tasks \ {t} : op'[u] = op[u]
  BY <1>1, <1>2 DEF Arrive, Typed
<1>4. ASSUME StartRead(t, o) PROVE Moves /\ Reads
  <2>1. /\ o.method # "PUT" /\ Admitted(o) /\ o.key \notin BadPaths
        /\ pc' = [pc EXCEPT ![t] = "lookup"] /\ resp' = resp
    BY <1>4 DEF StartRead, Goto
  <2>2. /\ pc'[t] = "lookup" /\ pc' = [pc EXCEPT ![t] = pc'[t]]
        /\ \A u \in Tasks \ {t} : pc'[u] = pc[u] /\ resp'[u] = resp[u]
    BY <1>1, <2>1 DEF Typed
  <2>. QED  BY <2>1, <2>2
<1>5. ASSUME StartPut(t, o) PROVE Moves /\ Puts
  <2>1. /\ o.method = "PUT" /\ Admitted(o) /\ o.key \notin BadPaths \cup Unrouted
        /\ pc' = [pc EXCEPT ![t] = "init_upload"] /\ resp' = resp
    BY <1>5 DEF StartPut, Goto
  <2>2. /\ pc'[t] = "init_upload" /\ pc' = [pc EXCEPT ![t] = pc'[t]]
        /\ \A u \in Tasks \ {t} : pc'[u] = pc[u] /\ resp'[u] = resp[u]
    BY <1>1, <2>1 DEF Typed
  <2>. QED  BY <2>1, <2>2
<1>6. ASSUME Undecodable(t, o) \/ Unauthorized(t, o) \/ InvalidPath(t, o)
               \/ PutUnknownBucket(t, o)
      PROVE  Moves /\ Fails
  <2>1. PICK s \in {400, 401, NotFound} : End(t, Fail(s)) /\ RefusedAt(o, s)
    <3>1. CASE Undecodable(t, o)
      BY <3>1 DEF Undecodable, RefusedAt
    <3>2. CASE Unauthorized(t, o)
      BY <3>2 DEF Unauthorized, RefusedAt
    <3>3. CASE InvalidPath(t, o)
      BY <3>3 DEF InvalidPath, RefusedAt
    <3>4. CASE PutUnknownBucket(t, o)
      BY <3>4 DEF PutUnknownBucket, RefusedAt
    <3>. QED  BY <1>6, <3>1, <3>2, <3>3, <3>4
  <2>2. pc' = [pc EXCEPT ![t] = "done"] /\ resp' = [resp EXCEPT ![t] = Fail(s)]
    BY <2>1 DEF End
  <2>3. pc'[t] = "done" /\ pc' = [pc EXCEPT ![t] = pc'[t]] /\ resp'[t] = Fail(s)
    BY <1>1, <2>2 DEF Typed
  <2>4. \A u \in Tasks \ {t} : pc'[u] = pc[u] /\ resp'[u] = resp[u]
    BY <1>1, <2>2 DEF Typed
  <2>. QED  BY <2>1, <2>2, <2>3, <2>4
<1>7. Moves /\ (Reads \/ Puts \/ Fails)
  <2>. HIDE DEF Moves, Reads, Puts, Fails
  <2>. QED  BY <1>4, <1>5, <1>6 DEF Request
<1>. QED  BY <1>1, <1>2, <1>3, <1>7

\* An arriving request is recorded as it is (handler.rs:44-101).
LEMMA RequestTyped ==
  ASSUME Typed, NEW r \in Requests, NEW o \in Ops, Request(Handler(r), o)
  PROVE  Typed'
<1>. DEFINE t == Handler(r)
<1>1. /\ t \in Tasks /\ o \in OpType /\ op' = [op EXCEPT ![t] = o]
      /\ UNCHANGED <<fetched, upload, store, cache, disk>>
  BY RequestMoves DEF caching
<1>2. pc' = [pc EXCEPT ![t] = pc'[t]] /\ pc'[t] \in Places
  BY RequestMoves DEF Places
<1>3. resp' = resp \/ \E x \in Replies : resp' = [resp EXCEPT ![t] = x]
  <2>1. \A s \in {400, 401, NotFound} : Fail(s) \in Replies
    BY ReplyFacts DEF NotFound
  <2>. QED  BY <2>1, RequestMoves
<1>. QED  BY <1>1, <1>2, <1>3 DEF Typed

\* An entry goes into the cache as it is, or not at all (foyer.rs:111-119).
LEMMA CachingTyped ==
  ASSUME Typed, NEW k \in Keys, NEW v \in Values, NEW c \in CTypes \cup {None},
         CacheUnlessCapped(k, v, c)
  PROVE  /\ cache' \in [Keys -> CacheEntries \cup {None}]
         /\ disk' \in [Keys -> SUBSET CacheEntries]
<1>1. [body |-> v, ctype |-> c] \in CacheEntries
  BY DEF CacheEntries
<1>. QED  BY <1>1 DEF Typed, CacheUnlessCapped, CachePut, caching

\* A step of a handler that only moves it, and maybe answers.
LEMMA MoveTyped ==
  ASSUME Typed, NEW t \in Tasks, NEW where \in Places, NEW x \in Replies \cup {None},
         pc' = [pc EXCEPT ![t] = where],
         resp' = [resp EXCEPT ![t] = x] \/ resp' = resp,
         UNCHANGED <<op, upload, store, cache, disk>>,
         fetched' = fetched
           \/ \E y \in Results \cup {None} : fetched' = [fetched EXCEPT ![t] = y]
  PROVE  Typed'
BY DEF Typed

\* The steps of the runtime's tasks keep the types.
LEMMA PollTyped ==
  ASSUME IInv, NEW t \in Tasks, Poll(t)
  PROVE  Typed'
<1>t. Typed /\ (pc[t] # "new" => op[t] \in OpType)
  BY DEF IInv, Placed, PlacedAt
<1>1. CASE CacheHit(t)
  <2>1. op[t].key \in Keys /\ cache[op[t].key] \in CacheEntries
    BY <1>1, <1>t, OpFacts DEF CacheHit, Typed
  <2>2. Found(cache[op[t].key]) \in Replies
    BY <2>1, ReplyFacts
  <2>. QED  BY <1>1, <1>t, <2>2, MoveTyped DEF CacheHit, End, caching, Places
<1>2. CASE GetMiss(t)
  BY <1>2, <1>t, MoveTyped DEF GetMiss, Goto, caching, Places
<1>3. CASE HeadMiss(t)
  BY <1>3, <1>t, MoveTyped, ReplyFacts DEF HeadMiss, Goto, End, caching, Places
<1>4. CASE Acquire(t) \/ PrefetchSkip(t)
  BY <1>4, <1>t, MoveTyped DEF Acquire, PrefetchSkip, Goto, caching, Places
<1>5. CASE Register(t) \/ SpawnedRelease(t)
  BY <1>5, <1>t DEF Register, SpawnedRelease, caching, Typed
<1>6. CASE Resume(t)
  <2>1. got'[t] \in Results \cup {None}
    BY <1>6, MarkerFacts DEF IInv, Resume, I!ReadResult, IP!IInv, IP!TypeOK, Placed, PlacedAt, IP!Roles
  <2>. QED
    BY <1>6, <2>1, <1>t, ReplyFacts DEF Resume, Goto, End, caching, Places, Typed
<1>7. CASE Recheck(t)
  <2>1. op[t].key \in Keys /\ cache[op[t].key] \in CacheEntries \cup {None}
    BY <1>7, <1>t, OpFacts DEF Recheck, Typed
  <2>2. CASE cache[op[t].key] # None /\ End(t, Found(cache[op[t].key]))
    <3>1. Found(cache[op[t].key]) \in Replies
      BY <2>1, <2>2, ReplyFacts
    <3>. QED  BY <1>7, <2>2, <3>1, <1>t DEF Recheck, End, caching, Places, Typed
  <2>3. CASE End(t, fetched[t])
    <3>1. fetched[t] \in Replies
      BY <1>7, ReplyFacts DEF IInv, Recheck, Placed, PlacedAt
    <3>. QED  BY <1>7, <2>3, <3>1, <1>t DEF Recheck, End, caching, Places, Typed
  <2>. QED  BY <1>7, <2>2, <2>3 DEF Recheck
<1>8. CASE FetchUnknownBucket(t) \/ FetchGet(t)
  <2>1. ASSUME NEW x \in Results, NEW C, FetchReturns(t, x, C),
               UNCHANGED <<op, upload, store, caching>>
        PROVE  Typed'
    BY <2>1, <1>t, ReplyFacts DEF FetchReturns, Goto, End, caching, Places, Typed
  <2>2. Fail(NotFound) \in Results /\ Fail(BadGateway) \in Results
    BY ReplyFacts
  <2>3. CASE FetchUnknownBucket(t) \/ FetchReturns(t, Fail(NotFound), {"upstream_err"})
                \/ FetchReturns(t, Fail(BadGateway), {"upstream_err"})
    BY <1>8, <2>1, <2>2, <2>3 DEF FetchUnknownBucket, FetchGet
  <2>4. CASE FetchGet(t) /\ store[At(t)] # None /\ Goto(t, "bytes")
             /\ fetched' = [fetched EXCEPT ![t] =
                  Reply(200, store[At(t)], Resolve(op[t].key, store[At(t)]))]
    <3>1. op[t].key \in Keys /\ store[At(t)] \in Values
      BY <1>t, <2>4, OpFacts DEF FetchGet, At, Typed
    <3>2. Reply(200, store[At(t)], Resolve(op[t].key, store[At(t)])) \in Results
      BY <3>1, OpFacts, ReplyFacts
    <3>. QED  BY <1>t, <2>4, <3>2 DEF FetchGet, Goto, caching, Places, Typed
  <2>. QED  BY <1>8, <2>3, <2>4 DEF FetchGet
<1>9. CASE FetchBytes(t)
  <2>1. /\ fetched[t] \in Successes /\ op[t].key \in Keys
        /\ fetched[t].body \in Values /\ fetched[t].ctype \in CTypes \cup {None}
        /\ fetched[t] \in Results /\ Fail(BadGateway) \in Results
    BY <1>9, <1>t, ReplyFacts, OpFacts DEF IInv, Placed, PlacedAt, FetchBytes
  <2>2. /\ cache' \in [Keys -> CacheEntries \cup {None}]
        /\ disk' \in [Keys -> SUBSET CacheEntries]
    BY <1>9, <1>t, <2>1, CachingTyped DEF FetchBytes, caching, Typed
  <2>3. \E x \in Results : \E C : FetchReturns(t, x, C)
    BY <1>9, <2>1 DEF FetchBytes
  <2>. QED
    BY <1>9, <1>t, <2>2, <2>3, ReplyFacts DEF FetchBytes, FetchReturns, Goto, End, Places, Typed
<1>10. CASE Complete(t)
  BY <1>10, <1>t DEF Complete, Goto, caching, Places, Typed
<1>11. CASE CompleteRelease(t)
  <2>1. step[t] = "stored"
    BY <1>11 DEF CompleteRelease, I!CompleteRelease
  <2>. QED
    BY <1>11, <1>t, ReplyFacts DEF CompleteRelease, Goto, End, caching, Places, Typed
<1>12. CASE PutInit(t) \/ PutBodyErr(t) \/ PutErr(t)
  <2>1. \A e \in {400} \cup Errors : Fail(e) \in Replies
    BY ReplyFacts DEF Errors
  <2>2. UNCHANGED <<op, fetched, upload, store, cache, disk>>
    BY <1>12 DEF PutInit, PutBodyErr, PutErr, caching
  <2>3. CASE Goto(t, "upload")
    BY <1>t, <2>2, <2>3 DEF Goto, Places, Typed
  <2>4. ASSUME NEW e \in {400} \cup Errors, End(t, Fail(e)) PROVE Typed'
    BY <1>t, <2>1, <2>2, <2>4 DEF End, Places, Typed
  <2>5. Goto(t, "upload") \/ \E e \in {400} \cup Errors : End(t, Fail(e))
    <3>1. CASE PutInit(t)
      BY <3>1 DEF PutInit
    <3>2. CASE PutBodyErr(t)
      BY <3>2 DEF PutBodyErr
    <3>3. CASE PutErr(t)
      BY <3>3 DEF PutErr
    <3>. QED  BY <1>12, <3>1, <3>2, <3>3
  <2>6. (\E e \in {400} \cup Errors : End(t, Fail(e))) => Typed'
    BY <2>4
  <2>. QED  BY <2>3, <2>5, <2>6
<1>13. CASE PutBody(t)
  BY <1>13, <1>t DEF PutBody, Goto, caching, Places, Typed
<1>14. CASE PutOk(t)
  <2>1. op[t].key \in Keys /\ op[t].body \in Values /\ PutType(op[t]) \in CTypes \cup {None}
    BY <1>14, <1>t, OpFacts DEF IInv, Uploading, PutOk
  <2>2. /\ cache' \in [Keys -> CacheEntries \cup {None}]
        /\ disk' \in [Keys -> SUBSET CacheEntries]
    BY <1>14, <1>t, <2>1, CachingTyped DEF PutOk
  <2>. QED  BY <1>14, <1>t, <2>2, ReplyFacts DEF PutOk, End, Places, Typed
<1>. QED
  BY <1>1, <1>2, <1>3, <1>4, <1>5, <1>6, <1>7, <1>8, <1>9, <1>10, <1>11, <1>12,
     <1>13, <1>14 DEF Poll

\* So do the other steps: HEAD, a disconnect, the upstream, the cache, a restart.
LEMMA NextTyped == IInv /\ [Next]_vars => Typed'
<1>. SUFFICES ASSUME IInv, [Next]_vars PROVE Typed'
  OBVIOUS
<1>t. Typed
  BY DEF IInv
<1>1. ASSUME NEW r \in Requests, NEW o \in Ops, Request(Handler(r), o) PROVE Typed'
  BY <1>1, <1>t, RequestTyped
<1>2. ASSUME NEW t \in Tasks, Poll(t) PROVE Typed'
  BY <1>2, PollTyped
<1>3. ASSUME NEW r \in Requests, HeadOk(r) PROVE Typed'
  <2>. DEFINE t == Handler(r)
              x == Reply(200, store[Location[op[t].key]], Guess[op[t].key])
  <2>1. /\ t \in Tasks /\ Prefetch(r) \in Tasks /\ pc[t] = "head"
        /\ op[t].key \in Keys
    BY <1>3, TaskFacts, OpFacts DEF IInv, Placed, PlacedAt, HeadOk
  <2>2. x \in Replies
    BY <1>3, <1>t, <2>1, OpFacts, ReplyFacts DEF HeadOk, Typed
  <2>3. resp' = [resp EXCEPT ![t] = x] /\ UNCHANGED <<fetched, upload, store, cache, disk>>
    BY <1>3 DEF HeadOk, caching
  <2>4. pc' \in [Tasks -> Places]
    BY <1>3, <1>t, <2>1 DEF HeadOk, SpawnPrefetch, Typed, Places
  <2>5. [method |-> "PREFETCH", key |-> op[t].key, body |-> None, ctype |-> None,
         prefetch |-> FALSE, auth |-> TRUE, decodes |-> TRUE] \in OpType
    BY <2>1 DEF OpType
  <2>6. op' \in [Tasks -> OpType \cup {None}]
    BY <1>3, <1>t, <2>1, <2>5 DEF HeadOk, SpawnPrefetch, Typed
  <2>. QED  BY <1>t, <2>1, <2>2, <2>3, <2>4, <2>6 DEF Typed
<1>4. ASSUME NEW r \in Requests, HeadErr(r) \/ Cancel(r) PROVE Typed'
  <2>1. Fail(NotFound) \in Replies /\ Fail(BadGateway) \in Replies
    BY ReplyFacts
  <2>. QED
    BY <1>4, <1>t, <2>1, TaskFacts DEF HeadErr, Cancel, Goto, End, caching, Places, Typed
<1>5. ASSUME NEW t \in Tasks, ApplyUpload(t) PROVE Typed'
  <2>1. op[t].body \in Values
    BY <1>5 DEF IInv, Uploading, ApplyUpload
  <2>. QED  BY <1>5, <1>t, <2>1 DEF ApplyUpload, caching, Typed
<1>6. ASSUME NEW k \in Keys, Evict(k) PROVE Typed'
  BY <1>6, <1>t DEF Evict, Typed
<1>7. CASE Restart
  BY <1>7, <1>t DEF Restart, Typed, Places
<1>8. CASE UNCHANGED vars
  BY <1>8, <1>t DEF vars, caching, Typed
<1>. QED
  BY <1>1, <1>2, <1>3, <1>4, <1>5, <1>6, <1>7, <1>8 DEF Next, PollHead

-----------------------------------------------------------------------------
(***************************************************************************)
(* The table: every step of the gateway is a step of Inflight, none of its *)
(* steps, or a restart.                                                    *)
(***************************************************************************)
\* Inflight's inductive invariant is preserved by its steps.
LEMMA InflightStep == IP!IInv /\ [IP!Next]_(IP!vars) => IP!IInv'
<1>1. None \notin Tasks \cup Results /\ Open \notin Results \cup {None}
  BY MarkerFacts
<1>. QED  BY <1>1, IP!NextIInv

\* A step of t in the table.
InflightMove(t) ==
  \/ \E k \in Keys : I!Acquire(t, k)
  \/ \E r \in Results : I!StoreResult(t, r)
  \/ I!CompleteRelease(t) \/ I!DropGuard(t) \/ I!SpawnedRelease(t)
  \/ I!Register(t) \/ I!ReadResult(t) \/ I!Abandon(t)

\* Gateway's copy of Inflight is the one the proofs are about.
LEMMA TableStep ==
  ASSUME NEW t \in Tasks, InflightMove(t)
  PROVE  IP!Next
<1>1. CASE \E k \in Keys : I!Acquire(t, k)
  BY <1>1 DEF IP!Next, I!Acquire, IP!Acquire, I!Lead, IP!Lead, I!Follow, IP!Follow
<1>2. CASE \E r \in Results : I!StoreResult(t, r)
  BY <1>2 DEF IP!Next, I!StoreResult, IP!StoreResult
<1>3. CASE I!CompleteRelease(t) \/ I!SpawnedRelease(t)
  BY <1>3 DEF IP!Next, I!CompleteRelease, IP!CompleteRelease, I!SpawnedRelease,
              IP!SpawnedRelease, I!Release, IP!Release, I!Waiters, IP!Waiters
<1>4. CASE I!DropGuard(t) \/ I!Register(t) \/ I!ReadResult(t) \/ I!Abandon(t)
  BY <1>4 DEF IP!Next, I!DropGuard, IP!DropGuard, I!Register, IP!Register,
              I!ReadResult, IP!ReadResult, I!Abandon, IP!Abandon
<1>. QED  BY <1>1, <1>2, <1>3, <1>4 DEF InflightMove

\* An empty table satisfies Inflight's invariant, at the first start and at any
\* other (inflight.rs:30-34).
LEMMA FreshTable ==
  /\ I!Init => IP!IInv
  /\ I!Reset => IP!IInv'
BY MarkerFacts
   DEF I!Init, I!Reset, IP!IInv, IP!TypeOK, IP!Steps, IP!Roles, IP!EntriesAreLed,
       IP!Published, IP!NoOrphanEntry, IP!ReleaseFindsOwnEntry,
       IP!FollowersAgreeWithLeader, IP!Flying

\* A step of the runtime is at most one step of its task in the table.
LEMMA PollTable ==
  ASSUME IInv, NEW t \in Tasks, Poll(t)
  PROVE  UNCHANGED table \/ InflightMove(t)
<1>1. CASE Acquire(t)
  BY <1>1, OpFacts DEF InflightMove, IInv, Placed, PlacedAt, Acquire
<1>2. CASE Complete(t)
  BY <1>2 DEF InflightMove, IInv, Placed, PlacedAt, Complete
<1>3. CASE PrefetchSkip(t) \/ Register(t) \/ Resume(t)
  BY <1>3 DEF InflightMove, PrefetchSkip, Register, Resume
<1>4. CASE CompleteRelease(t) \/ SpawnedRelease(t)
  BY <1>4 DEF InflightMove, CompleteRelease, SpawnedRelease
<1>5. CASE CacheHit(t) \/ GetMiss(t) \/ HeadMiss(t) \/ Recheck(t)
  BY <1>5 DEF CacheHit, GetMiss, HeadMiss, Recheck
<1>6. CASE FetchUnknownBucket(t) \/ FetchGet(t) \/ FetchBytes(t)
  BY <1>6 DEF FetchUnknownBucket, FetchGet, FetchBytes
<1>7. CASE PutInit(t) \/ PutBody(t) \/ PutBodyErr(t) \/ PutOk(t) \/ PutErr(t)
  BY <1>7 DEF PutInit, PutBody, PutBodyErr, PutOk, PutErr
<1>. QED  BY <1>1, <1>2, <1>3, <1>4, <1>5, <1>6, <1>7 DEF Poll

\* Whatever the handlers do, the table is left alone, takes a step or starts anew.
LEMMA TableMoves ==
  IInv /\ [Next]_vars =>
    UNCHANGED table \/ I!Reset \/ \E t \in Tasks : InflightMove(t)
<1>. SUFFICES ASSUME IInv, [Next]_vars
              PROVE  UNCHANGED table \/ I!Reset \/ \E t \in Tasks : InflightMove(t)
  OBVIOUS
<1>1. ASSUME NEW r \in Requests, NEW o \in Ops, Request(Handler(r), o)
      PROVE  UNCHANGED table
  BY <1>1, RequestMoves DEF IInv
<1>2. ASSUME NEW t \in Tasks, Poll(t) PROVE UNCHANGED table \/ InflightMove(t)
  BY <1>2, PollTable
<1>3. ASSUME NEW r \in Requests, PollHead(r) PROVE UNCHANGED table
  BY <1>3 DEF PollHead, HeadOk, HeadErr
<1>4. ASSUME NEW r \in Requests, Cancel(r)
      PROVE  UNCHANGED table \/ InflightMove(Handler(r))
  BY <1>4 DEF Cancel, InflightMove
<1>5. CASE (\E t \in Tasks : ApplyUpload(t)) \/ (\E k \in Keys : Evict(k)) \/ UNCHANGED vars
  BY <1>5 DEF ApplyUpload, Evict, vars
<1>6. CASE Restart
  BY <1>6 DEF Restart
<1>. QED
  BY <1>1, <1>2, <1>3, <1>4, <1>5, <1>6, TaskFacts DEF Next

\* So it keeps Inflight's invariant.
LEMMA NextTable == IInv /\ [Next]_vars => IP!IInv'
<1>. SUFFICES ASSUME IInv, [Next]_vars PROVE IP!IInv'
  OBVIOUS
<1>1. IP!IInv
  BY DEF IInv
<1>2. CASE UNCHANGED table
  BY <1>1, <1>2, InflightStep DEF table, IP!vars
<1>3. CASE I!Reset
  BY <1>3, FreshTable
<1>4. ASSUME NEW t \in Tasks, InflightMove(t) PROVE IP!IInv'
  BY <1>1, <1>4, TableStep, InflightStep
<1>. QED  BY <1>2, <1>3, <1>4, TableMoves

-----------------------------------------------------------------------------
(***************************************************************************)
(* Where the tasks are                                                     *)
(***************************************************************************)
\* A step of t in the table leaves the other tasks where they are there, but for
\* the followers it wakes (inflight.rs:55-64).
LEMMA TableFrame ==
  ASSUME IP!IInv, NEW t \in Tasks,
         UNCHANGED table \/ InflightMove(t),
         NEW u \in Tasks, u # t
  PROVE  /\ step'[u] = step[u] \/ (step[u] = "waiting" /\ step'[u] = "woken")
         /\ key'[u] = key[u] /\ entry'[u] = entry[u] /\ got'[u] = got[u]
         /\ result'[u] = result[u]
<1>t. IP!TypeOK
  BY DEF IP!IInv
<1>1. CASE UNCHANGED table
  BY <1>1 DEF table
<1>2. CASE \E k \in Keys : I!Acquire(t, k)
  BY <1>t, <1>2 DEF IP!TypeOK, I!Acquire, I!Lead, I!Follow
<1>3. CASE \E r \in Results : I!StoreResult(t, r)
  BY <1>t, <1>3 DEF IP!TypeOK, I!StoreResult
<1>4. CASE I!CompleteRelease(t) \/ I!SpawnedRelease(t)
  BY <1>t, <1>4 DEF IP!TypeOK, I!CompleteRelease, I!SpawnedRelease, I!Release, I!Waiters
<1>5. CASE I!DropGuard(t) \/ I!Register(t) \/ I!ReadResult(t) \/ I!Abandon(t)
  BY <1>t, <1>5 DEF IP!TypeOK, I!DropGuard, I!Register, I!ReadResult, I!Abandon
<1>. QED  BY <1>1, <1>2, <1>3, <1>4, <1>5 DEF InflightMove

\* So a task that does not move stays placed.
LEMMA OthersPlaced ==
  ASSUME NEW u \in Tasks, PlacedAt(u),
         pc'[u] = pc[u], op'[u] = op[u], fetched'[u] = fetched[u],
         step'[u] = step[u] \/ (step[u] = "waiting" /\ step'[u] = "woken"),
         key'[u] = key[u], entry'[u] = entry[u], got'[u] = got[u]
  PROVE  PlacedAt(u)'
BY DEF PlacedAt

\* A step that moves t, in the table or not, keeps all tasks placed if it keeps t.
LEMMA MovePlaced ==
  ASSUME IP!IInv, Typed, Placed, NEW t \in Tasks,
         UNCHANGED table \/ InflightMove(t),
         \A u \in Tasks \ {t} :
           pc'[u] = pc[u] /\ op'[u] = op[u] /\ fetched'[u] = fetched[u],
         PlacedAt(t)'
  PROVE  Placed'
<1>. SUFFICES ASSUME NEW u \in Tasks, u # t PROVE PlacedAt(u)'
  BY DEF Placed
<1>1. /\ step'[u] = step[u] \/ (step[u] = "waiting" /\ step'[u] = "woken")
      /\ key'[u] = key[u] /\ entry'[u] = entry[u] /\ got'[u] = got[u]
  BY TableFrame
<1>. QED  BY <1>1, OthersPlaced DEF Placed

\* The steps of the runtime's tasks keep them placed.
LEMMA PollPlaced ==
  ASSUME IInv, NEW t \in Tasks, Poll(t)
  PROVE  Placed'
<1>i. IP!IInv /\ Typed /\ Placed /\ PlacedAt(t) /\ IP!TypeOK
  BY DEF IInv, Placed, IP!IInv
<1>1. ASSUME UNCHANGED <<table, op>>,
             fetched' = fetched \/ \E x : fetched' = [fetched EXCEPT ![t] = x],
             \E where : pc' = [pc EXCEPT ![t] = where],
             PlacedAt(t)'
      PROVE  Placed'
  BY <1>i, <1>1, MovePlaced DEF Typed
<1>2. CASE CacheHit(t) \/ GetMiss(t) \/ HeadMiss(t) \/ Recheck(t)
  <2>1. /\ UNCHANGED <<table, op, fetched>>
        /\ \E where \in {"done", "acquire", "head"} :
             /\ pc' = [pc EXCEPT ![t] = where]
             /\ where # "done" => pc[t] = "lookup"
             /\ where = "head" => op[t].method = "HEAD"
    BY <1>2 DEF CacheHit, GetMiss, HeadMiss, Recheck, Goto, End
  <2>2. pc[t] \in {"lookup", "recheck"} /\ step[t] \notin {"leader", "stored"}
    BY <1>i, <1>2 DEF CacheHit, GetMiss, HeadMiss, Recheck, PlacedAt
  <2>3. PlacedAt(t)'
    BY <1>i, <2>1, <2>2 DEF table, PlacedAt, Typed
  <2>. QED  BY <1>1, <2>1, <2>3
<1>3. CASE Acquire(t)
  <2>1. PICK k \in Keys : k = op[t].key /\ I!Acquire(t, k)
    BY <1>3, <1>i, OpFacts DEF Acquire, PlacedAt
  <2>2. /\ step[t] = "idle" /\ step'[t] \in {"leader", "follower"}
        /\ key'[t] = op[t].key
        /\ pc' = [pc EXCEPT ![t] = IF step'[t] = "leader" THEN "fetch" ELSE "wait"]
        /\ UNCHANGED <<op, fetched>>
    BY <1>3, <1>i, <2>1 DEF Acquire, Goto, I!Acquire, I!Lead, I!Follow, IP!TypeOK
  <2>3. PlacedAt(t)'
    BY <1>i, <1>3, <2>2 DEF PlacedAt, Typed, Acquire
  <2>. QED  BY <1>i, <2>1, <2>2, <2>3, MovePlaced DEF InflightMove, Typed
<1>4. CASE PrefetchSkip(t)
  <2>1. I!Abandon(t) /\ pc' = [pc EXCEPT ![t] = "done"] /\ UNCHANGED <<op, fetched>>
    BY <1>4 DEF PrefetchSkip, Goto
  <2>2. step'[t] = "gone" /\ entry'[t] = entry[t] /\ key'[t] = key[t] /\ entry[t] # None
    BY <1>i, <2>1, MarkerFacts DEF I!Abandon, IP!IInv, IP!TypeOK, IP!Roles
  <2>3. PlacedAt(t)'
    BY <1>i, <1>4, <2>1, <2>2 DEF PlacedAt, Typed, PrefetchSkip, I!Abandon
  <2>. QED  BY <1>i, <2>1, <2>3, MovePlaced DEF InflightMove, Typed
<1>5. CASE Register(t)
  <2>1. I!Register(t) /\ UNCHANGED <<op, fetched, pc>>
    BY <1>5 DEF Register
  <2>3. PlacedAt(t)'
    BY <1>i, <1>5, <2>1 DEF PlacedAt, Typed, Register, I!Register, IP!TypeOK
  <2>. QED  BY <1>i, <2>1, <2>3, MovePlaced DEF InflightMove
<1>6. CASE Resume(t)
  <2>1. /\ I!ReadResult(t) /\ UNCHANGED op /\ pc[t] = "wait"
        /\ fetched' = [fetched EXCEPT ![t] = got'[t]]
        /\ \/ got'[t] \in Successes /\ pc' = [pc EXCEPT ![t] = "recheck"]
           \/ got'[t] \in Results \ Successes /\ pc' = [pc EXCEPT ![t] = "done"]
           \/ got'[t] = None /\ pc' = [pc EXCEPT ![t] = "fetch"]
    BY <1>6 DEF Resume, Goto, End
  <2>2. /\ step'[t] = "done" /\ entry'[t] = entry[t] /\ key'[t] = key[t]
        /\ entry[t] # None /\ step[t] = "woken"
    BY <1>i, <2>1, MarkerFacts DEF I!ReadResult, IP!IInv, IP!TypeOK, IP!Roles
  <2>3. PlacedAt(t)'
    BY <1>i, <2>1, <2>2 DEF PlacedAt, Typed
  <2>. QED  BY <1>i, <2>1, <2>3, MovePlaced DEF InflightMove, Typed
<1>7. CASE FetchUnknownBucket(t) \/ FetchGet(t) \/ FetchBytes(t)
  <2>1. /\ UNCHANGED <<table, op>> /\ pc[t] \in {"fetch", "bytes"}
        /\ \E x : fetched' = [fetched EXCEPT ![t] = x]
    BY <1>7 DEF FetchUnknownBucket, FetchGet, FetchBytes, FetchReturns
  <2>2. \/ step[t] # "leader" /\ pc' = [pc EXCEPT ![t] = "done"]
        \/ /\ pc' = [pc EXCEPT ![t] = "bytes"]
           /\ fetched'[t] \in Successes
        \/ /\ step[t] = "leader" /\ pc' = [pc EXCEPT ![t] = "complete"]
           /\ fetched'[t] \in Results
    <3>1. ASSUME NEW x \in Results, NEW C, FetchReturns(t, x, C)
          PROVE  \/ step[t] # "leader" /\ pc' = [pc EXCEPT ![t] = "done"]
                 \/ /\ step[t] = "leader" /\ pc' = [pc EXCEPT ![t] = "complete"]
                    /\ fetched'[t] \in Results
      BY <3>1, <1>i DEF FetchReturns, Goto, End, Typed
    <3>2. Fail(NotFound) \in Results /\ Fail(BadGateway) \in Results
      BY ReplyFacts
    <3>3. CASE FetchUnknownBucket(t)
      BY <3>1, <3>2, <3>3 DEF FetchUnknownBucket
    <3>4. CASE FetchGet(t)
      <4>1. op[t].key \in Keys
        BY <1>i, <3>4, OpFacts DEF PlacedAt, FetchGet
      <4>2. store[At(t)] # None => store[At(t)] \in Values
        BY <1>i, <4>1, OpFacts DEF At, Typed
      <4>3. store[At(t)] # None =>
              Reply(200, store[At(t)], Resolve(op[t].key, store[At(t)])) \in Successes
        BY <4>1, <4>2, OpFacts, ReplyFacts
      <4>. QED  BY <1>i, <3>1, <3>2, <3>4, <4>3 DEF FetchGet, Goto, Typed
    <3>5. CASE FetchBytes(t)
      <4>1. fetched[t] \in Results
        BY <1>i, <3>5, ReplyFacts DEF PlacedAt, FetchBytes
      <4>. QED  BY <3>1, <3>2, <3>5, <4>1 DEF FetchBytes
    <3>. QED  BY <1>7, <3>3, <3>4, <3>5
  <2>3. PlacedAt(t)'
    BY <1>i, <2>1, <2>2 DEF PlacedAt, Typed, table
  <2>. QED  BY <1>1, <2>1, <2>2, <2>3
<1>8. CASE Complete(t)
  <2>1. /\ I!StoreResult(t, fetched[t]) /\ fetched[t] \in Results
        /\ pc[t] = "complete" /\ pc' = [pc EXCEPT ![t] = "release"] /\ UNCHANGED <<op, fetched>>
    BY <1>8, <1>i DEF Complete, Goto, PlacedAt
  <2>2. PlacedAt(t)'
    BY <1>i, <2>1 DEF PlacedAt, Typed, I!StoreResult, IP!TypeOK
  <2>. QED  BY <1>i, <2>1, <2>2, MovePlaced DEF InflightMove, Typed
<1>9. CASE CompleteRelease(t)
  <2>1. /\ I!CompleteRelease(t) /\ pc[t] = "release"
        /\ pc' = [pc EXCEPT ![t] = "done"] /\ UNCHANGED <<op, fetched>>
    BY <1>9 DEF CompleteRelease, Goto, End
  <2>2. PlacedAt(t)'
    BY <1>i, <2>1 DEF PlacedAt, Typed, I!CompleteRelease, I!Release, IP!TypeOK
  <2>. QED  BY <1>i, <2>1, <2>2, MovePlaced DEF InflightMove, Typed
<1>10. CASE SpawnedRelease(t)
  <2>1. I!SpawnedRelease(t) /\ UNCHANGED <<op, fetched, pc>>
    BY <1>10 DEF SpawnedRelease
  <2>2. pc[t] = "cancelled"
    BY <1>i, <2>1 DEF PlacedAt, I!SpawnedRelease, IP!IInv, IP!Roles
  <2>3. PlacedAt(t)'
    BY <1>i, <2>1, <2>2 DEF PlacedAt, Typed, I!SpawnedRelease, I!Release, IP!TypeOK
  <2>. QED  BY <1>i, <2>1, <2>3, MovePlaced DEF InflightMove
<1>11. CASE PutInit(t) \/ PutBody(t) \/ PutBodyErr(t) \/ PutOk(t) \/ PutErr(t)
  <2>1. /\ UNCHANGED <<table, op, fetched>> /\ pc[t] \in {"init_upload", "upload", "finish"}
        /\ \E where \in {"upload", "finish", "done"} : pc' = [pc EXCEPT ![t] = where]
    BY <1>11 DEF PutInit, PutBody, PutBodyErr, PutOk, PutErr, Goto, End
  <2>2. PlacedAt(t)'
    BY <1>i, <2>1 DEF PlacedAt, Typed, table
  <2>. QED  BY <1>1, <2>1, <2>2
<1>. QED
  BY <1>2, <1>3, <1>4, <1>5, <1>6, <1>7, <1>8, <1>9, <1>10, <1>11 DEF Poll

\* So do arrivals, HEAD, disconnects, the upstream, the cache and a restart.
LEMMA NextPlaced == IInv /\ [Next]_vars => Placed'
<1>. SUFFICES ASSUME IInv, [Next]_vars PROVE Placed'
  OBVIOUS
<1>i. /\ IP!IInv /\ Typed /\ Placed /\ PrefetchesFollow /\ IP!TypeOK
      /\ \A u \in Tasks : PlacedAt(u)
  BY DEF IInv, Placed, IP!IInv
<1>1. ASSUME NEW r \in Requests, NEW o \in Ops, Request(Handler(r), o) PROVE Placed'
  <2>. DEFINE t == Handler(r)
  <2>1. /\ t \in Tasks /\ pc[t] = "new" /\ o \in OpType
        /\ UNCHANGED <<table, fetched>> /\ op' = [op EXCEPT ![t] = o]
        /\ \E where \in {"done", "lookup", "init_upload"} : pc' = [pc EXCEPT ![t] = where]
    BY <1>1, <1>i, RequestMoves
  <2>2. PlacedAt(t)'
    BY <1>i, <2>1 DEF PlacedAt, Typed, table
  <2>. QED  BY <1>i, <2>1, <2>2, MovePlaced DEF Typed
<1>2. ASSUME NEW t \in Tasks, Poll(t) PROVE Placed'
  BY <1>2, PollPlaced
<1>3. ASSUME NEW r \in Requests, HeadOk(r) PROVE Placed'
  <2>. DEFINE t == Handler(r)
              q == Prefetch(r)
              o == [method |-> "PREFETCH", key |-> op[t].key, body |-> None,
                    ctype |-> None, prefetch |-> FALSE, auth |-> TRUE, decodes |-> TRUE]
  <2>1. t \in Tasks /\ q \in Tasks /\ t # q /\ pc[t] = "head" /\ UNCHANGED <<table, fetched>>
    BY <1>3, TaskFacts DEF HeadOk
  <2>2. \/ pc' = [pc EXCEPT ![t] = "done"] /\ UNCHANGED op
        \/ /\ pc' = [pc EXCEPT ![t] = "done", ![q] = "acquire"]
           /\ op' = [op EXCEPT ![q] = o]
    BY <1>3 DEF HeadOk, SpawnPrefetch
  <2>3. pc[q] = "new" /\ step[q] = "idle" /\ step[t] = "idle"
    BY <1>i, <2>1 DEF PrefetchesFollow, PlacedAt
  <2>4. o \in OpType
    <3>1. op[t].key \in Keys
      BY <1>i, <2>1, OpFacts DEF PlacedAt
    <3>. QED  BY <3>1 DEF OpType
  <2>5. ASSUME NEW u \in Tasks PROVE PlacedAt(u)'
    <3>1. CASE u = t
      BY <1>i, <2>1, <2>2, <2>3, <3>1 DEF PlacedAt, Typed, table
    <3>2. CASE u = q
      <4>1. \/ pc'[q] = pc[q] /\ op'[q] = op[q]
            \/ pc'[q] = "acquire" /\ op'[q] = o
        BY <2>1, <2>2, <1>i DEF Typed
      <4>2. step'[q] = "idle" /\ pc[q] = "new"
        BY <2>1, <2>3 DEF table
      <4>. QED  BY <2>4, <3>2, <4>1, <4>2 DEF PlacedAt
    <3>3. CASE u # t /\ u # q
      <4>1. pc'[u] = pc[u] /\ op'[u] = op[u]
        BY <1>i, <2>1, <2>2, <3>3 DEF Typed
      <4>. QED  BY <1>i, <2>1, <4>1, OthersPlaced DEF table
    <3>. QED  BY <3>1, <3>2, <3>3
  <2>. QED  BY <2>5 DEF Placed
<1>4. ASSUME NEW r \in Requests, HeadErr(r) PROVE Placed'
  <2>. DEFINE t == Handler(r)
  <2>1. /\ t \in Tasks /\ pc[t] = "head" /\ UNCHANGED <<table, op, fetched>>
        /\ pc' = [pc EXCEPT ![t] = "done"]
    BY <1>4, TaskFacts DEF HeadErr, End
  <2>2. PlacedAt(t)'
    BY <1>i, <2>1 DEF PlacedAt, Typed, table
  <2>. QED  BY <1>i, <2>1, <2>2, MovePlaced DEF Typed
<1>5. ASSUME NEW r \in Requests, Cancel(r) PROVE Placed'
  <2>. DEFINE t == Handler(r)
  <2>1. /\ t \in Tasks /\ Live(t) /\ UNCHANGED <<op, fetched>>
        /\ pc' = [pc EXCEPT ![t] = "cancelled"]
        /\ \/ I!DropGuard(t) \/ I!Abandon(t)
           \/ step[t] \in {"idle", "done"} /\ UNCHANGED table
    BY <1>5, TaskFacts DEF Cancel, Goto
  <2>2. /\ key'[t] = key[t] /\ (step[t] = "idle" => step'[t] = "idle")
        /\ step'[t] \notin {"leader", "stored"}
    BY <1>i, <2>1 DEF I!DropGuard, I!Abandon, table, IP!TypeOK
  <2>3. PlacedAt(t)'
    BY <1>i, <2>1, <2>2 DEF PlacedAt, Typed, Live
  <2>. QED  BY <1>i, <2>1, <2>3, MovePlaced DEF InflightMove, Typed
<1>6. CASE (\E t \in Tasks : ApplyUpload(t)) \/ (\E k \in Keys : Evict(k)) \/ UNCHANGED vars
  <2>1. UNCHANGED <<table, op, pc, fetched>>
    BY <1>6 DEF ApplyUpload, Evict, vars
  <2>. QED  BY <1>i, <2>1 DEF Placed, PlacedAt, table
<1>7. CASE Restart
  <2>1. ASSUME NEW t \in Tasks
        PROVE  /\ pc'[t] \in {"new", "done", "cancelled"} /\ (pc[t] = "new" <=> pc'[t] = "new")
               /\ op'[t] = op[t] /\ step'[t] = "idle"
    BY <1>7, <1>i DEF Restart, I!Reset, Live, Typed
  <2>. QED  BY <1>i, <2>1 DEF Placed, PlacedAt
<1>. QED
  BY <1>1, <1>2, <1>3, <1>4, <1>5, <1>6, <1>7 DEF Next, PollHead

-----------------------------------------------------------------------------
(***************************************************************************)
(* Prefetches, uploads, answers                                            *)
(***************************************************************************)
Bookkeeping == PrefetchesFollow /\ Uploading /\ Responded

\* What a step of the runtime does to the place, the request, the answer and the
\* upload of its task.
LEMMA PollMoves ==
  ASSUME IInv, NEW t \in Tasks, Poll(t)
  PROVE  /\ op' = op
         /\ \A u \in Tasks \ {t} : pc'[u] = pc[u] /\ resp'[u] = resp[u]
         /\ pc[t] # "new" /\ pc'[t] \notin {"new", "lookup"}
         /\ pc'[t] = "head" => pc[t] = "lookup"
         /\ pc'[t] \in {"init_upload", "upload", "finish"} =>
              pc[t] \in {"init_upload", "upload"}
         /\ pc'[t] = "done" => resp'[t] # None \/ op[t].method = "PREFETCH"
         /\ pc[t] \in {"finish", "done", "cancelled"} => pc'[t] \in {"done", "cancelled"}
         /\ \/ upload' = upload
            \/ pc[t] = "upload" /\ pc'[t] = "finish" /\ upload' = [upload EXCEPT ![t] = "sent"]
<1>i. IP!IInv /\ Typed /\ PlacedAt(t)
  BY DEF IInv, Placed
<1>1. ASSUME NEW x \in Replies, End(t, x)
      PROVE  /\ \A u \in Tasks \ {t} : pc'[u] = pc[u] /\ resp'[u] = resp[u]
             /\ pc'[t] = "done" /\ resp'[t] # None
  BY <1>1, <1>i, MarkerFacts DEF End, Typed
<1>2. ASSUME NEW where, Goto(t, where)
      PROVE  /\ \A u \in Tasks \ {t} : pc'[u] = pc[u] /\ resp'[u] = resp[u]
             /\ pc'[t] = where
  BY <1>2, <1>i DEF Goto, Typed
<1>3. /\ \A s \in {400, NotFound, BadGateway} : Fail(s) \in Replies
      /\ \A e \in Errors : Fail(e) \in Replies
      /\ Reply(200, None, None) \in Replies
  BY ReplyFacts DEF Errors
<1>4. CASE CacheHit(t) \/ Recheck(t)
  <2>1. UNCHANGED <<op, upload>> /\ pc[t] \in {"lookup", "recheck"}
    BY <1>4 DEF CacheHit, Recheck
  <2>2. \E x \in Replies : End(t, x)
    <3>1. cache[op[t].key] # None => Found(cache[op[t].key]) \in Replies
      BY <1>i, <2>1, OpFacts, ReplyFacts DEF PlacedAt, Typed
    <3>2. pc[t] = "recheck" => fetched[t] \in Replies
      BY <1>i, ReplyFacts DEF PlacedAt
    <3>. QED  BY <1>4, <3>1, <3>2 DEF CacheHit, Recheck
  <2>. QED  BY <1>1, <2>1, <2>2
<1>5. CASE GetMiss(t) \/ HeadMiss(t) \/ Acquire(t) \/ PrefetchSkip(t)
  <2>1. UNCHANGED <<op, upload>> /\ pc[t] \in {"lookup", "acquire", "wait"}
    BY <1>5 DEF GetMiss, HeadMiss, Acquire, PrefetchSkip
  <2>2. \/ \E x \in Replies : End(t, x)
        \/ \E where \in {"acquire", "fetch", "wait"} : Goto(t, where)
        \/ Goto(t, "head") /\ pc[t] = "lookup"
        \/ Goto(t, "done") /\ op[t].method = "PREFETCH"
    BY <1>3, <1>5 DEF GetMiss, HeadMiss, Acquire, PrefetchSkip
  <2>. QED  BY <1>1, <1>2, <2>1, <2>2
<1>6. CASE Register(t) \/ SpawnedRelease(t)
  <2>1. UNCHANGED <<op, upload, pc, resp>> /\ pc[t] \in {"wait", "cancelled"}
    BY <1>6, <1>i DEF Register, SpawnedRelease, I!SpawnedRelease, PlacedAt, IP!IInv, IP!Roles
  <2>. QED  BY <2>1
<1>7. CASE Resume(t) \/ FetchUnknownBucket(t) \/ FetchGet(t) \/ FetchBytes(t)
  <2>1. UNCHANGED <<op, upload>> /\ pc[t] \in {"wait", "fetch", "bytes"}
    BY <1>7 DEF Resume, FetchUnknownBucket, FetchGet, FetchBytes
  <2>2. ASSUME NEW x \in Replies, NEW C, FetchReturns(t, x, C)
        PROVE  (\E y \in Replies : End(t, y)) \/ Goto(t, "complete")
    BY <2>2 DEF FetchReturns
  <2>3. pc[t] = "bytes" => fetched[t] \in Replies
    BY <1>i, ReplyFacts DEF PlacedAt
  <2>4. \/ \E x \in Replies : End(t, x)
        \/ \E where \in {"recheck", "fetch", "bytes", "complete"} : Goto(t, where)
    BY <1>3, <1>7, <2>2, <2>3, ReplyFacts
       DEF Resume, FetchUnknownBucket, FetchGet, FetchBytes
  <2>. QED  BY <1>1, <1>2, <2>1, <2>4
<1>8. CASE Complete(t) \/ CompleteRelease(t)
  <2>1. UNCHANGED <<op, upload>> /\ pc[t] \in {"complete", "release"}
    BY <1>8 DEF Complete, CompleteRelease
  <2>2. CASE Complete(t)
    BY <1>2, <2>1, <2>2 DEF Complete
  <2>3. CASE CompleteRelease(t) /\ Goto(t, "done") /\ op[t].method = "PREFETCH"
    BY <1>2, <2>1, <2>3
  <2>4. CASE CompleteRelease(t) /\ End(t, fetched[t])
    <3>1. fetched[t] \in Replies
      BY <1>i, <2>4, ReplyFacts DEF CompleteRelease, PlacedAt
    <3>. QED  BY <1>1, <2>1, <2>4, <3>1
  <2>. QED  BY <1>8, <2>2, <2>3, <2>4 DEF CompleteRelease
<1>9. CASE PutInit(t) \/ PutBodyErr(t) \/ PutOk(t) \/ PutErr(t)
  <2>1. UNCHANGED <<op, upload>> /\ pc[t] \in {"init_upload", "upload", "finish"}
    BY <1>9 DEF PutInit, PutBodyErr, PutOk, PutErr
  <2>2. \/ \E x \in Replies : End(t, x)
        \/ pc[t] = "init_upload" /\ Goto(t, "upload")
    BY <1>3, <1>9 DEF PutInit, PutBodyErr, PutOk, PutErr
  <2>. QED  BY <1>1, <1>2, <2>1, <2>2
<1>10. CASE PutBody(t)
  BY <1>2, <1>10 DEF PutBody
<1>. QED
  BY <1>4, <1>5, <1>6, <1>7, <1>8, <1>9, <1>10 DEF Poll

\* Prefetches, uploads and answers stay in order through every step.
LEMMA NextBookkeeping == IInv /\ [Next]_vars => Bookkeeping'
<1>. SUFFICES ASSUME IInv, [Next]_vars PROVE Bookkeeping'
  OBVIOUS
<1>. USE DEF Bookkeeping
<1>i. IP!IInv /\ Typed /\ Placed /\ Bookkeeping
  BY DEF IInv
<1>1. ASSUME NEW r \in Requests, NEW o \in Ops, Request(Handler(r), o) PROVE Bookkeeping'
  <2>. DEFINE t == Handler(r)
  <2>1. /\ t \in Tasks /\ pc[t] = "new" /\ o \in OpType /\ UNCHANGED upload
        /\ op' = [op EXCEPT ![t] = o] /\ pc'[t] \in {"done", "lookup", "init_upload"}
        /\ \A u \in Tasks \ {t} : pc'[u] = pc[u] /\ resp'[u] = resp[u]
        /\ pc'[t] = "done" => resp'[t] # None
        /\ pc'[t] = "init_upload" => o.method = "PUT"
    <3>1. \A s \in {400, 401, NotFound} : Fail(s) # None
      BY ReplyFacts, MarkerFacts
    <3>. QED  BY <1>1, <1>i, <3>1, RequestMoves
  <2>2. upload[t] = "none" /\ pc[Prefetch(r)] = "new"
    BY <1>i, <2>1 DEF Uploading, PrefetchesFollow, Typed
  <2>3. PrefetchesFollow'
    <3>1. ASSUME NEW q \in Requests
          PROVE  /\ pc'[Prefetch(q)] = pc[Prefetch(q)] /\ op'[Prefetch(q)] = op[Prefetch(q)]
                 /\ q # r => pc'[Handler(q)] = pc[Handler(q)]
      BY <1>i, <2>1, TaskFacts DEF Typed
    <3>. QED  BY <1>i, <2>2, <3>1 DEF PrefetchesFollow
  <2>4. Uploading'
    BY <1>i, <2>1, <2>2, OpFacts DEF Uploading, Typed
  <2>5. Responded'
    BY <1>i, <2>1 DEF Responded, Typed
  <2>. QED  BY <2>3, <2>4, <2>5
<1>2. ASSUME NEW t \in Tasks, Poll(t) PROVE Bookkeeping'
  <2>1. PrefetchesFollow'
    BY <1>2, <1>i, PollMoves, TaskFacts DEF PrefetchesFollow
  <2>2. Uploading'
    BY <1>2, <1>i, PollMoves DEF Uploading, Typed
  <2>3. Responded'
    BY <1>2, <1>i, PollMoves DEF Responded
  <2>. QED  BY <2>1, <2>2, <2>3
<1>3. ASSUME NEW r \in Requests, HeadOk(r) PROVE Bookkeeping'
  <2>. DEFINE t == Handler(r)
              q == Prefetch(r)
  <2>1. /\ t \in Tasks /\ q \in Tasks /\ t # q /\ pc[t] = "head" /\ pc[q] = "new"
        /\ UNCHANGED upload
    BY <1>3, <1>i, TaskFacts DEF HeadOk, PrefetchesFollow
  <2>2. /\ pc'[t] = "done"
        /\ \A u \in Tasks \ {t, q} : pc'[u] = pc[u] /\ op'[u] = op[u]
        /\ op'[t] = op[t]
        /\ \/ pc'[q] = "new" /\ op'[q] = op[q]
           \/ pc'[q] = "acquire" /\ op'[q].method = "PREFETCH"
    BY <1>3, <1>i, <2>1 DEF HeadOk, SpawnPrefetch, Typed
  <2>3. resp'[t] # None /\ \A u \in Tasks \ {t} : resp'[u] = resp[u]
    <3>1. op[t].key \in Keys
      BY <1>i, <2>1, OpFacts DEF Placed, PlacedAt
    <3>2. Reply(200, store[Location[op[t].key]], Guess[op[t].key]) \in Replies
      BY <1>3, <1>i, <3>1, OpFacts, ReplyFacts DEF HeadOk, Typed
    <3>. QED  BY <1>3, <1>i, <2>1, <3>2, MarkerFacts DEF HeadOk, Typed
  <2>4. PrefetchesFollow'
    <3>1. ASSUME NEW s \in Requests, s # r
          PROVE  /\ pc'[Prefetch(s)] = pc[Prefetch(s)] /\ op'[Prefetch(s)] = op[Prefetch(s)]
                 /\ pc'[Handler(s)] = pc[Handler(s)]
      BY <2>2, <3>1, TaskFacts
    <3>. QED  BY <1>i, <2>2, <3>1 DEF PrefetchesFollow
  <2>5. Uploading'
    BY <1>i, <2>1, <2>2 DEF Uploading
  <2>6. Responded'
    BY <1>i, <2>2, <2>3 DEF Responded
  <2>. QED  BY <2>4, <2>5, <2>6
<1>4. ASSUME NEW r \in Requests, HeadErr(r) \/ Cancel(r) PROVE Bookkeeping'
  <2>. DEFINE t == Handler(r)
  <2>1. /\ t \in Tasks /\ pc[t] # "new" /\ UNCHANGED <<op, upload>>
        /\ pc'[t] \in {"done", "cancelled"}
        /\ \A u \in Tasks \ {t} : pc'[u] = pc[u] /\ resp'[u] = resp[u]
        /\ pc'[t] = "done" => resp'[t] # None
    <3>1. t \in Tasks /\ \A s \in {NotFound, BadGateway} : Fail(s) \in Replies /\ Fail(s) # None
      BY TaskFacts, ReplyFacts, MarkerFacts
    <3>. QED  BY <1>4, <1>i, <3>1 DEF HeadErr, Cancel, Goto, End, Live, Typed
  <2>2. PrefetchesFollow'
    BY <1>i, <2>1, TaskFacts DEF PrefetchesFollow
  <2>3. Uploading'
    BY <1>i, <2>1 DEF Uploading
  <2>4. Responded'
    BY <1>i, <2>1 DEF Responded
  <2>. QED  BY <2>2, <2>3, <2>4
<1>5. ASSUME NEW t \in Tasks, ApplyUpload(t) PROVE Bookkeeping'
  BY <1>5, <1>i DEF ApplyUpload, PrefetchesFollow, Uploading, Responded, Typed
<1>6. CASE (\E k \in Keys : Evict(k)) \/ UNCHANGED vars
  <2>1. UNCHANGED <<pc, op, upload, resp>>
    BY <1>6 DEF Evict, vars
  <2>. QED  BY <1>i, <2>1 DEF PrefetchesFollow, Uploading, Responded
<1>7. CASE Restart
  <2>1. /\ UNCHANGED <<op, upload, resp>>
        /\ \A t \in Tasks : /\ pc'[t] \in {"new", "done", "cancelled"}
                            /\ pc[t] = "new" <=> pc'[t] = "new"
                            /\ pc[t] = "done" <=> pc'[t] = "done"
    BY <1>7, <1>i DEF Restart, Live, Typed
  <2>. QED  BY <1>i, <2>1, TaskFacts DEF PrefetchesFollow, Uploading, Responded
<1>. QED
  BY <1>1, <1>2, <1>3, <1>4, <1>5, <1>6, <1>7 DEF Next, PollHead

-----------------------------------------------------------------------------
(***************************************************************************)
(* What is unset, and which flight a follower follows                      *)
(***************************************************************************)
\* A follower keeps to the flight of its key (inflight.rs:36-53).
LEMMA NextFollows == IInv /\ [Next]_vars => FollowsOwnKey'
<1>. SUFFICES ASSUME IInv, [Next]_vars PROVE FollowsOwnKey'
  OBVIOUS
<1>i. /\ FollowsOwnKey /\ IP!TypeOK /\ IP!Roles /\ IP!EntriesAreLed /\ IP!NoOrphanEntry
  BY DEF IInv, IP!IInv
<1>1. CASE UNCHANGED table
  BY <1>i, <1>1 DEF table, FollowsOwnKey
<1>2. CASE I!Reset
  BY <1>2 DEF I!Reset, FollowsOwnKey
<1>3. ASSUME NEW t \in Tasks, NEW k \in Keys, I!Acquire(t, k) PROVE FollowsOwnKey'
  <2>1. /\ step[t] = "idle" /\ key' = [key EXCEPT ![t] = k]
        /\ \/ entry' = entry
           \/ /\ entry' = [entry EXCEPT ![t] = inner[k]]
              /\ inner[k] \in Tasks /\ key[inner[k]] = k /\ inner[k] # t
    BY <1>i, <1>3 DEF I!Acquire, I!Lead, I!Follow, IP!NoOrphanEntry, IP!TypeOK, IP!Flying
  <2>2. /\ entry[t] = None
        /\ \A u \in Tasks : entry[u] # None => entry[u] \in Tasks /\ entry[u] # t
    BY <1>i, <2>1 DEF IP!Roles, IP!EntriesAreLed, IP!TypeOK
  <2>. QED  BY <1>i, <2>1, <2>2 DEF FollowsOwnKey, IP!TypeOK
<1>4. ASSUME NEW t \in Tasks, InflightMove(t), \A k \in Keys : ~I!Acquire(t, k)
      PROVE  FollowsOwnKey'
  <2>1. UNCHANGED <<key, entry>>
    BY <1>4 DEF InflightMove, I!StoreResult, I!CompleteRelease, I!DropGuard,
                I!SpawnedRelease, I!Register, I!ReadResult, I!Abandon
  <2>. QED  BY <1>i, <2>1 DEF FollowsOwnKey
<1>. QED  BY <1>1, <1>2, <1>3, <1>4, TableMoves

\* A result is stored by a leader only (inflight.rs:66-75), and a task that has
\* not begun has neither fetched nor answered anything.
LEMMA NextUntouched == IInv /\ [Next]_vars => Untouched'
<1>. SUFFICES ASSUME IInv, [Next]_vars PROVE Untouched'
  OBVIOUS
<1>i. /\ IP!IInv /\ IP!TypeOK /\ Typed /\ Untouched /\ PrefetchesFollow
      /\ \A t \in Tasks : PlacedAt(t)
  BY DEF IInv, IP!IInv, Placed
<1>1. \A t \in Tasks : step'[t] = "idle" => result'[t] = None
  <2>1. CASE UNCHANGED table
    BY <1>i, <2>1 DEF table, Untouched
  <2>2. CASE I!Reset
    BY <2>2 DEF I!Reset
  <2>3. ASSUME NEW t \in Tasks, InflightMove(t)
        PROVE  \A u \in Tasks : step'[u] = "idle" => result'[u] = None
    <3>1. step'[t] # "idle"
      BY <1>i, <2>3 DEF InflightMove, I!Acquire, I!Lead, I!Follow, I!StoreResult,
           I!CompleteRelease, I!DropGuard, I!SpawnedRelease, I!Release, I!Register,
           I!ReadResult, I!Abandon, IP!TypeOK
    <3>2. ASSUME NEW u \in Tasks, u # t, step'[u] = "idle" PROVE result'[u] = None
      BY <1>i, <2>3, <3>2, TableFrame DEF Untouched
    <3>. QED  BY <3>1, <3>2
  <2>. QED  BY <2>1, <2>2, <2>3, TableMoves
<1>2. \A t \in Tasks : pc'[t] = "new" => fetched'[t] = None /\ resp'[t] = None
  <2>1. ASSUME NEW t \in Tasks, pc'[t] = "new"
        PROVE  pc[t] = "new" /\ (fetched'[t] = fetched[t] \/ fetched'[t] = None)
                             /\ resp'[t] = resp[t]
    <3>1. ASSUME NEW r \in Requests, NEW o \in Ops, Request(Handler(r), o)
          PROVE  pc[t] = "new" /\ fetched' = fetched /\ resp'[t] = resp[t]
      BY <1>i, <2>1, <3>1, RequestMoves
    <3>2. ASSUME NEW u \in Tasks, Poll(u)
          PROVE  pc[t] = "new" /\ fetched'[t] = fetched[t] /\ resp'[t] = resp[t]
      <4>1. u # t /\ pc[t] = "new" /\ resp'[t] = resp[t]
        BY <2>1, <3>2, PollMoves
      <4>2. fetched' = fetched \/ \E x : fetched' = [fetched EXCEPT ![u] = x]
        BY <3>2
           DEF Poll, CacheHit, GetMiss, HeadMiss, Acquire, PrefetchSkip, Register,
               Resume, Recheck, FetchUnknownBucket, FetchGet, FetchBytes, FetchReturns,
               Complete, CompleteRelease, SpawnedRelease, PutInit, PutBody, PutBodyErr,
               PutOk, PutErr
      <4>. QED  BY <1>i, <4>1, <4>2 DEF Typed
    <3>3. ASSUME NEW r \in Requests, HeadOk(r) \/ HeadErr(r) \/ Cancel(r)
          PROVE  pc[t] = "new" /\ fetched' = fetched /\ resp'[t] = resp[t]
      BY <1>i, <2>1, <3>3, TaskFacts
         DEF HeadOk, SpawnPrefetch, HeadErr, Cancel, Goto, End, Live, Typed
    <3>4. CASE (\E u \in Tasks : ApplyUpload(u)) \/ (\E k \in Keys : Evict(k)) \/ UNCHANGED vars
      BY <2>1, <3>4 DEF ApplyUpload, Evict, vars
    <3>5. CASE Restart
      BY <1>i, <2>1, <3>5 DEF Restart, Typed
    <3>. QED  BY <3>1, <3>2, <3>3, <3>4, <3>5 DEF Next, PollHead
  <2>. QED  BY <1>i, <2>1 DEF Untouched
<1>. QED  BY <1>1, <1>2 DEF Untouched

-----------------------------------------------------------------------------
(***************************************************************************)
(* Genuine contents                                                        *)
(***************************************************************************)
\* A completed upload stays completed, and stays the same upload.
LEMMA AppliedStays ==
  ASSUME IInv, [Next]_vars, NEW t \in Tasks, upload[t] = "applied"
  PROVE  upload'[t] = "applied" /\ op'[t] = op[t]
<1>i. /\ Typed /\ Uploading /\ PrefetchesFollow
      /\ pc[t] \in {"finish", "done", "cancelled"} /\ op[t] \in OpType
  BY DEF IInv, Uploading, Placed, PlacedAt
<1>1. ASSUME NEW r \in Requests, NEW o \in Ops, Request(Handler(r), o)
      PROVE  upload'[t] = "applied" /\ op'[t] = op[t]
  <2>1. /\ pc[Handler(r)] = "new" /\ op' = [op EXCEPT ![Handler(r)] = o] /\ upload' = upload
    BY <1>1, <1>i, RequestMoves
  <2>. QED  BY <1>i, <2>1 DEF Typed
<1>2. ASSUME NEW u \in Tasks, Poll(u) PROVE upload'[t] = "applied" /\ op'[t] = op[t]
  BY <1>2, <1>i, PollMoves DEF Typed
<1>3. ASSUME NEW r \in Requests, HeadOk(r) PROVE upload'[t] = "applied" /\ op'[t] = op[t]
  <2>1. /\ pc[Prefetch(r)] = "new" /\ upload' = upload
        /\ op' = op \/ \E o : op' = [op EXCEPT ![Prefetch(r)] = o]
    BY <1>3, <1>i DEF HeadOk, SpawnPrefetch, PrefetchesFollow
  <2>. QED  BY <1>i, <2>1 DEF Typed
<1>4. ASSUME NEW u \in Tasks, ApplyUpload(u) PROVE upload'[t] = "applied" /\ op'[t] = op[t]
  BY <1>4, <1>i DEF ApplyUpload, Typed
<1>5. CASE UNCHANGED <<op, upload>>
  BY <1>5
<1>. QED
  BY <1>1, <1>2, <1>3, <1>4, <1>5
     DEF Next, PollHead, HeadErr, Cancel, Evict, Restart, vars

\* So what was genuine stays genuine.
LEMMA GenuineStays ==
  ASSUME IInv, [Next]_vars
  PROVE  Held \subseteq Held' /\ Genuine \subseteq Genuine'
<1>1. ASSUME NEW l PROVE Stored(l) \subseteq Stored(l)'
  BY <1>1, AppliedStays DEF Stored, At
<1>2. ASSUME NEW k, NEW v PROVE TypesOf(k, v) \subseteq TypesOf(k, v)'
  BY <1>2, AppliedStays DEF TypesOf
<1>. QED  BY <1>1, <1>2 DEF Held, Genuine

\* What was read from the upstream is genuine with the type a fetch resolves, and
\* a completed upload with the type its request gave.
LEMMA GenuineSources ==
  /\ \A k \in Keys, v \in Values :
       <<Location[k], v>> \in Held => <<k, v, Resolve(k, v)>> \in Genuine
  /\ \A t \in Tasks :
       upload[t] = "applied" /\ op[t] \in OpType /\ op[t].body \in Values =>
         <<op[t].key, op[t].body, PutType(op[t])>> \in Genuine
<1>1. ASSUME NEW k \in Keys, NEW v \in Values, <<Location[k], v>> \in Held
      PROVE  <<k, v, Resolve(k, v)>> \in Genuine
  <2>1. v \in Stored(Location[k]) /\ Resolve(k, v) \in TypesOf(k, v)
    BY <1>1 DEF Held, TypesOf
  <2>. QED  BY <2>1, OpFacts DEF Genuine
<1>2. ASSUME NEW t \in Tasks, upload[t] = "applied", op[t] \in OpType, op[t].body \in Values
      PROVE  <<op[t].key, op[t].body, PutType(op[t])>> \in Genuine
  <2>1. /\ op[t].body \in Stored(Location[op[t].key])
        /\ PutType(op[t]) \in TypesOf(op[t].key, op[t].body)
    BY <1>2 DEF Stored, TypesOf, At
  <2>. QED  BY <1>2, <2>1, OpFacts DEF Genuine
<1>. QED  BY <1>1, <1>2

\* What the handlers share stays genuine if the cache gets nothing or something
\* genuine, and the upstream is left alone.
LEMMA SharedStays ==
  ASSUME IInv, [Next]_vars, store' = store,
         \/ UNCHANGED caching
         \/ \E k \in Keys, v \in Values, c \in CTypes \cup {None} :
              <<k, v, c>> \in Genuine /\ CacheUnlessCapped(k, v, c)
  PROVE  SharedGenuine'
<1>i. Typed /\ SharedGenuine /\ Held \subseteq Held' /\ Genuine \subseteq Genuine'
  BY GenuineStays DEF IInv, AllGenuine
<1>1. CASE UNCHANGED caching
  BY <1>i, <1>1 DEF caching, SharedGenuine, IsGenuine
<1>2. ASSUME NEW k \in Keys, NEW v \in Values, NEW c \in CTypes \cup {None},
             <<k, v, c>> \in Genuine,
             CachePut(k, [body |-> v, ctype |-> c])
      PROVE  SharedGenuine'
  <2>. DEFINE e == [body |-> v, ctype |-> c]
  <2>1. e.body = v /\ e.ctype = c
    OBVIOUS
  <2>2. cache' = [cache EXCEPT ![k] = e] /\ disk' = [disk EXCEPT ![k] = @ \cup {e}]
    BY <1>2 DEF CachePut
  <2>. HIDE DEF e
  <2>3. ASSUME NEW j \in Keys, cache'[j] # None PROVE IsGenuine(cache[j], j)'
    BY <1>2, <1>i, <2>1, <2>2, <2>3 DEF SharedGenuine, IsGenuine, Typed
  <2>4. ASSUME NEW j \in Keys, NEW d \in disk'[j] PROVE IsGenuine(d, j)'
    BY <1>2, <1>i, <2>1, <2>2, <2>4 DEF SharedGenuine, IsGenuine, Typed
  <2>5. ASSUME NEW l \in Locations PROVE <<l, store'[l]>> \in Held'
    BY <1>i, <2>5 DEF SharedGenuine
  <2>. QED  BY <2>3, <2>4, <2>5 DEF SharedGenuine
<1>. QED  BY <1>1, <1>2 DEF CacheUnlessCapped

\* What a task holds stays genuine if the task does nothing.
LEMMA OthersGenuine ==
  ASSUME NEW u \in Tasks, TaskGenuine(u), Held \subseteq Held', Genuine \subseteq Genuine',
         op'[u] = op[u], fetched'[u] = fetched[u], resp'[u] = resp[u],
         key'[u] = key[u], got'[u] = got[u], result'[u] = result[u]
  PROVE  TaskGenuine(u)'
BY DEF TaskGenuine, IsGenuine, At

\* The same for all tasks but the one that moves.
LEMMA MoveGenuine ==
  ASSUME IInv, [Next]_vars, NEW t \in Tasks, UNCHANGED table \/ InflightMove(t),
         \A u \in Tasks \ {t} :
           op'[u] = op[u] /\ fetched'[u] = fetched[u] /\ resp'[u] = resp[u],
         TaskGenuine(t)'
  PROVE  \A u \in Tasks : TaskGenuine(u)'
<1>. SUFFICES ASSUME NEW u \in Tasks, u # t PROVE TaskGenuine(u)'
  OBVIOUS
<1>1. key'[u] = key[u] /\ got'[u] = got[u] /\ result'[u] = result[u]
  BY TableFrame DEF IInv
<1>2. TaskGenuine(u) /\ Held \subseteq Held' /\ Genuine \subseteq Genuine'
  BY GenuineStays DEF IInv, AllGenuine
<1>. QED  BY <1>1, <1>2, OthersGenuine

\* A task that keeps what it holds and at most answers stays genuine if the
\* answer is.
LEMMA AnswerGenuine ==
  ASSUME NEW t \in Tasks, TaskGenuine(t), Typed,
         Held \subseteq Held', Genuine \subseteq Genuine',
         op'[t] = op[t], fetched'[t] = fetched[t],
         key'[t] = key[t], got'[t] = got[t], result'[t] = result[t],
         \/ resp'[t] = resp[t]
         \/ \E x : /\ resp'[t] = x
                   /\ x.body # None => <<op[t].key, x.body, x.ctype>> \in Genuine
  PROVE  TaskGenuine(t)'
BY DEF TaskGenuine, IsGenuine, At

\* The steps of the runtime's tasks keep what they hold genuine.
LEMMA PollGenuine ==
  ASSUME IInv, [Next]_vars, NEW t \in Tasks, Poll(t)
  PROVE  \A u \in Tasks : TaskGenuine(u)'
<1>i. /\ IP!IInv /\ IP!TypeOK /\ Typed /\ PlacedAt(t) /\ Untouched /\ FollowsOwnKey
      /\ SharedGenuine /\ TaskGenuine(t)
      /\ Held \subseteq Held' /\ Genuine \subseteq Genuine'
  BY GenuineStays DEF IInv, IP!IInv, Placed, AllGenuine
<1>o. op[t] \in OpType /\ op[t].key \in Keys /\ op' = op
  BY PollMoves, OpFacts DEF IInv, Placed, PlacedAt
<1>m. ASSUME UNCHANGED table \/ InflightMove(t),
             fetched' = fetched \/ \E x : fetched' = [fetched EXCEPT ![t] = x],
             TaskGenuine(t)'
      PROVE  \A u \in Tasks : TaskGenuine(u)'
  <2>1. \A u \in Tasks \ {t} : fetched'[u] = fetched[u] /\ resp'[u] = resp[u]
    BY <1>i, <1>m, PollMoves DEF Typed
  <2>. QED  BY <1>m, <1>o, <2>1, MoveGenuine
<1>f. \A s : Fail(s).body = None
  BY DEF Fail, Reply
<1>c. cache[op[t].key] # None =>
        /\ Found(cache[op[t].key]).body # None
        /\ IsGenuine(Found(cache[op[t].key]), op[t].key)
  BY <1>i, <1>o, ReplyFacts, MarkerFacts DEF SharedGenuine, IsGenuine, Typed
<1>r. fetched[t] \in Results =>
        (fetched[t].body # None => <<op[t].key, fetched[t].body, fetched[t].ctype>> \in Genuine)
  BY <1>i, ReplyFacts DEF TaskGenuine, IsGenuine
<1>1. CASE CacheHit(t) \/ Recheck(t)
  <2>1. UNCHANGED <<table, fetched>>
    BY <1>1 DEF CacheHit, Recheck
  <2>2. \E x : /\ resp'[t] = x
               /\ x.body # None => <<op[t].key, x.body, x.ctype>> \in Genuine
    <3>1. CASE cache[op[t].key] # None /\ End(t, Found(cache[op[t].key]))
      BY <1>c, <1>i, <3>1 DEF End, Typed, IsGenuine
    <3>2. CASE Recheck(t) /\ End(t, fetched[t])
      <4>1. fetched[t] \in Results
        BY <1>i, <3>2, ReplyFacts DEF Recheck, PlacedAt
      <4>. QED  BY <1>r, <1>i, <3>2, <4>1 DEF End, Typed
    <3>. QED  BY <1>1, <3>1, <3>2 DEF CacheHit, Recheck
  <2>3. TaskGenuine(t)'
    BY <1>i, <1>o, <2>1, <2>2, AnswerGenuine DEF table
  <2>. QED  BY <1>m, <2>1, <2>3
<1>2. CASE GetMiss(t) \/ HeadMiss(t) \/ PutInit(t) \/ PutBody(t) \/ PutBodyErr(t)
             \/ PutOk(t) \/ PutErr(t)
  <2>1. UNCHANGED <<table, fetched>>
    BY <1>2 DEF GetMiss, HeadMiss, PutInit, PutBody, PutBodyErr, PutOk, PutErr
  <2>2. resp' = resp \/ \E x : End(t, x) /\ x.body = None
    BY <1>2, <1>f, ReplyFacts
       DEF GetMiss, HeadMiss, PutInit, PutBody, PutBodyErr, PutOk, PutErr, Goto
  <2>3. \/ resp'[t] = resp[t]
        \/ \E x : resp'[t] = x /\ (x.body # None => <<op[t].key, x.body, x.ctype>> \in Genuine)
    BY <1>i, <2>2 DEF End, Typed
  <2>4. TaskGenuine(t)'
    BY <1>i, <1>o, <2>1, <2>3, AnswerGenuine DEF table
  <2>. QED  BY <1>m, <2>1, <2>4
<1>3. CASE Acquire(t)
  <2>1. PICK k \in Keys : k = op[t].key /\ I!Acquire(t, k)
    BY <1>3, <1>o DEF Acquire
  <2>2. result'[t] = None /\ got'[t] = None /\ UNCHANGED <<fetched, resp>>
    BY <1>3, <1>i, <2>1
       DEF Acquire, Goto, I!Acquire, Untouched, IP!IInv, IP!Roles
  <2>3. TaskGenuine(t)'
    BY <1>i, <1>o, <2>2, MarkerFacts DEF TaskGenuine, IsGenuine, At
  <2>. QED  BY <1>m, <2>1, <2>2, <2>3 DEF InflightMove
<1>4. CASE PrefetchSkip(t) \/ Register(t) \/ SpawnedRelease(t)
  <2>1. I!Abandon(t) \/ I!Register(t) \/ I!SpawnedRelease(t)
    BY <1>4 DEF PrefetchSkip, Register, SpawnedRelease
  <2>2. UNCHANGED <<fetched, resp, result, got, key>>
    BY <1>4, <2>1 DEF PrefetchSkip, Register, SpawnedRelease, Goto,
                      I!Abandon, I!Register, I!SpawnedRelease
  <2>3. TaskGenuine(t)'
    BY <1>i, <1>o, <2>2, AnswerGenuine
  <2>. QED  BY <1>m, <2>1, <2>2, <2>3 DEF InflightMove
<1>5. CASE Resume(t)
  <2>1. /\ I!ReadResult(t) /\ fetched' = [fetched EXCEPT ![t] = got'[t]]
        /\ \/ resp' = resp
           \/ got'[t] \in Results \ Successes /\ resp' = [resp EXCEPT ![t] = got'[t]]
    BY <1>5 DEF Resume, Goto, End
  <2>2. /\ entry[t] \in Tasks /\ key[entry[t]] = key[t] /\ key[t] = op[t].key
        /\ got'[t] = result[entry[t]] /\ key' = key /\ result' = result
    BY <1>i, <2>1, MarkerFacts
       DEF I!ReadResult, IP!IInv, IP!Roles, IP!TypeOK, FollowsOwnKey, PlacedAt
  <2>3. got'[t] \in Successes =>
          <<op[t].key, got'[t].body, got'[t].ctype>> \in Genuine
    BY <2>2 DEF IInv, AllGenuine, TaskGenuine, IsGenuine
  <2>4. fetched'[t] = got'[t] /\ (resp'[t] = resp[t] \/ resp'[t].body = None)
    BY <1>i, <2>1, ReplyFacts DEF Typed
  <2>5. TaskGenuine(t)'
    BY <1>i, <1>o, <2>2, <2>3, <2>4 DEF TaskGenuine, IsGenuine, At
  <2>. QED  BY <1>m, <2>1, <2>5 DEF InflightMove
<1>6. CASE FetchUnknownBucket(t) \/ FetchGet(t) \/ FetchBytes(t)
  <2>1. UNCHANGED table
    BY <1>6 DEF FetchUnknownBucket, FetchGet, FetchBytes
  <2>2. ASSUME NEW x \in Results, NEW C, FetchReturns(t, x, C),
               x \in Successes => <<op[t].key, x.body, x.ctype>> \in Genuine
        PROVE  \A u \in Tasks : TaskGenuine(u)'
    <3>1. /\ fetched' = [fetched EXCEPT ![t] = x]
          /\ fetched'[t] = x /\ (resp'[t] = resp[t] \/ resp'[t] = x)
      BY <1>i, <2>2 DEF FetchReturns, Goto, End, Typed
    <3>2. x \notin Successes => x.body = None
      BY ReplyFacts
    <3>3. TaskGenuine(t)'
      BY <1>i, <1>o, <2>1, <2>2, <3>1, <3>2 DEF TaskGenuine, IsGenuine, At, table
    <3>. QED  BY <1>m, <2>1, <3>1, <3>3
  <2>3. /\ Fail(NotFound) \in Results \ Successes
        /\ Fail(BadGateway) \in Results \ Successes
    BY ReplyFacts
  <2>4. CASE \E s \in {NotFound, BadGateway} : \E C : FetchReturns(t, Fail(s), C)
    BY <2>2, <2>3, <2>4
  <2>5. CASE FetchGet(t) /\ store[At(t)] # None
             /\ fetched' = [fetched EXCEPT ![t] =
                  Reply(200, store[At(t)], Resolve(op[t].key, store[At(t)]))]
             /\ Goto(t, "bytes")
    <3>. DEFINE v == store[At(t)]
                x == Reply(200, v, Resolve(op[t].key, v))
    <3>1. v \in Values /\ <<Location[op[t].key], v>> \in Held
      BY <1>i, <1>o, <2>5, OpFacts DEF At, Typed, SharedGenuine
    <3>2. <<op[t].key, v, Resolve(op[t].key, v)>> \in Genuine
      BY <1>o, <3>1, GenuineSources
    <3>3. x.body = v /\ x.ctype = Resolve(op[t].key, v)
      BY <1>o, <3>1, OpFacts, ReplyFacts
    <3>4. fetched'[t] = x /\ resp' = resp
      BY <1>i, <2>5 DEF Goto, Typed
    <3>. HIDE DEF x
    <3>5. TaskGenuine(t)'
      BY <1>i, <1>o, <2>1, <3>2, <3>3, <3>4 DEF TaskGenuine, IsGenuine, At, table
    <3>. QED  BY <1>m, <2>1, <2>5, <3>5
  <2>6. CASE FetchBytes(t) /\ FetchReturns(t, fetched[t], {"upstream_ok"})
    <3>1. fetched[t] \in Successes
      BY <1>i, <2>6 DEF FetchBytes, PlacedAt
    <3>2. fetched[t] \in Results /\ <<op[t].key, fetched[t].body, fetched[t].ctype>> \in Genuine
      BY <1>i, <3>1, ReplyFacts DEF TaskGenuine, IsGenuine
    <3>. QED  BY <2>2, <2>6, <3>2
  <2>. QED
    BY <1>6, <2>4, <2>5, <2>6 DEF FetchUnknownBucket, FetchGet, FetchBytes
<1>7. CASE Complete(t)
  <2>1. /\ I!StoreResult(t, fetched[t]) /\ fetched[t] \in Results
        /\ UNCHANGED <<fetched, resp>>
    BY <1>7, <1>i DEF Complete, Goto, PlacedAt
  <2>2. /\ key[t] = op[t].key /\ key' = key /\ got' = got /\ result'[t] = fetched[t]
    BY <1>i, <2>1 DEF I!StoreResult, IP!TypeOK, PlacedAt
  <2>3. TaskGenuine(t)'
    BY <1>i, <1>o, <2>1, <2>2 DEF TaskGenuine, IsGenuine, At
  <2>. QED  BY <1>m, <2>1, <2>3 DEF InflightMove
<1>8. CASE CompleteRelease(t)
  <2>1. /\ I!CompleteRelease(t) /\ fetched[t] \in Results /\ fetched' = fetched
        /\ UNCHANGED <<result, key, got>>
    BY <1>8, <1>i DEF CompleteRelease, I!CompleteRelease, PlacedAt
  <2>2. resp'[t] = resp[t] \/ resp'[t] = fetched[t]
    BY <1>8, <1>i DEF CompleteRelease, Goto, End, Typed
  <2>3. TaskGenuine(t)'
    BY <1>i, <1>o, <1>r, <2>1, <2>2, AnswerGenuine
  <2>. QED  BY <1>m, <2>1, <2>3 DEF InflightMove
<1>. QED
  BY <1>1, <1>2, <1>3, <1>4, <1>5, <1>6, <1>7, <1>8 DEF Poll

\* So do the other steps: what a client, the upstream, the cache and a restart do.
LEMMA NextTasksGenuine == IInv /\ [Next]_vars => \A t \in Tasks : TaskGenuine(t)'
<1>. SUFFICES ASSUME IInv, [Next]_vars PROVE \A t \in Tasks : TaskGenuine(t)'
  OBVIOUS
<1>i. /\ IP!IInv /\ IP!TypeOK /\ IP!Roles /\ Typed /\ Untouched /\ PrefetchesFollow
      /\ SharedGenuine /\ (\A t \in Tasks : PlacedAt(t) /\ TaskGenuine(t))
      /\ Held \subseteq Held' /\ Genuine \subseteq Genuine'
  BY GenuineStays DEF IInv, IP!IInv, Placed, AllGenuine
<1>n. None \notin Successes
  BY MarkerFacts
<1>f. \A s : Fail(s).body = None
  BY DEF Fail, Reply
<1>h. \A t \in Tasks : step[t] = "idle" =>
        result[t] \notin Successes /\ got[t] \notin Successes
  BY <1>i, <1>n DEF Untouched, IP!Roles
<1>1. ASSUME NEW r \in Requests, NEW o \in Ops, Request(Handler(r), o)
      PROVE  \A u \in Tasks : TaskGenuine(u)'
  <2>. DEFINE t == Handler(r)
  <2>1. /\ t \in Tasks /\ pc[t] = "new" /\ UNCHANGED <<table, fetched>>
        /\ op' = [op EXCEPT ![t] = o]
        /\ resp' = resp \/ \E x : resp' = [resp EXCEPT ![t] = x] /\ x.body = None
    BY <1>1, <1>f, <1>i, RequestMoves
  <2>2. /\ resp'[t] # None => resp'[t].body = None
        /\ \A u \in Tasks \ {t} : op'[u] = op[u] /\ resp'[u] = resp[u]
    BY <1>i, <2>1 DEF Untouched, End, Typed
  <2>3. /\ fetched'[t] \notin Successes /\ result'[t] \notin Successes
        /\ got'[t] \notin Successes
    BY <1>i, <1>n, <1>h, <2>1 DEF Untouched, PlacedAt, table
  <2>4. TaskGenuine(t)'
    BY <2>2, <2>3 DEF TaskGenuine
  <2>. QED  BY <2>1, <2>2, <2>4, MoveGenuine
<1>2. ASSUME NEW t \in Tasks, Poll(t) PROVE \A u \in Tasks : TaskGenuine(u)'
  BY <1>2, PollGenuine
<1>3. ASSUME NEW r \in Requests, HeadOk(r) PROVE \A u \in Tasks : TaskGenuine(u)'
  <2>. DEFINE t == Handler(r)
              q == Prefetch(r)
              x == Reply(200, store[At(t)], Guess[op[t].key])
  <2>1. /\ t \in Tasks /\ q \in Tasks /\ t # q /\ pc[t] = "head"
        /\ UNCHANGED <<table, fetched>> /\ resp' = [resp EXCEPT ![t] = x]
        /\ op' = op \/ \E o : op' = [op EXCEPT ![q] = o]
    BY <1>3, TaskFacts DEF HeadOk, SpawnPrefetch, At
  <2>2. op[t].key \in Keys /\ op[t].method = "HEAD" /\ pc[q] = "new"
    BY <1>i, <2>1, OpFacts DEF PlacedAt, PrefetchesFollow
  <2>3. <<At(t), store[At(t)]>> \in Held
    BY <1>i, <2>2, OpFacts DEF SharedGenuine, At
  <2>4. resp'[t] = x /\ x.body = store[At(t)] /\ x.ctype = Guess[op[t].key] /\ op'[t] = op[t]
    BY <1>i, <2>1 DEF Reply, Typed
  <2>. HIDE DEF x
  <2>5. TaskGenuine(t)'
    BY <1>i, <2>1, <2>2, <2>3, <2>4 DEF TaskGenuine, IsGenuine, At, table
  <2>6. TaskGenuine(q)'
    <3>1. resp'[q] = resp[q] /\ resp[q] = None
      BY <1>i, <2>1, <2>2 DEF Untouched, Typed
    <3>2. /\ fetched'[q] \notin Successes /\ result'[q] \notin Successes
          /\ got'[q] \notin Successes
      BY <1>i, <1>n, <1>h, <2>1, <2>2 DEF Untouched, PlacedAt, table
    <3>. QED  BY <3>1, <3>2 DEF TaskGenuine
  <2>7. ASSUME NEW u \in Tasks, u # t, u # q PROVE TaskGenuine(u)'
    <3>1. op'[u] = op[u] /\ resp'[u] = resp[u]
      BY <1>i, <2>1, <2>7 DEF Typed
    <3>. QED  BY <1>i, <2>1, <3>1, OthersGenuine DEF table
  <2>. QED  BY <2>5, <2>6, <2>7
<1>4. ASSUME NEW r \in Requests, HeadErr(r) PROVE \A u \in Tasks : TaskGenuine(u)'
  <2>. DEFINE t == Handler(r)
  <2>1. /\ t \in Tasks /\ UNCHANGED <<table, op, fetched>>
        /\ \E x : End(t, x) /\ x.body = None
    BY <1>4, <1>f, TaskFacts DEF HeadErr
  <2>2. /\ \A u \in Tasks \ {t} : resp'[u] = resp[u]
        /\ \E x : resp'[t] = x /\ (x.body # None => <<op[t].key, x.body, x.ctype>> \in Genuine)
    BY <1>i, <2>1 DEF End, Typed
  <2>3. TaskGenuine(t)'
    BY <1>i, <2>1, <2>2, AnswerGenuine DEF table
  <2>. QED  BY <2>1, <2>2, <2>3, MoveGenuine
<1>5. ASSUME NEW r \in Requests, Cancel(r) PROVE \A u \in Tasks : TaskGenuine(u)'
  <2>1. UNCHANGED <<op, fetched, resp, result, key, got>>
    BY <1>5 DEF Cancel, Goto, I!DropGuard, I!Abandon, table
  <2>. QED  BY <1>i, <2>1, OthersGenuine
<1>6. CASE (\E t \in Tasks : ApplyUpload(t)) \/ (\E k \in Keys : Evict(k)) \/ UNCHANGED vars
  <2>1. UNCHANGED <<table, op, fetched, resp>>
    BY <1>6 DEF ApplyUpload, Evict, vars
  <2>. QED  BY <1>i, <2>1, OthersGenuine DEF table
<1>7. CASE Restart
  <2>1. /\ UNCHANGED <<op, resp>>
        /\ \A t \in Tasks : fetched'[t] = None /\ result'[t] = None /\ got'[t] = None
    BY <1>7 DEF Restart, I!Reset
  <2>. QED  BY <1>i, <1>n, <2>1 DEF TaskGenuine, IsGenuine, At
<1>. QED
  BY <1>1, <1>2, <1>3, <1>4, <1>5, <1>6, <1>7 DEF Next, PollHead

\* The cache, its disk tier and the upstream stay genuine.
LEMMA NextSharedGenuine == IInv /\ [Next]_vars => SharedGenuine'
<1>. SUFFICES ASSUME IInv, [Next]_vars PROVE SharedGenuine'
  OBVIOUS
<1>i. /\ Typed /\ SharedGenuine /\ Uploading
      /\ \A t \in Tasks : PlacedAt(t) /\ TaskGenuine(t)
      /\ Held \subseteq Held' /\ Genuine \subseteq Genuine'
  BY GenuineStays DEF IInv, Placed, AllGenuine
<1>1. CASE UNCHANGED <<store, caching>>
  BY <1>1, SharedStays
<1>2. ASSUME NEW t \in Tasks, FetchBytes(t) PROVE SharedGenuine'
  <2>1. /\ fetched[t] \in Successes /\ op[t] \in OpType /\ store' = store
        /\ \/ UNCHANGED caching
           \/ CacheUnlessCapped(op[t].key, fetched[t].body, fetched[t].ctype)
    BY <1>2, <1>i DEF FetchBytes, PlacedAt
  <2>2. /\ op[t].key \in Keys /\ fetched[t].body \in Values
        /\ fetched[t].ctype \in CTypes \cup {None}
    BY <2>1, ReplyFacts, OpFacts
  <2>3. <<op[t].key, fetched[t].body, fetched[t].ctype>> \in Genuine
    BY <1>i, <2>1 DEF TaskGenuine, IsGenuine
  <2>. QED  BY <2>1, <2>2, <2>3, SharedStays
<1>3. ASSUME NEW t \in Tasks, PutOk(t) PROVE SharedGenuine'
  <2>1. /\ upload[t] = "applied" /\ op[t] \in OpType /\ op[t].body \in Values
        /\ CacheUnlessCapped(op[t].key, op[t].body, PutType(op[t])) /\ store' = store
    BY <1>3, <1>i DEF PutOk, PlacedAt, Uploading
  <2>2. /\ op[t].key \in Keys /\ PutType(op[t]) \in CTypes \cup {None}
        /\ <<op[t].key, op[t].body, PutType(op[t])>> \in Genuine
    BY <2>1, OpFacts, GenuineSources
  <2>. QED  BY <2>1, <2>2, SharedStays
<1>4. ASSUME NEW t \in Tasks, ApplyUpload(t) PROVE SharedGenuine'
  <2>1. /\ upload[t] = "sent" /\ upload' = [upload EXCEPT ![t] = "applied"]
        /\ store' = [store EXCEPT ![At(t)] = op[t].body] /\ UNCHANGED <<op, caching>>
    BY <1>4 DEF ApplyUpload
  <2>2. op[t] \in OpType /\ op[t].body \in Values /\ At(t) \in Locations
    BY <1>i, <2>1, OpFacts DEF PlacedAt, Uploading, At
  <2>3. op[t].body \in Stored(At(t))' /\ At(t)' = At(t) /\ op[t].body \in Values \cup {None}
    BY <1>i, <2>1, <2>2 DEF Stored, At, Typed
  <2>4. <<At(t), op[t].body>> \in Held'
    BY <2>2, <2>3 DEF Held
  <2>5. ASSUME NEW l \in Locations PROVE <<l, store'[l]>> \in Held'
    BY <1>i, <2>1, <2>2, <2>4 DEF SharedGenuine, Typed
  <2>. QED  BY <1>i, <2>1, <2>5 DEF SharedGenuine, IsGenuine, caching
<1>5. ASSUME NEW k \in Keys, Evict(k) PROVE SharedGenuine'
  BY <1>i, <1>5 DEF Evict, SharedGenuine, IsGenuine, Typed
<1>6. CASE Restart
  <2>1. /\ UNCHANGED <<store, disk>>
        /\ \A k \in Keys : cache'[k] \in disk[k] \cup {None}
    BY <1>6 DEF Restart
  <2>. QED  BY <1>i, <2>1 DEF SharedGenuine, IsGenuine
<1>7. ASSUME NEW r \in Requests, NEW o \in Ops, Request(Handler(r), o)
      PROVE  UNCHANGED <<store, caching>>
  BY <1>7, RequestMoves DEF IInv
<1>8. ASSUME NEW t \in Tasks, Poll(t), ~FetchBytes(t), ~PutOk(t)
      PROVE  UNCHANGED <<store, caching>>
  BY <1>8 DEF Poll, CacheHit, GetMiss, HeadMiss, Acquire, PrefetchSkip, Register,
              Resume, Recheck, FetchUnknownBucket, FetchGet, Complete, CompleteRelease,
              SpawnedRelease, PutInit, PutBody, PutBodyErr, PutErr
<1>9. ASSUME NEW r \in Requests, HeadOk(r) \/ HeadErr(r) \/ Cancel(r)
      PROVE  UNCHANGED <<store, caching>>
  BY <1>9 DEF HeadOk, HeadErr, Cancel
<1>. QED
  BY <1>1, <1>2, <1>3, <1>4, <1>5, <1>6, <1>7, <1>8, <1>9 DEF Next, PollHead, vars

-----------------------------------------------------------------------------
(***************************************************************************)
(* Cached before it is published                                           *)
(***************************************************************************)
\* Only complete stores a result in the table (inflight.rs:66-75).
LEMMA StoredByComplete ==
  ASSUME IInv, [Next]_vars, NEW u \in Tasks, step[u] = "leader", step'[u] = "stored"
  PROVE  Complete(u)
<1>t. IP!TypeOK
  BY DEF IInv, IP!IInv
<1>1. ASSUME UNCHANGED table PROVE FALSE
  BY <1>1 DEF table
<1>2. ASSUME NEW t, I!DropGuard(t) \/ I!Abandon(t) \/ I!Register(t) \/ I!ReadResult(t)
                    \/ I!CompleteRelease(t) \/ I!SpawnedRelease(t)
                    \/ \E k \in Keys : I!Acquire(t, k)
      PROVE  FALSE
  BY <1>2, <1>t DEF I!DropGuard, I!Abandon, I!Register, I!ReadResult, I!CompleteRelease,
       I!SpawnedRelease, I!Release, I!Waiters, I!Acquire, I!Lead, I!Follow, IP!TypeOK
<1>3. ASSUME NEW t \in Tasks, Poll(t) PROVE Complete(u)
  <2>1. CASE Complete(t)
    BY <1>t, <2>1 DEF Complete, I!StoreResult, IP!TypeOK
  <2>2. CASE Acquire(t)
    BY <1>2, <2>2, OpFacts DEF Acquire, IInv, Placed, PlacedAt
  <2>3. CASE PrefetchSkip(t) \/ Register(t) \/ Resume(t) \/ CompleteRelease(t) \/ SpawnedRelease(t)
    BY <1>2, <2>3 DEF PrefetchSkip, Register, Resume, CompleteRelease, SpawnedRelease
  <2>4. CASE CacheHit(t) \/ GetMiss(t) \/ HeadMiss(t) \/ Recheck(t)
    BY <1>1, <2>4 DEF CacheHit, GetMiss, HeadMiss, Recheck
  <2>5. CASE FetchUnknownBucket(t) \/ FetchGet(t) \/ FetchBytes(t)
    BY <1>1, <2>5 DEF FetchUnknownBucket, FetchGet, FetchBytes
  <2>6. CASE PutInit(t) \/ PutBody(t) \/ PutBodyErr(t) \/ PutOk(t) \/ PutErr(t)
    BY <1>1, <2>6 DEF PutInit, PutBody, PutBodyErr, PutOk, PutErr
  <2>. QED  BY <1>3, <2>1, <2>2, <2>3, <2>4, <2>5, <2>6 DEF Poll
<1>4. ASSUME NEW r \in Requests, NEW o \in Ops, Request(Handler(r), o) PROVE FALSE
  BY <1>1, <1>4 DEF Request, Undecodable, Unauthorized, InvalidPath, StartRead,
                    StartPut, PutUnknownBucket, Arrive
<1>5. ASSUME NEW r \in Requests, PollHead(r) PROVE FALSE
  BY <1>1, <1>5 DEF PollHead, HeadOk, HeadErr
<1>6. ASSUME NEW r \in Requests, Cancel(r) PROVE FALSE
  BY <1>1, <1>2, <1>6 DEF Cancel
<1>7. CASE (\E t \in Tasks : ApplyUpload(t)) \/ (\E k \in Keys : Evict(k)) \/ UNCHANGED vars
  BY <1>1, <1>7 DEF ApplyUpload, Evict, vars
<1>8. ASSUME Restart PROVE FALSE
  BY <1>8 DEF Restart, I!Reset
<1>. QED
  BY <1>3, <1>4, <1>5, <1>6, <1>7, <1>8 DEF Next

\* But for losses and restarts, a key once cached stays cached.
LEMMA CachedStays ==
  ASSUME IInv, [Next]_vars, ~Restart, NEW k \in Keys \ Lossy, cache[k] # None
  PROVE  cache'[k] # None
<1>i. Typed /\ \A t \in Tasks : PlacedAt(t)
  BY DEF IInv, Placed
<1>1. ASSUME NEW j \in Keys, NEW v, NEW c, CacheUnlessCapped(j, v, c), v \in Values,
             c \in CTypes \cup {None}
      PROVE  cache'[k] # None
  <2>1. [body |-> v, ctype |-> c] # None
    BY <1>1, MarkerFacts DEF CacheEntries
  <2>. QED  BY <1>1, <1>i, <2>1 DEF CacheUnlessCapped, CachePut, caching, Typed
<1>2. ASSUME NEW t \in Tasks, Poll(t) PROVE cache'[k] # None
  <2>1. CASE FetchBytes(t)
    <3>1. op[t].key \in Keys /\ fetched[t].body \in Values /\ fetched[t].ctype \in CTypes \cup {None}
      BY <1>i, <2>1, OpFacts, ReplyFacts DEF FetchBytes, PlacedAt
    <3>. QED  BY <1>1, <2>1, <3>1 DEF FetchBytes, caching
  <2>2. CASE PutOk(t)
    <3>1. op[t].key \in Keys /\ op[t].body \in Values /\ PutType(op[t]) \in CTypes \cup {None}
      BY <1>i, <2>2, OpFacts DEF IInv, Uploading, PutOk, PlacedAt
    <3>. QED  BY <1>1, <2>2, <3>1 DEF PutOk
  <2>3. CASE ~FetchBytes(t) /\ ~PutOk(t)
    <3>1. cache' = cache
      BY <1>2, <2>3
         DEF Poll, CacheHit, GetMiss, HeadMiss, Acquire, PrefetchSkip, Register, Resume,
             Recheck, FetchUnknownBucket, FetchGet, Complete, CompleteRelease,
             SpawnedRelease, PutInit, PutBody, PutBodyErr, PutErr, caching
    <3>. QED  BY <3>1
  <2>. QED  BY <2>1, <2>2, <2>3
<1>3. ASSUME NEW r \in Requests, NEW o \in Ops, Request(Handler(r), o) PROVE cache'[k] # None
  BY <1>3, RequestMoves DEF IInv, caching
<1>4. ASSUME NEW r \in Requests, PollHead(r) \/ Cancel(r) PROVE cache'[k] # None
  BY <1>4 DEF PollHead, HeadOk, HeadErr, Cancel, caching
<1>5. CASE (\E t \in Tasks : ApplyUpload(t)) \/ UNCHANGED vars
  BY <1>5 DEF ApplyUpload, vars, caching
<1>6. ASSUME NEW j \in Keys, Evict(j) PROVE cache'[k] # None
  BY <1>6, <1>i DEF Evict, Typed
<1>. QED  BY <1>2, <1>3, <1>4, <1>5, <1>6 DEF Next

\* A task that carries a cacheable object to complete already did, or has just
\* cached it (handler.rs:551-584).
LEMMA ReachesComplete ==
  ASSUME IInv, [Next]_vars, NEW t \in Tasks, pc'[t] = "complete"
  PROVE  /\ op'[t] = op[t]
         /\ \/ pc[t] = "complete" /\ fetched'[t] = fetched[t]
            \/ fetched'[t] \notin Successes
            \/ /\ fetched'[t] \in Successes
               /\ CacheUnlessCapped(op[t].key, fetched'[t].body, fetched'[t].ctype)
<1>i. Typed /\ PrefetchesFollow /\ PlacedAt(t)
  BY DEF IInv, Placed
<1>1. ASSUME NEW u \in Tasks, Poll(u), u # t
      PROVE  op'[t] = op[t] /\ pc[t] = "complete" /\ fetched'[t] = fetched[t]
  <2>1. op' = op /\ pc'[t] = pc[t]
    BY <1>1, PollMoves
  <2>2. fetched' = fetched \/ \E x : fetched' = [fetched EXCEPT ![u] = x]
    BY <1>1
       DEF Poll, CacheHit, GetMiss, HeadMiss, Acquire, PrefetchSkip, Register, Resume,
           Recheck, FetchUnknownBucket, FetchGet, FetchBytes, FetchReturns, Complete,
           CompleteRelease, SpawnedRelease, PutInit, PutBody, PutBodyErr, PutOk, PutErr
  <2>. QED  BY <1>1, <1>i, <2>1, <2>2 DEF Typed
<1>2. CASE Poll(t)
  <2>1. op' = op
    BY <1>2, PollMoves
  <2>2. ASSUME NEW s \in {NotFound, BadGateway}, NEW C, FetchReturns(t, Fail(s), C)
        PROVE  fetched'[t] \notin Successes
    BY <1>i, <2>2, ReplyFacts DEF FetchReturns, Typed
  <2>3. CASE FetchUnknownBucket(t) \/ FetchGet(t)
    BY <1>i, <2>1, <2>2, <2>3 DEF FetchUnknownBucket, FetchGet, Goto, Typed
  <2>4. CASE FetchBytes(t)
    <3>1. CASE FetchReturns(t, Fail(BadGateway), {"upstream_err"})
      BY <2>1, <2>2, <3>1
    <3>2. CASE /\ FetchReturns(t, fetched[t], {"upstream_ok"})
               /\ CacheUnlessCapped(op[t].key, fetched[t].body, fetched[t].ctype)
      <4>1. fetched'[t] = fetched[t] /\ fetched[t] \in Successes
        BY <1>i, <2>4, <3>2 DEF FetchReturns, FetchBytes, PlacedAt, Typed
      <4>. QED  BY <2>1, <3>2, <4>1
    <3>. QED  BY <2>4, <3>1, <3>2 DEF FetchBytes
  <2>5. CASE SpawnedRelease(t) \/ Register(t)
    BY <2>1, <2>5 DEF SpawnedRelease, Register
  <2>6. CASE CacheHit(t) \/ GetMiss(t) \/ HeadMiss(t) \/ Acquire(t) \/ PrefetchSkip(t)
               \/ Resume(t) \/ Recheck(t) \/ Complete(t) \/ CompleteRelease(t)
               \/ PutInit(t) \/ PutBody(t) \/ PutBodyErr(t) \/ PutOk(t) \/ PutErr(t)
    <3>1. pc'[t] # "complete"
      BY <1>i, <2>6
         DEF CacheHit, GetMiss, HeadMiss, Acquire, PrefetchSkip, Resume, Recheck, Complete,
             CompleteRelease, PutInit, PutBody, PutBodyErr, PutOk, PutErr, Goto, End, Typed
    <3>. QED  BY <3>1
  <2>. QED  BY <1>2, <2>3, <2>4, <2>5, <2>6 DEF Poll
<1>3. ASSUME NEW r \in Requests, NEW o \in Ops, Request(Handler(r), o)
      PROVE  op'[t] = op[t] /\ pc[t] = "complete" /\ fetched'[t] = fetched[t]
  BY <1>3, <1>i, RequestMoves
<1>4. ASSUME NEW r \in Requests, PollHead(r) \/ Cancel(r)
      PROVE  op'[t] = op[t] /\ pc[t] = "complete" /\ fetched'[t] = fetched[t]
  BY <1>4, <1>i, TaskFacts
     DEF PollHead, HeadOk, SpawnPrefetch, HeadErr, Cancel, Goto, End, Typed
<1>5. CASE (\E u \in Tasks : ApplyUpload(u)) \/ (\E k \in Keys : Evict(k)) \/ UNCHANGED vars
  BY <1>5 DEF ApplyUpload, Evict, vars
<1>6. ASSUME Restart PROVE FALSE
  BY <1>6, <1>i DEF Restart, Live, Typed
<1>. QED  BY <1>1, <1>2, <1>3, <1>4, <1>5, <1>6 DEF Next

\* So whatever a leader is about to publish, or has published, is in the cache.
LEMMA NextCached ==
  IInv /\ [Next]_vars => CachedBeforeComplete' /\ CachedBeforeLanding'
<1>. SUFFICES ASSUME IInv, [Next]_vars
              PROVE  CachedBeforeComplete' /\ CachedBeforeLanding'
  OBVIOUS
<1>i. /\ IP!IInv /\ IP!TypeOK /\ Typed /\ CachedBeforeComplete /\ CachedBeforeLanding
      /\ \A t \in Tasks : PlacedAt(t)
  BY DEF IInv, IP!IInv, Placed
<1>1. CASE Restart
  <2>1. \A t \in Tasks : pc'[t] # "complete" /\ step'[t] = "idle"
    BY <1>i, <1>1 DEF Restart, I!Reset, Live, Typed
  <2>. QED  BY <2>1 DEF CachedBeforeComplete, CachedBeforeLanding
<1>2. CASE ~Restart
  <2>1. CachedBeforeComplete'
    <3>1. SUFFICES ASSUME NEW t \in Tasks, pc'[t] = "complete", fetched'[t] \in Successes,
                          fetched'[t].body \notin Oversize, op'[t].key \notin Lossy
                   PROVE  cache'[op'[t].key] # None
      BY DEF CachedBeforeComplete
    <3>2. op'[t] = op[t] /\ op[t].key \in Keys
      <4>1. op'[t] \in OpType
        BY <3>1, NextPlaced DEF Placed, PlacedAt
      <4>. QED  BY <3>1, <4>1, ReachesComplete, OpFacts
    <3>3. CASE pc[t] = "complete" /\ fetched'[t] = fetched[t]
      BY <1>2, <1>i, <3>1, <3>2, <3>3, CachedStays DEF CachedBeforeComplete
    <3>4. CASE CacheUnlessCapped(op[t].key, fetched'[t].body, fetched'[t].ctype)
      <4>1. [body |-> fetched'[t].body, ctype |-> fetched'[t].ctype] # None
        BY <3>1, ReplyFacts, MarkerFacts DEF CacheEntries
      <4>. QED
        BY <1>i, <3>1, <3>2, <3>4, <4>1 DEF CacheUnlessCapped, CachePut, Typed
    <3>. QED  BY <3>1, <3>3, <3>4, ReachesComplete
  <2>2. CachedBeforeLanding'
    <3>1. SUFFICES ASSUME NEW t \in Tasks, entry'[t] = None, step'[t] \in {"stored", "done"},
                          result'[t] \in Successes, result'[t].body \notin Oversize,
                          key'[t] \notin Lossy
                   PROVE  cache'[key'[t]] # None
      BY DEF CachedBeforeLanding
    <3>2. CASE /\ entry[t] = None /\ step[t] \in {"stored", "done"}
               /\ result'[t] = result[t] /\ key'[t] = key[t]
      <4>1. key[t] \in Keys
        BY <1>i, <3>2 DEF IP!IInv, IP!Roles
      <4>. QED  BY <1>2, <1>i, <3>1, <3>2, <4>1, CachedStays DEF CachedBeforeLanding
    <3>3. CASE step[t] = "leader" /\ step'[t] = "stored"
      <4>1. /\ pc[t] = "complete" /\ key'[t] = key[t] /\ result'[t] = fetched[t]
            /\ cache' = cache
        BY <1>i, <3>3, StoredByComplete
           DEF Complete, I!StoreResult, caching, IP!TypeOK
      <4>2. key[t] = op[t].key
        BY <1>i, <3>3 DEF PlacedAt
      <4>. QED  BY <1>i, <3>1, <4>1, <4>2 DEF CachedBeforeComplete
    <3>4. CASE UNCHANGED table
      BY <3>1, <3>2, <3>4 DEF table
    <3>5. CASE I!Reset
      BY <3>1, <3>5 DEF I!Reset
    <3>6. ASSUME NEW u \in Tasks, InflightMove(u), u # t
          PROVE  /\ entry[t] = None /\ step[t] \in {"stored", "done"}
                 /\ result'[t] = result[t] /\ key'[t] = key[t]
      BY <1>i, <3>1, <3>6, TableFrame
    <3>7. CASE InflightMove(t)
      <4>1. CASE \E r \in Results : I!StoreResult(t, r)
        BY <1>i, <3>3, <4>1 DEF I!StoreResult, IP!TypeOK
      <4>2. CASE I!CompleteRelease(t)
        BY <3>1, <3>2, <4>2 DEF I!CompleteRelease
      <4>3. CASE I!ReadResult(t)
        BY <1>i, <3>1, <4>3, MarkerFacts DEF I!ReadResult, IP!IInv, IP!Roles
      <4>4. CASE \/ I!DropGuard(t) \/ I!SpawnedRelease(t) \/ I!Register(t) \/ I!Abandon(t)
                 \/ \E k \in Keys : I!Acquire(t, k)
        BY <1>i, <3>1, <4>4
           DEF I!DropGuard, I!SpawnedRelease, I!Release, I!Register, I!Abandon,
               I!Acquire, I!Lead, I!Follow, IP!TypeOK
      <4>. QED  BY <3>7, <4>1, <4>2, <4>3, <4>4 DEF InflightMove
    <3>. QED  BY <3>2, <3>4, <3>5, <3>6, <3>7, TableMoves
  <2>. QED  BY <2>1, <2>2
<1>. QED  BY <1>1, <1>2

-----------------------------------------------------------------------------
(***************************************************************************)
(* The inductive invariant                                                 *)
(***************************************************************************)
\* A gateway that has served nobody satisfies it (main.rs:96-165).
LEMMA InitIInv == Init => IInv
<1>. SUFFICES ASSUME Init PROVE IInv
  OBVIOUS
<1>1. IP!IInv
  BY FreshTable DEF Init
<1>2. \A t \in Tasks : step[t] = "idle" /\ result[t] = None /\ got[t] = None /\ entry[t] = None
  BY DEF Init, I!Init
<1>3. Typed
  BY GatewayAssumption DEF Init, Typed, Places
<1>4. Placed /\ Untouched /\ FollowsOwnKey
  BY <1>2 DEF Init, Placed, PlacedAt, Untouched, FollowsOwnKey
<1>5. PrefetchesFollow /\ Uploading /\ Responded
  BY TaskFacts DEF Init, PrefetchesFollow, Uploading, Responded
<1>6. AllGenuine
  <2>1. \A l \in Locations : <<l, store[l]>> \in Held
    BY GatewayAssumption DEF Init, Held, Stored
  <2>2. SharedGenuine
    BY <2>1 DEF Init, SharedGenuine
  <2>3. \A t \in Tasks : TaskGenuine(t)
    BY <1>2, MarkerFacts DEF Init, TaskGenuine
  <2>. QED  BY <2>2, <2>3 DEF AllGenuine
<1>7. CachedBeforeComplete /\ CachedBeforeLanding
  BY <1>2 DEF Init, CachedBeforeComplete, CachedBeforeLanding
<1>. QED  BY <1>1, <1>3, <1>4, <1>5, <1>6, <1>7 DEF IInv

\* And every step of it keeps it.
LEMMA NextIInv == IInv /\ [Next]_vars => IInv'
BY NextTable, NextTyped, NextPlaced, NextBookkeeping, NextUntouched, NextFollows,
   NextTasksGenuine, NextSharedGenuine, NextCached
   DEF IInv, Bookkeeping, AllGenuine

\* IInv holds in every reachable state.
LEMMA Inductive == Spec => []IInv
BY InitIInv, NextIInv, PTL DEF Spec

-----------------------------------------------------------------------------
(***************************************************************************)
(* The invariants                                                          *)
(***************************************************************************)
\* Two requests of one key fetch it upstream at the same time only if one of them
\* followed a leader whose client had left (handler.rs:166-190): the table alone
\* cannot promise that, it takes where the handlers are when they use it.
THEOREM OverlapOnlyAfterLoss == Spec => []OverlapNeedsLostLeader
<1>1. IInv => OverlapNeedsLostLeader
  <2>1. SUFFICES ASSUME IInv, NEW t \in Tasks, NEW u \in Tasks, NEW k \in Keys,
                        Fetching(t, k), Fetching(u, k), t # u
                 PROVE  \E f \in {t, u} : entry[f] # None /\ pc[entry[f]] = "cancelled"
    BY DEF OverlapNeedsLostLeader
  <2>2. ASSUME NEW f \in Tasks, Fetching(f, k), step[f] # "leader"
        PROVE  entry[f] # None /\ pc[entry[f]] = "cancelled"
    <3>1. step[f] = "done" /\ entry[f] # None /\ got[f] = None
      BY <2>1, <2>2 DEF IInv, Placed, PlacedAt, Fetching
    <3>2. entry[f] \in Tasks /\ entry[entry[f]] = None /\ step[entry[f]] = "gone"
      BY <2>1, <3>1 DEF IInv, IP!IInv, IP!TypeOK, IP!EntriesAreLed, IP!FollowersAgreeWithLeader
    <3>. QED  BY <2>1, <3>1, <3>2 DEF IInv, Placed, PlacedAt
  <2>3. CASE step[t] = "leader" /\ step[u] = "leader"
    <3>1. inner[key[t]] = t /\ inner[key[u]] = u /\ key[t] = k /\ key[u] = k
      BY <2>1, <2>3
         DEF IInv, IP!IInv, IP!ReleaseFindsOwnEntry, IP!Flying, Placed, PlacedAt, Fetching
    <3>. QED  BY <2>1, <3>1
  <2>. QED  BY <2>1, <2>2, <2>3
<1>. QED  BY <1>1, Inductive, PTL

\* Neither the cache nor an answer holds what the upstream never held under the
\* key, with uploads that fail, are cut short, or are applied after all, and
\* with a restart over the disk tier (handler.rs:378-463).
THEOREM NothingIsInvented == Spec => []NothingInvented
<1>1. IInv => NothingInvented
  <2>. SUFFICES ASSUME IInv PROVE NothingInvented
    OBVIOUS
  <2>1. ASSUME NEW k \in Keys, cache[k] # None
        PROVE  cache[k].body \in Stored(Location[k])
    BY <2>1 DEF IInv, AllGenuine, SharedGenuine, IsGenuine, Genuine
  <2>2. ASSUME NEW t \in Tasks, Answered(t), resp[t].body # None
        PROVE  resp[t].body \in Stored(At(t))
    <3>1. resp[t] # None /\ TaskGenuine(t)
      BY <2>2 DEF IInv, AllGenuine, Responded, Answered
    <3>. QED  BY <2>2, <3>1 DEF TaskGenuine, IsGenuine, Genuine, Held, At
  <2>. QED  BY <2>1, <2>2 DEF NothingInvented
<1>. QED  BY <1>1, Inductive, PTL

\* A body travels with a type that belongs to it, whoever cached it and whoever is
\* answered from it (handler.rs:457-462, 556-598, 722-733).
THEOREM TypesAlwaysBelong == Spec => []TypesBelong
<1>1. IInv => TypesBelong
  <2>. SUFFICES ASSUME IInv PROVE TypesBelong
    OBVIOUS
  <2>1. ASSUME NEW k \in Keys, cache[k] # None
        PROVE  cache[k].ctype \in TypesOf(k, cache[k].body)
    BY <2>1 DEF IInv, AllGenuine, SharedGenuine, IsGenuine, Genuine
  <2>2. ASSUME NEW t \in Tasks, Answered(t), resp[t].body # None
        PROVE  \/ resp[t].ctype \in TypesOf(op[t].key, resp[t].body)
               \/ op[t].method = "HEAD" /\ resp[t].ctype = Guess[op[t].key]
    <3>1. resp[t] # None /\ TaskGenuine(t)
      BY <2>2 DEF IInv, AllGenuine, Responded, Answered
    <3>. QED  BY <2>2, <3>1 DEF TaskGenuine, IsGenuine, Genuine
  <2>. QED  BY <2>1, <2>2 DEF TypesBelong
<1>. QED  BY <1>1, Inductive, PTL

\* A leader publishes a cacheable object only after caching it
\* (handler.rs:159-160, 567-572).
THEOREM CachedFirst == Spec => []CachedBeforeLanding
<1>1. IInv => CachedBeforeLanding
  BY DEF IInv
<1>. QED  BY <1>1, Inductive, PTL

-----------------------------------------------------------------------------
(***************************************************************************)
(* The rest of the types                                                   *)
(***************************************************************************)
\* Counters and histories, which no other invariant needs the types of.
Recorded ==
  /\ restarts \in 0..MaxRestarts /\ inserts \in Nat
  /\ metrics \in [Counters -> Nat]
  /\ seen \in [Tasks -> SUBSET (Values \cup {None})]
  /\ barred \in [Tasks -> SUBSET (Values \cup {None})]
  /\ past \subseteq Tasks

\* No step loses a counter or a history (metrics.rs:115-153, foyer.rs:111-119).
LEMMA NextRecorded == IInv /\ Recorded /\ [Next]_vars => Recorded'
<1>. SUFFICES ASSUME IInv, Recorded, [Next]_vars PROVE Recorded'
  OBVIOUS
<1>i. Typed /\ \A t \in Tasks : PlacedAt(t)
  BY DEF IInv, Placed
<1>1. ASSUME metrics' = metrics \/ \E S : Count(S)
      PROVE  metrics' \in [Counters -> Nat]
  BY <1>1 DEF Recorded, Count
<1>2. ASSUME metrics' = metrics \/ \E S : Count(S),
             inserts' \in {inserts, inserts + 1}, UNCHANGED <<seen, barred, runs>>
      PROVE  Recorded'
  BY <1>1, <1>2 DEF Recorded, runs
<1>3. ASSUME NEW r \in Requests, NEW o \in Ops, Request(Handler(r), o) PROVE Recorded'
  <2>. DEFINE t == Handler(r)
  <2>1. /\ metrics' = metrics \/ \E S : Count(S)
        /\ seen' = [seen EXCEPT ![t] = {store[Location[o.key]]}]
        /\ \/ barred' = [barred EXCEPT ![t] =
                           (Values \cup {None}) \ {store[Location[o.key]]}]
           \/ barred' = [barred EXCEPT ![t] = {}]
        /\ UNCHANGED <<inserts, runs>>
    BY <1>3
       DEF Request, Undecodable, Unauthorized, InvalidPath, StartRead, StartPut,
           PutUnknownBucket, Arrive, caching
  <2>2. store[Location[o.key]] \in Values \cup {None}
    BY <1>i, OpFacts DEF Typed
  <2>3. metrics' \in [Counters -> Nat]
    BY <1>1, <2>1
  <2>. QED  BY <2>1, <2>2, <2>3 DEF Recorded, runs
<1>4. ASSUME NEW t \in Tasks, Poll(t) PROVE Recorded'
  <2>1. UNCHANGED <<seen, barred, runs>>
    BY <1>4
       DEF Poll, CacheHit, GetMiss, HeadMiss, Acquire, PrefetchSkip, Register, Resume,
           Recheck, FetchUnknownBucket, FetchGet, FetchBytes, Complete, CompleteRelease,
           SpawnedRelease, PutInit, PutBody, PutBodyErr, PutOk, PutErr, history
  <2>2. metrics' = metrics \/ \E S : Count(S)
    BY <1>4
       DEF Poll, CacheHit, GetMiss, HeadMiss, Acquire, PrefetchSkip, Register, Resume,
           Recheck, FetchUnknownBucket, FetchGet, FetchBytes, FetchReturns, Complete,
           CompleteRelease, SpawnedRelease, PutInit, PutBody, PutBodyErr, PutOk, PutErr
  <2>3. inserts' \in {inserts, inserts + 1}
    BY <1>4
       DEF Poll, CacheHit, GetMiss, HeadMiss, Acquire, PrefetchSkip, Register, Resume,
           Recheck, FetchUnknownBucket, FetchGet, FetchBytes, Complete, CompleteRelease,
           SpawnedRelease, PutInit, PutBody, PutBodyErr, PutOk, PutErr, caching,
           CacheUnlessCapped, CachePut
  <2>. QED  BY <1>2, <2>1, <2>2, <2>3
<1>5. ASSUME NEW r \in Requests, PollHead(r) \/ Cancel(r) PROVE Recorded'
  <2>1. /\ metrics' = metrics \/ \E S : Count(S)
        /\ UNCHANGED <<inserts, seen, barred, runs>>
    BY <1>5 DEF PollHead, HeadOk, HeadErr, Cancel, caching, history
  <2>. QED  BY <1>2, <2>1
<1>6. ASSUME NEW t \in Tasks, ApplyUpload(t) PROVE Recorded'
  <2>1. op[t].body \in Values
    BY <1>6 DEF IInv, Uploading, ApplyUpload
  <2>2. /\ seen' = [u \in Tasks |-> IF Live(u) /\ At(u) = At(t)
                                    THEN seen[u] \cup {op[t].body} ELSE seen[u]]
        /\ barred' = [u \in Tasks |-> IF Live(u) /\ At(u) = At(t)
                                      THEN barred[u] \ {op[t].body} ELSE barred[u]]
        /\ UNCHANGED <<inserts, metrics, runs>>
    BY <1>6 DEF ApplyUpload, caching
  <2>. QED  BY <2>1, <2>2 DEF Recorded, runs
<1>7. CASE (\E k \in Keys : Evict(k)) \/ UNCHANGED vars
  BY <1>7 DEF Evict, vars, caching, history, runs, Recorded
<1>8. CASE Restart
  BY <1>8, GatewayAssumption DEF Restart, Recorded
<1>. QED  BY <1>3, <1>4, <1>5, <1>6, <1>7, <1>8 DEF Next

\* Every variable keeps its type, and no handler ends without an answer
\* (handler.rs:113-497).
THEOREM TypeCorrect == Spec => []TypeOK
<1>1. Init => Recorded
  BY GatewayAssumption DEF Init, Recorded
<1>2. IInv /\ Recorded => TypeOK
  <2>. SUFFICES ASSUME IInv, Recorded PROVE TypeOK
    OBVIOUS
  <2>1. I!TypeOK
    BY DEF IInv, IP!IInv, IP!TypeOK, I!TypeOK, IP!Steps, I!Steps
  <2>2. \A t \in Tasks : Answered(t) => resp[t] # None
    BY DEF IInv, Responded, Answered
  <2>. QED  BY <2>1, <2>2 DEF IInv, Typed, Recorded, TypeOK
<1>. QED  BY <1>1, <1>2, NextRecorded, Inductive, PTL DEF Spec

\* Waiting does not chain, for every number of requests and keys: an entry in the
\* table is led by a task that holds its guard, and such a task is at an await of
\* its own (handler.rs:146-190, inflight.rs:66-89).
THEOREM NoWaitingChain == Spec => []WaitsOnARunner
<1>1. IInv => WaitsOnARunner
  <2>. SUFFICES ASSUME IInv, NEW t \in Tasks, step[t] = "waiting", ~Stranded(t)
                PROVE  \/ step[entry[t]] = "dropped"
                       \/ pc[entry[t]] \in {"fetch", "bytes", "complete", "release"}
    BY DEF WaitsOnARunner
  <2>. DEFINE e == entry[t]
  <2>1. /\ key[t] \in Keys /\ e \in Tasks /\ inner[key[t]] = e
        /\ step[e] \in {"leader", "stored", "dropped"}
    BY MarkerFacts DEF IInv, IP!IInv, IP!Roles, IP!NoOrphanEntry,
           IP!Flying, Stranded
  <2>2. PlacedAt(e) /\ pc[e] \in Places /\ entry[e] = None
    BY <2>1 DEF IInv, Placed, Typed, IP!IInv, IP!Roles
  <2>. QED  BY <2>1, <2>2 DEF PlacedAt, Places
<1>. QED  BY <1>1, Inductive, PTL

-----------------------------------------------------------------------------
\* What the handlers rely on of the table (handler.rs:146-190, 787-803): it is the
\* abstract Singleflight in every run of the process.  A restart begins anew.
SingleflightInEveryRun ==
  /\ IP!Abstract!Init
  /\ [][IP!Abstract!Next \/ IP!Abstract!Init']_(IP!Abstract!vars)

\* The handlers use the table as it wants to be used, so that the refinement of
\* Singleflight, proved of Inflight alone, holds in the gateway: whoever joins a
\* flight takes what that flight landed with, whatever handlers, disconnects and
\* restarts do (handler.rs:146-190, inflight.rs:36-96).
THEOREM SharesFlights == Spec => SingleflightInEveryRun
<1>m. None \notin Tasks \cup Results /\ Open \notin Results \cup {None}
  BY MarkerFacts
<1>1. Init => IP!Abstract!Init
  BY <1>m, IP!InitRefines DEF Init, I!Init, IP!Init
<1>2. IInv /\ [Next]_vars => [IP!Abstract!Next \/ IP!Abstract!Init']_(IP!Abstract!vars)
  <2>. SUFFICES ASSUME IInv, [Next]_vars
                PROVE  [IP!Abstract!Next \/ IP!Abstract!Init']_(IP!Abstract!vars)
    OBVIOUS
  <2>1. CASE I!Reset
    BY <2>1 DEF I!Reset, IP!Abstract!Init, IP!Landed
  <2>2. CASE [IP!Next]_(IP!vars)
    BY <1>m, <2>2, IP!NextRefines DEF IInv
  <2>3. ASSUME NEW t \in Tasks, InflightMove(t) PROVE IP!Next
    BY <2>3, TableStep
  <2>. QED  BY <2>1, <2>2, <2>3, TableMoves DEF table, IP!vars
<1>. QED  BY <1>1, <1>2, Inductive, PTL DEF Spec, SingleflightInEveryRun
=============================================================================
