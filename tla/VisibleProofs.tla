---------------------------- MODULE VisibleProofs ---------------------------
(***************************************************************************)
(* Read your writes, for every set of requests, keys and contents: under   *)
(* what README.md:11 assumes of the objects, and if none of them is above  *)
(* the cap or lost by the cache, whoever asks after an upload was          *)
(* acknowledged sees it, whatever flights are under way and wherever the   *)
(* process is started again.                                               *)
(***************************************************************************)
EXTENDS ImmutableProofs

\* Whatever is handed to the cache stays there.
Cacheable == Lossy = {} /\ Oversize = {}

\* What the upstream holds is not barred from any request under way.
Unbarred ==
  /\ barred \in [Tasks -> SUBSET (Values \cup {None})]
  /\ \A t \in Tasks : Live(t) /\ op[t].method # "PREFETCH" => store[At(t)] \notin barred[t]

\* Only buckets that exist are uploaded to, and only what was applied is
\* acknowledged.
UploadsRouted ==
  \A t \in Tasks :
    /\ pc[t] \in {"init_upload", "upload", "finish"} \/ upload[t] # "none"
         => op[t].key \notin Unrouted
    /\ pc[t] = "done" /\ upload[t] # "none" /\ resp[t].status = 200 => upload[t] = "applied"

\* The object of k is there, and nobody carries an older 404 of it about.
Known(k) ==
  /\ k \notin Unrouted /\ store[Location[k]] # None
  /\ \A t \in Tasks :
       /\ pc[t] # "new" /\ op[t].key = k => fetched[t] # Fail(NotFound)
       /\ key[t] = k => result[t] # Fail(NotFound)

\* An acknowledged upload is in the cache, or no flight is older than it: the
\* cache may be cold after a restart, but then the table is empty, too.
Covered == \A k \in Keys : Settled(k) => cache[k] # None \/ Known(k)

\* So is it for a read that was sent after it.
Guarded ==
  \A t \in Tasks :
    Live(t) /\ op[t].method \in {"GET", "HEAD"} /\ None \in barred[t] =>
      \/ Known(op[t].key)
      \/ pc[t] = "lookup" /\ cache[op[t].key] # None

VInv == Unbarred /\ UploadsRouted /\ Covered /\ Guarded /\ AckedWritesVisible

-----------------------------------------------------------------------------
\* Steps of the runtime change what is fetched for their task only: as it is, by
\* its leader's result, an object, an error of the upstream, or a 404 for an
\* unknown bucket or an object that is not there (handler.rs:169-190, 498-585).
LEMMA PollFetches ==
  ASSUME IInv, NEW t \in Tasks, Poll(t)
  PROVE  /\ \A u \in Tasks \ {t} : fetched'[u] = fetched[u]
         /\ \/ fetched'[t] = fetched[t]
            \/ step[t] = "woken" /\ fetched'[t] = result[entry[t]]
            \/ fetched'[t] # Fail(NotFound)
            \/ op[t].key \in Unrouted
            \/ store[At(t)] = None
<1>i. Typed /\ IP!TypeOK /\ PlacedAt(t)
  BY DEF IInv, IP!IInv, Placed
<1>f. \A v, c : Reply(200, v, c) # Fail(NotFound)
  BY DEF Reply, Fail, NotFound
<1>g. Fail(BadGateway) # Fail(NotFound)
  BY DEF Reply, Fail, NotFound, BadGateway
<1>1. CASE Resume(t)
  BY <1>i, <1>1 DEF Resume, I!ReadResult, Typed, IP!TypeOK
<1>2. CASE FetchUnknownBucket(t) \/ FetchGet(t) \/ FetchBytes(t)
  BY <1>i, <1>f, <1>g, <1>2 DEF FetchUnknownBucket, FetchGet, FetchBytes, FetchReturns, Typed
<1>3. CASE ~Resume(t) /\ ~FetchUnknownBucket(t) /\ ~FetchGet(t) /\ ~FetchBytes(t)
  <2>1. fetched' = fetched
    BY <1>3 DEF Poll, CacheHit, GetMiss, HeadMiss, Acquire, PrefetchSkip, Register, Recheck,
         Complete, CompleteRelease, SpawnedRelease, PutInit, PutBody, PutBodyErr, PutOk, PutErr
  <2>. QED  BY <2>1
<1>. QED  BY <1>1, <1>2, <1>3

\* An object that is there stays, and with it the absence of older 404s.
LEMMA KnownStays ==
  ASSUME IInv, [Next]_vars, NEW k \in Keys, Known(k)
  PROVE  Known(k)'
<1>i. /\ IP!IInv /\ Typed /\ Untouched /\ FollowsOwnKey /\ PrefetchesFollow
      /\ \A t \in Tasks : PlacedAt(t)
  BY DEF IInv, Placed
<1>n. None # Fail(NotFound)
  BY ReplyFacts, MarkerFacts
<1>1. store'[Location[k]] # None
  <2>1. ASSUME NEW t \in Tasks, ApplyUpload(t) PROVE store'[Location[k]] # None
    <3>1. /\ store' = [store EXCEPT ![At(t)] = op[t].body] /\ op[t].body # None
      BY <2>1, MarkerFacts DEF ApplyUpload, IInv, Uploading
    <3>. QED  BY <1>i, <3>1, OpFacts DEF Typed, Known
  <2>. QED  BY <2>1, StoreMoves DEF Known
<1>2. ASSUME NEW t \in Tasks, pc'[t] # "new", op'[t].key = k
      PROVE  fetched'[t] # Fail(NotFound)
  <2>1. CASE UNCHANGED <<op, pc, fetched>>
    BY <1>2, <2>1 DEF Known
  <2>2. ASSUME NEW r \in Requests, NEW o \in Ops, Request(Handler(r), o)
        PROVE  fetched'[t] # Fail(NotFound)
    <3>1. /\ Handler(r) \in Tasks /\ pc[Handler(r)] = "new" /\ fetched' = fetched
          /\ t # Handler(r) => op'[t] = op[t] /\ pc'[t] = pc[t]
      BY <1>i, <2>2, RequestMoves
    <3>. QED  BY <1>i, <1>n, <1>2, <3>1 DEF Untouched, Known
  <2>3. ASSUME NEW u \in Tasks, Poll(u) PROVE fetched'[t] # Fail(NotFound)
    <3>1. /\ op' = op /\ pc[u] # "new"
          /\ t # u => pc'[t] = pc[t]
      BY <2>3, PollMoves
    <3>2. CASE t # u
      BY <1>2, <2>3, <3>1, <3>2, PollFetches DEF Known
    <3>3. CASE t = u
      <4>1. fetched[t] # Fail(NotFound) /\ At(t) = Location[k]
        BY <1>2, <3>1, <3>3 DEF Known, At
      <4>2. step[t] = "woken" => result[entry[t]] # Fail(NotFound)
        <5>1. step[t] = "woken" => entry[t] # None /\ entry[t] \in Tasks
          BY <1>i, MarkerFacts DEF IP!IInv, IP!Roles, IP!TypeOK
        <5>2. step[t] = "woken" => key[entry[t]] = k
          BY <1>i, <1>2, <3>1, <5>1 DEF FollowsOwnKey, PlacedAt
        <5>. QED  BY <5>1, <5>2 DEF Known
      <4>. QED  BY <1>2, <2>3, <3>1, <3>3, <4>1, <4>2, PollFetches DEF Known
    <3>. QED  BY <3>2, <3>3
  <2>4. ASSUME NEW r \in Requests, HeadOk(r) PROVE fetched'[t] # Fail(NotFound)
    <3>. DEFINE q == Prefetch(r)
    <3>1. /\ q \in Tasks /\ Handler(r) \in Tasks /\ pc[q] = "new" /\ fetched' = fetched
          /\ pc[Handler(r)] = "head"
          /\ t # q => op'[t] = op[t]
          /\ t \notin {q, Handler(r)} => pc'[t] = pc[t]
      BY <1>i, <2>4, TaskFacts DEF HeadOk, SpawnPrefetch, PrefetchesFollow, Typed
    <3>. QED  BY <1>i, <1>n, <1>2, <3>1 DEF Untouched, Known
  <2>5. ASSUME NEW r \in Requests, HeadErr(r) \/ Cancel(r) PROVE fetched'[t] # Fail(NotFound)
    <3>1. /\ UNCHANGED <<op, fetched>>
          /\ pc'[t] # pc[t] => pc[t] # "new"
      BY <1>i, <2>5, TaskFacts DEF HeadErr, Cancel, Goto, End, Live, Typed
    <3>. QED  BY <1>2, <3>1 DEF Known
  <2>6. CASE (\E u \in Tasks : ApplyUpload(u)) \/ (\E j \in Keys : Evict(j)) \/ UNCHANGED vars
    BY <2>1, <2>6 DEF ApplyUpload, Evict, vars
  <2>7. CASE Restart
    BY <1>n, <2>7 DEF Restart
  <2>. QED  BY <2>2, <2>3, <2>4, <2>5, <2>6, <2>7 DEF Next, PollHead
<1>3. ASSUME NEW t \in Tasks, key'[t] = k PROVE result'[t] # Fail(NotFound)
  <2>1. CASE UNCHANGED table
    BY <1>3, <2>1 DEF table, Known
  <2>2. CASE I!Reset
    BY <1>n, <2>2 DEF I!Reset
  <2>3. ASSUME NEW u \in Tasks, NEW j \in Keys, I!Acquire(u, j)
        PROVE  result'[t] # Fail(NotFound)
    BY <1>i, <1>n, <1>3, <2>3 DEF I!Acquire, IP!IInv, IP!TypeOK, Untouched, Known
  <2>4. ASSUME NEW u \in Tasks, NEW x \in Results, I!StoreResult(u, x)
        PROVE  result'[t] # Fail(NotFound)
    <3>1. step[u] = "leader" /\ step'[u] = "stored" /\ key' = key
      BY <1>i, <2>4 DEF I!StoreResult, IP!IInv, IP!TypeOK
    <3>2. Complete(u)
      BY <3>1, StoredByComplete
    <3>3. /\ result' = [result EXCEPT ![u] = fetched[u]] /\ pc[u] = "complete"
          /\ key[u] = op[u].key
      BY <1>i, <3>1, <3>2 DEF Complete, I!StoreResult, PlacedAt
    <3>. QED  BY <1>i, <1>3, <3>1, <3>3 DEF IP!IInv, IP!TypeOK, Known
  <2>5. ASSUME NEW u \in Tasks, InflightMove(u), \A j \in Keys : ~I!Acquire(u, j),
               \A x \in Results : ~I!StoreResult(u, x)
        PROVE  result'[t] # Fail(NotFound)
    <3>1. UNCHANGED <<key, result>>
      BY <2>5 DEF InflightMove, I!CompleteRelease, I!DropGuard, I!SpawnedRelease,
                  I!Register, I!ReadResult, I!Abandon
    <3>. QED  BY <1>3, <3>1 DEF Known
  <2>. QED  BY <2>1, <2>2, <2>3, <2>4, <2>5, TableMoves
<1>. QED  BY <1>1, <1>2, <1>3 DEF Known

-----------------------------------------------------------------------------
\* An upload stays under way or done, of its request, and is answered 200 by the
\* last step of put_object only (handler.rs:431-495).
LEMMA UploadMoves ==
  ASSUME IInv, [Next]_vars, NEW u \in Tasks
  PROVE  /\ upload[u] # "none" => upload'[u] # "none" /\ op'[u] = op[u]
         /\ upload'[u] # "none" /\ pc'[u] = "done" /\ resp'[u].status = 200 =>
              \/ PutOk(u)
              \/ upload[u] # "none" /\ pc[u] = "done" /\ resp[u].status = 200
<1>i. /\ Typed /\ Uploading /\ PrefetchesFollow
      /\ \A t \in Tasks : PlacedAt(t)
      /\ upload[u] # "none" => pc[u] \in {"finish", "done", "cancelled"}
  BY DEF IInv, Placed, Uploading
<1>s. CASE /\ upload'[u] # "none" <=> upload[u] # "none"
           /\ op'[u] = op[u] /\ pc'[u] = pc[u] /\ resp'[u] = resp[u]
  BY <1>s
<1>e. CASE /\ upload'[u] = upload[u]
           /\ pc[u] \in {"new", "head", "lookup"}
  BY <1>e, <1>i DEF Typed
<1>1. ASSUME NEW r \in Requests, NEW o \in Ops, Request(Handler(r), o)
      PROVE  /\ upload'[u] = upload[u]
             /\ pc[u] = "new" \/ UNCHANGED <<op[u], pc[u], resp[u]>>
  BY <1>1, <1>i, RequestMoves
<1>2. ASSUME NEW t \in Tasks, Poll(t), t # u
      PROVE  upload'[u] = upload[u] /\ UNCHANGED <<op[u], pc[u], resp[u]>>
  BY <1>2, <1>i, PollMoves DEF Typed
<1>3. CASE Poll(u)
  <2>1. /\ op' = op
        /\ \/ upload' = upload
           \/ pc[u] = "upload" /\ pc'[u] = "finish" /\ upload'[u] # "none"
    BY <1>3, <1>i, PollMoves DEF Typed
  <2>2. CASE upload' # upload \/ upload[u] = "none"
    BY <1>i, <2>1, <2>2 DEF Typed
  <2>3. CASE upload' = upload /\ upload[u] # "none"
    <3>1. PutOk(u) \/ PutErr(u) \/ SpawnedRelease(u)
      BY <1>3, <1>i, <2>3
         DEF Poll, CacheHit, GetMiss, HeadMiss, Acquire, PrefetchSkip, Register,
             Resume, Recheck, FetchUnknownBucket, FetchGet, FetchBytes, Complete,
             CompleteRelease, PutInit, PutBody, PutBodyErr
    <3>2. PutErr(u) => resp'[u].status # 200
      BY <1>i DEF PutErr, End, Fail, Reply, Errors, NotFound, BadGateway, Typed
    <3>3. SpawnedRelease(u) => UNCHANGED <<pc, resp>>
      BY DEF SpawnedRelease
    <3>. QED  BY <2>1, <2>3, <3>1, <3>2, <3>3
  <2>. QED  BY <2>2, <2>3
<1>4. ASSUME NEW r \in Requests, HeadOk(r)
      PROVE  /\ upload'[u] = upload[u]
             /\ pc[u] \in {"new", "head"} \/ UNCHANGED <<op[u], pc[u], resp[u]>>
  BY <1>4, <1>i, TaskFacts DEF HeadOk, SpawnPrefetch, PrefetchesFollow, Typed
<1>5. ASSUME NEW r \in Requests, HeadErr(r) \/ Cancel(r)
      PROVE  /\ upload' = upload /\ op' = op
             /\ pc[u] = "head" \/ pc'[u] = "cancelled" \/ UNCHANGED <<pc[u], resp[u]>>
  BY <1>5, <1>i, TaskFacts DEF HeadErr, Cancel, Goto, End, Typed
<1>6. ASSUME NEW t \in Tasks, ApplyUpload(t)
      PROVE  /\ upload'[u] # "none" <=> upload[u] # "none"
             /\ UNCHANGED <<op, pc, resp>>
  BY <1>6, <1>i DEF ApplyUpload, Typed
<1>7. ASSUME (\E k \in Keys : Evict(k)) \/ UNCHANGED vars
      PROVE  UNCHANGED <<upload, op, pc, resp>>
  BY <1>7 DEF Evict, vars
<1>8. ASSUME Restart
      PROVE  UNCHANGED <<upload, op, resp>> /\ (pc'[u] = "cancelled" \/ pc'[u] = pc[u])
  BY <1>8, <1>i DEF Restart, Typed
<1>9. \/ Poll(u)
      \/ \E t \in Tasks : Poll(t) /\ t # u
      \/ \E r \in Requests : \/ \E o \in Ops : Request(Handler(r), o)
                            \/ HeadOk(r) \/ HeadErr(r) \/ Cancel(r)
      \/ \E t \in Tasks : ApplyUpload(t)
      \/ (\E k \in Keys : Evict(k)) \/ UNCHANGED vars
      \/ Restart
  BY DEF Next, PollHead
<1>. QED
  BY <1>s, <1>e, <1>1, <1>2, <1>3, <1>4, <1>5, <1>6, <1>7, <1>8, <1>9

\* An upload begins after its bucket was looked up, and is answered 200 only when
\* the upstream said that it was applied (handler.rs:359-362, 438-495).
LEMMA NextUploadsRouted == IInv /\ UploadsRouted /\ [Next]_vars => UploadsRouted'
<1>. SUFFICES ASSUME IInv, UploadsRouted, [Next]_vars, NEW t \in Tasks
              PROVE  /\ pc'[t] \in {"init_upload", "upload", "finish"} \/ upload'[t] # "none"
                          => op'[t].key \notin Unrouted
                     /\ pc'[t] = "done" /\ upload'[t] # "none" /\ resp'[t].status = 200
                          => upload'[t] = "applied"
  BY DEF UploadsRouted
<1>i. /\ Typed /\ Uploading /\ PrefetchesFollow
  BY DEF IInv
<1>1. ASSUME pc'[t] = "done", upload'[t] # "none", resp'[t].status = 200
      PROVE  upload'[t] = "applied"
  <2>1. PutOk(t) => upload[t] = "applied"
    BY DEF PutOk
  <2>. QED  BY <1>1, <2>1, UploadMoves, AppliedStays DEF UploadsRouted
<1>2. CASE upload[t] # "none"
  BY <1>1, <1>2, UploadMoves DEF UploadsRouted
<1>3. CASE upload[t] = "none"
  <2>. SUFFICES ASSUME pc'[t] \in {"init_upload", "upload", "finish"} \/ upload'[t] # "none"
                PROVE  op'[t].key \notin Unrouted
    BY <1>1
  <2>1. ASSUME NEW r \in Requests, NEW o \in Ops, Request(Handler(r), o)
        PROVE  op'[t].key \notin Unrouted
    <3>1. /\ Handler(r) \in Tasks /\ upload' = upload /\ op' = [op EXCEPT ![Handler(r)] = o]
          /\ t = Handler(r) => /\ pc'[t] \notin {"upload", "finish"}
                               /\ pc'[t] = "init_upload" => o.key \notin Unrouted
          /\ t # Handler(r) => pc'[t] = pc[t]
      BY <2>1, <1>i, RequestMoves
    <3>. QED  BY <1>i, <1>3, <3>1 DEF UploadsRouted, Typed
  <2>2. ASSUME NEW u \in Tasks, Poll(u) PROVE op'[t].key \notin Unrouted
    <3>1. /\ op' = op /\ (u # t => pc'[t] = pc[t])
          /\ upload'[t] # "none" => u = t /\ pc[t] = "upload"
      BY <1>i, <1>3, <2>2, PollMoves DEF Typed
    <3>. QED  BY <2>2, <3>1, PollMoves DEF UploadsRouted
  <2>3. ASSUME NEW r \in Requests, HeadOk(r) PROVE op'[t].key \notin Unrouted
    <3>1. /\ upload' = upload
          /\ op'[t] = op[t] \/ pc'[t] \in {"new", "acquire"}
          /\ pc'[t] \in {"done", "new", "acquire"} \/ pc'[t] = pc[t]
      BY <2>3, <1>i, TaskFacts DEF HeadOk, SpawnPrefetch, PrefetchesFollow, Typed
    <3>. QED  BY <1>3, <2>3, <3>1 DEF UploadsRouted, HeadOk
  <2>4. ASSUME NEW r \in Requests, HeadErr(r) \/ Cancel(r) PROVE op'[t].key \notin Unrouted
    <3>1. /\ UNCHANGED <<op, upload>>
          /\ pc'[t] \in {"done", "cancelled"} \/ pc'[t] = pc[t]
      BY <2>4, <1>i, TaskFacts DEF HeadErr, Cancel, Goto, End, Typed
    <3>. QED  BY <1>3, <3>1 DEF UploadsRouted
  <2>5. ASSUME NEW u \in Tasks, ApplyUpload(u) PROVE op'[t].key \notin Unrouted
    BY <2>5, <1>i, <1>3 DEF ApplyUpload, UploadsRouted, Typed
  <2>6. CASE (\E k \in Keys : Evict(k)) \/ UNCHANGED vars
    BY <2>6, <1>3 DEF Evict, vars, UploadsRouted
  <2>7. CASE Restart
    BY <2>7, <1>i, <1>3 DEF Restart, Live, UploadsRouted, Typed
  <2>. QED  BY <2>1, <2>2, <2>3, <2>4, <2>5, <2>6, <2>7 DEF Next, PollHead
<1>. QED  BY <1>i, <1>2, <1>3 DEF Typed

-----------------------------------------------------------------------------
\* A key's uploads become settled by the last step of one of them only.
LEMMA SettledMoves ==
  ASSUME IInv, [Next]_vars, NEW k \in Keys, Settled(k)'
  PROVE  Settled(k) \/ \E t \in Tasks : PutOk(t) /\ op[t].key = k
<1>. SUFFICES ASSUME \A t \in Tasks : ~(PutOk(t) /\ op[t].key = k)
              PROVE  Settled(k)
  OBVIOUS
<1>1. \A u \in Tasks : upload'[u] # "none" /\ op'[u].key = k =>
                         pc'[u] = "done" /\ resp'[u].status = 200
  BY DEF Settled
<1>2. ASSUME NEW u \in Tasks, upload'[u] # "none", op'[u].key = k
      PROVE  /\ upload[u] # "none" /\ op[u].key = k
             /\ pc[u] = "done" /\ resp[u].status = 200
  <2>1. PutOk(u) => op' = op
    BY DEF PutOk
  <2>. QED  BY <1>1, <1>2, <2>1, UploadMoves
<1>3. PICK u \in Tasks : upload'[u] # "none" /\ op'[u].key = k
  BY DEF Settled
<1>. QED  BY <1>2, <1>3, UploadMoves DEF Settled

\* A settled object is there (handler.rs:431-437).
LEMMA SettledStored ==
  ASSUME IInv, KeepsStored, UploadsRouted, NEW k \in Keys, Settled(k)
  PROVE  store[Location[k]] # None /\ k \notin Unrouted
<1>1. PICK t \in Tasks : /\ upload[t] # "none" /\ op[t].key = k
                         /\ pc[t] = "done" /\ resp[t].status = 200
  BY DEF Settled
<1>2. upload[t] = "applied" /\ k \notin Unrouted /\ op[t].body \in Values
  BY <1>1 DEF UploadsRouted, IInv, Uploading
<1>3. op[t].body \in Stored(Location[k]) /\ op[t].body # None
  BY <1>1, <1>2, MarkerFacts DEF Stored, At
<1>. QED  BY <1>2, <1>3, OpFacts DEF KeepsStored

\* Once an upload was acknowledged its object is cached, or the process is another
\* one, whose flights are all younger (handler.rs:457-462, main.rs:144-169).
LEMMA NextCovered ==
  ASSUME Cacheable, IInv, KeepsStored, UploadsRouted, Covered, [Next]_vars
  PROVE  Covered'
<1>. SUFFICES ASSUME NEW k \in Keys, Settled(k)'
              PROVE  cache'[k] # None \/ Known(k)'
  BY DEF Covered
<1>i. Typed /\ IP!TypeOK
  BY DEF IInv, IP!IInv
<1>1. ASSUME NEW t \in Tasks, PutOk(t), op[t].key = k PROVE cache'[k] # None
  <2>1. /\ op[t].body \in Values /\ op[t].body \notin Oversize
        /\ PutType(op[t]) \in CTypes \cup {None}
    BY <1>1, OpFacts DEF PutOk, IInv, Uploading, Placed, PlacedAt, Cacheable
  <2>2. [body |-> op[t].body, ctype |-> PutType(op[t])] # None
    BY <2>1, MarkerFacts DEF CacheEntries
  <2>. QED  BY <1>i, <1>1, <2>1, <2>2 DEF PutOk, CacheUnlessCapped, CachePut, Typed
<1>2. CASE Restart
  <2>1. \A t \in Tasks : ~PutOk(t)
    BY <1>i, <1>2 DEF Restart, PutOk, End, Live, Typed
  <2>2. Settled(k) /\ store' = store
    BY <1>2, <2>1, SettledMoves DEF Restart
  <2>3. None # Fail(NotFound)
    BY ReplyFacts, MarkerFacts
  <2>4. \A t \in Tasks : fetched'[t] = None /\ result'[t] = None
    BY <1>2 DEF Restart, I!Reset
  <2>. QED  BY <2>2, <2>3, <2>4, SettledStored DEF Known
<1>3. CASE Settled(k) /\ ~Restart
  BY <1>3, KnownStays, CachedStays DEF Covered, Cacheable
<1>. QED  BY <1>1, <1>2, <1>3, SettledMoves

-----------------------------------------------------------------------------
\* What is barred from a request is what the upstream did not hold when it came,
\* less what it has come to hold since.
LEMMA NextUnbarred == IInv /\ Unbarred /\ [Next]_vars => Unbarred'
<1>. SUFFICES ASSUME IInv, Unbarred, [Next]_vars PROVE Unbarred'
  OBVIOUS
<1>i. Typed /\ \A t \in Tasks : PlacedAt(t)
  BY DEF IInv, Placed
<1>1. ASSUME NEW r \in Requests, NEW o \in Ops, Request(Handler(r), o) PROVE Unbarred'
  <2>. DEFINE t == Handler(r)
              b == IF Settled(o.key) THEN (Values \cup {None}) \ {store[Location[o.key]]}
                                     ELSE {}
  <2>1. /\ t \in Tasks /\ op' = [op EXCEPT ![t] = o] /\ store' = store
        /\ barred' = [barred EXCEPT ![t] = b]
        /\ \E where : pc' = [pc EXCEPT ![t] = where]
    BY <1>1, <1>i, RequestMoves DEF Arrive
  <2>2. b \subseteq Values \cup {None} /\ store[Location[o.key]] \notin b
    OBVIOUS
  <2>. HIDE DEF b
  <2>. QED  BY <1>i, <2>1, <2>2 DEF Unbarred, Live, At, Typed
<1>2. ASSUME NEW t \in Tasks, Poll(t) PROVE Unbarred'
  <2>1. op' = op /\ barred' = barred /\ \A u \in Tasks : Live(u)' => Live(u)
    BY <1>2, PollMoves, PollAnswers DEF Live
  <2>2. store' = store
    BY <1>2, PollStore
  <2>. QED  BY <2>1, <2>2 DEF Unbarred, At
<1>3. ASSUME NEW r \in Requests, PollHead(r) \/ Cancel(r) PROVE Unbarred'
  <2>1. /\ UNCHANGED <<store, barred>>
        /\ op' = op \/ \E o : o.method = "PREFETCH" /\ op' = [op EXCEPT ![Prefetch(r)] = o]
    BY <1>3 DEF PollHead, HeadOk, SpawnPrefetch, HeadErr, Cancel, history
  <2>2. \A u \in Tasks : Live(u)' => Live(u) \/ op'[u].method = "PREFETCH"
    BY <1>3, <1>i, TaskFacts
       DEF PollHead, HeadOk, SpawnPrefetch, HeadErr, Cancel, Goto, End, Live, Typed
  <2>. QED  BY <1>i, <2>1, <2>2, TaskFacts DEF Unbarred, At, Typed
<1>4. ASSUME NEW t \in Tasks, ApplyUpload(t) PROVE Unbarred'
  <2>1. /\ store' = [store EXCEPT ![At(t)] = op[t].body] /\ UNCHANGED <<op, pc>>
        /\ barred' = [u \in Tasks |-> IF Live(u) /\ At(u) = At(t)
                                      THEN barred[u] \ {op[t].body} ELSE barred[u]]
    BY <1>4 DEF ApplyUpload
  <2>2. barred' \in [Tasks -> SUBSET (Values \cup {None})]
    BY <2>1 DEF Unbarred
  <2>3. ASSUME NEW u \in Tasks, Live(u), op[u].method # "PREFETCH"
        PROVE  store'[At(u)] \notin barred'[u]
    <3>1. At(u) \in Locations
      BY <1>i, <2>3, OpFacts DEF PlacedAt, Live, At
    <3>. QED  BY <1>i, <2>1, <2>3, <3>1 DEF Unbarred, Typed
  <2>. QED  BY <2>1, <2>2, <2>3 DEF Unbarred, Live, At
<1>5. CASE (\E k \in Keys : Evict(k)) \/ UNCHANGED vars
  BY <1>5 DEF Evict, vars, history, Unbarred, Live, At
<1>6. CASE Restart
  BY <1>6, <1>i DEF Restart, Unbarred, Live, Typed
<1>. QED  BY <1>1, <1>2, <1>3, <1>4, <1>5, <1>6 DEF Next

\* A read sent after an acknowledged upload finds the entry at its first look, or
\* meets nobody with a 404 from before (handler.rs:142-190).
LEMMA NextGuarded ==
  ASSUME Cacheable, IInv, Unbarred, Covered, Guarded, [Next]_vars
  PROVE  Guarded'
<1>. SUFFICES ASSUME NEW t \in Tasks, Live(t)', op'[t].method \in {"GET", "HEAD"},
                     None \in barred'[t]
              PROVE  (Known(op[t].key) \/ (pc[t] = "lookup" /\ cache[op[t].key] # None))'
  BY DEF Guarded
<1>i. Typed /\ (\A u \in Tasks : PlacedAt(u)) /\ PrefetchesFollow
  BY DEF IInv, Placed
<1>k. ASSUME NEW k \in Keys, op'[t].key = k, Known(k) PROVE Known(op[t].key)'
  <2>1. Known(k)'
    BY <1>k, KnownStays
  <2>. QED  BY <1>k, <2>1
<1>c. ASSUME ~Restart, NEW k \in Keys, op'[t].key = k, cache[k] # None
      PROVE  (cache[op[t].key] # None)'
  BY <1>c, CachedStays DEF Cacheable
<1>1. ASSUME ~Restart, op'[t] = op[t], None \in barred[t], Live(t),
             pc[t] = "lookup" => pc'[t] = "lookup" \/ cache[op[t].key] = None
      PROVE  (Known(op[t].key) \/ (pc[t] = "lookup" /\ cache[op[t].key] # None))'
  <2>1. op[t].key \in Keys
    BY <1>i, <1>1, OpFacts DEF PlacedAt, Live
  <2>2. Known(op[t].key) \/ (pc[t] = "lookup" /\ cache[op[t].key] # None)
    BY <1>1 DEF Guarded
  <2>. QED  BY <1>1, <1>k, <1>c, <2>1, <2>2
<1>2. ASSUME NEW r \in Requests, NEW o \in Ops, Request(Handler(r), o), ~Restart
      PROVE  (Known(op[t].key) \/ (pc[t] = "lookup" /\ cache[op[t].key] # None))'
  <2>1. /\ op' = [op EXCEPT ![Handler(r)] = o]
        /\ barred' = [barred EXCEPT ![Handler(r)] = IF Settled(o.key)
                         THEN (Values \cup {None}) \ {store[Location[o.key]]} ELSE {}]
        /\ pc'[Handler(r)] \in {"done", "lookup", "init_upload"}
        /\ pc'[Handler(r)] = "init_upload" => o.method = "PUT"
        /\ \A u \in Tasks \ {Handler(r)} : pc'[u] = pc[u]
    BY <1>2, <1>i, RequestMoves DEF Arrive
  <2>2. CASE t = Handler(r)
    <3>1. pc'[t] = "lookup" /\ op'[t] = o /\ o.key \in Keys
      BY <1>i, <2>1, <2>2, OpFacts DEF Live, Typed
    <3>2. Settled(o.key)
      BY <2>1, <2>2 DEF Unbarred
    <3>. QED  BY <1>2, <1>k, <1>c, <3>1, <3>2 DEF Covered
  <2>3. CASE t # Handler(r)
    BY <1>1, <1>2, <1>i, <2>1, <2>3 DEF Live, Typed
  <2>. QED  BY <2>2, <2>3
<1>3. ASSUME NEW u \in Tasks, Poll(u), ~Restart
      PROVE  (Known(op[t].key) \/ (pc[t] = "lookup" /\ cache[op[t].key] # None))'
  <2>1. op' = op /\ barred' = barred /\ Live(t) /\ (t # u => pc'[t] = pc[t])
    BY <1>3, PollMoves, PollAnswers DEF Live
  <2>2. CASE t = u /\ pc[t] = "lookup"
    <3>1. CacheHit(t) \/ Missed(op[t].key) \/ pc'[t] = "lookup"
      BY <1>3, <2>2 DEF Poll, GetMiss, HeadMiss, Acquire, PrefetchSkip, Register,
         Resume, Recheck, FetchUnknownBucket, FetchGet, FetchBytes, Complete,
         CompleteRelease, SpawnedRelease, PutInit, PutBody, PutBodyErr, PutOk, PutErr
    <3>2. ~CacheHit(t)
      BY <1>i DEF CacheHit, End, Live, Typed
    <3>. QED  BY <1>1, <1>3, <2>1, <3>1, <3>2 DEF Missed, Cacheable
  <2>. QED  BY <1>1, <1>3, <2>1, <2>2
<1>4. ASSUME NEW r \in Requests, PollHead(r) \/ Cancel(r), ~Restart
      PROVE  (Known(op[t].key) \/ (pc[t] = "lookup" /\ cache[op[t].key] # None))'
  <2>1. barred' = barred /\ op'[t] = op[t] /\ pc'[t] = pc[t]
    BY <1>4, <1>i, TaskFacts
       DEF PollHead, HeadOk, SpawnPrefetch, HeadErr, Cancel, Goto, End, Live, Typed,
           PrefetchesFollow, history
  <2>. QED  BY <1>1, <1>4, <2>1 DEF Live
<1>5. ASSUME NEW u \in Tasks, ApplyUpload(u), ~Restart
      PROVE  (Known(op[t].key) \/ (pc[t] = "lookup" /\ cache[op[t].key] # None))'
  <2>1. UNCHANGED <<op, pc>> /\ None \in barred[t]
    BY <1>5 DEF ApplyUpload
  <2>. QED  BY <1>1, <1>5, <2>1 DEF Live
<1>6. ASSUME (\E k \in Keys : Evict(k)) \/ UNCHANGED vars, ~Restart
      PROVE  (Known(op[t].key) \/ (pc[t] = "lookup" /\ cache[op[t].key] # None))'
  <2>1. UNCHANGED <<op, pc, barred>>
    BY <1>6 DEF Evict, vars, history
  <2>. QED  BY <1>1, <1>6, <2>1 DEF Live
<1>7. CASE Restart
  BY <1>7, <1>i DEF Restart, Live, Typed
<1>. QED  BY <1>2, <1>3, <1>4, <1>5, <1>6, <1>7 DEF Next

-----------------------------------------------------------------------------
\* A read that answers 404 says so because it looked, because its bucket is
\* unknown, or because a flight said so (handler.rs:169-190, 264-267).
LEMMA PollMissing ==
  ASSUME IInv, [Next]_vars, NEW t \in Tasks, Poll(t), op[t].method \in {"GET", "HEAD"},
         pc'[t] = "done", Live(t), resp'[t] = Fail(NotFound)
  PROVE  ~Known(op[t].key)
<1>i. Typed /\ PlacedAt(t) /\ Uploading /\ IP!TypeOK
  BY DEF IInv, IP!IInv, Placed
<1>k. op[t].key \in Keys /\ op' = op
  BY <1>i, PollMoves, OpFacts DEF PlacedAt, Live
<1>. SUFFICES ASSUME Known(op[t].key) PROVE FALSE
  OBVIOUS
<1>1. fetched'[t] # Fail(NotFound)
  <2>1. Known(op[t].key)'
    <3>1. PICK k \in Keys : k = op[t].key
      BY <1>k
    <3>2. Known(k)'
      BY <3>1, KnownStays
    <3>. QED  BY <1>k, <3>1, <3>2
  <2>. QED  BY <1>k, <2>1 DEF Known
<1>f. \A e : Found(e) # Fail(NotFound)
  BY DEF Found, Reply, Fail, NotFound
<1>2. CASE CacheHit(t) \/ GetMiss(t) \/ HeadMiss(t) \/ Acquire(t) \/ Register(t)
  BY <1>2, <1>i, <1>f
     DEF CacheHit, GetMiss, HeadMiss, Acquire, Register, Goto, End, Live, Typed, Known
<1>3. CASE Resume(t) \/ FetchUnknownBucket(t) \/ FetchGet(t) \/ FetchBytes(t)
  BY <1>1, <1>3, <1>i
     DEF Resume, FetchUnknownBucket, FetchGet, FetchBytes, FetchReturns, Goto, End, Typed
<1>4. CASE Recheck(t) \/ Complete(t) \/ CompleteRelease(t)
  BY <1>1, <1>4, <1>i, <1>f DEF Recheck, Complete, CompleteRelease, Goto, End, Typed
<1>5. CASE SpawnedRelease(t) \/ PrefetchSkip(t)
  BY <1>5 DEF SpawnedRelease, PrefetchSkip, Live
<1>6. CASE PutInit(t) \/ PutBody(t) \/ PutBodyErr(t) \/ PutOk(t) \/ PutErr(t)
  BY <1>6, <1>i DEF PutInit, PutBody, PutBodyErr, PutOk, PutErr, Uploading
<1>. QED  BY <1>2, <1>3, <1>4, <1>5, <1>6 DEF Poll

\* So no answer contradicts an upload acknowledged before its request.
LEMMA NextVisible ==
  ASSUME Immutable, Cacheable, IInv, RInv, Unbarred, Guarded, AckedWritesVisible,
         [Next]_vars
  PROVE  AckedWritesVisible'
<1>i. Typed /\ (\A t \in Tasks : PlacedAt(t)) /\ Unbarred
  BY DEF IInv, Placed
<1>1. ASSUME NEW r \in Requests, NEW o \in Ops, Request(Handler(r), o)
      PROVE  AckedWritesVisible'
  <2>. DEFINE t == Handler(r)
  <2>1. /\ t \in Tasks /\ past' = past /\ op' = [op EXCEPT ![t] = o]
        /\ pc'[t] = "done" /\ o.method # "PUT" => resp'[t].status \in {400, 401}
        /\ \A u \in Tasks \ {t} : /\ pc'[u] = pc[u] /\ resp'[u] = resp[u]
                                  /\ barred'[u] = barred[u]
    <3>1. \E b : barred' = [barred EXCEPT ![t] = b]
      BY <1>1, <1>i, RequestMoves DEF Arrive
    <3>2. \A s \in {400, 401, NotFound} : Fail(s).status = s
      BY DEF Fail, Reply
    <3>3. \A s : RefusedAt(o, s) => s \in {400, 401} \/ o.method = "PUT"
      BY DEF RefusedAt
    <3>. QED  BY <1>1, <1>i, <3>1, <3>2, <3>3, RequestMoves DEF Unbarred, runs
  <2>. QED  BY <1>i, <2>1 DEF AckedWritesVisible, Answered, NotFound, Typed
<1>2. ASSUME NEW t \in Tasks, Poll(t) PROVE AckedWritesVisible'
  <2>1. /\ op' = op /\ UNCHANGED <<barred, past>> /\ op[t] \in OpType
        /\ \A u \in Tasks \ {t} : pc'[u] = pc[u] /\ resp'[u] = resp[u]
    BY <1>2, <1>i, PollMoves, PollAnswers DEF PlacedAt
  <2>2. ASSUME Answered(t)', op[t].method # "PUT", resp'[t].status \in {200, NotFound}
        PROVE  resp'[t].body \notin barred'[t]
    <3>1. /\ Live(t) /\ op[t].method \in {"GET", "HEAD"} /\ pc'[t] = "done"
          /\ resp'[t] \in Results \cup {Fail(400)}
      BY <1>2, <2>1, <2>2, PollAnswers DEF Answered, OpType
    <3>2. CASE resp'[t] \in Successes
      BY <1>i, <1>2, <2>1, <3>1, <3>2, PollReads DEF Unbarred
    <3>3. CASE resp'[t] \notin Successes
      <4>1. resp'[t] = Fail(NotFound) /\ resp'[t].body = None
        BY <2>2, <3>1, <3>3 DEF Results, Errors, Fail, Reply, NotFound, BadGateway
      <4>2. ~Known(op[t].key)
        BY <1>2, <3>1, <4>1, PollMissing
      <4>3. ASSUME pc[t] = "lookup", cache[op[t].key] # None, None \in barred[t] PROVE FALSE
        <5>1. CacheHit(t) \/ Missed(op[t].key)
          BY <1>2, <3>1, <4>3
             DEF Poll, GetMiss, HeadMiss, Acquire, PrefetchSkip, Register, Resume, Recheck,
                 FetchUnknownBucket, FetchGet, FetchBytes, Complete, CompleteRelease,
                 SpawnedRelease, PutInit, PutBody, PutBodyErr, PutOk, PutErr
        <5>2. CacheHit(t) => resp'[t].status = 200
          BY <1>i DEF CacheHit, End, Found, Reply, Typed
        <5>3. ~Missed(op[t].key)
          BY <4>3 DEF Missed, Cacheable
        <5>. QED  BY <4>1, <5>1, <5>2, <5>3 DEF Fail, Reply, NotFound
      <4>. QED  BY <2>1, <3>1, <4>1, <4>2, <4>3 DEF Guarded
    <3>. QED  BY <3>2, <3>3
  <2>. QED  BY <1>i, <2>1, <2>2 DEF AckedWritesVisible, Answered
<1>3. ASSUME NEW r \in Requests, HeadOk(r) \/ HeadErr(r) PROVE AckedWritesVisible'
  <2>. DEFINE t == Handler(r)
              q == Prefetch(r)
  <2>1. /\ t \in Tasks /\ q \in Tasks /\ t # q /\ UNCHANGED <<barred, past>>
        /\ pc[t] = "head" /\ op'[t] = op[t]
        /\ resp'[t].status \in {200, NotFound} => resp'[t].body = store[At(t)]
        /\ \A u \in Tasks \ {t} : \/ op'[u] = op[u] /\ pc'[u] = pc[u] /\ resp'[u] = resp[u]
                                  \/ pc'[u] = "acquire"
    BY <1>3, <1>i, TaskFacts
       DEF HeadOk, HeadErr, SpawnPrefetch, At, End, Reply, Fail, NotFound, BadGateway,
           history, runs, Typed
  <2>2. store[At(t)] \notin barred[t]
    BY <1>i, <2>1 DEF Unbarred, Live, PlacedAt
  <2>. QED  BY <1>i, <2>1, <2>2 DEF AckedWritesVisible, Answered
<1>4. ASSUME NEW r \in Requests, Cancel(r) PROVE AckedWritesVisible'
  <2>. DEFINE t == Handler(r)
  <2>1. /\ t \in Tasks /\ UNCHANGED <<op, barred, past, resp>> /\ pc'[t] = "cancelled"
        /\ \A u \in Tasks \ {t} : pc'[u] = pc[u]
    BY <1>4, <1>i, TaskFacts DEF Cancel, Goto, history, runs, Typed
  <2>. QED  BY <2>1 DEF AckedWritesVisible, Answered
<1>5. ASSUME NEW t \in Tasks, ApplyUpload(t) PROVE AckedWritesVisible'
  <2>1. /\ UNCHANGED <<op, pc, resp, past>>
        /\ barred' = [u \in Tasks |-> IF Live(u) /\ At(u) = At(t)
                                      THEN barred[u] \ {op[t].body} ELSE barred[u]]
    BY <1>5 DEF ApplyUpload, runs
  <2>. QED  BY <2>1 DEF AckedWritesVisible, Answered
<1>6. CASE (\E k \in Keys : Evict(k)) \/ UNCHANGED vars
  BY <1>6 DEF Evict, vars, history, runs, AckedWritesVisible, Answered
<1>7. CASE Restart
  BY <1>7 DEF Restart, AckedWritesVisible
<1>. QED  BY <1>1, <1>2, <1>3, <1>4, <1>5, <1>6, <1>7 DEF Next, PollHead

-----------------------------------------------------------------------------
\* If objects do not change (README.md:11), fit the cap and stay in the cache,
\* writes are read: a GET or HEAD sent after an upload was acknowledged is not told
\* what the upload replaced, although it may join a flight that began before it
\* and although the process may have been started again in between.
THEOREM WritesAreRead ==
  ASSUME Immutable, Cacheable PROVE Spec => []AckedWritesVisible
<1>1. Init => VInv
  <2>. SUFFICES ASSUME Init PROVE VInv
    OBVIOUS
  <2>1. \A k : ~Settled(k)
    BY DEF Init, Settled
  <2>. QED  BY <2>1 DEF Init, VInv, Unbarred, UploadsRouted, Covered, Guarded,
                       AckedWritesVisible, Answered, Live
<1>2. IInv /\ RInv /\ VInv /\ [Next]_vars => VInv'
  BY NextUnbarred, NextUploadsRouted, NextCovered, NextGuarded, NextVisible DEF VInv, RInv
<1>3. VInv => AckedWritesVisible
  BY DEF VInv
<1>4. Init => RInv
  BY InitRInv
<1>5. IInv /\ RInv /\ [Next]_vars => RInv'
  BY NextRInv
<1>. QED  BY <1>1, <1>2, <1>3, <1>4, <1>5, Inductive, PTL DEF Spec
=============================================================================
