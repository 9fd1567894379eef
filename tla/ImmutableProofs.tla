--------------------------- MODULE ImmutableProofs --------------------------
(***************************************************************************)
(* Theorems about Gateway under what README.md:11 assumes of the objects:  *)
(* they do not change.  Then the cache agrees with the upstream and every  *)
(* read is fresh, and the gateway implements Proxy, a gateway without a    *)
(* cache, for every set of requests, keys and contents, whatever fetches,  *)
(* uploads, disconnects, losses and restarts interleave.                   *)
(***************************************************************************)
EXTENDS GatewayProofs

\* The contents there may ever be at l: the first ones, and what clients upload.
Written(l) ==
  ({InitStore[l]} \ {None}) \cup
  {o.body : o \in {p \in Ops : p.method = "PUT" /\ Location[p.key] = l}}

\* An object has one content, if any.
Immutable == \A l \in Locations : \A v, w \in Written(l) : v = w

\* Uploads are requests of clients.
FromMenu ==
  \A t \in Tasks : pc[t] # "new" /\ op[t].method = "PUT" => op[t] \in Ops

\* Nothing is deleted.
KeepsStored == \A l \in Locations : store[l] = None => Stored(l) = {None}

\* A request under way has seen what the upstream holds.
SeesStore ==
  /\ seen \in [Tasks -> SUBSET (Values \cup {None})]
  /\ \A t \in Tasks : Live(t) /\ op[t].method # "PREFETCH" => store[At(t)] \in seen[t]

RInv == FromMenu /\ KeepsStored /\ SeesStore /\ FreshReads

-----------------------------------------------------------------------------
\* What the upstream has held it still holds.
LEMMA StoredIsCurrent ==
  ASSUME Immutable, IInv, FromMenu, KeepsStored,
         NEW l \in Locations, NEW v \in Values, v \in Stored(l)
  PROVE  store[l] = v
<1>1. \A w \in Stored(l) : w # None => w \in Written(l)
  <2>1. ASSUME NEW t \in Tasks, upload[t] = "applied", At(t) = l
        PROVE  op[t].body \in Written(l)
    <3>1. op[t] \in Ops /\ op[t].method = "PUT"
      BY <2>1 DEF IInv, Uploading, FromMenu
    <3>. QED  BY <2>1, <3>1 DEF Written, At
  <2>. QED  BY <2>1 DEF Stored, Written
<1>2. store[l] \in Stored(l) /\ v # None
  BY MarkerFacts DEF IInv, AllGenuine, SharedGenuine, Held
<1>3. store[l] # None
  BY <1>2 DEF KeepsStored
<1>. QED  BY <1>1, <1>2, <1>3 DEF Immutable

\* A request that becomes a task's is one of the menu's, or a prefetch.
LEMMA NextFromMenu == IInv /\ FromMenu /\ [Next]_vars => FromMenu'
<1>. SUFFICES ASSUME IInv, FromMenu, [Next]_vars PROVE FromMenu'
  OBVIOUS
<1>i. Typed
  BY DEF IInv
<1>1. ASSUME NEW r \in Requests, NEW o \in Ops, Request(Handler(r), o) PROVE FromMenu'
  BY <1>1, <1>i, RequestMoves DEF FromMenu
<1>2. ASSUME NEW t \in Tasks, Poll(t) PROVE FromMenu'
  BY <1>2, PollMoves DEF FromMenu
<1>3. ASSUME NEW r \in Requests, PollHead(r) \/ Cancel(r) PROVE FromMenu'
  BY <1>3, <1>i, TaskFacts
     DEF FromMenu, PollHead, HeadOk, SpawnPrefetch, HeadErr, Cancel, Goto, End, Live, Typed
<1>4. CASE (\E t \in Tasks : ApplyUpload(t)) \/ (\E k \in Keys : Evict(k)) \/ UNCHANGED vars
  BY <1>4 DEF FromMenu, ApplyUpload, Evict, vars
<1>5. CASE Restart
  BY <1>5, <1>i DEF FromMenu, Restart, Live, Typed
<1>. QED  BY <1>1, <1>2, <1>3, <1>4, <1>5 DEF Next

\* The runtime's tasks do not touch the upstream's objects themselves.
LEMMA PollStore ==
  ASSUME IInv, [Next]_vars, NEW t \in Tasks, Poll(t)
  PROVE  store' = store /\ \A l : Stored(l)' = Stored(l)
<1>1. store' = store
  BY DEF Poll, CacheHit, GetMiss, HeadMiss, Acquire, PrefetchSkip, Register, Resume,
         Recheck, FetchUnknownBucket, FetchGet, FetchBytes, Complete, CompleteRelease,
         SpawnedRelease, PutInit, PutBody, PutBodyErr, PutOk, PutErr
<1>2. ASSUME NEW u \in Tasks, upload'[u] = "applied" PROVE upload[u] = "applied"
  BY <1>2, PollMoves DEF IInv, Typed
<1>3. \A l : Stored(l)' = Stored(l)
  BY <1>2, AppliedStays DEF Stored, At
<1>. QED  BY <1>1, <1>3

\* Completed uploads are the only thing that changes them.
LEMMA StoreMoves ==
  ASSUME IInv, [Next]_vars
  PROVE  (store' = store /\ \A l : Stored(l)' = Stored(l)) \/ \E t \in Tasks : ApplyUpload(t)
<1>1. CASE UNCHANGED <<store, upload>>
  BY <1>1, AppliedStays DEF Stored, At
<1>2. ASSUME NEW r \in Requests, NEW o \in Ops, Request(Handler(r), o)
      PROVE  UNCHANGED <<store, upload>>
  BY <1>2, RequestMoves DEF IInv
<1>3. ASSUME NEW r \in Requests, PollHead(r) \/ Cancel(r) PROVE UNCHANGED <<store, upload>>
  BY <1>3 DEF PollHead, HeadOk, HeadErr, Cancel
<1>4. (\E k \in Keys : Evict(k)) \/ Restart \/ UNCHANGED vars => UNCHANGED <<store, upload>>
  BY DEF Evict, Restart, vars
<1>. QED  BY <1>1, <1>2, <1>3, <1>4, PollStore DEF Next

\* So what is stored at all stays stored.
LEMMA NextKeepsStored == IInv /\ KeepsStored /\ [Next]_vars => KeepsStored'
<1>. SUFFICES ASSUME IInv, KeepsStored, [Next]_vars PROVE KeepsStored'
  OBVIOUS
<1>1. CASE store' = store /\ \A l : Stored(l)' = Stored(l)
  BY <1>1 DEF KeepsStored
<1>2. ASSUME NEW t \in Tasks, ApplyUpload(t) PROVE KeepsStored'
  <2>1. /\ store' = [store EXCEPT ![At(t)] = op[t].body]
        /\ upload' = [upload EXCEPT ![t] = "applied"] /\ op' = op
        /\ op[t].body \in Values
    BY <1>2 DEF ApplyUpload, IInv, Uploading
  <2>2. ASSUME NEW l \in Locations, store'[l] = None
        PROVE  l # At(t) /\ store[l] = None
    BY <2>1, <2>2, MarkerFacts DEF IInv, Typed
  <2>3. ASSUME NEW l \in Locations, l # At(t) PROVE Stored(l)' = Stored(l)
    BY <2>1, <2>3 DEF IInv, Typed, Stored, At
  <2>. QED  BY <2>2, <2>3 DEF KeepsStored
<1>. QED  BY <1>1, <1>2, StoreMoves

\* A step of the runtime answers with what an upstream fetch, the cache or a flight
\* gave, an error, or, to an upload, without contents.
LEMMA PollAnswers ==
  ASSUME IInv, NEW t \in Tasks, Poll(t)
  PROVE  /\ UNCHANGED <<seen, barred, past>>
         /\ pc'[t] = "done" => Live(t)
         /\ pc'[t] = "done" /\ op[t].method \notin {"PUT", "PREFETCH"} =>
              resp'[t] \in Results \cup {Fail(400)}
<1>i. IP!IInv /\ Typed /\ PlacedAt(t) /\ Uploading /\ op' = op
  BY PollMoves DEF IInv, Placed
<1>e. \A e \in Errors : Fail(e) \in Results
  BY ReplyFacts DEF Errors
<1>1. ASSUME NEW x \in Results \cup {Fail(400)}, End(t, x)
      PROVE  resp'[t] \in Results \cup {Fail(400)}
  BY <1>1, <1>i DEF End, Typed
<1>2. ASSUME NEW where, Goto(t, where) PROVE pc'[t] = where
  BY <1>2, <1>i DEF Goto, Typed
<1>3. CASE CacheHit(t) \/ Recheck(t)
  <2>1. UNCHANGED history /\ pc[t] \in {"lookup", "recheck"}
    BY <1>3 DEF CacheHit, Recheck
  <2>2. cache[op[t].key] # None => Found(cache[op[t].key]) \in Results
    BY <1>i, <2>1, OpFacts, ReplyFacts DEF PlacedAt, Typed
  <2>3. pc[t] = "recheck" => fetched[t] \in Results
    BY <1>i, ReplyFacts DEF PlacedAt
  <2>4. \E x \in Results : End(t, x)
    BY <1>3, <2>2, <2>3 DEF CacheHit, Recheck
  <2>. QED  BY <1>1, <2>1, <2>4 DEF Live, history, runs
<1>4. CASE GetMiss(t) \/ HeadMiss(t) \/ Acquire(t) \/ PrefetchSkip(t)
  <2>1. UNCHANGED history /\ pc[t] \in {"lookup", "acquire", "wait"}
    BY <1>4 DEF GetMiss, HeadMiss, Acquire, PrefetchSkip
  <2>2. \/ \E x \in Results : End(t, x)
        \/ \E where \in {"acquire", "head", "fetch", "wait"} : Goto(t, where)
        \/ op[t].method = "PREFETCH"
    BY <1>4, ReplyFacts DEF GetMiss, HeadMiss, Acquire, PrefetchSkip
  <2>. QED  BY <1>1, <1>2, <2>1, <2>2 DEF Live, history, runs
<1>5. CASE Register(t) \/ SpawnedRelease(t)
  <2>1. UNCHANGED <<history, pc>> /\ pc[t] \in {"wait", "cancelled"}
    BY <1>5, <1>i DEF Register, SpawnedRelease, I!SpawnedRelease, PlacedAt, IP!IInv, IP!Roles
  <2>. QED  BY <2>1 DEF history, runs
<1>6. CASE Resume(t) \/ FetchUnknownBucket(t) \/ FetchGet(t) \/ FetchBytes(t)
  <2>1. UNCHANGED history /\ pc[t] \in {"wait", "fetch", "bytes"}
    BY <1>6 DEF Resume, FetchUnknownBucket, FetchGet, FetchBytes
  <2>2. ASSUME NEW x \in Results, NEW C, FetchReturns(t, x, C)
        PROVE  (\E y \in Results : End(t, y)) \/ Goto(t, "complete")
    BY <2>2 DEF FetchReturns
  <2>3. pc[t] = "bytes" => fetched[t] \in Results
    BY <1>i, ReplyFacts DEF PlacedAt
  <2>4. \/ \E x \in Results : End(t, x)
        \/ \E where \in {"recheck", "fetch", "bytes", "complete"} : Goto(t, where)
    BY <1>6, <2>2, <2>3, ReplyFacts
       DEF Resume, FetchUnknownBucket, FetchGet, FetchBytes
  <2>. QED  BY <1>1, <1>2, <2>1, <2>4 DEF Live, history, runs
<1>7. CASE Complete(t) \/ CompleteRelease(t)
  <2>1. UNCHANGED history /\ pc[t] \in {"complete", "release"}
    BY <1>7 DEF Complete, CompleteRelease
  <2>2. fetched[t] \in Results
    BY <1>i, <2>1 DEF PlacedAt
  <2>3. \/ \E x \in Results : End(t, x)
        \/ Goto(t, "release") \/ op[t].method = "PREFETCH"
    BY <1>7, <2>2 DEF Complete, CompleteRelease
  <2>. QED  BY <1>1, <1>2, <2>1, <2>3 DEF Live, history, runs
<1>8. CASE PutInit(t) \/ PutBody(t) \/ PutBodyErr(t) \/ PutOk(t) \/ PutErr(t)
  <2>1. UNCHANGED history /\ pc[t] \in {"init_upload", "upload", "finish"}
    BY <1>8 DEF PutInit, PutBody, PutBodyErr, PutOk, PutErr
  <2>2. op[t].method = "PUT"
    BY <1>i, <2>1 DEF Uploading
  <2>. QED  BY <2>1, <2>2 DEF Live, history, runs
<1>. QED
  BY <1>3, <1>4, <1>5, <1>6, <1>7, <1>8 DEF Poll

\* While the upstream changes only by uploads, whoever is under way sees it.
LEMMA NextSeesStore == IInv /\ SeesStore /\ [Next]_vars => SeesStore'
<1>. SUFFICES ASSUME IInv, SeesStore, [Next]_vars PROVE SeesStore'
  OBVIOUS
<1>i. Typed /\ \A t \in Tasks : PlacedAt(t)
  BY DEF IInv, Placed
<1>1. ASSUME NEW r \in Requests, NEW o \in Ops, Request(Handler(r), o) PROVE SeesStore'
  <2>. DEFINE t == Handler(r)
  <2>1. /\ t \in Tasks /\ op' = [op EXCEPT ![t] = o] /\ store' = store
        /\ seen' = [seen EXCEPT ![t] = {store[Location[o.key]]}]
        /\ \E where : pc' = [pc EXCEPT ![t] = where]
    BY <1>1, <1>i, RequestMoves DEF Arrive
  <2>2. store[Location[o.key]] \in Values \cup {None}
    BY <1>i, OpFacts DEF Typed
  <2>. QED  BY <1>i, <2>1, <2>2 DEF SeesStore, Live, At, Typed
<1>2. ASSUME NEW t \in Tasks, Poll(t) PROVE SeesStore'
  <2>1. op' = op /\ seen' = seen /\ \A u \in Tasks : Live(u)' => Live(u)
    BY <1>2, PollMoves, PollAnswers DEF Live
  <2>2. store' = store
    BY <1>2, PollStore
  <2>. QED  BY <2>1, <2>2 DEF SeesStore, At
<1>3. ASSUME NEW r \in Requests, PollHead(r) \/ Cancel(r) PROVE SeesStore'
  <2>1. /\ UNCHANGED <<store, seen>>
        /\ op' = op \/ \E o : o.method = "PREFETCH" /\ op' = [op EXCEPT ![Prefetch(r)] = o]
    BY <1>3 DEF PollHead, HeadOk, SpawnPrefetch, HeadErr, Cancel, history
  <2>2. \A u \in Tasks : Live(u)' => Live(u) \/ op'[u].method = "PREFETCH"
    BY <1>3, <1>i, TaskFacts
       DEF PollHead, HeadOk, SpawnPrefetch, HeadErr, Cancel, Goto, End, Live, Typed
  <2>. QED  BY <1>i, <2>1, <2>2, TaskFacts DEF SeesStore, At, Typed
<1>4. ASSUME NEW t \in Tasks, ApplyUpload(t) PROVE SeesStore'
  <2>1. /\ store' = [store EXCEPT ![At(t)] = op[t].body] /\ UNCHANGED <<op, pc>>
        /\ seen' = [u \in Tasks |-> IF Live(u) /\ At(u) = At(t)
                                    THEN seen[u] \cup {op[t].body} ELSE seen[u]]
    BY <1>4 DEF ApplyUpload
  <2>2. op[t].body \in Values
    BY <1>4 DEF ApplyUpload, IInv, Uploading
  <2>3. seen' \in [Tasks -> SUBSET (Values \cup {None})]
    BY <2>1, <2>2 DEF SeesStore
  <2>4. ASSUME NEW u \in Tasks, Live(u), op[u].method # "PREFETCH"
        PROVE  store'[At(u)] \in seen'[u]
    <3>1. At(u) \in Locations
      BY <1>i, <2>4, OpFacts DEF PlacedAt, Live, At
    <3>. QED  BY <1>i, <2>1, <2>4, <3>1 DEF SeesStore, Typed
  <2>. QED  BY <2>1, <2>3, <2>4 DEF SeesStore, Live, At
<1>5. CASE (\E k \in Keys : Evict(k)) \/ UNCHANGED vars
  BY <1>5 DEF Evict, vars, history, SeesStore, Live, At
<1>6. CASE Restart
  BY <1>6, <1>i DEF Restart, SeesStore, Live, Typed
<1>. QED  BY <1>1, <1>2, <1>3, <1>4, <1>5, <1>6 DEF Next

\* A read ends with contents the upstream holds at that moment.
LEMMA PollReads ==
  ASSUME Immutable, IInv, RInv, [Next]_vars,
         NEW t \in Tasks, Poll(t), op[t] \in OpType, resp'[t] \in Successes
  PROVE  resp'[t].body = store[At(t)]
<1>1. TaskGenuine(t)' /\ resp'[t] # None /\ resp'[t].body # None
  BY NextIInv, ReplyFacts, MarkerFacts DEF IInv, AllGenuine
<1>2. At(t) \in Locations /\ At(t)' = At(t) /\ resp'[t].body \in Values
  BY PollMoves, OpFacts, ReplyFacts DEF At
<1>3. resp'[t].body \in Stored(At(t))'
  BY <1>1 DEF TaskGenuine, IsGenuine, Genuine, Held, At
<1>4. PICK l \in Locations : l = At(t)
  BY <1>2
<1>5. (resp[t].body \in Stored(l))'
  BY <1>2, <1>3, <1>4
<1>6. resp'[t].body \in Stored(l)
  BY <1>5, PollStore
<1>. QED  BY <1>2, <1>4, <1>6, StoredIsCurrent DEF RInv

\* So what it returns is something the upstream held while it was served.
LEMMA NextFresh ==
  ASSUME Immutable, IInv, RInv, [Next]_vars
  PROVE  FreshReads'
<1>i. Typed /\ FreshReads /\ SeesStore /\ \A t \in Tasks : PlacedAt(t)
  BY DEF RInv, IInv, Placed
<1>1. ASSUME NEW r \in Requests, NEW o \in Ops, Request(Handler(r), o) PROVE FreshReads'
  <2>. DEFINE t == Handler(r)
  <2>1. /\ t \in Tasks /\ past' = past
        /\ pc'[t] = "done" => resp'[t].status # 200
        /\ \A u \in Tasks \ {t} : /\ op'[u] = op[u] /\ pc'[u] = pc[u]
                                  /\ resp'[u] = resp[u] /\ seen'[u] = seen[u]
    <3>1. seen' = [seen EXCEPT ![t] = {store[Location[o.key]]}]
      BY <1>1, <1>i, RequestMoves DEF Arrive
    <3>2. \A s \in {400, 401, NotFound} : Fail(s).status # 200
      BY DEF Fail, Reply, NotFound
    <3>. QED  BY <1>1, <1>i, <3>1, <3>2, RequestMoves DEF SeesStore, runs
  <2>. QED  BY <1>i, <2>1 DEF FreshReads, Answered
<1>2. ASSUME NEW t \in Tasks, Poll(t) PROVE FreshReads'
  <2>1. /\ op' = op /\ UNCHANGED <<seen, past, store>> /\ op[t] \in OpType
        /\ \A u \in Tasks \ {t} : pc'[u] = pc[u] /\ resp'[u] = resp[u]
    BY <1>2, <1>i, PollMoves, PollAnswers, PollStore DEF PlacedAt
  <2>2. ASSUME Answered(t)', op[t].method # "PUT", resp'[t].status = 200
        PROVE  resp'[t].body \in seen'[t]
    <3>1. Live(t) /\ op[t].method # "PREFETCH" /\ resp'[t] \in Results \cup {Fail(400)}
      BY <1>2, <2>1, <2>2, PollAnswers DEF Answered
    <3>2. resp'[t] \in Successes
      BY <2>2, <3>1 DEF Results, Errors, Fail, Reply, NotFound, BadGateway
    <3>3. resp'[t].body = store[At(t)] /\ store[At(t)] \in seen[t]
      BY <1>i, <1>2, <2>1, <3>1, <3>2, PollReads DEF SeesStore
    <3>. QED  BY <2>1, <3>3
  <2>. QED  BY <1>i, <2>1, <2>2 DEF FreshReads, Answered
<1>3. ASSUME NEW r \in Requests, HeadOk(r) PROVE FreshReads'
  <2>. DEFINE t == Handler(r)
              q == Prefetch(r)
  <2>1. /\ t \in Tasks /\ q \in Tasks /\ t # q /\ UNCHANGED <<seen, past>>
        /\ pc[t] = "head" /\ op'[t] = op[t]
        /\ resp' = [resp EXCEPT ![t] = Reply(200, store[At(t)], Guess[op[t].key])]
        /\ \A u \in Tasks \ {t} : \/ op'[u] = op[u] /\ pc'[u] = pc[u]
                                  \/ pc'[u] = "acquire"
    BY <1>3, <1>i, TaskFacts DEF HeadOk, SpawnPrefetch, At, history, runs, Typed
  <2>2. resp'[t].body = store[At(t)] /\ store[At(t)] \in seen[t]
    BY <1>i, <2>1 DEF SeesStore, Live, PlacedAt, Reply, Typed
  <2>3. \A u \in Tasks \ {t} : resp'[u] = resp[u]
    BY <1>i, <2>1 DEF Typed
  <2>. QED  BY <1>i, <2>1, <2>2, <2>3 DEF FreshReads, Answered
<1>4. ASSUME NEW r \in Requests, HeadErr(r) \/ Cancel(r) PROVE FreshReads'
  <2>. DEFINE t == Handler(r)
  <2>1. /\ t \in Tasks /\ UNCHANGED <<op, seen, past>>
        /\ pc'[t] = "done" => resp'[t].status # 200
        /\ \A u \in Tasks \ {t} : pc'[u] = pc[u] /\ resp'[u] = resp[u]
    BY <1>4, <1>i, TaskFacts
       DEF HeadErr, Cancel, Goto, End, Fail, Reply, NotFound, BadGateway, history, runs, Typed
  <2>. QED  BY <1>i, <2>1 DEF FreshReads, Answered
<1>5. ASSUME NEW t \in Tasks, ApplyUpload(t) PROVE FreshReads'
  <2>1. /\ UNCHANGED <<op, pc, resp, past>>
        /\ seen' = [u \in Tasks |-> IF Live(u) /\ At(u) = At(t)
                                    THEN seen[u] \cup {op[t].body} ELSE seen[u]]
    BY <1>5 DEF ApplyUpload, runs
  <2>. QED  BY <1>i, <2>1 DEF FreshReads, Answered
<1>6. CASE (\E k \in Keys : Evict(k)) \/ UNCHANGED vars
  BY <1>6, <1>i DEF Evict, vars, history, runs, FreshReads, Answered
<1>7. CASE Restart
  BY <1>7, <1>i DEF Restart, FreshReads, Answered, Live, Typed
<1>. QED  BY <1>1, <1>2, <1>3, <1>4, <1>5, <1>6, <1>7 DEF Next, PollHead

\* The additions hold at first,
LEMMA InitRInv == Init => RInv
BY MarkerFacts, GatewayAssumption DEF Init, RInv, FromMenu, KeepsStored, SeesStore, FreshReads, Answered,
                   Live, Stored

\* and stay.
LEMMA NextRInv == Immutable /\ IInv /\ RInv /\ [Next]_vars => RInv'
BY NextIInv, NextFromMenu, NextKeepsStored, NextSeesStore, NextFresh DEF RInv

-----------------------------------------------------------------------------
\* If objects do not change (README.md:11), the cache agrees with the upstream
\* whatever fetches, uploads, disconnects and restarts interleave: a stale entry
\* needs an overwrite.
THEOREM CacheAgrees == ASSUME Immutable PROVE Spec => []CacheAgreesWithStore
<1>1. IInv /\ RInv => CacheAgreesWithStore
  <2>. SUFFICES ASSUME IInv, RInv, NEW k \in Keys, cache[k] # None
                PROVE  cache[k].body = store[Location[k]]
    BY DEF CacheAgreesWithStore
  <2>1. cache[k].body \in Values /\ cache[k].body \in Stored(Location[k])
    BY DEF IInv, AllGenuine, SharedGenuine, IsGenuine, Genuine
  <2>. QED  BY <2>1, StoredIsCurrent, OpFacts DEF RInv
<1>2. Init => RInv
  BY InitRInv
<1>3. IInv /\ RInv /\ [Next]_vars => RInv'
  BY NextRInv
<1>. QED  BY <1>1, <1>2, <1>3, Inductive, PTL DEF Spec

\* Then, too, a GET or HEAD answered 200 carries what the upstream held while it
\* was being served, from the cache or from another's flight (handler.rs:142-190).
THEOREM ReadsAreFresh == ASSUME Immutable PROVE Spec => []FreshReads
<1>1. RInv => FreshReads
  BY DEF RInv
<1>2. Init => RInv
  BY InitRInv
<1>3. IInv /\ RInv /\ [Next]_vars => RInv'
  BY NextRInv
<1>. QED  BY <1>1, <1>2, <1>3, Inductive, PTL DEF Spec

-----------------------------------------------------------------------------
(***************************************************************************)
(* The gateway implements Proxy.  What the mapping sees of a step is what  *)
(* becomes of requests, answers, applied uploads and the upstream.         *)
(***************************************************************************)
\* The awaits of put_object.
Putting(t) == pc[t] \in {"init_upload", "upload", "finish"}

\* t serves a request of the menu that the middleware and the path check let in.
LetIn(t) == op[t] \in Ops /\ Admitted(op[t]) /\ op[t].key \notin BadPaths

\* A handler under way has not answered, and serves what was let in; a refused
\* body was not sent upstream.
DealtWith(t) ==
  /\ pc[t] = "new" => op[t] = None
  /\ Live(t) => LetIn(t) /\ resp[t] = None /\ (op[t].method = "PUT" <=> Putting(t))
  /\ upload[t] # "none" => LetIn(t) /\ resp[t] # Fail(400)

Dealt == \A r \in Requests : DealtWith(Handler(r))

\* Successes and refusals are different answers.
LEMMA RefusalFacts ==
  /\ \A x \in Results \ Successes : x \in {Fail(NotFound), Fail(BadGateway)}
  /\ \A x \in Successes : \E c \in CTypes \cup {None} : x = Reply(200, x.body, c)
  /\ Fail(400) \notin {Fail(NotFound), Fail(BadGateway), Reply(200, None, None), None}
<1>1. \A x \in Results \ Successes : x \in {Fail(NotFound), Fail(BadGateway)}
  BY DEF Results, Errors
<1>2. \A x \in Successes : \E c \in CTypes \cup {None} : x = Reply(200, x.body, c)
  BY DEF Successes, Found, Reply, CacheEntries
<1>3. Fail(400) \notin {Fail(NotFound), Fail(BadGateway), Reply(200, None, None)}
  BY DEF Fail, Reply, NotFound, BadGateway
<1>4. Fail(400) # None
  BY ReplyFacts, MarkerFacts
<1>. QED  BY <1>1, <1>2, <1>3, <1>4

\* A step of the runtime leaves the answer of its handler alone or gives one: a
\* read gets a result; an upload gets an error, a 400 only before it is sent, or
\* an acknowledgement once it is applied.
LEMMA PollReplies ==
  ASSUME IInv, Dealt, NEW r \in Requests, NEW t, t = Handler(r), Poll(t)
  PROVE  /\ Live(t)' => Live(t) /\ resp' = resp /\ (Putting(t)' <=> Putting(t))
         /\ \/ resp' = resp
            \/ /\ Live(t) /\ pc'[t] = "done"
               /\ \E x \in Replies :
                    /\ resp' = [resp EXCEPT ![t] = x]
                    /\ \/ ~Putting(t) /\ x \in Results
                       \/ /\ Putting(t) /\ x = Fail(400)
                          /\ upload[t] = "none" /\ upload' = upload
                       \/ Putting(t) /\ \E e \in Errors : x = Fail(e)
                       \/ Putting(t) /\ x = Reply(200, None, None) /\ upload[t] = "applied"
<1>. DEFINE Read(x) ==
              /\ Live(t) /\ ~Putting(t) /\ x \in Results
              /\ pc' = [pc EXCEPT ![t] = "done"] /\ resp' = [resp EXCEPT ![t] = x]
            Wrote(x) ==
              /\ Putting(t) /\ x \in Replies
              /\ pc' = [pc EXCEPT ![t] = "done"] /\ resp' = [resp EXCEPT ![t] = x]
              /\ \/ x = Fail(400) /\ upload[t] = "none" /\ upload' = upload
                 \/ \E e \in Errors : x = Fail(e)
                 \/ x = Reply(200, None, None) /\ upload[t] = "applied"
            Moved(from, to) ==
              pc[t] \in from /\ (\E w \in to : pc' = [pc EXCEPT ![t] = w]) /\ resp' = resp
            Reads == {"lookup", "acquire", "wait", "recheck", "fetch", "bytes",
                      "complete", "release", "head"}
            Puts  == {"init_upload", "upload", "finish"}
<1>i. /\ IP!IInv /\ Typed /\ PlacedAt(t) /\ Uploading /\ t \in Tasks /\ DealtWith(t)
      /\ Results \subseteq Replies
  BY TaskFacts, ReplyFacts DEF IInv, Placed, Dealt
<1>m. Live(t) => op[t].method # "PREFETCH"
  BY <1>i, GatewayAssumption DEF DealtWith, LetIn
<1>1. ASSUME (\E x : Read(x)) \/ (\E x : Wrote(x)) \/ Moved(Reads, Reads)
               \/ Moved(Puts, Puts) \/ UNCHANGED <<pc, resp>>
      PROVE  /\ Live(t)' => Live(t) /\ resp' = resp /\ (Putting(t)' <=> Putting(t))
             /\ \/ resp' = resp
                \/ /\ Live(t) /\ pc'[t] = "done"
                   /\ \E x \in Replies :
                        /\ resp' = [resp EXCEPT ![t] = x]
                        /\ \/ ~Putting(t) /\ x \in Results
                           \/ /\ Putting(t) /\ x = Fail(400)
                              /\ upload[t] = "none" /\ upload' = upload
                           \/ Putting(t) /\ \E e \in Errors : x = Fail(e)
                           \/ Putting(t) /\ x = Reply(200, None, None) /\ upload[t] = "applied"
  <2>1. CASE (\E x : Read(x)) \/ (\E x : Wrote(x))
    BY <1>i, <2>1 DEF Typed, Live, Putting
  <2>2. CASE Moved(Reads, Reads) \/ Moved(Puts, Puts) \/ UNCHANGED <<pc, resp>>
    BY <1>i, <2>2 DEF Typed, Live, Putting
  <2>. QED  BY <1>1, <2>1, <2>2
<1>2. CASE CacheHit(t) \/ Recheck(t)
  <2>1. pc[t] \in {"lookup", "recheck"}
    BY <1>2 DEF CacheHit, Recheck
  <2>2. cache[op[t].key] # None => Found(cache[op[t].key]) \in Results
    BY <1>i, <2>1, OpFacts, ReplyFacts DEF PlacedAt, Typed
  <2>3. pc[t] = "recheck" => fetched[t] \in Results
    BY <1>i, ReplyFacts DEF PlacedAt
  <2>4. \E x \in Results : End(t, x)
    BY <1>2, <2>2, <2>3 DEF CacheHit, Recheck
  <2>. QED  BY <1>1, <2>1, <2>4 DEF End, Live, Putting
<1>3. CASE GetMiss(t) \/ HeadMiss(t) \/ Acquire(t) \/ PrefetchSkip(t)
  <2>1. pc[t] \in {"lookup", "acquire", "wait"}
    BY <1>3 DEF GetMiss, HeadMiss, Acquire, PrefetchSkip
  <2>2. (\E x \in Results : End(t, x)) \/ \E w \in Reads : Goto(t, w)
    BY <1>3, <1>m, <2>1, ReplyFacts DEF GetMiss, HeadMiss, Acquire, PrefetchSkip, Live
  <2>. QED  BY <1>1, <2>1, <2>2 DEF End, Goto, Live, Putting
<1>4. CASE Register(t) \/ SpawnedRelease(t)
  BY <1>1, <1>4 DEF Register, SpawnedRelease
<1>5. CASE Resume(t) \/ FetchUnknownBucket(t) \/ FetchGet(t) \/ FetchBytes(t)
  <2>1. pc[t] \in {"wait", "fetch", "bytes"}
    BY <1>5 DEF Resume, FetchUnknownBucket, FetchGet, FetchBytes
  <2>2. ASSUME NEW x \in Results, NEW C, FetchReturns(t, x, C)
        PROVE  (\E y \in Results : End(t, y)) \/ Goto(t, "complete")
    BY <2>2 DEF FetchReturns
  <2>3. pc[t] = "bytes" => fetched[t] \in Results
    BY <1>i, ReplyFacts DEF PlacedAt
  <2>4. (\E x \in Results : End(t, x)) \/ \E w \in Reads : Goto(t, w)
    BY <1>5, <2>2, <2>3, ReplyFacts DEF Resume, FetchUnknownBucket, FetchGet, FetchBytes
  <2>. QED  BY <1>1, <2>1, <2>4 DEF End, Goto, Live, Putting
<1>6. CASE Complete(t) \/ CompleteRelease(t)
  <2>1. pc[t] \in {"complete", "release"}
    BY <1>6 DEF Complete, CompleteRelease
  <2>2. fetched[t] \in Results
    BY <1>i, <2>1 DEF PlacedAt
  <2>3. (\E x \in Results : End(t, x)) \/ \E w \in Reads : Goto(t, w)
    BY <1>6, <1>m, <2>1, <2>2 DEF Complete, CompleteRelease, Live
  <2>. QED  BY <1>1, <2>1, <2>3 DEF End, Goto, Live, Putting
<1>7. CASE PutInit(t) \/ PutErr(t) \/ PutOk(t)
  <2>1. /\ pc[t] \in Puts
        /\ \A e \in Errors : Fail(e) \in Replies
        /\ Reply(200, None, None) \in Replies
    BY <1>7, ReplyFacts DEF PutInit, PutErr, PutOk, Errors
  <2>2. \/ \E e \in Errors : End(t, Fail(e))
        \/ End(t, Reply(200, None, None)) /\ upload[t] = "applied"
        \/ Goto(t, "upload")
    BY <1>7 DEF PutInit, PutErr, PutOk
  <2>. QED  BY <1>1, <2>1, <2>2 DEF End, Goto, Putting
<1>8. CASE PutBody(t) \/ PutBodyErr(t)
  <2>1. pc[t] = "upload" /\ upload[t] = "none" /\ Fail(400) \in Replies
    BY <1>8, <1>i, ReplyFacts DEF PutBody, PutBodyErr, Uploading, Typed
  <2>2. Goto(t, "finish") \/ (End(t, Fail(400)) /\ upload' = upload)
    BY <1>8 DEF PutBody, PutBodyErr
  <2>. QED  BY <1>1, <2>1, <2>2 DEF End, Goto, Putting
<1>. QED  BY <1>2, <1>3, <1>4, <1>5, <1>6, <1>7, <1>8 DEF Poll

\* Handlers are dealt with as they should, over disconnects and restarts too.
LEMMA NextDealt == IInv /\ Dealt /\ [Next]_vars => Dealt'
<1>. SUFFICES ASSUME IInv, Dealt, [Next]_vars, NEW q \in Requests
              PROVE  DealtWith(Handler(q))'
  BY DEF Dealt
<1>. DEFINE u == Handler(q)
<1>i. /\ Typed /\ PlacedAt(u) /\ Uploading /\ u \in Tasks /\ DealtWith(u)
  BY TaskFacts DEF IInv, Placed, Dealt
<1>s. UNCHANGED <<op[u], pc[u], resp[u], upload[u]>> => DealtWith(u)'
  BY <1>i DEF DealtWith, LetIn, Live, Putting
<1>1. ASSUME NEW r \in Requests, NEW o \in Ops, Request(Handler(r), o) PROVE DealtWith(u)'
  <2>. DEFINE t == Handler(r)
  <2>1. /\ pc[t] = "new" /\ op' = [op EXCEPT ![t] = o] /\ UNCHANGED upload
        /\ \/ /\ Admitted(o) /\ o.key \notin BadPaths /\ resp' = resp
              /\ \E w \in {"lookup", "init_upload"} :
                   /\ pc' = [pc EXCEPT ![t] = w]
                   /\ o.method = "PUT" <=> w = "init_upload"
           \/ /\ pc' = [pc EXCEPT ![t] = "done"]
              /\ \E x : resp' = [resp EXCEPT ![t] = x]
    BY <1>1, <1>i, RequestMoves
  <2>2. CASE q = r
    <3>1. resp[u] = None /\ upload[u] = "none"
      BY <1>i, <2>1, <2>2 DEF IInv, Untouched, Uploading, Typed
    <3>. QED  BY <1>i, <2>1, <2>2, <3>1 DEF DealtWith, LetIn, Live, Putting, Typed
  <2>3. CASE q # r
    BY <1>i, <1>s, <2>1, <2>3, TaskFacts DEF Typed
  <2>. QED  BY <2>2, <2>3
<1>2. ASSUME NEW t \in Tasks, Poll(t) PROVE DealtWith(u)'
  <2>0. /\ op' = op /\ pc[t] # "new" /\ pc'[t] # "new"
        /\ \/ upload' = upload
           \/ pc[t] = "upload" /\ pc'[t] = "finish" /\ upload' = [upload EXCEPT ![t] = "sent"]
    BY <1>2, PollMoves
  <2>1. CASE t # u
    BY <1>2, <1>i, <1>s, <2>0, <2>1, PollMoves DEF Typed
  <2>2. CASE t = u
    <3>1. Live(u)' => Live(u) /\ resp' = resp /\ (Putting(u)' <=> Putting(u))
      BY <1>2, <2>2, PollReplies
    <3>2. \/ resp'[u] = resp[u]
          \/ upload'[u] = "none"
          \/ Live(u) /\ Fail(400) # resp'[u]
      <4>1. ASSUME resp' # resp
            PROVE  /\ Live(u) /\ pc'[u] = "done"
                   /\ \E x \in Replies :
                        /\ resp' = [resp EXCEPT ![u] = x]
                        /\ \/ x \in Results
                           \/ x = Fail(400) /\ upload[u] = "none" /\ upload' = upload
                           \/ \E e \in Errors : x = Fail(e)
                           \/ x = Reply(200, None, None)
        BY <1>2, <2>2, <4>1, PollReplies
      <4>2. \A x \in Results : x # Fail(400)
        BY RefusalFacts DEF Reply, Fail
      <4>3. \A e \in Errors : Fail(e) # Fail(400)
        BY RefusalFacts DEF Errors
      <4>. QED  BY <1>i, <4>1, <4>2, <4>3, RefusalFacts DEF Typed
    <3>3. upload'[u] # "none" => upload[u] # "none" \/ Live(u)
      BY <1>i, <2>0, <2>2 DEF Typed, Live
    <3>4. upload'[u] # "none" => resp'[u] # Fail(400)
      BY <1>i, <3>2, <3>3, RefusalFacts DEF DealtWith
    <3>. QED  BY <1>i, <2>0, <2>2, <3>1, <3>3, <3>4 DEF DealtWith, LetIn
  <2>. QED  BY <2>1, <2>2
<1>3. ASSUME NEW r \in Requests, PollHead(r) \/ Cancel(r) PROVE DealtWith(u)'
  <2>. DEFINE t == Handler(r)
  <2>1. /\ t \in Tasks /\ UNCHANGED upload /\ Live(t)
        /\ op' = op \/ \E o : op' = [op EXCEPT ![Prefetch(r)] = o]
        /\ \E w \in {"done", "cancelled"} :
             \/ pc' = [pc EXCEPT ![t] = w]
             \/ pc' = [pc EXCEPT ![t] = w, ![Prefetch(r)] = "acquire"]
        /\ resp' = resp \/ (pc[t] = "head" /\ \E x : resp' = [resp EXCEPT ![t] = x])
    BY <1>3, TaskFacts
       DEF PollHead, HeadOk, SpawnPrefetch, HeadErr, Cancel, Goto, End, Live
  <2>2. /\ op'[u] = op[u] /\ (q # r => pc'[u] = pc[u] /\ resp'[u] = resp[u])
        /\ (q = r => pc'[u] \in {"done", "cancelled"})
    BY <1>i, <2>1, TaskFacts DEF Typed
  <2>3. q = r /\ pc[u] = "head" => upload[u] = "none"
    BY <1>i DEF Uploading
  <2>. QED  BY <1>i, <1>s, <2>1, <2>2, <2>3 DEF DealtWith, LetIn, Live, Putting
<1>4. ASSUME NEW t \in Tasks, ApplyUpload(t) PROVE DealtWith(u)'
  <2>1. /\ UNCHANGED <<op, pc, resp>> /\ upload[t] = "sent"
        /\ upload' = [upload EXCEPT ![t] = "applied"]
    BY <1>4 DEF ApplyUpload
  <2>2. upload'[u] # "none" => upload[u] # "none"
    BY <1>i, <2>1 DEF Typed
  <2>. QED  BY <1>i, <2>1, <2>2 DEF DealtWith, LetIn, Live, Putting
<1>5. CASE (\E k \in Keys : Evict(k)) \/ UNCHANGED vars
  BY <1>5, <1>s DEF Evict, vars
<1>6. CASE Restart
  BY <1>6, <1>i DEF Restart, DealtWith, LetIn, Live, Putting, Typed
<1>. QED  BY <1>1, <1>2, <1>3, <1>4, <1>5, <1>6 DEF Next

\* What the instance P maps the variables of Proxy to.
absApplied == {r \in Requests : upload[Handler(r)] = "applied"}
absAsked   == [r \in Requests |-> op[Handler(r)]]
absAnswer  == [r \in Requests |-> resp[Handler(r)]]

\* A handler under way serves a request that is proper and open.
LEMMA LiveIsOpen ==
  ASSUME IInv, Dealt, NEW r \in Requests, Live(Handler(r)) \/ upload[Handler(r)] # "none"
  PROVE  LET t == Handler(r)
         IN  /\ P!Proper(r) /\ P!At(r) = At(t) /\ At(t) \in Locations
             /\ absAsked[r] = op[t] /\ op[t] \in Ops /\ op[t] # None
             /\ absAnswer[r] = resp[t]
             /\ Live(t) => resp[t] = None
<1>. DEFINE t == Handler(r)
<1>1. /\ op[t] \in Ops /\ op[t].decodes /\ op[t].auth /\ op[t].key \notin BadPaths
      /\ Live(t) => resp[t] = None
  BY DEF Dealt, DealtWith, LetIn, Admitted
<1>2. op[t] # None /\ op[t].key \in Keys
  BY <1>1, OpFacts, MarkerFacts
<1>. QED  BY <1>1, <1>2, OpFacts DEF P!Proper, P!At, At, absAsked, absAnswer

\* An error the handlers give is one Proxy allows.
LEMMA ErrorsAreRefusals ==
  ASSUME NEW o \in Ops, Admitted(o), o.key \notin BadPaths
  PROVE  /\ {NotFound, BadGateway} \subseteq P!Refusals(o)
         /\ o.method = "PUT" => 400 \in P!Refusals(o)
BY OpFacts DEF Admitted, OpType, P!Refusals, NotFound, BadGateway

\* Arrivals are Ask (handler.rs:44-101).
LEMMA RequestRefines ==
  ASSUME IInv, Dealt, NEW r \in Requests, NEW o \in Ops, Request(Handler(r), o)
  PROVE  P!Ask(r, o)
<1>. DEFINE t == Handler(r)
<1>1. /\ pc[t] = "new" /\ op' = [op EXCEPT ![t] = o] /\ UNCHANGED <<store, upload>>
      /\ \/ resp' = resp
         \/ \E s \in P!Refusals(o) : resp' = [resp EXCEPT ![t] = Fail(s)]
  <2>1. o.decodes \in BOOLEAN /\ o.auth \in BOOLEAN
    BY OpFacts DEF OpType
  <2>2. /\ ~o.decodes => 400 \in P!Refusals(o)
        /\ o.decodes /\ ~o.auth => 401 \in P!Refusals(o)
        /\ Admitted(o) /\ o.key \in BadPaths => 400 \in P!Refusals(o)
        /\ Admitted(o) /\ o.key \notin BadPaths => NotFound \in P!Refusals(o)
    BY <2>1 DEF Admitted, P!Refusals, NotFound
  <2>. QED
    BY <2>2, RequestMoves DEF IInv, RefusedAt
<1>2. t \in Tasks /\ op[t] = None /\ resp[t] = None
  BY <1>1, TaskFacts DEF IInv, Untouched, Dealt, DealtWith
<1>3. absApplied' = absApplied
  BY <1>1 DEF absApplied
<1>4. absAsked' = [absAsked EXCEPT ![r] = o] /\ absAsked[r] = None
  BY <1>1, <1>2, TaskFacts DEF IInv, Typed, absAsked
<1>5. \A x : resp' = [resp EXCEPT ![t] = x] => absAnswer' = [absAnswer EXCEPT ![r] = x]
  BY <1>2, TaskFacts DEF IInv, Typed, absAnswer
<1>6. absAnswer[r] = None /\ (resp' = resp => absAnswer' = absAnswer)
  BY <1>2 DEF absAnswer
<1>7. \A s : Fail(s) = P!Fail(s)
  BY DEF Fail, Reply, P!Fail, P!Reply
<1>. QED
  BY <1>1, <1>3, <1>4, <1>5, <1>6, <1>7 DEF P!Ask, P!Answer, absApplied, absAsked, absAnswer

\* A step that answers r and leaves the rest, of what Proxy sees, alone.
LEMMA AnswerSeen ==
  ASSUME IInv, Dealt, NEW r \in Requests, NEW x, Live(Handler(r)),
         resp' = [resp EXCEPT ![Handler(r)] = x],
         \A q \in Requests : op'[Handler(q)] = op[Handler(q)],
         \A q \in Requests : upload'[Handler(q)] = "applied" <=> upload[Handler(q)] = "applied"
  PROVE  /\ absApplied' = absApplied /\ absAsked' = absAsked
         /\ absAnswer[r] = None /\ absAnswer' = [absAnswer EXCEPT ![r] = x]
<1>1. absAnswer[r] = None
  BY LiveIsOpen
<1>2. absAnswer' = [absAnswer EXCEPT ![r] = x]
  BY TaskFacts DEF IInv, Typed, absAnswer
<1>. QED  BY <1>1, <1>2 DEF absApplied, absAsked

\* A step that does not answer any request is invisible, but for arrivals and
\* uploads that are applied.
LEMMA SilentStep ==
  ASSUME store' = store,
         \A q \in Requests :
           /\ op'[Handler(q)] = op[Handler(q)] /\ resp'[Handler(q)] = resp[Handler(q)]
           /\ upload'[Handler(q)] = "applied" <=> upload[Handler(q)] = "applied"
  PROVE  UNCHANGED P!vars
<1>1. absApplied' = absApplied /\ absAsked' = absAsked /\ absAnswer' = absAnswer
  BY DEF absApplied, absAsked, absAnswer
<1>. QED  BY <1>1 DEF P!vars, absApplied, absAsked, absAnswer

\* The answers of the runtime's steps are Serve, Refuse and Accept: what the
\* cache, a flight or a fetch of its own gives a reader is what the upstream holds.
LEMMA PollRefines ==
  ASSUME Immutable, IInv, RInv, Dealt, [Next]_vars, NEW t \in Tasks, Poll(t)
  PROVE  P!Next \/ UNCHANGED P!vars
<1>i. Typed /\ Uploading
  BY DEF IInv
<1>1. /\ op' = op /\ store' = store
      /\ \A u \in Tasks \ {t} : resp'[u] = resp[u]
      /\ \A u \in Tasks : upload'[u] = "applied" <=> upload[u] = "applied"
  BY <1>i, PollMoves, PollStore DEF Typed, Uploading
<1>2. CASE \A r \in Requests : t # Handler(r)
  BY <1>1, <1>2, SilentStep, TaskFacts
<1>3. ASSUME NEW r \in Requests, t = Handler(r) PROVE P!Next \/ UNCHANGED P!vars
  <2>1. CASE resp' = resp
    BY <1>1, <2>1, SilentStep, TaskFacts
  <2>2. CASE resp' # resp
    <3>1. Live(t)
      BY <1>3, <2>2, PollReplies
    <3>2. PICK x \in Replies :
            /\ resp' = [resp EXCEPT ![t] = x]
            /\ \/ ~Putting(t) /\ x \in Results
               \/ /\ Putting(t) /\ x = Fail(400)
                  /\ upload[t] = "none" /\ upload' = upload
               \/ Putting(t) /\ \E e \in Errors : x = Fail(e)
               \/ Putting(t) /\ x = Reply(200, None, None) /\ upload[t] = "applied"
      BY <1>3, <2>2, PollReplies
    <3>3. /\ absApplied' = absApplied /\ absAsked' = absAsked
          /\ absAnswer[r] = None /\ absAnswer' = [absAnswer EXCEPT ![r] = x]
      BY <1>1, <1>3, <3>1, <3>2, AnswerSeen, TaskFacts
    <3>4. /\ P!Proper(r) /\ P!At(r) = At(t) /\ At(t) \in Locations
          /\ absAsked[r] = op[t] /\ op[t] \in Ops /\ op[t] # None
      BY <1>3, <3>1, LiveIsOpen
    <3>5. /\ op[t].method = "PUT" <=> Putting(t)
          /\ Admitted(op[t]) /\ op[t].key \notin BadPaths
      BY <1>3, <3>1 DEF Dealt, DealtWith, LetIn
    <3>6. ASSUME NEW s \in P!Refusals(op[t]), x = Fail(s), s = 400 => upload[t] = "none"
          PROVE  P!Refuse(r)
      <4>1. r \in absApplied <=> upload[t] = "applied"
        BY <1>3 DEF absApplied
      <4>2. x = P!Fail(s)
        BY <3>6 DEF Fail, Reply, P!Fail, P!Reply
      <4>3. s = 400 => r \notin absApplied
        BY <3>6, <4>1
      <4>4. /\ absAsked[r] # None /\ s \in P!Refusals(absAsked[r])
            /\ absAnswer' = [absAnswer EXCEPT ![r] = P!Fail(s)]
        BY <3>3, <3>4, <3>6, <4>2
      <4>5. P!Answer(r, P!Fail(s))
        BY <3>3, <4>4 DEF P!Answer, absAnswer
      <4>. QED  BY <1>1, <3>3, <4>3, <4>4, <4>5 DEF P!Refuse, absApplied, absAsked
    <3>7. CASE ~Putting(t) /\ x \in Successes
      <4>1. PICK c \in CTypes \cup {None} : x = Reply(200, x.body, c)
        BY <3>7, RefusalFacts
      <4>2. resp'[t] = x /\ op[t] \in OpType
        BY <1>i, <3>2, <3>4, OpFacts DEF Typed
      <4>3. x.body = store[At(t)] /\ store[At(t)] # None
        BY <3>7, <4>2, PollReads, ReplyFacts, MarkerFacts
      <4>4. x = P!Reply(200, store[P!At(r)], c) /\ store[P!At(r)] # None
        BY <3>4, <4>1, <4>3 DEF Reply, P!Reply
      <4>5. absAsked[r].method # "PUT"
        BY <3>4, <3>5, <3>7
      <4>6. P!Serve(r)
        BY <1>1, <3>3, <3>4, <4>4, <4>5
           DEF P!Serve, P!Answer, absApplied, absAsked, absAnswer
      <4>. QED  BY <4>6 DEF P!Next
    <3>8. CASE x \in Results \ Successes \/ \E e \in Errors : x = Fail(e)
      <4>1. PICK s \in {NotFound, BadGateway} : x = Fail(s)
        BY <3>8, RefusalFacts DEF Errors
      <4>2. s \in P!Refusals(op[t]) /\ s # 400
        BY <3>4, <3>5, ErrorsAreRefusals DEF NotFound, BadGateway
      <4>. QED  BY <3>6, <4>1, <4>2 DEF P!Next
    <3>9. CASE Putting(t) /\ x = Fail(400) /\ upload[t] = "none"
      <4>1. 400 \in P!Refusals(op[t])
        BY <3>4, <3>5, <3>9, ErrorsAreRefusals
      <4>. QED  BY <3>6, <3>9, <4>1 DEF P!Next
    <3>10. CASE Putting(t) /\ x = Reply(200, None, None) /\ upload[t] = "applied"
      <4>1. r \in absApplied
        BY <1>3, <3>10 DEF absApplied
      <4>2. x = P!Reply(200, None, None)
        BY <3>10 DEF Reply, P!Reply
      <4>3. P!Accept(r)
        BY <1>1, <3>3, <3>4, <3>5, <3>10, <4>1, <4>2
           DEF P!Accept, P!Answer, absApplied, absAsked, absAnswer
      <4>. QED  BY <4>3 DEF P!Next
    <3>. QED  BY <3>2, <3>7, <3>8, <3>9, <3>10
  <2>. QED  BY <2>1, <2>2
<1>. QED  BY <1>2, <1>3

\* HEAD asks the upstream itself, so it is Serve or Refuse (handler.rs:264-316).
LEMMA HeadRefines ==
  ASSUME IInv, Dealt, NEW r \in Requests, PollHead(r)
  PROVE  P!Next
<1>. DEFINE t == Handler(r)
<1>i. /\ Typed /\ PlacedAt(t) /\ t \in Tasks /\ pc[t] = "head" /\ Live(t)
      /\ UNCHANGED <<store, upload>>
  BY TaskFacts DEF IInv, Placed, PollHead, HeadOk, HeadErr, Live
<1>1. \A q \in Requests : op'[Handler(q)] = op[Handler(q)]
  BY <1>i, TaskFacts DEF PollHead, HeadOk, SpawnPrefetch, HeadErr, Typed
<1>2. ASSUME NEW x, resp' = [resp EXCEPT ![t] = x]
      PROVE  /\ absApplied' = absApplied /\ absAsked' = absAsked
             /\ absAnswer[r] = None /\ absAnswer' = [absAnswer EXCEPT ![r] = x]
  BY <1>1, <1>2, <1>i, AnswerSeen
<1>3. /\ P!Proper(r) /\ P!At(r) = At(t) /\ absAsked[r] = op[t] /\ op[t] # None
      /\ op[t] \in Ops /\ Admitted(op[t]) /\ op[t].key \notin BadPaths
      /\ op[t].method # "PUT" /\ Guess[op[t].key] \in CTypes \cup {None}
  BY <1>i, LiveIsOpen, OpFacts DEF Dealt, DealtWith, LetIn, PlacedAt
<1>4. CASE HeadOk(r)
  <2>. DEFINE x == Reply(200, store[At(t)], Guess[op[t].key])
  <2>1. resp' = [resp EXCEPT ![t] = x] /\ store[At(t)] # None
    BY <1>4 DEF HeadOk, At
  <2>2. x = P!Reply(200, store[At(t)], Guess[op[t].key])
    BY DEF Reply, P!Reply
  <2>. HIDE DEF x
  <2>3. P!Serve(r)
    BY <1>i, <1>2, <1>3, <2>1, <2>2 DEF P!Serve, P!Answer, absApplied, absAsked, absAnswer
  <2>. QED  BY <2>3 DEF P!Next
<1>5. CASE HeadErr(r)
  <2>1. PICK s \in {NotFound, BadGateway} : resp' = [resp EXCEPT ![t] = Fail(s)]
    BY <1>5 DEF HeadErr, End
  <2>2. s \in P!Refusals(op[t]) /\ s # 400
    BY <1>3, ErrorsAreRefusals DEF NotFound, BadGateway
  <2>. DEFINE x == Fail(s)
  <2>3. x = P!Fail(s) /\ resp' = [resp EXCEPT ![t] = x]
    BY <2>1 DEF Fail, Reply, P!Fail, P!Reply
  <2>. HIDE DEF x
  <2>4. /\ absApplied' = absApplied /\ absAsked' = absAsked
        /\ absAnswer[r] = None /\ absAnswer' = [absAnswer EXCEPT ![r] = x]
    BY <1>2, <2>3
  <2>5. absAsked[r] # None /\ s \in P!Refusals(absAsked[r]) /\ store' = store
    BY <1>i, <1>3, <2>2
  <2>6. P!Refuse(r)
    BY <2>2, <2>3, <2>4, <2>5
       DEF P!Refuse, P!Answer, absApplied, absAsked, absAnswer
  <2>. QED  BY <2>6 DEF P!Next
<1>. QED  BY <1>4, <1>5 DEF PollHead

\* The upstream applies an upload whatever has become of its client.
LEMMA ApplyRefines ==
  ASSUME IInv, Dealt, NEW t \in Tasks, ApplyUpload(t)
  PROVE  P!Next
<1>1. /\ upload[t] = "sent" /\ upload' = [upload EXCEPT ![t] = "applied"]
      /\ store' = [store EXCEPT ![At(t)] = op[t].body] /\ UNCHANGED <<op, resp>>
  BY DEF ApplyUpload
<1>2. op[t].method = "PUT" /\ pc[t] # "new"
  BY <1>1 DEF IInv, Uploading
<1>3. PICK r \in Requests : t = Handler(r)
  <2>1. PICK r \in Requests : t = Handler(r) \/ t = Prefetch(r)
    BY DEF Tasks, Handler, Prefetch
  <2>2. t # Prefetch(r)
    BY <1>2 DEF IInv, PrefetchesFollow
  <2>. QED  BY <2>1, <2>2
<1>4. /\ P!Proper(r) /\ P!At(r) = At(t) /\ absAsked[r] = op[t] /\ absAnswer[r] = resp[t]
      /\ resp[t] # Fail(400)
  BY <1>1, <1>3, LiveIsOpen DEF Dealt, DealtWith
<1>5. r \notin absApplied /\ absApplied' = absApplied \cup {r}
  BY <1>1, <1>3, TaskFacts DEF IInv, Typed, absApplied
<1>6. Fail(400) = P!Fail(400) /\ absAsked' = absAsked /\ absAnswer' = absAnswer
  BY <1>1 DEF Fail, Reply, P!Fail, P!Reply, absAsked, absAnswer
<1>7. P!Apply(r)
  BY <1>1, <1>2, <1>4, <1>5, <1>6 DEF P!Apply, absApplied, absAsked, absAnswer
<1>. QED  BY <1>7 DEF P!Next

\* Every step of the gateway is a step of the gateway without a cache, or shows
\* to nobody.
LEMMA NextRefines ==
  ASSUME Immutable, IInv, RInv, Dealt, [Next]_vars
  PROVE  [P!Next]_(P!vars)
<1>1. ASSUME NEW r \in Requests, NEW o \in Ops, Request(Handler(r), o) PROVE P!Next
  BY <1>1, RequestRefines DEF P!Next
<1>2. ASSUME NEW t \in Tasks, Poll(t) PROVE P!Next \/ UNCHANGED P!vars
  BY <1>2, PollRefines
<1>3. ASSUME NEW r \in Requests, PollHead(r) PROVE P!Next
  BY <1>3, HeadRefines
<1>4. ASSUME NEW t \in Tasks, ApplyUpload(t) PROVE P!Next
  BY <1>4, ApplyRefines
<1>5. CASE (\E r \in Requests : Cancel(r)) \/ (\E k \in Keys : Evict(k)) \/ Restart
             \/ UNCHANGED vars
  <2>1. UNCHANGED <<store, op, resp, upload>>
    BY <1>5 DEF Cancel, Goto, Evict, Restart, vars
  <2>. QED  BY <2>1, SilentStep
<1>. QED  BY <1>1, <1>2, <1>3, <1>4, <1>5 DEF Next

\* While objects are immutable (README.md:11), nobody can tell cachegate from a
\* gateway that asks the upstream for every download at the moment it answers,
\* for every set of requests, keys and contents, whatever is lost on the way.
THEOREM Transparent == ASSUME Immutable PROVE Spec => ImplementsProxy
<1>1. Init => P!Init /\ Dealt
  BY TaskFacts DEF Init, P!Init, Dealt, DealtWith, Live
<1>2. Init => RInv
  BY InitRInv
<1>3. IInv /\ RInv /\ [Next]_vars => RInv'
  BY NextRInv
<1>4. IInv /\ Dealt /\ [Next]_vars => Dealt'
  BY NextDealt
<1>5. IInv /\ RInv /\ Dealt /\ [Next]_vars => [P!Next]_(P!vars)
  BY NextRefines
<1>. QED
  BY <1>1, <1>2, <1>3, <1>4, <1>5, Inductive, PTL DEF Spec, ImplementsProxy, P!Spec
=============================================================================
