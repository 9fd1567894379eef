---------------------------- MODULE CounterProofs ---------------------------
(***************************************************************************)
(* What the counters count, for any finite set of requests: requests_total *)
(* the answers, auth_fail_total the refusals, hits and misses the lookups. *)
(* The counts over the tasks are kept because each step adds at most one   *)
(* task to what is counted, and bumps the counter exactly when it does.    *)
(***************************************************************************)
EXTENDS GatewayProofs, FiniteSetTheorems

\* What the counters are supposed to count, task by task.
Denied(t)  == Answered(t) /\ resp[t].status = 401
Counted(t) == Answered(t) /\ resp[t].status # 401 /\ ~SkipsCounting(t)
LookedUp(t) ==
  /\ t \notin past
  /\ pc[t] \notin {"new", "lookup", "cancelled"}
  /\ op[t].method \in {"GET", "HEAD"}
  /\ pc[t] = "done" => resp[t].status \notin {400, 401}
Cut(t) == t \notin past /\ pc[t] = "cancelled"

\* The counters count, and only tasks that have begun are of an earlier run.
Metered ==
  /\ metrics \in [Counters -> Nat]
  /\ \A t \in Tasks : pc[t] = "new" => t \notin past

\* Which method's handler can be at which await; a prefetch ends as soon as it
\* finds that somebody else leads.
StationedAt(t) ==
  Live(t) =>
    /\ t \notin past /\ op[t].decodes
    /\ pc[t] = "lookup" => op[t].method \in {"GET", "HEAD"}
    /\ pc[t] = "recheck" => op[t].method = "GET"
    /\ pc[t] \in {"acquire", "wait", "fetch", "bytes", "complete", "release"}
         => op[t].method \in {"GET", "PREFETCH"}
    /\ op[t].method = "PREFETCH" =>
         /\ pc[t] = "wait" => step[t] = "follower"
         /\ pc[t] \in {"fetch", "bytes"} => step[t] = "leader"
    /\ pc[t] \in {"init_upload", "upload", "finish"} => op[t].key \notin Unrouted

Stationed == \A t \in Tasks : StationedAt(t)

\* What CountersReconcile says, by the sets it measures.
Reconciled ==
  /\ metrics["auth_fail"] = Cardinality({t \in Tasks : Denied(t)})
  /\ metrics["requests"] = Cardinality({t \in Tasks : Counted(t)})
  /\ Cardinality({t \in Tasks : LookedUp(t)}) <= metrics["cache_hit"] + metrics["cache_miss"]
  /\ metrics["cache_hit"] + metrics["cache_miss"] <=
       Cardinality({t \in Tasks : LookedUp(t)}) + Cardinality({t \in Tasks : Cut(t)})

CInv == Metered /\ Stationed /\ Reconciled

\* The counters of S are bumped.
Bumped(S) == Count(S) \/ (S = {} /\ UNCHANGED metrics)

\* A step of t, which has not ended, bumps the counters of S as it should.
Tally(t, S) ==
  /\ Bumped(S)
  /\ pc[t] \notin {"done", "cancelled"}
  /\ \A u \in Tasks \ {t} :
       /\ Denied(u)' <=> Denied(u)
       /\ Counted(u)' <=> Counted(u)
       /\ LookedUp(u)' <=> LookedUp(u)
       /\ Cut(u)' <=> Cut(u)
  /\ Denied(t)' <=> "auth_fail" \in S
  /\ Counted(t)' <=> "requests" \in S
  /\ LookedUp(t) => LookedUp(t)' \/ Cut(t)'
  /\ LookedUp(t)' /\ ~LookedUp(t) <=> "cache_hit" \in S \/ "cache_miss" \in S
  /\ ~("cache_hit" \in S /\ "cache_miss" \in S)

-----------------------------------------------------------------------------
(***************************************************************************)
(* Counting                                                                *)
(***************************************************************************)
\* Finitely many requests have finitely many tasks.
LEMMA FiniteTasks == IsFiniteSet(Requests) => IsFiniteSet(Tasks)
<1>1. \A x, y : IsFiniteSet({x, y})
  <2>1. SUFFICES ASSUME NEW x, NEW y PROVE IsFiniteSet({x, y})
    OBVIOUS
  <2>2. IsFiniteSet({x}) /\ {x, y} = {x} \cup {y}
    BY FS_Singleton
  <2>. QED  BY <2>2, FS_AddElement
<1>. QED  BY <1>1, FS_Product DEF Tasks

\* Bumping a counter adds one to it and leaves the others alone (metrics.rs:115-153).
LEMMA BumpedBy ==
  ASSUME Metered, NEW S, Bumped(S)
  PROVE  /\ metrics' \in [Counters -> Nat]
         /\ \A c \in Counters : metrics'[c] = IF c \in S THEN metrics[c] + 1 ELSE metrics[c]
BY DEF Metered, Bumped, Count

\* A set of tasks that changes at t only.
LEMMA SizeMoves ==
  ASSUME IsFiniteSet(Tasks), NEW t \in Tasks, NEW A \in SUBSET Tasks, NEW B \in SUBSET Tasks,
         \A u \in Tasks \ {t} : u \in A <=> u \in B
  PROVE  /\ Cardinality(A) \in Nat /\ Cardinality(B) \in Nat
         /\ t \in B /\ t \notin A => Cardinality(B) = Cardinality(A) + 1
         /\ t \in A /\ t \notin B => Cardinality(A) = Cardinality(B) + 1
         /\ (t \in A <=> t \in B) => Cardinality(B) = Cardinality(A)
<1>1. IsFiniteSet(A) /\ IsFiniteSet(B)
  BY FS_Subset
<1>2. Cardinality(A) \in Nat /\ Cardinality(B) \in Nat
  BY <1>1, FS_CardinalityType
<1>3. CASE t \in B /\ t \notin A
  <2>1. B = A \cup {t}
    BY <1>3
  <2>. QED  BY <1>1, <1>2, <1>3, <2>1, FS_AddElement
<1>4. CASE t \in A /\ t \notin B
  <2>1. A = B \cup {t}
    BY <1>4
  <2>. QED  BY <1>1, <1>2, <1>4, <2>1, FS_AddElement
<1>5. CASE t \in A <=> t \in B
  <2>1. A = B
    BY <1>5
  <2>. QED  BY <1>2, <1>5, <2>1
<1>. QED  BY <1>2, <1>3, <1>4, <1>5

\* The two forms agree.
LEMMA Measured ==
  ASSUME IsFiniteSet(Tasks), Metered, Reconciled
  PROVE  CountersReconcile
<1>. DEFINE answered == {t \in Tasks : Answered(t)}
<1>1. {t \in answered : resp[t].status = 401} = {t \in Tasks : Denied(t)}
  BY DEF Denied
<1>2. {t \in answered : resp[t].status # 401 /\ ~SkipsCounting(t)}
        = {t \in Tasks : Counted(t)}
  BY DEF Counted
<1>3. {t \in Tasks \ past :
         /\ pc[t] \notin {"new", "lookup", "cancelled"}
         /\ op[t].method \in {"GET", "HEAD"}
         /\ pc[t] = "done" => resp[t].status \notin {400, 401}}
        = {t \in Tasks : LookedUp(t)}
  BY DEF LookedUp
<1>4. {t \in Tasks \ past : pc[t] = "cancelled"} = {t \in Tasks : Cut(t)}
  BY DEF Cut
<1>. DEFINE l == Cardinality({t \in Tasks : LookedUp(t)})
            x == Cardinality({t \in Tasks : Cut(t)})
<1>5. l \in Nat /\ x \in Nat
  BY FS_Subset, FS_CardinalityType
<1>6. metrics["cache_hit"] \in Nat /\ metrics["cache_miss"] \in Nat
  BY DEF Metered, Counters
<1>7. metrics["cache_hit"] + metrics["cache_miss"] - l \in 0..x
  <2>1. /\ l <= metrics["cache_hit"] + metrics["cache_miss"]
        /\ metrics["cache_hit"] + metrics["cache_miss"] <= l + x
    BY DEF Reconciled
  <2>. HIDE DEF l, x
  <2>. QED  BY <1>5, <1>6, <2>1
<1>. QED  BY <1>1, <1>2, <1>3, <1>4, <1>7 DEF CountersReconcile, Reconciled

\* A step that tallies keeps the counters right.
LEMMA TallyKeeps ==
  ASSUME IsFiniteSet(Tasks), Metered, Reconciled,
         NEW t \in Tasks, NEW S, Tally(t, S)
  PROVE  Reconciled'
<1>. DEFINE D == {u \in Tasks : Denied(u)}
            C == {u \in Tasks : Counted(u)}
            L == {u \in Tasks : LookedUp(u)}
            X == {u \in Tasks : Cut(u)}
<1>1. /\ metrics["auth_fail"] = Cardinality(D)
      /\ metrics["requests"] = Cardinality(C)
      /\ Cardinality(L) <= metrics["cache_hit"] + metrics["cache_miss"]
      /\ metrics["cache_hit"] + metrics["cache_miss"] <= Cardinality(L) + Cardinality(X)
  BY DEF Reconciled
<1>2. /\ \A c \in Counters : metrics[c] \in Nat
      /\ \A c \in Counters : metrics'[c] = IF c \in S THEN metrics[c] + 1 ELSE metrics[c]
  BY BumpedBy DEF Tally, Metered
<1>3. {"auth_fail", "requests", "cache_hit", "cache_miss"} \subseteq Counters
  BY DEF Counters
<1>4. ~Denied(t) /\ ~Counted(t) /\ ~Cut(t)
  BY DEF Tally, Denied, Counted, Cut, Answered
<1>5. /\ D \in SUBSET Tasks /\ C \in SUBSET Tasks /\ L \in SUBSET Tasks /\ X \in SUBSET Tasks
      /\ D' \in SUBSET Tasks /\ C' \in SUBSET Tasks /\ L' \in SUBSET Tasks /\ X' \in SUBSET Tasks
  OBVIOUS
<1>6. metrics'["auth_fail"] = Cardinality(D')
  <2>1. /\ \A u \in Tasks \ {t} : u \in D <=> u \in D'
        /\ t \notin D /\ (t \in D' <=> "auth_fail" \in S)
    BY <1>4 DEF Tally
  <2>2. /\ t \in D' => Cardinality(D') = Cardinality(D) + 1
        /\ t \notin D' => Cardinality(D') = Cardinality(D)
    BY <1>5, <2>1, SizeMoves
  <2>. QED  BY <1>1, <1>2, <1>3, <2>1, <2>2
<1>7. metrics'["requests"] = Cardinality(C')
  <2>1. /\ \A u \in Tasks \ {t} : u \in C <=> u \in C'
        /\ t \notin C /\ (t \in C' <=> "requests" \in S)
    BY <1>4 DEF Tally
  <2>2. /\ t \in C' => Cardinality(C') = Cardinality(C) + 1
        /\ t \notin C' => Cardinality(C') = Cardinality(C)
    BY <1>5, <2>1, SizeMoves
  <2>. QED  BY <1>1, <1>2, <1>3, <2>1, <2>2
<1>8. /\ Cardinality(L') <= metrics'["cache_hit"] + metrics'["cache_miss"]
      /\ metrics'["cache_hit"] + metrics'["cache_miss"] <= Cardinality(L') + Cardinality(X')
  <2>1. /\ \A u \in Tasks \ {t} : (u \in L <=> u \in L') /\ (u \in X <=> u \in X')
        /\ t \notin X /\ (t \in L => t \in L' \/ t \in X')
        /\ t \in L' /\ t \notin L <=> "cache_hit" \in S \/ "cache_miss" \in S
        /\ ~("cache_hit" \in S /\ "cache_miss" \in S)
    BY <1>4 DEF Tally
  <2>2. /\ Cardinality(L) \in Nat /\ Cardinality(L') \in Nat
        /\ t \in L' /\ t \notin L => Cardinality(L') = Cardinality(L) + 1
        /\ t \in L /\ t \notin L' => Cardinality(L) = Cardinality(L') + 1
        /\ (t \in L <=> t \in L') => Cardinality(L') = Cardinality(L)
    BY <1>5, <2>1, SizeMoves
  <2>3. /\ Cardinality(X) \in Nat /\ Cardinality(X') \in Nat
        /\ t \in X' => Cardinality(X') = Cardinality(X) + 1
        /\ t \notin X' => Cardinality(X') = Cardinality(X)
    BY <1>5, <2>1, SizeMoves
  <2>4. metrics'["cache_hit"] + metrics'["cache_miss"] =
          IF "cache_hit" \in S \/ "cache_miss" \in S
          THEN metrics["cache_hit"] + metrics["cache_miss"] + 1
          ELSE metrics["cache_hit"] + metrics["cache_miss"]
    BY <1>2, <1>3, <2>1
  <2>5. metrics["cache_hit"] + metrics["cache_miss"] \in Nat
    BY <1>2, <1>3
  <2>6. CASE "cache_hit" \in S \/ "cache_miss" \in S
    BY <1>1, <2>1, <2>2, <2>3, <2>4, <2>5, <2>6
  <2>7. CASE ~("cache_hit" \in S \/ "cache_miss" \in S)
    BY <1>1, <2>1, <2>2, <2>3, <2>4, <2>5, <2>7
  <2>. QED  BY <2>6, <2>7
<1>. QED  BY <1>6, <1>7, <1>8 DEF Reconciled

-----------------------------------------------------------------------------
(***************************************************************************)
(* How a task's steps tally                                                *)
(***************************************************************************)
\* The outcomes of a fetch are successes, 404s and 502s (handler.rs:851-859).
LEMMA StatusFacts ==
  /\ \A x \in Results : x.status \in {200, NotFound, BadGateway}
  /\ \A e \in CacheEntries : Found(e).status = 200
  /\ \A s : Fail(s).status = s
  /\ \A s, b, c : Reply(s, b, c).status = s
BY DEF Results, Successes, Errors, Fail, Found, Reply

\* The tasks that a step does not touch count for what they did.
LEMMA OthersTally ==
  ASSUME NEW u \in Tasks, UNCHANGED past,
         op'[u] = op[u], pc'[u] = pc[u], resp'[u] = resp[u]
  PROVE  /\ Denied(u)' <=> Denied(u)
         /\ Counted(u)' <=> Counted(u)
         /\ LookedUp(u)' <=> LookedUp(u)
         /\ Cut(u)' <=> Cut(u)
BY DEF Denied, Counted, LookedUp, Cut, Answered, SkipsCounting

\* A task that goes on counts as a lookup once it has left "lookup"; a prefetch
\* that ends counts for nothing.
LEMMA MoveTallies ==
  ASSUME Typed, NEW t \in Tasks, StationedAt(t), Live(t), NEW where, Goto(t, where),
         UNCHANGED <<op, past>>,
         \/ where \notin {"new", "lookup", "done", "cancelled"}
         \/ where = "done" /\ op[t].method = "PREFETCH" /\ pc[t] # "lookup",
         NEW S, Bumped(S),
         \/ S = {"cache_miss"} /\ pc[t] = "lookup"
         \/ S \subseteq {"upstream_ok", "upstream_err"} /\ pc[t] # "lookup"
  PROVE  Tally(t, S)
<1>1. /\ pc'[t] = where /\ resp' = resp
      /\ \A u \in Tasks \ {t} : pc'[u] = pc[u]
  BY DEF Goto, Typed
<1>2. \A u \in Tasks \ {t} :
        /\ Denied(u)' <=> Denied(u)
        /\ Counted(u)' <=> Counted(u)
        /\ LookedUp(u)' <=> LookedUp(u)
        /\ Cut(u)' <=> Cut(u)
  BY <1>1, OthersTally
<1>3. ~Denied(t)' /\ ~Counted(t)'
  BY <1>1 DEF Denied, Counted, Answered
<1>4. LookedUp(t)' <=> op[t].method \in {"GET", "HEAD"}
  BY <1>1 DEF LookedUp, StationedAt
<1>5. LookedUp(t) <=> op[t].method \in {"GET", "HEAD"} /\ pc[t] # "lookup"
  BY DEF LookedUp, StationedAt, Live
<1>6. pc[t] = "lookup" => op[t].method \in {"GET", "HEAD"}
  BY DEF StationedAt
<1>. QED  BY <1>2, <1>3, <1>4, <1>5, <1>6 DEF Tally, Live, Counters

\* A task that answers counts as an answer, unless the code returns before it
\* counts it.
LEMMA AnswerTallies ==
  ASSUME Typed, NEW t \in Tasks, StationedAt(t), Live(t), NEW x \in Replies, End(t, x),
         UNCHANGED <<op, past>>, op[t].method # "PREFETCH",
         op[t].method = "PUT" => op[t].key \notin Unrouted,
         x.status # 401, op[t].method \in {"GET", "HEAD"} => x.status # 400,
         NEW S, Bumped(S), "auth_fail" \notin S,
         "requests" \in S <=> ~(op[t].method = "HEAD" /\ x.status \in Errors),
         "cache_hit" \in S \/ "cache_miss" \in S <=> pc[t] = "lookup",
         ~("cache_hit" \in S /\ "cache_miss" \in S)
  PROVE  Tally(t, S)
<1>1. /\ pc'[t] = "done" /\ resp'[t] = x
      /\ \A u \in Tasks \ {t} : pc'[u] = pc[u] /\ resp'[u] = resp[u]
  BY DEF End, Typed
<1>2. \A u \in Tasks \ {t} :
        /\ Denied(u)' <=> Denied(u)
        /\ Counted(u)' <=> Counted(u)
        /\ LookedUp(u)' <=> LookedUp(u)
        /\ Cut(u)' <=> Cut(u)
  BY <1>1, OthersTally
<1>3. Answered(t)' /\ ~Denied(t)'
  BY <1>1 DEF Denied, Answered, StationedAt
<1>4. Counted(t)' <=> ~(op[t].method = "HEAD" /\ x.status \in Errors)
  BY <1>1, <1>3 DEF Counted, SkipsCounting, StationedAt
<1>5. LookedUp(t)' <=> op[t].method \in {"GET", "HEAD"}
  BY <1>1 DEF LookedUp, StationedAt
<1>6. LookedUp(t) <=> op[t].method \in {"GET", "HEAD"} /\ pc[t] # "lookup"
  BY DEF LookedUp, StationedAt, Live
<1>7. pc[t] = "lookup" => op[t].method \in {"GET", "HEAD"}
  BY DEF StationedAt
<1>. QED  BY <1>2, <1>3, <1>4, <1>5, <1>6, <1>7 DEF Tally, Live

\* The steps of the runtime's tasks bump what they should: at a hit, a miss and an
\* answer, but not at a second look or at the errors that return early
\* (handler.rs:140-213, 250-262, 376-497, 498-585).
LEMMA PollTallies ==
  ASSUME IInv, Metered, Stationed, NEW t \in Tasks, Poll(t)
  PROVE  \/ \E S : Tally(t, S)
         \/ UNCHANGED <<op, pc, resp, metrics, past>>
<1>i. Typed /\ PlacedAt(t) /\ StationedAt(t)
  BY DEF IInv, Placed, Stationed
<1>q. (\A S : Count(S) => Bumped(S)) /\ (UNCHANGED metrics => Bumped({}))
  BY DEF Bumped
<1>1. CASE CacheHit(t)
  <2>1. /\ pc[t] = "lookup" /\ Live(t) /\ op[t].method \in {"GET", "HEAD"}
        /\ End(t, Found(cache[op[t].key])) /\ Bumped({"cache_hit", "requests"})
        /\ UNCHANGED <<op, past>>
    BY <1>1, <1>i, <1>q DEF CacheHit, Live, StationedAt, history, runs
  <2>2. cache[op[t].key] \in CacheEntries
    BY <1>1, <1>i, OpFacts DEF CacheHit, PlacedAt, Typed
  <2>3. Found(cache[op[t].key]) \in Replies /\ Found(cache[op[t].key]).status = 200
    BY <2>2, ReplyFacts, StatusFacts
  <2>4. Tally(t, {"cache_hit", "requests"})
    BY <1>i, <2>1, <2>3, AnswerTallies DEF Errors, NotFound, BadGateway
  <2>. QED  BY <2>4
<1>2. CASE GetMiss(t) \/ (HeadMiss(t) /\ Goto(t, "head"))
  <2>1. /\ pc[t] = "lookup" /\ Live(t) /\ Bumped({"cache_miss"}) /\ UNCHANGED <<op, past>>
        /\ Goto(t, "acquire") \/ Goto(t, "head")
    BY <1>2, <1>q DEF GetMiss, HeadMiss, Live, history, runs
  <2>2. Tally(t, {"cache_miss"})
    BY <1>i, <2>1, MoveTallies
  <2>. QED  BY <2>2
<1>3. CASE HeadMiss(t) /\ End(t, Fail(NotFound))
  <2>1. /\ pc[t] = "lookup" /\ Live(t) /\ Bumped({"cache_miss"}) /\ UNCHANGED <<op, past>>
        /\ op[t].method = "HEAD"
    BY <1>3, <1>q DEF HeadMiss, Live, history, runs
  <2>2. Fail(NotFound) \in Replies /\ Fail(NotFound).status = NotFound
    BY ReplyFacts, StatusFacts
  <2>3. Tally(t, {"cache_miss"})
    BY <1>i, <1>3, <2>1, <2>2, AnswerTallies DEF Errors, NotFound
  <2>. QED  BY <2>3
<1>4. CASE Acquire(t) \/ PrefetchSkip(t) \/ Complete(t)
  <2>1. /\ pc[t] \in {"acquire", "wait", "complete"} /\ Live(t) /\ Bumped({})
        /\ UNCHANGED <<op, past>>
        /\ \/ \E where \in {"fetch", "wait", "release"} : Goto(t, where)
           \/ Goto(t, "done") /\ op[t].method = "PREFETCH"
    BY <1>4, <1>q DEF Acquire, PrefetchSkip, Complete, Live, history, runs
  <2>2. Tally(t, {})
    BY <1>i, <2>1, MoveTallies
  <2>. QED  BY <2>2
<1>5. CASE Register(t) \/ SpawnedRelease(t)
  BY <1>5 DEF Register, SpawnedRelease, history, runs
<1>6. CASE Resume(t)
  <2>1. /\ pc[t] = "wait" /\ Live(t) /\ UNCHANGED <<op, past>>
    BY <1>6 DEF Resume, Live, history, runs
  <2>2. CASE UNCHANGED metrics /\ (Goto(t, "recheck") \/ Goto(t, "fetch"))
    <3>1. Tally(t, {})
      BY <1>i, <1>q, <2>1, <2>2, MoveTallies
    <3>. QED  BY <3>1
  <2>3. CASE got'[t] \in Results \ Successes /\ End(t, got'[t]) /\ Count({"requests"})
    <3>1. op[t].method = "GET"
      BY <1>6, <1>i, <2>1 DEF Resume, I!ReadResult, StationedAt
    <3>2. got'[t] \in Replies /\ got'[t].status \in {200, NotFound, BadGateway}
      BY <2>3, ReplyFacts, StatusFacts
    <3>3. Tally(t, {"requests"})
      BY <1>i, <1>q, <2>1, <2>3, <3>1, <3>2, AnswerTallies DEF NotFound, BadGateway
    <3>. QED  BY <3>3
  <2>. QED  BY <1>6, <2>2, <2>3 DEF Resume
<1>7. CASE Recheck(t)
  <2>1. /\ pc[t] = "recheck" /\ Live(t) /\ op[t].method = "GET" /\ UNCHANGED <<op, past>>
        /\ Bumped({"requests"})
    BY <1>7, <1>i, <1>q DEF Recheck, Live, StationedAt, history, runs
  <2>2. \E x \in Replies : End(t, x) /\ x.status \in {200, NotFound, BadGateway}
    <3>1. cache[op[t].key] \in CacheEntries \cup {None} /\ fetched[t] \in Results
      BY <1>i, <2>1, OpFacts, ReplyFacts DEF PlacedAt, Typed
    <3>2. /\ fetched[t] \in Replies /\ fetched[t].status \in {200, NotFound, BadGateway}
          /\ cache[op[t].key] # None =>
               /\ Found(cache[op[t].key]) \in Replies
               /\ Found(cache[op[t].key]).status = 200
      BY <3>1, ReplyFacts, StatusFacts
    <3>. QED  BY <1>7, <3>2 DEF Recheck
  <2>3. Tally(t, {"requests"})
    BY <1>i, <2>1, <2>2, AnswerTallies DEF NotFound, BadGateway
  <2>. QED  BY <2>3
<1>8. CASE FetchUnknownBucket(t) \/ FetchGet(t) \/ FetchBytes(t)
  <2>1. pc[t] \in {"fetch", "bytes"} /\ Live(t) /\ UNCHANGED <<op, past>>
    BY <1>8 DEF FetchUnknownBucket, FetchGet, FetchBytes, Live, history, runs
  <2>2. ASSUME NEW x \in Results, NEW C \in SUBSET {"upstream_ok", "upstream_err"},
               FetchReturns(t, x, C)
        PROVE  \E S : Tally(t, S)
    <3>1. CASE Goto(t, "complete") /\ Count(C)
      <4>1. Tally(t, C)
        BY <1>i, <1>q, <2>1, <3>1, MoveTallies
      <4>. QED  BY <4>1
    <3>2. CASE step[t] # "leader" /\ End(t, x) /\ Count(C \cup {"requests"})
      <4>1. op[t].method = "GET"
        BY <1>i, <2>1, <3>2 DEF StationedAt
      <4>2. x \in Replies /\ x.status \in {200, NotFound, BadGateway}
        BY ReplyFacts, StatusFacts
      <4>3. Tally(t, C \cup {"requests"})
        BY <1>i, <1>q, <2>1, <3>2, <4>1, <4>2, AnswerTallies DEF NotFound, BadGateway
      <4>. QED  BY <4>3
    <3>. QED  BY <2>2, <3>1, <3>2 DEF FetchReturns
  <2>3. CASE UNCHANGED metrics /\ Goto(t, "bytes")
    <3>1. Tally(t, {})
      BY <1>i, <1>q, <2>1, <2>3, MoveTallies
    <3>. QED  BY <3>1
  <2>4. /\ Fail(NotFound) \in Results /\ Fail(BadGateway) \in Results
        /\ pc[t] = "bytes" => fetched[t] \in Results
    BY <1>i, ReplyFacts DEF PlacedAt
  <2>5. CASE FetchUnknownBucket(t)
    BY <2>2, <2>4, <2>5 DEF FetchUnknownBucket
  <2>6. CASE FetchGet(t)
    BY <2>2, <2>3, <2>4, <2>6 DEF FetchGet
  <2>7. CASE FetchBytes(t)
    BY <2>2, <2>4, <2>7 DEF FetchBytes
  <2>. QED  BY <1>8, <2>5, <2>6, <2>7
<1>9. CASE CompleteRelease(t)
  <2>1. pc[t] = "release" /\ Live(t) /\ UNCHANGED <<op, past>>
    BY <1>9 DEF CompleteRelease, Live, history, runs
  <2>2. CASE op[t].method = "GET" /\ End(t, fetched[t]) /\ Count({"requests"})
    <3>1. fetched[t] \in Replies /\ fetched[t].status \in {200, NotFound, BadGateway}
      BY <1>i, <2>1, ReplyFacts, StatusFacts DEF PlacedAt
    <3>2. Tally(t, {"requests"})
      BY <1>i, <1>q, <2>1, <2>2, <3>1, AnswerTallies DEF NotFound, BadGateway
    <3>. QED  BY <3>2
  <2>3. CASE op[t].method = "PREFETCH" /\ Goto(t, "done") /\ UNCHANGED metrics
    <3>1. Tally(t, {})
      BY <1>i, <1>q, <2>1, <2>3, MoveTallies
    <3>. QED  BY <3>1
  <2>. QED  BY <1>9, <2>2, <2>3 DEF CompleteRelease
<1>10. CASE PutInit(t) \/ PutBody(t) \/ PutBodyErr(t) \/ PutOk(t) \/ PutErr(t)
  <2>1. /\ pc[t] \in {"init_upload", "upload", "finish"} /\ Live(t)
        /\ UNCHANGED <<op, past>>
    BY <1>10 DEF PutInit, PutBody, PutBodyErr, PutOk, PutErr, Live, history, runs
  <2>2. op[t].method = "PUT" /\ op[t].key \notin Unrouted
    BY <1>i, <2>1 DEF IInv, Uploading, StationedAt
  <2>3. CASE UNCHANGED metrics /\ (Goto(t, "upload") \/ Goto(t, "finish"))
    <3>1. Tally(t, {})
      BY <1>i, <1>q, <2>1, <2>3, MoveTallies
    <3>. QED  BY <3>1
  <2>4. ASSUME NEW x \in Replies, x.status \in {200, 400, NotFound, BadGateway}, End(t, x),
               NEW S, "requests" \in S, S \subseteq {"upstream_ok", "upstream_err", "requests"},
               Count(S)
        PROVE  \E C : Tally(t, C)
    <3>1. Tally(t, S)
      BY <1>i, <1>q, <2>1, <2>2, <2>4, AnswerTallies DEF NotFound, BadGateway
    <3>. QED  BY <3>1
  <2>5. /\ \A e \in Errors :
             Fail(e) \in Replies /\ Fail(e).status \in {200, 400, NotFound, BadGateway}
        /\ Fail(400) \in Replies /\ Fail(400).status = 400
        /\ Reply(200, None, None) \in Replies /\ Reply(200, None, None).status = 200
    BY ReplyFacts, StatusFacts DEF Errors
  <2>6. ASSUME NEW x \in Replies, x.status \in {200, 400, NotFound, BadGateway}, End(t, x),
               \/ Count({"upstream_err", "requests"})
               \/ Count({"upstream_ok", "requests"}) \/ Count({"requests"})
        PROVE  \E C : Tally(t, C)
    <3>1. CASE Count({"upstream_err", "requests"})
      BY <2>4, <2>6, <3>1
    <3>2. CASE Count({"upstream_ok", "requests"})
      BY <2>4, <2>6, <3>2
    <3>3. CASE Count({"requests"})
      BY <2>4, <2>6, <3>3
    <3>. QED  BY <2>6, <3>1, <3>2, <3>3
  <2>7. CASE PutInit(t) \/ PutBody(t)
    BY <2>3, <2>5, <2>6, <2>7 DEF PutInit, PutBody
  <2>8. CASE PutBodyErr(t) \/ PutOk(t) \/ PutErr(t)
    <3>1. \/ End(t, Fail(400)) /\ Count({"requests"})
          \/ End(t, Reply(200, None, None)) /\ Count({"upstream_ok", "requests"})
          \/ (\E e \in Errors : End(t, Fail(e))) /\ Count({"upstream_err", "requests"})
      BY <2>8 DEF PutBodyErr, PutOk, PutErr
    <3>2. CASE End(t, Fail(400)) /\ Count({"requests"})
      BY <2>5, <2>6, <3>2
    <3>3. CASE End(t, Reply(200, None, None)) /\ Count({"upstream_ok", "requests"})
      BY <2>5, <2>6, <3>3
    <3>4. CASE (\E e \in Errors : End(t, Fail(e))) /\ Count({"upstream_err", "requests"})
      <4>1. PICK e \in Errors : End(t, Fail(e))
        BY <3>4
      <4>2. Fail(e) \in Replies /\ Fail(e).status \in {200, 400, NotFound, BadGateway}
        BY ReplyFacts, StatusFacts DEF Errors
      <4>. QED  BY <2>6, <3>4, <4>1, <4>2
    <3>. QED  BY <3>1, <3>2, <3>3, <3>4
  <2>. QED  BY <1>10, <2>7, <2>8
<1>11. CASE HeadMiss(t)
  BY <1>2, <1>3, <1>11 DEF HeadMiss
<1>. QED  BY <1>1, <1>2, <1>4, <1>5, <1>6, <1>7, <1>8, <1>9, <1>10, <1>11 DEF Poll

\* So do arrivals, whether they are let in or not (handler.rs:44-101, 359-362).
LEMMA RequestTallies ==
  ASSUME IInv, Metered, NEW r \in Requests, NEW o \in Ops, Request(Handler(r), o)
  PROVE  \E S : Tally(Handler(r), S)
<1>. DEFINE t == Handler(r)
<1>i. Typed /\ t \in Tasks /\ o \in OpType /\ o.method # "PREFETCH"
  BY TaskFacts, OpFacts, GatewayAssumption DEF IInv
<1>q. (\A S : Count(S) => Bumped(S)) /\ (UNCHANGED metrics => Bumped({}))
  BY DEF Bumped
<1>1. /\ pc[t] = "new" /\ t \notin past /\ op'[t] = o /\ UNCHANGED past
      /\ \A u \in Tasks \ {t} : op'[u] = op[u]
  BY <1>i, RequestMoves DEF runs, Metered
<1>2. ASSUME \E where : pc' = [pc EXCEPT ![t] = where],
             resp' = resp \/ \E x : resp' = [resp EXCEPT ![t] = x],
             NEW S, Bumped(S), "cache_hit" \notin S, "cache_miss" \notin S,
             Denied(t)' <=> "auth_fail" \in S, Counted(t)' <=> "requests" \in S,
             ~LookedUp(t)'
      PROVE  Tally(t, S)
  <2>1. \A u \in Tasks \ {t} : pc'[u] = pc[u] /\ resp'[u] = resp[u]
    BY <1>2, <1>i DEF Typed
  <2>2. \A u \in Tasks \ {t} :
          /\ Denied(u)' <=> Denied(u)
          /\ Counted(u)' <=> Counted(u)
          /\ LookedUp(u)' <=> LookedUp(u)
          /\ Cut(u)' <=> Cut(u)
    BY <1>1, <2>1, OthersTally
  <2>3. ~LookedUp(t)
    BY <1>1 DEF LookedUp
  <2>. QED  BY <1>1, <1>2, <2>2, <2>3 DEF Tally
<1>3. ASSUME NEW x, End(t, x)
      PROVE  /\ pc' = [pc EXCEPT ![t] = "done"] /\ resp' = [resp EXCEPT ![t] = x]
             /\ Answered(t)' /\ resp'[t] = x /\ pc'[t] = "done"
  BY <1>1, <1>3, <1>i DEF End, Typed, Answered
<1>4. CASE Undecodable(t, o)
  <2>1. ~o.decodes /\ End(t, Fail(400)) /\ Bumped({})
    BY <1>4, <1>q DEF Undecodable
  <2>2. ~Denied(t)' /\ ~Counted(t)' /\ ~LookedUp(t)'
    BY <1>1, <1>3, <2>1, StatusFacts DEF Denied, Counted, SkipsCounting, LookedUp
  <2>3. Tally(t, {})
    BY <1>2, <1>3, <2>1, <2>2
  <2>. QED  BY <2>3
<1>5. CASE Unauthorized(t, o)
  <2>1. End(t, Fail(401)) /\ Bumped({"auth_fail"})
    BY <1>5, <1>q DEF Unauthorized
  <2>2. Denied(t)' /\ ~Counted(t)' /\ ~LookedUp(t)'
    BY <1>1, <1>3, <2>1, StatusFacts DEF Denied, Counted, SkipsCounting, LookedUp
  <2>3. Tally(t, {"auth_fail"})
    BY <1>2, <1>3, <2>1, <2>2
  <2>. QED  BY <2>3
<1>6. CASE InvalidPath(t, o)
  <2>1. o.decodes /\ End(t, Fail(400)) /\ Bumped({"requests"})
    BY <1>6, <1>q DEF InvalidPath, Admitted
  <2>2. ~Denied(t)' /\ Counted(t)' /\ ~LookedUp(t)'
    BY <1>1, <1>3, <2>1, StatusFacts
       DEF Denied, Counted, SkipsCounting, LookedUp, Errors, NotFound, BadGateway
  <2>3. Tally(t, {"requests"})
    BY <1>2, <1>3, <2>1, <2>2
  <2>. QED  BY <2>3
<1>7. CASE StartRead(t, o) \/ StartPut(t, o)
  <2>1. /\ Goto(t, "lookup") \/ (Goto(t, "init_upload") /\ o.method = "PUT")
        /\ Bumped({})
    BY <1>7, <1>q DEF StartRead, StartPut
  <2>2. ~Denied(t)' /\ ~Counted(t)' /\ ~LookedUp(t)'
    BY <1>1, <1>i, <2>1 DEF Goto, Typed, Denied, Counted, Answered, LookedUp
  <2>3. Tally(t, {})
    BY <1>2, <2>1, <2>2 DEF Goto
  <2>. QED  BY <2>3
<1>8. CASE PutUnknownBucket(t, o)
  <2>1. /\ o.method = "PUT" /\ o.key \in Unrouted /\ End(t, Fail(NotFound)) /\ Bumped({})
    BY <1>8, <1>q DEF PutUnknownBucket
  <2>2. ~Denied(t)' /\ ~Counted(t)' /\ ~LookedUp(t)'
    BY <1>1, <1>3, <2>1, StatusFacts DEF Denied, Counted, SkipsCounting, LookedUp, NotFound
  <2>3. Tally(t, {})
    BY <1>2, <1>3, <2>1, <2>2
  <2>. QED  BY <2>3
<1>. QED  BY <1>4, <1>5, <1>6, <1>7, <1>8 DEF Request

\* HEAD counts its lookup once, and its answer unless that is an upstream error; the
\* prefetch it spawns counts for nothing (handler.rs:264-327).
LEMMA HeadTallies ==
  ASSUME IInv, Metered, Stationed, NEW r \in Requests, PollHead(r)
  PROVE  \E S : Tally(Handler(r), S)
<1>. DEFINE t == Handler(r)
            q == Prefetch(r)
<1>i. /\ Typed /\ t \in Tasks /\ q \in Tasks /\ t # q /\ StationedAt(t) /\ PlacedAt(t)
      /\ pc[t] = "head" /\ Live(t) /\ op[t].method = "HEAD" /\ UNCHANGED past
      /\ pc[q] = "new" /\ op[t].key \in Keys
  BY TaskFacts, OpFacts
     DEF IInv, Placed, PlacedAt, Stationed, PrefetchesFollow, PollHead, HeadOk, HeadErr,
         Live, history, runs
<1>q. \A S : Count(S) => Bumped(S)
  BY DEF Bumped
<1>1. CASE HeadErr(r)
  <2>1. /\ End(t, Fail(NotFound)) \/ End(t, Fail(BadGateway))
        /\ Bumped({"upstream_err"}) /\ UNCHANGED op
    BY <1>1, <1>q DEF HeadErr
  <2>2. \A s \in Errors : Fail(s) \in Replies /\ Fail(s).status = s
    BY ReplyFacts, StatusFacts DEF Errors
  <2>3. ASSUME NEW s \in Errors, End(t, Fail(s)) PROVE Tally(t, {"upstream_err"})
    BY <1>i, <2>1, <2>2, <2>3, AnswerTallies DEF Errors, NotFound, BadGateway
  <2>4. Tally(t, {"upstream_err"})
    BY <2>1, <2>3 DEF Errors
  <2>. QED  BY <2>4
<1>2. CASE HeadOk(r)
  <2>1. /\ Bumped({"upstream_ok", "requests"}) /\ pc'[t] = "done" /\ op'[t] = op[t]
        /\ resp'[t].status = 200
    <3>1. Bumped({"upstream_ok", "requests"})
      BY <1>2, <1>q DEF HeadOk
    <3>2. pc'[t] = "done" /\ op'[t] = op[t]
      BY <1>2, <1>i DEF HeadOk, SpawnPrefetch, Typed
    <3>3. resp'[t].status = 200
      BY <1>2, <1>i, StatusFacts DEF HeadOk, Typed
    <3>. QED  BY <3>1, <3>2, <3>3
  <2>2. \A u \in Tasks \ {t, q} : pc'[u] = pc[u] /\ op'[u] = op[u] /\ resp'[u] = resp[u]
    BY <1>2, <1>i DEF HeadOk, SpawnPrefetch, Typed
  <2>3. \/ pc'[q] = "new" \/ (pc'[q] = "acquire" /\ op'[q].method = "PREFETCH")
    BY <1>2, <1>i DEF HeadOk, SpawnPrefetch, Typed
  <2>4. \A u \in Tasks \ {t} :
          /\ Denied(u)' <=> Denied(u)
          /\ Counted(u)' <=> Counted(u)
          /\ LookedUp(u)' <=> LookedUp(u)
          /\ Cut(u)' <=> Cut(u)
    <3>1. \A u \in Tasks \ {t, q} :
            /\ Denied(u)' <=> Denied(u)
            /\ Counted(u)' <=> Counted(u)
            /\ LookedUp(u)' <=> LookedUp(u)
            /\ Cut(u)' <=> Cut(u)
      BY <1>i, <2>2, OthersTally
    <3>2. ~Denied(q) /\ ~Counted(q) /\ ~LookedUp(q) /\ ~Cut(q)
      BY <1>i DEF Denied, Counted, LookedUp, Cut, Answered
    <3>3. ~Denied(q)' /\ ~Counted(q)' /\ ~LookedUp(q)' /\ ~Cut(q)'
      BY <2>3 DEF Denied, Counted, LookedUp, Cut, Answered
    <3>. QED  BY <3>1, <3>2, <3>3
  <2>5. ~Denied(t)' /\ Counted(t)' /\ LookedUp(t)' /\ LookedUp(t)
    BY <1>i, <2>1
       DEF Denied, Counted, LookedUp, Answered, SkipsCounting, StationedAt, Errors,
           NotFound, BadGateway
  <2>6. Tally(t, {"upstream_ok", "requests"})
    BY <1>i, <2>1, <2>4, <2>5 DEF Tally
  <2>. QED  BY <2>6
<1>. QED  BY <1>1, <1>2 DEF PollHead

\* A request whose client leaves is in doubt: its lookup may have been counted.
LEMMA CancelTallies ==
  ASSUME IInv, Stationed, NEW r \in Requests, Cancel(r)
  PROVE  Tally(Handler(r), {})
<1>. DEFINE t == Handler(r)
<1>1. /\ Typed /\ t \in Tasks /\ StationedAt(t) /\ Live(t)
      /\ UNCHANGED <<op, past, resp, metrics>> /\ pc'[t] = "cancelled"
      /\ \A u \in Tasks \ {t} : pc'[u] = pc[u]
  BY TaskFacts DEF IInv, Stationed, Cancel, Goto, Typed, history, runs
<1>2. \A u \in Tasks \ {t} :
        /\ Denied(u)' <=> Denied(u)
        /\ Counted(u)' <=> Counted(u)
        /\ LookedUp(u)' <=> LookedUp(u)
        /\ Cut(u)' <=> Cut(u)
  BY <1>1, OthersTally
<1>3. ~Denied(t)' /\ ~Counted(t)' /\ ~LookedUp(t)' /\ Cut(t)'
  BY <1>1 DEF Denied, Counted, LookedUp, Cut, Answered, StationedAt
<1>. QED  BY <1>1, <1>2, <1>3 DEF Tally, Bumped, Live

-----------------------------------------------------------------------------
(***************************************************************************)
(* Handlers stay at their stations                                         *)
(***************************************************************************)
\* A task keeps its station while others move, also if they wake it up.
LEMMA OthersStationed ==
  ASSUME NEW u \in Tasks, StationedAt(u), UNCHANGED past,
         pc'[u] = pc[u], op'[u] = op[u],
         step'[u] = step[u] \/ (step[u] = "waiting" /\ step'[u] = "woken")
  PROVE  StationedAt(u)'
BY DEF StationedAt, Live

\* A task polled by the runtime moves to a station of its method; a prefetch that
\* follows never waits (handler.rs:763-806).
LEMMA PollStationed ==
  ASSUME IInv, Stationed, NEW t \in Tasks, Poll(t)
  PROVE  Stationed'
<1>i. /\ Typed /\ PlacedAt(t) /\ StationedAt(t) /\ IP!TypeOK
      /\ op' = op /\ UNCHANGED past
  BY PollMoves
     DEF IInv, IP!IInv, Placed, Stationed, Poll, CacheHit, GetMiss, HeadMiss, Acquire,
         PrefetchSkip, Register, Resume, Recheck, FetchUnknownBucket, FetchGet,
         FetchBytes, Complete, CompleteRelease, SpawnedRelease, PutInit, PutBody,
         PutBodyErr, PutOk, PutErr, history, runs
<1>1. ASSUME NEW u \in Tasks \ {t} PROVE StationedAt(u)'
  <2>1. step'[u] = step[u] \/ (step[u] = "waiting" /\ step'[u] = "woken")
    BY PollTable, TableFrame DEF IInv
  <2>2. pc'[u] = pc[u]
    BY PollMoves
  <2>. QED  BY <1>i, <2>1, <2>2, OthersStationed DEF Stationed
<1>2. StationedAt(t)'
  <2>1. ASSUME pc'[t] \in {"done", "cancelled"} PROVE StationedAt(t)'
    BY <2>1 DEF StationedAt, Live
  <2>2. ASSUME NEW x, End(t, x) PROVE pc'[t] = "done"
    BY <1>i, <2>2 DEF End, Typed
  <2>3. ASSUME NEW where, Goto(t, where) PROVE pc'[t] = where
    BY <1>i, <2>3 DEF Goto, Typed
  <2>4. CASE CacheHit(t) \/ Recheck(t) \/ PrefetchSkip(t) \/ CompleteRelease(t)
             \/ PutBodyErr(t) \/ PutOk(t) \/ PutErr(t)
    BY <2>1, <2>2, <2>3, <2>4
       DEF CacheHit, Recheck, PrefetchSkip, CompleteRelease, PutBodyErr, PutOk, PutErr
  <2>5. CASE GetMiss(t) \/ HeadMiss(t)
    <3>1. /\ pc[t] = "lookup"
          /\ \/ pc'[t] = "acquire" /\ op[t].method = "GET"
             \/ pc'[t] = "head" /\ op[t].method = "HEAD"
             \/ pc'[t] = "done"
      BY <2>2, <2>3, <2>5 DEF GetMiss, HeadMiss
    <3>. QED  BY <1>i, <3>1 DEF StationedAt, Live
  <2>6. CASE Acquire(t)
    <3>1. /\ pc[t] = "acquire"
          /\ \/ pc'[t] = "fetch" /\ step'[t] = "leader"
             \/ pc'[t] = "wait" /\ step'[t] = "follower"
      BY <2>3, <2>6 DEF Acquire
    <3>. QED  BY <1>i, <3>1 DEF StationedAt, Live
  <2>7. CASE Register(t) \/ SpawnedRelease(t)
    <3>1. \/ pc'[t] = "wait" /\ pc[t] = "wait" /\ op[t].method = "GET"
          \/ pc'[t] = "cancelled"
      BY <1>i, <2>7 DEF Register, SpawnedRelease, I!SpawnedRelease, PlacedAt, IInv,
                        IP!IInv, IP!Roles
    <3>. QED  BY <1>i, <3>1 DEF StationedAt, Live
  <2>8. CASE Resume(t)
    <3>1. /\ pc[t] = "wait" /\ pc'[t] \in {"recheck", "fetch", "done"}
          /\ step[t] = "woken"
      BY <2>2, <2>3, <2>8 DEF Resume, I!ReadResult
    <3>2. op[t].method = "GET"
      BY <1>i, <3>1 DEF StationedAt, Live
    <3>. QED  BY <1>i, <3>1, <3>2 DEF StationedAt, Live
  <2>9. CASE FetchUnknownBucket(t) \/ FetchGet(t) \/ FetchBytes(t)
    <3>1. /\ pc[t] \in {"fetch", "bytes"} /\ pc'[t] \in {"bytes", "complete", "done"}
          /\ step' = step
      BY <2>2, <2>3, <2>9
         DEF FetchUnknownBucket, FetchGet, FetchBytes, FetchReturns, table
    <3>. QED  BY <1>i, <3>1 DEF StationedAt, Live
  <2>10. CASE Complete(t)
    <3>1. pc[t] = "complete" /\ pc'[t] = "release"
      BY <2>3, <2>10 DEF Complete
    <3>. QED  BY <1>i, <3>1 DEF StationedAt, Live
  <2>11. CASE PutInit(t) \/ PutBody(t)
    <3>1. pc[t] \in {"init_upload", "upload"} /\ pc'[t] \in {"upload", "finish", "done"}
      BY <2>2, <2>3, <2>11 DEF PutInit, PutBody
    <3>2. op[t].method = "PUT"
      BY <3>1 DEF IInv, Uploading
    <3>. QED  BY <1>i, <3>1, <3>2 DEF StationedAt, Live
  <2>. QED
    BY <2>4, <2>5, <2>6, <2>7, <2>8, <2>9, <2>10, <2>11 DEF Poll
<1>. QED  BY <1>1, <1>2 DEF Stationed

\* So does every other step: arrivals start at one (handler.rs:44-101, 359-362), a
\* spawned prefetch, too (handler.rs:296-298), and a restart leaves none at any.
LEMMA NextStationed ==
  IInv /\ Metered /\ Stationed /\ [Next]_vars => Stationed'
<1>. SUFFICES ASSUME IInv, Metered, Stationed, [Next]_vars PROVE Stationed'
  OBVIOUS
<1>i. /\ Typed /\ \A u \in Tasks : PlacedAt(u) /\ StationedAt(u)
  BY DEF IInv, Placed, Stationed
<1>1. ASSUME NEW r \in Requests, NEW o \in Ops, Request(Handler(r), o) PROVE Stationed'
  <2>. DEFINE t == Handler(r)
  <2>1. /\ t \in Tasks /\ pc[t] = "new" /\ t \notin past /\ UNCHANGED <<past, step>>
        /\ \A u \in Tasks \ {t} : pc'[u] = pc[u] /\ op'[u] = op[u]
        /\ op'[t] = o /\ o.method # "PREFETCH" /\ o \in OpType
        /\ \/ pc'[t] = "done"
           \/ pc'[t] = "lookup" /\ o.decodes /\ o.method # "PUT"
           \/ /\ pc'[t] = "init_upload" /\ o.decodes
              /\ o.method = "PUT" /\ o.key \notin Unrouted
    BY <1>1, <1>i, RequestMoves, TaskFacts, OpFacts, GatewayAssumption
       DEF Admitted, runs, table, Metered
  <2>2. StationedAt(t)'
    BY <2>1 DEF StationedAt, Live, OpType
  <2>. QED  BY <1>i, <2>1, <2>2, OthersStationed DEF Stationed
<1>2. ASSUME NEW t \in Tasks, Poll(t) PROVE Stationed'
  BY <1>2, PollStationed
<1>3. ASSUME NEW r \in Requests, PollHead(r) PROVE Stationed'
  <2>. DEFINE t == Handler(r)
              q == Prefetch(r)
  <2>1. /\ t \in Tasks /\ q \in Tasks /\ t # q /\ UNCHANGED <<past, step>>
        /\ pc'[t] = "done"
        /\ \A u \in Tasks \ {t, q} : pc'[u] = pc[u] /\ op'[u] = op[u]
        /\ \/ pc'[q] = pc[q] /\ op'[q] = op[q]
           \/ /\ pc'[q] = "acquire" /\ op'[q].method = "PREFETCH" /\ op'[q].decodes
    BY <1>3, <1>i, TaskFacts
       DEF PollHead, HeadOk, HeadErr, SpawnPrefetch, End, history, runs, table, Typed
  <2>2. q \notin past
    BY <1>3, <2>1, TaskFacts
       DEF IInv, PrefetchesFollow, PollHead, HeadOk, HeadErr, Metered
  <2>3. StationedAt(t)' /\ StationedAt(q)'
    <3>1. StationedAt(t)'
      BY <2>1 DEF StationedAt, Live
    <3>2. CASE pc'[q] = pc[q] /\ op'[q] = op[q]
      BY <1>i, <2>1, <3>1, <3>2, OthersStationed
    <3>3. CASE pc'[q] = "acquire" /\ op'[q].method = "PREFETCH" /\ op'[q].decodes
      BY <2>1, <2>2, <3>1, <3>3 DEF StationedAt, Live
    <3>. QED  BY <2>1, <3>1, <3>2, <3>3
  <2>. QED  BY <1>i, <2>1, <2>3, OthersStationed DEF Stationed
<1>4. ASSUME NEW r \in Requests, Cancel(r) PROVE Stationed'
  <2>. DEFINE t == Handler(r)
  <2>1. /\ t \in Tasks /\ pc'[t] = "cancelled" /\ UNCHANGED <<op, past>>
        /\ \A u \in Tasks \ {t} : pc'[u] = pc[u]
        /\ UNCHANGED table \/ InflightMove(t)
    BY <1>4, <1>i, TaskFacts DEF Cancel, Goto, history, runs, InflightMove, Typed
  <2>2. StationedAt(t)'
    BY <2>1 DEF StationedAt, Live
  <2>3. \A u \in Tasks \ {t} :
          step'[u] = step[u] \/ (step[u] = "waiting" /\ step'[u] = "woken")
    BY <2>1, TableFrame DEF IInv
  <2>. QED  BY <1>i, <2>1, <2>2, <2>3, OthersStationed DEF Stationed
<1>5. CASE (\E t \in Tasks : ApplyUpload(t)) \/ (\E k \in Keys : Evict(k)) \/ UNCHANGED vars
  <2>1. UNCHANGED <<op, pc, past, step>>
    BY <1>5 DEF ApplyUpload, Evict, vars, history, runs, table
  <2>. QED  BY <1>i, <2>1, OthersStationed DEF Stationed
<1>6. CASE Restart
  BY <1>6, <1>i DEF Restart, Stationed, StationedAt, Live, Typed
<1>. QED  BY <1>1, <1>2, <1>3, <1>4, <1>5, <1>6 DEF Next

-----------------------------------------------------------------------------
(***************************************************************************)
(* The counters                                                            *)
(***************************************************************************)
\* Each step but a restart tallies for one task, or for none.
LEMMA NextTallies ==
  ASSUME IInv, Metered, Stationed, [Next]_vars, ~Restart
  PROVE  /\ \/ \E t \in Tasks : \E S : Tally(t, S)
            \/ UNCHANGED <<op, pc, resp, metrics, past>>
         /\ UNCHANGED past
         /\ \A u \in Tasks : pc'[u] = "new" => pc[u] = "new"
<1>i. Typed
  BY DEF IInv
<1>1. ASSUME NEW r \in Requests, NEW o \in Ops, Request(Handler(r), o)
      PROVE  /\ \E S : Tally(Handler(r), S)
             /\ UNCHANGED past /\ \A u \in Tasks : pc'[u] = "new" => pc[u] = "new"
  <2>1. UNCHANGED past /\ \A u \in Tasks : pc'[u] = "new" => pc[u] = "new"
    BY <1>1, <1>i, RequestMoves DEF runs
  <2>. QED  BY <1>1, <2>1, RequestTallies
<1>2. ASSUME NEW t \in Tasks, Poll(t)
      PROVE  /\ \/ \E S : Tally(t, S)
                \/ UNCHANGED <<op, pc, resp, metrics, past>>
             /\ UNCHANGED past /\ \A u \in Tasks : pc'[u] = "new" => pc[u] = "new"
  <2>1. UNCHANGED past
    BY <1>2
       DEF Poll, CacheHit, GetMiss, HeadMiss, Acquire, PrefetchSkip, Register, Resume,
           Recheck, FetchUnknownBucket, FetchGet, FetchBytes, Complete, CompleteRelease,
           SpawnedRelease, PutInit, PutBody, PutBodyErr, PutOk, PutErr, history, runs
  <2>2. \A u \in Tasks : pc'[u] = "new" => pc[u] = "new"
    BY <1>2, PollMoves
  <2>. QED  BY <1>2, <2>1, <2>2, PollTallies
<1>3. ASSUME NEW r \in Requests, PollHead(r) \/ Cancel(r)
      PROVE  /\ \E S : Tally(Handler(r), S)
             /\ UNCHANGED past /\ \A u \in Tasks : pc'[u] = "new" => pc[u] = "new"
  <2>1. UNCHANGED past /\ \A u \in Tasks : pc'[u] = "new" => pc[u] = "new"
    BY <1>3, <1>i, TaskFacts
       DEF PollHead, HeadOk, SpawnPrefetch, HeadErr, Cancel, Goto, End, history, runs, Typed
  <2>. QED  BY <1>3, <2>1, HeadTallies, CancelTallies
<1>4. CASE (\E t \in Tasks : ApplyUpload(t)) \/ (\E k \in Keys : Evict(k)) \/ UNCHANGED vars
  BY <1>4 DEF ApplyUpload, Evict, vars, history, runs
<1>. QED  BY <1>1, <1>2, <1>3, <1>4, TaskFacts DEF Next

\* A restart forgets the counters and all that they counted (metrics.rs:55-113).
LEMMA RestartTallies ==
  ASSUME IInv, Restart
  PROVE  Metered' /\ Reconciled'
<1>1. /\ metrics' = [c \in Counters |-> 0]
      /\ \A t \in Tasks : pc'[t] = "new" \/ t \in past'
      /\ \A t \in Tasks : pc'[t] = "new" => t \notin past'
  BY DEF IInv, Restart, Live, Typed
<1>2. /\ {t \in Tasks : Denied(t)}' = {} /\ {t \in Tasks : Counted(t)}' = {}
      /\ {t \in Tasks : LookedUp(t)}' = {} /\ {t \in Tasks : Cut(t)}' = {}
  BY <1>1 DEF Denied, Counted, LookedUp, Cut, Answered
<1>3. Cardinality({}) = 0
  BY FS_EmptySet
<1>4. \A c \in {"auth_fail", "requests", "cache_hit", "cache_miss"} : metrics'[c] = 0
  BY <1>1 DEF Counters
<1>5. Reconciled'
  BY <1>2, <1>3, <1>4 DEF Reconciled
<1>6. Metered'
  BY <1>1 DEF Metered
<1>. QED  BY <1>5, <1>6

\* However many requests there are, and wherever they meet or leave, the counters
\* reconcile: requests_total counts exactly the answers of authenticated requests,
\* early returns excepted, and each lookup counts once, as a hit or as a miss
\* (handler.rs:142-150, 171, 210; metrics.rs:63).
THEOREM CountersAreRight ==
  ASSUME IsFiniteSet(Requests) PROVE Spec => []CountersReconcile
<1>f. IsFiniteSet(Tasks)
  BY FiniteTasks
<1>1. Init => CInv
  <2>. SUFFICES ASSUME Init PROVE CInv
    OBVIOUS
  <2>1. Metered /\ Stationed
    BY DEF Init, Metered, Stationed, StationedAt, Live
  <2>2. /\ {t \in Tasks : Denied(t)} = {} /\ {t \in Tasks : Counted(t)} = {}
        /\ {t \in Tasks : LookedUp(t)} = {} /\ {t \in Tasks : Cut(t)} = {}
    BY DEF Init, Denied, Counted, LookedUp, Cut, Answered
  <2>3. \A c \in {"auth_fail", "requests", "cache_hit", "cache_miss"} : metrics[c] = 0
    BY DEF Init, Counters
  <2>4. Reconciled
    BY <2>2, <2>3, FS_EmptySet DEF Reconciled
  <2>. QED  BY <2>1, <2>4 DEF CInv
<1>2. IInv /\ CInv /\ [Next]_vars => CInv'
  <2>. SUFFICES ASSUME IInv, CInv, [Next]_vars PROVE CInv'
    OBVIOUS
  <2>1. Metered /\ Stationed /\ Reconciled /\ Stationed'
    BY NextStationed DEF CInv
  <2>2. CASE Restart
    BY <2>1, <2>2, RestartTallies DEF CInv
  <2>3. ASSUME ~Restart, NEW t \in Tasks, NEW S, Tally(t, S) PROVE CInv'
    <3>1. metrics' \in [Counters -> Nat]
      BY <2>1, <2>3, BumpedBy DEF Tally
    <3>2. Metered'
      BY <2>1, <2>3, <3>1, NextTallies DEF Metered
    <3>. QED  BY <1>f, <2>1, <2>3, <3>2, TallyKeeps DEF CInv
  <2>4. CASE ~Restart /\ UNCHANGED <<op, pc, resp, metrics, past>>
    <3>1. Metered'
      BY <2>1, <2>4 DEF Metered
    <3>2. Reconciled'
      BY <2>1, <2>4
         DEF Reconciled, Denied, Counted, LookedUp, Cut, Answered, SkipsCounting
    <3>. QED  BY <2>1, <3>1, <3>2 DEF CInv
  <2>. QED  BY <2>1, <2>2, <2>3, <2>4, NextTallies
<1>3. CInv => CountersReconcile
  BY <1>f, Measured DEF CInv
<1>. QED  BY <1>1, <1>2, <1>3, Inductive, PTL DEF Spec
=============================================================================
