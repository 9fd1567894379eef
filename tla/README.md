# A TLA+ model of cachegate

cachegate is an HTTP gateway in front of object stores (S3, Azure). It answers
`GET`, `HEAD` and `PUT` of `/bucket/path`, keeps whole objects in a foyer cache,
collapses concurrent misses of one key into one upstream fetch, and writes
uploads through to the cache. This directory models that behaviour in TLA+,
checks it with TLC on small instances and proves the core of it with TLAPS.
Paths below are relative to the repository root (`src/handler.rs` is
`src/src/handler.rs` in `PROJECT.json`).

## 1. Inventory

| component | state | operations | correct if |
|---|---|---|---|
| singleflight table, `src/inflight.rs` | map key -> entry; per entry a result and a `Notify`; per guard `released` | `acquire`, `InflightGuard::complete`, `Drop`, `InflightEntry::wait` | one unreleased guard per key; every entry is released once; followers get their leader's result; nobody waits for ever |
| GET, `get_object`, `fetch_and_cache_entry` | the handler's position and the fetched entry | lookup, acquire, fetch, insert, complete, follow, recheck, solo fetch | what it serves was upstream while it ran; errors are not cached; always answers |
| HEAD, `head_object`, `spawn_head_prefetch` | the handler's position; a detached prefetch task | lookup, upstream head, spawn | fresh; never waits for a flight; the prefetch leaves the table clean |
| PUT, `put_object` | multipart upload, buffer, `capped` | head probe, init, chunk loop, finish, write-through | what is acknowledged is upstream and visible to later reads; only whole bodies are cached or stored; what failed is never cached |
| auth middleware, `src/auth.rs` | public key, bearer token | bearer, then presigned signature | exactly the entitled requests reach a handler |
| cache, `src/cache/` | foyer hybrid cache, `inserts` | `get`, `put`, `stats`; evictions and disk tier inside foyer | never invents or mixes up entries, also over a restart |
| metrics, `src/metrics.rs`, `/stats`, `/metrics` | counters with labels | `inc_*`, `snapshot` | counters add up to what happened |
| stores, `src/store/` | one client per bucket | build from config, Azure connection strings | all or nothing; the account, key and endpoint meant |
| configuration and start-up, `src/config.rs`, `src/main.rs` | config, `cache_max_object_bytes` | load, select the cap, build the state | cap never 0; no server without cache |
| key generation, tracing, sentry client, `src/main.rs` | none shared | one file write; observation only | - |

How they interact: axum runs `auth_middleware` and then a handler as one future
per request on a multi-threaded tokio runtime. All handlers share one `AppState`:
stores, cache, table and counters. A GET that misses leads or follows a flight of
the table; a HEAD that misses may spawn a task that does the same; a PUT bypasses
the table and writes both the store and the cache. When a client disconnects the
server drops the handler's future at the await it is suspended at. A restart
loses table, counters and handlers; the disk tier of the cache and uploads the
upstream was sent survive it.

What is hard here: steps of several futures interleave at every await; a future
may disappear at any await, with the singleflight guard in its hands; the
upstream may fail at every call and may apply an upload whose answer was lost;
the cache may forget at any time; lookup, acquire, fetch, insert and release are
separate steps although they belong together. `PROJECT.json` lists the hazards
one by one with the line where each bites.

## 2. Modules

* `Singleflight` - the abstract specification: flights depart, are joined, land
  once with a result or with None, and everyone who joined takes that outcome.
* `Inflight` - `src/inflight.rs`. One step per critical section of the two tokio
  mutexes and of `Notify`; neither mutex is held across an await. An entry is
  named after the task whose `acquire` allocated it, so `Arc::ptr_eq` is equality.
  `step[t]` says how far a task is: `leader`, `stored` (inside `complete`, result
  stored), `dropped` (the task `Drop` spawned is pending), `follower` (acquired,
  no `Notified` future yet), `waiting`, `woken`, `done`, `gone`.
  `notify_waiters` moves exactly the `waiting` tasks to `woken`, as tokio does:
  a `Notified` future takes part from its creation on, and no permit is kept.
* `Gateway` - the handlers over table (an instance of `Inflight`), cache,
  upstream and counters. One action per stretch from one await that can suspend
  to the next; `pc[t]` names the await. Object contents are values, an `AppError`
  is its status, the labels of counters are left out. `seen` and `barred` are
  history variables of the properties.
* `Proxy` - the abstract specification of the gateway while objects are immutable:
  one without cache, flights and restarts. A request is asked, then refused, served
  from the upstream at that moment, or, an upload, applied and accepted.
* `WriteThrough` - what a PUT promises whatever its chunks are: the upstream gets
  the whole body or nothing, the cache what the upstream got if it fits.
* `PutUpload` - the body of `put_object` that `Gateway` takes as one step: the
  chunk loop with the cap arithmetic, the parts of `WriteMultipart` (external),
  the end of the upload, the write-through. Bytes are counted, since the buffer
  is always a prefix of the body.
* `Auth` - the decisions of `auth.rs` and `auth_middleware` as operators: key pair
  check, bearer before signature, version, expiry, method, bucket and path.
* `AzureConn` - `azure.rs`: a connection string as a sequence of segments, folded
  into account, key, endpoint and `allow_http`.
* `Server` - one process from `main` to serving and its relaunches: the choice of
  the configuration document, authenticator, stores, cap, cache, listener, and
  `Route`, which applies `Auth!Decide` to a request at the time it is looked at.
* `MCInflight`, `MCGateway`, `MCPutUpload`, `MCServer` - the instances for TLC.
* `InflightProofs`, `GatewayProofs`, on top of it `ImmutableProofs`,
  `VisibleProofs` (which extends `ImmutableProofs`) and `CounterProofs`,
  `PutUploadProofs`, `AzureConnProofs` and, on top of it, `ServerProofs` - the
  theorems.

How they fit: `Gateway` composes `Inflight` with cache, upstream and counters and
takes the outcomes of authentication and of an upload's body as inputs;
`PutUpload` refines the latter (`Oversize` is "longer than the cap"; the upload
that fills the cap exactly, ends in an empty chunk and is not cached is known to
`PutUpload` alone), `Server` the former, and `Server` shows that the cap
`PutUpload` assumes is positive.

`Gateway` in terms of the code: `Request` and its disjuncts are the middleware
and the synchronous start of a handler; `CacheHit`, `GetMiss`, `HeadMiss` the
lookup; `Acquire`, `Register`, `Resume`, `Recheck`, `PrefetchSkip` the two users
of the table; `FetchGet`, `FetchBytes` and `FetchUnknownBucket`
`fetch_and_cache_entry`, ending in `FetchReturns` for a leader (who goes on to
`Complete` and `CompleteRelease`) or a follower on its own; `HeadOk`, `HeadErr`
the upstream head; `PutInit` to `PutErr` the upload. `Location` maps a cache key
to the upstream object: object_store's `Path` drops empty segments and the
`CacheKey` does not, so `a//b` and `a/b` are two entries of one object. An entry
has a body and a content type: `Resolve` is `resolve_content_type` of a fetch,
`PutType` what an upload caches.
External, modelled from how the code uses it: `ApplyUpload` (the upstream
completes a multipart upload on its own time, before the answer, after a lost
answer, after the client left), `Cancel` (the server drops a handler's future),
`Evict`, and `Restart` (the process is killed; the new one recovers for each key
any entry ever handed to the disk tier, or none). A follower cannot be dropped
between `acquire` and `notified()`: there is no await between them.

## 3. Runs

| run | instance | shows |
|---|---|---|
| `inflight` | 3 tasks, 2 keys, 2 results | every property of the table, and that it implements `Singleflight` |
| `gateway` | 3 requests (6 tasks), an immutable object, an unknown bucket, an invalid path, one restart over the disk tier | cache agrees with the upstream, fresh reads, read-your-writes, overlap only after a lost leader, insertion before landing, counters; implements `Proxy` |
| `gateway_adverse` | 3 requests, an object with two keys, two contents, one above the cap (and upstream at first), content types, evictions and cache read errors | nothing is invented; no body gets another's content type; singleflight; nobody waits for another waiter |
| `gateway_live` | 3 GETs or prefetching HEADs | every request is answered unless stranded |
| `put_upload` | one upload, cap 5, parts of 3, chunks of 0, 1, 2, 4 and 7 bytes, at most 12 | the buffer is the body up to the cap, only whole bodies are stored or cached, what fits is cached, no parts are left after a 200, an ended body is answered; implements `WriteThrough` |
| `server` | 2 launches, some 200 configurations, some 100 requests, 3 seconds | no partial start, cap never 0, exactly the entitled are admitted, Azure stores as written, every launch serves or ends |
| `lost_wakeup`, `stale_overwrite`, `stale_404`, `herd`, `uncounted`, `stats` | the smallest instance | a statement of the repository that the code does not keep |

`gateway` is the system under the assumption of README.md:11 ("Designed for
immutable blobs"): every PUT of the key carries the same contents, which fit the
cap and are not evicted. `gateway_adverse` drops all of that. The verdicts on
`AckedWritesVisible`, holding in the first and violated in `stale_overwrite` and
`stale_404`, mark where the assumption is needed. `ImplementsProxy` says what the
assumption buys: to its clients the gateway is one without a cache. Its map shows
what each client asked (`op`) and was answered (`resp`) and which uploads the
upstream applied (`upload`); everything else is hidden, and a restart only leaves
requests open that nobody will answer.

Bounds. Three tasks give a leader, a follower and a successor of either, which is
what each property of the table relates; the second key shows that keys do not
interfere. Three requests in `Gateway` give a leader, a follower and a writer,
each HEAD adding its prefetch task. A request is served once, so counters are
bounded by the number of requests and the system comes to rest: deadlock is
therefore not checked. Requests are interchangeable, and the safety runs use that
symmetry; `gateway_live` does not. Its menu leaves PUT out, which never waits for
another task. `MaxRestarts` is 1 in `gateway` and 0 elsewhere: one restart already
puts recovered entries, late uploads and new requests side by side. The key alias
and the content types are in `gateway_adverse` only, where contents differ.

In `put_upload` the chunk sizes are below, at and above what is left of the cap
at some point of some body, the empty chunk included, and a body can pass the cap
by more than one chunk; part size and cap are coprime, so they are crossed in
either order. In `server` every configuration varies one part of a base document
and every request one part of a good one: the steps of the start-up and the tests
of the middleware are independent of each other, what matters is that each of
them can fail first. Two launches are the least in which a process meets
requests signed for the configuration before.

Findings, each with its run:

* `lost_wakeup`: `acquire` returns before the follower's `Notified` future
  exists. A release in between, by `complete` or by the `Drop` of a
  leader that was cancelled (the run's trace), is missed, and the request hangs
  although its flight has ended. `RegisteredFollowersResume` and
  `AnsweredUnlessStranded` show that this is the only way to hang.
* `stale_overwrite`: a PUT above the cap leaves the entry it replaces in the cache.
* `stale_404`: a follower takes a 404 its leader read before the follower, and
  the PUT it follows, began.
* `herd`: the followers of a vanished leader fetch all at once.
  `OverlapNeedsLostLeader` shows that nothing else makes fetches overlap.
* `uncounted`, `stats`: early returns skip `inc_requests`; `/stats` reports
  insertions as entries. `CountersReconcile` states what the counters do count.

Smaller differences met while reading, without a run of their own:

* README.md:201 ("TTL is enforced on read") has no counterpart in the code, as
  TODO.md:5 notes; nothing is modelled for it.
* README.md:23 promises a content type "from path with `magic` fallback"; an
  upload without the header to a path that tells nothing is cached without a
  type, and hits return none, while a fetch of the same object would find one.
  `TypesBelong` allows exactly this.
* An `Authorization` header of more than two words is judged by its second word.
* README.md:159 starts the program with a positional configuration path;
  `Args` (main.rs:40-45) knows only `--config`, and `Launch` has no other argument.

## 4. Fairness

Weak fairness of the steps of a task stands for the tokio runtime polling
runnable tasks and for upstream calls that end: object_store's HTTP client has
request timeouts, so a fetch ends with a result or an error. Not fair: arrivals,
disconnects, evictions, restarts, and the upstream applying an upload. `Drop`'s
spawned release is a task like any other.

`PutUpload` is fair to the same things: parts that are under way and the steps
after the body. It is not fair to the body: `put_object` has no timeout on it, so
a client that stalls is never answered, and `EndedUploadsAnswered` promises
nothing before the body has ended. `Server` is fair to the steps of `async_main`
and to the task of a request, not to launches, kills, requests or the clock.

## 5. Proofs

Every theorem holds for all values of the constants that satisfy the assumptions
named with it. Each was model-checked first, on the instance of the run that lists
its property.

`InflightProofs`, from `NoneAssumption` and `OpenAssumption` (the markers are not
tasks or results):

* `TypeCorrect`, `NeverOrphaned`, `ReleasedOnce`, `AtMostOneFlight`,
  `FollowersAgree`: `Spec => []` of the invariant the run `inflight` checks;
* `Refinement`: `Spec => ImplementsSingleflight`.

All rest on one inductive invariant, `IInv`. None of the properties is inductive
alone: a woken follower has a typed result only if it holds an entry; a release
finds its own entry only if table and tasks agree on who leads
(`NoOrphanEntry` and `ReleaseFindsOwnEntry` together); a follower's result stays
its leader's only if a notified follower's leader has landed (`EntriesAreLed`)
and a landed leader has published (`Published`). `ReleaseEffect` shows that the
branch of `release` in which `Arc::ptr_eq` fails is never taken; `ReleaseIInv`
then covers `complete` and `Drop` alike. For the refinement, `acquire` maps to
`Depart` or `Join`, a release to `Land`, the end of `wait` to `Take`, and all
other steps to stuttering.

`GatewayProofs`, from `GatewayAssumption` and `MarkerAssumption` (the constants'
types, and that clients send no prefetches; the markers are distinct from what they
stand beside), for any number of requests, keys and restarts and with evictions, cache read errors and overwrites:

* `OverlapOnlyAfterLoss`: two fetches of a key overlap only after a leader lost
  its client;
* `NothingIsInvented`, `TypesAlwaysBelong`: what is cached or served is something
  the upstream holds or held under that location, with a type that belongs to it;
* `CachedFirst`: a flight lands only after its object was cached, if it fits the
  cap and its key is not evicted;
* `NoWaitingChain`: whoever waits, and has not missed its wake-up, waits for a
  leader with work of its own or for the task that releases what a lost leader
  held, so requests cannot end up waiting for each other;
* `SharesFlights`: for the handlers the table is the abstract `Singleflight` in every
  run of the process; the refinement of `InflightProofs` carries over, a restart
  being a new beginning;
* `TypeCorrect`: every variable keeps its type, and no handler ends without an
  answer. Beyond `IInv` it needs only that no step loses a counter or a history
  (`Recorded`).

What an arrival and a step of the runtime do to the handlers is stated once each
(`RequestMoves`, with the reasons for a refusal in `RefusedAt`, and `PollTable`,
`PollMoves`, `PollAnswers`, `PollReplies`), and the other proof modules cite it.

The argument has two halves. `NextTable` shows that every step of the gateway is,
on the table's variables, a step of `Inflight`, none, or a restart to an empty
table; so `IInv` of `InflightProofs`, instantiated, holds here too and needs no
second proof. `Placed` ties each handler's `pc` to the task's `step` in the table:
without it a handler at the await of a fetch could be any task. It holds in both
directions: a task that has the guard is at one of the awaits between `acquire` and
the end of `complete`, which is what `NoWaitingChain` needs. On top of these
stand what a fetch has in its hands (`AllGenuine`: cache, results, fetched
entries and answers alike), that followers follow their own key
(`FollowsOwnKey`), and that a leader past its fetch has cached
(`CachedBeforeComplete`).

`ImmutableProofs` adds the hypothesis `Immutable`, which is README.md:11
("Designed for immutable blobs") put as a condition on the constants: what a
location holds first and all uploads of it are one value. Under it:

* `CacheAgrees`: the cache never holds anything but what the upstream holds;
* `ReadsAreFresh`: a GET or HEAD answered 200 returns what the upstream held while
  it was served;
* `Transparent`: `Spec => ImplementsProxy`.

Neither assumes that objects fit the cap, stay in the cache or have one key, as
the run `gateway` does. `CacheAgrees` needs that nothing is deleted
(`KeepsStored`): an absent object has never been uploaded, so nothing of it can be
in a cache, a flight or a disk tier. `ReadsAreFresh` also needs that the upstream
has not changed since the request began other than by coming into being
(`SeesStore`).

`Transparent` goes step by step: arrivals are `Ask` (`RequestRefines`), answers of
the runtime's steps `Serve`, `Refuse` or `Accept` (`PollRefines`), the upstream head
`Serve` or `Refuse` (`HeadRefines`), a late upload `Apply` (`ApplyRefines`), and
lookups, flights, insertions, disconnects, evictions and restarts show to nobody.
Its invariant (`Dealt`) is that a handler under way was let in, by a good path and
unanswered, that one that uploads is a PUT, and that an upload in flight was not
refused for its body: without the last a client could be told 400 for an upload that
is applied afterwards.

`VisibleProofs` adds `Cacheable` to `Immutable`: no object is above the cap and none
is evicted, which with `Immutable` is the setting of the run `gateway`:

* `WritesAreRead`: a GET or HEAD sent after an upload was acknowledged gets neither
  what the upload replaced nor the 404 of a flight that began before it.

An acknowledged upload is in the cache, or nobody carries a 404 older than it
about (`Covered`): a flight that found nothing before the upload may still publish
its 404, and the lookup of the cache is what keeps later readers from joining it. A
restart may lose the entry, but it empties the table, too. `Guarded` says the same
of a read that is under way. `stale_404` shows, with a single contents, what happens
without `Cacheable`, `stale_overwrite` what happens without either.

`CounterProofs`, for finitely many requests:

* `CountersAreRight`: the counters count exactly what they stand for.

Each step adds at most one task to the answers, the refusals or the lookups, and
bumps a counter exactly when it does (`Tally`); cardinalities then move by one. That
a step counts right depends on which handler takes it: HEAD's errors return before
they are counted, GET's do not, and both use the same cache and the same table.
`Stationed` says whose method can be at which await, and that a prefetch never
reaches the code that answers.

`PutUploadProofs`, from `CapAssumption` (the cap is positive, which `ServerProofs`
proves of the start-up), `SizeAssumption`, `PartAssumption`, `NoneAssumption`:

* `TypeCorrect`, `BufferCorrect`, `WholeBodies`, `FittingUploadsCached`,
  `AckedLeavesNoParts`: `Spec => []` of `TypeOK`, `BufferIsBody`, `OnlyWholeBodies`,
  `SkippedOnlyAboveCap`, `NoPartsAfterAck`, for every cap, chunking and part size;
* `Refinement`: `Spec => ImplementsWriteThrough`.

The inductive invariant adds how far the handler is (`Progress`, `Completion`) and
`CappedIsLong`: an upload is marked as capped only if it is longer than the cap or
fills it exactly with an empty chunk at the end, which is what the comparison
before `extend_from_slice` amounts to.

That an object has the size of the body is what the upstream is given, not what it
is trusted with: `OnlyWholeBodies` also says that the parts named by the completion
hold every byte of the body and no part too many. The invariant behind it,
`PartsHoldBody`, is an account that a failed part closes: while the body is read, the
parts and what is held back for the next one make up the total, after the flush the
parts alone do, short of one part, and no part has failed when the completion is
sent. `CutKeepsBytes` is the arithmetic of cutting a chunk into parts, for every
part size.

`AzureConnProofs`, with segments of the types in `Segments` and an empty text that is
none of the words a connection string may have:

* `ParsesAsWritten`: what `Parse` makes of a connection string, by folding `Insert`
  over its segments, is what its last segments say, for every sequence of segments.

The fold is defined by recursion, so this is by induction on the number of segments.
The library's induction theorems take an operator as a parameter, which the provers
cannot instantiate; `SetInduction` is the principle for a set of numbers instead,
obtained from the well-foundedness of `<`. It gives first that the fold's function
exists, then its equation for one more segment, then that every key has the value
of its last segment (`SaidIsLast`).

`ServerProofs`, from `DocumentAssumption` (a document that parses has numbers for
sizes, texts for keys and segments for connection strings), `RequestAssumption`
(what extractors deliver, and that `None` marks none of what it stands beside) and
`BlankAssumption` (nor does `Blank`):

* `TypeCorrect`: each stage of the start-up has set what it is there for and nothing
  before it has (`Staged`), and no request is looked at before the server serves;
* `AllStoresBuilt`, `CapNeverZero`: with `Sized`, `CapSelected`, `StoresComplete`,
  the halves of the reason that the cap is not 0 which `async_main` and
  `FoyerCache::new` hold separately;
* `EntitledGetIn`: exactly the entitled reach a handler. `BearerExact` and
  `PresignExact` show this of the two decisions, `DecideExact` of their order;
  the invariant (`AuthBuilt`) is that authenticator and configuration go together
  over launches and failures. `Entitled` is stated without the code's steps: what
  a holder of the token or of the private key can make;
* `AzureStoresAsWritten`: the Azure stores of a process have the account, the access
  key and the use of plain HTTP their connection strings say. The invariant is that every store of a
  process was parsed from the document it runs with (`Documented`, `StoresParsed`);
  `ParsesAsWritten` does the rest.

Only model-checked: liveness (`FlightsLand`, `RegisteredFollowersResume`,
`AnsweredUnlessStranded`, `EndedUploadsAnswered`, `BootEnds`), since the provers do
not know fairness. Every other property of a passing run is the statement of a
theorem.

## 6. Plan

Done: `Singleflight`, `Inflight`, `Proxy`, `Gateway` with aliases, content types and
a restart over the disk tier; `WriteThrough`, `PutUpload`; `Auth`, `AzureConn`,
`Server`; the theorems of section 5.

Left, in this order:

1. A relaunch that points a bucket at another container while the disk tier keeps
   its entries: `Location` would become a variable of `Gateway`.
2. The labels of the counters, if a property comes to tell them apart.

Not modelled: tracing, log wording, span fields, the sentry client and the latency
histogram (they observe only); the rendering of metrics and the labels of
counters; key generation (a one-shot command that shares no state with the
server); foyer's internals, which appear as evictions and as what a restart
recovers; the parsing of YAML, of flat environment variables and of sizes, of
which only failure or success is modelled. Nothing deletes an object of the upstream:
a fetch whose body cannot be read fails with 502, the 404 of an object deleted
meanwhile (handler.rs:535-547) left out.
