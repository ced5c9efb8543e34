# fileServer: TLA+ models and proofs

A verification development for the `fileServer` CDN node (the Go code of this repository). It
models the parts of the node whose correctness depends on interleavings, crashes, failing storage
and configurations that change under way, checks them with TLC on small instances, and proves with
TLAPS, for every instance, what the caches, the flush rules, the hot reload, the request path, the
limiter and the puller keep: every safety property that a run expects to hold. Line numbers refer to the repository; the table `map` in `PROJECT.json` gives the
lines of every definition.

## 1. The system

One process serves HTTP for the configured domains and pulls what it does not have from origins.

| Part | State | Operations | Talks to |
|---|---|---|---|
| LRU cache, `internal/cache/cache.go` | map `items`, list `lru`, one mutex | `Get`, `Set`, `Delete`, `Stat`, `Len` | storage, outside the mutex except for evictions |
| Read-through, `internal/cache/singleflight.go` | a `singleflight.Group` | `GetOrFetch`, `Delete`, `Stat` | LRU cache; the fetch closure |
| Request handler, `internal/domain/router.go` | atomic pointer to the domain map | `ServeHTTP`, `originFetch`, `Update` | pipeline, key builder, flush store, read-through, puller |
| Flush store, `internal/flush/store.go` | rules by domain, one RWMutex; a copy in storage | `Load`, `AddRule`, `Match`, `Cleanup` | storage, outside the mutex |
| LocalFS, `internal/storage/localfs.go` | a content file and a `.meta` file for each key | `Read`, `Write`, `Delete`, `List`, `Stat`, `Exists` | the file system |
| Admin API, `internal/admin/handler.go` | the configuration of start-up | `FlushURL`, `FlushPrefix`, `FlushDomain`, `Stat` | read-through, flush store |
| Start-up and hot reload, `cmd/server/main.go` | - | load rules, wire, `Update` and `Cleanup` on a reload, drain on a signal | everything |
| Rate limiter, `internal/pipeline/ratelimit` | by domain: limiters and lastSeen by key, one mutex; a cleanup goroutine | `Execute`, `cleanup` | - |
| Puller, `internal/origin/puller.go` | a round-robin counter | `Pull` | origins |
| Configuration, `internal/config` | - | `Load`, `Watch`, `Defaults` | file watcher, SIGHUP |
| Pipeline, header and rewrite plugins, `internal/pipeline` | registry; the staged header of each request | `Execute`, `ApplyResponseMutations` | request handler |
| Key builder, `internal/cache/key.go` | the global key rules of start-up | `Build` | request handler, admin API |
| HTTP servers, `internal/server` | listeners, open requests | `Start`, `Shutdown`, middleware | `main` |
| Logging and metrics | counters | log, count | - |

What is hard in it:

* **The cache gives up its mutex around storage.** `Get` reads the index, then storage; `Set` writes
  storage, then the index; `Delete` the index, then storage. Every pair of calls interleaves.
* **A flight and everything else.** Requests join flights, leaders look twice, pulls and `Set` may
  fail, deletes and expiries come at any time.
* **The flush check is several calls.** `Stat`, `Match`, `Delete`, `Stat`, `Get`, with rules added
  and dropped between them.
* **The rules are persisted from snapshots, after the mutex**, through a `Write` of two files.
* **The process may die** between any two steps; the index is not rebuilt, the rules are loaded.
* **The limiter forgets**: its cleanup removes what it counted.
* **Configurations change under way.** Requests keep the one they took while others take the next; the cache,
  the key builder's global rules and the admin handler outlive both.
* **A reload is told, not polled**: events that merge, a signal channel of one, a watch that stays with a file that
  was renamed away, saves that are two writes, all while a reload is under way.
* **One deadline for two servers** that are drained one after the other.

What must hold: list and map of the cache agree and stay within capacity; the least recently used
entry goes; a key is pulled by one flight at a time, never while cached, and every request returns;
an entry never stands over another entry's file for good; a flushed entry is not served; what is
served never gets older; an acknowledged flush rule survives; the limits are kept, and hit nobody below them; a
pull fails only where nobody would have served it; no change that the process was told of is lost; a shutdown ends, and
cuts off nobody while it has time; whoever pulled an answer, it is of the variant that was asked for and has the header
of the request's own plugins.
`hazards` in `PROJECT.json` lists each danger at its line.

## 2. Modules

```
LRUCache ──► Singleflight ──► CdnNode ──► MCCdnFlush, MCCdnStepBack ──► CdnNodeProofs
   │              │               │ F == INSTANCE
   │              │               └────── FlushRules ◄── FlushStore ◄── MCFlushStore ◄── FlushStoreProofs
   │              ├─ Promise == INSTANCE FetchOnce (abstract)
   │              ├──► MCSingleflight
   │              └──► SingleflightProofs ──► CdnNodeProofs
   └──► MCLRUCache ──► LRUCacheProofs ──► SingleflightProofs
HotReload ──► Servers ──► MCHotReload ──► HotReloadProofs
RequestPath ──► Gateway ──► MCGateway ──► GatewayProofs
Puller ──► MCPuller ──► PullerProofs        RateLimit ──► MCRateLimit ──► RateLimitProofs
```

**LRUCache.** `items` and `lru` are the map and the list; `disk[k]` is the body in the content file
of `k`; `call[c]` is the goroutine `c` inside `Get`, `Set` or `Delete` with its local variables. An
action is one critical section or one storage call:

* `Get` is `GetLookup`, then `GetRead`, or `GetReadFails` and `GetEvict`;
* `Set` is `SetContent` (rename), `SetMeta` (`.meta`), then `SetUpdate` or `SetInsert`; the eviction and
  its `storage.Delete` are inside `SetInsert`, as they are inside the mutex;
* `Delete` is `DeleteIndex`, `DeleteStorage`; `Stat` is one step.

Bodies are numbered as they are made, and metadata remembers the body it was made for, so metadata
served with another body is visible. `StorageFaults` lets each storage call fail. A `Read` can also
fail because `.meta` is being rewritten. Initially the index is empty over a directory with or
without files of an earlier run. Reading the clock for a TTL is part of the critical section it is in.

**Singleflight** extends it: a caller is a request in `GetOrFetch`, and its cache calls are the steps of
LRUCache. `Lead`/`Join` are `group.Do`; `Land` is the end of a flight, which in the library is one
critical section of the group: the key is freed and all waiters get the result. `Pull` fixes the body
(what the origin answers), `Store` is its arrival with the `WrittenAt` stamp and the content write.
`MaxBodies` stops pulls, never flights: `PullFails` stays possible.

**FetchOnce** is the abstract specification: per key `absent`, `fetching` or `cached`, at most `Capacity`
cached. `Promise` in Singleflight is the refinement mapping: `fetching` from the pull until the leader's
`Set` inserts the key or the flight ends, otherwise what the index says.

**FlushRules** holds the rules in memory. `AddRule` and `Cleanup` read the clock first and take the mutex
after, two actions. A prefix is the set of keys it covers; rules with equal prefix and time are one.
**FlushStore** adds the file: content rename, truncation of `.meta`, write of `.meta`, in this order, each of
which may fail or be the last before a crash, and `Load`, which takes any read error for "no rules".

**CdnNode** is `ServeHTTP` with the parts above: `Arrive` (Stat), `Match`, `Evict`, `Peek` (second Stat), `Serve`
(`GetOrFetch` begins), the steps of `GetOrFetch`, `Respond`. Admin goroutines flush URLs and prefixes (a domain
flush is the prefix of all keys) and reload. `Die` restarts the process; it may find any set of
past rules, which covers everything FlushStore says `Load` can find. A request refused with 404 or
429 touches none of this and is left out.

**RateLimit** is one domain's limiters: `Pass`, `Reject`, and the cleanup goroutine as `Wake` (the cutoff is
taken before the mutex) and `Sweep`. A second is `Window` units, a token is worth `Window`, so that integers do. The
token bucket is `golang.org/x/time/rate`, modelled from its use. A fractional sliding-window rate acts as the next whole
number, since the code compares a length with a float.

**Puller** is `Pull` with its budget: a puller goes from origin to origin, each attempt ends by an answer below 500
(`Answer`), a refusal or 5xx (`Refuse`) or a timer (`Expire`), and `ReadBody` reads under the context that `do` has
cancelled by then, so it may fail. Timers are kept as the time that is left, and time does not pass over a timer that has
run out. Singleflight sees of it that a pull succeeds or fails, and that its body arrives or not.

**HotReload** is the configuration file and the process that follows it. `file` is what is at the path: a
configuration, an empty file (`Load` takes it for the defaults, without domains), content that does not parse, or no
file. Operators save in place (`Truncate`, `Fill`), by rename (`Replace`), take the file away, send SIGHUP, kill and
restart. `linked` says whether fsnotify's watch is on the file at the path. The process goes through the places of
`at`: `Boot` is `main` up to the servers, `Add` and `Notify` the start of `Watch`, then its loop: receive, `Load`, `Update`,
`Cleanup`. Before `Notify` a SIGHUP kills (`HangupKills`).

**Servers** adds the two HTTP servers over that life: `Listen`, `Accept`, `Finish`, then the shutdown of `main`, which drains
the business server and then the admin server under one deadline (`Terminate`, `BizDown`, `AdmDown`, `Pass`). The
goroutine of `Watch` runs until the end, as in the code.

**RequestPath** has no state: `Execute` runs the plugins over a request (rewrite: the first rule that matches; header: one
bad operation discards its section; an unknown type is skipped), its loops as recursive functions; `ResponseHeader` is what `ApplyResponseMutations` and
the copy of the origin's header make together, `Build` is the cache key, as the parts it keeps apart.

**Gateway** is `ServeHTTP` over configurations that change. A request takes plugins and key rules as it arrives
(`Arrive`) and keeps them in `own`; it hits, waits for the flight of its key or leads one (`Hit`, `Wait`, `Lead`, `Land`,
`PullFails`). `Update` swaps the domains, `Restart` everything. `boot` is what the key builder's global rules and
the admin handler keep from start-up. The cache behind it is what FetchOnce promises, so that Gateway can afford plugins,
two domains and several variants; the flush check with rules is CdnNode's.

The MC modules add history variables and what TLC needs: `newer` in MCLRUCache is the order in which keys were used, as
pairs; MCCdnFlush keeps the last flush of each key, what it was as each request arrived (`since`), and whether the flight
that excuses a request was there (`calm`); MCCdnStepBack the oldest body that each request may get; MCRateLimit what was
let through; MCGateway the last flush of a URL and the plugins each request took. Operators marked *Mutant* are one-place
bugs; no specification uses them. Each property of a passing run names one that breaks it in
`PROJECT.json`.

## 3. Runs

| Run | Instance | Question |
|---|---|---|
| LRUCacheConcurrent | 3 keys, 2 callers, capacity 2, 3 bodies, failing storage | `TypeOK`, `IndexConsistent`; `RecencyOrder`: the list is the order of use; `EvictsLeastRecent` |
| SingleflightSafety | 2 keys, 3 callers, capacity 1, 2 bodies, failing storage | `SFTypeOK`, `FlightsConsistent`, `NoRedundantPull`, `IndexMatchesDisk`, and the refinement `FetchesOnce` |
| SingleflightLive | 1 key, 3 callers, fair | `EveryRequestEnds` |
| FlushStore | 1 prefix, 2 writers at once, failing storage, crashes | `StoreTypeOK`, `Mirrored`, `AckedOutlastsCrashes` |
| CdnFlush | 1 key, 2 clients, 1 admin, no restart | `FlushHonoured` |
| CdnStepBack | the same, with restarts | `NodeTypeOK`, `NoStepBack` |
| RateLimit | 2 clients, both modes and algorithms, rate 1, burst 2, cleanup after two seconds | `LimitTypeOK`, `WindowHolds`, `BucketHolds`, `NoUnjustRejection` |
| HotReload | 2 configurations, 4 steps of operators on the file, a shutdown of 2 units, 1 request a server, fair | `ServersTypeOK`, `NoLostUpdate`, `NoRequestCut`, `ReloadsInTheEnd`, `ShutdownEnds` |
| Gateway | 2 clients, 2 configurations, 2 domains, 5 requests, 2 pulls | `GateTypeOK`, `WaitersAboard`, `RightVariant`, `FlushURLReaches`, `OwnHeader` |
| Puller | 2 pulls, 3 origins, 1 retry, fair | `PullTypeOK`, `FailsOnlyUnserved`, `PullEnds` |

**Why the bounds are enough.** Three keys against a capacity of two (two against one) make every eviction
choice arise; two callers are every pair of interleaved calls, the third in Singleflight is a waiter or a
delete beside a leader and a waiter. Two bodies distinguish old from new. The clock goes far
enough for an entry to expire, be flushed and fetched again; a TTL of 0 expires at the next instant. One key suffices in
CdnNode because flush checks and flights of different keys share only the LRU list, which the runs before
cover. In RateLimit the clock reaches past the second tick of the cleanup's ticker, and the history keeps more
requests than the burst. In Puller there are more origins than attempts, so that round robin matters. Two writers are
enough for persists to overlap in every order. Four steps on the file are a save in place (two of them) during the reload
of another. The two configurations of Gateway differ in domains, key rules and plugins (rewriting, setting, adding and
deleting headers, an operation and a type that do not exist), so that requests under different configurations have
equal keys; two pulls are one before a reload or a flush and one after it. Time bounds, `MaxBodies`, `MaxPulls`,
`MaxSaves` and `MaxOpen` are bounds of the model; `MaxItems`, `MaxAge`, rates, retries and TTLs are parameters of the code.

**Symmetry** is declared for keys, callers, clients and writers that only equality distinguishes; not in runs with liveness.

**Fairness.** `SFFairSpec` has weak fairness on the next step of each caller: the Go scheduler runs every
goroutine, mutexes of the code are held for bounded work, and the context of `originFetch` (router.go
166) bounds a pull, so that `Pull` or `PullFails`, and the end of a body, come. Nothing obliges a client
to make a request, and time need not pass. `PullFairSpec` also lets time pass, which the timers of Go need;
the origins are free. `HistSpec` of MCHotReload has weak fairness on the goroutine of `Watch`, on the end of the
two drains and on the time of the deadline. Nobody is obliged to save, to signal, to make a request or to answer
one: `ShutdownEnds` holds though requests may never end.

### What the code does not keep

These runs expect a violation; each is listed with its quote under `findings`.

* SingleflightMeta: `Get` overtaken by a delete and a new fetch returns the new body with the old metadata.
* HotReloadMissed: a change between `Load` and the watch, or one by rename, is never loaded.

Four properties that hold name a premise, and without it TLC finds a counterexample:

* `FlushHonoured` needs that no flight of the key is under way at the flush check (router.go 112: it may hand over an
  entry from before the rule), and entries that do not outlive `flush_rule_max_age` (store.go 121: `Cleanup` drops the rule
  that an older entry still needs; the default is seven days, config.go 106, and nothing compares it with the TTLs);
* `Mirrored` needs a persist that ran alone since the last that overlapped or failed: two writers may persist in the
  reverse order of their snapshots (store.go 90), and the file then lacks an acknowledged rule until the next persist;
* `AckedOutlastsCrashes` needs a file that is not stale in this sense;
* `FlushURLReaches` needs a `Plain` request: `FlushURL` builds its key with neither plugins nor client headers and by
  the rules of start-up (handler.go 61, 171), so it misses a rewritten path, a key with a header, and a key by newer rules.

`AckedOutlastsCrashes` names two more ways to lose acknowledged rules: a `.meta` that cannot be written, and a crash while it
is rewritten, which `Load` takes for an empty store (against doc/cdncache.md:61, "still in effect after a restart").

Read off the code without a run, because no interleaving is needed:

* the round robin is shared by all domains (doc/design.md:161 has it per domain, doc/devlog.md:285 accepts it);
* an expired entry keeps its file (doc/impl-plan.md:164), `X-Cache` says `hit` for it, and the index is not rebuilt at
  start-up (doc/design.md:135);
* responses with `no-store` are stored (doc/design.md:153), and any origin status below 500 is served as 200;
* rules are cleaned up by hot reloads only (doc/design.md:214);
* a token bucket whose `burst/rate` is more than the five minutes of the cleanup gets refilled early; `BucketHolds` is
  checked for buckets that refill within them;
* the origin's header is copied over the staged one, so that a response header that a plugin sets or deletes comes out as
  the origin sent it if the origin sent it (src/integration/README.md:162-169 and pipeline.go:18-24 have the plugin
  win); `OwnHeader` states what the code does. A deletion beats a setting of the same name in any order, one bad
  operation discards its section, and several values of a name from the origin become one;
* an unknown plugin type is skipped at each request (pipeline.go:94 says it is caught at start-up);
* global key rules, `MaxItems` and existing limiters are those of start-up; a request may be answered by a flight of
  another configuration (doc/design.md:36), of the same variant by what both took into account (`RightVariant`);
* between the two writes of a save in place the empty file loads, and the node serves no domain until the next event;
* a port that is taken is logged, and the process goes on without that server.

## 4. Proofs

Each theorem is about all values of the constants under the named assumptions, which TLC evaluates in each run: positive
capacity, origins, timeouts and budgets (`Defaults` replaces zeros), natural times, `None` and the contents of the file
distinct from what they mark (`CallerAssumption`: `None` is no caller), plugins and operations in lists, and requests that
have a list of values, if an empty one, for each header that key rules name. Two theorems have a hypothesis that the code
does not enforce: `RulesOutlive` (no TTL is longer than `MaxAge`) and `RefillsInTime` (a bucket refills within the time after
which cleanup forgets it). Section 3 says what happens without them; the instances of the runs satisfy them.

| Module | Theorems | Invariant |
|---|---|---|
| LRUCacheProofs | `CacheTyped`, `CacheConsistent`; `ListInOrderOfUse`, `EvictsTheOldest` | `CacheInv`; with `RecencyOrder` |
| SingleflightProofs | `RequestsTyped`, `OneFlightPerKey`, `NoKeyPulledTwice`, `EntriesMatchFiles`; `FetchesOnceHolds`: Singleflight implements FetchOnce | `SFInv` |
| CdnNodeProofs | `RequestsAgree`, `ServedNeverGoesBack`, `FlushesAreHonoured` | `NodeInv`, `HistInv`, `FlushInv` |
| FlushStoreProofs | `StoreTyped`, `StoreMirrored`, `StoreKeepsAcknowledged` | `StoreInv` |
| HotReloadProofs | `ServersStayTyped`, `NoUpdateIsLost`, `NoRequestIsCut` | `ServersTypeOK`, `Caught`, `CutInv` |
| GatewayProofs | `GateTyped`, `EveryWaiterAboard`, `AnswersAreRightVariants`; `FlushedURLsArePulledAgain`, `ResponsesHaveTheirOwnHeader` | `GateInv`; `HistInv` |
| RateLimitProofs | `LimitersTyped`, `WindowIsHard`, `RefusalsAreJust`, `BucketIsHard` | `LimiterInv` with `PassedInv`, `SlidingInv`, `BucketInv` |
| PullerProofs | `PullsTyped`, `FailuresAreUnserved` | `PullInv` |

**LRUCacheProofs.** `TypeOK` and `IndexConsistent` need each other: `Without` removes the position of a key, which exists
only because map and list agree, and the typing of `lru` needs that position. `RemoveListed`, `PutFront` and
`KeptFront` are about sequences; `UnindexKeepsIndex`, `ToFrontKeepsIndex` and `InsertKeepsIndex` lift them to the
three ways the code changes the index. For the order of use, `After(newer, u)` is the history once the keys `u` were used;
removing a position, cutting the tail and putting a used key in front keep a list in that order (`RemovedInOrder`, `KeptInOrder`,
`FrontInOrder`), and a step uses at most the key it puts in front (`OneUsed`). `EvictsLeastRecent` follows as the victim is
the tail of a full list (`InsertEvictsTail`).

**SingleflightProofs.** `SFInv` adds to `CacheInv` and the three properties what each caller holds in each place (`Held`),
which cache call it is in (`InStep`: who writes a key leads its flight), and `Written`: the file is the leader's own until
its `Set` has updated the index. `NoRedundantPull` and `IndexMatchesDisk` rest on one leader for each key (`OneLeader`);
`Shrink` says of most steps that entries and files only go.

Its refinement: what clients see is `Seen`, the refinement mapping. A step changes it for one key at most: it begins a
fetch (`Starts`), ends one without the key (`Fails`), inserts the key (`Finishes`), drops an entry or does nothing (`GoneOrSame`).
That `Set` makes room by exactly one key when the cache is full needs that the list has as many keys as are cached
(`CachedCount`, a bijection) and that `evictLocked` takes just its tail (`TailIsOne`).

**CdnNodeProofs.** `NodeInv` is `SFInv` with the types of the visits and the rules; `InStep` lets a caller outside
`GetOrFetch` be in a `Stat`, so that the lemmas of SingleflightProofs serve for a node too. `HistInv` says why nothing served
goes back, by where a body can come from. An entry is no older than the oldest body a request may get (`KeyOK`); a body
pulled and not yet landed is the newest of its key, in its file as in its entry (`CarryOK`); a reader finds a file that is not too
old for it, and a leader's reader one that is not too old for anyone who may join it (`ReadOK`); and a body that was read and
not yet answered is no newer than any that can still come (`HitOK`), so that to answer it late, which raises the oldest
allowed, refutes none of the rest. `CalmKeeps` is the steps that only let entries and files go, `AnswerKeeps` those that answer. A
flush by prefix needs no case of its own: all a rule does is to let a request delete the entry (`Evict`). `ReadOK` rests on
`IndexMatchesDisk`, `CarryOK` on one leader for each key.

`FlushInv` follows a flush at time `t` from the arrival of a request to its answer. `Stands`: a rule as late is in force, or
so much time has passed that every entry from before has expired; this is where `RulesOutlive` is needed, as `Cleanup` may only drop
such a rule. `StoredSince`: nothing is on its way into the index that was stamped before `t`, as only a leader stores, the key had no
flight as the request arrived, and leaders stamp after. Before the check is over an old entry may be there, but only the one
that `Stat` found (`OnlyStale`); the latest matching rule (`LatestIsLatest`) condemns it, unless it has expired (`CheckIsThorough`); after
it, none is (`FoundSince`), and so none is answered (`Answer`). Each step moves one caller in one of a few ways (`Moved`,
`VisitMoved`), and the lemmas on what stays true speak of those ways only.

**FlushStoreProofs.** `StoreInv` adds that a writer alone in persist saves the rules in force (`Alone`), which is why the
next lone persist mends the file, that what a snapshot has and is not old by now is still in force (`Snapshots`), and that
neither a file that is not stale nor what is about to be saved lacks an acknowledged rule (`Fresh`). **HotReloadProofs.**
`Caught` says where a change the process was told of is: pending as an event or signal, loaded, or in force; `Drawn`, in
`CutInv`, that the business server has no request left once the admin server is drained with time left. **GatewayProofs.** `GateInv` is the
properties with the shapes of the records; `RightVariant` follows as equal keys agree in what both list
(`Build` injective in its parts). For the header, `OneMore` is one operation of a section, `PluginLeaves` one plugin, and
`ExecuteLeaves` the whole list: what is staged of a name is what the last of the operations on it says, in the order of plugin and
place. A request keeps what it took (`TookOK`), so that no reload and no other leader matters. For URL flushes, from a flush that found
no flight on, entry, flight and answers of the key are of later pulls (`StoredOK`, `SinceOK`), and the key of a plain request is
the flushed one (`PlainKey`), as plugins leave the query alone. **RateLimitProofs.** The stamps of a sliding window are
the end of the history of its key, and what is before them, or was dropped by cleanup, is out of the window (`Remembers`); so a
request let through is a second later than the one `Rate` before it (`Spaced`), and no second holds more than `Rate`. A bucket's
tokens and what was let through since any earlier request are covered by its burst and the time since (`Covered`); cleanup forgets
buckets that are full by then (`RefillsInTime`). **PullerProofs.** `PullInv` says that the budget covers all attempts that may follow and
one more (`Budgeted`), so that it never cuts an attempt short, and that no origin asked so far has been well since
the pull began (`Unwell`); the count is an injection from attempts to origins (`UnservedCounts`).

**Induction.** The library's induction theorems take an operator as a parameter, which the installed provers cannot
instantiate. Its theorem that the order of the numbers is well founded is about sets, and gives that a set of numbers has a
least element (`LeastElement`); what the loops of the limiter and of the plugins compute is proved from that, by the least turn at
which a claim fails. So is that a recursive function follows its equations.

Model-checked only: liveness (`EveryRequestEnds`, `ReloadsInTheEnd`, `ShutdownEnds`, `PullEnds`), which is out of the prover's
reach.

## 5. Not modelled

* Parsing: configurations, regular expressions, cache keys and TTL headers are what they mean; a configuration is a model
  value in HotReload and a record in Gateway. The values that `Defaults` fills in are assumptions on constants.
* Logging, metrics, `RequestLogger`, routing; `Len`, `RuleCount` and the admin `Stat` handler, which only read; `List`,
  `Exists` and `Stat` of LocalFS, which nothing calls.
* Power loss and unsynced files: a crash is the death of the process, and the file system survives.
* The two `os.Remove` calls of `LocalFS.Delete` as separate steps: only the second touches `.meta`, which no reader
  uses without the content. Temporary files.
* The forwarded request headers of a pull; an origin whose content is older than its answer: the age of
  a body is its `WrittenAt`, as in the code.
* The integration tests and their mocks, which were read for what they say of the program.

## 6. Plan

1. *Done*: LRUCache, Singleflight with FetchOnce, FlushRules and FlushStore, CdnNode, RateLimit, Puller, HotReload and Servers,
   RequestPath and Gateway; the proofs of section 4.
2. Gateway over FetchOnce as a constant-level promise: `Lead`, `Land` and `Drop` shown to be steps of FetchOnce, with keys
   that are records, to join the two halves of the request handler.
3. `FlushHonoured` across restarts, with what `AckedOutlastsCrashes` says of the rules that are loaded.
