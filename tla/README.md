# A verification development for Otoroshi

TLA+ models of the parts of Otoroshi where several actors meet: instances that
share a datastore, workers and leaders that exchange state over http, request
threads and periodic tasks that share memory, a page of the admin UI and the engine
that runs what it saves. Each module is written from the Scala source under
`otoroshi/app`, or from the JavaScript of the UI under `otoroshi/javascript`;
`PROJECT.json` maps every definition to the lines it stands for.

Run `tlc -config <cfg> <module>` for a run listed below, `tlapm <module>` for the
proofs.

## 1. The system

Otoroshi is a reverse proxy and API gateway. Instances run alone, or as a cluster
of *leaders*, which share a datastore (Redis, Postgres, ...), and *workers*, which
serve requests from an in-memory copy of it. Its parts:

| part | state it keeps | operations | what is hard | what makes it correct |
|---|---|---|---|---|
| Job manager, `script/job.scala` | registered contexts, registered locks, timers; one lock key per job in the datastore | scan (1 s), acquire, run, renew (10 s), stop, replace, stall detection (20 s) | get/setnx/check as separate calls, delayed setnx, crashes, TTL | one instance at a time believes it holds the lock, the job runs there, it fails over |
| Quotas push, `cluster/cluster.scala`, `ClusterController.updateState` | map of counters, the map being pushed, the push flag; the leader's totals | increment, swap, attempt, retry, restore; apply a stream | increments racing the swap, partial streams, late answers, retries | nothing lost, inflation bounded, delivery |
| State poll, same files and `GenericDatastores.rawExport` | the leader's cached body, date, count, digest; the worker's memory | export, publish, read, validate, swap | overlapping exports, torn headers, broken streams, restarts | whole states, no regression, freshness |
| In-memory store, `SwappableInMemoryRedis.scala` | store and expirations, replaced as a whole on a worker | Redis operations, swap, expiration sweep | non atomic read-modify-write, sweep against new expirations, sweep against swap | nothing missing during a swap, windows end |
| Retry and circuit breakers, `gateway/circuitbreakers.scala` | breakers by host, shared by requests; attempts, promise and body of a request | choose a target, build a breaker, call, time out, retry, reset | timeouts that stop nothing, breakers replaced under a request, a body consumed by a late call | one awaited call, one answer at the end, and one in the end |
| Counters of a key, `rateLimiting.scala`, `KvApiKeyDataStore.scala` | a counter and an expiration per window, in Redis or in memory | check, count, give an expiration; reset and read from the admin API | check-then-act on many threads, commands that fail between two steps, the sweep | overshoot bounded by what is in flight, nothing counted that did not pass, windows end |
| Route designer, `RouteDesigner/Designer.js`; order of plugins, `next/models/plugins.scala` | the route and the nodes shown, two lists with indexes per step | load, add, remove, replace, move, save; sort on the engine | two lists kept in step by hand, missing or equal indexes, identifiers used again | what is saved is what is shown, and runs in that order |
| Fail2ban, `fail2ban.scala` | rolling windows, bans | count a failure, ban, look up | two-step window resets | no ban lost |
| Routing, `treerouter.scala`, and the proxy state, `next/proxy/state.scala` | route tree, entity maps | build, find; periodic copy | priorities of overlapping routes | the tree finds what a linear search finds |
| Proxy engine, API lifecycle, key rotation, health checks, tunnels, exporters, workflows, auth, TLS, WASM, TCP, other pages of the admin UI | | | mostly calls to the parts above, to libraries or to external services | |

How they interact: the job manager and the API key counters use the datastore's
commands; a worker's request threads call `ClusterAgent.increment*`, which the push
empties; leaders read the shared datastore into a cache that workers poll and swap
into their memory, from which the proxy state and the routes are then built; retries
in the cluster's calls and in the proxy use the same `Retry` object. The health check
takes targets away from the ones that the circuit breakers choose from; the admin API
resets breakers and counters under the requests that use them; the UI saves routes
that the engine sorts by rules of its own.

`PROJECT.json` lists every component with its status, and under `hazards` each place
where this code could go wrong in a way that tests hardly reach.

## 2. The modules

| module | models | lines of code it stands for |
|---|---|---|
| `JobLock` | the cluster-wide job lock, one job, every instance and context | `script/job.scala` 270-818, `rediscala.scala` 764-775 |
| `ClusterMutex` | what the lock promises: a holder, and active instances that the holder admits | (abstract specification) |
| `ClusterQuotas` | a worker's counters, the push, one leader | `cluster.scala` 1542-1550, 2173-2182, 2504-2604; `ClusterController.scala` 329-358; `circuitbreakers.scala` 67-124 |
| `ClusterState` | leaders' exports, a worker's poll, the swap | `cluster.scala` 1425-1493, 2320-2490; `ClusterController.scala` 443-472; `GenericDatastores.scala` 246-282; `SwappableInMemoryRedis.scala` 69-82, 147-174, 487-504 |
| `CircuitBreaker` | the attempts of requests, the map of breakers, timeouts | `circuitbreakers.scala` 47-109, 136-168, 208-324, 385-429, 446-448; `engine.scala` 2486-2518, 2877-2880; `healthchecker.scala` 181-195, 393-401 |
| `RateLimiter` | the counters of a key on Redis and in memory, the sweep, the admin API | `rateLimiting.scala` 966-1079, 1101-1221; `SwappableInMemoryRedis.scala` 111-146, 233-266, 373-398; `ApiKeysController.scala` 860-902 |
| `RouteDesigner` | the plugins of a route in the designer, and the order in which the engine runs them | `Designer.js` 593-969, 1026-1195, 1250-1386; `plugins.scala` 25-36, 411-467, 500-589 |
| `JobLockMC`, `ClusterQuotasMC`, `ClusterStateMC`, `CircuitBreakerMC`, `RateLimiterMC`, `RouteDesignerMC` | the small instances that TLC checks | |
| `JobLockProofs`, `ClusterQuotasProofs`, `ClusterStateProofs`, `CircuitBreakerProofs`, `RateLimiterProofs`, `RouteDesignerProofs` | theorems | |

### JobLock

A *context* `<<node, generation>>` stands for a `RegisteredJobContext` and for its
`randomLock` token. `regLock[n]` is `JobManager.registeredLocks` for the job's key,
`lockVal` and `lockTtl` the key in the datastore. Every datastore call is two steps:
it executes at the store (`ExecGet`, `ExecSetnx`, ...), and the callback runs on the
instance (`HandleMine`, `HandleOther`) when it touches memory; the value a callback
decides on is kept in the phase of the acquisition. `AtomicSetnx` tells the Lettuce
driver (`SET NX PX`) from the rediscala one (`SETNX`, then `PEXPIRE`).

`run` schedules the timer and then, on the thread of the scan, puts it in `ref`: two
steps, `StartNext` (the phases "now" and "later" of a scan) and `SetRef`. `NoDelay` says
that the job has no initial delay, which is the default; the body of its first timer may
then run, and even end, before `ref` is set (`Fire` from "now", then "ran"). `ref` is
"late" when it was set to a timer that had fired already: nothing will clear it, unless an
execution is still to end. As `ref` only names the last timer, a context may have others
armed: `orphans`. `Fibers` are the scans that one context may have in flight: the manager
starts another one each second while `ref` is empty. `GenBound` bounds the contexts that each
instance creates. `dropped` is history: an
`unregisterLock` threw a registered lock away.

Named restrictions on the environment:

* `Slow`: the calls (to acquire, renew, release) that may take longer than the TTL of 30 s,
  which is renewed every 10 s. What is not in it is answered in time: `Expire` is disabled
  while such a call stands between a read and the write or callback that the read decided
  (`Due`). `Slow` is empty in every run and in `SafeSetting`. The code
  has no defence against a slow call: a `del` of `releaseLock`, or a `set` of `updateLocks`, that
  comes after the key has expired hits whatever lock is there then, and `updateLocks` never
  unregisters a lost lock. Nothing here is claimed of such calls; the types are proved for
  every `Slow`.
* `Stops = "quiet"`: a job is stopped or replaced when none of its scans or
  renewals is in flight. `"any"` is what the code accepts; a stopped context may then
  still take the lock, and `LockMutex` fails. Types are proved for `"any"` too.

Left out: `JobStarting.FromConfiguration` (which may call `startNext` twice in a
scan), predicates, `runOnceWithConfiguration`, hooks, `JobManager.stop`.

### ClusterQuotas

The two maps are `cur`/`present` (`quotaIncrs`) and `old`/`oldKeys`
(`oldQuotasIncr`). A request thread takes three steps, `Register` (`putIfAbsent`),
`LookUp`, `Add`; a push may swap the map between any of them, so `ref` records which
map a thread's entry lives in. `Attempt` copies the counts, as the code serialises
them again for each try; a request (`open`, `items`) lives on at the leader after the
worker stopped waiting for it. `Restored` are the counters that the `recover` branch
puts back (apikeys and routes); custom quotas and throttlings are not put back.
`crossed` are the threads whose increment was in progress when a push swapped the map, and
`late` the increments that they finished since; these two, `calls`, `made`, `failures`, `base` and
`atSwap` are history: no guard of the code's steps depends on them, except the bounds
`MaxCalls` and `MaxFailures`.

### ClusterState

`cacheState` releases `caching` before it assigns the body, the date and the digest:
`EndExport`, then the three steps of `Publish`. The next export may start, end and publish
in between, so the runs of one leader overlap from there on (`Runs` are how many may), and
one may publish after another that started later. `ReadState` reads what is published
one at a time too. A digest is modelled by the content it was computed from, so that a body and a
digest of different exports are told apart, and the count, which the digest implies,
is left out. `Receive` may lose keys of the stream. The memory is swapped in the three
ways the code has: the modern store (`strategy = "modern"`, the one the shipped
`application.conf` selects for workers: puts, then removals), the legacy store with Merge
(removals, then puts) and with Replace (a new map); `Strategies` are those a run considers. Only the keys that leaders send are
modelled; the worker's own, which `Cluster.filteredKey` keeps, are not.

History: `source` is the export whose digest came with the state installed last, `floor` the
oldest write of each key that the worker may still show. `ahead`, a field of a run, are the
runs that started before it and publish still, and `overtook` says that a run has
published while one that started before it had not.

### CircuitBreaker

A request goes through `callGenNg` in the steps between which others may act:
`Attempt` (the choice of a host), `Lookup` (is its breaker there, and of this
configuration?), `Build` (put a new one), `Call` (`breakers.apply`, which throws when a
reset came in between, then `withCircuitBreaker`), then the end of the call or its
timeout. `times[r]` is the attempts that `Retry` has left: `clientConfig.retries` is the
total number of attempts, not the number of extra ones that
`circuit-breaker.md` names it. `answer[r]` is the promise of `failAfter`. `calls` are the
calls that are awaited; one that timed out goes on at the backend, and all that is left
of it is that it may still read the body of the request (`body[r] = "exposed"`, then
`"read"`, after which no attempt is made). The breaker is Pekko's, modelled from how it
is used (external): closed, open and half open, a call reporting its end to the state
that let it through. A breaker that is no longer in the map is not followed, since
nobody reads it any more.

Looking at the body and choosing the target is one action: reading the body is the only
step that could come in between, and the order of the two does not matter then.
Left out: which target the strategy picks (any of the group), predicates, targets that
a plugin sets, delays between attempts.

### RateLimiter

A thread serves a call: `Begin`, `Read` on each counter in order, then on each counter
`Count` (on Redis INCRBY at once, in memory a get and a `Put`), `CheckTtl` (`pttl`) and
`Expire`. Or it serves a request of the admin API, which zeroes or reads counters and
then repairs expirations by the same steps. Time is not counted: `TimeOut` may come at
any moment, removes the counter in Redis, and in memory only marks it until the `Sweep`
removes the value, then the expiration. `Fail` is a command that Redis does not answer,
or an instance that dies between two commands; in memory nothing fails. What follows depends
on who sent it: `check` and `reset` wait for each command and stop there (`GivesUp`, which also
stands for a death); `incrementCounters` has sent the commands of the other counters already,
and only the one that failed is left out (`SkipsCounter`); a reset that cannot read an
expiration sets it (`Recovers`). `passed`,
`admitted` and `lost` are history.

A call visits its counters one after the other, as it does in memory; on Redis the
commands of all of them are sent together, which adds no outcome to a property of one
counter. Left out: the total counter (no limit, no expiration), the Lua script (one
atomic command), the token bucket and the fixed window of one process, and
`KvApiKeyDataStore.updateQuotas`, which follows the same pattern.

What the model shows, besides the properties: a counter left at its limit without an
expiration turns away every call of the key, and as only calls that pass give it an
expiration it stays so until an admin reads or resets it. `lost` names the two ways to
get there: Redis fails between INCRBY and EXPIRE, or the sweep removes a new expiration
with the old one.

### RouteDesigner

`route` and `nodes` are the two lists of the page's state, `stored` the route in the
datastore. Identifiers are `<<plugin, n>>`, as `generateInternalNodeId` and
`generateNewInternalNodeId` number them; an index is a partial function from steps to
numbers. A pattern or a template brings its
plugins with their indexes (`Patterns`), which `SetNodes` keeps, in an order that need not
be that of its list. `Ranked` is the list of a step by growing index, which the arrows move
in. `Shown` is what the page shows: the same for the steps of the request, and for the
response a stable sort by falling index read upwards, in which plugins with equal indexes
stand the other way round. `Runs` is the engine's side: the order in which
`NgContextualPlugins` puts the plugins that it is given.

`RunsAsShown` and `ReloadsAsShown` have two conditions, and both are needed: `Whole`, that no
saved plugin has an index for some of its steps only (an added plugin would else run
before ones that are shown above it), and `Distinct`, since after a removal or a pattern a new
node may take the identifier of another. Three more limits of the code are visible in the
model: plugins with the same index in the response run in the opposite of the order shown; a
plugin of both transformations runs in the response in the order of the request
(`transformerPlugins` makes one list of both); and `swap` drops the saved index of a
plugin that the UI does not know: it gives the route the index of the node, which is empty.
The comment at `Designer.js` 659-660 says that "the route keeps the index on save", and the code
does so only until a plugin is moved. `UnknownKeepsItsPlace` states what remains true.

Left out: the forms of plugins, the frontend and backend nodes, and the JSON view.

## 3. The runs

| run | properties | bounds and why they are enough |
|---|---|---|
| `joblock_quiet` (`JobLock_quiet.cfg`) | `TypeOK` `LockMutex` `RegisteredIsStored` `SingleExecution` `ImplementsMutex` | 2 instances, of which one replaces its context once, 2 scans of a context in flight together, 1 unnamed timer and 1 execution per context, a job with an initial delay, crashes, quiet stops. Mutual exclusion is about pairs; the second context shows an old release against a new acquisition; of two scans one can win while the other loses, which is all that a third would do |
| `joblock_failover` | `Failover` `DeadLockFreed` | 2 leaders and a worker, 1 context each, a driver without atomic setnx, no initial delay, crashes. Shows a survivor taking over from every point where the holder can die |
| `joblock_overlap` | `RunMutex` violated | 2 scans per context, no crash and no stop |
| `joblock_lostref` | `RunsEveryInterval` violated | 1 scan per context, no initial delay, an atomic setnx, no crash and no stop |
| `clusterquotas_push` | `TypeOK` `NoLoss` `InflationBounded` `EventualDelivery` | an apikey and a custom quota, 2 threads, 2 calls, 2 open requests, 2 attempts per push, 2 failures: a late request of a given-up attempt next to the retry, and a push given up followed by another |
| `clusterstate_single` | `TypeOK` `Whole` `NoRegress` `NoGap` | the modern store and the legacy one with Merge and with Replace, 1 leader, 2 keys, 2 cache runs that overlap while the first publishes, 2 writes, 2 attempts, 1 failure or restart: a later export can be published before, between or after the three assignments of an earlier one |
| `clusterstate_modern` | `Whole` `NoRegress` `NoGap` `EventuallyFresh` | the shipped store, 2 keys, 1 cache run at a time, 1 attempt per poll, 3 writes (create, update, delete), 1 failure or restart: what it adds to the run above is fairness, and a third write |
| `circuitbreaker_retry` | `TypeOK` `OneAwaitedCall` `AnsweredAtTheEnd` `KeepsItsOwn` `EventuallyAnswered` | 2 requests of 2 attempts, a primary and a backup host, breakers that open at the first failure, 1 change (reset, new configuration or health check). Two requests are what it takes to replace a breaker; two attempts show a retry on the backup, or on the host again |
| `circuitbreaker_globaltimeout` | `NoAttemptAfterTimeout` violated | the same |
| `routedesigner_edit` | `TypeOK` `Mirror` `DistinctUntilChurned` `RunsAsShown` `ReloadsAsShown` `UnknownKeepsItsPlace` | 5 routes to start from (no index, an unknown plugin, equal indexes in a step of the request and in the response, an index for some steps), a pattern whose indexes are not in the order of its list, plugins of the request, of the response and of both, at most 3 plugins, 5 edits: three plugins can be moved past each other, removed and numbered again |
| `ratelimiter_windows` | `TypeOK` `NeverOvercounts` `OvershootOnRedis` `EndlessOnlyIfLost` `WindowEnds` | 2 threads, a window of 1 and a day of 2, 3 calls, 1 request of the admin API, 1 failure: both threads can be at one counter, with the sweep on it, at its limit |
| `ratelimiter_overshoot` | `OvershootInFlight` violated | 2 threads, one counter with limit 2, 5 calls |

The properties, in words:

* **LockMutex**, **RegisteredIsStored**: at most one instance believes it holds the
  lock, and it is the one the datastore names.
* **RunMutex**: the job does not run on two instances. An execution in progress when
  its context is stopped is left aside, since `stop` does not wait for it. The code does not
  have it, since scans overlap.
* **SingleExecution**: with overlapping scans, it holds until one scan throws away
  the lock that another registered.
* **ImplementsMutex**: until then, `JobLock` refines `ClusterMutex`, `holder` being the
  instance with a registered lock and `active` the instances that run the job.
* **RunsEveryInterval**: a job with an interval is run again and again while an instance that
  may run it stays up, unless `StalledJobsDetector` meets the lock between SETNX and PEXPIRE
  for ever. The code does not have it; **Failover** is the same, unless an instance is left
  with a `ref` that nothing will clear (`Stuck`). No crash is an excuse.
* **DeadLockFreed**: the value that a dead instance left in the datastore goes away.
* **NoLoss**: every call on an apikey or a route that was not in progress when a push swapped
  the map is accounted for by the leader and the two maps. Of one that was, nothing is
  claimed, and the code can lose it: its entry was found before the swap and is
  incremented after the counts were serialised.
* **InflationBounded**: a call is counted at most once more per failed attempt.
* **EventualDelivery**: counts reach the leader once failures stop.
* **Whole**: outside a walk the worker's memory is one complete export.
* **NoRegress**: with one leader, no key goes back to an older value and no deleted key
  returns, until a cache run is overtaken: one that started later publishes first. Overlapping
  runs that publish in the order they started do no harm. With several leaders of different age it does not hold, and nothing in the
  repository says that it should.
* **NoGap**: while the memory is changed in place, an entity that both states have is
  never missing.
* **EventuallyFresh**: when writes and failures stop the worker ends with the
  datastore's state, unless the datastore is empty (an empty state is ignored).
* **OneAwaitedCall**: whatever times out or is reset, a request waits for one call at most,
  that of its current attempt, and for one whenever it is in an attempt.
* **AnsweredAtTheEnd**: an error or a response is given once the attempts are over; only the
  global timeout answers while they go on.
* **KeepsItsOwn**: a request never replaces a breaker that it built itself, so its own
  failures are not forgotten by its own retries. Others may replace it.
* **EventuallyAnswered**: a request is answered even if the global timer and the backends
  never are heard of.
* **Mirror**: the route that will be saved has the plugins shown, under the same identifiers.
* **DistinctUntilChurned**: no two nodes share an identifier until one is removed or replaced.
* **RunsAsShown**, **ReloadsAsShown**: saved as it is, a route runs, and is shown again, in
  the order shown, under the conditions above; plugins with equal indexes in the response
  run in exactly the opposite order.
* **UnknownKeepsItsPlace**: while nothing is removed or replaced, a plugin that the UI does not
  know is saved with the index that the stored route has, or with none once another was moved;
  never with the index of another.
* **NeverOvercounts**: no counter holds more calls than were let through.
* **OvershootOnRedis**: the calls that pass above a limit are fewer than the threads.
* **EndlessOnlyIfLost**, **WindowEnds**: a counter that nobody works on has an expiration, and a
  full one is emptied, but for those in `lost`.

Deadlock is checked except where the system really stops. In the `JobLock` runs every
instance may be dead, or have unregistered its job with no generation left; in those of
`CircuitBreaker` all requests are over; in those of `RateLimiter` the calls are made and
the counters swept.

### Fairness

* JobLock: `scheduleAtFixedRate` keeps calling the scan and `updateLocks`
  (`job.scala` 693-698) and the detector is a job of its own; callbacks of calls that
  were sent are run; keys with a TTL expire. Nothing is assumed of boots, stops,
  crashes.
* ClusterQuotas: the push is scheduled at a fixed rate (`cluster.scala` 2936-2942);
  `Retry` always completes; the leader works through a stream and pekko-http ends it.
  Calls and failures are never assumed; failures end because `MaxFailures` bounds them,
  which is what "once failures stop" means.
* ClusterState: the export is scheduled at a fixed rate (`cluster.scala` 1396-1399), so
  is the poll (2928-2935); an export and an attempt end, by their result or by a
  failure that `MaxFailures` bounds.
* CircuitBreaker: the steps of a request, and the timer of each call (Pekko's
  `callTimeout`). Nothing is assumed of backends, the global timer, or the reset of
  breakers.
* RateLimiter: threads run, expirations end, and the sweep is scheduled at a fixed rate
  (`SwappableInMemoryRedis.scala` 133). Calls and failures are never assumed.
* RouteDesigner: none; a user may always stop.

### What the runs disagree with

`joblock_overlap`: `workflows.md` offers `OneInstancePerOtoroshiCluster` as the place
where a job runs, and TLC finds a behaviour in which it runs on two instances. The
setnx is delayed by up to a second while the scan starts a new acquisition each
second; the acquisition whose setnx answers false calls `unregisterLock`, which drops
the lock that the other acquisition of the same context registered. The lock is not
renewed while the timer of the job is armed, it expires, and another instance takes it.
`SingleExecution`, checked and proved, says that with calls in time and quiet stops this is
the only way to get there.

`joblock_lostref`: `workflows.md` says that a `ScheduledEvery` workflow runs "then every
`interval`". `run` schedules the timer and sets `ref` afterwards, the timer's body clears
`ref` at its end; without an initial delay the two may come in the other order. `ref` then
names a timer that is over, the scan skips the job for ever, and under
`OneInstancePerOtoroshiCluster` the instance renews its lock for ever too, so that the job
runs nowhere. Nothing has crashed or stopped. Each start of a context can meet the race once,
since later timers have the interval as their delay.

`circuitbreaker_globaltimeout`: `circuit-breaker.md` says that after the global timeout "no
further attempts are made, even if retries remain". The timer of `failAfter` only
completes the promise of the client; `Retry` is not told, and TLC finds a backend called
after the client was answered.

`ratelimiter_overshoot`: the comment of `checkAndIncrement` bounds the overshoot by the calls
in flight, with counters that are "exact again on the very next call". That holds on
Redis (`OvershootOnRedis`, proved). In the default in-memory store `incrby` is a get and a put:
an increment that is lost stays lost, and TLC lets five calls through a window of two
with two threads.

## 4. The proofs

| theorem | statement | argument |
|---|---|---|
| `JobLockProofs!TypeCorrect` | `Spec => []TypeOK` | directly; for every `Slow`, every `Stops` and both drivers |
| `JobLockProofs!RegisteredAgrees` | `SafeSetting => (Spec => []RegisteredIsStored)` | `LockInv`, below |
| `JobLockProofs!MutualExclusion` | `SafeSetting => (Spec => []LockMutex)` | from the same invariant: two registered locks would both be the stored value, and a token belongs to one instance |
| `JobLockProofs!OneExecution` | `ClusterSetting => (Spec => []SingleExecution)` | `WorkInv`, below |
| `JobLockProofs!LockImplementsMutex` | `ClusterSetting => (Spec => ImplementsMutex)` | the initial state, then one action of `ClusterMutex` or a stutter for each action, below |
| `ClusterQuotasProofs!QuotasTypeCorrect` | `Spec => []TypeOK` | directly |
| `ClusterQuotasProofs!NothingLost` | `Spec => []NoLoss` | `Accounts`, below |
| `ClusterQuotasProofs!InflationIsBounded` | `Spec => []InflationBounded` | `InflationInv`, below |
| `ClusterStateProofs!TypeCorrect` | `Spec => [](TypeOK /\ PollInv)` | `PollInv`: keys are left to visit only in a walk, and a walk has a state that it received |
| `ClusterStateProofs!ServesWholeStates` | `Spec => []Whole` | `WholeInv`, below |
| `ClusterStateProofs!KeysNeverDropOut` | `Spec => NoGap` | a step lemma on `WholeInv` |
| `ClusterStateProofs!NeverGoesBack` | `SoleLeader => (Spec => []NoRegress)` | `LineInv`, below |
| `CircuitBreakerProofs!BreakerTypeCorrect`, `AwaitsOneCall` | `Spec => []TypeOK`, `Spec => []OneAwaitedCall` | `TypeInv`, below |
| `CircuitBreakerProofs!AnsweredOnceDone` | `Spec => []AnsweredAtTheEnd` | inductive on the types |
| `CircuitBreakerProofs!NeverReplacesItsOwn` | `Spec => KeepsItsOwn` | `Own`, below |
| `RateLimiterProofs!LimiterTypeCorrect` | `Spec => []TypeOK` | `Control`, below |
| `RateLimiterProofs!EndlessIsLost` | `Spec => []EndlessOnlyIfLost` | `AllKept`, below |
| `RateLimiterProofs!RedisOvershoot` | `Spec => []OvershootOnRedis` | `AllWithin`, below |
| `RateLimiterProofs!NeverOvercounted` | `Spec => []NeverOvercounts` | `AllCounted`, below |
| `RouteDesignerProofs!DesignerTypeCorrect`, `MirrorsTheRoute` | `Spec => []TypeOK`, `Spec => []Mirror` | `TypeInv`, the two together, below |
| `RouteDesignerProofs!DistinctIds` | `Spec => []DistinctUntilChurned` | `IdInv`, below |
| `RouteDesignerProofs!ReloadsInOrder` | `Spec => []ReloadsAsShown` | `MatchInv`, below |
| `RouteDesignerProofs!RunsInTheOrderShown` | `Spec => []RunsAsShown` | `MatchInv` and the lists of the engine, below |
| `RouteDesignerProofs!UnknownStays` | `Spec => []UnknownKeepsItsPlace` | `KeptInv`, below |

`SafeSetting` is an atomic setnx, calls faster than the TTL (`Slow = {}`), and stops that are
absent or quiet; the number of instances, contexts, scans in flight, timers, and crashes are
free. So the registered locks exclude even with overlapping scans: what
`joblock_overlap` breaks is the execution of the job, not the lock.

`LockInv` strengthens `RegisteredIsStored` with what protects it from each writer of
the key: generations are created in order (`GenInv`); calls in flight belong to the
current context, or to a dead instance whose setnx is still under way, and what they
read is still true (`AcqInv`, `RenewInv`); a context that is releasing is no longer
current and has nothing else in flight (`ReleaseInv`); the key always has a TTL, so the
detector deletes nothing (`TtlInv`). That the key cannot change hands between the get and the
del of a release is the assumption `Slow = {}`, not a result. Without `ReleaseInv` the delete of an old context
could remove the key that the new one registered.

`ClusterSetting` adds to it only that the lock decides where the job runs. `WorkInv` says that,
until a registered lock is thrown away, whatever still counts (executions, armed timers, timers
scheduled and not yet in `ref`, of contexts not stopped) belongs to the context whose lock is
registered; `SingleExecution` then follows from `LockMutex`. The exception is the whole of
what overlapping scans can do: `dropped` only becomes true in `HandleOther`, on an instance
that has registered a lock, and the theorem is for any number of scans. In the refinement
`HandleMine` is `Take`, `Fire` is `Start` unless the execution is one of a stopped
context, `JobEnds` is `Finish` when the last execution of the instance ends, and a stop,
a replacement, a crash or a `HandleOther` that drops the lock is `Leave` when the instance
had the lock or ran the job; every other action changes neither, and after a drop the two
variables stay empty. The step proofs need `WorkInv` in both directions: `Start`
asks for a holder, `Leave` must empty both variables at once.

`Accounts` says, for each restored counter, that made calls are covered by the current
map, the late ones, and what the push in progress swapped, and that the leader has all
of it once the answer is "ok" (`Awaited` relates the awaited answer to the request that
is open). `NoLoss` alone is not inductive: `HandleOk` drops the old map, and nothing
in `NoLoss` says that the leader has it. `Uncrossed` says whose entries are still in the current
map: those of the threads that no swap has crossed.

`InflationInv` counts where a call may still be counted: what the leader has, the
messages of requests that it has not applied, the current map, and the old map while it
waits to be sent, are together at most `made * (1 + failures)`. Sending the old map moves it
into a message, a failure allows the old map once more. The calls in the messages are a
set, `Pending`, so that a request adds to it as many as its message has, whichever and
however many requests are open; that the set is finite is part of the invariant, not an
assumption on `Requests`.

`WholeInv` says what a worker serves while it walks the keys (the keys that it visited
are as in the received state) and that outside of a walk it serves the state whose
digest it compared. It holds for leaders whose runs overlap and publish late, because
the digest is that of the content.

`LineInv` is about what `Valid` cannot see: whether a state that is complete is also
newer. It puts the places that a write of a key goes through in a line: the memory of the
worker, the digest given to its poll, the published digest, the runs that have read the key,
in the order in which they started (`RunInv` says that `ahead` orders them, since the
`caching` flag keeps their exports apart), and the datastore. `Before` is that order, `Taken`
says which places hold something of the key. `Chain` says of any three of them in line that a
write is not followed by an older one, nor by itself once the key was deleted in between;
`Held` that none is older than `floor`. A step that copies one place over
the next, or empties one, keeps a line (`ChainMoves`, `LineMoves`). Publishing copies a run
over the published digest, and that is a step along the line when no run that started before
it has still to publish; in the other case `overtook` becomes true, and `NoRegress` and the
invariant end there. Nothing is assumed of when a run publishes. `SoleLeader`, that there is
one leader, remains: leaders polled in turn have caches of different ages.

`TypeInv` of `CircuitBreakerProofs` adds to the types what makes the steps of an attempt
defined: an attempt in progress has one left to Retry, a chosen host is one of the
hosts, and a request is in its call exactly when one call, of its current attempt, is
awaited. Types alone are not inductive: `Call` reads the breaker of the chosen host, and
`AttemptFails` takes one from `times`. `Own` says why a request does not replace its own
breaker: what stands in the map under the name of a request has that request's
configuration, so its later attempts find it good; a request about to build found, at
its lookup, nothing or somebody else's, and only that request puts one in its own name. The theorem holds for any number of requests, hosts, retries, resets and
configurations.

The four invariants of `RateLimiterProofs` are in layers. `Control` relates where a thread
stands to the counter that it visits. `AllKept` strengthens `EndlessOnlyIfLost` with the
sweep: an expiration that is given while the sweep removes the old one is recorded, and
so is a value written after the sweep removed the one before. `AllWithin` counts, on
Redis, the threads that found room on a counter and have not incremented it yet: `passed` plus those is at
most the limit plus the other threads. `Read` preserves it because a thread that finds
room was not among them, and `Count` because it moves a thread from one side to the other. The
cardinality arguments use the finite set theorems of the library. `AllCounted` does the
same for `admitted`, a lost increment only lowering the counter; it also bounds what a
thread read in memory and has not written back, or a late `Put` could raise a counter
above it.

`TypeInv` of `RouteDesignerProofs` is `TypeOK` and `Mirror` together, since neither is inductive
alone: `swap` and the save look for each plugin of the route among the nodes, by its
identifier, and what `find` returns has an index only because it is there. `IdInv` says that an
identifier names its plugin and that, until something is removed or replaced, its number
is given by how many nodes of the plugin come before it (`Numbered`); numbers that grow along the
list differ. `MatchInv` says that an index of the route that has all the steps of its plugin is the
index of the node. It has an exception, a node with a `Twin` of the same identifier, which is not
an artefact of the proof: after a removal or a pattern two nodes may share an
identifier, and `swap` then gives both plugins of the route the index of the
first node, while the other node keeps its own at the other steps. `Distinct` in the two
properties leaves those pages out.

Order is then an argument on ranks. `Sorted` puts a member of a finite set at the place given by
how many come before it; for a strict order that is a bijection (`SortedFacts`), so that two
members of a sorted list are in the order of the set. `ReloadsInOrder` follows because the reloaded
nodes have the same indexes (`LoadedIndexes`), and `RunsInTheOrderShown` because the plugins that
are for the step, and have an index for it, are in one of the engine's lists sorted as on the page
(`RunsInOrder`); in the response, those with the same index are shown in the opposite order,
which the statement says of them. Those that come from other lists are before or after all of them, or
are unknown to the UI and not in the statement.

`KeptInv` says that the plugins of the stored route are the first of the page, and that an unknown
one has in the route the stored index or an empty one. `swap` looks for the index of each
plugin of the route among the nodes; by `IdInv` it finds a node of the same plugin, and
by `MatchInv` that node has no index.

Model-checked only: the liveness properties (`Failover`, `DeadLockFreed`, `EventualDelivery`,
`EventuallyFresh`, `EventuallyAnswered`, `WindowEnds`), since the proof system has no rule for
fairness. Every invariant and action property that a passing run checks is the subject of a
theorem; those that hold under a condition on the constants (`SafeSetting`, `ClusterSetting`,
`SoleLeader`) are proved under it. The runs that disagree with a document have
nothing to prove.

## 5. Plan

Done: 1. `JobLock`, `ClusterMutex`; 2. `ClusterQuotas`; 3. `ClusterState`; 4. their first
theorems; 5. `CircuitBreaker` and its theorems; 6. `RouteDesigner`; 7. `RateLimiter`, with
what it needs of the in-memory store, and its theorems.

8. The proofs of `InflationBounded`, of `ClusterState`, of `SingleExecution` and the refinement; 9. those
of `RouteDesigner`. All safety properties of the passing runs are now proved.

Next, theorems beyond those properties: that a counter of the rate limiter does not pass
its limit in memory by more than the calls whose increment was lost; what the lock still
guarantees when jobs are stopped at any time (`Stops = "any"`).

Left for later work on the model: the route tree against a linear search; fail2ban's
windows and bans; the rotation of api keys and its grace period; the lifecycle of an API;
a sweep that meets a swap; the websocket mode of the cluster; two leaders of different age;
a composition of `ClusterQuotas` and `ClusterState`, in which what a worker counted comes
back to it with the state it polls.

## 6. Not modelled

* Fail2ban, the token bucket, the route tree, key rotation, the API lifecycle: each keeps a
  small state of one process, and the project gave its runs to what several instances or
  threads share. They are the first candidates for further modules.
* Operations of modelled parts: `JobManager.stop`, `OneTimeJob`, `runOnceWithConfiguration`,
  `JobStarting.FromConfiguration`; what `updateLeader` does with a message, statistics;
  vaults, backups and the expirations that a state carries; the lists, sets and hashes of
  the in-memory store and its `del`; the choice of a target by a strategy.
* The proxy engine as a whole is a pipeline whose decisions belong to plugins; TCP and
  tunnels are stream plumbing; WASM, workflows and authentication interpret external code
  or protocols; TLS is the JVM's; exporters and health checks talk to external services,
  the latter entering `CircuitBreaker` through the targets it disables.
* The other pages of the admin UI, which are most of its JavaScript, are layout, schemas of
  forms and one http call per button: no state beside the form, and no order of steps to
  be wrong about. Drafts have some, but what they do depends on when React and its
  signals library run effects and batch updates, code that is not in this repository and
  cannot be modelled from its use. The sidecar forwards one request at a time and shares
  nothing but the context that it replaces.
