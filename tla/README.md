# A TLA+ verification of smartdns-rs

smartdns-rs is a DNS server that asks several upstream servers, answers with the
fastest address and keeps its answers fresh in a cache. It is an asynchronous
Rust program: listeners, a dispatcher, batch tasks, one task per upstream query,
a prefetch scanner and worker, timers and the web API run interleaved on one
runtime and meet in locks, atomics, semaphores and channels. The specifications
here model the parts in which that interleaving decides about correctness, and the
dashboard through which users read and change the server. TLC checks them on small
instances; TLAPS proves the safety properties of eight of them, and that the
dispatcher implements an abstract service, for every value of their constants.

Paths are those of the repository, with the crate below `src/src/` and the user
interface below `src/webui/src/`.

## 1. The system

A query takes this way:

1. A listener (`server/*.rs`) decodes it and calls `DnsHandle::send`
   (`server/mod.rs`), which puts it into an unbounded channel and waits on a
   oneshot channel for the reply.
2. The dispatcher `app::serve` (`app.rs`) takes requests in batches, refuses those
   above `max-query-limit`, and spawns a task per batch under one of two
   semaphores (64 foreground, 4 background).
3. The batch task runs the middleware chain (`dns_mw*.rs`): audit, zone, hosts,
   leases, address rules, dual-stack selection, CNAME, cache, name servers.
4. The cache middleware (`dns_mw_cache.rs`) answers from sharded LRU maps under an
   estimated byte budget. What it inserts also goes into a heap of expiry times; a
   scanner task pops the heap and queues refreshes, a worker sends them through
   the dispatcher as background queries.
5. The name server middleware (`dns_mw_ns.rs`) asks all servers of a group and
   picks an answer by one of three strategies, two of which test the speed of the
   addresses while replies still come in.
6. A name server (`dns_client.rs`) has a semaphore, a timeout, retries within a
   deadline and a circuit breaker: after three failures in a row it is skipped for
   a while, and a group that is skipped as a whole is probed again.

Beside that path, a reload replaces configuration, chain and listeners (`app.rs`,
`api/address.rs`, `api/config.rs`); the cache is checkpointed to and loaded from a
file; the web API reads statistics, clears the cache and edits address rules. A
dashboard (`webui`) polls that API through a query cache and sends it changes.

| Part | State | Operations that change it | Module |
|---|---|---|---|
| Dispatcher | channel, batches, tasks, permits, `active_queries`, limit | send, receive, refuse, admit, spawn, answer, panic, release, reap, reload | `Dispatcher` |
| Cache store | shards, `total_bytes` | insert, hit, evict for capacity, evict for the budget, load, clear | `CacheStore` |
| Prefetch | entries, heap, scanner and its timer, `Notify`, channel, worker permits | insert, hit, evict, load, clear, pop, judge, requeue, send, schedule, refresh | `CachePrefetch` |
| Name server group | failure streaks and times, lookups and their tasks, permits | half-open reset, cooldown check, query, timeout, retry, success, failure | `NameServerGroup` |
| Lookup strategies | pending queries and speed tests, collected replies | choose a strategy, take a reply, take a speed test, end | `LookupStrategy` |
| Cache persistence | the file, caches and their tasks, blocking writers | load, checkpoint, save on termination, write, fail, reload, signal, shut down, crash | `CachePersist` |
| Reload and listeners | files, `cfg`, chain, client, lock, `listeners`, sockets, runtimes | create and delete rules, reload, lock, store, diff, remove, bind, insert, cancel, stop | `AppReload` |
| Dashboard | query cache, mounted tabs, dialogs, mutations, network and window | mount, fetch, reply, retry, pause, resume, poll, invalidate, cancel, mutate | `QueryClient`, `Dashboard` |
| Cache middleware, dual stack, audit, socket limiter, lease files | one request's own, a channel, a buffer, files | see section 7 | not modelled |
| Rules, domain maps, address middleware, chain | configuration data | pure functions of a request | not modelled |
| Speed checks, TLS, protocols, service management, web API reads | none that others depend on | I/O | not modelled |

`PROJECT.json` lists all parts with the source files of each.

### What is hard to get right

- Counters and permits have to be returned on every path: refusal, a batch without
  a permit, a panic, a task that ended and was not reaped yet.
- A reply channel that is kept but never used blocks its client for ever; there is
  no timeout in `DnsHandle::send`.
- `total_bytes` is changed beside the shard locks and not by them, is reset by
  `clear` at the end of a walk over the shards, and is unsigned.
- While the scanner judges a key it holds that key in a local variable, between
  two locks; inserts, evictions, loads and clears happen meanwhile.
- The scanner computes its sleep before it sends with backpressure and starts the
  sleep after that; a notification may come before, during or just after a check.
- The circuit breaker reads and writes two atomics without a lock, and the
  half-open reset walks over servers whose counters other lookups change.
- Replies and speed tests arrive in any order, and a server that is skipped replies
  first of all.
- A reload is a dozen awaits long and is not exclusive: two of them interleave, and
  each computes what to start and stop from a map the other is changing. What comes
  through the API runs in the runtime of the very listener it may stop.
- The cache file is truncated in place and written by blocking tasks nobody awaits;
  a checkpoint, the save on termination and the cache of before a reload share it.
- A fetch of the dashboard may be cancelled, paused by a hidden window, retried or
  overtaken by a mutation, and its reply still arrives.

The hazards, each at its line, are in `PROJECT.json`. Those without a property are
in parts that are not modelled, or are places where the code does go wrong (section
3), or are the deadline of a retried upstream query, which the code checks before
the backoff only: that the query ends is checked (`LookupEnds`), by when is not.

## 2. Modules

| Module | Source | Role |
|---|---|---|
| `QueryService` | `app.rs`, `server/mod.rs` | what the callers of `DnsHandle::send` are promised |
| `Dispatcher` | `app.rs`, `server/mod.rs` | specification; implements `QueryService` |
| `DispatcherProofs` | | inductive invariant and theorems; that `Dispatcher` implements `QueryService` |
| `CacheStore` | `dns_mw_cache.rs` | specification |
| `CacheStoreProofs` | | sums, inductive invariant and theorems |
| `CachePrefetch` | `dns_mw_cache.rs` | specification |
| `CachePrefetchProofs` | | inductive invariants and theorems |
| `NameServerGroup` | `dns_client.rs` | specification |
| `NameServerGroupProofs` | | inductive invariant and theorems |
| `LookupService` | `dns_mw_ns.rs` | what the caller of `lookup_ip` is promised |
| `LookupStrategy` | `dns_mw_ns.rs` | specification; implements `LookupService` |
| `LookupStrategyProofs` | | inductive invariant and theorems; that `LookupStrategy` implements `LookupService` |
| `CachePersist` | `dns_mw_cache.rs`, `app.rs`, `main.rs` | specification |
| `CachePersistProofs` | | decoding, inductive invariant and theorems |
| `AppReload` | `app.rs`, `api/address.rs`, `server/*.rs`, `dns_conf.rs` | specification |
| `AppReloadProofs` | | inductive invariant and theorems |
| `QueryClient` | react-query as bundled in `webui/out` | operators on a query |
| `Dashboard` | `webui/src` | specification, on an instance of `QueryClient` |
| `DashboardProofs` | | inductive invariant and theorems |
| `MC*` | | constants of the instances TLC checks |

The modules meet at these places. `Answer` of `Dispatcher` is one run of the chain,
of which the others are parts. `CacheStore` and `CachePrefetch` model the same
inserts, loads and clears, the first by their bytes, the second by their expiry.
`Reply` of `LookupStrategy` holds what a task of `NameServerGroup` may deliver; its
`NoConnections` is the `skipped` of that module. `Reload` of `Dispatcher` and of
`CachePersist` is the store of a configuration in `AppReload`, seen from there. The
server of `Dashboard` is a version per resource; what its changes do inside the
server is `AppReload` (address rules) and `CacheStore` (the flush).

One step of a specification is what the code does between two points at which
another task can see or change something: a critical section, one atomic access
outside of a lock, one channel operation, the code between two awaits. Definitions
whose comment starts with "Mutant" are faulty variants of the definition that
follows them. No specification uses them; they show that a property fails when the
code has the fault.

### Dispatcher

`Send` and `Reload` are the environment. The loop of `serve` is `Recv` (everything
received is counted at once), `ReadConfig` (the limit is read after an await),
`Refuse` and `Admit` (the vector is popped from its end; only foreground requests
are refused), `SpawnBg`, `SpawnFg` and `Reap`. The two spawn steps differ as in
the code: a background batch without a permit is kept for the next iteration, a
foreground batch is a local variable and is dropped with its reply senders. A
batch task is a record that goes through `running`, `released` and `finished`,
because the permit is dropped before the task is reapable, or to `panicked`.
`lost` is a history variable: the queries that were counted and that no task will
return.

`QueryService` is the abstract specification: a query is unsent, queued, in flight,
answered, refused or dropped, a foreground query is let in only within the limit and
refused only under one, and nobody gets two replies. `Service` in `Dispatcher` is the
refinement mapping, and `ImplementsService` the abstract specification under it.

### CacheStore

An entry is its size. `Insert`, `InsertDisplacing` and `InsertAdd` are the critical
section of `insert` and `insert_negative`, split where `total_bytes` is changed
twice; `LoadPush` and `LoadAdd` are split where the loader releases the lock.
`CheckBudget` and `ScanShard` are the loops of `enforce_memory_budget`,
`ClearShard` and `ClearReset` those of `clear`. The counter is taken modulo `WORD`.

### CachePrefetch

All instants are relative to now, and `Tick` brings them closer, so the state space
is finite without a bound on time. `Pop`, `Judge`, `Requeue`, `Peek`, `SendOne` and
`Schedule` are `get_expired` and the scanner's loop; `WorkerRecv`, `Acquire` and the
resolution steps are the worker and the background query; `Miss`, `Hit` and the
same resolution steps are the part of the cache middleware that inserts and queues
refreshes. `swept`, `unseen` and `blocked` are history variables: keys that a clear
took out of the heap behind an insert; whether keys were loaded without waking the
scanner, or a due one was put back because the batch was full; and the time the
scanner waited for room in the channel.

### NameServerGroup

`Begin`, `AllowProbe` and `Spawn` are the start of a group lookup with its half-open
check, one server at a time. `CheckStreak` and `CheckClock` are the two reads of
`in_cooldown`; `Bump` and `Record` are the two writes of `record_failure`. `Acquire`,
`Succeed`, `Busy`, `Fail`, `Backoff` and `Retry` are the query with its semaphore,
timeout and retries; the permit is kept until the task ends, as in the code.
Upstreams break and are repaired at any time. Tasks outlive the lookup that
started them.

### LookupStrategy

A lookup chooses among `FirstPing`, `FastestIp` and `FastestResponse` from the
response mode and the request. `filter` holds the ignored addresses and address
aliases of the domain rule. Replies are taken in any order, and the outcome of a
speed test is an input: any of its addresses with any time, or none. The FastestIp
measurements are bounded by `MAX_ELAPSED`.

`LookupService` is the abstract specification, the same for the three strategies and
without tests, times and orders. `Offers` says what may be returned for the replies that
were heard: a response with addresses, as it came or cut down to one of them, then a
response without, then an error, and an error of the lookup's own only if there is
nothing else. `Hear` and `Decide` say when: at a response, at an error that was heard
before and is not that of a skipped server, or when nobody is left to wait for.
`Abstract` in `LookupStrategy` is the refinement mapping; what was heard
is what `oks` and `errs` hold (`Heard`).

### CachePersist

The file is a sequence of cells, an entry as many as it has bytes, so that a short
write, a truncation under an open writer and a hole in front of its offset are
states of the file. A task of a cache is `Load` and `Push` (one entry per step, as
it takes and releases the shard lock), then `Interval` or `Terminate`, and
`Snapshot`, which starts a blocking writer: `Open` truncates, `Write` and
`WriteFails` write at the writer's own offset, `Close`. `Encode` stores the seconds
an entry has left, `Decode` stops at the first thing that is not an entry. `Reload`
adds a cache while the tasks of the old ones go on. `Signal`, `Shutdown` and `Exit`
are the end of the process, in which tasks are dropped at their next await and
writers get some time; `Exit` may come at any step, and `Start` begins again.

What the model also shows, and no comment of the code denies: as lifetimes are
stored relative to the save, an entry lives on by the time the server was down, or,
after a reload, by the age of the file; a load may replace a fresher entry; and a
signal that comes during a load or a snapshot is not heard by the task.

### AppReload

A request is a record with a program counter. `Arrive` and `Create` or `Delete`
read the rules file, `Truncate` and `Fill` rewrite it, each a step of its own as the
handler awaits between them, and `IoFails` ends a handler at any of them. `LoadFile`
and `LoadManaged` parse, `StoreCfg` stores; `ReadCfg`, `Lock`, `BuildMiddleware`,
`StoreHandler` and `StoreClient` are `update_middleware_handler`; `ListenerCfg`,
`Diff`, `Remove`, `Bind`, `BindFails` and `Insert` are `update_listeners`. A server
knows the runtime it belongs to (`home`): an HTTP listener that stops (`StopHttp`)
takes with it the requests, spawned shutdowns and sockets of its runtime. `Edit` is
the administrator changing the file.

### QueryClient and Dashboard

`QueryClient` holds the record the library keeps per query key and its steps: a
fetch is held, sent, answered or asleep before a retry. `Dashboard` adds the ten
hooks, the tabs with what they mount, pages and filters that are part of a key, the
dialog of the address rules, mutations with their callbacks, and the browser's
network and window. A resource is a version that changes; a page of the cache may
be empty. `DashboardPage` is what each panel shows: a skeleton, an alert,
"nothing here" or rows. Whether data is older than `staleTime` is left open.

## 3. Runs

| Run | Checks | Instance | Result |
|---|---|---|---|
| `dispatcher` | accounting of `active_queries`, waiters, permits, every foreground query gets a reply, the loop implements `QueryService` | 2 client queries (one panics), 2 prefetches, one permit of each kind, limits 0 and 2 | holds |
| `cache_store` | exact bytes but for `clear`, budget kept, tasks end | 4 keys in 2 shards of capacity 2, sizes 1 and 2, budget 3, one inserting task, the loader, clear | holds |
| `cache_prefetch` | heap covers the eligible entries, no oversleeping | 1 key, batch and channel of 1, 2 worker permits (alike), load, clear, eviction, failures, no client queries | holds |
| `cache_prefetch_due` | an entry that comes due is taken into a batch | 1 key, batch of 2, channel of 1, 1 client, 1 worker permit, eviction, failures, no load or clear, longest sleep 3 | holds |
| `cache_persist` | the file decodes to what was written, checkpoints go on | 2 entries of 2 bytes and 1, lifetime 1, 2 writers, 2 inserts, evictions or reloads | holds |
| `ns_group` | no blackout, tasks make progress, lookups end, servers recover | 1 server, 2 lookups, 1 permit, threshold 2, cooldown 2, one retry | holds |
| `lookup_strategy` | addresses are served, no hasty end, the fastest is served, the loop ends, a lookup implements `LookupService` | 3 servers, 3 addresses, all modes, with and without filters | holds |
| `app_reload` | chain and client agree, the map of listeners is exact, a lone reload takes effect, handlers make progress, requests end, listeners settle | 2 overlapping requests and 1 after them, 4 addresses (2 of the API), 2 other configurations, 1 edit | holds |
| `dashboard` | confirmed changes are shown, made at most once, data never goes back, panels catch up and settle | 7 scenarios of 1 or 2 queries each | holds |
| `dispatcher_balance` | `StrictlyBalanced` | 3 client queries | violated |
| `lookup_masked` | `NegativeNotMasked` | 2 servers that only return errors | violated |
| `app_reload_moved` | `HotReloadServes` | as `app_reload` | violated |

Each runs in less than three minutes with four workers:
`tlc -workers 4 -config CacheStore.cfg MCCacheStore`.

### What holds

- **Dispatcher.** `active_queries` is at every moment the number of requests popped,
  batched, in a task that was not reaped, or lost (`ActiveQueriesAccounting`), so
  no subtraction wraps. A client that waits has its sender where the dispatcher
  will come back to it (`NoOrphanedWaiter`). Permits survive panics
  (`PermitsBalanced`). Each foreground query gets some reply (`ForegroundReplied`).
  To its callers the loop is the abstract service (`ImplementsService`): one reply
  per query, admission only within the limit, refusal only under one.
- **Store.** Only `clear` makes the byte counter drift (`BytesExact`). With a
  right counter, the budget holds whenever nothing is under way (`BudgetKept`), and
  `enforce_memory_budget` ends even with a wrong one (`TasksComplete`).
- **Prefetch.** No entry that still has to be prefetched falls out of the heap
  unless a `clear` removes its key (`HeapCovers`). The scanner never sleeps past
  the earliest key, unless keys were loaded or its last batch was full and left one that
  is due (`NeverOversleeps`).
- **Name servers.** A lookup finds the whole group skipped only within the probe
  interval of a failure (`NoBlackout`); whatever happens to a task brings it nearer to
  its end (`TaskProgress`), and every lookup and every detached task does end
  (`LookupEnds`); a server that works again stops being skipped (`Recovers`).
- **Strategies.** Once any server has sent addresses the client gets some of them
  and the `unreachable!` is unreachable (`AddressesServed`). Skipped servers do not
  end a lookup others still work on (`NoHastyEnd`). FastestIp returns an address
  no other measured one beats (`FastestServed`). The loop ends (`LoopEnds`). To its
  caller a lookup is the abstract one, whatever the strategy (`ImplementsLookup`): no
  response without addresses before one with, no error before a response.
- **Persistence.** In the middle of a save, after it and after a crash in it, the file
  decodes to exactly the entries written so far with the seconds they had left then,
  as long as no other writer had the file open and no write was cut short
  (`WhatWasWritten`); the first save that runs alone makes a mixed or torn file good
  again. Whatever file a start finds, the checkpoints of the cache in use go on
  (`CheckpointsGoOn`).
- **Reload.** The lock covers both stores, so chain and client are of one
  configuration (`HandlerMatchesClient`). While no runtime was dropped, what is in
  `listeners` serves its address (`RegisteredIsServed`), what serves is in it or about
  to be, or about to stop (`NoLeakedListener`), and in the end only what is in it
  serves (`ListenersSettle`), however two updates interleave. A request that met no
  other and reports success leaves everything in the configuration it loaded, its own
  rule included (`LoneReload`). No handler goes round in a loop (`HandlerProgress`) or
  waits for ever (`RequestsEnd`).
- **Dashboard.** What is shown as current after a confirmed change is not older than
  it (`FreshAfterConfirm`), except for replies that were on the way to a first load or
  a page left meanwhile, which `invalidateQueries` does not reach (`overtaken`). The
  server makes no more changes than buttons were pressed (`AtMostOnce`). Rows never go
  back to an older version (`NeverBackwards`). Polled panels catch up
  (`PolledCatchesUp`), no fetch stays paused in view of a connected user
  (`NothingStaysPaused`), no panel keeps its skeleton (`PanelsSettle`).

### Where the code and what is said of it differ

- `dispatcher_balance`: with all foreground permits taken, a batch is dropped, its
  clients get REFUSED, and its queries stay in `active_queries` for ever.
- `lookup_masked`: the negative answer of one server is overwritten by a later error
  of another.
- `app_reload_moved`: a reload through the API that moves the API to another port
  registers the new listeners with the runtime of the old one. When the old listener
  stops, that runtime is dropped, the new listeners go deaf, and as they stay in the
  map no later reload starts them again.

The lines and the quotations are in the findings of `PROJECT.json`. Five more
disagreements are stated in the modules beside the properties that hold, each with a
configuration under which TLC shows it:

| Configuration | Property | What happens |
|---|---|---|
| `DispatcherBackground.cfg` of `MCDispatcher` | `BackgroundProcessed` | a background batch that found no permit waits for the next request, which may never come; `app.rs:420` says "现改为始终处理" (now always processed) |
| `CacheStoreDrift.cfg` of `MCCacheStore` | `ClearResetsInStep` | an insert between the emptying of its shard and the reset of the counter is stored and not counted, and its eviction wraps the counter; `CHANGELOG.md:271` says "`clear()` 同步重置计数" (clear() resets the count in step) |
| `CachePrefetchRefresh.cfg` of `MCCachePrefetch` | `RefreshedWhenDue` | `is_in_prefetching` is never reset, so an entry is prefetched by the heap once and its later expiries are not; `dns_mw_cache.rs:581` says "堆驱动预取（`get_expired`）已在条目到期时刷新" (the heap refreshes an entry when it comes due) |
| `CachePrefetchBatch.cfg` of `MCCachePrefetch` | `CutIsTakenNext` | when a batch is full, the key that is put back is due, and the scanner then sleeps for `MAX_TTL`; `dns_mw_cache.rs:1110` says "下次再取" (taken next time) |
| `DashboardStats.cfg` of `MCDashboard` | `StatsPresent` | the first fetch of the statistics is paused before its retry: it is neither loading nor failed and has no data, which `stats!` at `page.tsx:347` says cannot be |

## 4. Bounds

Bounds are constants, named in the modules.

- `Req` in `Dispatcher`: each query is sent once; with one permit of each kind, four
  queries reach full semaphores, batches of one and two, late reaps, a panic that
  drops a neighbour, and reloads at every step. The theorems hold without the bound.
- `CacheStore`: three keys share a shard with two places and the budget is below its
  capacity, so that displacement and budget eviction both happen, an insert may need
  two evictions, and a wrapped counter empties the cache. `WORD = 16` is more than
  the sum of all sizes, as in the code, and small enough for a wrap to be seen. One
  inserting task races the loader; two inserting tasks differ from that only in where
  the bytes are added, and were out of reach together with liveness. The theorems cover
  any number of both.
- `CachePrefetch`: `MAX_WAITING` bounds the refreshes that wait for a permit.
  Lifetimes of one tick with a sleep of at most two or three tell before, at and after
  an expiry apart. A single key suffices to race the scanner with inserts, and with two items
  of it in the heap to fill a batch of one. In `cache_prefetch` the inserts that race are
  those of two refreshes, in `cache_prefetch_due` those of a client and a refresh; the
  theorems hold for any number of keys, clients and permits and any batch.
- `NameServerGroup`: streaks and ages are not told apart beyond the threshold and the
  cooldown. One server with two lookups shows the races on its atomics and its permit
  and keeps liveness checkable; the theorem covers any number of servers.
- `LookupStrategy`: three servers allow two to agree against a third; three addresses
  allow an alias to grow an answer. `MAX_ELAPSED` bounds the measured times. The
  theorems hold for any of them.
- `CachePersist`: `MAX_JOBS` writers at a time and `MAX_CHANGES` inserts, evictions and
  reloads together. An entry of two bytes can be torn and one of a single byte cannot;
  two writers overlap in every way, and a reload with a checkpoint of the old cache
  under way fits in. Crashes and restarts are not bounded. The theorems hold for any of
  these bounds.
- `AppReload`: two requests overlap and a third one follows (`After`), so that what a
  race left behind is met by a request that is alone. `MAX_EDITS` bounds the edits of
  the file. Of the two other configurations one exchanges a listener and turns the
  cache off, one moves the API. The theorems need none of these bounds.
- `Dashboard`: a behaviour follows the queries of one of seven scenarios, each with its
  tabs, whether network and window come and go, and its numbers of failing requests,
  changes and clicks; queries meet only through invalidation, which `Flush` and `Rules`
  have. `MAX_VERSION` bounds the changes of a resource, `MAX_PAGE` the pages. The
  theorems hold for any scenarios, filters and bounds.

Deadlock is not checked in `Dispatcher`, `CacheStore`, `AppReload` and `Dashboard`,
which rest when no client sends, inserts, asks or clicks; it is checked in the others.

## 5. Fairness

- `Dispatcher`: weak fairness of the loop and of the batch tasks. tokio polls a
  task that was woken, and processing ends because every upstream wait has a timeout.
- `CacheStore`: a started task is polled until it ends. The tokio `Mutex` of a shard
  is a fair queue, hence strong fairness of steps that need it. Nothing has to
  insert or clear.
- `CachePrefetch`: time passes, and scanner, worker and queries under way are polled.
  Clients need not come.
- `NameServerGroup`: time passes (strong fairness, because steps that take no time
  disable it), woken tasks run, and the tokio semaphore is a fair queue. Upstreams
  need neither answer nor recover; `Recovers` assumes that one works from some time on.
- `CachePersist`: a task is polled, the interval elapses and a blocking write ends or
  fails. Nobody has to insert, reload, end or start the process.
- `AppReload`: a handler that can go on does, a spawned shutdown runs, a cancelled
  listener leaves its loop. The lock of the cache is not held across anything that
  waits for another request. Requests and edits need not come, binds may always fail.
- `Dashboard`: the timers of polls and retries fire, requests are answered or fail, and
  the library's callbacks run. Users need not do anything, network and window need not
  come back; the properties that need it assume that they stay from some time on.
- `LookupStrategy` has no fairness. `LoopEnds` is a decreasing measure, and the check
  for deadlock adds that an event is always there to be taken.

## 6. Proofs

The proof modules are checked by TLAPS with its SMT, Zenon and LS4 backends. They assume
only the named assumptions on the constants, which TLC evaluates in every run of those
modules: `DispatcherAssumption`, `CacheStoreAssumption`, `StoreIsFinite`,
`CachePrefetchAssumption`, `PersistAssumption`, `GroupAssumption`, `StrategyAssumption`,
`ReplyAssumption`, `ReloadAssumption`, `FiniteAddrs` and `DashboardAssumption`. Beside the types of the
constants these say: names and tasks are finitely many, and the entries there is room for fit a `usize`
(`StoreIsFinite`); addresses to listen on are finitely many (`FiniteAddrs`); lifetimes are bounded, as `insert` caps them; a key is in one shard,
an entry has at least one byte, and the values that stand for "no file", "no entry" and
"does not decode" are none of the values they are told from (`PersistAssumption`, `ReloadAssumption`); the
versions suffice for the changes and clicks of a scenario (`DashboardAssumption`).

**DispatcherProofs.** None of the properties is inductive alone. `IInv` adds
`Structure` to them: what is left of a task is part of its members and nothing is
left of one that ended, the places a query can be in are disjoint and queues hold no
query twice, the local batches are empty outside of their part of the loop, and
everything counted is finite. Disjointness is what turns the accounting into sums of
cardinalities, and what makes two tasks different when one replaces its record.
There is a lemma per action and conjunct. From `IInv`:

- `ActiveQueriesExact`: `active_queries` is exact.
- `DispatcherTypes`: types, with the counter a natural number.
- `PermitsNeverLeak`: permits and running tasks add up.
- `WaitersAreHeld`: a client waits exactly as long as its sender is held.
- `LimitEnforced`: the action property of admission. The counter is at least the
  number of queries in flight, so the test on the counter bounds those.

`DispatcherImplementsService` is step simulation. From `IInv`
a query in flight waits for its reply and is in no queue, so the mapping puts every
query into one abstract state. Each action then has a lemma: `Send`, `Refuse`, `Admit`,
`Answer` move one query; a foreground batch without a permit, and a panic, are one
abstract `Drop` of what they give up; `SpawnBg`, `Reap`, `Release` and `Finish` are not
seen. Admission within the limit comes from `LimitEnforced`'s argument: the counter is
no less than what is in flight.

**NameServerGroupProofs.** `BlackoutInv` says of every lookup what it has received
and from whom it has still to hear (`Bookkeeping`), and that from its half-open check
on some server is open to it or will really be tried, unless one has just failed
(`WayThrough`). The difficult steps are those of others: a failure between the two
reads of `in_cooldown`, a reset by another lookup, and the passing of time.

- `BreakerInvariant`: `BlackoutInv` is invariant.
- `GroupTypes`: types; retry budgets and timers stay in range.
- `NeverShutOut`: `NoBlackout` for any servers, lookups, thresholds and timeouts with
  a probe interval no longer than the cooldown (5 s and 30 s in the code).
- `TasksRunOut`: `TaskProgress`. A place of a task weighs four times its retries and what
  is left of the attempt, so that a retry outweighs the attempt it starts, and each of these
  weighs more than the ticks of a query (`WorkLeft`). Together with the fairness of
  section 5 this is why `LookupEnds` holds; the types, retries and timers in range, are
  what keeps the measure a natural number.

**LookupStrategyProofs.** `IInv` adds to the properties where things come from
(`Sources`): every address under test or timed is one of a response that was kept, a
test is under way only if there is such a response, and FastestResponse goes on only as
long as no response has had an address. With `Counted`, every server is awaited or has
replied once. That `handle_strategy_result` finds the address and that
`most_frequent_ip` finds one if there is any rest on the least element of a set of
naturals (`SelectedIsGood`, `MostFrequentExists`). `ReplyAssumption` says that a server
sends addresses with NoError only; with a response that has another code and addresses,
FastestResponse would go on and might end with a later one that has none.

- `LookupServesAddresses`, `LookupNotHasty`, `LookupServesFastest`: the three safety
  properties, for any servers, addresses, filters, times and orders of arrival.
- `LookupLoopEnds`: an awaited reply weighs one more than there are addresses, so a reply
  outweighs the speed tests it starts and every event lowers the measure. It needs that
  there is an address at all: FirstPing starts one test for an empty answer as well.
- `LookupTypes`: types; no more replies than servers.
- `LookupImplementsService`: `ImplementsLookup`, by step simulation. `HeardResponses` and
  the lemmas before it say what a reply adds to what was heard; what each kind of
  result returns is then shown to be on offer (`SelectedOffered`, `ResponseOffered`,
  `ErrorOffered`, `UndecidedOffered`). A reply is `Hear`, with or without an end; a speed
  test that ends a lookup and a drained loop are `Decide`; a test that does not is not seen.

**CachePrefetchProofs.** `IInv` is `HeapCovers` with the shape of entries, heap, scan and
jobs, and is inductive: what matters is that each step which takes a key from one of
the places of `Tracked` puts it into another, or finds its entry not to be prefetched,
or marks it. There is a lemma per step of the scanner and of an insert. The sleep needs
an invariant of its own, `Reckoned`: what is known of the heap at each place of the scan
while nobody is about to wake the scanner. An item put aside is not due; when the loop
ends nothing in the heap is, as the item that ended it is the earliest and is put back;
hence the sleep computed from the earliest item suffices for all, and the time the batch
then takes to send is what `blocked` counts. An insert that pushes an earlier key is
about to notify, so that it ends the premise instead of breaking the conclusion.

- `NothingIsLost`: `HeapCovers` for any keys, lifetimes, clients, batch and channel, where
  TLC checks a single key.
- `SleepsNoLonger`: `NeverOversleeps`. The proof needs `unseen` to remember a full batch:
  without that the property is false as soon as more items are due than a batch holds.
- `PrefetchTypes`: types; the timer is bounded by `MAX_TTL` or by `MIN_INTERVAL`, which
  comes from the environment and may be the larger one.

**CacheStoreProofs.** What is stored is a sum over the keys, which the library adds up in
an order it chooses. The first part shows that the order does not matter: `SumChange` is
the sum after one value changed, `SumBound` bounds it, both from a minimal counterexample
among the finite sets (`SmallestSet`). The counter is exact modulo `WORD`: `DriftKept`
says that a step which changes the sizes, the counter and the bytes some task has still to
add by amounts that cancel keeps the difference, and each step is shown to do so. For the
budget, `IInv` adds `Watched`: if the counter is right and above the budget some task will
test it again, or is scanning and has evicted something or has a nonempty shard before it.
The difficult step is the end of a scan that evicted nothing: then every shard it has yet
to pass is empty, and what other tasks stored behind it they watch themselves.

- `StoreBytesExact`: only `clear` makes the counter drift.
- `StoreKeepsBudget`: with a counter that did not drift, the budget holds at rest.
- `StoreTypes`: types; no shard holds a key twice, or more than its capacity.

**CachePersistProofs.** `Laid(f, es, pos)` says that the file f is the encoding of the
entries es, one after the other, with entry n at cell `pos[n]`. `DecodeLaid` shows that
such a file decodes to es: `Decode` is a function defined by recursion on the position, of
which the proof first shows that it exists (`DecodeDefined`, one position after the other
from the end) and then that no last position is wrong. `WellWritten` is the rest of the
invariant: unless the file was opened over another writer only one has it open; unless a
write was cut short besides, the file is laid out as the entries written since, and that
writer is at its end, so that what it writes next is appended (`LaidAppend`). Truncation by
`Open` starts an empty layout, and a crash only removes writers.

- `FileIsWhatWasWritten`: `WhatWasWritten` for any entries, sizes and number of writers.
- `PersistTypes`: types; the shard a snapshot looks at exists, no lifetime is negative.

**AppReloadProofs.** `IInv` says who owns what. The lock is held by exactly one request,
from its acquisition to the store of the client (`LockHeld`), and chain and client
differ only between the two stores (`Agree`). A server is at any time in the map, or in
the hands of the one request that has just bound it, or doomed, that is cancelled or
handed to a spawned shutdown (`MapOK`, `BoundOK`, `DoomedOK`), and while the runtimes
are up only a cancelled server stops (`GoneOK`). That ownership is what carries the
properties through the steps of other requests: `Insert` over an entry that another
request put there meanwhile dooms the previous server, `Remove` takes whatever is in the
map now, not what was there when the difference was computed.

- `Invariance`: `IInv` is invariant.
- `LockKeepsPair`, `MapIsServed`, `NothingLeaks`: the three safety properties, for any
  requests, addresses and configurations and any number of edits.
- `TypeCorrect`: types.

`LoneReload` needs a second invariant, `LoneInv`: a request that no other one overlapped is
the only one at work, and has come as far as `Progress` says for the place it is at. It has
three parts. The rule it is about is in the text it will write, then in the file, in what was
loaded and in `cfg` (`Rewrote`); chain, client and cache have followed `cfg` as far as they
were stored (`Rebuilt`); the map holds the addresses of `cfg` but for those still to bind, the
one just bound and those that failed (`Rebound`). The lemmas about steps of other requests are
short, as there are none at work; requests that end or are aborted, edits and listeners that
stop are the ones to show harmless. The write needs that a file that is not there differs
from any set of rules (in `ReloadAssumption`), and that `Fill` finds the file as its own
`Truncate` left it.

- `LoneTakesEffect`: the action property `LoneReload`.
- `HandlersRunOut`: `HandlerProgress`. An address still to bind weighs two steps, its bind and
  its insertion; before the map is compared every address may be one. `Diff` is the step
  that needs this, and with it that addresses are finitely many (`FiniteAddrs`).

**DashboardProofs.** Most steps bring no data: `Keeps(q, p)` says that a query after such a
step has the data it had, takes nothing invalid for valid and has no reply on its way but
the one it had. Each operator of `QueryClient` other than `setData` is shown to do so, then
each action by those. The invariant says of a query that what it has, or has on its way, is
no newer than the server and that a reply is no older than the data it replaces (`Known`),
and, unless it was overtaken, that valid data and a reply on its way are no older than what
was confirmed (`Current`). The difficult step is `Succeeds`, which raises what is confirmed:
of each query of the resource either the data has become invalid and the fetch is a new one,
or a reply was on its way to a page that was left or had no data yet, which is what
`overtaken` remembers. For the mutations, what the server has applied and what it may still
apply are together no more than the clicks; that a mutation is known by its number makes the
latter a cardinality.

- `ConfirmedIsFresh`: `FreshAfterConfirm`.
- `MutationsAtMostOnce`: `AtMostOnce`.
- `RowsNeverBackwards`: the action property `NeverBackwards`. `DataStays` shows that only a
  reply that is taken and garbage collection change what a query has.
- `DashboardTypes`: types; the versions suffice.

Only model-checked: liveness (`ForegroundReplied`, `TasksComplete`,
`DueIsPrefetched`, `LookupEnds`, `Recovers`, `CheckpointsGoOn`, `RequestsEnd`,
`ListenersSettle`, `PolledCatchesUp`, `NothingStaysPaused`, `PanelsSettle`), which with
fairness and ENABLED is out of the prover's reach. Of `LookupEnds` and `RequestsEnd`
the decreasing measure is proved (`TaskProgress`, `HandlerProgress`), and left to TLC is that a
step is always taken in the end. The types of `NameServerGroup`, `LookupStrategy` and
`AppReload` are proved and not part of a run. The induction theorems of the library
take an operator, which the installed provers cannot instantiate; where a proof above needs induction over data it
takes a minimal counterexample instead, from the well-foundedness of the naturals or of
the subsets of a finite set.

## 7. Not modelled

Left out because there is no state that others depend on, or only I/O:

- Network protocols, TLS, the encoding of messages, record data: libraries and I/O.
- Speed checks: their outcomes are inputs of `LookupStrategy`.
- Statistics that only the web UI reads, logging, the texts of the API.
- The command line, service installation, the updater.
- The grammar of the configuration; domain maps, domain and address rules, the
  transformations of one answer (CNAME, DNS64, bogus NXDOMAIN, ipset): functions of one
  request and an unchanging configuration.
- Of the dashboard: layout, number formats, the theme, the drawer of small screens, and
  the hooks of `api.ts` no page uses.

Left out although a model would say something:

- The rest of the cache middleware: serve-expired, the fallback to an expired entry that
  was read before the upstream query failed, the test for the server group of an entry,
  the lifetimes of negative answers.
- Dual-stack selection: two lookups and two speed tests of one request under three time
  limits.
- The audit log: the channel that drops records when full, the writer that flushes every
  ten, the rotation of files by name.
- The limiter of new sockets, and the check of lease and hosts files by age.
- Of reload: HTTPS and HTTP/3 listeners as entries of the API, and a bind that fails at
  the start. Of the listeners: their accept loops and the idle timeouts of a connection.

Each of these is a component of its own in `PROJECT.json`, and where it has a hazard the
hazard is listed without a property.

## 8. Plan

1. `DualStack`: that a family is only suppressed when the other one answered, and that
   no client waits longer than the limits add up to.
2. `CacheMiddleware`, composed with `CacheStore`: an answer of another group is never
   returned, an expired one only when allowed.
3. `Audit`: order and loss of records, rotation never deletes the active file.
4. `LookupStrategy` composed with `NameServerGroup`, so that replies come from the tasks of
   the group instead of any reply at any time.
