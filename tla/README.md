# A formal model of proxysplit

proxysplit is an asyncio HTTP server that downloads a URL in byte-range chunks through
many upstream proxies at once and streams the body back in order. This directory holds
TLA+ models of it, the TLC configurations that check them, and TLAPS proofs of their
main safety properties for every value of the constants. `PROJECT.json` is the index:
which lines of `src/` each definition stands for, what each run checks, the mutation
that each property catches, the hazards, the disagreements found and the theorems.

    tlc -workers 4 -config MCProgressiveStream.cfg MCProgressiveStream.tla
    tlapm ProgressiveStreamProofs.tla

## 1. Inventory

One thread runs an asyncio event loop, so a step of a coroutine is what it does between
two suspensions. The only other threads are the executor's (disk cache, blocking
start-up work). Modules reach each other through module globals (`REGISTRY`, `BREAKER`,
`STATS`, `SESSION_POOL`, `CHUNK_SIZER`).

| Component | State | Operations | What makes it correct |
|---|---|---|---|
| Progressive stream `streaming/progressive.py` | gates, fetch semaphore, results, ready events, `_buf_bytes`, index of the write loop | one fetch task per chunk, race of chunk 0, write loop, abort, cancellation | in-order delivery without gap or repeat; memory cap accounted; no lost wake-up; no fetch left behind; it ends |
| Chunk fetch `fetchers/chunk.py` | attempt, current proxy, the shared retry budget | breaker check, attempt, retry, cancellation | retries are paid for; a banned proxy only as a last resort; it ends |
| Circuit breaker `circuit_breaker.py` | state, strikes, `open_until`, probe events | record, allow, release, list | CLOSED / OPEN / HALF_OPEN protocol, strikes follow state, one trial at a time |
| Statistics `stats/` | per-proxy counters, latencies, chunk size | record, evict, score, size of a chunk | the consecutive count that trips the breaker; sizes within bounds |
| Health checker `fetchers/health.py` | a list of expired bans | retest each | acts on current state, not on a stale list |
| Origin probe and whole fetch `fetchers/head.py` | HEAD requests under way; attempt and proxy of a whole fetch | probe, fetch, retry; both report to the breaker, only the second asks it | results decide trials as a chunk's do; a banned proxy only as a last resort; it ends |
| Registry `registry.py`, `handlers/admin.py` | the proxies, their tags (named pools) | add, remove, replace, reload, pick | picks come from the pool that is asked for |
| Range split `handlers/inner.py`, `session_pool.py` | ranges, assigned proxies | cut, distribute, rebalance, pick a rival | ranges divide the body; proxies aligned; rotation |
| Request handler `handlers/request.py` | a snapshot of the configuration | cache look-up, revalidation, time limit, store | never serves stale or foreign bytes as fresh |
| Caches `cache.py`, `disk_cache.py` | entries, sizes, expiry | get, put, validators, evict | size accounting, expiry across levels and restarts |
| Session pool `session_pool.py` | client sessions | get, invalidate, close | no session leaked or used after close |
| Rate limiter, pool breaker, dedup | tokens; state; futures | acquire; allow, record; join | rate bound; one probe; followers are independent |
| Tor manager `tor_manager.py` | processes, last NEWNYM | start, refresh, stop | cooldown kept; nothing left running |
| Tunnel and WebSocket relays | two directions | relay, close | no byte lost on close |
| Watcher, loader, server wiring | configuration, mtimes | reload, apply, shut down | the last configuration wins; clean end |
| Geo, hooks, metrics push, logging, shims | none that others read | I/O | out of scope |

A request flows: `request.py` (cache) -> `inner.py` (`resolve_content_info`, ranges,
`distribute_proxies`, budget) -> `_ProgressiveStream.send` -> one `fetch_chunk` per
chunk -> `record_success` / `record_failure` -> `STATS` and `BREAKER` -> the registry's
next pick. Before its chunks a request probes the origin through some proxies, and a
resource that cannot be cut is fetched whole; both use and change the same breaker. The
health checker and the administration endpoints act on the breaker and the registry at
any suspension.

What is hard: the stream's tasks, which wait on four different things (gate, permit,
buffer, result) while the write loop waits on them; results that are recorded long after
the decision they belong to, by callers of which some ask the breaker and some do not; a
list that is read once and worked off over many awaits; cancellation at any await; the
ends of the distribution window and of the rebalancing loops; entries that expire, are
evicted or replaced while a request awaits its body, the origin or the disk; two threads
with two commits per put, and a clock that starts again at boot; a pipe that sees only
one of two streams, and none while it waits for a slow reader; a circuit renewed under
the sessions in use. `PROJECT.json` lists each hazard at its line.

One fact stands before the rest: line 200 of `progressive.py` declares `_buf_bytes`
nonlocal in the function that owns it, which the compiler rejects (`SyntaxError`), so at
this commit the module cannot be imported. `ProgressiveStream` models the function
without that line; nothing else about it would have to change.

## 2. Modules

| Module | Models | Lines |
|---|---|---|
| `OrderedDelivery` | abstract: what a client is promised | 45 |
| `ProgressiveStream` | `_ProgressiveStream.send` after `prepare`, its cancellation included | 477 |
| `CircuitBreaker` | the breaker with the failure count that drives it; any caller, any time | 185 |
| `Registry` | proxies, named pools, picking, add, remove, reload, health checker; EXTENDS `CircuitBreaker` | 113 |
| `ChunkFetch` | `fetch_chunk` and the retry budget; EXTENDS `Registry` | 158 |
| `HeadFetch` | the HEAD requests of `get_head_info`, `fetch_whole`; EXTENDS `Registry` | 135 |
| `ProxyUse` | all of these at once over one breaker; EXTENDS `ChunkFetch`, `HeadFetch` | 193 |
| `RangeSplit` | Range header, `build_ranges`, `distribute_proxies`, pin, rebalancing, rival | 305 |
| `CacheTiers` | memory and disk cache as data types | 100 |
| `RequestCache` | the request handler over both; EXTENDS `CacheTiers` | 477 |
| `TokenBucket` | the rate limiter of one proxy | 171 |
| `Relay` | a client connection of the TCP front end: dispatch, tunnel, WebSocket, forward | 385 |
| `SessionPool` | one client session per proxy | 43 |
| `TorManager` | launch, circuit refresh and stop of Tor; EXTENDS `SessionPool` | 244 |
| `ProxyPool` | the server around them: start, registry, administration, fetches, end; EXTENDS `TorManager` | 157 |
| `SumLemmas` | what the proofs need of sums over finite sets | 398 |
| `*Proofs` | the theorems: stream, use of proxies, split, cache, bucket, pool, relay | |
| `MC*` | constants for TLC | |

**ProgressiveStream.** `pc[i]` is where the task of chunk i is suspended: at its `gate`,
queued on the semaphore (`sem`), fetching, waiting for buffer space (`bufwait`, then
`woken`), `done` or `cancelled`; chunk 0 is in `race` or `reap` when raced. `wpc` is the
write loop: awaiting `ready[w]`, in `resp.write`, cleaning up, closed. Each action is
the code between two awaits: `TryStore` is the locked body on lines 124-128 with what
follows it, `WriteDone` everything from the write's return to the next `await`. `plan`
holds the arguments of the stream. The content of a chunk is its index; its length
matters and is kept. `_buf_lock` never blocks across an await and is not a variable.
`fetch_chunk` is one nondeterministic outcome here. `Abort` is the cancellation of
`send()` while it awaits a chunk or a write (lines 190 and 197). It comes only from the
shutdown of the server: aiohttp does not cancel a handler whose client leaves, and
`request_timeout` does not reach `send()`. A cancellation during `prepare` finds no
task, and one during the clean-up cancels again what is being cancelled; neither is an
action. `CancelRace` is what the race task's handler and `finally` do to its two
sub-tasks then.

**CircuitBreaker, Registry, ChunkFetch, HeadFetch, ProxyUse.** The variables of
`CircuitBreaker` are the breaker's two dictionaries and `consecutive_failures`; times
become `elapsed`, a ban that has run out. Strikes are counted to `MaxStrike`, from where
the delay no longer grows, and failures to `Threshold`, beyond which only `>=` is asked.
An absent entry counts as CLOSED with no strike, which no operation tells apart.
`BreakerSpec` allows every operation at any time. `AllowRequest` in HALF_OPEN is
refused: `evt.wait` blocks the loop's own thread for 30 seconds, nobody can fire the
event, and the state read afterwards is still HALF_OPEN; the standstill itself, during
which not even the clock's other effects are seen, is an instant here. `Available` and
`Pick` of `Registry` take the pool that the request names: when it has no candidate
nothing is offered, whatever other pools hold. `HealthRound` takes the list,
`HealthPasses` and `HealthFails` work it off while everything else goes on. In
`ChunkFetch`, `Check` is lines 67-70, `Fail` an except clause with the pick that follows
it (with the failure already counted), `retry` the point between them and the next
check, at which nothing suspends (`LoopFree` keeps other coroutines out; only the clock
moves). In `HeadFetch`, `probing` counts the HEAD requests that a task has out through
each proxy (proxies repeat when the pool has no more than `head_retries`); each may fail
and be recorded, or end without a record. When a deadline cancels `get_head_info` its
HEAD requests go on as orphans, which is the same to the breaker as a task that is not
cancelled. The ranged GET of the second stage neither asks nor records. A whole fetch
without any proxy touches nothing that is modelled.

**RangeSplit.** `job` is everything that the split depends on; the loops are stepped one
turn at a time. Rebalanced sizes are any in `ScaledSizes`: the speed-based formula is
not modelled, only that it gives some size and a positive one (`SplitAssumption`; true
of the default `chunk_size_min`, not of 0). `header` covers satisfiable and
unsatisfiable ranges. Elements are 1-indexed where the code counts from 0. The pool is
the same throughout, because nothing in that stretch of `handle_inner` awaits.

**CacheTiers and RequestCache.** The memory store is a sequence of entries, least
recently used first; the table is a function from URLs to rows. A `copy` stands for a
response: the version of its content, whether it has a validator, its Cache-Control, and
when the tier that TTLs are counted from stored it. Each action of a request `r` is the
handler between two suspensions: `body` awaits the body of a POST, PUT or PATCH, `reval`
the origin, `disk` the executor, `inner` the download. The executor's threads (`worker`)
take jobs from one queue, may start them in either order, and hold `DiskCache._lock` for
the whole of a job. A put commits twice: the insert (`lock`), then the trimming
(`trim`), and the process may die, or sqlite fail, between them. `overrun` says that the
last trimming did not come to its end. `time.monotonic()` is `now - boot`, and a crash
may be a reboot: rows keep expiry times of the old clock. A trimming that fails is taken
to delete nothing.

**TokenBucket.** Time is in ticks and tokens are counted in the ticks they took to
collect, so that all is integer. A task that must wait sleeps with the lock (`holder`),
at least as long as it asked; it may oversleep or be cancelled, which hands the lock on.
`since`, `granted` and `slept` belong to an observer who may begin to count at any
moment. Removal of the proxy makes a new bucket; `set_global_rps` changes the rate that
later buckets start with.

**Relay.** A byte stream is the sequence of the numbers of its segments: the request
line, the headers, then payload. `inbox` is what the client has written and the relay
not read, `taken` what the dispatch has read (`combined`), `ugot` what the other end has
been sent; `outbox` and `got` are the other direction. Both peers write, half-close and
vanish at any time. `Bridge` starts the two pipe coroutines (`pumps`); `blocked` are
those in `await drain()` because the peer they write to does not read: such a pipe
neither reads on nor sees its own end of stream until the peer reads (`ClientReads`,
`OtherReads`) or is lost. The drains before the pipes run belong to the phases `open`
and `answer`, which nothing obliges to end. The WebSocket relay replays the request line
twice, which the model keeps.

**SessionPool, TorManager, ProxyPool.** `sessions` lists every `ClientSession` made,
`pooled` the one handed out for each proxy; `session[f]` is what a fetch holds.
`TorManager` has the thread that starts instances and the reader thread of each: an
`event`, an `error` and the announcement `booted` are set by one and read by the other
in the order of the code. A refresh asks all instances, each with a NEWNYM that may
fail, then drops the sessions of all, one per await. `ProxyPool` adds the registry:
`Reload` reads the sources and replaces the pool after its await, so an `/proxy/add` in
between is lost, as in the code. `Invalidate` closes a session under whoever uses it,
`InvalidateSync` leaves it to them.

## 3. Runs

| Run | States | Question |
|---|---|---|
| `stream` | 474 659 | Does a stream deliver in order, keep its accounts, leave nothing behind, and end, even when it is cancelled at any wait? |
| `stream_buffer_wait` | | Does a fetch that waits for space always get it? No: section 5. |
| `stream_race` | | Is the winner of a race always reported? No. |
| `stream_cancel` | | Does a cancelled race stop both of its fetches? No. |
| `proxy_use` | 195 148 | Do chunks, probes, whole fetches, health checks, administration and clock keep the breaker and the budget right, and does every fetch end? |
| `lost_probe` | | Is a proxy on trial always being tried? No. |
| `range_split` | 844 968 | Do the ranges divide the body, whatever the header, sizes, pin and pool? |
| `response_cache` | 313 189 | Is what the caches serve young enough and what the origin confirmed current, does the disk stay within its limit, and does every request whose body has come end? |
| `token_bucket` | 420 000 | How much does a bucket let through, at most? |
| `relay` | 57 321 | Do the bytes arrive once and in order, and are ends passed on between peers that read? |
| `websocket` | | Does the WebSocket relay bridge until a side closes? No. |
| `proxy_pool` | 1 760 000 | Are Tor processes accounted for, refreshed circuits used, sessions left alone under their users? |

**Bounds.** `stream`: five chunks are more than twice the largest prefetch (2), so the
window slides past its start-up stretch; one or two workers; buffers from less than a
chunk to more than a window; ranges that end short, or alternate. All 96 combinations
start in the same run, those that hang included, hence `CHECK_DEADLOCK FALSE`.
`proxy_use`: two proxies, of which one is in the named pool and one comes and goes; two
strikes tell a first ban from an escalated one; two attempts per chunk and per whole
fetch; a threshold of one, because the product of all else is large. `MCBounds` splits
that product into five scenarios of two fetches at a time: two chunks that contend for
one slot and for a trial while a proxy comes and goes; a chunk and a whole fetch under
the health checker; the health checker against add, remove and reload; a chunk, probes
and a whole fetch together; and fetches through the named pool while its tags change.
One request at a time has chunks, after which the next begins with the breaker as it is;
two chunks stand for two requests as well, except that they share a budget.
`range_split`: lengths to four, every header in it, three proxies in every available
subset, windows 0 to 2.

`response_cache`: the whole product of clock, content changes, crashes and requests is
too large, so `Bounds` holds three sorts of behaviour: four moments and three requests
for one URL, in which copies age through both tiers; two connections while the content
changes; two URLs, of which one does not fit on the disk next to the other, and a death
of the process. The memory holds one entry, so that any two URLs evict each other.
`MaxAges` is empty: all that matters there is one TTL per tier; the proof covers
max-age. `token_bucket`: rates of none, two tokens and less than one per second; three
tasks; two seconds. `relay`: four segments from the client are line, headers and two of
payload, so that something can be left in the inbox while something is under way; two
replies likewise. `proxy_pool`: two Tor instances and a static proxy; either two
fetches, administration and no refresh, or one fetch under two refreshes that overlap;
two sessions in each. Connections, pools and requests end, and the behaviours of the
bounded modules end with them: those runs do not check deadlock.

**Fairness.** `ProgressiveStream`: weak fairness of each task, of the semaphore, of the
race and of the write loop, and none of `Abort`. asyncio runs what is ready; a fetch is
bounded by its own timeouts and retries; a write ends with the client reading or
leaving. `ProxyUse`: strong fairness of each chunk and each whole fetch, for a step of
theirs is out of reach while another fetch is between a failure and its next check, and
the event loop, which runs what is ready in order, does not pass one over for ever;
probes, clock, health checker and operator owe nothing. `RangeSplit`: the loops go on.
`RequestCache`: weak fairness of each request's handler (every wait of it has a time
limit or is for a disk job, except that for the client's body, `request.py:170-171`,
which is not part of it) and of each disk thread. `Relay`: weak fairness of each pipe
and of `gather`; nothing obliges a peer to write, to read, to answer or to close. A peer
that stays and never reads keeps its tunnel for ever, so `EndIsPassedOn` is stated for
those in which no drain waits for ever. `TokenBucket` and `ProxyPool` state none and
have safety properties only.

**What the main properties say.** `DeliversInOrder` is the refinement of
`OrderedDelivery`: the client's chunks are 0, 1, 2, ... without a gap, and the stream is
complete exactly when all were sent. `BufferAccounting`: `_buf_bytes` is within the cap
and equals the bytes stored and not yet sent (a chunk that waits for space has been
fetched and is in no account, one for each worker); only the winner of a race is not
counted (`Uncounted`), so that after a race it falls short by chunk 0 at most.
`StreamEnds`: under `Sufficient` plans the stream ends. `Sufficient` is what makes the
back-pressure safe: with two or more workers the buffer must hold a whole prefetch
window, and then the cap never delays anyone; with a smaller buffer it can deadlock;
only with one worker does it work as meant. `PrefetchWindow` allows twice the prefetch
distance at the start and the distance after it. `OrphanOnlyOnAbort`: a race that ends
by itself leaves no fetch behind; one that is cancelled may leave the second.
`BannedOnlyAsLastResort`, `BanCutShortOnlyByHealthCheck` and `TrialDecidedByResult`
relate a ban to everyone who could end or ignore it. The first speaks of the moment an
attempt leaves its breaker check, and of the pool that its request names; a retry may
still be sent through a proxy that was banned while it waited for a slot, because
`fetch_chunk` does not ask again. `RangesDivideBody`, `ProxiesAligned` and
`NeighboursDiffer` are what reassembly and rotation count on. `ServedWithinLifetime`: an
entry promoted from disk to memory starts a new TTL there, so a copy may be a disk TTL
and a memory TTL old, and no older: the tiers hand it on once. `ConfirmedIsCurrent`:
what was captured before the await on the origin is what is served after it.
`DiskWithinLimit`: what the two threads, errors and crashes leave behind is trimmed by
the next put that ends. `GrantsBounded`: in any stretch of time a bucket lets through
its burst and twice its rate; the factor is there because the time a task slept is
credited once more when the next one refills. `RequestEnds` is about reaching the reply,
not about sending it. `BytesInOrder` and `EndIsPassedOn` are the two halves of a relay.
`FreshCircuitAfterRefresh`: the session of a Tor proxy is dropped after its circuit was
renewed, so nothing made afterwards runs over the old one. Every property has a mutation
of the code that breaks it; the mutated operators stand in the modules, marked
`Mutation`.

## 4. Proofs

TLAPS checks the following for all values of the constants (any number of chunks, any
plan, any proxies and pools, budgets, TTLs, threads, rates and segments), from the named
assumptions `StreamAssumption`, `BreakerAssumption`, `RegistryAssumption`,
`FetchAssumption`, `HeadAssumption`, `BoundAssumption`, `SplitAssumption`,
`TiersAssumption`, `RequestCacheAssumption`, `BucketAssumption`, `TorAssumption`,
`PoolAssumption` and `RelayAssumption`. Every invariant and every action property of a
passing run is stated by a theorem, and each liveness property has its safety half
proved.

- `ProgressiveStreamProofs`. `TypeInv` adds to the type that a running write loop is at
  a chunk. `PositionInv` (what was sent is 0 .. w-1) gives `StreamDeliversInOrder`.
  `ReportInv` (a task reports once, at its end) gives `FailsAtFirstBadChunkSafe`.
  `GateInv` (an open gate was open at first or is at most w) gives `PrefetchWindowSafe`.
  `RaceInv` (which sub-tasks run at each stage of the race task, and after it) gives
  `OrphanOnlyOnAbortSafe`. `QueueInv` (tasks pass their gates in index order, so that
  holders precede the queue and the queue precedes the gates) is what `StreamNeverStuck`
  needs. `NoLostWakeup` is inductive with the types. `BufferAccountingSafe` takes
  `CounterInv`: the counter is exact until chunk 0 of a race is stored, which nothing
  after it can make worse.
- `ProxyUseProofs`. `BreakerInv` is the type of the breaker, `ProbeEventMatchesState`
  and `StrikesMatchState`, which is inductive under arbitrary callers; `EscalationSafe`
  follows step by step. `StepOperations` says which of the breaker's operations each
  step of the program is; by it the program's behaviours are behaviours of `BreakerSpec`
  (`ProgramUsesBreaker`, a lemma, since the program is written with those operations),
  so the breaker's theorems hold with its callers. `CallerInv` (a running fetch has a
  proxy, lists and tags are of proxies) supports the map. `BannedIsLastResort`,
  `BanCutShortSafe` and `TrialDecidedSafe` need callers, registry and breaker together.
  `RetriesPaidSafe` takes `AttemptInv`, for a retry is paid before its attempt is
  counted.
- `RangeSplitProofs`. `SplitInv` says of each loop that what it has cut divides the
  bytes up to `cur` (`DividesUpTo`), and how the lists of proxies relate (`AlignInv`).
  `NeighboursDifferSafe` needs that the recent proxies are fewer than the available
  ones, so that the exclude set is never ignored.
- `TokenBucketProofs`. `GrantsBounded` is not inductive. `AccountInv` is the account
  behind it: grants times interval, plus the credit left, are at most the burst, the
  time up to `last` and what was slept; `SleeperInv` relates the sleeper's wait to its
  missing credit, and `SleptInv` says that sleeps do not overlap.
- `RequestCacheProofs`. `AgeInv` bounds the age of a copy in each place it can be in: a
  row, an entry in memory, a job, a request that was answered by the disk, a request
  served. `ServedWithinLifetimeSafe` follows for all TTLs, sizes, clocks and crashes. It
  needs that a request has at most one job (`OneJobEach`) and that the clock a job read
  is no later than now (`ClockRead`). `ConfirmedIsCurrentSafe` comes out of the same
  invariant; the type with the memory cache's bound and its one entry per URL
  (`DroppedKeeps`, `TouchedKeeps` and the like) supports both. `DiskWithinLimitSafe` is
  inductive with it. The model takes what a trimming deletes as a choice;
  `TrimmingPossible` shows that there always is one, the smallest set of oldest rows
  whose removal fits.
- `ProxyPoolProofs`. `LaunchInv` (a set event means an error or the announcement; a
  running process is listed or being waited for), `SessionInv` (a pooled session is for
  its proxy) and `CircuitInv` give `StartedIsBootstrappedSafe`, `NoStrayTorSafe` and
  `FreshCircuitAfterRefreshSafe`; `ClosedOnlyOnPurposeSafe` goes action by action.
- `RelayProofs`. `ForwardInv` says at each phase how far the client's bytes have got
  (`PassedUpTo(k)`: up to k passed on, from k + 1 waiting), `ReplyInv` the same of the
  reply, after the greeting. Lemmas on runs of segments carry `BytesInOrderSafe`.
  `BridgedWhileBothOpen` is inductive with the phases. `PipesInv` (who has ended has
  closed what the other reads from, who waits in a drain still runs) gives
  `PipesNeverStuckSafe`: after an end some pipe can move, or waits for a peer that is
  there and does not read.
- `SumLemmas`. The sums are those of `SumFunctionOnSet`. The library's theorem of
  induction over finite sets has an operator as its parameter, so the lemmas use a
  minimal counterexample: a sum is the number of elements of a set of units, and all
  else (changing one summand, monotony, the empty set) comes from what is known of
  cardinalities.

**The safety halves of liveness.** A liveness property fails when everyone waits, when
somebody goes round for ever, or when a scheduler never runs what is ready. The third is
what fairness excludes; of the first two, these are proved not to happen:

| Property | Nobody is left waiting | Nothing goes round |
|---|---|---|
| `StreamEnds` | `StreamNeverStuck` | `StreamMakesProgress` |
| `FetchEnds` | `FetchNeverStuckSafe` | `ChunksMakeProgress` |
| `SplitEnds` | `SplitNeverStuck` | `SplitMakesProgress` |
| `RequestEnds` | `LookupNeverLostSafe` | |
| `EndIsPassedOn` | `PipesNeverStuckSafe`, `ReturnsClosedSafe` | |

`StreamNeverStuck` is the argument for the back-pressure: under a `Sufficient` plan the
chunk that the write loop waits for fits into the buffer whenever its task needs it
(`NextChunkFits`). It rests on `WaitingInv` (who is at the semaphore is in its queue,
who is done has reported, the gates up to the write loop are open) and, with one worker,
on `SingleFile` (all before the chunk being fetched are done, so the buffer drains).
`StreamMakesProgress` gives a number that every step lowers, under any plan: a stream
makes finitely many steps and ends either closed or in one of the standstills of
section 5. `ChunksMakeProgress` bounds a chunk's own steps by three for each attempt; a whole
fetch, whose attempts are counted in the same way, has no number of its own here;
`SplitMakesProgress` takes a turn per byte and phase, because no piece is empty.
`LookupNeverLostSafe` says that a request awaiting the disk has a job in the queue or in
a thread's hands, and that some thread can move. The other two properties have no number
of that kind because their peers may go on at any time; there the cycles are excluded by
TLC only. The prover does not reason about `ENABLED`, so these theorems write out the
conditions of the steps (`CanMove`, `CanFetch`, `ClientPipeReady`, ...).

**Model-checked only**: the five liveness properties themselves, under their fairness,
on the bounds of section 3. The prover has neither `ENABLED` nor the rules for weak
fairness. The disagreements of section 5 are counterexamples that TLC found, not
theorems.

## 5. Where code and documents disagree

1. **A full buffer can stop a stream for good** (`stream_buffer_wait`). A fetch task
   waits for space inside `async with fetch_sem`. When later chunks hold all permits and
   fill the buffer, the chunk that the write loop waits for cannot be fetched.
2. **The winner of the race is dropped** (`stream_race`). Awaiting the cancelled loser
   raises `CancelledError`, which `except Exception` does not catch: `results[0]` and
   `ready[0]` are never set, and the stream hangs.
3. **A cancelled race leaves a fetch running** (`stream_cancel`). When `send()` is
   cancelled while chunk 0 is raced, the handler at lines 149-159 cancels the first
   sub-task and awaits it; the `CancelledError` that this raises passes `except
   Exception`, the `finally` clause ends in the same way, and the second sub-task goes
   on unless the set `pending` happens to yield it first. The comment there says "Ensure
   both sub-tasks are cleaned up before propagating", and `README.md:535` that both are
   cancelled and awaited, "preventing leaked tasks on stream abort".
4. **A trial without a probe** (`lost_probe`). A cancelled fetch, or one that gives up
   at the retry budget, reports nothing; its proxy stays HALF_OPEN and everybody who
   asks for it blocks the event loop for 30 s.
5. **A WebSocket is not bridged** (`websocket`). The relay reads its client from a
   stream of the bytes that the dispatch had peeked, ended by `feed_eof()`. Its pipe
   meets the end at once and closes the upstream; nothing the client writes after the
   handshake is sent.

Others that the modelling met, without a run of their own:

- **Bindings.** `proxy_server.main()` sets `proxy.cache`, `proxy.disk_cache` and the
  globals of the `fetchers` package, `circuit_breaker`, `session_pool` and `registry`,
  but `request.py`, `admin.py` and `fetchers/chunk.py` imported the values by name
  before that, and keep them: both caches look disabled to the handler and `fetch_chunk`
  has no session pool, although `session_pool.py:8` says that modules read the
  singletons at call time and `README.md:542` that the cache is wired. The modules model
  the handlers with everything bound as those lines intend.
- **A failed retest adds no strike.** `record_failure` ignores an OPEN proxy
  (`circuit_breaker.py:58`), and those that the health checker retests are OPEN
  (`health.py:140`), although `README.md:317` says that "on failure they receive another
  strike". One call shows it; `RetestFailed` does what the code does.
- **A pin holds only at the assignment.** `fetch_chunk` picks another proxy when the
  breaker refuses the pinned one (`chunk.py:68`) and, with `chunk_proxy`, on every retry
  (`chunk.py:125`, `137`); the rival of a raced chunk 0 (`inner.py:261`), the HEAD
  requests and the ranged GET are picked without the pin as well. `README.md:100` and
  `:564` speak of pinning all chunks to one specific proxy.
- A retry asks the breaker before it waits up to 30 s for its slot, and not again
  (`chunk.py:67-91`).
- `set_global_rps` leaves existing buckets as they are; `README.md:524` calls
  `proxy_rps` live.
- A copy that the program stored itself has no ETag or Last-Modified, for the headers
  are not handed to `put`: the conditional request of `README.md:297` is only made for
  rows of another version. Partial and failed responses are stored under the URL as
  well.
- `request_timeout` ends the building of a response, neither the wait for the client's
  body before it (`request.py:170-171`) nor its sending (`README.md:31`).
- A peer of a relay that stays and stops reading keeps both connections open, even when
  the other side has gone.
- On a plain forward the server's end of stream is not passed to the client.
- A Tor instance that fails to start leaves those before it running.
- The watcher misses an edit made before it first reads the file's time.
- `dedup.py` and `pool_breaker.py` have no callers, though `README.md:344` calls the
  first automatic; nothing reaches `SESSION_POOL.close_all`.

## 6. What is left

The plan was stream, breaker and fetch, split, caches, bucket, relay, sessions with Tor
and pool; that is done. What could follow, in this order:

1. `Assembly`: the non-streaming path of `handle_inner`, with `fetch_chunk` under a
   semaphore and the size checks, refined to the same `OrderedDelivery`.
2. The watcher's polling against edits, with the settings it applies.
3. The speed arithmetic of `per_proxy_chunk_size` as lemmas on its bounds.

## 7. Not modelled

Header formatting, logging and statistics that nothing decides on; the outcome of a
network operation, which is a choice; DNS, TLS and the proxies themselves; the ranged
GET of the head probe, which asks and records nothing; geo look-ups, hooks and metrics
push, which keep no state that others read; several processes. Proxy weights only narrow
a choice the models leave open. `dedup.py` and `pool_breaker.py` are not modelled
because no code of the repository calls them; `invalidate`, `clear`, `vacuum` and
`close` of the caches for the same reason. The chunk sizer is floating-point smoothing
whose result is any size in `RangeSplit`. Tor's cooldown between two signals is left
out: a refresh may come at any time in the model, and that two of them read the cooldown
before either records its signal (`tor_manager.py:114`, `132`) is neither shown nor
refuted.
