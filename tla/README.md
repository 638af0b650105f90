# cachekit: TLA+ models, model checking and proofs

cachekit is a Python decorator that caches function results in up to two tiers: L1 in the
process, L2 in a shared backend (Redis, cachekit.io, files, memcached). This directory holds
TLA+ models of its core, the TLC configurations that check them on small instances, and
theorems proved with TLAPS for every instance. Paths below are relative to
`src/src/cachekit/`.

## 1. Inventory

| Component | State it keeps | Operations | What is hard about it |
|---|---|---|---|
| Object cache (`object_cache.py`) | ordered dict of entries, byte counter, generation counter, in-flight refresh markers | `get`, `get_with_swr`, `complete_refresh`, `cancel_refresh`, `put`, `delete`, `clear`, eviction | refreshes that come back late; removal on many paths, each of which must keep counter, order and markers together |
| L1-only mode (`decorators/wrapper.py`, `backend=None`) | refresh slots, `_cached_keys`, pid of the slots' owner | lookup, background refresh (thread or task), miss path, `invalidate_cache`, fork | a slot and a marker per refresh, to be returned once on every exit, from threads and tasks that may never start |
| L1 byte cache (`l1_cache.py`, `L1Cache`) | ordered dict, byte counter | `get`, `put`, `invalidate`, `clear`, `cleanup_expired`, `_evict_for_space` | replacing a held key under memory pressure; a cleanup thread with an old clock |
| Read-through, async (`decorators/wrapper.py`, `async_wrapper`) | L1 per process, L2, distributed lock, `_cached_keys` | call, `ainvalidate_cache` | awaits between reading, locking, computing and storing; every one of these steps may fail; which exception came from where |
| Circuit breaker (`reliability/circuit_breaker.py`, guards in `decorators/orchestrator.py`) | state, failure and success counters, trial counters, time of the last failure | `should_attempt_call`, `call` results, `reset` | results of calls admitted in an earlier state; recovery |
| Backpressure (`reliability/load_control.py`) | queue depth, semaphore | `acquire()` | every exit must return what was taken |
| Redis backend (`backends/redis/`) | connection, lock at the server | `get`, `set`, `delete`, `acquire_lock` | lease, wait time-out, failing release |
| Cache handlers, invalidator (`cache_handler.py`) | backend reference, deployment UUID | envelope around a value, reads, writes, streamed writes, deletes, reaction to entries that do not decode | errors that are to read as misses; what a failed read may delete |
| Serializers, encryption, presets (`serializers/`, `config/`) | keyring, tenant, the deployment UUID file | serialize, seal, open, decode; resolve and validate a configuration | fleets in which processes differ: rotated keys, other presets, other serializers; damaged bytes |
| L2 stale-while-revalidate (`decorators/wrapper.py:668-850`) | revalidation slots, keys in flight, pid of their owner | stale hit, scheduling, revalidation | as L1-only mode, with a lease at the server and a storage cap |
| CachekitIO backend (`backends/cachekitio/backend.py`) | HTTP session, lock ids | `get`, `set`, `delete`, lock endpoints | leases that expire while their holder runs |
| File backend (`backends/file/backend.py`) | a directory, temporary files, an RLock per process | `get`, `set`, `set_streaming`, `delete`, `exists`, `get_ttl`, `refresh_ttl`, eviction, startup clean-up | several processes ordered only by the file system; death at any point |
| Asynchronous metrics (`reliability/async_metrics.py`) | mode, bounded queue, worker thread, batch, pool of dicts | `record_*`, automatic change of mode, flush, shutdown | reuse of dicts across threads; queue at its limit; failures in the middle of a flush |
| L1 cache manager (`l1_cache.py`, `L1CacheManager`) | namespaces, cleanup thread | get, start, stop | start/stop race |
| Memcached backend, pool monitor, health, sessions, statistics | adapters, counters, context variables | | little or no shared state |
| Key generation, logging | none that changes over time | conversions | pure code, no behaviour over time |

How they interact: the decorator consults the breaker, then L1, then L2 through the handler
and the backend; on a miss it takes the backend's lock, looks again, runs the function, and
stores in L2 and L1. A result is reported to the breaker. Backpressure wraps the backend
operations. What goes to L2 is the envelope the handler builds with a serializer and, if asked
for, the encryption wrapper; what comes back is decoded by whatever configuration the reader
has. Invalidation goes to L1 and, synchronously, to L2. Refreshes of L1-only mode and
revalidations of stale L2 entries run on threads or tasks the caller does not wait for. `PROJECT.json` lists, per line, what in this
is hard to test ("hazards") and the property that would notice.

What makes each correct, in one line:

- object cache: it never serves anything but the latest write of a key, stays in its bounds,
  and refreshes an entry at most once at a time;
- L1-only mode: slots and markers are conserved, invalidation reaches all live entries,
  every refresh ends;
- L1 byte cache: it never serves anything but the latest write it took and stays in its budget;
- read-through: one process computes, others use its value; invalidation sticks; cache
  failures are not the caller's problem; no call hangs;
- breaker: fails fast, tests the backend with few calls, closes on evidence, recovers;
- backpressure: bounds the load, loses no capacity, makes nobody wait forever;
- envelope: a reader serves what was stored and nothing else, fleets in transition read each
  other's entries, encryption is what the decorator asked for, evidence is kept, damage heals;
- L2 stale-while-revalidate: slots are conserved, a key is revalidated once at a time and never
  blocked for good, the lease has one holder;
- file backend: a path leads to a whole, latest value or to nothing, through crashes and races;
  the directory stays below its limit;
- metrics: a metric is counted once or its drop is reported, and none waits forever.

## 2. Modules

| Module | Models | Composes |
|---|---|---|
| `LossyCache` | abstract: what any cache tier promises. Per key it holds the latest write or nothing, and may lose it at any time | |
| `ObjectCache` | `object_cache.py`, one action per public method | refines `LossyCache` |
| `L1OnlyMode` | the decorator with `backend=None` | extends `ObjectCache` |
| `L1Cache` | class `L1Cache` of `l1_cache.py` | refines `LossyCache` |
| `ReadThrough` | `async_wrapper` with a backend, the handler's and the Redis backend's outcomes, `ainvalidate_cache` | L1 and L2 as single lossy slots |
| `Serializers` | what each serializer writes and makes of damaged bytes, as operators | |
| `Envelope` | presets, handler, encryption wrapper and keyring, driven by sync calls of several processes | extends `Serializers` |
| `StaleRefresh` | L2 stale-while-revalidate of both decorators over the CachekitIO backend | |
| `FileBackend` | class `FileBackend`, one directory and several processes | refines `LossyCache` |
| `AsyncMetrics` | class `AsyncMetricsCollector` | |
| `CircuitBreaker` | breaker and the three guards that use it | |
| `Backpressure` | `BackpressureController.acquire` | |
| `OrderedDict` | the order of Python's OrderedDict: `move_to_end`, deletion (external) | used by both caches |
| `MC*` | constants and symmetry for TLC | |
| `DataTheorems` | facts about finite sets, sums and orders that the proofs share | |
| `*Proofs` | theorems about the module of that name; `ObjectCacheProofs` covers `L1OnlyMode` too, `ReliabilityProofs` covers `CircuitBreaker`, `Backpressure` and `AsyncMetrics` | |

**ObjectCache.** `oc` is the state under `_lock`: `store`, `order` (the OrderedDict's order),
`bytes`, `marks` (`_refreshing`). Methods run under the lock, so each is one action. `tokens[a]`
is the version an actor got from `get_with_swr` and will pass to `complete_refresh` or
`cancel_refresh`. Values are abstracted to their size and to a ghost: `epoch[k]` counts the
stores and invalidations of `k`, and an entry's `asOf` is the epoch its value belongs to; so
"a late refresh brought an old value back" is `asOf # epoch`. Hit and miss counters are left out.

**L1OnlyMode.** An actor is one call together with the refresh it may leave behind. Phases
follow the code between two points where another thread or task can run: reserve a slot, copy
the arguments and start, run the function, complete or cancel, release. `inv` is an
`invalidate_cache()` in progress: on threads, the delete and the discard of a key are separate
steps; with an event loop (`IsAsync`) they are one. `kind` is chosen in the initial state.
The lookup, the reservation and the scheduling of an async call are separate steps although one
event loop would not interleave there (several loops on several threads do): the model has more
behaviours than one loop. `Faults` names what may befall a refresh: a task cancelled before it
starts, `SystemExit` on the thread, a fork. The ghost `lost` records the slots and refreshes that
go with them; without it the properties would be false, see "Known behaviours" below.

**L1Cache.** `memory` is `_current_memory_bytes`, as the code keeps it, beside the sizes of the
entries really held. `CleanupExpired(when)` takes the clock reading made before the lock.
The ghost `doubled` is set by a put whose eviction loop counts the entry it replaces out again.
A put whose lifetime the TTL buffer uses up changes nothing but counts as a write of its key
(`SkipShortLived`); the ghost `skipped` holds the keys whose latest put was such a one, and whose
older value, if there is one, goes on being served.

**ReadThrough.** One key, several processes with several tasks. A call's `phase` changes at
each await; the effect of an operation in the thread pool and the resumption of the task are
two steps. `entry` and `version` are what the task has in hand, `locked` how the lock went,
`runs` how often the function ran for this call. The function's value is the version of the
data at the moment it runs. `Faults` is the set of things that may go wrong: an open circuit, a failing read,
write, delete, lock (with or without a wrapped exception: the code tells them apart),
release, a wait that times out, a lease that expires, a crash, a function that raises a
BackendError, a hit the server calls stale. A stale hit answers its caller and leaves the task
behind as the revalidation (`Answered`): it takes the lock without waiting (`Lease`), runs the
function and stores in L2 and L1, without tracking the key. At most one per process is under way
(`Revalidating`); how they are scheduled, and the sync variant without a lease, are `StaleRefresh`'s
subject. `floor`, an L1 entry's `source` and `by` (a call's store or a revalidation's) and a call's
`misread` (its function's own BackendError was taken for a lock failure) are ghosts.

**CircuitBreaker.** `setup`, chosen in the initial state, says who asks: `should_attempt_call()`
itself, the sync decorator or the async one, whose guards only read the state; and whether some
errors are excluded. `trials` are the admitted test calls not yet back; a result is recorded in
whatever state the breaker is in by then. `trials` and `wins` are ghosts, `healthy` is the backend.

**Backpressure.** One phase per point of `acquire()`; a BaseException may end a wait, or
arrive just after the permit was taken.
The ghost `stranded` counts the places and permits such an interrupt leaves taken.

**Serializers, Envelope.** An entry is the header it carries (serializer, type, encrypted or not,
tenant, key), its frame, which says where a checksum is, who wrote it, and which part of it has
been damaged since (`Parts`): the payload, the frame as a whole, so that it does not parse, or a
field of the header so that it still does: the serializer's name (another one, or none, which the
code accepts as right; a header without a format fails as one with another name), the type, the encrypted flag, the tenant, the fingerprint. The header has
no checksum; what a changed field leads to is followed through the code. Another tenant in the
header has the effect of damaged ciphertext, and is not a case of its own. `Decode` gives the set of outcomes a given process can have with
it: the value, a wrong value without an error ("garbage"), or one of the exceptions the code
tells apart (authentication, corruption, suspicious header, other). `cfg[p]` is what `Resolve`
makes of a decorator and an environment, if the code's validations accept it; two processes with
different `cfg` are a deployment that has reached one of them. Only pairs with the same cache key
meet (`get_cache_key`). `Boot` and `Generate` are the race for the deployment UUID file. A call
reads, then deletes what it has to, then computes and stores, as steps another process can come
between; any of them may fail. AES-GCM and the hashes are external: a payload opens with the key
and tenant it was sealed with, whole, and not otherwise. `seen` is a ghost.

**StaleRefresh.** A job is a call and the background refresh it may leave behind. On an event loop
the check for a key in flight, the slot and the registration are one step (`Claim`); on threads
they are two (`Check`, `ClaimChecked`). A cancelled task leaves its write running in the thread
pool (`late`). `lease` is what the server knows; `expired` marks a holder whose lease timed out.
Time is left out: an entry may turn stale or go, and a lease expire, at any moment. A fork swaps
a process for its child, with its parent's keys in flight, slots and pid. Values, L1 and the miss
path's lock are `ReadThrough`'s subject. `lost` is a ghost.

**FileBackend.** `dir[k]` is the file behind a key's path; its `version` is both its content and
its inode. Operations of one process exclude one another (`ProcFree`); those of different
processes interleave between open, read and unlink, and between write, rename, scan and each
unlink of an eviction. A scan takes its totals and its listing together, which the code does in
two passes over the directory. `fault`, chosen in the initial state, is what may go wrong beside
failing writes: a damaged header, a crash, an exception that `set` does not catch (a
KeyboardInterrupt, or the BackendError of the file lock; `Interrupt`), an `os.write` that writes
less than all (`Commit`), files that cannot be removed. `orphans` are the temporary files left
behind. `latest`, `owed` and a file's `whole` are ghosts.

**AsyncMetrics.** Metrics are numbered so that each can be followed. `dict[b]` is the metric a
pooled dict describes at the moment, so that a dict reused too early overwrites a metric in the
model as in the code. The worker's loop is split where another thread can act: take from the
queue, group, hand to Prometheus. `UpdateFails` raises in the middle of a flush; the model follows
both places where the code catches it. A change of mode is split as the code is, with no lock
anywhere: the check, the write of `_sync_mode`, the check for a queue, its creation, and the start
of the worker (`CheckMode` to `StartWorker`), so that two threads may make two queues and two
workers. `orphans` are the dicts in a queue that was replaced; who looked at `_queue` before the
replacement may still put there or take from there. `fate` and `queues` are ghosts.

In every module a definition whose comment begins with "Mutant" is a broken variant of the
definition after it, used to make sure that the properties notice the difference. It is used nowhere else.

## 3. Runs

`tlc -config X.cfg MC<module>` for each `.cfg`. Runs that pass:

| Run | Shows |
|---|---|
| `ObjectCache` | entry and byte bound, exact accounting, one refresh per entry, no resurrection, refreshed entries survive their own eviction, only expired, then least recently used entries are evicted, refinement of `LossyCache` |
| `L1OnlyMode` | for sync and async functions: slots and markers are conserved, invalidation reaches all live entries (async), a forked child starts with all slots, every flagged refresh ends |
| `L1Cache` | exact accounting until a replaced entry is counted out twice, from then on a counter that errs on one side; LRU order; refinement of `LossyCache`, but for keys whose latest put was skipped |
| `CircuitBreaker` | for all guards: trials are limited and closing is earned; with `should_attempt_call()` and enough trial requests, recovery |
| `Backpressure` | counters exact up to what interrupts strand, load bounded all the same, every request ends, room is made again |
| `Envelope` | for compatible pairs of 11 decorators in 2 environments, with damage to the payload, the frame or a field of the header: encrypting readers serve only what was sealed, those that check integrity no damaged payload (but for auto's MessagePack), undamaged entries are readable across rotations and the UUID race, encryption is what was asked for, a fail-closed reader never removes what it saw, damage heals |
| `StaleRefresh` | slots accounted for, one revalidation per key in a loop, one holder of a lease, stale windows within the cap, no key blocked for good |
| `FileBackend` | refinement of `LossyCache` by the whole values, through crashes, interrupts, short writes and races of two processes; a temporary file belongs to a write or is an orphan; a reader's clean-up is confined, expired entries stay dead, overlapping evictions make room |
| `AsyncMetrics` | until a flush fails or a queue is replaced, no dict is in two places, every metric is counted once and queued metrics get counted; overflow is reported in any case |
| `ReadThrough_herd` | without failures no computed value replaces a live one |
| `ReadThrough_faults` | with every fault: the function runs once per call, invalidations stick, what calls put in L1 stays tracked, every call ends |

Properties that are one promise seen from several sides are checked as one conjunction of named
parts, with the module's type invariant as its first part: `BytesAccounted` (`ObjectCache`,
`L1Cache`), `RefreshesAccounted` (`L1OnlyMode`, `StaleRefresh`), `CapacityAccounted`,
`EntriesAsAsked`, `MetricsAccounted`, and `EvictionKeepsRecent` for the eviction order. TLC names
the part that fails if it is listed by itself. The type invariants of `CircuitBreaker` and
`ReadThrough` are theorems (section 4) and not checked again.

A run in which TLC finds the code doing other than a doc or comment says (quoted in
`PROJECT.json`, "findings"):

| Run | What happens |
|---|---|
| `CircuitBreaker_orchestrator` | the decorators' guard never leaves OPEN |

Six more disagreements of this kind are stated in the modules and not kept as runs of their own.
To see the trace, add the definition to the `.cfg` named:

| Definition | `.cfg` | What happens |
|---|---|---|
| `MemoryBounded` | `L1Cache` | replacing a held key can subtract its size twice (`l1_cache.py:212`); L1 then exceeds its budget (`:42`, "Memory bounded") |
| `RecoversWhenHealthy` | `CircuitBreaker`, with `HalfOpenRequests` below `SuccessThreshold`, as the defaults are, and `Setups <- Plain` | HALF_OPEN is never left (`reliability/circuit_breaker.py:285`, `:36`) |
| `OnlyFuncErrors` | `ReadThrough_faults`, without the fault "open" | a connection error of the lock reaches the caller (`decorators/wrapper.py:1843`; `docs/features/distributed-locking.md:146-149`) |
| `RespectsRedisTtl` | `ReadThrough_herd` | a late L2 hit gives L1 a full lifetime (`decorators/wrapper.py:1651`; `l1_cache.py:41`) |
| `AllTracked` | `ReadThrough_faults` | what a revalidation stores in L1 is not tracked (`decorators/wrapper.py:768`), so `invalidate_cache()` does not reach it in a process that only saw stale hits; `docs/features/l1-invalidation.md:181` says it "clears every cached entry this process has written" |
| `EveryChecksumCounts` | `Envelope` | a failed checksum is swallowed by the auto serializer's fallback for old entries, and the bytes are decoded all the same (`serializers/auto_serializer.py:599`; `cache_handler.py:342`) |

`NothingOrphaned` in `AsyncMetrics` is of the same kind, though no line of the repository claims it:
two threads that switch to async mode together make two queues, and what is in the first is lost.

### Known behaviours

The models follow the code in these, and the properties are stated around them, by a ghost or
by what they speak of:

- a refresh task cancelled before its first step keeps its slot and its marker, and
  `SystemExit` on a refresh thread keeps the marker (`lost`; `decorators/wrapper.py:940`, `:959`);
- a forked child inherits the markers of refreshes it does not run (`lost`);
- on threads, a store between an invalidation's delete and discard ends up untracked, so
  `LiveKeysTracked` is about async functions (`decorators/wrapper.py:1949`);
- a request interrupted while it waits stays counted, one interrupted after its permit was taken and
  before `acquired` was set keeps that too (`stranded`; `reliability/load_control.py:163-186`);
- a put whose lifetime the TTL buffer uses up leaves the entry L1 already holds
  (`l1_cache.py:182`), and that older value is served until it expires (`skipped`);
- a single-key invalidation whose L2 delete fails is only logged, and the key is no longer
  tracked (`cache_handler.py:1746`);
- failures add up across successes, they need not be consecutive to open the circuit;
- an open circuit makes the async decorator raise rather than run the function
  (`decorators/wrapper.py:1498`), so `OnlyFuncErrors` is not claimed with the fault "open";
- a value computed before an invalidation may be stored after it; `InvalidationSticks` is about
  invalidations with no call in flight;
- a BackendError raised by the function itself may be taken for a lock failure, and the
  function runs a second time (`misread`; `decorators/wrapper.py:1850`); the sync decorator does
  the same (`:1384-1397`);
- envelope: a frame that does not parse is a ValueError, which reads as a miss and is neither
  counted nor evicted (the store after it heals the key); a header that was changed and still
  parses is believed where the entry is not encrypted, so that with another `original_type` auto may
  serve a dict for a DataFrame although integrity checking is on (`serializers/wrapper.py:137`,
  `serializers/auto_serializer.py:594`); a refused keyring is logged and the
  function runs uncached; a reader without a key evicts encrypted entries of others; the delete
  after a failed read goes by key and may take a fresh entry; the integrity flag is part of the
  cache key; in interop mode an encrypted entry names no tenant, so a UUID has to be configured;
- L2 revalidation: a task cancelled before its first step keeps its slot and its key (`lost`;
  `decorators/wrapper.py:770`); on threads two stale hits may both start one; sync
  revalidations take no lease; a revalidation fills L1 without tracking the key (`:768`, `:804`;
  the stores of the miss path track it, `:1794`, `:1876`);
- file backend: `set` ignores how much `os.write` wrote, and a value cut short is committed
  (`backends/file/backend.py:357`; `:322` promises a BackendError): such a file is not `whole`, and
  counts as nothing held; `set` removes its temporary file on OSError only (`:373`), so that a failed
  file lock or a KeyboardInterrupt leaves it, which `set_streaming` does not (`:476`); a file
  that cannot be unlinked is passed over by an eviction (`:973`; `owed`); eviction is by time of writing, not of use; `lock_timeout_seconds` is not used,
  the lock is asked for with LOCK_NB; a reader's unlink goes by path and may remove the fresh
  file of another process; a process that dies between rename and eviction leaves the directory
  full until the next write (`owed`); at the second of expiry `get` serves an entry that
  `get_ttl` takes for expired; the start of a process may remove the temporary file of a stream
  that has run for longer than the age limit, whose commit then fails;
- metrics: between the change of mode and the creation of the queue `record_*` raises
  AssertionError on other threads; after a change to sync mode and back the worker is gone;
  what is queued at shutdown stays there; a flush that fails in the loop's try block keeps a
  batch whose dicts are already in the pool (`NoDictShared` and `Conserved` stop there), one that
  fails elsewhere ends the worker; two threads may both create the queue, the worker of the first
  goes over to the second and what the first queue holds is neither counted nor dropped
  (`reliability/async_metrics.py:418`; both properties stop there too); a counter or histogram
  whose labels have changed raises ValueError to its caller in sync mode.

### Bounds

- Two actors, users or tasks are what a race needs; three where a third can disturb two
  (breaker trials, herd). Two processes: the one that acts and any other.
- Two or three keys: enough for an LRU order and a victim other than the key at hand.
  Sizes include one that fills a cache by itself and one that does not fit.
- `MaxTime`, `MaxGeneration`, `MaxWrites`, `MaxVersion` cap clocks and counters that otherwise
  grow. They exceed the lifetimes used, so that entries expire, and allow a key to be written,
  refreshed and invalidated within one another. Lifetimes of one and two ticks, with a buffer
  of one, give the cases expired, stale and fresh.
- Breaker: thresholds of two tell "one failure" from "enough", elapsed time saturates just
  above the time-out.
- In `L1OnlyMode` the cache holds one entry at a time, so that each store evicts the entry
  another actor may be refreshing, and one slot, so that the second refresh finds none.
- `Envelope`: one key and two processes, since an entry meets one writer and one reader at a
  time; the decorators cover every preset but `dev` and `io`, which resolve as `production`
  does, every serializer and kind of value, key rotation, tenants, interop and fail-closed; one
  damage, of any part. Of the pairs those in which auto packs something else than a DataFrame are
  taken in the environment with keys only, and the `test` preset in the one without (`Chosen` in
  `MCEnvelope`), which keeps the run to minutes; the theorems have all pairs.
- `StaleRefresh`: two calls in one process race for slots and keys, one in another for the lease;
  one and two slots; a ttl below, above half of and at the cap; one cancellation or fork.
- `FileBackend`: two threads in one process or in two; two entries fill the directory, by number
  and by size, so that every second commit evicts; two commits or deletes in all. The
  capacity check before a write never refuses with two keys, as the eviction keeps one free.
- `AsyncMetrics`: a queue and a pool of one, so that both overflow, batches of two, so that one
  is left over, three metrics, two changes of mode (as many as two queues need), one failure.
- Deadlock is checked in `ReadThrough`, `StaleRefresh` and in the breaker. It is not where the caps end every
  run (the caches, `FileBackend`, `Envelope`, `AsyncMetrics`), nor in `Backpressure`: a controller interrupts have taken all capacity
  from really stops.

### Fairness

- `L1OnlyMode`: a refresh thread or task that was started gets to run, and the function
  returns or raises. Nothing is assumed of callers.
- `ReadThrough`: event loop and thread pool run what is scheduled, the function ends, the
  server expires leases. A waiter is not assumed to get the lock: taking it and timing out
  are one fair choice, as in the code's blocking acquire with `blocking_timeout`. A lock that
  raises is possible and never relied on.
- `CircuitBreaker`: time passes, users keep calling and their calls end. How often the
  backend's health changes is left open; `RecoversWhenHealthy` speaks of runs in which it ends up well.
- `Envelope`: callers keep calling, L1 copies expire, and the backend is not down for ever: a
  read, delete or write that is tried again and again succeeds at times. Without the last,
  damage could not heal.
- `StaleRefresh`: event loop and threads run what is ready and the function returns or raises.
  Nothing is assumed of callers, the server, failures or cancellation.
- `AsyncMetrics`: the worker and the threads that have begun a call run on.
- `Backpressure`: no grant is assumed; a wait ends by its time-out, and the rest of
  `acquire()` is code that runs to its end.

## 4. Proofs

`tlapm <module>Proofs.tla` and `tlapm DataTheorems.tla` check them. They hold for all values of the constants under the
modules' named assumptions (which TLC evaluates in every run): bounds are natural numbers, limits are
positive, `None` and `"orphan"` are not keys, tasks, processes or tenants, previous keys are lists,
`None` is not a queue, a metric or an outcome, sets of requests and of recording threads are finite.

**DataTheorems.** Induction over finite sets, set up so that the provers can use it: to show that
all subsets of a finite set are in some set `P`, it is enough that a subset is in `P` if all subsets
with one element less are (`SubsetInduction`). From it: the community modules' `SumFunctionOnSet`
may take its elements in any order (`SumRemove`, `SumSplit`), depends only on the values it adds
and grows with the set. And about orders: deleting from an OrderedDict or moving a key to its end
keeps every key once and the others in their order (`WithoutKeepsOrder`, `MoveOnce`). These are
lemmas for the other modules and say nothing of the code by themselves.

**ObjectCacheProofs.** `NoResurrection` is not inductive: a refresh in flight must be known to be
harmless. The invariant adds that generations are never reused (every entry's and token's is at
most the counter), that a marker is its live entry's generation, and that a token whose version
is the live entry's was taken in the current epoch and still has its marker. All removals are
one relation, `Shrinks`, which is transitive, so `_evict` needs no account of how many
entries it takes. From this follow `MarkersMatch`, `NeverResurrects`, `RefreshesAreSingle` and
that every step is a step of `LossyCache` (`ImplementsLossy`). For `BytesAreAccounted` the order
holds every stored key once and the counter is the sum of the sizes (`BooksInv`); that both bounds
hold after an insertion needs that the eviction loop ends only below them, by counting down
along the order. `EvictionIsFair` is the same loop seen from the entries that stay.

`L1OnlyMode`: `ModeInv` adds to `BooksInv` what each call has in hand in each phase. A token is
held exactly in the phases between the lookup that flagged the refresh and its end; a slot
exactly while a refresh is reserved or runs (`SlotsOK`, where what a fork inherited and what a
cancelled task lost are the difference between the counter and the slots in use); and every
marker belongs to a call that still has its token, or is lost or inherited (`EveryMarkerOwned`).
`RefreshesAreAccounted` and `KeysAreTracked` follow, and `CacheHoldsInMode` says that the cache's own
invariants survive being driven this way, including by refreshes that never end.

**L1CacheProofs.** The counter is never more than the sum of the sizes held, and equal to it until
a put evicts the entry it replaces (`doubled`); that is as much as the code guarantees, and
`BytesAreAccounted` is no more than that. That the counter stays in the budget needs the loop
invariant of `_evict_for_space`: whatever it counts out was held. `EvictionIsFair` and
`ImplementsLossy` follow from the order and from `asOf = epoch` for every entry held whose key is not `skipped`; a skipped put makes a value stale, and only a put that
takes effect or a removal ends that.

**ReadThroughProofs.** The invariant says of each call by its phase how often the function can
have run (`RunsSoFar`), that what it has in hand is no older than any invalidation made with no
call in flight (`FreshInHand`), and, if nothing can fail, that whoever computes holds the lock
and has seen L2 without a live value (`ComputesAlone`). The last needs that L2 cannot become
live but through the holder of the lock. Each action moves one call (lemma `CallMoves`) or only
empties tiers. A revalidation is a call that is answered: it has run the function as often as its
phase says, like any other, and what it stores is as fresh. `InvalidationsStick`, `L1IsTracked` and `TypeCorrect` hold for any faults, and
so does `RunsOnce` (once, plus the run after a misread BackendError); `HerdIsSpared` holds
without faults, since a wait that times out or a lease that expires is meant to let others compute.

**StaleRefreshProofs.** `SlotsAccounted` needs to know which jobs may hold what in which phase
(`JobsInShape`) and, since a fork replaces a process by its child, that only a child that has not
scheduled anything has inherited something (`NoneInherited`). `OneRefreshPerKey` rests on
`InflightCovers`, that a job at work has its key registered, which holds on event loops only, where
check and registration are one step; that jobs between the two exist on threads only
(`OnlyThreadsRace`) is the part of the invariant that the failed proof asked for. `LeaseIsExclusive`
rests on `LeaseKnown`: who believes in a lease that has not expired is the server's holder.

**FileBackendProofs.** The invariant: what an operation has in hand in each phase (`OpsOK`), at most one
operation of a process inside its lock (`LockExcludes`), every file is the latest commit of its
key (`FilesLatest`), and what a reader has open is at its path still unless nothing, or another
process's file, is there (`OpenOrForeign`). All steps but renames and deletes only lose files or
change them in place (`DirShrinks`), which is what `LossyCache` allows at any time
(`ImplementsLossy`, in which a commit cut short is a removal). `RoomIsAlwaysMade` has an invariant of its own, `RoomOwed`: as long as the
directory is over its trigger, some process has yet to list it, or is evicting from a listing
that covers it (every file is on it with its size, and its totals are at least the real ones), or
an eviction was cut short or could not unlink a file. What other processes remove meanwhile only makes the totals too
large; what they add, they list themselves. Files and bytes are counted with the sums of
`DataTheorems`.

**EnvelopeProofs.** The invariant traces every entry at rest to its writer: it is what that process
would store now, with its configuration and its tenant, but for damage (`Stored`). That this stays
true rests on configurations and tenants being settled once a process runs (`TenantsKnown`). What
an entry's header says of its writer (`Tells`) is all that the properties need. `AtRestAsAsked`:
the presets and validations leave only configurations that encrypt as asked (`ConfigFacts`).
`FleetIsReadable`: a keyring holds its current and its previous keys (`KeyringFacts`), and outside
interop mode the header names the tenant; in it, both have been told the same UUID
(`InteropTenant`). `ServedWasStored`: what opens has neither its payload nor its type changed, as
the tag covers both, and a header that was changed to claim plaintext is refused; what is not
sealed has a checksum of its payload that its reader looks at (`DamageShows`), since readers that share a key agree on integrity checking
(`PairedFacts`). `EvidenceIsRetained` needs that a fail-closed call goes on only past entries it
did not fail to authenticate (`SeenInnocent`). All of it holds for any number of
processes, requests and environments, where the run has pairs of 11 requests in 2 environments.

**ReliabilityProofs.** Of the breaker: permits never exceed attempts, trials in flight never exceed
the attempts of the cycle, and counted successes never exceed those really seen: late results
only add to what was seen. `TrialsAreLimited` and `ClosingIsEarned` follow, for every guard. Of
the controller: the two equalities `DepthIsExact` and `PermitsAreConserved` are inductive with the
types; as what interrupts strand is never negative, the controller only ever looks fuller than it
is, and `LoadIsBounded` follows; `CapacityIsAccounted` is all of it together. The lemma `MoveCounts`
says what one request's change of phase does to the size of a set of requests.

Of the metrics collector: `NoDictShared` and `Conserved` are not inductive alone, because a dict that
is in one place may still be filled in wrongly, and one whose metric is right may be taken twice.
`CollectorInv` has two layers. `CollectorFrame` holds whatever happens: no two calls have the same
metric and none has one whose fate is sealed (`CallsOK`), only dicts of metrics that were begun are
in use (`OnlyTaken`), batches keep within their limit (`BatchesOK`), as long as there is one queue there is
at most one worker (`WorkersOK`), and a count of drops that was read is not above the drops
there were (`DropsShow`). While no flush has failed and no queue was replaced (`Intact`), `Exact` holds
too: every dict is in one place at most (`OneEach`), a caller's dict describes its own metric
(`InHand`), and a metric has one trace if its call ended well (`Traced`). Each step then moves one dict from one place to the next
(`HitsAppend`, `HitsFront` and `HitsTail` say what that does to the counts) and its metric with it.
The first refused update or second queue ends what is said about dicts, as in the
run; types, the batch limit and the counter of drops hold beyond it.

Every invariant and action property of the passing runs has a theorem. Out of this prover's reach
and left to TLC: liveness under fairness (`RefreshesEnd`, `EveryCallEnds`, `RecoversUnderTrials`,
`EveryRequestEnds`, `AdmitsAgain`, `DamageHeals`, `NeverUnrevalidatable`, `EventuallyCounted`), and
`RecoversWhenHealthy`, which its run refutes.

## 5. Not modelled

- Cancellation of a foreground call inside the lock path (a thread of the pool may then still take
  the lock, `backends/redis/provider.py:380`), and TTL refresh on hits. The paths that
  run the function without touching any state (bypass, key generation that fails, a client that
  cannot be created) are left out.
- `L1CacheManager`: a registry and a thread that calls `cleanup_expired`, which is an action of
  `L1Cache`. What its start/stop race puts at stake is memory, since expired entries are also
  dropped on read.
- Tenant scoping (a wrapper keeps the backend of the first tenant it meets,
  `backends/redis/provider.py:477`) and connection pools of the Redis provider, HTTP retries and time-outs of the
  CachekitIO client, the memcached adapter.
- Pool monitor, health, sessions, statistics, logging: they report, and nothing else reads what
  they keep.
- Byte layouts, hashes, AES-GCM and the encoding of arguments into keys: third-party or pure code.
  The models have what the control flow tells apart of them.

## 6. Plan

Done: caches (`ObjectCache`, `L1OnlyMode`, `L1Cache`), reliability (`CircuitBreaker`,
`Backpressure`), composition (`ReadThrough`), the envelope and what readers make of it (`Serializers`,
`Envelope`), L2 stale-while-revalidate (`StaleRefresh`), `FileBackend`, `AsyncMetrics`, and the
proofs of section 4.

Next: cancellation in the lock path of `ReadThrough`, tenant scoping of the Redis provider,
`L1CacheManager` start/stop.
