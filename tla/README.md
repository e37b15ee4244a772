# A TLA+ model of gina's stateful services

gina is a Node.js web framework. Most of its 96 000 lines of `lib/` and `core/`
turn one request into one response and keep no state of their own. The parts that are
hard to get right are the services whose state outlives a request and is
shared by callbacks, timers, processes and a store that answers later. This
project models those services: the **deferred-job worker** (`lib/job`), the
**content-addressed blob store** (`lib/storage`) with its reference-counted
metadata, its **resumable uploads**, the **idempotency gate**
(`lib/idempotency`), the two-level **render cache** (`lib/render-cache`,
`lib/cache`) and the **account lockout** (`lib/authn`).

All paths below are relative to `src/framework/v0.7.10/`.

- [1. Inventory](#1-inventory)
- [2. The modules and how they correspond to the code](#2-the-modules-and-how-they-correspond-to-the-code)
- [3. What is checked, and on which instances](#3-what-is-checked-and-on-which-instances)
- [4. What is proved](#4-what-is-proved)
- [5. Where the code and its documentation disagree](#5-where-the-code-and-its-documentation-disagree)
- [6. What is not modelled, and why](#6-what-is-not-modelled-and-why)
- [7. Plan](#7-plan)

## 1. Inventory

`PROJECT.json` lists every component with its status; this is what each keeps
and what could go wrong in it.

### Services with shared, long-lived state

**Deferred-job worker** — `lib/job/src/main.js`. *State*: the records
(`{id, state, attempts, error, updatedAt, nextRetryAt, expiresAt, notified}`)
in a store; per process the queue `_queue`, the slot counter `_running`, the
functions (closures, so only the creating process can run a job), retry timers
and the sweep timer. *Operations*: `create`, the internal `drain`, `_dequeue`,
`runOne`, `settle`, `scheduleRetry`, `deliverWebhook`, `update`,
`reclaimOrphans`, `sweep`, and `get`, `list`, `remove`. *Interactions*: a job
store (memory, MongoDB, Redis, Couchbase, SQL), webhooks, the boot in
`core/gna.js`, urgency from `lib/lane`. *Hard*: every store call is a gap in
which drains, settlements, removals and reclaims of other processes run; a
set may land although it reported an error; a process dies and strands what
it owned. *Correct when*: slots are counted exactly, no entry waits for ever
beside a free slot, a function runs at most `maxAttempts` times and fails
only after all of them, terminal states are final, every record eventually
goes away.

**Content-addressed driver** — `lib/storage/src/local-cas.js`. *State*: blob
files and temp files below a root, rows in a metadata store, the sweep timer.
*Operations*: `put`, `get`, `getRange`, `stat`, `release`, `sweepNow`,
`verify`. *Interactions*: the metadata store's refcount verbs; sibling
processes share root and store. *Hard*: file and row change in separate
steps; a put, its rollback, a concurrent identical put and the sweep meet on
one content address; a crash between any two of them. *Correct when*: whoever
holds a key can read its bytes, the count covers the holders, what nobody
holds is collected after the grace window, and nothing is left that neither
the sweep nor `verify` finds.

**Metadata stores** — `lib/storage/src/meta-store.js` (contract and embedded
SQLite store), `core/connectors/couchbase/lib/storage-store.js`. *State*: one
row or document per key with `refs` and `zeroAt`. *Operations*: `acquireRef`,
`releaseRef`, `listZeroRefs`, `removeIfZero`, `set`, `get`, `remove`, `stats`.
*Hard*: the contract wants atomic verbs, Couchbase offers read, then write
under a CAS. *Correct when*: each verb is one atomic step, `zeroAt` is set
exactly at `refs = 0`, one claim wins, a contended call still answers.

**Resumable uploads** — `lib/storage/src/local-stream.js`. *State*: per
session a manifest, a sparse data file and one marker per durable range.
*Operations*: `createUpload`, `writeSegment`, `statUpload`, `finalize`,
`abortUpload`, `put`, `release`, the sweep of abandoned sessions. *Hard*:
segments in parallel, out of order and overlapping; finalize beside a late
segment, a second finalize, an abort or the sweep; a failed row write after
the bytes were published. *Correct when*: no published object has a hole, no
session is immortal, no row lacks its file.

**Key-value namespaces** — `lib/kv/src/main.js`, `lib/kv-store.js`. *State*:
values with expiry, per-process flights of `getOrSet`. *Hard*: expiry between
two operations, a load racing a delete, degrading to a miss when the store
fails. **Rate limit** — `lib/rate-limit/src/main.js`: window counters on the
same store.

**Idempotency gate** — `lib/idempotency/src/main.js`, on such a namespace.
*State*: per reservation key a reservation or a recorded response, each with a
lifetime. *Operations*: `gate`, `record`, the belt on the `finish` event.
*Interactions*: `server.js` calls the gate after rate limiting, the render
delegates call `record`. *Hard*: a reservation that expires while its owner
runs, whose late `del` or `set` then hits the successor; a setnx that was
applied and reported as failed; a fail-open process that goes on without its
store. *Correct when*: executions of one key exclude each other, a recorded
response is replayed to its own request for its whole retention, and a request
is always answered.

**Account lockout** — `lib/authn/src/lockout.js`. *State*: attempts, last
failure and lock per account, a queue per key and process. *Operations*:
`check`, `recordFailure`, `recordSuccess`, `reset`, over `withKeyLock`. *Hard*:
read-modify-write over an asynchronous store, serialised only within a
process. *Correct when*: a lock is not lifted early, no failure is lost, no
queue is stranded and no caller waits for ever.

**Render cache** — `lib/render-cache/src/main.js`, `lib/cache/src/main.js`,
`core/connectors/redis/lib/render-cache-store.js`. *State*: a bounded
process-local Map, a shared redis, event registrations per process.
*Operations*: `warm`, `set`, `setEvents`, `invalidateByEvent`, `clear`,
eviction, timers. *Hard*: warm-up and unawaited writes racing invalidation,
commands that are lost, eviction. *Correct when*: what an event could reach is
not served afterwards, and what it could not is gone after the ttl.

**Maintenance switch, audit chain, WebSocket sessions** —
`lib/maintenance`, `lib/audit`, `lib/ws-session`: a polled shared switch, a
serialised hash chain, per-socket state machines. Not modelled yet.

### Request pipeline and tooling

Server engines, router, controllers, render delegates, models and SQL
connectors, session stores, plugins (CSRF, CSP, validator), the logger,
metrics, i18n, merge, collections, secrets, MCP, the `gina` command line and
image builder. Their state is a request's own, or they are I/O and data
transformation; section 6 says why they stay out.

## 2. The modules and how they correspond to the code

| Module | Models | Builds on |
|---|---|---|
| `JobWorker` | `lib/job/src/main.js` over an asynchronous job store | |
| `RefRow` | the refcounted row and the pure effect of each verb | |
| `StorageCas` | `local-cas.js`: put, release, sweep, verify, crash | `RefRow` |
| `MetaStore` | the contract of `meta-store.js`: atomic calls with ambiguous errors | `RefRow` |
| `CouchbaseStorageStore` | the CAS loops, shown to implement `MetaStore` | `RefRow`, `MetaStore` |
| `UploadSpans` | `local-stream.js`: `mergeSpans`, `missingSpans` | |
| `UploadSession` | `local-stream.js`: put, resumable sessions, release, sweep, crash | `UploadSpans` |
| `Idempotency` | `lib/idempotency/src/main.js` over a kv namespace that fails ambiguously | |
| `RenderCache` | the redis strategy of `lib/render-cache` with `lib/cache`, several replicas | |
| `Lockout` | `lib/authn/src/lockout.js`, one account over a store processes share | |
| `MC*` | finite instances for TLC | |
| `*Proofs` | theorems and proofs | |

The layers fit together through `RefRow`: `StorageCas` applies the verbs as
single steps, which is what `MetaStore` promises, and `CouchbaseStorageStore`
shows that a real connector keeps the promise.

`RefRow` has the verbs as operators on one row: `Acquired`, `Released`,
`Claimable` (what `removeIfZero` deletes: `refs = 0`, whatever the stamp) and
`Collectable` (what `listZeroRefs` lists: at zero *and* stamped before the
cutoff).

### JobWorker

An *entry* is what `create()` pushes on `_queue`. `at[j]` is the place of its
entry:

    unborn - queued - reading - marking - executing - merging - settling - gone
               ^                                                   |
               +------------------- backoff -----------------------+

`reading`, `marking`, `merging` and `settling` are the four store calls of one
attempt: the get of `runOne`, the set of the running transition, and the get
and set of `update()` in `settle`. An action at such a place is the moment
the call lands *and* its callback runs; the step that led to the place is the
moment it was issued. The slot is held from dequeue to the settling callback.

| Action | Code |
|---|---|
| `Create`, `CreateLands` | `create`: push first, `_store.set`, then `pumpQueue` |
| `PumpQueue`, `Drain` | `setImmediate(drain)`, `drain` with `_dequeue` |
| `PickUp`, `Vanished`, `MarkLands` | `runOne` |
| `FnReturns`, `FnThrows`, `SettleReads`, `SettleVanished`, `SettleLands` | `settle` and `update` |
| `RetryFires` | `scheduleRetry` |
| `HookAccepted`, `HookRefused`, `HookReads`, `HookWrites` | `deliverWebhook` |
| `SweepBegins`, `SweepLists`, `SweepReads`, `SweepWrites`, `SweepPurges` | `sweep`, `reclaimOrphans` |
| `Remove`, `Crash`, `Tick` | `remove`, process death, time |

`Drain` is called inside the actions that call `drain()` synchronously
(`Vanished`, `SettleVanished`, `SettleLands`, `RetryFires`), so that freeing a
slot and filling it is one step, as it is one turn of the event loop. The
queue is a relation (`ahead[j]`: entries queued before `j`) instead of a
sequence, since `_dequeue` takes the first of the lowest urgency.

Store: `Reads` may fail, and each caller takes an error for a miss as the
code does; `Stores` may fail and may have landed all the same. With
`Ordered = FALSE` the connection is pooled and a get may be answered before a
set that was issued earlier.

### StorageCas

`at[u]` is the place of a put:

    idle - streaming - acquiring -+- publishing - held - released
                                  |      +- rolling - purging - failed
                                  +- deduping - held
                                         +- undoing - failed

`streaming` covers `data`/`spill`/`close`; `acquiring` the wait for
`acquireRef`; then either the row was created (`publishing`: rename, or roll
back with `releaseRef` and `removeIfZero`) or it was there (`deduping`: heal a
missing file, or discard the temp). Inline puts go from `acquiring` to `held`.
`Release` is `release()` by whoever holds the key, once per put.

The sweep is `SweepLists` (one `listZeroRefs`, the oldest `SWEEP_BATCH` rows),
one `SweepClaims` per key (`removeIfZero`) and one `SweepUnlinks` per claimed
key. `verify()` over rows is one `VerifyReads` per row (`metaStore.get` and the
conditions on what it returned) and, in its callback, the `existsSync`:
`VerifyFinds`, or `VerifyAlarms` for a row-without-file finding. In between,
`verifying[p]` keeps the row, with the puts that referred to it (history, for
`AlarmsHaveCause`). `VerifyProcs` are the processes that are asked to verify,
one row at a time. The code compares `createdAt` with the start of `verify()`,
the model with the read, which passes over no more rows. `Scrubs` is `--fix` of
a file without a row, with the bundle stopped. `Crash` is death and
restart, whose boot sweep unlinks temp files older than the grace window, a
sibling's included.

`Embedded` tells the two deployments apart. With the embedded SQLite store a
verb and its callback share a turn of the event loop, so while a put or a
sweep is between them, or `verify` between a row and its file, nothing else
moves (`PutMayRun`, `SweepMayRun`, `NoCheck`); there is one process. With a connector store, any step of any process may fall in
between, verbs may fail, and a failed verb may have been applied.

Two simplifications of granularity: the `existsSync` and `rename` of a heal
are one step, as is the `existsSync` and `unlink` of a discard, although a
sibling's unlink may fall between the two system calls. The decision is taken
at the `existsSync`, and moving the sibling's unlink just after the pair
gives the same result, so no outcome is lost. One sweep pass runs at a time
per process (the timer's passes and `sweepNow` could overlap; two processes
sweeping, which the model allows, overlap in the same way).

### CouchbaseStorageStore and MetaStore

In `MetaStore` a call is invoked, takes effect on its row in one step and is
answered with what that row says; a `removeIfZero` may also decline, and an
error leaves open whether the call took effect. `CouchbaseStorageStore` has
the loop: `Reads` (`coll.get`, with its early answers), `Mutates` (insert,
`mutateIn` or `remove` under the CAS that was read), `Conflicts` (CAS
mismatch, document gone, document exists: retry after a backoff up to
`MAX_CAS_ATTEMPTS`, but a claim gives up), `ReadFails` and `WriteFails`. Each
mutation gives the document a new CAS (`clock`).

`Contract == INSTANCE MetaStore WITH row <- ..., stage <- ...` maps the
documents to rows (a document without `refs` is no row) and `reading` and
`writing` to `open`.

### UploadSession and UploadSpans

Objects of the stream driver share no file and no row, so a behaviour follows
one object, which `Init` makes a put or an upload. `file` is where its bytes
are linked: as `data` (the temp of a put, the data file of a session), `final`
(published) or `gone`; an open descriptor keeps writing to them wherever they
are. `bytes` are the cells that have been written, `markers` the durable
ranges; `dir` is the session directory and, once it is away, who removed it.

| Action | Code |
|---|---|
| `CreateUpload`, `CreateDies` | `createUpload`, and a death before its manifest is in place |
| `BeginSegment`, `OpenSegment`, `WriteChunk`, `CloseSegment` | `writeSegment`: the open, each chunk, the `close` handler with fsync and marker |
| `FailSegment`, `LateChunk` | its `onError`, which answers at once, and the chunk that was on its way |
| `Finalize`, `HealFinalize` | `finalize` up to the row write: coverage, size, rename; or the heal path |
| `Indexed`, `IndexFails` | the callback in `indexAndFinish` |
| `AbortUpload` | `abortUpload` |
| `BeginPut`, `OpenTemp`, `PutChunk`, `FailPut`, `FinishFailedPut`, `BreakTemp`, `PublishPut` | `put` up to the row write; the temp file is opened on a worker thread |
| `PutIndexed`, `PutIndexFails` | its callback, which rolls the file back |
| `Release`, `Removed`, `RemoveFails` | `release` by whoever was told the key |
| `SweepSession`, `SweepTemp` | `sweepAbandoned`, at build or by its timer |
| `Crash`, `Tick` | process death, time |

A refused `finalize` changes nothing and is a guard. The client contract
(no segment during a finalize, one finalize at a time) is *not* assumed: only
`RowHasFile` excludes behaviours in which two finalize calls overlapped, which
`doubled` remembers. `Finalize` asks for `Missing = {}`, the set of uncovered
cells; that `missingSpans(mergeSpans(...))` computes that set is `SpansExact`
(checked and, for every set of markers, proved). `UploadSpans` has the two
loops as recursive functions over the positions of a list, with `MergeOne` and
`MissOne` for their bodies. The list is any one in `Sorted`: `readdir` orders
the markers as it likes and the sort by offset leaves equal offsets where they
were.
Re-sent segments are taken to carry the same bytes, so a cell is written or
not. `rmSync` and `unlink` are taken to succeed.

### Idempotency

`at[r]` is the place of a request:

    idle - reserving -+- running -+- recording - done
                      |     ^     +- releasing - done
                      +- looking -+- done

`reserving` is the setnx, `looking` the get after a lost reservation,
`recording` the set of `record()`, `releasing` the del of the finish belt;
`captured` are the requests that carry `_idemCapture`. `entry` is what the
namespace holds under `ResKey` (principal, operation, key): a reservation or an
envelope, with the ticks it has left.

| Action | Code |
|---|---|
| `Arrive` | `gate` up to the setnx: not gated, the header missing where it is required, or keyed |
| `Reserve`, `ReserveFails` | the setnx, won or lost; its error, applied or not, under `failMode` |
| `Look`, `LookFails` | replay, 409, 422, or the fall-through when the entry has vanished |
| `RespondRecorded`, `RespondUnrecorded` | the response through `record()` or past it |
| `RecordLands`, `ReleaseLands`, `CallFails` | the two unawaited namespace calls |
| `Disconnect`, `Crash`, `Tick` | a client that goes away, process death, expiry |

A request executes for any number of ticks. `overran` remembers the requests
whose reservation expired before they were done, `owed` how long a recorded
response is still to be replayable.

### RenderCache

`l1[p][k]` is the copy of page `k` in the Map of a replica, `since[p][k]` the
pages of that Map that were accessed after it. `l2` is redis, `sent[p]` the
commands of a replica that redis has not executed (one connection, executed in
order). The rendered data is a `version` that every `Save` advances. `excuse`
remembers, per replica and page, why the last event could not reach a copy.

| Action | Code |
|---|---|
| `Serve` | a hit of the Map, which makes the copy the most recently accessed |
| `WarmRead`, `AskAge`, `Warmed` | `warm`: GET, PTTL, `Cache.set` and `setEvents` |
| `Render`, `KeepCached`, `Store`, `SetEvents` | the render and `writeCache` of the delegates: the template delegates do not write what is cached by now |
| `Save` | a save followed by `invalidateByEvent` |
| `Clear` | `clear` |
| `Land`, `LandFails` | redis executes a command, or it is lost or times out |
| `Tick` | expiry in redis and the timers of the Map |

`Put` is `Cache.set`, eviction included: a new key in a full Map removes the
least recently accessed one (`Evictions`) through `delete()`, which takes its
registration along. Accesses are strictly ordered; the code compares
milliseconds and breaks a tie by the order of its Map, so which of two copies
accessed within one millisecond goes first is not modelled.

### Lockout

`running[p]` and `waiting[p]` are the holder and the queue of the account's key
in a process; `at[c]` is the place of a call:

    idle - waiting - reading - writing - done        (a failure)
                   - clearing - done                 (recordSuccess, reset)
    idle - checking - done                           (check, without the key)

| Action | Code |
|---|---|
| `TakeKey`, `Enqueue`, `Throws` | `withKeyLock`: a free key, a busy one, a store that throws synchronously |
| `ReadLocked`, `Read`, `SetThrows` | the get of `recordFailure`: already locked, counted, or the set throws |
| `Write`, `Clear`, `Fails` | the set or del lands, or is reported as failed |
| `Check`, `Checked`, `CheckFails` | `check` |
| `Tick` | time |

`Finish` is `release()` with the callback behind it and belongs to each of the
actions that end a call: the next call of the queue starts in the same turn,
and so do those behind it when the store throws at the start. `Seen` is what a
read may return: the entry, or nothing when the store has expired it.
`recorded` and `overtaken` are history: the failures written since the last
clearance, and those that another process wrote past between their read and
their write.

### Time

Records and files carry ages, not timestamps: `now - updatedAt`,
`now - zeroAt`, `now - mtime`, which is what the code compares. `Tick` ages
everything by one. A tick waits for store calls and sweep passes and due
timers (they are short beside retention and grace windows), and never for job
functions, queues, webhooks or streams, which may take any number of ticks.
Ages stop at the first value beyond which no comparison changes.

Because a tick waits for store calls there, a *store call* that takes longer
than a grace window or an orphan timeout is not in those models, except the
get of `verify` over a connector: nothing waits for that. In
`Idempotency` and `Lockout` time passes at any moment; in `RenderCache` a tick
waits for commands, which `commandTimeout` bounds, but not for renders.
`Lockout` compares with a clock, the others keep ages or what is left.

### Fairness

Liveness is checked under weak fairness of what the code and its environment
must do by themselves: an entry's or a put's own steps (event-loop turns,
store answers, functions, webhooks and streams that end), a process's pump and
sweep (its `setImmediate` and `setInterval`), the passage of time, and for
Couchbase the answer of the cluster. A finished answer may be an error. Nobody
has to create, put, release, remove or crash, and which of several enabled
entries goes first is not constrained. `setInterval` keeps firing after
errors (the sweep's callback default swallows them), which is what justifies
fairness of `SweepStep` and `ProcStep`. For uploads only the store's answers,
the sweep and time are fair: segments and streams may stall for ever, and that
is exactly when the sweep has to act. For the gate: the namespace answers,
actions end, time passes; nobody has to send, to crash or to disconnect. For
the cache: requests that have arrived go on, redis executes or loses its
commands, time passes. For the lockout: the store calls back, with a result or
an error; time need not pass.

## 3. What is checked, and on which instances

Every passing run is exhaustive. The bounds on failures (`Max...`) are in the
guards of the actions that fail; everything else is bounded by the finite
sets of jobs, puts and calls.

| Run | Instance | Shows |
|---|---|---|
| `job_slots` | 1 process, 2 slots, 3 jobs (one urgent, one retried), a failing call, a removal, pooled connections | `TypeOK`, `SlotsAccounted`, `NoLostWakeup` |
| `job_progress` | 1 slot, 2 jobs, one retried and with a webhook, purge, a removal, a failing call, ordered calls, fair | `EveryEntryLeaves`, `AttemptsHonored` |
| `job_recovery` | 2 processes reclaiming and purging, 1 job with a webhook, a crash, a failing call, a removal, pooled connections, fair | `NoImmortalRecord`, `NotifiedWhenFinal` |
| `cas_embedded` | 1 process, 3 puts of 2 contents (one inline), file and unlink failures, a crash | `TypeOK`, `HeldIsReadable`, `NoOrphanFile`, `GraceHonored`, `VerifyIsQuiet` |
| `cas_shared` | 2 processes, one sweeping and one verifying, 2 puts of one content, an ambiguous store error, a file failure, a crash, fair | `RefsCoverHolders`, `RefsExact`, `LossOnlyInSweepWindow`, `AlarmsHaveCause`, `ZeroRefsCollected` |
| `cb_calls` | 2 acquires, a release, 2 claims of one row, an acquire of a foreign document, an error, fair | `Implements`, `EveryCallAnswered` |
| `upload_session` | a put, or 4 cells with 2 segments of any offset and length and 2 finalize calls; abort, release, sweep, a store error, a crash, fair | `TypeOK`, `NoHole`, `SpansExact`, `RowHasFile`, `PublishedCanFinish`, `FailedPutLeavesNothing`, `NothingImmortal` |
| `idem_gate` | 3 requests of one key (one with another payload) over a fail-closed and a fail-open process, 1 request without the header its route requires; `InflightTtl` 1, `Ttl` 2, an ambiguous error, a crash or disconnect, fair | `TypeOK`, `Exclusive`, `RecordKept`, `ReplayIsOwn`, `ReservationIsLive`, `AllAnswered` |
| `cache_tiers` | 2 replicas, 1 page, 3 requests, a save, a clear, a lost command, `Cap` 1, `Ttl` 2, fair | `TypeOK`, `InvalidationSticks`, `StaleGone`, `Answered` |
| `lockout_engine` | 3 failures (one on the second process), a clearance, a check over one store; 2 attempts, window and lock of 2 ticks, a clock of 2, an error or throw, fair | `TypeOK`, `EveryFailureCounts`, `LockIsTerminal`, `EveryCallAnswered` |

Two more runs end in a counterexample and belong to section 5: `job_clobber`
and `cache_evict`. Deadlock is checked in the `job_*` runs: a worker is never in
a state in which neither a call can land nor time pass. In the others
everything may be done and the system rests (`CHECK_DEADLOCK FALSE`).

Why these bounds are enough for the cases that matter: three jobs over two
slots is the smallest queue in which a freed slot has a choice; one job that
retries meets every path back into the queue; two processes are needed for a
reclaim of a living owner's record. Two puts of one content reach dedup,
heal, and a rollback beside a second reference, the third (inline) shares the
sweep's batch of one. Two spans over four cells can be apart, touch, overlap,
nest, and leave gaps before, between and behind. Three requests of one key are
an owner, a successor after expiry, and a request that reads what either left;
with `InflightTtl` 1 a reservation expires in the first tick, with `Ttl` 2 a
record outlives it. Three requests and two replicas have a copy in both Maps
and one in flight at the event. With a limit of two, three failures reach the
lock and one behind it, from the queue and from the other process. One failure of each kind is enough to take each error
path, and the theorems of section 4 remove the bound for the invariants. Left to them
are principals and operations that differ (`idem_gate` has one of each), more
than two markers at once, and a lock that outlives the window of its failures
(`lockout_engine` has 2 ticks for both). `SWEEP_BATCH` is reached in
`cas_embedded`; `cas_shared`, which checks that rows at zero are collected, has a
single content.

Each property states something no single line ensures:

- `SlotsAccounted`: the counter equals the entries holding a slot, across
  seven exits of `runOne` and `settle`.
- `NoLostWakeup`: an entry beside a free slot has a `drain` coming, though
  nothing wakes it but its own create and others' settlements.
- `AttemptsHonored`: a record reads failed only after the last attempt, none is
  dropped unrun or run too often: the attempt count lives in the record and in
  the entry, and either may be stale.
- `NotifiedWhenFinal`: the webhook, retries and a reclaim against the record
  they read some calls ago.
- `HeldIsReadable`, `LossOnlyInSweepWindow`: row and file agree for a holder,
  with the embedded store always, with a connector store except at the
  documented point.
- `RefsCoverHolders`, `RefsExact`: the count against the puts that hold it,
  through rollback, undo, crash and ambiguous errors.
- `NoOrphanFile`: only a crash or a failed unlink leaves bytes that nobody
  accounts for.
- `NoHole`, `SpansExact`: whatever overlaps, fails or comes late, what is
  published is complete, by an interval computation that is exact.
- `RowHasFile`, `PublishedCanFinish`: row, file and session agree although
  the row write answers later, fails, or is cut off by a crash.
- `FailedPutLeavesNothing`: also when the temp file is opened after the put
  failed.
- `NothingImmortal`: a session that lost its data file still dies.
- `AlarmsHaveCause`: what `verify` reports had a put behind it when the row was
  read, and none that was in flight then and young, although publishes,
  rollbacks, releases, sweeps and time run before the file is looked for.
- `VerifyIsQuiet`: without that gap, with the embedded store, it reports nothing
  at all but what a crash or a store error left.
- `Implements`: the CAS loops refine atomic calls, answers included; that no
  reference is lost or invented and one claim wins is a consequence.
- `Exclusive`, `RecordKept`, `ReplayIsOwn`: reservation, record and release of
  several executions of one key, issued blindly and landing late.
- `ReservationIsLive`, `AllAnswered`: a 409 tells the truth, and no rejection
  leaves a request hanging, fail-open or fail-closed.
- `InvalidationSticks`, `StaleGone`: what an event could reach stays gone although
  the other level or another replica still has it; what it could not is
  bounded by the ttl, however it is copied back and forth.
- `EveryFailureCounts`: failures made at once are read-modify-writes of one
  entry, and each of them counts.
- `LockIsTerminal`: the failures still queued when the account locks do not
  shorten the lock.
- `EveryCallAnswered` (lockout): every exit hands the key on.

Each property of a passing run is paired with a mutant of a mapped definition
(kept just before that definition), a bug one could plausibly make there,
that violates it.

## 4. What is proved

For every value of the constants allowed by the assumptions, checked by TLAPS
(`PROJECT.json` lists the theorems; every invariant of a passing run is stated
by one of them):

**`JobWorkerProofs`**

- `SlotsAreAccounted`, `NoWakeupIsLost`. The inductive invariant is `SlotInv`:
  types of the queue variables, `Owned` (an entry has an owner exactly from
  its create on, so the slots of two processes are disjoint) and the two
  properties together. They need each other: that a drain leaves no entry
  beside a free slot holds because the counter is exact. The lemma
  `DrainCounts` says what any call of `drain()` does to the counter;
  `DrainKeeps` and `MoveKeeps` carry it to each action.
- `TypeCorrect`. `TypeInv` adds `Drafted` (a pending set carries a whole
  record and a retry is below the ceiling, so its delay exists) and `Written`
  (a webhook or reclaim about to write knows its record).

**`JobRecordsProofs`**

- All of it is about one job at a time. `JobMoves` reduces each step of the
  worker to what it does to one job, one of the nineteen `Moves(j)`; each part of
  `RecordInv` is then a statement about a job that every move keeps.
- `FailuresAreEarned`: a record that blames its attempts has had them all. By
  `Tried`, which says the same of every copy of the record (in the store, with
  the webhook, with a reclaim pass, in the entry's own set), and `Begun` and
  `Carried`, which say what an entry has at each place.
- `NotificationsAreFinal`. By `Noted`: over a store without errors the webhook
  and the reclaim only ever hold a record that will not change.
- `AttemptsAreBounded`, `AttemptsAreHonored` and `TerminalStaysFinal` assume
  `OrphanTimeout = 0` (reclaim disabled, or the built-in memory store, which is
  exempt), and `AttemptsAreHonored` also `Ordered` (calls of a process land in
  the order they were issued). `Dormant`, `Final`, `Counted` and `Kept` are the
  parts that need it. Neither hypothesis can be dropped: TLC refutes each of the
  three with reclaim on, and `NotUnrun` over pooled connections.

**`StorageCasProofs`**

- `RefsCover`: the count is at least the holders. The invariant `Inv` adds
  `Kinds` (whether a row is inline depends on its content only). `RowMoves`
  classifies what any step does to a row (one acquire, one release, a claim at
  zero, ageing), `TakesCovers` and `DropsCovers` compare that with the puts
  that enter or leave the holders.
- `LossWindow`: a step that makes or leaves a holder without its bytes is a
  sweep's unlink (`HeldIsCounted`, `HeldFileStays`, `LossStep`).
- `EmbeddedHolds`: with the embedded store a held key is always readable. The
  invariant adds `Unowned`: while a claimed file waits for its unlink, its key
  has no row, because no put is inside a turn at that time.
- `RefsAreExact`: with no failed verb and no crash the count *is* the number of
  holders (`Faultless => Exact`); every verb moves the two together.
- `FilesAccounted`, with the embedded store: only a crash or a failed unlink
  leaves a file without a row. `OrphanInv` has `Accounted` (a file has a row, or
  a sweep is about to unlink it) and `Unpublished` (until a put's turn ends
  nobody else publishes its content, so its rollback leaves nothing).
- `GraceIsHonored`, with the embedded store, by `ClaimsRipe`: what a sweep is
  still to claim has sat at zero for the grace window, since it listed in the
  same turn. A connector store does not keep this (section 5).
- `AlarmsAreCaused`, for both. `AgesTogether` keeps the age of a row and that of
  the put that created it equal until the put has published or rolled back, and
  `Exact` gives the row a put that refers to it, so the claim holds when the row
  is read (`ReadHasCause`). `Seen` carries it to the check of the file, over
  whatever runs in between: a put that has its reference never publishes again
  and keeps its birth (`PutGoesOn`), and faults are not taken back.
- `EmbeddedVerifyIsQuiet`, with the embedded store. `Checked`: from the read of a
  row to the check of its file the row stays and no put is in its turn; the
  exact count gives the row a holder, which can read its bytes
  (`EmbeddedHolds`), so the file is there.
- `TypeCorrect`, which includes that a row is stamped exactly at zero.

**`CouchbaseStorageStoreProofs`**

- `ContractImplemented`: `Spec` implements `MetaStore!Spec`. The invariant
  `Inv` says what a call about to write knows (`Reading`): its verb has
  something to do on what it read, and a document with the CAS it read *is*
  what it read, since no document has a CAS still to be given (`CasInv`).
  `WritesTake` shows that such a write is the verb's effect on the row,
  `StepImplements` maps each step to a step of the contract or a stutter.
- `TypeCorrect`, which includes that no reader sees a broken stamp and that
  another owner's document is left alone.

**`UploadSessionProofs`**

- `IndexedHasFile`, `PublishedFinishes`, `NoResidue`. The invariant
  `ObjectInv` says which calls an object can have seen at each place of its
  file: `Finalizes` (a finalize that is alone writes the row of a file that is
  there and whose key nobody knows), `Sessions` (a finalize that succeeded has
  dropped the session), `Releases`, `PutPlaces`.
- `NoHoles`. The invariant `HoleInv` adds that every marker and every cell a
  segment has sent is backed by bytes; a full cover then means full bytes.
- `SpansAreExact`: `mergeSpans` and `missingSpans` compute the union of the
  markers and its complement, ordered and apart, for any markers in any listing.
  `NothingMissing` ties that to the set `Finalize` asks about. A loop over a list
  is a run of states, one per position (`LoopRuns`); what its first state has and
  its body keeps, its last has (`UpTo`, `LoopKeeps`). `MergeOneKeeps` and the
  corresponding steps of `MissingLoop` are the two bodies, `MergeFacts` and
  `MissingFacts` what the loops return. `UpTo` is an induction over positions,
  from the least position where it fails, and takes a set and not a predicate, since
  the library's induction theorems are out of the provers' reach.
- `TypeCorrect`, which includes that neither segments nor markers pass the
  declared size.

**`IdempotencyProofs`**

- `OneExecution`, `RecordStays`. The invariant `Inv` adds `Places` (an answer is
  open exactly as long as the gate or the action is at work) and `Reserves` (a
  request that holds its key and has not overrun owns the entry, which is its
  own reservation): a setnx that wins finds no such owner, and a late del or
  set of another request would be that of a second owner.
- `ReplayOfSame`, which holds without the assumption on lifetimes: `Entries`
  says that an envelope is that of a request which was answered itself, under
  the key it is stored under.
- `NoDeadReservation`, by `Left`. `TypeCorrect`.

**`RenderCacheProofs`**

- `InvalidationIsFinal`. A superseded copy can come back to a replica from its
  Map, from a request that renders or warms, from a set of another replica,
  from redis, or from its own set that redis has not executed. `Unexcused` says
  that after an event which could reach a page none of these holds one (`Fresh`),
  except the last two, and those only ahead of a deletion that is behind every
  superseded set and that no get of the page overtakes (`Purged`). The invariant
  `RenderInv` adds `Registered`, without which an event would miss a copy of the
  Map, and the types.
- `TypeCorrect`, with `Holding` (where a request has a copy) and `Asked` (a
  queued read is the only one of the request that waits for it). It includes
  the bound of the Map.
- `VictimIsUnique`: `Ordered` says that the accesses of a Map order its copies
  totally, so a full Map has exactly one copy to evict. This is also why
  `Evictions` can be a set of choices without ever offering two or none.

**`LockoutProofs`**

- `OneHolderPerKey`: the mutual exclusion `withKeyLock` is there for. `KeyHeld`
  and `Queued` (the queue has distinct calls that wait) carry each other
  through `Finish`, whose effect on them is the lemma `FinishMoves`.
- `FailuresCount`. `Counting` says what a failure between read and write is
  about to add; `ReadAdds` is the step that reads, where the count of the entry
  has to be the number of recorded failures, and `CountStep` the step that
  writes.
- `LockStays`: by `Unlocked`, nobody is about to write over a lock in force
  unless it was overtaken. `TypeCorrect`.

The assumptions are those named in the modules: finite sets of jobs, puts,
blobs and pages, positive limits, a `None` outside the data
(`NoneAssumption`), equal contents on the same side of the inline threshold,
`Grace >= 1` (a zero `sweepGrace` is replaced by the default in
`lib/storage/src/main.js`). The theorems with a hypothesis of their own are
`EmbeddedHolds`, `FilesAccounted`, `GraceIsHonored` and `EmbeddedVerifyIsQuiet`
(`Embedded`) and the three of `JobRecordsProofs` named above; each hypothesis is the deployment of the run
that checks the property.

Only model-checked: the liveness properties (`EveryEntryLeaves`,
`NoImmortalRecord`, `ZeroRefsCollected`, `NothingImmortal`, `AllAnswered`,
`StaleGone`, `Answered`, and `EveryCallAnswered` of both modules that have one),
which rest on fairness and are out of the prover's reach. `ContractImplemented`
is about `MetaStore!Spec`, which states none. The other way round, `TypeOK` of
`CouchbaseStorageStore`, `VictimIsUnique` and `TerminalIsFinal` are proved, and
in no run.

## 5. Where the code and its documentation disagree

Two runs end in a counterexample to something a comment of the code states.

- `job_clobber` / `SelfCorrects`. A reclaim that has read a slow job's running
  record writes its synthetic failure after the real outcome; nothing
  corrects it afterwards. `update()` is not sequential per id
  (`lib/job/src/main.js:1038`).
- `cache_evict` / `NothingWarmedBack`. With a full Map an eviction goes through
  `delete()` and drops the page's registration, although redis still holds
  the body. The event that follows finds nothing to delete there, and the next
  request warms the stale body back (`lib/cache/src/main.js:121`). The instance is a
  single replica with two pages and `Cap` 1; `cache_tiers` has one page,
  so that nothing is evicted, and `unregistered` excuses the same effect of an
  expired or cleared Map.

More showed up while modelling and are stated as conditions of properties.

*Jobs.* `create` queues the entry before its set has landed; a drain started by
another job picks it up, and over pooled connections its get may be answered
first: the job is dropped unrun (`lib/job/src/main.js:890`). Therefore
`AttemptsHonored` is checked for calls that land in order. The set
that counts an attempt may fail; the function runs anyway, uncounted, and may
run more often than `maxAttempts`. After a write that failed, the webhook
announces an outcome that is not stored (`NotifiedWhenFinal` is claimed while
the store reports no error).

*Blobs.* `removeIfZero` looks at the count alone: over a connector store a key
that was listed, revived and released again is collected without its grace
window (`meta-store.js:232`; with the embedded store listing and claiming share
a turn, and `GraceHonored` holds). A row's `createdAt` is when the upload
began, so after a slow upload the age gate of `verify` does not cover the time
between acquire and rename (`local-cas.js:787`): over a connector a put that is
publishing is reported, which the doc at `local-cas.js:408` says must never
happen. There too the file is looked for only in the callback of the get
(`local-cas.js:609`), so that a row is also reported whose put has failed and
rolled back, or whose blob was released and collected, since it was read.
`AlarmsHaveCause` says what is left. A put whose store call failed
although it was applied, or whose rollback failed, leaves a reference nobody
holds, although the doc of `put` says a caller that got no key never leaves a
refcount behind: `RefsExact` is claimed while the store does not fail. The boot
sweep goes by mtime, so a sibling's stream that stalls for longer than the
grace window loses its temp file, although the comment there says it never
does; the put then fails and loses nothing silently.

*Uploads.* `abortUpload` promises to discard everything the session
accumulated, but bytes that a finalize published before its row write failed
stay, without a row and without the session (`local-stream.js:1135`). A second
`finalize` in flight can write the row of an object that the caller of the
first has already released (`RowHasFile` excludes it, by `doubled`).

*Idempotency.* A reservation that expires under a running execution is taken by
the next request; the first one's late del or set then hits the second's entry
(`overran` in `Exclusive` and `RecordKept`; `lib/idempotency/src/main.js:279`
asks for an `inflightTtl` above the slowest request). A request that loses the
setnx to an entry that has vanished by its get executes without a capture
(`main.js:421`): it excludes nobody and records nothing.

*Lockout.* Over a store that processes share, which `lib/authn/src/lockout.js:40` recommends,
a failure that has read before another process wrote is written over that
process's count, clearance or lock (`overtaken`). A store that throws inside
the callback of a read, where the try of `withKeyLock` does not reach, leaves
the key taken for ever (`stuck`); one that throws when a queued call starts
swallows the callback of the call before it (`lost`). The comment at
`lockout.js:203` describes the thrown store as dealt with;
`EveryCallAnswered` holds for the throw it catches and excludes these two.

## 6. What is not modelled, and why

Within the modelled components: metadata that only travels with a record
(names, payloads, errors' texts), `get`, `stat`, `list` and `stats`, which
only read; the memory job store, which is the asynchronous one with no gap;
the Redis store's index and TTL keys; how Couchbase connects and how
`settleOnce` makes callbacks single-shot (assumed). fsync is not modelled
(beyond its failing on a file that is gone), since a crash here is the death of
a process, which the page cache survives.

Uploads: the asset directory of a put that fails before it publishes may stay
behind, empty; `FailedPutLeavesNothing` is about its bytes.

Idempotency: parsing and hashing of headers and bodies, the configuration lint,
and what a replay restores of a response. Lockout: one account, since keys do
not meet; process crashes, after which a queue is gone and the store is as it
was; key normalisation, the audit record of an unlock, the memory store's
sweep. Render cache: the `fs` strategy, sliding windows, entries without a ttl,
`delete(key)` alone, the two keys a URL has (taken as one page), and a command
that takes longer than a tick. Key-value namespaces: counters,
compare-and-delete and the single-flight `getOrSet`, which no modelled service
uses.

`inlineThreshold` is fixed for a behaviour. Raising it between a crash that
left a row without its file and a new put of the same content is a hazard
listed in `PROJECT.json` without a property.

Other components: the request pipeline (`core/server*.js`, router,
controllers, renderers) is a long sequential program whose state belongs to
one request; the HTTP/2 engine rests on node's own state machine; connectors
are query plumbing over drivers; validator, CSRF, CSP, merge, i18n, collection
and dto are pure functions whose content is text and object shapes; logger,
metrics, watchers, the command line and image builder are input and output;
`core/asset` is third-party and generated front-end code.

## 7. Plan

In order of what would hurt most if wrong. Each module comes with a type
invariant, its hazards' properties, mutants and, where marked, proofs.

1. The audit chain (`lib/audit`): serialised appends over a store, rotation, the
   verifier as a reference definition. Property: a chain that was written
   verifies, also across a restart.
2. The Redis job store's index and TTL keys, under `JobWorker`: its sweep reads
   ids first and deletes them in a later MULTI.
3. `getOrSet` of `lib/kv`, with a load that races a delete; the maintenance
   switch; the rate limit on kv counters.
4. A theorem that relates the layers: `StorageCas` takes the verbs of the store
   as single steps, `CouchbaseStorageStore` proves that they are; a composition
   with both would carry `RefsCover` down to the documents.
