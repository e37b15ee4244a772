------------------------------ MODULE JobWorker ------------------------------
(***************************************************************************)
(* The deferred-job worker of lib/job (src/main.js) running over a         *)
(* connector-backed job store: every store call is asynchronous, may fail, *)
(* and is shared with the other processes of the bundle.  A process that   *)
(* creates a job holds its function, so only that process can run it; any  *)
(* process may reclaim or purge its record.                                *)
(*                                                                         *)
(* A store call is two moments of the code: the one that issues it (the    *)
(* place an entry waits at) and the one where it lands and its callback    *)
(* runs.  Timestamps are kept as ages in ticks, which is what the code     *)
(* compares; see Tick.                                                     *)
(***************************************************************************)
EXTENDS Integers, FiniteSets

CONSTANTS
    Procs,              \* processes of the bundle that share the store
    Jobs,               \* ids create() hands out
    MaxConcurrency,     \* jobs.maxConcurrency, per process
    MaxAttempts,        \* opts.maxAttempts of each job
    Urgency,            \* opts.urgency of each job, 0 is the most urgent
    Callback,           \* jobs created with a callbackUrl
    Backoff,            \* jobs.retryBackoffMs, in ticks
    Ttl,                \* jobs.ttl, in ticks
    OrphanTimeout,      \* jobs.orphanTimeout, in ticks; 0 disables reclaim
    SweepProcs,         \* processes whose sweep timer is armed
    Ordered,            \* TRUE: one connection, calls of a process land in order
    WebhookMaxAttempts, \* jobs.webhookMaxAttempts
    MaxCrashes, MaxErrors, MaxRemoves, \* bounds on what the environment does
    None

Delay(n) == Backoff * 2 ^ (n - 1)

ASSUME JobAssumption ==
    /\ IsFiniteSet(Jobs)
    /\ MaxConcurrency \in Nat \ {0}
    /\ MaxAttempts \in [Jobs -> Nat \ {0}]
    /\ Urgency \in [Jobs -> 0..7]
    /\ Callback \subseteq Jobs
    /\ Ttl \in Nat \ {0}
    /\ OrphanTimeout \in Nat
    /\ SweepProcs \subseteq Procs
    /\ Ordered \in BOOLEAN
    /\ WebhookMaxAttempts \in Nat \ {0}
    /\ {MaxCrashes, MaxErrors, MaxRemoves} \subseteq Nat
    /\ None \notin Procs \cup Jobs \cup Nat
    /\ \A j \in Jobs : \A n \in 1..MaxAttempts[j] : Delay(n) \in Nat

VARIABLES
    at,       \* where each entry { id, fn } is: in the queue, at a store call...
    owner,    \* the process that created the job and holds its function
    ahead,    \* entries that were already queued when this one was pushed
    running,  \* _running of each process
    pump,     \* processes with a setImmediate(drain) pending
    landing,  \* jobs whose create() set has not landed
    tries,    \* entry.attempts
    outcome,  \* the state settle() is about to write
    timer,    \* ticks left on the retry timer
    draft,    \* the record a pending set will write
    store,    \* the job store
    sweeper,  \* the reclaim-and-purge pass of each process
    due,      \* processes whose sweep timer has fired
    hook,     \* delivery of the completion webhook
    runs,     \* how many times fn was really invoked (history)
    crashes, errors, removes

entryVars  == <<at, owner, ahead, running, pump>>
jobVars    == <<tries, outcome, timer, draft>>
faultVars  == <<crashes, errors, removes>>
vars == <<at, owner, ahead, running, pump, landing, tries, outcome, timer,
          draft, store, sweeper, due, hook, runs, crashes, errors, removes>>

-----------------------------------------------------------------------------
(* Places of an entry.  A worker slot is held from the dequeue to the       *)
(* callback of the settling write.                                          *)

Slotted == {"reading", "marking", "executing", "merging", "settling"}
InStoreCall == {"reading", "marking", "merging", "settling"}
Place == {"unborn", "queued", "backoff", "gone"} \cup Slotted

STATES == {"pending", "running", "completed", "failed"}
Terminal == {"completed", "failed"}

JobRecord == [state    : STATES,
              attempts : Nat,
              error    : {"none", "attempt", "orphan"},
              age      : Nat,                \* now - updatedAt
              wait     : Nat,                \* nextRetryAt - updatedAt
              ttl      : Nat \cup {None},    \* expiresAt - now, 0 once past
              notified : {"no", "delivered", "failed"}]

NewRecord == [state |-> "pending", attempts |-> 0, error |-> "none", age |-> 0,
              wait |-> 0, ttl |-> None, notified |-> "no"]

ASSUME NoneAssumption == None \notin JobRecord

Present(j) == store[j] # None

IdleSweep == [at |-> "idle", class |-> "running", todo |-> {}, job |-> None, rec |-> None]
IdleHook  == [at |-> "idle", attempt |-> 0, ok |-> FALSE, rec |-> None]

Sweep == [at    : {"idle", "listing", "reading", "writing", "purging"},
          class : {"running", "pending"},
          todo  : SUBSET Jobs,
          job   : Jobs \cup {None},
          rec   : JobRecord \cup {None}]

Hook == [at      : {"idle", "posting", "reading", "writing"},
         attempt : Nat,
         ok      : BOOLEAN,
         rec     : JobRecord \cup {None}]

Init ==
    /\ at = [j \in Jobs |-> "unborn"]
    /\ owner = [j \in Jobs |-> None]
    /\ ahead = [j \in Jobs |-> {}]
    /\ running = [p \in Procs |-> 0]
    /\ pump = {}
    /\ landing = {}
    /\ tries = [j \in Jobs |-> 0]
    /\ outcome = [j \in Jobs |-> "pending"]
    /\ timer = [j \in Jobs |-> 0]
    /\ draft = [j \in Jobs |-> None]
    /\ store = [j \in Jobs |-> None]
    /\ sweeper = [p \in Procs |-> IdleSweep]
    /\ due = {}
    /\ hook = [j \in Jobs |-> IdleHook]
    /\ runs = [j \in Jobs |-> 0]
    /\ crashes = 0 /\ errors = 0 /\ removes = 0

-----------------------------------------------------------------------------
(* The job store as the worker uses it.                                     *)

(* A get: a record, or nothing.  Every caller treats an error like a miss.  *)
Reads(j, r) ==
    \/ r = store[j] /\ UNCHANGED errors
    \/ r = None /\ errors < MaxErrors /\ errors' = errors + 1

(* A set: it lands, or it reports an error and may have landed all the same. *)
Stores(j, r) ==
    \/ store' = [store EXCEPT ![j] = r] /\ UNCHANGED errors
    \/ /\ errors < MaxErrors
       /\ errors' = errors + 1
       /\ \/ UNCHANGED store
          \/ store' = [store EXCEPT ![j] = r]

-----------------------------------------------------------------------------
(* The queue.                                                               *)

Waiting(p, places) == {j \in Jobs : owner[j] = p /\ places[j] = "queued"}

Holding(p, places) == {j \in Jobs : owner[j] = p /\ places[j] \in Slotted}

(* _dequeue takes the first entry of the lowest urgency.                    *)
Before(order, i, k) ==
    \/ Urgency[i] < Urgency[k]
    \/ Urgency[i] = Urgency[k] /\ i \in order[k]

(* The entries drain() starts when `busy` slots are taken: as many as fit,  *)
(* none of them after an entry that is left waiting.                        *)
Starts(waiting, order, busy, S) ==
    /\ \/ S = waiting /\ Cardinality(S) <= MaxConcurrency - busy
       \/ Cardinality(S) < Cardinality(waiting) /\ Cardinality(S) = MaxConcurrency - busy
    /\ \A i \in S, k \in waiting \ S : Before(order, i, k)

(* drain() of process p, once the entries are at `places`, the queue order  *)
(* is `order` and `busy` slots are taken.                                   *)
Drain(p, places, order, busy) ==
    \E S \in SUBSET Waiting(p, places) :
        /\ Starts(Waiting(p, places), order, busy, S)
        /\ at' = [j \in Jobs |-> IF j \in S THEN "reading" ELSE places[j]]
        /\ ahead' = [j \in Jobs |-> IF j \in S THEN {} ELSE order[j] \ S]
        /\ running' = [running EXCEPT ![p] = busy + Cardinality(S)]

-----------------------------------------------------------------------------
(* create(): the entry is pushed first, the record is set next, and the     *)
(* queue is pumped once the set has been answered.                          *)

Create(p, j) ==
    /\ at[j] = "unborn"
    /\ at' = [at EXCEPT ![j] = "queued"]
    /\ owner' = [owner EXCEPT ![j] = p]
    /\ ahead' = [ahead EXCEPT ![j] = Waiting(p, at)]
    /\ landing' = landing \cup {j}
    /\ UNCHANGED <<running, pump, jobVars, store, sweeper, due, hook, runs, faultVars>>

(* Mutant: the queue is pumped only when the set succeeded.                 *)
CreateLandsNoPump(j) ==
    /\ j \in landing
    /\ Stores(j, NewRecord)
    /\ landing' = landing \ {j}
    /\ pump' = IF errors' = errors THEN pump \cup {owner[j]} ELSE pump
    /\ UNCHANGED <<at, owner, ahead, running, jobVars, sweeper, due, hook, runs,
                   crashes, removes>>

CreateLands(j) ==
    /\ j \in landing
    /\ Stores(j, NewRecord)
    /\ landing' = landing \ {j}
    /\ pump' = pump \cup {owner[j]}
    /\ UNCHANGED <<at, owner, ahead, running, jobVars, sweeper, due, hook, runs,
                   crashes, removes>>

PumpQueue(p) ==
    /\ p \in pump
    /\ pump' = pump \ {p}
    /\ Drain(p, at, ahead, running[p])
    /\ UNCHANGED <<owner, landing, jobVars, store, sweeper, due, hook, runs, faultVars>>

-----------------------------------------------------------------------------
(* runOne(): read the record, mark it running, call fn.                     *)

(* With one connection the get follows the set of create(); with a pool     *)
(* the server may answer it first.                                          *)
MayRead(j) == at[j] = "reading" /\ (Ordered => j \notin landing)

PickUp(j) ==
    /\ MayRead(j)
    /\ \E r \in {store[j]} \ {None} :
        /\ Reads(j, r)
        /\ tries' = [tries EXCEPT ![j] = r.attempts + 1]
        /\ draft' = [draft EXCEPT ![j] =
                       [r EXCEPT !.state = "running", !.age = 0, !.attempts = @ + 1]]
    /\ at' = [at EXCEPT ![j] = "marking"]
    /\ UNCHANGED <<owner, ahead, running, pump, landing, outcome, timer, store, sweeper,
                   due, hook, runs, crashes, removes>>

(* Mutant: the entry is dropped and its slot freed twice.                   *)
VanishedFreesTwice(j) ==
    /\ MayRead(j)
    /\ Reads(j, None)
    /\ Drain(owner[j], [at EXCEPT ![j] = "gone"], ahead, running[owner[j]] - 2)
    /\ UNCHANGED <<owner, pump, landing, jobVars, store, sweeper, due, hook, runs,
                   crashes, removes>>

(* Mutant: the entry is dropped and its slot never freed.                   *)
VanishedKeepsSlot(j) ==
    /\ MayRead(j)
    /\ Reads(j, None)
    /\ Drain(owner[j], [at EXCEPT ![j] = "gone"], ahead, running[owner[j]])
    /\ UNCHANGED <<owner, pump, landing, jobVars, store, sweeper, due, hook, runs,
                   crashes, removes>>

(* The record vanished, or the get failed: the entry is dropped.            *)
Vanished(j) ==
    /\ MayRead(j)
    /\ Reads(j, None)
    /\ Drain(owner[j], [at EXCEPT ![j] = "gone"], ahead, running[owner[j]] - 1)
    /\ UNCHANGED <<owner, pump, landing, jobVars, store, sweeper, due, hook, runs,
                   crashes, removes>>

(* An error of the running transition is ignored: fn runs either way.       *)
MarkLands(j) ==
    /\ at[j] = "marking"
    /\ Stores(j, draft[j])
    /\ at' = [at EXCEPT ![j] = "executing"]
    /\ draft' = [draft EXCEPT ![j] = None]
    /\ runs' = [runs EXCEPT ![j] = @ + 1]
    /\ UNCHANGED <<owner, ahead, running, pump, landing, tries, outcome, timer, sweeper,
                   due, hook, crashes, removes>>

-----------------------------------------------------------------------------
(* settle(): choose the state to write, merge it into the record, free the  *)
(* slot, drain, then arm the retry timer or the webhook.                    *)

(* Mutant: one attempt too many.                                            *)
MayRetryLong(j) == tries[j] <= MaxAttempts[j]

MayRetry(j) == tries[j] < MaxAttempts[j]

FnReturns(j) ==
    /\ at[j] = "executing"
    /\ outcome' = [outcome EXCEPT ![j] = "completed"]
    /\ at' = [at EXCEPT ![j] = "merging"]
    /\ UNCHANGED <<owner, ahead, running, pump, landing, tries, timer, draft, store,
                   sweeper, due, hook, runs, faultVars>>

FnThrows(j) ==
    /\ at[j] = "executing"
    /\ outcome' = [outcome EXCEPT ![j] = IF MayRetry(j) THEN "pending" ELSE "failed"]
    /\ at' = [at EXCEPT ![j] = "merging"]
    /\ UNCHANGED <<owner, ahead, running, pump, landing, tries, timer, draft, store,
                   sweeper, due, hook, runs, faultVars>>

Settled(r, state, n) ==
    CASE state = "pending" ->
           [r EXCEPT !.state = state, !.error = "attempt", !.age = 0, !.wait = Delay(n)]
      [] state = "completed" ->
           [r EXCEPT !.state = state, !.error = "none", !.age = 0, !.wait = 0, !.ttl = Ttl]
      [] state = "failed" ->
           [r EXCEPT !.state = state, !.error = "attempt", !.age = 0, !.wait = 0, !.ttl = Ttl]

(* Mutant: an entry that will be retried keeps its slot while it backs off. *)
ReleaseKeepsSlot(j) ==
    LET retry == outcome[j] = "pending"
        next  == IF retry THEN "backoff" ELSE "gone"
        freed == IF retry THEN 0 ELSE 1
    IN  /\ Drain(owner[j], [at EXCEPT ![j] = next], ahead, running[owner[j]] - freed)
        /\ timer' = [timer EXCEPT ![j] = IF retry THEN Delay(tries[j]) ELSE 0]

(* What settle's callback does with the entry whatever the store answered.  *)
Release(j) ==
    LET retry == outcome[j] = "pending"
        next  == IF retry THEN "backoff" ELSE "gone"
    IN  /\ Drain(owner[j], [at EXCEPT ![j] = next], ahead, running[owner[j]] - 1)
        /\ timer' = [timer EXCEPT ![j] = IF retry THEN Delay(tries[j]) ELSE 0]

SettleReads(j) ==
    /\ at[j] = "merging"
    /\ \E r \in {store[j]} \ {None} :
        /\ Reads(j, r)
        /\ draft' = [draft EXCEPT ![j] = Settled(r, outcome[j], tries[j])]
    /\ at' = [at EXCEPT ![j] = "settling"]
    /\ UNCHANGED <<owner, ahead, running, pump, landing, tries, outcome, timer, store,
                   sweeper, due, hook, runs, crashes, removes>>

SettleVanished(j) ==
    /\ at[j] = "merging"
    /\ Reads(j, None)
    /\ Release(j)
    /\ UNCHANGED <<owner, pump, landing, tries, outcome, draft, store, sweeper, due, hook,
                   runs, crashes, removes>>

(* Mutant: the webhook fires after every attempt.                           *)
SettleLandsHooksAll(j) ==
    /\ at[j] = "settling"
    /\ Stores(j, draft[j])
    /\ Release(j)
    /\ draft' = [draft EXCEPT ![j] = None]
    /\ hook' = IF j \in Callback
               THEN [hook EXCEPT ![j] = [IdleHook EXCEPT !.at = "posting", !.attempt = 1]]
               ELSE hook
    /\ UNCHANGED <<owner, pump, landing, tries, outcome, sweeper, due, runs, crashes,
                   removes>>

SettleLands(j) ==
    /\ at[j] = "settling"
    /\ Stores(j, draft[j])
    /\ Release(j)
    /\ draft' = [draft EXCEPT ![j] = None]
    /\ hook' = IF outcome[j] # "pending" /\ j \in Callback
               THEN [hook EXCEPT ![j] = [IdleHook EXCEPT !.at = "posting", !.attempt = 1]]
               ELSE hook
    /\ UNCHANGED <<owner, pump, landing, tries, outcome, sweeper, due, runs, crashes,
                   removes>>

(* scheduleRetry's timer re-enters through the queue.                       *)
RetryFires(j) ==
    /\ at[j] = "backoff"
    /\ timer[j] = 0
    /\ Drain(owner[j], [at EXCEPT ![j] = "queued"],
             [ahead EXCEPT ![j] = Waiting(owner[j], at)], running[owner[j]])
    /\ UNCHANGED <<owner, pump, landing, jobVars, store, sweeper, due, hook, runs,
                   faultVars>>

-----------------------------------------------------------------------------
(* deliverWebhook(): a bounded number of posts, then one update().          *)

HookAccepted(j) ==
    /\ hook[j].at = "posting"
    /\ hook' = [hook EXCEPT ![j].at = "reading", ![j].ok = TRUE]
    /\ UNCHANGED <<entryVars, landing, jobVars, store, sweeper, due, runs, faultVars>>

HookRefused(j) ==
    /\ hook[j].at = "posting"
    /\ hook' = IF hook[j].attempt >= WebhookMaxAttempts
               THEN [hook EXCEPT ![j].at = "reading", ![j].ok = FALSE]
               ELSE [hook EXCEPT ![j].attempt = @ + 1]
    /\ UNCHANGED <<entryVars, landing, jobVars, store, sweeper, due, runs, faultVars>>

HookReads(j) ==
    /\ hook[j].at = "reading"
    /\ \E r \in {store[j], None} :
        /\ Reads(j, r)
        /\ hook' = [hook EXCEPT ![j] =
             IF r = None THEN IdleHook
             ELSE [@ EXCEPT !.at = "writing",
                            !.rec = [r EXCEPT !.age = 0,
                                              !.notified = IF hook[j].ok THEN "delivered"
                                                                        ELSE "failed"]]]
    /\ UNCHANGED <<entryVars, landing, jobVars, store, sweeper, due, runs, crashes, removes>>

HookWrites(j) ==
    /\ hook[j].at = "writing"
    /\ Stores(j, hook[j].rec)
    /\ hook' = [hook EXCEPT ![j] = IdleHook]
    /\ UNCHANGED <<entryVars, landing, jobVars, sweeper, due, runs, crashes, removes>>

-----------------------------------------------------------------------------
(* sweep(): reclaimOrphans lists the running then the pending records and   *)
(* fails the stranded ones one update() at a time; then the store purges.   *)

Stranded(r) ==
    r.age > OrphanTimeout + (IF r.state = "pending" THEN r.wait ELSE 0)

(* Mutant: a reclaimed record is given no expiry.                           *)
ReclaimedForGood(r) ==
    [r EXCEPT !.state = "failed", !.error = "orphan", !.age = 0, !.wait = 0]

Reclaimed(r) ==
    [r EXCEPT !.state = "failed", !.error = "orphan", !.age = 0, !.wait = 0, !.ttl = Ttl]

(* The pass once the records of `todo` remain in its current class.         *)
Onward(s, todo) ==
    IF todo # {}
    THEN [s EXCEPT !.at = "reading", !.todo = todo, !.job = None, !.rec = None]
    ELSE IF s.class = "running"
         THEN [IdleSweep EXCEPT !.at = "listing", !.class = "pending"]
         ELSE [IdleSweep EXCEPT !.at = "purging"]

SweepBegins(p) ==
    /\ p \in due
    /\ sweeper[p].at = "idle"
    /\ due' = due \ {p}
    /\ sweeper' = [sweeper EXCEPT ![p].at =
                     IF OrphanTimeout = 0 THEN "purging" ELSE "listing"]
    /\ UNCHANGED <<entryVars, landing, jobVars, store, hook, runs, faultVars>>

SweepLists(p) ==
    /\ sweeper[p].at = "listing"
    /\ \/ /\ UNCHANGED errors
          /\ sweeper' = [sweeper EXCEPT ![p] =
               Onward(@, {j \in Jobs : /\ Present(j)
                                       /\ store[j].state = sweeper[p].class
                                       /\ Stranded(store[j])})]
       \/ /\ errors < MaxErrors
          /\ errors' = errors + 1
          /\ sweeper' = [sweeper EXCEPT ![p] = Onward(@, {})]
    /\ UNCHANGED <<entryVars, landing, jobVars, store, due, hook, runs, crashes, removes>>

SweepReads(p) ==
    /\ sweeper[p].at = "reading"
    /\ \E j \in sweeper[p].todo : \E r \in {store[j], None} :
        /\ Reads(j, r)
        /\ sweeper' = [sweeper EXCEPT ![p] =
             IF r = None THEN Onward(@, @.todo \ {j})
             ELSE [@ EXCEPT !.at = "writing", !.job = j, !.rec = Reclaimed(r)]]
    /\ UNCHANGED <<entryVars, landing, jobVars, store, due, hook, runs, crashes, removes>>

SweepWrites(p) ==
    /\ sweeper[p].at = "writing"
    /\ Stores(sweeper[p].job, sweeper[p].rec)
    /\ sweeper' = [sweeper EXCEPT ![p] = Onward(@, @.todo \ {@.job})]
    /\ UNCHANGED <<entryVars, landing, jobVars, due, hook, runs, crashes, removes>>

Purgeable(r) == r.state \in Terminal /\ r.ttl = 0

SweepPurges(p) ==
    /\ sweeper[p].at = "purging"
    /\ \/ /\ UNCHANGED errors
          /\ store' = [j \in Jobs |-> IF Present(j) /\ Purgeable(store[j]) THEN None
                                      ELSE store[j]]
       \/ /\ errors < MaxErrors
          /\ errors' = errors + 1
          /\ UNCHANGED store
    /\ sweeper' = [sweeper EXCEPT ![p] = IdleSweep]
    /\ UNCHANGED <<entryVars, landing, jobVars, due, hook, runs, crashes, removes>>

-----------------------------------------------------------------------------
(* The application and the environment.                                     *)

(* lib.job.remove(id), from any process.                                    *)
Remove(j) ==
    /\ removes < MaxRemoves
    /\ Present(j)
    /\ store' = [store EXCEPT ![j] = None]
    /\ removes' = removes + 1
    /\ UNCHANGED <<entryVars, landing, jobVars, sweeper, due, hook, runs, crashes, errors>>

(* A process dies and is restarted: the queue, the slots, the timers and    *)
(* the calls in flight go with it, the store stays.                         *)
Crash(p) ==
    LET mine == {j \in Jobs : owner[j] = p} IN
    /\ crashes < MaxCrashes
    /\ crashes' = crashes + 1
    /\ at' = [j \in Jobs |-> IF j \in mine THEN "gone" ELSE at[j]]
    /\ ahead' = [j \in Jobs |-> IF j \in mine THEN {} ELSE ahead[j]]
    /\ running' = [running EXCEPT ![p] = 0]
    /\ pump' = pump \ {p}
    /\ landing' = landing \ mine
    /\ timer' = [j \in Jobs |-> IF j \in mine THEN 0 ELSE timer[j]]
    /\ draft' = [j \in Jobs |-> IF j \in mine THEN None ELSE draft[j]]
    /\ hook' = [j \in Jobs |-> IF j \in mine THEN IdleHook ELSE hook[j]]
    /\ sweeper' = [sweeper EXCEPT ![p] = IdleSweep]
    /\ due' = due \ {p}
    /\ UNCHANGED <<owner, tries, outcome, store, runs, errors, removes>>

(* Time passes.  A tick is long beside a store call or a sweep pass, so it  *)
(* waits for them and for due retry timers; a job function, a queue or a    *)
(* webhook may take any number of ticks.                                    *)
Quiet ==
    /\ landing = {} /\ pump = {}
    /\ \A j \in Jobs : /\ at[j] \notin InStoreCall
                       /\ at[j] = "backoff" => timer[j] > 0
                       /\ hook[j].at \in {"idle", "posting"}
    /\ \A p \in Procs : sweeper[p].at = "idle"

(* Ages stop at the value past which no comparison changes.                 *)
Older(r) ==
    IF r.state \in Terminal
    THEN [r EXCEPT !.ttl = IF @ = None \/ @ = 0 THEN @ ELSE @ - 1]
    ELSE [r EXCEPT !.age = IF @ > OrphanTimeout + r.wait THEN @ ELSE @ + 1]

Tick ==
    /\ Quiet
    /\ store' = [j \in Jobs |-> IF Present(j) THEN Older(store[j]) ELSE None]
    /\ timer' = [j \in Jobs |-> IF timer[j] > 0 THEN timer[j] - 1 ELSE 0]
    /\ due' = SweepProcs
    /\ UNCHANGED <<entryVars, landing, tries, outcome, draft, sweeper, hook, runs, faultVars>>

-----------------------------------------------------------------------------
JobStep(j) ==
    \/ CreateLands(j)
    \/ PickUp(j)
    \/ Vanished(j)
    \/ MarkLands(j)
    \/ FnReturns(j)
    \/ FnThrows(j)
    \/ SettleReads(j)
    \/ SettleVanished(j)
    \/ SettleLands(j)
    \/ RetryFires(j)
    \/ HookAccepted(j)
    \/ HookRefused(j)
    \/ HookReads(j)
    \/ HookWrites(j)

ProcStep(p) ==
    \/ PumpQueue(p)
    \/ SweepBegins(p)
    \/ SweepLists(p)
    \/ SweepReads(p)
    \/ SweepWrites(p)
    \/ SweepPurges(p)

Next ==
    \/ \E p \in Procs, j \in Jobs : Create(p, j)
    \/ \E j \in Jobs : JobStep(j)
    \/ \E p \in Procs : ProcStep(p)
    \/ \E j \in Jobs : Remove(j)
    \/ \E p \in Procs : Crash(p)
    \/ Tick

Spec == Init /\ [][Next]_vars

(* The event loop runs what is ready, the store answers, job functions and  *)
(* webhooks end, and time passes.  Nobody has to create, remove or crash.   *)
Fairness ==
    /\ \A j \in Jobs : WF_vars(JobStep(j))
    /\ \A p \in Procs : WF_vars(ProcStep(p))
    /\ WF_vars(Tick)

FairSpec == Spec /\ Fairness

-----------------------------------------------------------------------------
(* Type correctness of the worker, the store and the passes over it.        *)
TypeOK ==
    /\ at \in [Jobs -> Place]
    /\ owner \in [Jobs -> Procs \cup {None}]
    /\ ahead \in [Jobs -> SUBSET Jobs]
    /\ running \in [Procs -> Nat]
    /\ pump \subseteq Procs
    /\ landing \subseteq Jobs
    /\ tries \in [Jobs -> Nat]
    /\ outcome \in [Jobs -> {"pending", "completed", "failed"}]
    /\ timer \in [Jobs -> Nat]
    /\ draft \in [Jobs -> JobRecord \cup {None}]
    /\ store \in [Jobs -> JobRecord \cup {None}]
    /\ sweeper \in [Procs -> Sweep]
    /\ due \subseteq Procs
    /\ hook \in [Jobs -> Hook]
    /\ runs \in [Jobs -> Nat]
    /\ {crashes, errors, removes} \subseteq Nat

(* The counter _running is exactly the number of entries holding a slot and *)
(* never passes maxConcurrency: no path of runOne() or settle(), a vanished *)
(* record and a failed store call included, frees a slot twice or keeps it. *)
SlotsAccounted ==
    \A p \in Procs : /\ running[p] = Cardinality(Holding(p, at))
                     /\ running[p] <= MaxConcurrency

(* No lost wake-up: while an entry waits beside a free slot, a drain() is   *)
(* still to come, from setImmediate or from a create() set in flight.       *)
NoLostWakeup ==
    \A p \in Procs :
        running[p] < MaxConcurrency /\ Waiting(p, at) # {} =>
            p \in pump \/ \E j \in landing : owner[j] = p

(* maxAttempts is honoured: a record reads `failed` by its own function     *)
(* only after the last attempt allowed has really run, whatever the store   *)
(* answered; without errors no function runs more often than that; and      *)
(* while its process lives and no record is removed either, none is let go  *)
(* of unrun: the pump waits for the record to land, so the vanished-record  *)
(* guard only meets one that was removed.                                   *)
FailedAfterLast(j) ==
    Present(j) /\ store[j].state = "failed" /\ store[j].error = "attempt" =>
        runs[j] >= MaxAttempts[j]

NotOverrun(j) == errors = 0 => runs[j] <= MaxAttempts[j]

NotUnrun(j) ==
    errors = 0 /\ removes = 0 /\ crashes = 0 /\ at[j] = "gone" => runs[j] > 0

AttemptsHonored == \A j \in Jobs : FailedAfterLast(j) /\ NotOverrun(j) /\ NotUnrun(j)

(* Without reclaim, completed and failed are final: no retry, no webhook    *)
(* update and no late set moves a record out of them.                       *)
TerminalIsFinal ==
    [][\A j \in Jobs :
         Present(j) /\ Present(j)' /\ store[j].state \in Terminal =>
             store'[j].state = store[j].state]_store

(* Over a store without errors the webhook is only ever posted for an       *)
(* outcome the record holds, and its verdict only recorded on the record of *)
(* an entry that will not run again.                                        *)
NotifiedWhenFinal ==
    errors = 0 => \A j \in Jobs :
        Present(j) /\ (store[j].notified # "no" \/ hook[j].at # "idle") =>
            store[j].state \in Terminal /\ at[j] = "gone"

(* A record reclaimed while its origin was merely slow self-corrects: once  *)
(* the origin has written `completed` and no pass is under way, the record  *)
(* says so.                                                                 *)
SelfCorrects ==
    \A j \in Jobs :
        /\ at[j] = "gone" /\ outcome[j] = "completed" /\ Present(j)
        /\ \A p \in Procs : sweeper[p].at = "idle"
        => store[j].state = "completed"

(* A queued entry is eventually run to its last attempt or let go of: a     *)
(* failing store or a failing function never wedges the queue.              *)
EveryEntryLeaves == \A j \in Jobs : at[j] = "queued" ~> at[j] = "gone"

(* No record stays forever, whatever crash, failed call or race stranded    *)
(* it: a poller of a job id gets a final answer, then none.                 *)
NoImmortalRecord == \A j \in Jobs : Present(j) ~> ~Present(j)
=============================================================================
