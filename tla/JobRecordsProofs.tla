-------------------------- MODULE JobRecordsProofs --------------------------
(***************************************************************************)
(* Theorems about the records of JobWorker: maxAttempts is honoured, the   *)
(* webhook speaks of a final record, and final records stay final.         *)
(*                                                                         *)
(* All are about one job at a time.  The first part reduces every step of  *)
(* the worker to what it does to one job (JobMoves); the invariants are    *)
(* then statements about a job, kept by each of its moves.                 *)
(***************************************************************************)
EXTENDS JobWorkerProofs

(* A reclaim pass of p is about to write the record of j.                   *)
Writing(p, j) == sweeper[p].at = "writing" /\ sweeper[p].job = j

(* The records the worker derives from the one it read.                     *)
Marked(r)     == [r EXCEPT !.state = "running", !.age = 0, !.attempts = @ + 1]
Verdict(r, n) == [r EXCEPT !.age = 0, !.notified = n]

(* What they have in common with it.                                        *)
LEMMA RecordFacts ==
    ASSUME NEW r \in JobRecord
    PROVE  /\ Marked(r).state = "running" /\ Marked(r).attempts = r.attempts + 1
           /\ Marked(r).notified = r.notified
           /\ \A n : /\ Verdict(r, n).state = r.state
                     /\ Verdict(r, n).attempts = r.attempts
                     /\ Verdict(r, n).error = r.error
           /\ Reclaimed(r).state = "failed" /\ Reclaimed(r).error = "orphan"
           /\ Reclaimed(r).attempts = r.attempts /\ Reclaimed(r).notified = r.notified
           /\ Older(r).state = r.state /\ Older(r).error = r.error
           /\ Older(r).attempts = r.attempts /\ Older(r).notified = r.notified
<1>1. /\ Marked(r).state = "running" /\ Marked(r).attempts = r.attempts + 1
      /\ Marked(r).notified = r.notified
  BY DEF Marked, JobRecord
<1>2. \A n : /\ Verdict(r, n).state = r.state
             /\ Verdict(r, n).attempts = r.attempts
             /\ Verdict(r, n).error = r.error
  BY DEF Verdict, JobRecord
<1>3. /\ Reclaimed(r).state = "failed" /\ Reclaimed(r).error = "orphan"
      /\ Reclaimed(r).attempts = r.attempts /\ Reclaimed(r).notified = r.notified
  BY DEF Reclaimed, JobRecord
<1>4. /\ Older(r).state = r.state /\ Older(r).error = r.error
      /\ Older(r).attempts = r.attempts /\ Older(r).notified = r.notified
  BY DEF Older, JobRecord
<1> QED
  BY <1>1, <1>2, <1>3, <1>4

(* A settled record has the outcome of its attempt for a state.             *)
LEMMA SettledFacts ==
    ASSUME NEW r \in JobRecord, NEW n, NEW s \in {"pending", "completed", "failed"}
    PROVE  /\ Settled(r, s, n).state = s /\ Settled(r, s, n).attempts = r.attempts
           /\ Settled(r, s, n).notified = r.notified
<1>1. CASE s = "pending"
  BY <1>1 DEF Settled, JobRecord
<1>2. CASE s = "completed"
  BY <1>2 DEF Settled, JobRecord
<1>3. CASE s = "failed"
  BY <1>3 DEF Settled, JobRecord
<1> QED
  BY <1>1, <1>2, <1>3

-----------------------------------------------------------------------------
(* What a step leaves alone of one job.                                     *)
SameEntry(j)   == /\ tries'[j] = tries[j] /\ outcome'[j] = outcome[j]
                  /\ draft'[j] = draft[j] /\ runs'[j] = runs[j]
SameLanding(j) == j \in landing' <=> j \in landing
SameRecord(j)  == store'[j] = store[j]
SameHook(j)    == hook'[j] = hook[j]
SamePasses(j)  == \A p \in Procs : sweeper'[p].at = "writing" /\ sweeper'[p].job = j =>
                                      Writing(p, j) /\ sweeper'[p].rec = sweeper[p].rec

(* A set of the record that lands, or has reported an error.                *)
Lands(j, r) == store'[j] = r \/ (SameRecord(j) /\ errors' # 0)

(* The moves of one job, named after the actions that make them.            *)
Idles(j) ==
    /\ at'[j] = at[j] \/ (at[j] = "queued" /\ at'[j] = "reading")
    /\ SameEntry(j) /\ SameLanding(j) /\ SameRecord(j) /\ SameHook(j) /\ SamePasses(j)

Comes(j) ==
    /\ at[j] = "unborn" /\ at'[j] = "queued" /\ j \in landing'
    /\ SameEntry(j) /\ SameRecord(j) /\ SameHook(j) /\ SamePasses(j)

IsStored(j) ==
    /\ at'[j] = at[j] /\ j \in landing /\ j \notin landing'
    /\ Lands(j, NewRecord)
    /\ SameEntry(j) /\ SameHook(j) /\ SamePasses(j)

IsTaken(j) ==
    /\ at[j] = "reading" /\ at'[j] = "marking"
    /\ Present(j) /\ tries'[j] = store[j].attempts + 1 /\ draft'[j] = Marked(store[j])
    /\ outcome'[j] = outcome[j] /\ runs'[j] = runs[j]
    /\ SameLanding(j) /\ SameRecord(j) /\ SameHook(j) /\ SamePasses(j)

IsDropped(j) ==
    /\ at[j] = "reading" /\ at'[j] = "gone"
    /\ Ordered => j \notin landing
    /\ Present(j) => errors' # 0
    /\ SameEntry(j) /\ SameLanding(j) /\ SameRecord(j) /\ SameHook(j) /\ SamePasses(j)

Runs(j) ==
    /\ at[j] = "marking" /\ at'[j] = "executing"
    /\ Lands(j, draft[j]) /\ runs'[j] = runs[j] + 1
    /\ tries'[j] = tries[j] /\ outcome'[j] = outcome[j]
    /\ SameLanding(j) /\ SameHook(j) /\ SamePasses(j)

Ends(j) ==
    /\ at[j] = "executing" /\ at'[j] = "merging"
    /\ \/ outcome'[j] = "completed"
       \/ outcome'[j] = "pending" /\ tries[j] < MaxAttempts[j]
       \/ outcome'[j] = "failed" /\ tries[j] >= MaxAttempts[j]
    /\ tries'[j] = tries[j] /\ runs'[j] = runs[j]
    /\ SameLanding(j) /\ SameRecord(j) /\ SameHook(j) /\ SamePasses(j)

Merges(j) ==
    /\ at[j] = "merging" /\ at'[j] = "settling"
    /\ Present(j) /\ draft'[j] = Settled(store[j], outcome[j], tries[j])
    /\ tries'[j] = tries[j] /\ outcome'[j] = outcome[j] /\ runs'[j] = runs[j]
    /\ SameLanding(j) /\ SameRecord(j) /\ SameHook(j) /\ SamePasses(j)

LetsGo(j) == at'[j] = IF outcome[j] = "pending" THEN "backoff" ELSE "gone"

Gives(j) ==
    /\ at[j] = "merging" /\ LetsGo(j)
    /\ Present(j) => errors' # 0
    /\ SameEntry(j) /\ SameLanding(j) /\ SameRecord(j) /\ SameHook(j) /\ SamePasses(j)

Settles(j) ==
    /\ at[j] = "settling" /\ LetsGo(j)
    /\ Lands(j, draft[j])
    /\ \/ SameHook(j)
       \/ outcome[j] # "pending" /\ hook'[j].at = "posting"
    /\ tries'[j] = tries[j] /\ outcome'[j] = outcome[j] /\ runs'[j] = runs[j]
    /\ SameLanding(j) /\ SamePasses(j)

Retries(j) ==
    /\ at[j] = "backoff" /\ at'[j] \in {"queued", "reading"}
    /\ SameEntry(j) /\ SameLanding(j) /\ SameRecord(j) /\ SameHook(j) /\ SamePasses(j)

Posts(j) ==
    /\ hook[j].at = "posting" /\ hook'[j].at \in {"posting", "reading"}
    /\ at'[j] = at[j]
    /\ SameEntry(j) /\ SameLanding(j) /\ SameRecord(j) /\ SamePasses(j)

Reports(j) ==
    /\ hook[j].at = "reading"
    /\ \/ hook'[j].at = "idle"
       \/ /\ Present(j) /\ hook'[j].at = "writing"
          /\ \E n : hook'[j].rec = Verdict(store[j], n)
    /\ at'[j] = at[j]
    /\ SameEntry(j) /\ SameLanding(j) /\ SameRecord(j) /\ SamePasses(j)

Notes(j) ==
    /\ hook[j].at = "writing" /\ hook'[j].at = "idle"
    /\ Lands(j, hook[j].rec)
    /\ at'[j] = at[j]
    /\ SameEntry(j) /\ SameLanding(j) /\ SamePasses(j)

IsRemoved(j) ==
    /\ store'[j] = None
    /\ Present(j) /\ (removes' # 0 \/ store[j].state \in Terminal)
    /\ at'[j] = at[j]
    /\ SameEntry(j) /\ SameLanding(j) /\ SameHook(j) /\ SamePasses(j)

Dies(j) ==
    /\ crashes' # 0
    /\ at[j] # "unborn" /\ at'[j] = "gone" /\ j \notin landing' /\ hook'[j].at = "idle"
    /\ tries'[j] = tries[j] /\ outcome'[j] = outcome[j] /\ runs'[j] = runs[j]
    /\ SameRecord(j) /\ SamePasses(j)

Ages(j) ==
    /\ Present(j) /\ store'[j] = Older(store[j])
    /\ at'[j] = at[j]
    /\ SameEntry(j) /\ SameLanding(j) /\ SameHook(j) /\ SamePasses(j)

IsCopied(j) ==
    /\ Present(j)
    /\ \A p \in Procs : sweeper'[p].at = "writing" /\ sweeper'[p].job = j =>
          \/ Writing(p, j) /\ sweeper'[p].rec = sweeper[p].rec
          \/ sweeper'[p].rec = Reclaimed(store[j])
    /\ at'[j] = at[j]
    /\ SameEntry(j) /\ SameLanding(j) /\ SameRecord(j) /\ SameHook(j)

IsReclaimed(j) ==
    /\ \E p \in Procs : Writing(p, j) /\ Lands(j, sweeper[p].rec)
    /\ at'[j] = at[j]
    /\ SameEntry(j) /\ SameLanding(j) /\ SameHook(j) /\ SamePasses(j)

Moves(j) ==
    \/ Idles(j) \/ Comes(j) \/ IsStored(j) \/ IsTaken(j) \/ IsDropped(j) \/ Runs(j)
    \/ Ends(j) \/ Merges(j) \/ Gives(j) \/ Settles(j) \/ Retries(j)
    \/ Posts(j) \/ Reports(j) \/ Notes(j)
    \/ IsRemoved(j) \/ Dies(j) \/ Ages(j) \/ IsCopied(j) \/ IsReclaimed(j)

(* A drain takes entries from the queue and leaves the others where they    *)
(* are.                                                                     *)
LEMMA DrainTakes ==
    ASSUME NEW p, NEW STATE places, NEW STATE order, NEW STATE busy,
           Drain(p, places, order, busy), NEW i \in Jobs
    PROVE  at'[i] = places[i] \/ (places[i] = "queued" /\ at'[i] = "reading")
BY DEF Drain, Waiting

USE DEF SameEntry, SameLanding, SameRecord, SameHook, SamePasses

(* A set touches one record.                                                *)
LEMMA StoresLands ==
    ASSUME TypeOK, NEW i \in Jobs, NEW r, Stores(i, r)
    PROVE  /\ Lands(i, r)
           /\ \A j \in Jobs \ {i} : store'[j] = store[j]
BY DEF Stores, Lands, TypeOK

(* What a step does to one job.                                             *)
LEMMA JobMoves ==
    ASSUME TypeInv, SlotInv, Next, NEW j \in Jobs
    PROVE  Moves(j)
<1>t. /\ at \in [Jobs -> Place] /\ tries \in [Jobs -> Nat]
      /\ outcome \in [Jobs -> {"pending", "completed", "failed"}]
      /\ draft \in [Jobs -> JobRecord \cup {None}] /\ store \in [Jobs -> JobRecord \cup {None}]
      /\ hook \in [Jobs -> Hook] /\ runs \in [Jobs -> Nat] /\ sweeper \in [Procs -> Sweep]
      /\ errors \in Nat /\ crashes \in Nat /\ removes \in Nat
      /\ landing \subseteq Jobs
  BY DEF TypeInv, TypeOK
<1>1. ASSUME NEW p \in Procs, NEW i \in Jobs, Create(p, i) PROVE Idles(j) \/ Comes(j)
  BY <1>1, <1>t DEF Create, jobVars, Idles, Comes, Writing
<1>2. ASSUME NEW i \in Jobs, CreateLands(i) PROVE Idles(j) \/ IsStored(j)
  <2>1. Lands(i, NewRecord) /\ \A k \in Jobs \ {i} : store'[k] = store[k]
    BY <1>2, StoresLands DEF CreateLands, TypeInv
  <2> QED
    BY <1>2, <1>t, <2>1 DEF CreateLands, jobVars, Idles, IsStored, Writing
<1>3. ASSUME NEW i \in Jobs, PickUp(i) PROVE Idles(j) \/ IsTaken(j)
  BY <1>3, <1>t DEF PickUp, MayRead, Idles, IsTaken, Marked, Writing, Present
<1>4. ASSUME NEW i \in Jobs, Vanished(i) PROVE Idles(j) \/ IsDropped(j)
  <2>1. \/ at'[j] = [at EXCEPT ![i] = "gone"][j]
        \/ [at EXCEPT ![i] = "gone"][j] = "queued" /\ at'[j] = "reading"
    BY <1>4, DrainTakes DEF Vanished
  <2>2. at[i] = "reading" /\ (Ordered => i \notin landing) /\ (Present(i) => errors' # 0)
    BY <1>4, <1>t DEF Vanished, MayRead, Reads, Present
  <2>3. UNCHANGED <<landing, tries, outcome, draft, store, sweeper, hook, runs>>
    BY <1>4 DEF Vanished, jobVars
  <2> QED
    BY <1>t, <2>1, <2>2, <2>3 DEF Idles, IsDropped, Writing
<1>5. ASSUME NEW i \in Jobs, MarkLands(i) PROVE Idles(j) \/ Runs(j)
  <2>1. Lands(i, draft[i]) /\ \A k \in Jobs \ {i} : store'[k] = store[k]
    BY <1>5, StoresLands DEF MarkLands, TypeInv
  <2> QED
    BY <1>5, <1>t, <2>1 DEF MarkLands, Idles, Runs, Writing
<1>6. ASSUME NEW i \in Jobs, FnReturns(i) PROVE Idles(j) \/ Ends(j)
  BY <1>6, <1>t DEF FnReturns, Idles, Ends, Writing
<1>7. ASSUME NEW i \in Jobs, FnThrows(i) PROVE Idles(j) \/ Ends(j)
  <2>1. MaxAttempts[i] \in Nat
    BY JobAssumption DEF JobAssumption
  <2> QED
    BY <1>7, <1>t, <2>1 DEF FnThrows, MayRetry, Idles, Ends, Writing
<1>8. ASSUME NEW i \in Jobs, SettleReads(i) PROVE Idles(j) \/ Merges(j)
  BY <1>8, <1>t DEF SettleReads, Idles, Merges, Writing, Present
<1>9. ASSUME NEW i \in Jobs, SettleVanished(i) PROVE Idles(j) \/ Gives(j)
  <2> DEFINE next == IF outcome[i] = "pending" THEN "backoff" ELSE "gone"
  <2>1. \/ at'[j] = [at EXCEPT ![i] = next][j]
        \/ [at EXCEPT ![i] = next][j] = "queued" /\ at'[j] = "reading"
    <3>1. Drain(owner[i], [at EXCEPT ![i] = next], ahead, running[owner[i]] - 1)
      BY <1>9 DEF SettleVanished, Release
    <3> HIDE DEF next
    <3> QED
      BY <3>1, DrainTakes
  <2>2. at[i] = "merging" /\ (Present(i) => errors' # 0)
    BY <1>9, <1>t DEF SettleVanished, Reads, Present
  <2>3. UNCHANGED <<landing, tries, outcome, draft, store, sweeper, hook, runs>>
    BY <1>9 DEF SettleVanished
  <2> QED
    BY <1>t, <2>1, <2>2, <2>3 DEF Idles, Gives, LetsGo, Writing
<1>10. ASSUME NEW i \in Jobs, SettleLands(i) PROVE Idles(j) \/ Settles(j)
  <2> DEFINE next == IF outcome[i] = "pending" THEN "backoff" ELSE "gone"
  <2>1. \/ at'[j] = [at EXCEPT ![i] = next][j]
        \/ [at EXCEPT ![i] = next][j] = "queued" /\ at'[j] = "reading"
    <3>1. Drain(owner[i], [at EXCEPT ![i] = next], ahead, running[owner[i]] - 1)
      BY <1>10 DEF SettleLands, Release
    <3> HIDE DEF next
    <3> QED
      BY <3>1, DrainTakes
  <2>2. Lands(i, draft[i]) /\ \A k \in Jobs \ {i} : store'[k] = store[k]
    BY <1>10, StoresLands DEF SettleLands, TypeInv
  <2>3. /\ at[i] = "settling" /\ draft' = [draft EXCEPT ![i] = None]
        /\ UNCHANGED <<landing, tries, outcome, sweeper, runs>>
    BY <1>10 DEF SettleLands
  <2>4. \/ hook' = hook
        \/ outcome[i] # "pending" /\ \E h : h.at = "posting" /\ hook' = [hook EXCEPT ![i] = h]
    <3>1. [IdleHook EXCEPT !.at = "posting", !.attempt = 1].at = "posting"
      BY DEF IdleHook
    <3> DEFINE posting == [IdleHook EXCEPT !.at = "posting", !.attempt = 1]
    <3>2. hook' = hook \/ (outcome[i] # "pending" /\ hook' = [hook EXCEPT ![i] = posting])
      BY <1>10 DEF SettleLands
    <3> HIDE DEF posting
    <3> QED
      BY <3>1, <3>2 DEF posting
  <2>5. \/ hook'[j] = hook[j]
        \/ i = j /\ outcome[i] # "pending" /\ hook'[j].at = "posting"
    BY <1>t, <2>4
  <2> QED
    BY <1>t, <2>1, <2>2, <2>3, <2>5 DEF Idles, Settles, LetsGo, Writing
<1>11. ASSUME NEW i \in Jobs, RetryFires(i) PROVE Idles(j) \/ Retries(j)
  <2>1. \/ at'[j] = [at EXCEPT ![i] = "queued"][j]
        \/ [at EXCEPT ![i] = "queued"][j] = "queued" /\ at'[j] = "reading"
    BY <1>11, DrainTakes DEF RetryFires
  <2>2. at[i] = "backoff" /\ UNCHANGED <<landing, tries, outcome, draft, store, sweeper, hook, runs>>
    BY <1>11 DEF RetryFires, jobVars
  <2> QED
    BY <1>t, <2>1, <2>2 DEF Idles, Retries, Writing
<1>12. ASSUME NEW i \in Jobs, HookAccepted(i) \/ HookRefused(i) PROVE Idles(j) \/ Posts(j)
  <2>1. /\ UNCHANGED <<at, landing, tries, outcome, draft, store, sweeper, runs>>
        /\ hook[i].at = "posting"
    BY <1>12 DEF HookAccepted, HookRefused, entryVars, jobVars
  <2>2. \A h \in Hook : /\ [h EXCEPT !.at = "reading", !.ok = TRUE].at = "reading"
                        /\ [h EXCEPT !.at = "reading", !.ok = FALSE].at = "reading"
                        /\ [h EXCEPT !.attempt = @ + 1].at = h.at
    BY DEF Hook
  <2>3. \E h : h.at \in {"posting", "reading"} /\ hook' = [hook EXCEPT ![i] = h]
    <3>1. hook[i] \in Hook
      BY <1>t
    <3> DEFINE taken   == [hook[i] EXCEPT !.at = "reading", !.ok = TRUE]
               refused == [hook[i] EXCEPT !.at = "reading", !.ok = FALSE]
               again   == [hook[i] EXCEPT !.attempt = @ + 1]
    <3>2. \/ hook' = [hook EXCEPT ![i] = taken]
          \/ hook' = [hook EXCEPT ![i] = refused]
          \/ hook' = [hook EXCEPT ![i] = again]
      BY <1>12, <1>t, <3>1 DEF HookAccepted, HookRefused, Hook
    <3>3. taken.at = "reading" /\ refused.at = "reading" /\ again.at = "posting"
      BY <2>1, <2>2, <3>1
    <3> HIDE DEF taken, refused, again
    <3> QED
      BY <3>2, <3>3
  <2> QED
    BY <1>t, <2>1, <2>3 DEF Idles, Posts, Writing
<1>13. ASSUME NEW i \in Jobs, HookReads(i) PROVE Idles(j) \/ Reports(j)
  <2>1. /\ UNCHANGED <<at, landing, tries, outcome, draft, store, sweeper, runs>>
        /\ hook[i].at = "reading"
    BY <1>13 DEF HookReads, entryVars, jobVars
  <2>2. \E h : /\ hook' = [hook EXCEPT ![i] = h]
               /\ \/ h.at = "idle"
                  \/ Present(i) /\ h.at = "writing" /\ \E n : h.rec = Verdict(store[i], n)
    <3>1. PICK r \in {store[i], None} :
            hook' = [hook EXCEPT ![i] =
              IF r = None THEN IdleHook
              ELSE [@ EXCEPT !.at = "writing",
                             !.rec = Verdict(r, IF hook[i].ok THEN "delivered" ELSE "failed")]]
      BY <1>13 DEF HookReads, Verdict
    <3>2. CASE r = None
      <4>1. IdleHook.at = "idle" /\ hook' = [hook EXCEPT ![i] = IdleHook]
        BY <3>1, <3>2 DEF IdleHook
      <4> QED
        BY <4>1
    <3>3. CASE r # None
      <4> DEFINE v == Verdict(store[i], IF hook[i].ok THEN "delivered" ELSE "failed")
                 h == [hook[i] EXCEPT !.at = "writing", !.rec = v]
      <4>1. hook' = [hook EXCEPT ![i] = h] /\ Present(i)
        BY <1>t, <3>1, <3>3 DEF Present
      <4>2. hook[i] \in Hook
        BY <1>t
      <4>3. h.at = "writing" /\ h.rec = v
        <5> HIDE DEF v
        <5> QED
          BY <4>2 DEF Hook
      <4>4. \E n : v = Verdict(store[i], n)
        OBVIOUS
      <4> HIDE DEF v, h
      <4> QED
        BY <4>1, <4>3, <4>4
    <3> QED
      BY <3>2, <3>3
  <2> QED
    BY <1>t, <2>1, <2>2 DEF Idles, Reports, Writing
<1>14. ASSUME NEW i \in Jobs, HookWrites(i) PROVE Idles(j) \/ Notes(j)
  <2>1. Lands(i, hook[i].rec) /\ \A k \in Jobs \ {i} : store'[k] = store[k]
    BY <1>14, StoresLands DEF HookWrites, TypeInv
  <2>2. /\ UNCHANGED <<at, landing, tries, outcome, draft, sweeper, runs>>
        /\ hook[i].at = "writing" /\ hook' = [hook EXCEPT ![i] = IdleHook]
    BY <1>14 DEF HookWrites, entryVars, jobVars
  <2>3. IdleHook.at = "idle"
    BY DEF IdleHook
  <2> QED
    BY <1>t, <2>1, <2>2, <2>3 DEF Idles, Notes, Writing
<1>15. ASSUME NEW p \in Procs, PumpQueue(p) PROVE Idles(j)
  <2>1. at'[j] = at[j] \/ (at[j] = "queued" /\ at'[j] = "reading")
    BY <1>15, DrainTakes DEF PumpQueue
  <2> QED
    BY <1>15, <2>1 DEF PumpQueue, jobVars, Idles, Writing
<1>16. ASSUME NEW p \in Procs, SweepBegins(p) \/ SweepLists(p) PROVE Idles(j)
  <2>1. UNCHANGED <<at, landing, tries, outcome, draft, store, hook, runs>>
    BY <1>16 DEF SweepBegins, SweepLists, entryVars, jobVars
  <2>2. sweeper[p] \in Sweep
    BY <1>t
  <2>3. \E s : s.at # "writing" /\ sweeper' = [sweeper EXCEPT ![p] = s]
    <3>1. CASE SweepBegins(p)
      <4> DEFINE s == [sweeper[p] EXCEPT !.at = IF OrphanTimeout = 0 THEN "purging" ELSE "listing"]
      <4>1. s.at # "writing" /\ sweeper' = [sweeper EXCEPT ![p] = s]
        BY <1>t, <2>2, <3>1 DEF SweepBegins, Sweep
      <4> HIDE DEF s
      <4> QED
        BY <4>1
    <3>2. CASE SweepLists(p)
      <4>1. PICK todo \in SUBSET Jobs : sweeper' = [sweeper EXCEPT ![p] = Onward(@, todo)]
        BY <3>2 DEF SweepLists
      <4> QED
        BY <1>t, <2>2, <4>1, OnwardType
    <3> QED
      BY <1>16, <3>1, <3>2
  <2> QED
    BY <1>t, <2>1, <2>3 DEF Idles, Writing
<1>17. ASSUME NEW p \in Procs, SweepReads(p) PROVE Idles(j) \/ IsCopied(j)
  <2>1. UNCHANGED <<at, landing, tries, outcome, draft, store, hook, runs>>
    BY <1>17 DEF SweepReads, entryVars, jobVars
  <2>2. sweeper[p] \in Sweep
    BY <1>t
  <2>3. \E s : /\ sweeper' = [sweeper EXCEPT ![p] = s]
               /\ s.at = "writing" /\ s.job = j => (s.rec = Reclaimed(store[j]) /\ Present(j))
    <3>1. PICK i \in sweeper[p].todo : \E r \in {store[i], None} :
            sweeper' = [sweeper EXCEPT ![p] =
              IF r = None THEN Onward(@, @.todo \ {i})
              ELSE [@ EXCEPT !.at = "writing", !.job = i, !.rec = Reclaimed(r)]]
      BY <1>17 DEF SweepReads
    <3>2. PICK r \in {store[i], None} :
            sweeper' = [sweeper EXCEPT ![p] =
              IF r = None THEN Onward(@, @.todo \ {i})
              ELSE [@ EXCEPT !.at = "writing", !.job = i, !.rec = Reclaimed(r)]]
      BY <3>1
    <3>3. i \in Jobs /\ sweeper[p].todo \ {i} \in SUBSET Jobs
      BY <2>2 DEF Sweep
    <3>4. CASE r = None
      <4> DEFINE s == Onward(sweeper[p], sweeper[p].todo \ {i})
      <4>1. s.at # "writing" /\ sweeper' = [sweeper EXCEPT ![p] = s]
        BY <1>t, <2>2, <3>2, <3>3, <3>4, OnwardType
      <4> HIDE DEF s
      <4> QED
        BY <4>1
    <3>5. CASE r # None
      <4> DEFINE rec == Reclaimed(store[i])
                 s == [sweeper[p] EXCEPT !.at = "writing", !.job = i, !.rec = rec]
      <4>1. sweeper' = [sweeper EXCEPT ![p] = s] /\ Present(i)
        BY <1>t, <3>2, <3>5 DEF Present
      <4>2. s.job = i /\ s.rec = rec
        <5> HIDE DEF rec
        <5> QED
          BY <2>2 DEF Sweep
      <4>3. i = j => rec = Reclaimed(store[j])
        OBVIOUS
      <4> HIDE DEF s, rec
      <4> QED
        BY <4>1, <4>2, <4>3
    <3> QED
      BY <3>4, <3>5
  <2>4. PICK s : /\ sweeper' = [sweeper EXCEPT ![p] = s]
                 /\ s.at = "writing" /\ s.job = j => (s.rec = Reclaimed(store[j]) /\ Present(j))
    BY <2>3
  <2>5. \A q \in Procs : sweeper'[q] = IF q = p THEN s ELSE sweeper[q]
    BY <1>t, <2>4
  <2>6. CASE s.at = "writing" /\ s.job = j
    BY <2>1, <2>4, <2>5, <2>6 DEF IsCopied, Writing
  <2>7. CASE ~(s.at = "writing" /\ s.job = j)
    BY <2>1, <2>5, <2>7 DEF Idles, Writing
  <2> QED
    BY <2>6, <2>7
<1>18. ASSUME NEW p \in Procs, SweepWrites(p) PROVE Idles(j) \/ IsReclaimed(j)
  <2>1. /\ UNCHANGED <<at, landing, tries, outcome, draft, hook, runs>>
        /\ sweeper[p].at = "writing"
    BY <1>18 DEF SweepWrites, entryVars, jobVars
  <2>2. sweeper[p].job \in Jobs /\ sweeper[p] \in Sweep
    BY <1>t, <2>1 DEF TypeInv, Written
  <2>3. /\ Lands(sweeper[p].job, sweeper[p].rec)
        /\ \A k \in Jobs \ {sweeper[p].job} : store'[k] = store[k]
    BY <1>18, <2>2, StoresLands DEF SweepWrites, TypeInv
  <2>4. \E s : s.at # "writing" /\ sweeper' = [sweeper EXCEPT ![p] = s]
    <3>1. sweeper[p].todo \ {sweeper[p].job} \in SUBSET Jobs
      BY <2>2 DEF Sweep
    <3>2. sweeper' = [sweeper EXCEPT ![p] = Onward(sweeper[p], sweeper[p].todo \ {sweeper[p].job})]
      BY <1>18, <1>t DEF SweepWrites
    <3> QED
      BY <2>2, <3>1, <3>2, OnwardType
  <2>5. SamePasses(j)
    BY <1>t, <2>4 DEF Writing
  <2>6. CASE sweeper[p].job = j
    BY <2>1, <2>3, <2>5, <2>6 DEF IsReclaimed, Writing
  <2>7. CASE sweeper[p].job # j
    BY <2>1, <2>3, <2>5, <2>7 DEF Idles
  <2> QED
    BY <2>6, <2>7
<1>19. ASSUME NEW p \in Procs, SweepPurges(p) PROVE Idles(j) \/ IsRemoved(j)
  <2>1. /\ UNCHANGED <<at, landing, tries, outcome, draft, hook, runs>>
        /\ sweeper' = [sweeper EXCEPT ![p] = IdleSweep]
    BY <1>19 DEF SweepPurges, entryVars, jobVars
  <2>2. store'[j] = store[j] \/ (store'[j] = None /\ Present(j) /\ store[j].state \in Terminal)
    BY <1>19 DEF SweepPurges, Purgeable
  <2>3. SamePasses(j)
    <3>1. IdleSweep.at # "writing"
      BY DEF IdleSweep
    <3> QED
      BY <1>t, <2>1, <3>1 DEF Writing
  <2> QED
    BY <2>1, <2>2, <2>3 DEF Idles, IsRemoved
<1>20. ASSUME NEW i \in Jobs, Remove(i) PROVE Idles(j) \/ IsRemoved(j)
  BY <1>20, <1>t DEF Remove, entryVars, jobVars, Idles, IsRemoved, Writing
<1>21. ASSUME NEW p \in Procs, Crash(p) PROVE Idles(j) \/ Dies(j)
  <2>1. /\ at'[j] = IF owner[j] = p THEN "gone" ELSE at[j]
        /\ draft'[j] = IF owner[j] = p THEN None ELSE draft[j]
        /\ hook'[j] = IF owner[j] = p THEN IdleHook ELSE hook[j]
        /\ j \in landing' <=> (j \in landing /\ owner[j] # p)
        /\ sweeper' = [sweeper EXCEPT ![p] = IdleSweep]
        /\ crashes' = crashes + 1
        /\ UNCHANGED <<tries, outcome, store, runs>>
    BY <1>21 DEF Crash
  <2>2. SamePasses(j)
    <3>1. IdleSweep.at # "writing"
      BY DEF IdleSweep
    <3> QED
      BY <1>t, <2>1, <3>1 DEF Writing
  <2>3. owner[j] = p => at[j] # "unborn"
    BY JobAssumption DEF JobAssumption, SlotInv, Owned
  <2>4. IdleHook.at = "idle"
    BY DEF IdleHook
  <2> QED
    BY <1>t, <2>1, <2>2, <2>3, <2>4 DEF Idles, Dies
<1>22. CASE Tick
  <2>1. /\ store'[j] = IF Present(j) THEN Older(store[j]) ELSE None
        /\ UNCHANGED <<at, landing, tries, outcome, draft, sweeper, hook, runs>>
    BY <1>22 DEF Tick, entryVars
  <2>2. CASE Present(j)
    BY <2>1, <2>2 DEF Ages, Writing, Moves
  <2>3. CASE ~Present(j)
    BY <2>1, <2>3 DEF Idles, Present, Writing, Moves
  <2> QED
    BY <2>2, <2>3
<1> QED
  BY <1>1, <1>2, <1>3, <1>4, <1>5, <1>6, <1>7, <1>8, <1>9, <1>10, <1>11, <1>12, <1>13, <1>14,
     <1>15, <1>16, <1>17, <1>18, <1>19, <1>20, <1>21, <1>22 DEF Next, JobStep, ProcStep, Moves

-----------------------------------------------------------------------------
(* What is known of one job by its type.                                    *)
LEMMA JobTypes ==
    ASSUME TypeInv, SlotInv, NEW j \in Jobs
    PROVE  /\ runs[j] \in Nat /\ tries[j] \in Nat /\ MaxAttempts[j] \in Nat /\ MaxAttempts[j] > 0
           /\ outcome[j] \in {"pending", "completed", "failed"}
           /\ Present(j) => store[j] \in JobRecord
           /\ at[j] \in {"marking", "settling"} => draft[j] \in JobRecord
           /\ hook[j].at = "writing" => hook[j].rec \in JobRecord
           /\ \A p \in Procs : Writing(p, j) => sweeper[p].rec \in JobRecord
           /\ at[j] = "unborn" => j \notin landing
<1>1. /\ runs[j] \in Nat /\ tries[j] \in Nat
      /\ outcome[j] \in {"pending", "completed", "failed"}
      /\ Present(j) => store[j] \in JobRecord
  BY DEF TypeInv, TypeOK, Present
<1>2. MaxAttempts[j] \in Nat /\ MaxAttempts[j] > 0
  BY JobAssumption DEF JobAssumption
<1>3. /\ at[j] \in {"marking", "settling"} => draft[j] \in JobRecord
      /\ hook[j].at = "writing" => hook[j].rec \in JobRecord
      /\ \A p \in Procs : Writing(p, j) => sweeper[p].rec \in JobRecord
  BY DEF TypeInv, Drafted, Written, Writing
<1>4. at[j] = "unborn" => j \notin landing
  BY DEF SlotInv, Owned
<1> QED
  BY <1>1, <1>2, <1>3, <1>4

(* The record create() sets, and none, as records.                          *)
LEMMA NewRecordFacts ==
    /\ NewRecord.state = "pending" /\ NewRecord.attempts = 0
    /\ NewRecord.error = "none" /\ NewRecord.notified = "no"
BY DEF NewRecord

(* What the environment does is only ever counted up.                       *)
LEMMA FaultsGrow ==
    ASSUME TypeInv, Next
    PROVE  /\ errors' = 0 => errors = 0
           /\ removes' = 0 => removes = 0
           /\ crashes' = 0 => crashes = 0
<1>t. errors \in Nat /\ removes \in Nat /\ crashes \in Nat
  BY DEF TypeInv, TypeOK
<1>1. ASSUME NEW p \in Procs, NEW j \in Jobs, Create(p, j)
      PROVE  UNCHANGED <<errors, removes, crashes>>
  BY <1>1 DEF Create, faultVars
<1>2. ASSUME NEW j \in Jobs, JobStep(j)
      PROVE  /\ errors' = errors \/ errors' = errors + 1
             /\ UNCHANGED <<removes, crashes>>
  BY <1>2 DEF JobStep, CreateLands, PickUp, Vanished, MarkLands, FnReturns, FnThrows, SettleReads,
              SettleVanished, SettleLands, RetryFires, HookAccepted, HookRefused, HookReads,
              HookWrites, Reads, Stores, faultVars
<1>3. ASSUME NEW p \in Procs, ProcStep(p)
      PROVE  /\ errors' = errors \/ errors' = errors + 1
             /\ UNCHANGED <<removes, crashes>>
  BY <1>3 DEF ProcStep, PumpQueue, SweepBegins, SweepLists, SweepReads, SweepWrites, SweepPurges,
              Reads, Stores, faultVars
<1>4. ASSUME NEW j \in Jobs, Remove(j)
      PROVE  UNCHANGED <<errors, crashes>> /\ removes' = removes + 1
  BY <1>4 DEF Remove
<1>5. ASSUME NEW p \in Procs, Crash(p)
      PROVE  UNCHANGED <<errors, removes>> /\ crashes' = crashes + 1
  BY <1>5 DEF Crash
<1>6. CASE Tick
  BY <1>6 DEF Tick, faultVars
<1> QED
  BY <1>t, <1>1, <1>2, <1>3, <1>4, <1>5, <1>6 DEF Next

-----------------------------------------------------------------------------
(* The invariants of one job.                                               *)

(* Its record has not landed.                                               *)
Unstored(j) == at[j] = "unborn" \/ j \in landing

(* Until it does, nobody has read it: the entry is at most waiting for its  *)
(* first get, or was let go of by it.                                       *)
Begun(j) ==
    Unstored(j) => /\ ~Present(j) /\ runs[j] = 0 /\ hook[j].at = "idle"
                   /\ at[j] \in {"unborn", "queued", "reading", "gone"}
                   /\ \A p \in Procs : ~Writing(p, j)

(* The record an entry carries to a set is the one that set is for, and the *)
(* webhook is only at work for an entry that has left.                      *)
Carried(j) ==
    /\ at[j] = "marking" => draft[j].state = "running"
    /\ at[j] = "settling" => draft[j].state = outcome[j]
    /\ hook[j].at # "idle" => at[j] = "gone"

(* A record counts no attempt that was not made, and blames its attempts    *)
(* for a failure only once they are used up.                                *)
Earned(j, r) ==
    /\ r.attempts <= runs[j]
    /\ r.state = "failed" /\ r.error = "attempt" => runs[j] >= MaxAttempts[j]

(* That holds of every copy of it: in the store, in the webhook's hands, in *)
(* those of a pass, and in the entry's own.                                 *)
Tried(j) ==
    /\ Present(j) => Earned(j, store[j])
    /\ hook[j].at = "writing" => Earned(j, hook[j].rec)
    /\ \A p \in Procs : Writing(p, j) => Earned(j, sweeper[p].rec)
    /\ at[j] = "marking" => draft[j].attempts <= runs[j] + 1 /\ tries[j] <= runs[j] + 1
    /\ at[j] = "executing" => tries[j] <= runs[j]
    /\ at[j] \in {"executing", "merging", "settling"} => runs[j] > 0
    /\ at[j] \in {"merging", "settling"} /\ outcome[j] = "failed" => runs[j] >= MaxAttempts[j]
    /\ at[j] = "settling" => Earned(j, draft[j])

(* The webhook's verdict only ever meets a record that will not change.     *)
Noted(j) ==
    errors = 0 =>
        /\ Present(j) /\ (store[j].notified # "no" \/ hook[j].at # "idle") =>
             store[j].state \in Terminal /\ at[j] = "gone"
        /\ hook[j].at = "writing" => hook[j].rec.state \in Terminal
        /\ \A p \in Procs : Writing(p, j) =>
             /\ sweeper[p].rec.state = "failed"
             /\ sweeper[p].rec.notified # "no" => at[j] = "gone"
        /\ at[j] \in {"marking", "settling"} => draft[j].notified = "no"

(* Without reclaim a pass only purges.                                      *)
Dormant == OrphanTimeout = 0 => \A p \in Procs : sweeper[p].at \in {"idle", "purging"}

(* Without reclaim a final record is one whose entry has left, and the only *)
(* set still to come agrees with it.                                        *)
Final(j) ==
    OrphanTimeout = 0 =>
        /\ Present(j) /\ store[j].state \in Terminal => at[j] = "gone"
        /\ hook[j].at = "writing" /\ Present(j) => store[j].state = hook[j].rec.state

(* Without reclaim and errors no attempt goes uncounted either, so that one *)
(* more than allowed is never made.                                         *)
Counted(j) ==
    OrphanTimeout = 0 /\ errors = 0 =>
        /\ at[j] # "gone" /\ Present(j) => store[j].attempts >= runs[j]
        /\ at[j] = "marking" => draft[j].attempts >= runs[j] + 1 /\ tries[j] >= runs[j] + 1
        /\ at[j] = "executing" => tries[j] >= runs[j]
        /\ at[j] = "settling" => draft[j].attempts >= runs[j]
        /\ runs[j] <= MaxAttempts[j]
        /\ at[j] \in {"unborn", "queued", "reading", "marking", "backoff"} =>
             runs[j] < MaxAttempts[j]
        /\ at[j] \in {"merging", "settling"} /\ outcome[j] = "pending" => runs[j] < MaxAttempts[j]

(* Without reclaim or any fault the record of a live entry stays where it   *)
(* was put, and no entry leaves unrun.                                      *)
Kept(j) ==
    OrphanTimeout = 0 /\ Ordered /\ errors = 0 /\ removes = 0 /\ crashes = 0 =>
        /\ at[j] \notin {"unborn", "gone"} /\ j \notin landing => Present(j)
        /\ at[j] = "gone" => runs[j] > 0

-----------------------------------------------------------------------------
(* Each is kept by the moves of the job.                                    *)
LEMMA BegunStep ==
    ASSUME TypeInv, SlotInv, Next, NEW j \in Jobs, Begun(j)
    PROVE  Begun(j)'
<1>m. Moves(j)
  BY JobMoves
<1>t. at[j] = "unborn" => j \notin landing
  BY JobTypes
<1>1. CASE Idles(j) \/ Comes(j) \/ IsStored(j)
  BY <1>1, <1>t DEF Idles, Comes, IsStored, Lands, Begun, Unstored, Present, Writing
<1>2. CASE IsTaken(j) \/ IsDropped(j) \/ Runs(j) \/ Ends(j) \/ Merges(j)
  BY <1>2, <1>t DEF IsTaken, IsDropped, Runs, Ends, Merges, Begun, Unstored, Present, Writing
<1>3. CASE Gives(j) \/ Settles(j) \/ Retries(j)
  BY <1>3, <1>t DEF Gives, LetsGo, Settles, Retries, Begun, Unstored, Present, Writing
<1>4. CASE Posts(j) \/ Reports(j) \/ Notes(j)
  BY <1>4, <1>t DEF Posts, Reports, Notes, Begun, Unstored, Present, Writing
<1>5. CASE IsRemoved(j) \/ Dies(j) \/ Ages(j) \/ IsCopied(j) \/ IsReclaimed(j)
  BY <1>5, <1>t DEF IsRemoved, Dies, Ages, IsCopied, IsReclaimed, Begun, Unstored, Present, Writing
<1> QED
  BY <1>m, <1>1, <1>2, <1>3, <1>4, <1>5 DEF Moves

(* A step moves an entry to a set only with the record made for it.         *)
LEMMA CarriedStep ==
    ASSUME TypeInv, SlotInv, Next, NEW j \in Jobs, Begun(j), Carried(j)
    PROVE  Carried(j)'
<1>m. Moves(j)
  BY JobMoves
<1>t. /\ outcome[j] \in {"pending", "completed", "failed"}
      /\ Present(j) => store[j] \in JobRecord
  BY JobTypes
<1>1. CASE Idles(j) \/ Comes(j) \/ IsStored(j)
  BY <1>1, <1>t DEF Idles, Comes, IsStored, Begun, Unstored, Carried
<1>2. CASE IsTaken(j)
  <2>1. draft'[j].state = "running"
    BY <1>2, <1>t, RecordFacts DEF IsTaken
  <2> QED
    BY <1>2, <2>1 DEF IsTaken, Carried
<1>3. CASE Merges(j)
  <2>1. draft'[j].state = outcome[j]
    BY <1>3, <1>t, SettledFacts DEF Merges
  <2> QED
    BY <1>3, <2>1 DEF Merges, Carried
<1>4. CASE IsDropped(j) \/ Runs(j) \/ Ends(j) \/ Gives(j) \/ Settles(j) \/ Retries(j)
  BY <1>4, <1>t DEF IsDropped, Runs, Ends, Gives, LetsGo, Settles, Retries, Carried
<1>5. CASE Posts(j) \/ Reports(j) \/ Notes(j)
  BY <1>5 DEF Posts, Reports, Notes, Carried
<1>6. CASE IsRemoved(j) \/ Dies(j) \/ Ages(j) \/ IsCopied(j) \/ IsReclaimed(j)
  BY <1>6 DEF IsRemoved, Dies, Ages, IsCopied, IsReclaimed, Carried
<1> QED
  BY <1>m, <1>1, <1>2, <1>3, <1>4, <1>5, <1>6 DEF Moves

(* Every copy of a record a step makes or stores is earned by attempts made. *)
LEMMA TriedStep ==
    ASSUME TypeInv, SlotInv, Next, NEW j \in Jobs, Begun(j), Carried(j), Tried(j)
    PROVE  Tried(j)'
<1>m. Moves(j)
  BY JobMoves
<1>t. /\ runs[j] \in Nat /\ tries[j] \in Nat /\ MaxAttempts[j] \in Nat /\ MaxAttempts[j] > 0
      /\ outcome[j] \in {"pending", "completed", "failed"}
      /\ Present(j) => store[j] \in JobRecord /\ store[j].attempts \in Nat
      /\ at[j] \in {"marking", "settling"} => draft[j] \in JobRecord /\ draft[j].attempts \in Nat
      /\ hook[j].at = "writing" => hook[j].rec \in JobRecord /\ hook[j].rec.attempts \in Nat
      /\ \A p \in Procs : Writing(p, j) => /\ sweeper[p].rec \in JobRecord
                                           /\ sweeper[p].rec.attempts \in Nat
  <2>1. \A r \in JobRecord : r.attempts \in Nat
    BY DEF JobRecord
  <2> QED
    BY <2>1, JobTypes
<1>1. CASE Idles(j) \/ Comes(j)
  BY <1>1, <1>t DEF Idles, Comes, Tried, Earned, Present, Writing
<1>2. CASE IsStored(j)
  BY <1>2, <1>t, NewRecordFacts DEF IsStored, Lands, Tried, Earned, Present, Writing
<1>3. CASE IsTaken(j)
  <2>1. draft'[j].attempts = store[j].attempts + 1
    BY <1>3, <1>t, RecordFacts DEF IsTaken
  <2> QED
    BY <1>3, <1>t, <2>1 DEF IsTaken, Tried, Earned, Present, Writing
<1>4. CASE IsDropped(j) \/ Gives(j) \/ Retries(j)
  BY <1>4, <1>t DEF IsDropped, Gives, LetsGo, Retries, Tried, Earned, Present, Writing
<1>5. CASE Runs(j)
  BY <1>5, <1>t DEF Runs, Lands, Tried, Carried, Earned, Present, Writing
<1>6. CASE Ends(j)
  BY <1>6, <1>t DEF Ends, Tried, Earned, Present, Writing
<1>7. CASE Merges(j)
  <2>1. draft'[j].state = outcome[j] /\ draft'[j].attempts = store[j].attempts
    BY <1>7, <1>t, SettledFacts DEF Merges
  <2> QED
    BY <1>7, <1>t, <2>1 DEF Merges, Tried, Earned, Present, Writing
<1>8. CASE Settles(j)
  BY <1>8, <1>t DEF Settles, LetsGo, Lands, Tried, Earned, Present, Writing
<1>9. CASE Posts(j)
  BY <1>9, <1>t DEF Posts, Tried, Earned, Present, Writing
<1>10. CASE Reports(j)
  <2>1. hook'[j].at = "writing" => /\ Present(j)
                                   /\ hook'[j].rec.state = store[j].state
                                   /\ hook'[j].rec.attempts = store[j].attempts
                                   /\ hook'[j].rec.error = store[j].error
    BY <1>10, <1>t, RecordFacts DEF Reports
  <2> QED
    BY <1>10, <1>t, <2>1 DEF Reports, Tried, Earned, Present, Writing
<1>11. CASE Notes(j)
  BY <1>11, <1>t DEF Notes, Lands, Tried, Earned, Present, Writing
<1>12. CASE IsRemoved(j) \/ Dies(j)
  BY <1>12, <1>t DEF IsRemoved, Dies, Tried, Earned, Present, Writing
<1>13. CASE Ages(j)
  <2>1. /\ store'[j].state = store[j].state /\ store'[j].error = store[j].error
        /\ store'[j].attempts = store[j].attempts
    BY <1>13, <1>t, RecordFacts DEF Ages
  <2> QED
    BY <1>13, <1>t, <2>1 DEF Ages, Tried, Earned, Present, Writing
<1>14. CASE IsCopied(j)
  <2>1. /\ Reclaimed(store[j]).error = "orphan"
        /\ Reclaimed(store[j]).attempts = store[j].attempts
    BY <1>14, <1>t, RecordFacts DEF IsCopied
  <2> QED
    BY <1>14, <1>t, <2>1 DEF IsCopied, Tried, Earned, Present, Writing
<1>15. CASE IsReclaimed(j)
  BY <1>15, <1>t DEF IsReclaimed, Lands, Tried, Earned, Present, Writing
<1> QED
  BY <1>m, <1>1, <1>2, <1>3, <1>4, <1>5, <1>6, <1>7, <1>8, <1>9, <1>10, <1>11, <1>12, <1>13,
     <1>14, <1>15 DEF Moves

(* A step tells the outcome of a record only once nothing can change it.    *)
LEMMA NotedStep ==
    ASSUME TypeInv, SlotInv, Next, NEW j \in Jobs, Begun(j), Carried(j), Noted(j)
    PROVE  Noted(j)'
<1> SUFFICES ASSUME errors' = 0 PROVE Noted(j)'
  BY DEF Noted
<1>m. Moves(j)
  BY JobMoves
<1>e. errors = 0
  BY FaultsGrow
<1>t. /\ outcome[j] \in {"pending", "completed", "failed"}
      /\ Present(j) => store[j] \in JobRecord
      /\ at[j] = "unborn" => j \notin landing
  BY JobTypes
<1>1. CASE Idles(j) \/ Comes(j)
  BY <1>1, <1>e DEF Idles, Comes, Noted, Begun, Unstored, Present, Writing
<1>2. CASE IsStored(j)
  BY <1>2, <1>e, NewRecordFacts DEF IsStored, Lands, Noted, Begun, Unstored, Present, Writing
<1>3. CASE IsTaken(j)
  <2>1. draft'[j].notified = store[j].notified
    BY <1>3, <1>t, RecordFacts DEF IsTaken
  <2> QED
    BY <1>3, <1>e, <2>1 DEF IsTaken, Noted, Present, Writing
<1>4. CASE IsDropped(j) \/ Ends(j) \/ Gives(j) \/ Retries(j)
  BY <1>4, <1>e DEF IsDropped, Ends, Gives, LetsGo, Retries, Noted, Present, Writing
<1>5. CASE Runs(j)
  BY <1>5, <1>e DEF Runs, Lands, Noted, Carried, Present, Writing
<1>6. CASE Merges(j)
  <2>1. draft'[j].notified = store[j].notified
    BY <1>6, <1>t, SettledFacts DEF Merges
  <2> QED
    BY <1>6, <1>e, <2>1 DEF Merges, Noted, Present, Writing
<1>7. CASE Settles(j)
  BY <1>7, <1>e, <1>t DEF Settles, LetsGo, Lands, Noted, Carried, Present, Writing, Terminal
<1>8. CASE Posts(j)
  BY <1>8, <1>e DEF Posts, Noted, Present, Writing
<1>9. CASE Reports(j)
  <2>1. hook'[j].at = "writing" => Present(j) /\ hook'[j].rec.state = store[j].state
    BY <1>9, <1>t, RecordFacts DEF Reports
  <2> QED
    BY <1>9, <1>e, <2>1 DEF Reports, Noted, Present, Writing
<1>10. CASE Notes(j)
  BY <1>10, <1>e DEF Notes, Lands, Noted, Carried, Present, Writing
<1>11. CASE IsRemoved(j) \/ Dies(j)
  BY <1>11, <1>e DEF IsRemoved, Dies, Noted, Present, Writing
<1>12. CASE Ages(j)
  <2>1. store'[j].state = store[j].state /\ store'[j].notified = store[j].notified
    BY <1>12, <1>t, RecordFacts DEF Ages
  <2> QED
    BY <1>12, <1>e, <2>1 DEF Ages, Noted, Present, Writing
<1>13. CASE IsCopied(j)
  <2>1. /\ Reclaimed(store[j]).state = "failed"
        /\ Reclaimed(store[j]).notified = store[j].notified
    BY <1>13, <1>t, RecordFacts DEF IsCopied
  <2> QED
    BY <1>13, <1>e, <2>1 DEF IsCopied, Noted, Present, Writing
<1>14. CASE IsReclaimed(j)
  BY <1>14, <1>e DEF IsReclaimed, Lands, Noted, Carried, Present, Writing, Terminal
<1> QED
  BY <1>m, <1>1, <1>2, <1>3, <1>4, <1>5, <1>6, <1>7, <1>8, <1>9, <1>10, <1>11, <1>12, <1>13,
     <1>14 DEF Moves

(* Without reclaim no step starts a pass that writes.                       *)
LEMMA DormantStep ==
    ASSUME TypeInv, Next, Dormant
    PROVE  Dormant'
<1> SUFFICES ASSUME OrphanTimeout = 0,
                    \A p \in Procs : sweeper[p].at \in {"idle", "purging"}
             PROVE  \A p \in Procs : sweeper'[p].at \in {"idle", "purging"}
  BY DEF Dormant
<1>t. sweeper \in [Procs -> Sweep]
  BY DEF TypeInv, TypeOK
<1>s. IdleSweep.at = "idle"
  BY DEF IdleSweep
<1>1. ASSUME NEW p \in Procs, NEW j \in Jobs, Create(p, j) PROVE UNCHANGED sweeper
  BY <1>1 DEF Create
<1>2. ASSUME NEW j \in Jobs, JobStep(j) PROVE UNCHANGED sweeper
  BY <1>2 DEF JobStep, CreateLands, PickUp, Vanished, MarkLands, FnReturns, FnThrows, SettleReads,
              SettleVanished, SettleLands, RetryFires, HookAccepted, HookRefused, HookReads,
              HookWrites
<1>3. ASSUME NEW p \in Procs, ProcStep(p)
      PROVE  \A q \in Procs : sweeper'[q].at \in {"idle", "purging"}
  <2>1. CASE PumpQueue(p)
    BY <2>1 DEF PumpQueue
  <2>2. CASE SweepBegins(p)
    <3>1. sweeper' = [sweeper EXCEPT ![p].at = "purging"]
      BY <2>2 DEF SweepBegins
    <3>2. \A s \in Sweep : [s EXCEPT !.at = "purging"].at = "purging"
      BY DEF Sweep
    <3> QED
      BY <1>t, <3>1, <3>2
  <2>3. CASE SweepLists(p) \/ SweepReads(p) \/ SweepWrites(p)
    BY <2>3 DEF SweepLists, SweepReads, SweepWrites
  <2>4. CASE SweepPurges(p)
    BY <1>t, <1>s, <2>4 DEF SweepPurges
  <2> QED
    BY <1>3, <2>1, <2>2, <2>3, <2>4 DEF ProcStep
<1>4. ASSUME NEW j \in Jobs, Remove(j) PROVE UNCHANGED sweeper
  BY <1>4 DEF Remove
<1>5. ASSUME NEW p \in Procs, Crash(p)
      PROVE  \A q \in Procs : sweeper'[q].at \in {"idle", "purging"}
  <2>1. sweeper' = [sweeper EXCEPT ![p] = IdleSweep]
    BY <1>5 DEF Crash
  <2> QED
    BY <1>t, <1>s, <2>1
<1>6. CASE Tick
  BY <1>6 DEF Tick
<1> QED
  BY <1>1, <1>2, <1>3, <1>4, <1>5, <1>6 DEF Next

(* Without reclaim a step stores a final record only as its entry leaves.   *)
LEMMA FinalStep ==
    ASSUME TypeInv, SlotInv, Next, NEW j \in Jobs, Begun(j), Carried(j), Dormant, Final(j)
    PROVE  Final(j)'
<1> SUFFICES ASSUME OrphanTimeout = 0 PROVE Final(j)'
  BY DEF Final
<1>m. Moves(j)
  BY JobMoves
<1>t. /\ outcome[j] \in {"pending", "completed", "failed"}
      /\ Present(j) => store[j] \in JobRecord
  BY JobTypes
<1>1. CASE Idles(j) \/ Comes(j) \/ IsTaken(j) \/ Merges(j)
  BY <1>1 DEF Idles, Comes, IsTaken, Merges, Final, Begun, Unstored, Present
<1>2. CASE IsStored(j)
  BY <1>2, NewRecordFacts DEF IsStored, Lands, Final, Begun, Unstored, Present, Terminal
<1>3. CASE IsDropped(j) \/ Ends(j) \/ Gives(j) \/ Retries(j)
  BY <1>3 DEF IsDropped, Ends, Gives, LetsGo, Retries, Final, Present
<1>4. CASE Runs(j)
  BY <1>4 DEF Runs, Lands, Final, Carried, Present, Terminal
<1>5. CASE Settles(j)
  BY <1>5, <1>t DEF Settles, LetsGo, Lands, Final, Carried, Present, Terminal
<1>6. CASE Posts(j)
  BY <1>6 DEF Posts, Final, Present
<1>7. CASE Reports(j)
  <2>1. hook'[j].at = "writing" => hook'[j].rec.state = store[j].state
    BY <1>7, <1>t, RecordFacts DEF Reports
  <2> QED
    BY <1>7, <2>1 DEF Reports, Final, Present
<1>8. CASE Notes(j)
  BY <1>8 DEF Notes, Lands, Final, Carried, Present
<1>9. CASE IsRemoved(j) \/ Dies(j) \/ IsCopied(j)
  BY <1>9 DEF IsRemoved, Dies, IsCopied, Final, Present
<1>10. CASE Ages(j)
  <2>1. store'[j].state = store[j].state
    BY <1>10, <1>t, RecordFacts DEF Ages
  <2> QED
    BY <1>10, <2>1 DEF Ages, Final, Present
<1>11. ~IsReclaimed(j)
  BY DEF IsReclaimed, Writing, Dormant
<1> QED
  BY <1>m, <1>1, <1>2, <1>3, <1>4, <1>5, <1>6, <1>7, <1>8, <1>9, <1>10, <1>11 DEF Moves

(* Without reclaim and errors every step that runs a function was counted first. *)
LEMMA CountedStep ==
    ASSUME TypeInv, SlotInv, Next, NEW j \in Jobs, Begun(j), Carried(j), Dormant, Counted(j)
    PROVE  Counted(j)'
<1> SUFFICES ASSUME OrphanTimeout = 0, errors' = 0 PROVE Counted(j)'
  BY DEF Counted
<1>m. Moves(j)
  BY JobMoves
<1>e. errors = 0
  BY FaultsGrow
<1>t. /\ runs[j] \in Nat /\ tries[j] \in Nat /\ MaxAttempts[j] \in Nat /\ MaxAttempts[j] > 0
      /\ outcome[j] \in {"pending", "completed", "failed"}
      /\ Present(j) => store[j] \in JobRecord /\ store[j].attempts \in Nat
      /\ at[j] \in {"marking", "settling"} => draft[j] \in JobRecord /\ draft[j].attempts \in Nat
  <2>1. \A r \in JobRecord : r.attempts \in Nat
    BY DEF JobRecord
  <2> QED
    BY <2>1, JobTypes
<1>1. CASE Idles(j) \/ Comes(j)
  BY <1>1, <1>e, <1>t DEF Idles, Comes, Counted, Begun, Unstored, Present
<1>2. CASE IsStored(j)
  BY <1>2, <1>e, <1>t, NewRecordFacts DEF IsStored, Lands, Counted, Begun, Unstored, Present
<1>3. CASE IsTaken(j)
  <2>1. draft'[j].attempts = store[j].attempts + 1
    BY <1>3, <1>t, RecordFacts DEF IsTaken
  <2> QED
    BY <1>3, <1>e, <1>t, <2>1 DEF IsTaken, Counted, Present
<1>4. CASE IsDropped(j) \/ Gives(j) \/ Retries(j)
  BY <1>4, <1>e, <1>t DEF IsDropped, Gives, LetsGo, Retries, Counted, Present
<1>5. CASE Runs(j)
  BY <1>5, <1>e, <1>t DEF Runs, Lands, Counted, Present
<1>6. CASE Ends(j)
  BY <1>6, <1>e, <1>t DEF Ends, Counted, Present
<1>7. CASE Merges(j)
  <2>1. draft'[j].attempts = store[j].attempts
    BY <1>7, <1>t, SettledFacts DEF Merges
  <2> QED
    BY <1>7, <1>e, <1>t, <2>1 DEF Merges, Counted, Present
<1>8. CASE Settles(j)
  BY <1>8, <1>e, <1>t DEF Settles, LetsGo, Lands, Counted, Present
<1>9. CASE Posts(j) \/ Reports(j)
  BY <1>9, <1>e, <1>t DEF Posts, Reports, Counted, Present
<1>10. CASE Notes(j)
  BY <1>10, <1>e, <1>t DEF Notes, Lands, Counted, Carried, Present
<1>11. CASE IsRemoved(j) \/ Dies(j) \/ IsCopied(j)
  BY <1>11, <1>e, <1>t DEF IsRemoved, Dies, IsCopied, Counted, Present
<1>12. CASE Ages(j)
  <2>1. store'[j].attempts = store[j].attempts
    BY <1>12, <1>t, RecordFacts DEF Ages
  <2> QED
    BY <1>12, <1>e, <1>t, <2>1 DEF Ages, Counted, Present
<1>13. ~IsReclaimed(j)
  BY DEF IsReclaimed, Writing, Dormant
<1> QED
  BY <1>m, <1>1, <1>2, <1>3, <1>4, <1>5, <1>6, <1>7, <1>8, <1>9, <1>10, <1>11, <1>12, <1>13
     DEF Moves

(* Without reclaim or any fault a step lets no entry go before it has run.  *)
LEMMA KeptStep ==
    ASSUME TypeInv, SlotInv, Next, NEW j \in Jobs, Carried(j), Tried(j), Dormant, Final(j), Kept(j)
    PROVE  Kept(j)'
<1> SUFFICES ASSUME OrphanTimeout = 0, Ordered, errors' = 0, removes' = 0, crashes' = 0
             PROVE  Kept(j)'
  BY DEF Kept
<1>m. Moves(j)
  BY JobMoves
<1>e. errors = 0 /\ removes = 0 /\ crashes = 0
  BY FaultsGrow
<1>t. /\ runs[j] \in Nat
      /\ Present(j) => store[j] \in JobRecord
      /\ at[j] \in {"marking", "settling"} => draft[j] \in JobRecord
      /\ hook[j].at = "writing" => hook[j].rec \in JobRecord
      /\ NewRecord \in JobRecord
  BY JobTypes, RecordTypes
<1>n. \A r \in JobRecord : r # None
  BY NoneAssumption
<1>1. CASE Idles(j) \/ Comes(j) \/ IsTaken(j) \/ IsDropped(j)
  BY <1>1, <1>e DEF Idles, Comes, IsTaken, IsDropped, Kept, Present
<1>2. CASE IsStored(j)
  BY <1>2, <1>e, <1>t, <1>n DEF IsStored, Lands, Kept, Present
<1>3. CASE Runs(j)
  BY <1>3, <1>e, <1>t, <1>n DEF Runs, Lands, Kept, Present
<1>4. CASE Ends(j) \/ Merges(j) \/ Retries(j)
  BY <1>4, <1>e DEF Ends, Merges, Retries, Kept, Present
<1>5. CASE Gives(j)
  BY <1>5, <1>e, <1>t DEF Gives, LetsGo, Kept, Tried, Present
<1>6. CASE Settles(j)
  BY <1>6, <1>e, <1>t, <1>n DEF Settles, LetsGo, Lands, Kept, Tried, Present
<1>7. CASE Posts(j) \/ Reports(j)
  BY <1>7, <1>e DEF Posts, Reports, Kept, Present
<1>8. CASE Notes(j)
  BY <1>8, <1>e, <1>t, <1>n DEF Notes, Lands, Kept, Present
<1>9. CASE IsRemoved(j)
  BY <1>9, <1>e DEF IsRemoved, Kept, Final, Present
<1>10. CASE Dies(j)
  BY <1>10 DEF Dies
<1>11. CASE Ages(j)
  <2>1. Older(store[j]) \in JobRecord
    BY <1>11, <1>t, RecordTypes DEF Ages
  <2> QED
    BY <1>11, <1>e, <1>n, <2>1 DEF Ages, Kept, Present
<1>12. CASE IsCopied(j)
  BY <1>12, <1>e DEF IsCopied, Kept, Present
<1>13. ~IsReclaimed(j)
  BY DEF IsReclaimed, Writing, Dormant
<1> QED
  BY <1>m, <1>1, <1>2, <1>3, <1>4, <1>5, <1>6, <1>7, <1>8, <1>9, <1>10, <1>11, <1>12, <1>13
     DEF Moves

-----------------------------------------------------------------------------
(* The invariant of all the jobs.                                           *)
RecordInv ==
    /\ Dormant
    /\ \A j \in Jobs :
         Begun(j) /\ Carried(j) /\ Tried(j) /\ Noted(j) /\ Final(j) /\ Counted(j) /\ Kept(j)

(* The first state has no record.                                           *)
LEMMA RecordInit == Init => RecordInv
<1> SUFFICES ASSUME Init PROVE RecordInv
  OBVIOUS
<1>1. /\ \A p \in Procs : sweeper[p].at = "idle"
      /\ \A j \in Jobs : /\ at[j] = "unborn" /\ store[j] = None /\ runs[j] = 0
                         /\ hook[j].at = "idle"
  BY DEF Init, IdleSweep, IdleHook
<1>2. \A j \in Jobs : MaxAttempts[j] \in Nat /\ MaxAttempts[j] > 0
  BY JobAssumption DEF JobAssumption
<1>3. Dormant
  BY <1>1 DEF Dormant
<1>4. ASSUME NEW j \in Jobs
      PROVE  Begun(j) /\ Carried(j) /\ Tried(j) /\ Noted(j) /\ Final(j) /\ Counted(j) /\ Kept(j)
  BY <1>1, <1>2 DEF Begun, Unstored, Carried, Tried, Noted, Final, Counted, Kept, Present, Writing
<1> QED
  BY <1>3, <1>4 DEF RecordInv

(* Every step keeps the invariant of the records.                           *)
LEMMA RecordNext == TypeInv /\ SlotInv /\ RecordInv /\ [Next]_vars => RecordInv'
<1> SUFFICES ASSUME TypeInv, SlotInv, RecordInv, [Next]_vars PROVE RecordInv'
  OBVIOUS
<1>1. CASE Next
  <2>1. Dormant'
    BY <1>1, DormantStep DEF RecordInv
  <2>2. ASSUME NEW j \in Jobs
        PROVE  Begun(j)' /\ Carried(j)' /\ Tried(j)' /\ Noted(j)' /\ Final(j)' /\ Counted(j)'
               /\ Kept(j)'
    <3>1. /\ Begun(j) /\ Carried(j) /\ Tried(j) /\ Noted(j) /\ Final(j) /\ Counted(j) /\ Kept(j)
          /\ Dormant
      BY DEF RecordInv
    <3>2. Begun(j)' /\ Carried(j)' /\ Tried(j)' /\ Noted(j)'
      BY <1>1, <3>1, BegunStep, CarriedStep, TriedStep, NotedStep
    <3>3. Final(j)' /\ Counted(j)' /\ Kept(j)'
      BY <1>1, <3>1, FinalStep, CountedStep, KeptStep
    <3> QED
      BY <3>2, <3>3
  <2> QED
    BY <2>1, <2>2 DEF RecordInv
<1>2. CASE UNCHANGED vars
  <2>1. UNCHANGED <<at, landing, tries, outcome, draft, store, sweeper, hook, runs, crashes, errors,
                    removes>>
    BY <1>2 DEF vars
  <2>2. Dormant'
    BY <2>1 DEF RecordInv, Dormant
  <2>3. ASSUME NEW j \in Jobs
        PROVE  Begun(j)' /\ Carried(j)' /\ Tried(j)' /\ Noted(j)' /\ Final(j)' /\ Counted(j)'
               /\ Kept(j)'
    <3>1. Begun(j)' /\ Carried(j)' /\ Tried(j)' /\ Noted(j)'
      BY <2>1 DEF RecordInv, Begun, Unstored, Carried, Tried, Earned, Noted, Present, Writing
    <3>2. Final(j)' /\ Counted(j)' /\ Kept(j)'
      BY <2>1 DEF RecordInv, Final, Counted, Kept, Present
    <3> QED
      BY <3>1, <3>2
  <2> QED
    BY <2>2, <2>3 DEF RecordInv
<1> QED
  BY <1>1, <1>2

(* Types, slots and records are invariant together.                         *)
LEMMA RecordsInvariant == Spec => [](TypeInv /\ SlotInv /\ RecordInv)
BY TypeInit, SlotInit, RecordInit, TypeNext, SlotNext, RecordNext, PTL DEF Spec

(* A record blames its attempts for a failure only when every one allowed   *)
(* was made, whatever errors, crashes, removals and reclaims came between   *)
(* (settle 641-677).                                                        *)
THEOREM FailuresAreEarned == Spec => [](\A j \in Jobs : FailedAfterLast(j))
<1>1. RecordInv => \A j \in Jobs : FailedAfterLast(j)
  BY DEF RecordInv, Tried, Earned, FailedAfterLast
<1> QED
  BY <1>1, RecordsInvariant, PTL

(* Over a store without errors nobody is told of an outcome the record does *)
(* not hold, and no verdict is put on a record that could still change,     *)
(* reclaim and crashes included (settle 641-677, deliverWebhook 735-776).   *)
THEOREM NotificationsAreFinal == Spec => []NotifiedWhenFinal
<1>1. RecordInv => NotifiedWhenFinal
  BY DEF RecordInv, Noted, NotifiedWhenFinal
<1> QED
  BY <1>1, RecordsInvariant, PTL

(* With reclaim disabled, no function runs more often than maxAttempts over *)
(* a store without errors, however the calls of a process are ordered.      *)
THEOREM AttemptsAreBounded ==
    ASSUME OrphanTimeout = 0
    PROVE  Spec => [](\A j \in Jobs : NotOverrun(j))
<1>1. RecordInv => \A j \in Jobs : NotOverrun(j)
  BY DEF RecordInv, Counted, NotOverrun
<1> QED
  BY <1>1, RecordsInvariant, PTL

(* With reclaim disabled and the calls of a process answered in order,      *)
(* maxAttempts is honoured in full: no attempt too many, and no entry let   *)
(* go of before its first.                                                  *)
THEOREM AttemptsAreHonored ==
    ASSUME OrphanTimeout = 0, Ordered
    PROVE  Spec => []AttemptsHonored
<1>1. RecordInv => AttemptsHonored
  <2> SUFFICES ASSUME RecordInv, NEW j \in Jobs
               PROVE  FailedAfterLast(j) /\ NotOverrun(j) /\ NotUnrun(j)
    BY DEF AttemptsHonored
  <2>1. FailedAfterLast(j)
    BY DEF RecordInv, Tried, Earned, FailedAfterLast
  <2>2. NotOverrun(j)
    BY DEF RecordInv, Counted, NotOverrun
  <2>3. NotUnrun(j)
    BY DEF RecordInv, Kept, NotUnrun
  <2> QED
    BY <2>1, <2>2, <2>3
<1> QED
  BY <1>1, RecordsInvariant, PTL

(* With reclaim disabled, completed and failed are final, whatever retries, *)
(* webhooks and late sets are still under way and whatever the store        *)
(* answers.                                                                 *)
THEOREM TerminalStaysFinal ==
    ASSUME OrphanTimeout = 0
    PROVE  Spec => TerminalIsFinal
<1>1. ASSUME TypeInv, SlotInv, RecordInv, Next, NEW j \in Jobs,
             Present(j), Present(j)', store[j].state \in Terminal
      PROVE  store'[j].state = store[j].state
  <2>m. Moves(j)
    BY <1>1, JobMoves
  <2>j. Begun(j) /\ Carried(j) /\ Dormant /\ Final(j) /\ store[j] \in JobRecord
    BY <1>1, JobTypes DEF RecordInv
  <2>1. at[j] = "gone" /\ j \notin landing
    BY <1>1, <2>j DEF Final, Begun, Unstored
  <2>2. CASE Notes(j)
    BY <1>1, <2>j, <2>2 DEF Notes, Lands, Final
  <2>3. CASE Ages(j)
    BY <2>j, <2>3, RecordFacts DEF Ages
  <2>4. ~IsReclaimed(j)
    BY <2>j DEF IsReclaimed, Writing, Dormant
  <2>5. CASE IsRemoved(j)
    BY <1>1, <2>5 DEF IsRemoved, Present
  <2>6. CASE ~Notes(j) /\ ~Ages(j) /\ ~IsRemoved(j)
    BY <2>m, <2>1, <2>4, <2>6
       DEF Moves, Idles, Comes, IsStored, IsTaken, IsDropped, Runs, Ends, Merges, Gives, Settles,
           Retries, Posts, Reports, Dies, IsCopied
  <2> QED
    BY <2>2, <2>3, <2>5, <2>6
<1>2. TypeInv /\ SlotInv /\ RecordInv /\ [Next]_vars =>
        [\A j \in Jobs : Present(j) /\ Present(j)' /\ store[j].state \in Terminal =>
             store'[j].state = store[j].state]_store
  BY <1>1 DEF vars
<1> QED
  BY <1>2, RecordsInvariant, PTL DEF Spec, TerminalIsFinal
=============================================================================
