--------------------------- MODULE JobWorkerProofs ---------------------------
(* Machine-checked theorems about JobWorker: the accounting of worker slots *)
(* and the absence of lost wake-ups, for any number of processes and jobs.  *)
EXTENDS JobWorker, FiniteSetTheorems, TLAPS

(* The variables the accounting of slots rests on have their types, and an  *)
(* entry has an owner exactly from its create() on.                         *)
SlotTypes ==
    /\ at \in [Jobs -> Place]
    /\ owner \in [Jobs -> Procs \cup {None}]
    /\ ahead \in [Jobs -> SUBSET Jobs]
    /\ running \in [Procs -> Nat]
    /\ pump \subseteq Procs
    /\ landing \subseteq Jobs

Owned == \A j \in Jobs : (at[j] = "unborn" => owner[j] = None /\ j \notin landing)
                      /\ (at[j] # "unborn" => owner[j] \in Procs)

(* The inductive invariant: NoLostWakeup alone does not say that a freed    *)
(* slot was really free, nor SlotsAccounted who the slots belong to.        *)
SlotInv == SlotTypes /\ Owned /\ SlotsAccounted /\ NoLostWakeup

-----------------------------------------------------------------------------
(* The entries of one process in a set of places are finitely many.         *)
LEMMA HoldingFinite ==
    ASSUME NEW p, NEW STATE places
    PROVE  /\ IsFiniteSet(Holding(p, places)) /\ Cardinality(Holding(p, places)) \in Nat
           /\ IsFiniteSet(Waiting(p, places)) /\ Cardinality(Waiting(p, places)) \in Nat
BY JobAssumption, FS_Subset, FS_CardinalityType DEF Holding, Waiting, JobAssumption

(* What a drain() of process p leaves behind: every slot it took is         *)
(* counted, the cap holds, a free slot means an empty queue, and the other  *)
(* processes are untouched.                                                 *)
LEMMA DrainCounts ==
    ASSUME NEW p \in Procs,
           NEW STATE places, places \in [Jobs -> Place],
           NEW STATE order, order \in [Jobs -> SUBSET Jobs],
           NEW STATE busy, busy \in Nat,
           running \in [Procs -> Nat],
           busy = Cardinality(Holding(p, places)),
           busy <= MaxConcurrency,
           UNCHANGED owner,
           Drain(p, places, order, busy)
    PROVE  /\ at' \in [Jobs -> Place]
           /\ ahead' \in [Jobs -> SUBSET Jobs]
           /\ running' \in [Procs -> Nat]
           /\ running'[p] = Cardinality(Holding(p, at)')
           /\ running'[p] <= MaxConcurrency
           /\ running'[p] < MaxConcurrency => Waiting(p, at)' = {}
           /\ \A j \in Jobs : \/ at'[j] = places[j]
                              \/ places[j] = "queued" /\ owner[j] = p /\ at'[j] = "reading"
           /\ \A q \in Procs \ {p} : /\ Holding(q, at)' = Holding(q, places)
                                     /\ Waiting(q, at)' = Waiting(q, places)
                                     /\ running'[q] = running[q]
<1>1. PICK S \in SUBSET Waiting(p, places) :
        /\ Starts(Waiting(p, places), order, busy, S)
        /\ at' = [j \in Jobs |-> IF j \in S THEN "reading" ELSE places[j]]
        /\ ahead' = [j \in Jobs |-> IF j \in S THEN {} ELSE order[j] \ S]
        /\ running' = [running EXCEPT ![p] = busy + Cardinality(S)]
  BY DEF Drain
<1>2. IsFiniteSet(S) /\ Cardinality(S) \in Nat
  BY HoldingFinite, FS_Subset, FS_CardinalityType
<1>3. /\ at' \in [Jobs -> Place]
      /\ ahead' \in [Jobs -> SUBSET Jobs]
      /\ running' \in [Procs -> Nat]
  BY <1>1, <1>2 DEF Place, Slotted
<1>4. Holding(p, at)' = Holding(p, places) \cup S
  BY <1>1 DEF Holding, Waiting, Slotted
<1>5. Holding(p, places) \cap S = {}
  BY DEF Holding, Waiting, Slotted
<1>6. Cardinality(Holding(p, at)') = busy + Cardinality(S)
  <2>1. Cardinality(Holding(p, places) \cup S)
          = Cardinality(Holding(p, places)) + Cardinality(S)
              - Cardinality(Holding(p, places) \cap S)
    BY <1>2, HoldingFinite, FS_Union
  <2>2. Cardinality(Holding(p, places) \cap S) = 0
    BY <1>5, FS_EmptySet
  <2> QED BY <1>2, <1>4, <2>1, <2>2
<1>7. running'[p] = busy + Cardinality(S)
  BY <1>1
<1>8. busy + Cardinality(S) <= MaxConcurrency
  BY <1>1, <1>2, JobAssumption DEF Starts, JobAssumption
<1>9. ASSUME busy + Cardinality(S) < MaxConcurrency
      PROVE  Waiting(p, at)' = {}
  <2>1. S = Waiting(p, places)
    BY <1>1, <1>2, <1>9, JobAssumption DEF Starts, JobAssumption
  <2> QED BY <1>1, <2>1 DEF Waiting
<1>10. \A j \in Jobs : \/ at'[j] = places[j]
                       \/ places[j] = "queued" /\ owner[j] = p /\ at'[j] = "reading"
  BY <1>1 DEF Waiting
<1>11. ASSUME NEW q \in Procs \ {p}
       PROVE  /\ Holding(q, at)' = Holding(q, places)
              /\ Waiting(q, at)' = Waiting(q, places)
              /\ running'[q] = running[q]
  BY <1>1 DEF Holding, Waiting
<1> QED BY <1>3, <1>6, <1>7, <1>8, <1>9, <1>10, <1>11

(* A step that drains process p keeps the invariant when, before the drain, *)
(* every entry is accounted for at `places` and nobody else has moved.      *)
LEMMA DrainKeeps ==
    ASSUME SlotInv,
           NEW p \in Procs,
           NEW STATE places, places \in [Jobs -> Place],
           NEW STATE order, order \in [Jobs -> SUBSET Jobs],
           NEW STATE busy, busy \in Nat,
           busy = Cardinality(Holding(p, places)),
           busy <= MaxConcurrency,
           \A j \in Jobs : owner[j] # p => places[j] = at[j],
           \A j \in Jobs : places[j] = "unborn" <=> at[j] = "unborn",
           UNCHANGED <<owner, landing>>,
           pump \ {p} \subseteq pump',
           pump' \subseteq Procs,
           Drain(p, places, order, busy)
    PROVE  SlotInv'
<1>1. running \in [Procs -> Nat]
  BY DEF SlotInv, SlotTypes
<1>2. /\ at' \in [Jobs -> Place]
      /\ ahead' \in [Jobs -> SUBSET Jobs]
      /\ running' \in [Procs -> Nat]
      /\ running'[p] = Cardinality(Holding(p, at)')
      /\ running'[p] <= MaxConcurrency
      /\ running'[p] < MaxConcurrency => Waiting(p, at)' = {}
      /\ \A j \in Jobs : \/ at'[j] = places[j]
                         \/ places[j] = "queued" /\ owner[j] = p /\ at'[j] = "reading"
      /\ \A q \in Procs \ {p} : /\ Holding(q, at)' = Holding(q, places)
                                /\ Waiting(q, at)' = Waiting(q, places)
                                /\ running'[q] = running[q]
  BY <1>1, DrainCounts
<1>3. \A q \in Procs \ {p} : /\ Holding(q, places) = Holding(q, at)
                             /\ Waiting(q, places) = Waiting(q, at)
  BY DEF Holding, Waiting
<1>4. SlotTypes'
  BY <1>2 DEF SlotInv, SlotTypes
<1>5. Owned'
  BY <1>2 DEF SlotInv, Owned
<1>6. SlotsAccounted'
  BY <1>2, <1>3 DEF SlotInv, SlotsAccounted
<1>7. NoLostWakeup'
  <2> SUFFICES ASSUME NEW q \in Procs, running'[q] < MaxConcurrency, Waiting(q, at)' # {}
               PROVE  q \in pump' \/ \E j \in landing' : owner'[j] = q
    BY DEF NoLostWakeup
  <2>1. q # p
    BY <1>2
  <2>2. running[q] < MaxConcurrency /\ Waiting(q, at) # {}
    BY <1>2, <1>3, <2>1
  <2> QED BY <2>1, <2>2 DEF SlotInv, NoLostWakeup
<1> QED BY <1>4, <1>5, <1>6, <1>7 DEF SlotInv

(* A step that moves entries between places that hold a slot, and no other  *)
(* way, keeps the invariant.                                                *)
LEMMA MoveKeeps ==
    ASSUME SlotInv,
           UNCHANGED <<owner, ahead, running, pump, landing>>,
           at' \in [Jobs -> Place],
           \A j \in Jobs : at'[j] = at[j] \/ (at[j] \in Slotted /\ at'[j] \in Slotted)
    PROVE  SlotInv'
<1>1. \A q \in Procs : /\ Holding(q, at)' = Holding(q, at)
                       /\ Waiting(q, at)' = Waiting(q, at)
  BY DEF Holding, Waiting, Slotted
<1>2. SlotTypes' /\ Owned'
  BY DEF SlotInv, SlotTypes, Owned, Slotted
<1>3. SlotsAccounted' /\ NoLostWakeup'
  BY <1>1 DEF SlotInv, SlotsAccounted, NoLostWakeup
<1> QED BY <1>2, <1>3 DEF SlotInv

(* An entry that holds a slot and gives it up leaves one slot less to count.*)
LEMMA ReleaseCounts ==
    ASSUME SlotInv,
           NEW j \in Jobs,
           at[j] \in Slotted,
           NEW STATE next, next \in Place \ (Slotted \cup {"unborn"})
    PROVE  LET places == [at EXCEPT ![j] = next]
               busy   == running[owner[j]] - 1
           IN  /\ owner[j] \in Procs
               /\ places \in [Jobs -> Place]
               /\ busy \in Nat
               /\ busy = Cardinality(Holding(owner[j], places))
               /\ busy <= MaxConcurrency
               /\ \A i \in Jobs : owner[i] # owner[j] => places[i] = at[i]
               /\ \A i \in Jobs : places[i] = "unborn" <=> at[i] = "unborn"
<1> DEFINE places == [at EXCEPT ![j] = next]
           p == owner[j]
<1>1. p \in Procs
  BY DEF SlotInv, Owned, Slotted
<1>2. at \in [Jobs -> Place] /\ places \in [Jobs -> Place]
  BY DEF SlotInv, SlotTypes
<1>3. Holding(p, places) = Holding(p, at) \ {j}
  BY <1>2 DEF Holding
<1>4. j \in Holding(p, at)
  BY DEF Holding
<1>5. Cardinality(Holding(p, places)) = Cardinality(Holding(p, at)) - 1
  BY <1>3, <1>4, HoldingFinite, FS_RemoveElement
<1>6. running[p] = Cardinality(Holding(p, at)) /\ running[p] <= MaxConcurrency
  BY <1>1 DEF SlotInv, SlotsAccounted
<1>7. Cardinality(Holding(p, places)) \in Nat
  BY HoldingFinite
<1>8. running[p] - 1 \in Nat /\ running[p] - 1 <= MaxConcurrency
  BY <1>1, <1>5, <1>6, <1>7, JobAssumption DEF JobAssumption, SlotInv, SlotTypes
<1>9. \A i \in Jobs : places[i] = "unborn" <=> at[i] = "unborn"
  BY <1>2 DEF Slotted
<1>10. \A i \in Jobs : owner[i] # owner[j] => places[i] = at[i]
  BY <1>2
<1> QED BY <1>1, <1>2, <1>5, <1>6, <1>8, <1>9, <1>10

(* A step that touches neither the entries nor the slots.                   *)
LEMMA UnrelatedKeeps ==
    ASSUME SlotInv, UNCHANGED <<entryVars, landing>>
    PROVE  SlotInv'
BY DEF SlotInv, SlotTypes, Owned, SlotsAccounted, NoLostWakeup, Holding, Waiting, entryVars

(* Nothing runs and nothing waits at first.                                 *)
LEMMA SlotInit == Init => SlotInv
<1> SUFFICES ASSUME Init PROVE SlotInv
  OBVIOUS
<1>1. \A p \in Procs : Holding(p, at) = {} /\ Waiting(p, at) = {}
  BY DEF Init, Holding, Waiting, Slotted
<1>2. SlotTypes /\ Owned
  BY DEF Init, SlotTypes, Owned, Place
<1>3. SlotsAccounted
  <2>1. \A p \in Procs : running[p] = 0
    BY DEF Init
  <2>2. \A p \in Procs : Cardinality(Holding(p, at)) = 0
    BY <1>1, FS_EmptySet
  <2> QED BY <2>1, <2>2, JobAssumption DEF SlotsAccounted, JobAssumption
<1>4. NoLostWakeup
  BY <1>1 DEF NoLostWakeup
<1> QED BY <1>2, <1>3, <1>4 DEF SlotInv

-----------------------------------------------------------------------------
(* The steps that change the entries, one by one.                           *)
LEMMA CreateKeeps ==
    ASSUME SlotInv, NEW p \in Procs, NEW j \in Jobs, Create(p, j)
    PROVE  SlotInv'
<1>1. at[j] = "unborn" /\ owner[j] = None
  BY DEF Create, SlotInv, Owned
<1>2. None \notin Procs
  BY JobAssumption DEF JobAssumption
<1>3. SlotTypes'
  BY DEF Create, SlotInv, SlotTypes, Place, Waiting
<1>4. Owned'
  BY <1>1 DEF Create, SlotInv, SlotTypes, Owned
<1>5. \A q \in Procs : Holding(q, at)' = Holding(q, at)
  BY <1>1, <1>2 DEF Create, SlotInv, SlotTypes, Holding, Slotted
<1>6. SlotsAccounted'
  BY <1>5 DEF Create, SlotInv, SlotsAccounted
<1>7. NoLostWakeup'
  <2> SUFFICES ASSUME NEW q \in Procs, running'[q] < MaxConcurrency, Waiting(q, at)' # {}
               PROVE  q \in pump' \/ \E i \in landing' : owner'[i] = q
    BY DEF NoLostWakeup
  <2>1. CASE q = p
    BY <2>1 DEF Create, SlotInv, SlotTypes
  <2>2. CASE q # p
    <3>1. Waiting(q, at)' = Waiting(q, at)
      BY <1>1, <1>2, <2>2 DEF Create, SlotInv, SlotTypes, Waiting
    <3>2. \A i \in landing : owner'[i] = owner[i]
      BY <1>1 DEF Create, SlotInv, SlotTypes, Owned
    <3> QED BY <3>1, <3>2 DEF Create, SlotInv, NoLostWakeup
  <2> QED BY <2>1, <2>2
<1> QED BY <1>3, <1>4, <1>6, <1>7 DEF SlotInv

(* The record of a new job is stored, or not, and the queue drained.        *)
LEMMA CreateLandsKeeps ==
    ASSUME SlotInv, NEW j \in Jobs, CreateLands(j)
    PROVE  SlotInv'
<1>1. owner[j] \in Procs
  BY DEF CreateLands, SlotInv, Owned
<1>2. UNCHANGED <<at, owner, ahead, running>>
  BY DEF CreateLands
<1>3. SlotTypes' /\ Owned'
  BY <1>1, <1>2 DEF CreateLands, SlotInv, SlotTypes, Owned
<1>4. SlotsAccounted'
  BY <1>2 DEF SlotInv, SlotsAccounted, Holding
<1>5. NoLostWakeup'
  BY <1>2 DEF CreateLands, SlotInv, NoLostWakeup, Waiting
<1> QED BY <1>3, <1>4, <1>5 DEF SlotInv

(* A drain that was still to come keeps the accounting.                     *)
LEMMA PumpKeeps ==
    ASSUME SlotInv, NEW p \in Procs, PumpQueue(p)
    PROVE  SlotInv'
<1>1. /\ at \in [Jobs -> Place] /\ ahead \in [Jobs -> SUBSET Jobs]
      /\ running[p] \in Nat
      /\ running[p] = Cardinality(Holding(p, at))
      /\ running[p] <= MaxConcurrency
  BY DEF SlotInv, SlotTypes, SlotsAccounted
<1>2. /\ UNCHANGED <<owner, landing>>
      /\ pump \ {p} \subseteq pump' /\ pump' \subseteq Procs
      /\ Drain(p, at, ahead, running[p])
  BY DEF PumpQueue, SlotInv, SlotTypes
<1> QED BY <1>1, <1>2, DrainKeeps

(* An entry whose record is gone frees its slot.                            *)
LEMMA VanishedKeeps ==
    ASSUME SlotInv, NEW j \in Jobs, Vanished(j)
    PROVE  SlotInv'
<1>1. at[j] \in Slotted /\ "gone" \in Place \ (Slotted \cup {"unborn"})
  BY DEF Vanished, MayRead, Slotted, Place
<1>2. /\ UNCHANGED <<owner, landing, pump>>
      /\ Drain(owner[j], [at EXCEPT ![j] = "gone"], ahead, running[owner[j]] - 1)
  BY DEF Vanished
<1>3. pump \subseteq Procs /\ ahead \in [Jobs -> SUBSET Jobs]
  BY DEF SlotInv, SlotTypes
<1> QED BY <1>1, <1>2, <1>3, ReleaseCounts, DrainKeeps

(* A settled attempt frees its slot, and retries or leaves.                 *)
LEMMA ReleaseKeeps ==
    ASSUME SlotInv, NEW j \in Jobs, at[j] \in Slotted, Release(j),
           UNCHANGED <<owner, landing, pump>>
    PROVE  SlotInv'
<1> DEFINE next == IF outcome[j] = "pending" THEN "backoff" ELSE "gone"
<1>1. next \in Place \ (Slotted \cup {"unborn"})
  BY DEF Slotted, Place
<1>2. Drain(owner[j], [at EXCEPT ![j] = next], ahead, running[owner[j]] - 1)
  BY DEF Release
<1>3. pump \subseteq Procs /\ ahead \in [Jobs -> SUBSET Jobs]
  BY DEF SlotInv, SlotTypes
<1> HIDE DEF next
<1> QED BY <1>1, <1>2, <1>3, ReleaseCounts, DrainKeeps

(* A retry joins the queue again.                                           *)
LEMMA RetryKeeps ==
    ASSUME SlotInv, NEW j \in Jobs, RetryFires(j)
    PROVE  SlotInv'
<1> DEFINE p == owner[j]
           places == [at EXCEPT ![j] = "queued"]
           order  == [ahead EXCEPT ![j] = Waiting(p, at)]
<1>1. at[j] = "backoff" /\ p \in Procs
  BY DEF RetryFires, SlotInv, Owned
<1>2. /\ places \in [Jobs -> Place]
      /\ order \in [Jobs -> SUBSET Jobs]
      /\ at \in [Jobs -> Place]
  BY DEF SlotInv, SlotTypes, Place, Waiting
<1>3. Holding(p, places) = Holding(p, at)
  BY <1>1, <1>2 DEF Holding, Slotted
<1>4. /\ running[p] \in Nat
      /\ running[p] = Cardinality(Holding(p, places))
      /\ running[p] <= MaxConcurrency
  BY <1>1, <1>3 DEF SlotInv, SlotTypes, SlotsAccounted
<1>5. /\ \A i \in Jobs : owner[i] # p => places[i] = at[i]
      /\ \A i \in Jobs : places[i] = "unborn" <=> at[i] = "unborn"
  BY <1>1, <1>2
<1>6. /\ UNCHANGED <<owner, landing, pump>>
      /\ Drain(p, places, order, running[p])
  BY DEF RetryFires
<1>7. pump \subseteq Procs
  BY DEF SlotInv, SlotTypes
<1> HIDE DEF p, places, order
<1> QED BY <1>1, <1>2, <1>4, <1>5, <1>6, <1>7, DrainKeeps

(* A crash clears the slots and the queue of its process.                   *)
LEMMA CrashKeeps ==
    ASSUME SlotInv, NEW p \in Procs, Crash(p)
    PROVE  SlotInv'
<1>1. \A j \in Jobs : at'[j] = IF owner[j] = p THEN "gone" ELSE at[j]
  BY DEF Crash
<1>2. /\ UNCHANGED owner
      /\ running' = [running EXCEPT ![p] = 0]
      /\ pump' = pump \ {p}
      /\ landing' = {j \in landing : owner[j] # p}
  BY DEF Crash, SlotInv, SlotTypes
<1>3. SlotTypes'
  BY <1>2 DEF Crash, SlotInv, SlotTypes, Place
<1>4. Owned'
  BY <1>1, <1>2, JobAssumption DEF SlotInv, Owned, JobAssumption
<1>5. Holding(p, at)' = {} /\ Waiting(p, at)' = {}
  BY <1>1, <1>2 DEF Holding, Waiting, Slotted
<1>6. \A q \in Procs \ {p} : /\ Holding(q, at)' = Holding(q, at)
                             /\ Waiting(q, at)' = Waiting(q, at)
  BY <1>1, <1>2 DEF Holding, Waiting
<1>7. SlotsAccounted'
  <2> SUFFICES ASSUME NEW q \in Procs
               PROVE  /\ running'[q] = Cardinality(Holding(q, at)')
                      /\ running'[q] <= MaxConcurrency
    BY DEF SlotsAccounted
  <2>1. CASE q = p
    <3>1. running'[q] = 0
      BY <1>2, <2>1 DEF SlotInv, SlotTypes
    <3>2. Cardinality(Holding(q, at)') = 0
      BY <1>5, <2>1, FS_EmptySet
    <3> QED BY <3>1, <3>2, JobAssumption DEF JobAssumption
  <2>2. CASE q # p
    BY <1>2, <1>6, <2>2 DEF SlotInv, SlotTypes, SlotsAccounted
  <2> QED BY <2>1, <2>2
<1>8. NoLostWakeup'
  <2> SUFFICES ASSUME NEW q \in Procs, running'[q] < MaxConcurrency, Waiting(q, at)' # {}
               PROVE  q \in pump' \/ \E j \in landing' : owner'[j] = q
    BY DEF NoLostWakeup
  <2>1. q # p
    BY <1>5
  <2>2. running[q] < MaxConcurrency /\ Waiting(q, at) # {}
    BY <1>2, <1>6, <2>1 DEF SlotInv, SlotTypes
  <2> QED BY <1>2, <2>1, <2>2 DEF SlotInv, NoLostWakeup
<1> QED BY <1>3, <1>4, <1>7, <1>8 DEF SlotInv

-----------------------------------------------------------------------------
(* The invariant is inductive.                                              *)
LEMMA SlotNext == SlotInv /\ [Next]_vars => SlotInv'
<1> SUFFICES ASSUME SlotInv, [Next]_vars PROVE SlotInv'
  OBVIOUS
<1>1. ASSUME NEW p \in Procs, NEW j \in Jobs, Create(p, j) PROVE SlotInv'
  BY <1>1, CreateKeeps
<1>2. ASSUME NEW j \in Jobs, CreateLands(j) PROVE SlotInv'
  BY <1>2, CreateLandsKeeps
<1>3. ASSUME NEW p \in Procs, PumpQueue(p) PROVE SlotInv'
  BY <1>3, PumpKeeps
<1>4. ASSUME NEW j \in Jobs, Vanished(j) PROVE SlotInv'
  BY <1>4, VanishedKeeps
<1>5. ASSUME NEW j \in Jobs, SettleVanished(j) \/ SettleLands(j) PROVE SlotInv'
  <2>1. at[j] \in Slotted /\ Release(j) /\ UNCHANGED <<owner, landing, pump>>
    BY <1>5 DEF SettleVanished, SettleLands, Slotted
  <2> QED BY <2>1, ReleaseKeeps
<1>6. ASSUME NEW j \in Jobs, RetryFires(j) PROVE SlotInv'
  BY <1>6, RetryKeeps
<1>7. ASSUME NEW p \in Procs, Crash(p) PROVE SlotInv'
  BY <1>7, CrashKeeps
<1>8. ASSUME NEW j \in Jobs, PickUp(j) PROVE SlotInv'
  BY <1>8, MoveKeeps DEF PickUp, MayRead, SlotInv, SlotTypes, Place, Slotted
<1>9. ASSUME NEW j \in Jobs, MarkLands(j) PROVE SlotInv'
  BY <1>9, MoveKeeps DEF MarkLands, SlotInv, SlotTypes, Place, Slotted
<1>10. ASSUME NEW j \in Jobs, FnReturns(j) PROVE SlotInv'
  BY <1>10, MoveKeeps DEF FnReturns, SlotInv, SlotTypes, Place, Slotted
<1>11. ASSUME NEW j \in Jobs, FnThrows(j) PROVE SlotInv'
  BY <1>11, MoveKeeps DEF FnThrows, SlotInv, SlotTypes, Place, Slotted
<1>12. ASSUME NEW j \in Jobs, SettleReads(j) PROVE SlotInv'
  BY <1>12, MoveKeeps DEF SettleReads, SlotInv, SlotTypes, Place, Slotted
<1>13. ASSUME NEW j \in Jobs, HookAccepted(j) PROVE SlotInv'
  BY <1>13, UnrelatedKeeps DEF HookAccepted, entryVars
<1>14. ASSUME NEW j \in Jobs, HookRefused(j) PROVE SlotInv'
  BY <1>14, UnrelatedKeeps DEF HookRefused, entryVars
<1>15. ASSUME NEW j \in Jobs, HookReads(j) PROVE SlotInv'
  BY <1>15, UnrelatedKeeps DEF HookReads, entryVars
<1>16. ASSUME NEW j \in Jobs, HookWrites(j) PROVE SlotInv'
  BY <1>16, UnrelatedKeeps DEF HookWrites, entryVars
<1>17. ASSUME NEW j \in Jobs, Remove(j) PROVE SlotInv'
  BY <1>17, UnrelatedKeeps DEF Remove, entryVars
<1>18. ASSUME NEW p \in Procs, SweepBegins(p) PROVE SlotInv'
  BY <1>18, UnrelatedKeeps DEF SweepBegins, entryVars
<1>19. ASSUME NEW p \in Procs, SweepLists(p) PROVE SlotInv'
  BY <1>19, UnrelatedKeeps DEF SweepLists, entryVars
<1>20. ASSUME NEW p \in Procs, SweepReads(p) PROVE SlotInv'
  BY <1>20, UnrelatedKeeps DEF SweepReads, entryVars
<1>21. ASSUME NEW p \in Procs, SweepWrites(p) PROVE SlotInv'
  BY <1>21, UnrelatedKeeps DEF SweepWrites, entryVars
<1>22. ASSUME NEW p \in Procs, SweepPurges(p) PROVE SlotInv'
  BY <1>22, UnrelatedKeeps DEF SweepPurges, entryVars
<1>23. CASE Tick
  BY <1>23, UnrelatedKeeps DEF Tick, entryVars
<1>24. CASE UNCHANGED vars
  BY <1>24, UnrelatedKeeps DEF vars, entryVars
<1> QED
  BY <1>1, <1>2, <1>3, <1>4, <1>5, <1>6, <1>7, <1>8, <1>9, <1>10, <1>11, <1>12, <1>13, <1>14, <1>15, <1>16, <1>17, <1>18, <1>19, <1>20, <1>21, <1>22, <1>23, <1>24 DEF Next, JobStep, ProcStep

(* _running always equals the number of entries that hold a slot and never  *)
(* passes maxConcurrency, through vanished records, failing stores, retries *)
(* and restarts (drain 542-548, runOne 588-622, settle 641-677).            *)
THEOREM SlotsAreAccounted == Spec => []SlotsAccounted
<1>1. SlotInv => SlotsAccounted
  BY DEF SlotInv
<1> QED BY <1>1, SlotInit, SlotNext, PTL DEF Spec

(* An entry never waits beside a free slot without a drain() to come        *)
(* (create 863-908, drain 542-548).                                         *)
THEOREM NoWakeupIsLost == Spec => []NoLostWakeup
<1>1. SlotInv => NoLostWakeup
  BY DEF SlotInv
<1> QED BY <1>1, SlotInit, SlotNext, PTL DEF Spec

-----------------------------------------------------------------------------
(* Type correctness.  A pending set carries a record, a retry only happens  *)
(* below the attempt ceiling (so its delay is defined), and a reclaim that  *)
(* is about to write knows which record.                                    *)
Drafted ==
    /\ \A j \in Jobs : at[j] \in {"marking", "settling"} => draft[j] \in JobRecord
    /\ \A j \in Jobs : at[j] \in {"marking", "executing", "merging", "settling"} =>
                           tries[j] >= 1
    /\ \A j \in Jobs : at[j] \in {"merging", "settling"} /\ outcome[j] = "pending" =>
                           tries[j] < MaxAttempts[j]

Written ==
    /\ \A j \in Jobs : hook[j].at = "writing" => hook[j].rec \in JobRecord
    /\ \A p \in Procs : sweeper[p].at = "writing" =>
                           sweeper[p].job \in Jobs /\ sweeper[p].rec \in JobRecord

TypeInv == TypeOK /\ Drafted /\ Written

(* The parts of TypeOK that SlotInv does not already give.                  *)
LEMMA RecordTypes ==
    /\ NewRecord \in JobRecord
    /\ \A r \in JobRecord : Reclaimed(r) \in JobRecord
    /\ \A r \in JobRecord : Older(r) \in JobRecord
    /\ IdleSweep \in Sweep /\ IdleHook \in Hook
<1>1. NewRecord \in JobRecord
  BY DEF NewRecord, JobRecord, STATES
<1>2. ASSUME NEW r \in JobRecord PROVE Reclaimed(r) \in JobRecord
  BY JobAssumption DEF Reclaimed, JobRecord, STATES, JobAssumption
<1>3. ASSUME NEW r \in JobRecord PROVE Older(r) \in JobRecord
  <2>1. CASE r.state \in Terminal
    BY <2>1, JobAssumption DEF Older, JobRecord, JobAssumption
  <2>2. CASE r.state \notin Terminal
    BY <2>2, JobAssumption DEF Older, JobRecord, JobAssumption
  <2> QED BY <2>1, <2>2
<1>4. IdleSweep \in Sweep /\ IdleHook \in Hook
  BY DEF IdleSweep, IdleHook, Sweep, Hook
<1> QED BY <1>1, <1>2, <1>3, <1>4

(* The next candidate of a reclaim.                                         *)
LEMMA OnwardType ==
    ASSUME NEW s \in Sweep, NEW todo \in SUBSET Jobs
    PROVE  Onward(s, todo) \in Sweep /\ Onward(s, todo).at # "writing"
BY DEF Onward, IdleSweep, Sweep

(* A settled record is a record.                                            *)
LEMMA SettledType ==
    ASSUME NEW r \in JobRecord, NEW state \in {"pending", "completed", "failed"},
           NEW n \in Nat, state = "pending" => Delay(n) \in Nat
    PROVE  Settled(r, state, n) \in JobRecord
<1>1. CASE state = "pending"
  BY <1>1 DEF Settled, JobRecord, STATES
<1>2. CASE state = "completed"
  BY <1>2, JobAssumption DEF Settled, JobRecord, STATES, JobAssumption
<1>3. CASE state = "failed"
  BY <1>3, JobAssumption DEF Settled, JobRecord, STATES, JobAssumption
<1> QED BY <1>1, <1>2, <1>3

(* The backoff is a number of ticks.                                        *)
LEMMA RetryDelay ==
    ASSUME TypeInv, NEW j \in Jobs, at[j] \in {"merging", "settling"},
           outcome[j] = "pending"
    PROVE  Delay(tries[j]) \in Nat
BY JobAssumption DEF TypeInv, TypeOK, Drafted, JobAssumption

(* A set that lands, or not, leaves a well-typed store behind.              *)
LEMMA StoresType ==
    ASSUME TypeOK, NEW j \in Jobs, NEW STATE r, r \in JobRecord, Stores(j, r)
    PROVE  store' \in [Jobs -> JobRecord \cup {None}] /\ errors' \in Nat
BY DEF Stores, TypeOK

(* The types hold at first.                                                 *)
LEMMA TypeInit == Init => TypeInv
BY RecordTypes DEF Init, TypeInv, TypeOK, Drafted, Written, Place, IdleSweep, IdleHook

(* A drain moves entries to places, and nothing else.                       *)
LEMMA DrainMoves ==
    ASSUME NEW p, NEW STATE places, NEW STATE order, NEW STATE busy,
           Drain(p, places, order, busy), NEW i \in Jobs
    PROVE  at'[i] = places[i] \/ at'[i] = "reading"
BY DEF Drain

(* Entries that stay where they are with what they carry, or leave the      *)
(* places that carry something, stay well drafted.                          *)
LEMMA DraftedKeeps ==
    ASSUME Drafted,
           \A i \in Jobs :
              \/ at'[i] \notin {"marking", "executing", "merging", "settling"}
              \/ /\ at'[i] = at[i] /\ draft'[i] = draft[i]
                 /\ tries'[i] = tries[i] /\ outcome'[i] = outcome[i]
    PROVE  Drafted'
BY DEF Drafted

(* One step of the worker, the store or a pass keeps every type.  The types *)
(* of the queue and the slots after the step come with SlotInv'.            *)
LEMMA TypeNext == TypeInv /\ SlotInv /\ SlotInv' /\ [Next]_vars => TypeInv'
<1> SUFFICES ASSUME TypeInv, SlotInv, SlotInv', [Next]_vars PROVE TypeInv'
  OBVIOUS
<1>a. /\ at' \in [Jobs -> Place]
      /\ owner' \in [Jobs -> Procs \cup {None}]
      /\ ahead' \in [Jobs -> SUBSET Jobs]
      /\ running' \in [Procs -> Nat]
      /\ pump' \subseteq Procs
      /\ landing' \subseteq Jobs
  BY DEF SlotInv, SlotTypes
<1>1. ASSUME NEW p \in Procs, NEW j \in Jobs, Create(p, j) PROVE TypeInv'
  BY <1>1, <1>a DEF Create, jobVars, faultVars, TypeInv, TypeOK, Drafted, Written
<1>2. ASSUME NEW j \in Jobs, CreateLands(j) PROVE TypeInv'
  BY <1>2, <1>a, RecordTypes, StoresType DEF CreateLands, jobVars, TypeInv, TypeOK, Drafted, Written
<1>3. ASSUME NEW p \in Procs, PumpQueue(p) PROVE TypeInv'
  BY <1>3, <1>a, DrainMoves DEF PumpQueue, jobVars, faultVars, TypeInv, TypeOK, Drafted, Written
<1>4. ASSUME NEW j \in Jobs, PickUp(j) PROVE TypeInv'
  <2>1. at[j] = "reading" /\ store[j] \in JobRecord
    BY <1>4 DEF PickUp, MayRead, TypeInv, TypeOK
  <2> DEFINE marked == [store[j] EXCEPT !.state = "running", !.age = 0, !.attempts = @ + 1]
  <2>2. \A r \in JobRecord : \A n \in Nat :
          [r EXCEPT !.state = "running", !.age = 0, !.attempts = n] \in JobRecord
    BY DEF JobRecord, STATES
  <2>3. store[j].attempts + 1 \in Nat /\ store[j].attempts + 1 >= 1
    BY <2>1 DEF JobRecord
  <2>4. marked = [store[j] EXCEPT !.state = "running", !.age = 0,
                                  !.attempts = store[j].attempts + 1]
    BY <2>1 DEF JobRecord
  <2>5. marked \in JobRecord
    <3> HIDE DEF marked
    <3> QED BY <2>1, <2>2, <2>3, <2>4
  <2>6. /\ tries' = [tries EXCEPT ![j] = store[j].attempts + 1]
        /\ draft' = [draft EXCEPT ![j] = marked]
        /\ at' = [at EXCEPT ![j] = "marking"]
        /\ UNCHANGED <<outcome, timer, store, sweeper, due, hook, runs, crashes, removes>>
        /\ errors' \in Nat
    BY <1>4 DEF PickUp, Reads, TypeInv, TypeOK
  <2> HIDE DEF marked
  <2>7. Drafted'
    <3> DEFINE n == store[j].attempts + 1
    <3> HIDE DEF n
    <3>1. /\ n \in Nat /\ n >= 1
          /\ tries' = [tries EXCEPT ![j] = n]
      BY <2>3, <2>6 DEF n
    <3> QED BY <2>5, <2>6, <3>1 DEF TypeInv, TypeOK, Drafted
  <2> QED BY <1>a, <2>3, <2>5, <2>6, <2>7 DEF TypeInv, TypeOK, Written
<1>5. ASSUME NEW j \in Jobs, Vanished(j) PROVE TypeInv'
  <2>1. ASSUME NEW i \in Jobs
        PROVE  \/ at'[i] \notin {"marking", "executing", "merging", "settling"}
               \/ i # j /\ at'[i] = at[i]
    <3>1. PICK next \in {"gone"} :
            at'[i] = [at EXCEPT ![j] = next][i] \/ at'[i] = "reading"
      BY <1>5, DrainMoves DEF Vanished
    <3> QED BY <3>1 DEF TypeInv, TypeOK
  <2>2. UNCHANGED <<tries, outcome, timer, draft, store, sweeper, due, hook, runs, crashes,
                    removes>> /\ errors' \in Nat
    BY <1>5 DEF Vanished, Reads, jobVars, TypeInv, TypeOK
  <2>3. Drafted'
    BY <2>1, <2>2, DraftedKeeps DEF TypeInv
  <2> QED BY <1>a, <2>2, <2>3 DEF TypeInv, TypeOK, Written
<1>6. ASSUME NEW j \in Jobs, MarkLands(j) PROVE TypeInv'
  BY <1>6, <1>a, StoresType DEF MarkLands, TypeInv, TypeOK, Drafted, Written
<1>7. ASSUME NEW j \in Jobs, FnReturns(j) PROVE TypeInv'
  BY <1>7, <1>a DEF FnReturns, faultVars, TypeInv, TypeOK, Drafted, Written
<1>8. ASSUME NEW j \in Jobs, FnThrows(j) PROVE TypeInv'
  BY <1>8, <1>a DEF FnThrows, MayRetry, faultVars, TypeInv, TypeOK, Drafted, Written
<1>9. ASSUME NEW j \in Jobs, SettleReads(j) PROVE TypeInv'
  <2> DEFINE merged == Settled(store[j], outcome[j], tries[j])
  <2>1. at[j] = "merging" /\ store[j] \in JobRecord
    BY <1>9 DEF SettleReads, TypeInv, TypeOK
  <2>2. merged \in JobRecord
    BY <2>1, SettledType, RetryDelay DEF TypeInv, TypeOK
  <2>3. /\ draft' = [draft EXCEPT ![j] = merged]
        /\ at' = [at EXCEPT ![j] = "settling"]
        /\ UNCHANGED <<tries, outcome, timer, store, sweeper, due, hook, runs, crashes, removes>>
        /\ errors' \in Nat
    BY <1>9 DEF SettleReads, Reads, TypeInv, TypeOK
  <2> HIDE DEF merged
  <2>4. Drafted'
    BY <2>1, <2>2, <2>3 DEF TypeInv, TypeOK, Drafted
  <2> QED BY <1>a, <2>2, <2>3, <2>4 DEF TypeInv, TypeOK, Written
<1>10. ASSUME NEW j \in Jobs, SettleVanished(j) PROVE TypeInv'
  <2>1. ASSUME NEW i \in Jobs
        PROVE  \/ at'[i] \notin {"marking", "executing", "merging", "settling"}
               \/ i # j /\ at'[i] = at[i]
    <3>1. PICK next \in {"backoff", "gone"} :
            at'[i] = [at EXCEPT ![j] = next][i] \/ at'[i] = "reading"
      BY <1>10, DrainMoves DEF SettleVanished, Release
    <3> QED BY <3>1 DEF TypeInv, TypeOK
  <2>2. /\ UNCHANGED <<tries, outcome, draft, store, sweeper, due, hook, runs, crashes, removes>>
        /\ errors' \in Nat
    BY <1>10 DEF SettleVanished, Reads, TypeInv, TypeOK
  <2>3. timer' \in [Jobs -> Nat]
    BY <1>10, RetryDelay DEF SettleVanished, Release, TypeInv, TypeOK
  <2>4. Drafted'
    BY <2>1, <2>2, DraftedKeeps DEF TypeInv
  <2> QED BY <1>a, <2>2, <2>3, <2>4 DEF TypeInv, TypeOK, Written
<1>11. ASSUME NEW j \in Jobs, SettleLands(j) PROVE TypeInv'
  <2>1. ASSUME NEW i \in Jobs
        PROVE  \/ at'[i] \notin {"marking", "executing", "merging", "settling"}
               \/ i # j /\ at'[i] = at[i]
    <3>1. PICK next \in {"backoff", "gone"} :
            at'[i] = [at EXCEPT ![j] = next][i] \/ at'[i] = "reading"
      BY <1>11, DrainMoves DEF SettleLands, Release
    <3> QED BY <3>1 DEF TypeInv, TypeOK
  <2>2. /\ UNCHANGED <<tries, outcome, sweeper, due, runs, crashes, removes>>
        /\ draft' = [draft EXCEPT ![j] = None]
    BY <1>11 DEF SettleLands
  <2>3. timer' \in [Jobs -> Nat]
    BY <1>11, RetryDelay DEF SettleLands, Release, TypeInv, TypeOK
  <2>4. store' \in [Jobs -> JobRecord \cup {None}] /\ errors' \in Nat
    <3>1. draft[j] \in JobRecord
      BY <1>11 DEF SettleLands, TypeInv, Drafted
    <3>2. Stores(j, draft[j])
      BY <1>11 DEF SettleLands
    <3> QED BY <3>1, <3>2, StoresType DEF TypeInv
  <2>5. /\ hook' \in [Jobs -> Hook]
        /\ \A i \in Jobs : hook'[i].at = "writing" => hook'[i] = hook[i]
    <3>1. [IdleHook EXCEPT !.at = "posting", !.attempt = 1] \in Hook
      BY DEF IdleHook, Hook
    <3>2. [IdleHook EXCEPT !.at = "posting", !.attempt = 1].at = "posting"
      BY DEF IdleHook
    <3>3. hook \in [Jobs -> Hook]
      BY DEF TypeInv, TypeOK
    <3> DEFINE posting == [IdleHook EXCEPT !.at = "posting", !.attempt = 1]
    <3>4. hook' = hook \/ hook' = [hook EXCEPT ![j] = posting]
      BY <1>11 DEF SettleLands
    <3> HIDE DEF posting
    <3> QED BY <3>1, <3>2, <3>3, <3>4 DEF posting
  <2>6. Drafted'
    BY <2>1, <2>2, DraftedKeeps DEF TypeInv, TypeOK
  <2>7. Written'
    BY <2>2, <2>5 DEF TypeInv, Written
  <2> QED BY <1>a, <2>2, <2>3, <2>4, <2>5, <2>6, <2>7 DEF TypeInv, TypeOK
<1>12. ASSUME NEW j \in Jobs, RetryFires(j) PROVE TypeInv'
  <2>1. ASSUME NEW i \in Jobs
        PROVE  \/ at'[i] \notin {"marking", "executing", "merging", "settling"}
               \/ i # j /\ at'[i] = at[i]
    <3>1. PICK next \in {"queued"} :
            at'[i] = [at EXCEPT ![j] = next][i] \/ at'[i] = "reading"
      BY <1>12, DrainMoves DEF RetryFires
    <3> QED BY <3>1 DEF TypeInv, TypeOK
  <2>2. UNCHANGED <<tries, outcome, timer, draft, store, sweeper, due, hook, runs, crashes,
                    errors, removes>>
    BY <1>12 DEF RetryFires, jobVars, faultVars
  <2>3. Drafted'
    BY <2>1, <2>2, DraftedKeeps DEF TypeInv
  <2> QED BY <1>a, <2>2, <2>3 DEF TypeInv, TypeOK, Written
<1>13. ASSUME NEW j \in Jobs, HookAccepted(j) PROVE TypeInv'
  <2>1. /\ hook' \in [Jobs -> Hook]
        /\ \A i \in Jobs : hook'[i].at = "writing" => hook'[i].rec \in JobRecord
    <3>1. PICK h \in Hook : /\ h.at = "writing" => h.rec \in JobRecord
                            /\ hook' = [hook EXCEPT ![j] = h]
      <4>1. hook[j] \in Hook
        BY DEF TypeInv, TypeOK
      <4> DEFINE h == [hook[j] EXCEPT !.at = "reading", !.ok = TRUE]
      <4>2. h \in Hook /\ h.at = "reading"
        BY <4>1 DEF Hook
      <4>3. hook' = [hook EXCEPT ![j] = h]
        BY <1>13, <4>1 DEF HookAccepted, TypeInv, TypeOK, Hook
      <4> QED BY <4>2, <4>3
    <3> QED BY <3>1 DEF TypeInv, TypeOK, Written
  <2>2. /\ UNCHANGED <<at, tries, outcome, timer, draft, store, sweeper, due, runs, crashes,
                       removes>>
        /\ errors' \in Nat
    BY <1>13 DEF HookAccepted, entryVars, jobVars, faultVars, TypeInv, TypeOK
  <2> QED BY <1>a, <2>1, <2>2, DraftedKeeps DEF TypeInv, TypeOK, Written
<1>14. ASSUME NEW j \in Jobs, HookRefused(j) PROVE TypeInv'
  <2>1. /\ hook' \in [Jobs -> Hook]
        /\ \A i \in Jobs : hook'[i].at = "writing" => hook'[i].rec \in JobRecord
    <3>1. PICK h \in Hook : /\ h.at = "writing" => h.rec \in JobRecord
                            /\ hook' = [hook EXCEPT ![j] = h]
      <4>1. hook[j] \in Hook
        BY DEF TypeInv, TypeOK
      <4> DEFINE h == IF hook[j].attempt >= WebhookMaxAttempts
                      THEN [hook[j] EXCEPT !.at = "reading", !.ok = FALSE]
                      ELSE [hook[j] EXCEPT !.attempt = @ + 1]
      <4>2. h \in Hook /\ h.at # "writing"
        <5>1. hook[j].at = "posting" /\ hook[j].attempt \in Nat
          BY <1>14, <4>1 DEF HookRefused, Hook
        <5>2. \A k \in Hook :
                LET g == [k EXCEPT !.at = "reading", !.ok = FALSE]
                IN  g \in Hook /\ g.at = "reading"
          BY DEF Hook
        <5>3. \A k \in Hook : LET g == [k EXCEPT !.attempt = @ + 1]
                              IN  g \in Hook /\ g.at = k.at
          BY DEF Hook
        <5> QED BY <4>1, <5>1, <5>2, <5>3
      <4>3. hook' = [hook EXCEPT ![j] = h]
        BY <1>14, <4>1 DEF HookRefused, TypeInv, TypeOK, Hook
      <4> QED BY <4>2, <4>3
    <3> QED BY <3>1 DEF TypeInv, TypeOK, Written
  <2>2. /\ UNCHANGED <<at, tries, outcome, timer, draft, store, sweeper, due, runs, crashes,
                       removes>>
        /\ errors' \in Nat
    BY <1>14 DEF HookRefused, entryVars, jobVars, faultVars, TypeInv, TypeOK
  <2> QED BY <1>a, <2>1, <2>2, DraftedKeeps DEF TypeInv, TypeOK, Written
<1>15. ASSUME NEW j \in Jobs, HookReads(j) PROVE TypeInv'
  <2>1. /\ hook' \in [Jobs -> Hook]
        /\ \A i \in Jobs : hook'[i].at = "writing" => hook'[i].rec \in JobRecord
    <3>1. PICK h \in Hook : /\ h.at = "writing" => h.rec \in JobRecord
                            /\ hook' = [hook EXCEPT ![j] = h]
      <4>1. hook[j] \in Hook /\ store[j] \in JobRecord \cup {None}
        BY DEF TypeInv, TypeOK
      <4>2. PICK r \in {store[j], None} :
              hook' = [hook EXCEPT ![j] =
                IF r = None THEN IdleHook
                ELSE [@ EXCEPT !.at = "writing",
                               !.rec = [r EXCEPT !.age = 0,
                                                 !.notified = IF hook[j].ok THEN "delivered"
                                                                           ELSE "failed"]]]
        BY <1>15 DEF HookReads
      <4>3. CASE r = None
        BY <4>2, <4>3, RecordTypes DEF IdleHook
      <4>4. CASE r # None
        <5> DEFINE rec == [r EXCEPT !.age = 0,
                                    !.notified = IF hook[j].ok THEN "delivered" ELSE "failed"]
                   h == [hook[j] EXCEPT !.at = "writing", !.rec = rec]
        <5>1. rec \in JobRecord
          BY <4>1, <4>4 DEF JobRecord
        <5>2. h \in Hook /\ h.rec = rec
          <6> HIDE DEF rec
          <6> QED BY <4>1, <5>1 DEF Hook
        <5>3. hook' = [hook EXCEPT ![j] = h]
          BY <4>2, <4>4 DEF TypeInv, TypeOK
        <5> HIDE DEF rec, h
        <5> QED BY <5>1, <5>2, <5>3
      <4> QED BY <4>3, <4>4
    <3> QED BY <3>1 DEF TypeInv, TypeOK, Written
  <2>2. /\ UNCHANGED <<at, tries, outcome, timer, draft, store, sweeper, due, runs, crashes,
                       removes>>
        /\ errors' \in Nat
    BY <1>15 DEF HookReads, Reads, entryVars, jobVars, faultVars, TypeInv, TypeOK
  <2> QED BY <1>a, <2>1, <2>2, DraftedKeeps DEF TypeInv, TypeOK, Written
<1>16. ASSUME NEW j \in Jobs, HookWrites(j) PROVE TypeInv'
  BY <1>16, <1>a, StoresType DEF HookWrites, Hook, IdleHook, entryVars, jobVars, TypeInv, TypeOK, Drafted, Written
<1>17. ASSUME NEW p \in Procs, SweepBegins(p) PROVE TypeInv'
  <2>1. PICK s \in Sweep : /\ s.at = "writing" => s.job \in Jobs /\ s.rec \in JobRecord
                          /\ sweeper' = [sweeper EXCEPT ![p] = s]
    <3>1. sweeper[p] \in Sweep
      BY DEF TypeInv, TypeOK
    <3> DEFINE s == [sweeper[p] EXCEPT !.at = IF OrphanTimeout = 0 THEN "purging" ELSE "listing"]
    <3>2. s \in Sweep /\ s.at # "writing"
      BY <3>1 DEF Sweep
    <3>3. sweeper' = [sweeper EXCEPT ![p] = s]
      BY <1>17 DEF SweepBegins, TypeInv, TypeOK
    <3> QED BY <3>2, <3>3
  <2>2. /\ UNCHANGED <<at, tries, outcome, timer, draft, store, hook, runs, crashes, removes>>
        /\ errors' \in Nat /\ due' \subseteq Procs
    BY <1>17 DEF SweepBegins, entryVars, jobVars, faultVars, TypeInv, TypeOK
  <2>3. Drafted'
    BY <2>2, DraftedKeeps DEF TypeInv
  <2> QED BY <1>a, <2>1, <2>2, <2>3 DEF TypeInv, TypeOK, Written
<1>18. ASSUME NEW p \in Procs, SweepLists(p) PROVE TypeInv'
  BY <1>18, <1>a, OnwardType DEF SweepLists, entryVars, jobVars, TypeInv, TypeOK, Drafted, Written
<1>19. ASSUME NEW p \in Procs, SweepReads(p) PROVE TypeInv'
  <2>1. PICK s \in Sweep : /\ s.at = "writing" => s.job \in Jobs /\ s.rec \in JobRecord
                          /\ sweeper' = [sweeper EXCEPT ![p] = s]
    <3>1. sweeper[p] \in Sweep /\ store \in [Jobs -> JobRecord \cup {None}]
      BY DEF TypeInv, TypeOK
    <3>a. PICK j \in sweeper[p].todo : \E r \in {store[j], None} :
            sweeper' = [sweeper EXCEPT ![p] =
              IF r = None THEN Onward(@, @.todo \ {j})
              ELSE [@ EXCEPT !.at = "writing", !.job = j, !.rec = Reclaimed(r)]]
      BY <1>19 DEF SweepReads
    <3>2. PICK r \in {store[j], None} :
            sweeper' = [sweeper EXCEPT ![p] =
              IF r = None THEN Onward(@, @.todo \ {j})
              ELSE [@ EXCEPT !.at = "writing", !.job = j, !.rec = Reclaimed(r)]]
      BY <3>a
    <3>3. j \in Jobs /\ sweeper[p].todo \ {j} \in SUBSET Jobs
      BY <3>1, <3>2 DEF Sweep
    <3>4. CASE r = None
      <4> DEFINE s == Onward(sweeper[p], sweeper[p].todo \ {j})
      <4>1. s \in Sweep /\ s.at # "writing"
        BY <3>1, <3>3, OnwardType
      <4>2. sweeper' = [sweeper EXCEPT ![p] = s]
        BY <3>2, <3>4 DEF TypeInv, TypeOK
      <4> HIDE DEF s
      <4> QED BY <4>1, <4>2
    <3>5. CASE r # None
      <4> DEFINE rec == Reclaimed(r)
                 s == [sweeper[p] EXCEPT !.at = "writing", !.job = j, !.rec = rec]
      <4>1. rec \in JobRecord
        BY <3>1, <3>3, <3>5, RecordTypes
      <4> HIDE DEF rec
      <4>2. s \in Sweep /\ s.job = j /\ s.rec = rec
        BY <3>1, <3>3, <4>1 DEF Sweep
      <4>3. sweeper' = [sweeper EXCEPT ![p] = s]
        BY <3>2, <3>5 DEF rec, TypeInv, TypeOK
      <4> HIDE DEF s
      <4> QED BY <3>3, <4>1, <4>2, <4>3
    <3> QED BY <3>4, <3>5
  <2>2. /\ UNCHANGED <<at, tries, outcome, timer, draft, store, hook, runs, crashes, removes>>
        /\ errors' \in Nat /\ due' \subseteq Procs
    BY <1>19 DEF SweepReads, Reads, entryVars, jobVars, faultVars, TypeInv, TypeOK
  <2>3. Drafted'
    BY <2>2, DraftedKeeps DEF TypeInv
  <2> QED BY <1>a, <2>1, <2>2, <2>3 DEF TypeInv, TypeOK, Written
<1>20. ASSUME NEW p \in Procs, SweepWrites(p) PROVE TypeInv'
  BY <1>20, <1>a, OnwardType, StoresType DEF SweepWrites, Sweep, entryVars, jobVars, TypeInv, TypeOK, Drafted, Written
<1>21. ASSUME NEW p \in Procs, SweepPurges(p) PROVE TypeInv'
  BY <1>21, <1>a, RecordTypes DEF SweepPurges, IdleSweep, entryVars, jobVars, TypeInv, TypeOK, Drafted, Written
<1>22. ASSUME NEW j \in Jobs, Remove(j) PROVE TypeInv'
  BY <1>22, <1>a DEF Remove, entryVars, jobVars, TypeInv, TypeOK, Drafted, Written
<1>23. ASSUME NEW p \in Procs, Crash(p) PROVE TypeInv'
  BY <1>23, <1>a, RecordTypes DEF Crash, IdleSweep, IdleHook, TypeInv, TypeOK, Drafted, Written
<1>24. CASE Tick
  <2>1. store' \in [Jobs -> JobRecord \cup {None}]
    BY <1>24, RecordTypes DEF Tick, Present, TypeInv, TypeOK
  <2>2. timer' \in [Jobs -> Nat]
    BY <1>24 DEF Tick, TypeInv, TypeOK
  <2>3. /\ due' \subseteq Procs
        /\ UNCHANGED <<at, tries, outcome, draft, sweeper, hook, runs, crashes, errors, removes>>
    BY <1>24, JobAssumption DEF Tick, entryVars, faultVars, JobAssumption
  <2>4. Drafted'
    BY <2>3, DraftedKeeps DEF TypeInv
  <2> QED BY <1>a, <2>1, <2>2, <2>3, <2>4 DEF TypeInv, TypeOK, Written
<1>25. CASE UNCHANGED vars
  BY <1>25 DEF vars, TypeInv, TypeOK, Drafted, Written
<1> QED
  BY <1>1, <1>2, <1>3, <1>4, <1>5, <1>6, <1>7, <1>8, <1>9, <1>10, <1>11, <1>12, <1>13, <1>14, <1>15, <1>16, <1>17, <1>18, <1>19, <1>20, <1>21, <1>22, <1>23, <1>24, <1>25 DEF Next, JobStep, ProcStep

(* Every variable keeps its type, for any number of processes and jobs and  *)
(* any bounds on the environment (lib/job/src/main.js as a whole).          *)
THEOREM TypeCorrect == Spec => []TypeOK
<1>1. TypeInv => TypeOK
  BY DEF TypeInv
<1> QED BY <1>1, TypeInit, TypeNext, SlotInit, SlotNext, PTL DEF Spec
=============================================================================
