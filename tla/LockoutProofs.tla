--------------------------- MODULE LockoutProofs ---------------------------
(***************************************************************************)
(* Proofs about Lockout for any calls, processes and stores, any limits,   *)
(* and any number of errors.                                               *)
(***************************************************************************)
EXTENDS Lockout, TLAPS, FiniteSetTheorems, SequenceTheorems

(* The parts of the inductive invariant: types, with a time that is not     *)
(* ahead of the clock and locks of full length; queues of distinct calls    *)
(* that wait; who has the key; the entries that are about to be written;    *)
(* and what they add to the failures that were recorded.                    *)
Locked(e) == e # None /\ e.until # None

Types ==
    /\ TypeOK
    /\ \A c \in Calls : /\ now[c] <= clock
                        /\ at[c] = "writing" => writes[c] # None
                        /\ Locked(writes[c]) => writes[c].until >= LockFor
    /\ \A s \in Stores : Locked(entry[s]) => entry[s].until >= LockFor

Queued ==
    \A p \in Procs : \A i \in 1..Len(waiting[p]) :
        /\ waiting[p][i] \in Calls /\ Proc[waiting[p][i]] = p /\ at[waiting[p][i]] = "waiting"
        /\ Kind[waiting[p][i]] # "check"
        /\ \A j \in 1..Len(waiting[p]) : waiting[p][i] = waiting[p][j] => i = j

HasKey(c) == at[c] \in {"reading", "writing", "clearing", "stuck"}

(* The key of a process is held by exactly the call that is using the store *)
(* or is stuck, every call that waits is in the queue, and nobody waits for *)
(* a key that is free.                                                      *)
KeyHeld ==
    \A p \in Procs :
        /\ \A c \in Calls : Proc[c] = p => (HasKey(c) <=> running[p] = c)
        /\ running[p] = None => waiting[p] = <<>>
        /\ \A c \in Calls : Proc[c] = p /\ at[c] = "waiting" =>
             \E i \in 1..Len(waiting[p]) : waiting[p][i] = c

Unlocked ==
    \A c \in Calls : at[c] = "writing" /\ c \notin overtaken => ~Locks(entry[Store(c)], clock)

Made(s) == Cardinality(recorded[s])

Recorded ==
    \A s \in Stores : /\ IsFiniteSet(recorded[s])
                      /\ \A c \in recorded[s] : at[c] \in {"done", "lost"}

Early == clock < Window /\ clock < LockFor

Adds(c) ==
    /\ writes[c].attempts <= Made(Store(c)) + 1
    /\ Early => /\ Made(Store(c)) < MaxAttempts
                /\ writes[c].attempts = Made(Store(c)) + 1
                /\ Made(Store(c)) + 1 = MaxAttempts => writes[c].until # None

Counting ==
    overtaken = {} /\ errors = 0 => \A c \in Calls : at[c] = "writing" => Adds(c)

Inv == Types /\ Queued /\ KeyHeld /\ Unlocked /\ Recorded /\ EveryFailureCounts /\ Counting

(* Every call has a process and a store.                                    *)
LEMMA StoreOfCall == \A c \in Calls : Proc[c] \in Procs /\ Store(c) \in Stores
  BY LockoutAssumption DEF LockoutAssumption, Store

(***************************************************************************)
(* What the end of a call does to the queue and to the key.                *)
(***************************************************************************)
LEMMA FinishOpened ==
  ASSUME Types, NEW c \in Calls, NEW ans, NEW failed, Finish(c, ans, failed)
  PROVE  LET queue == waiting[Proc[c]] IN
         /\ queue \in Seq(Calls) /\ Len(queue) \in Nat
         /\ \E n \in 0..Len(queue), lost, starts \in SUBSET Calls :
              /\ lost = IF n = 0 THEN {} ELSE {c} \cup {queue[i] : i \in 1..n}
              /\ starts = IF n < Len(queue) THEN {queue[n + 1]} ELSE {}
              /\ errors' = errors + failed + n
              /\ errors' <= MaxErrors
              /\ waiting' = [waiting EXCEPT ![Proc[c]] = SubSeq(queue, n + 2, Len(queue))]
              /\ running' = [running EXCEPT ![Proc[c]] = IF starts = {} THEN None ELSE queue[n + 1]]
              /\ at' = [d \in Calls |-> IF d \in lost THEN "lost"
                                        ELSE IF d = c THEN "done"
                                        ELSE IF d \in starts THEN First(d) ELSE at[d]]
              /\ now' = [d \in Calls |-> IF d \in starts THEN clock ELSE now[d]]
              /\ answer' = IF lost = {} THEN [answer EXCEPT ![c] = ans] ELSE answer
<1> DEFINE queue == waiting[Proc[c]]
           Lost(n) == IF n = 0 THEN {} ELSE {c} \cup {queue[i] : i \in 1..n}
           Starts(n) == IF n < Len(queue) THEN {queue[n + 1]} ELSE {}
<1>1. queue \in Seq(Calls) /\ Len(queue) \in Nat
  BY StoreOfCall DEF Types, TypeOK
<1>2. PICK n \in 0..Len(queue) :
        /\ errors' = errors + failed + n
        /\ errors' <= MaxErrors
        /\ waiting' = [waiting EXCEPT ![Proc[c]] = SubSeq(queue, n + 2, Len(queue))]
        /\ running' = [running EXCEPT ![Proc[c]] = IF Starts(n) = {} THEN None ELSE queue[n + 1]]
        /\ at' = [d \in Calls |-> IF d \in Lost(n) THEN "lost"
                                  ELSE IF d = c THEN "done"
                                  ELSE IF d \in Starts(n) THEN First(d) ELSE at[d]]
        /\ now' = [d \in Calls |-> IF d \in Starts(n) THEN clock ELSE now[d]]
        /\ answer' = IF Lost(n) = {} THEN [answer EXCEPT ![c] = ans] ELSE answer
  BY Zenon DEF Finish
<1>3. \A i \in 1..Len(queue) : queue[i] \in Calls
  BY <1>1
<1>4. Lost(n) \in SUBSET Calls
  BY <1>3, <1>1
<1>5. Starts(n) \in SUBSET Calls
  BY <1>3, <1>1
<1>6. /\ Lost(n) = IF n = 0 THEN {} ELSE {c} \cup {queue[i] : i \in 1..n}
      /\ Starts(n) = IF n < Len(queue) THEN {queue[n + 1]} ELSE {}
  OBVIOUS
<1>7. \E lost, starts \in SUBSET Calls : lost = Lost(n) /\ starts = Starts(n)
  BY <1>4, <1>5
<1> HIDE DEF Lost, Starts
<1> QED
  BY <1>1, <1>2, <1>4, <1>5, <1>6, Zenon

(* It keeps the types of the queue and of the answers.                      *)
LEMMA FinishTypes ==
  ASSUME Types, Queued, NEW c \in Calls, NEW ans \in Answer, NEW failed \in {0, 1},
         Finish(c, ans, failed)
  PROVE  /\ waiting' \in [Procs -> Seq(Calls)]
         /\ running' \in [Procs -> Calls \cup {None}]
         /\ at' \in [Calls -> Place]
         /\ now' \in [Calls -> 0..MaxClock] /\ \A d \in Calls : now'[d] <= clock
         /\ answer' \in [Calls -> Answer]
         /\ errors' \in 0..MaxErrors /\ errors' >= errors + failed
<1> USE LockoutAssumption, StoreOfCall DEF LockoutAssumption
<1> DEFINE queue == waiting[Proc[c]]
<1>1. queue \in Seq(Calls) /\ Len(queue) \in Nat /\ errors \in Nat
  BY DEF Types, TypeOK
<1>2. PICK n \in 0..Len(queue), lost, starts \in SUBSET Calls :
        /\ lost = IF n = 0 THEN {} ELSE {c} \cup {queue[i] : i \in 1..n}
        /\ starts = IF n < Len(queue) THEN {queue[n + 1]} ELSE {}
        /\ errors' = errors + failed + n
        /\ errors' <= MaxErrors
        /\ waiting' = [waiting EXCEPT ![Proc[c]] = SubSeq(queue, n + 2, Len(queue))]
        /\ running' = [running EXCEPT ![Proc[c]] = IF starts = {} THEN None ELSE queue[n + 1]]
        /\ at' = [d \in Calls |-> IF d \in lost THEN "lost"
                                  ELSE IF d = c THEN "done"
                                  ELSE IF d \in starts THEN First(d) ELSE at[d]]
        /\ now' = [d \in Calls |-> IF d \in starts THEN clock ELSE now[d]]
        /\ answer' = IF lost = {} THEN [answer EXCEPT ![c] = ans] ELSE answer
  BY FinishOpened
<1>3. waiting' \in [Procs -> Seq(Calls)]
  <2>1. SubSeq(queue, n + 2, Len(queue)) \in Seq(Calls)
    <3>1. \A i \in (n + 2)..Len(queue) : queue[i] \in Calls
      BY <1>1
    <3> QED
      BY <1>1, <3>1, SubSeqProperties
  <2> QED
    BY <1>2, <2>1 DEF Types, TypeOK
<1>4. starts # {} => queue[n + 1] \in Calls
  BY <1>1, <1>2
<1>5. running' \in [Procs -> Calls \cup {None}]
  <2>1. running \in [Procs -> Calls \cup {None}] /\ Proc[c] \in Procs
    BY DEF Types, TypeOK
  <2>2. PICK d \in Calls \cup {None} : running' = [running EXCEPT ![Proc[c]] = d]
    BY <1>2, <1>4
  <2> QED
    BY <2>1, <2>2
<1>6. at' \in [Calls -> Place]
  <2>1. \A d \in Calls : at[d] \in Place /\ First(d) \in Place
    BY DEF Types, TypeOK, First, Place
  <2> QED
    BY <1>2, <2>1 DEF Place
<1>7. now' \in [Calls -> 0..MaxClock] /\ \A d \in Calls : now'[d] <= clock
  <2>1. /\ now \in [Calls -> 0..MaxClock] /\ clock \in 0..MaxClock
        /\ \A d \in Calls : now[d] <= clock
    BY DEF Types, TypeOK
  <2>2. \A d \in Calls : now'[d] \in {clock, now[d]}
    BY <1>2
  <2>3. now' = [d \in Calls |-> now'[d]]
    BY <1>2
  <2> QED
    BY <2>1, <2>2, <2>3
<1>8. answer' \in [Calls -> Answer]
  <2>1. answer \in [Calls -> Answer]
    BY DEF Types, TypeOK
  <2>2. answer' \in {answer, [answer EXCEPT ![c] = ans]}
    BY <1>2
  <2> QED
    BY <2>1, <2>2
<1>9. errors' \in 0..MaxErrors /\ errors' >= errors + failed
  BY <1>1, <1>2
<1> QED
  BY <1>3, <1>5, <1>6, <1>7, <1>8, <1>9

(* It hands the key to the first that waits and moves no other call.        *)
LEMMA FinishMoves ==
  ASSUME Types, Queued, KeyHeld, NEW c \in Calls, HasKey(c), NEW ans, NEW failed \in {0, 1},
         Finish(c, ans, failed)
  PROVE  /\ Queued' /\ KeyHeld'
         /\ at'[c] \in {"done", "lost"}
         /\ \A d \in Calls \ {c} : at[d] # "waiting" => at'[d] = at[d]
         /\ \A d \in Calls \ {c} : at'[d] \in {"writing", "done"} => at'[d] = at[d]
<1> DEFINE p == Proc[c]
           queue == waiting[p]
<1>1. queue \in Seq(Calls) /\ Len(queue) \in Nat /\ running[p] = c /\ at[c] # "waiting"
  BY StoreOfCall DEF Types, TypeOK, KeyHeld, HasKey
<1>2. PICK n \in 0..Len(queue), lost, starts \in SUBSET Calls :
        /\ lost = IF n = 0 THEN {} ELSE {c} \cup {queue[i] : i \in 1..n}
        /\ starts = IF n < Len(queue) THEN {queue[n + 1]} ELSE {}
        /\ errors' = errors + failed + n
        /\ errors' <= MaxErrors
        /\ waiting' = [waiting EXCEPT ![Proc[c]] = SubSeq(queue, n + 2, Len(queue))]
        /\ running' = [running EXCEPT ![Proc[c]] = IF starts = {} THEN None ELSE queue[n + 1]]
        /\ at' = [d \in Calls |-> IF d \in lost THEN "lost"
                                  ELSE IF d = c THEN "done"
                                  ELSE IF d \in starts THEN First(d) ELSE at[d]]
        /\ now' = [d \in Calls |-> IF d \in starts THEN clock ELSE now[d]]
        /\ answer' = IF lost = {} THEN [answer EXCEPT ![c] = ans] ELSE answer
  BY FinishOpened
<1> DEFINE rest == SubSeq(queue, n + 2, Len(queue))
<1>3. /\ \A i \in 1..Len(queue) : /\ queue[i] \in Calls /\ Proc[queue[i]] = p
                                  /\ at[queue[i]] = "waiting" /\ queue[i] # c
                                  /\ Kind[queue[i]] # "check"
      /\ \A i, j \in 1..Len(queue) : queue[i] = queue[j] => i = j
  BY <1>1, StoreOfCall DEF Queued
<1>4. /\ Len(rest) = IF n + 2 <= Len(queue) THEN Len(queue) - n - 1 ELSE 0
      /\ \A i \in 1..Len(rest) : i + n + 1 \in 1..Len(queue) /\ rest[i] = queue[i + n + 1]
  <2>1. \A i \in (n + 2)..Len(queue) : queue[i] \in Calls
    BY <1>3
  <2>2. /\ Len(rest) = IF n + 2 <= Len(queue) THEN Len(queue) - (n + 2) + 1 ELSE 0
        /\ \A i \in 1..(Len(queue) - (n + 2) + 1) : rest[i] = queue[(n + 2) + i - 1]
    BY <1>1, <2>1, SubSeqProperties
  <2> HIDE DEF rest, queue
  <2>3. CASE n + 2 <= Len(queue)
    BY <1>1, <2>2, <2>3
  <2>4. CASE Len(queue) < n + 2
    BY <1>1, <2>2, <2>4
  <2> QED
    BY <1>1, <2>3, <2>4
<1>5. /\ waiting'[p] = rest
      /\ \A q \in Procs \ {p} : waiting'[q] = waiting[q] /\ running'[q] = running[q]
  BY <1>2, StoreOfCall DEF Types, TypeOK
<1>6. \A d \in Calls : /\ d \in lost <=> n > 0 /\ (d = c \/ \E i \in 1..n : d = queue[i])
                       /\ d \in starts <=> n < Len(queue) /\ d = queue[n + 1]
  BY <1>1, <1>2
<1>7. \A d \in Calls : at'[d] = IF d \in lost THEN "lost"
                                ELSE IF d = c THEN "done"
                                ELSE IF d \in starts THEN First(d) ELSE at[d]
  BY <1>2
<1>8. running'[p] = IF n < Len(queue) THEN queue[n + 1] ELSE None
  BY <1>2, StoreOfCall DEF Types, TypeOK
<1>9. \A d \in Calls : First(d) \notin {"writing", "done", "waiting", "lost"}
                       /\ (Kind[d] = "check" \/ First(d) \in {"reading", "clearing"})
  BY LockoutAssumption DEF First, LockoutAssumption
<1> p = Proc[c] /\ p \in Procs /\ queue = waiting[p] /\ Len(queue) \in Nat /\ n \in 0..Len(queue)
  BY <1>1, StoreOfCall
<1> None \notin Calls
  BY LockoutAssumption DEF LockoutAssumption
<1> HIDE DEF queue, rest, p
<1>10. at'[c] \in {"done", "lost"}
  BY <1>7
<1>11. \A d \in Calls \ {c} : at[d] # "waiting" => at'[d] = at[d]
  BY <1>1, <1>3, <1>6, <1>7
<1>12. \A d \in Calls \ {c} : at'[d] \in {"writing", "done"} => at'[d] = at[d]
  BY <1>1, <1>3, <1>6, <1>7, <1>9
<1>13. \A i \in 1..Len(queue) :
         /\ i > n + 1 => at'[queue[i]] = "waiting"
         /\ i = n + 1 => at'[queue[i]] \in {"reading", "clearing"}
         /\ i < n + 1 => at'[queue[i]] = "lost"
  <2> SUFFICES ASSUME NEW i \in 1..Len(queue)
               PROVE  /\ i > n + 1 => at'[queue[i]] = "waiting"
                      /\ i = n + 1 => at'[queue[i]] \in {"reading", "clearing"}
                      /\ i < n + 1 => at'[queue[i]] = "lost"
    OBVIOUS
  <2> DEFINE d == queue[i]
  <2>1. d \in Calls /\ d # c /\ at[d] = "waiting" /\ Kind[d] # "check"
    BY <1>3
  <2>2. \A j \in 1..Len(queue) : d = queue[j] => j = i
    BY <1>3
  <2> HIDE DEF d
  <2>3. CASE i > n + 1
    <3>1. d \notin lost
      BY <1>6, <2>1, <2>2, <2>3
    <3>2. d \notin starts
      BY <1>6, <2>1, <2>2, <2>3
    <3> QED
      BY <1>7, <2>1, <2>3, <3>1, <3>2 DEF d
  <2>4. CASE i = n + 1
    <3>1. d \notin lost
      BY <1>6, <2>1, <2>2, <2>4
    <3>2. d \in starts
      BY <1>6, <2>1, <2>4 DEF d
    <3> QED
      BY <1>7, <1>9, <2>1, <2>4, <3>1, <3>2 DEF d
  <2>5. CASE i < n + 1
    <3>1. d \in lost
      BY <1>6, <2>1, <2>5 DEF d
    <3> QED
      BY <1>7, <2>1, <2>5, <3>1 DEF d
  <2> QED
    BY <2>3, <2>4, <2>5
<1>14. \A d \in Calls : at'[d] = "waiting" => at[d] = "waiting"
  BY <1>6, <1>7, <1>9
<1>15. Queued'
  <2> SUFFICES ASSUME NEW q \in Procs, NEW i \in 1..Len(waiting'[q])
               PROVE  /\ waiting'[q][i] \in Calls /\ Proc[waiting'[q][i]] = q
                      /\ at'[waiting'[q][i]] = "waiting" /\ Kind[waiting'[q][i]] # "check"
                      /\ \A j \in 1..Len(waiting'[q]) : waiting'[q][i] = waiting'[q][j] => i = j
    BY DEF Queued
  <2>1. CASE q = p
    <3>1. waiting'[q] = rest /\ i \in 1..Len(rest)
      BY <1>5, <2>1
    <3> DEFINE k == i + n + 1
    <3>2. k \in 1..Len(queue) /\ k > n + 1 /\ rest[i] = queue[k]
      BY <1>4, <3>1
    <3>3. /\ rest[i] \in Calls /\ Proc[rest[i]] = q /\ Kind[rest[i]] # "check"
          /\ at'[rest[i]] = "waiting"
      <4> HIDE DEF k
      <4> QED
        BY <1>3, <1>13, <2>1, <3>2
    <3>4. ASSUME NEW j \in 1..Len(rest), rest[i] = rest[j] PROVE i = j
      <4>1. j + n + 1 \in 1..Len(queue) /\ rest[j] = queue[j + n + 1]
        BY <1>4
      <4>2. ASSUME NEW a \in 1..Len(queue), NEW b \in 1..Len(queue), queue[a] = queue[b] PROVE a = b
        BY <1>3, <4>2
      <4>3. queue[k] = queue[j + n + 1]
        BY <3>2, <3>4, <4>1
      <4>4. k = j + n + 1
        BY <3>2, <4>1, <4>2, <4>3
      <4> QED
        BY <4>4
    <3> QED
      BY <3>1, <3>3, <3>4
  <2>2. CASE q # p
    <3>1. waiting'[q] = waiting[q]
      BY <1>5, <2>2
    <3>2. /\ waiting[q][i] \in Calls /\ Proc[waiting[q][i]] = q
          /\ at[waiting[q][i]] = "waiting" /\ Kind[waiting[q][i]] # "check"
          /\ \A j \in 1..Len(waiting[q]) : waiting[q][i] = waiting[q][j] => i = j
      BY <3>1 DEF Queued
    <3>3. ASSUME NEW d \in Calls, Proc[d] = q PROVE d \notin lost /\ d \notin starts /\ d # c
      <4>1. d # c /\ \A j \in 1..Len(queue) : d # queue[j]
        BY <1>3, <2>2, <3>3
      <4> QED
        BY <1>6, <4>1
    <3> QED
      BY <1>7, <3>1, <3>2, <3>3
  <2> QED
    BY <2>1, <2>2
<1>16. KeyHeld'
  <2> SUFFICES ASSUME NEW q \in Procs
               PROVE  /\ \A d \in Calls : Proc[d] = q => (HasKey(d)' <=> running'[q] = d)
                      /\ running'[q] = None => waiting'[q] = <<>>
                      /\ \A d \in Calls : Proc[d] = q /\ at'[d] = "waiting" =>
                           \E i \in 1..Len(waiting'[q]) : waiting'[q][i] = d
    BY DEF KeyHeld
  <2>1. CASE q # p
    <3>1. /\ waiting'[q] = waiting[q] /\ running'[q] = running[q]
          /\ \A d \in Calls : Proc[d] = q => at'[d] = at[d]
      <4>1. \A d \in Calls : Proc[d] = q => d # c /\ d \notin lost /\ d \notin starts
        BY <1>3, <1>6, <2>1
      <4> QED
        BY <1>5, <1>7, <2>1, <4>1
    <3> QED
      BY <3>1 DEF KeyHeld, HasKey
  <2>2. CASE q = p
    <3>1. ASSUME NEW d \in Calls, Proc[d] = q, HasKey(d)' PROVE running'[q] = d
      <4>1. d # c
        BY <1>10, <3>1 DEF HasKey
      <4>2. CASE at[d] # "waiting"
        BY <1>1, <1>11, <2>2, <3>1, <4>1, <4>2 DEF KeyHeld, HasKey
      <4>3. CASE at[d] = "waiting"
        BY <1>6, <1>7, <1>8, <2>2, <3>1, <4>1, <4>3 DEF HasKey
      <4> QED
        BY <4>2, <4>3
    <3>2. ASSUME NEW d \in Calls, running'[q] = d PROVE HasKey(d)'
      <4>1. n < Len(queue) /\ d = queue[n + 1]
        BY <1>8, <2>2, <3>2
      <4>2. n + 1 \in 1..Len(queue)
        BY <4>1
      <4> QED
        BY <1>13, <4>1, <4>2 DEF HasKey
    <3>3. ASSUME running'[q] = None PROVE waiting'[q] = <<>>
      <4>1. n = Len(queue)
        <5>1. n < Len(queue) => queue[n + 1] \in Calls
          BY <1>3
        <5> QED
          BY <1>8, <2>2, <3>3, <5>1
      <4>2. n + 2 \in Int /\ Len(queue) \in Int /\ Len(queue) < n + 2
        BY <4>1
      <4>3. rest = <<>>
        BY <4>2, SubSeqEmpty DEF rest
      <4> QED
        BY <1>5, <2>2, <4>3
    <3>4. ASSUME NEW d \in Calls, Proc[d] = q, at'[d] = "waiting"
          PROVE  \E i \in 1..Len(rest) : rest[i] = d
      <4>1. PICK k \in 1..Len(queue) : queue[k] = d
        BY <1>14, <2>2, <3>4 DEF KeyHeld
      <4>2. k > n + 1
        BY <1>13, <3>4, <4>1
      <4>3. k - n - 1 \in 1..Len(rest) /\ (k - n - 1) + n + 1 = k
        BY <1>4, <4>2
      <4>4. rest[k - n - 1] = queue[k]
        BY <1>4, <4>3
      <4> QED
        BY <4>1, <4>3, <4>4
    <3> QED
      BY <1>5, <2>2, <3>1, <3>2, <3>3, <3>4
  <2> QED
    BY <2>1, <2>2
<1> QED
  BY <1>10, <1>11, <1>12, <1>15, <1>16

(* With an entry that is well typed it keeps the types.                     *)
LEMMA FinishEnds ==
  ASSUME Types, Queued, KeyHeld, NEW c \in Calls, HasKey(c), NEW ans \in Answer,
         NEW failed \in {0, 1}, Finish(c, ans, failed), UNCHANGED clock,
         entry' \in [Stores -> Entry \cup {None}],
         \A s \in Stores : Locked(entry'[s]) => entry'[s].until >= LockFor,
         writes' \in {writes, [writes EXCEPT ![c] = None]},
         recorded' \in [Stores -> SUBSET Calls], overtaken' \subseteq Calls
  PROVE  Types'
<1>1. TypeOK'
  <2>1. writes' \in [Calls -> Entry \cup {None}] /\ clock' \in 0..MaxClock
    BY DEF Types, TypeOK
  <2>2. /\ waiting' \in [Procs -> Seq(Calls)]
        /\ running' \in [Procs -> Calls \cup {None}]
        /\ at' \in [Calls -> Place]
        /\ now' \in [Calls -> 0..MaxClock]
        /\ answer' \in [Calls -> Answer]
        /\ errors' \in 0..MaxErrors
    BY FinishTypes
  <2> QED
    BY <2>1, <2>2 DEF TypeOK
<1>2. ASSUME NEW d \in Calls
      PROVE  /\ now'[d] <= clock'
             /\ at'[d] = "writing" => writes'[d] # None
             /\ Locked(writes'[d]) => writes'[d].until >= LockFor
  <2>1. now'[d] <= clock'
    BY FinishTypes
  <2>2. writes \in [Calls -> Entry \cup {None}]
    BY DEF Types, TypeOK
  <2>3. CASE d = c
    <3>1. at'[d] # "writing" /\ writes'[d] \in {None, writes[d]}
      BY <2>2, <2>3, FinishMoves
    <3> QED
      BY <2>1, <3>1 DEF Types, Locked
  <2>4. CASE d # c
    <3>1. writes'[d] = writes[d]
      BY <2>2, <2>4
    <3>2. at'[d] = "writing" => at[d] = "writing"
      BY <2>4, FinishMoves
    <3> QED
      BY <2>1, <3>1, <3>2 DEF Types
  <2> QED
    BY <2>3, <2>4
<1> QED
  BY <1>1, <1>2 DEF Types, Locked

(* A call that neither takes nor returns the key.                           *)
LEMMA QuietCall ==
  ASSUME Types, Queued, KeyHeld, NEW c \in Calls, at[c] # "waiting",
         NEW place, place # "waiting", at' = [at EXCEPT ![c] = place],
         HasKey(c) <=> place \in {"reading", "writing", "clearing", "stuck"},
         UNCHANGED <<running, waiting>>
  PROVE  Queued' /\ KeyHeld'
<1>1. /\ at'[c] = place
      /\ \A d \in Calls \ {c} : at'[d] = at[d]
  BY DEF Types, TypeOK
<1>2. Queued'
  BY <1>1 DEF Queued
<1>3. \A d \in Calls : HasKey(d)' <=> HasKey(d)
  BY <1>1 DEF HasKey
<1>4. \A d \in Calls : at'[d] = "waiting" => at[d] = "waiting"
  BY <1>1
<1>5. KeyHeld'
  BY <1>3, <1>4 DEF KeyHeld
<1> QED
  BY <1>2, <1>5

(***************************************************************************)
(* What a failure reads and what it makes of it.                           *)
(***************************************************************************)
LEMMA SeenFacts ==
  ASSUME NEW s, NEW e \in Seen(s)
  PROVE  e = entry[s] \/ (e = None /\ Expired(entry[s]))
BY DEF Seen

(* The entry a failure writes counts one more than the one it read.         *)
LEMMA FreshFacts ==
  ASSUME NEW e \in Entry \cup {None}, NEW t \in 0..MaxClock
  PROVE  /\ Fresh(e, t) \in Entry
         /\ Fresh(e, t) # None
         /\ Counted(e, t) \in Nat /\ Fresh(e, t).attempts = Counted(e, t) + 1
         /\ Locked(Fresh(e, t)) => Fresh(e, t).until >= LockFor
         /\ Fresh(e, t).attempts >= MaxAttempts => Fresh(e, t).until # None
<1> USE LockoutAssumption DEF LockoutAssumption
<1>1. Counted(e, t) \in Nat
  BY DEF Counted, Entry
<1> DEFINE n == Counted(e, t) + 1
           until == IF n >= MaxAttempts THEN t + LockFor ELSE None
<1>2. Fresh(e, t) = [attempts |-> n, last |-> t, until |-> until]
  BY DEF Fresh
<1>3. n \in Nat \ {0} /\ t \in Time /\ t + LockFor \in Time /\ t + LockFor # None
  BY <1>1 DEF Time
<1>4. /\ until \in Time \cup {None}
      /\ until # None => until >= LockFor
      /\ n >= MaxAttempts => until # None
  BY <1>3
<1> HIDE DEF n, until
<1>5. Fresh(e, t) \in Entry
  BY <1>2, <1>3, <1>4 DEF Entry
<1>6. Fresh(e, t) # None
  BY <1>5, NoneAssumption
<1> QED
  BY <1>1, <1>2, <1>4, <1>5, <1>6 DEF n, Locked


(* Every step keeps the types.                                              *)
LEMMA TypesStep == Types /\ Queued /\ KeyHeld /\ [Next]_vars => Types'
<1> SUFFICES ASSUME Types, Queued, KeyHeld, [Next]_vars PROVE Types'
  OBVIOUS
<1> USE LockoutAssumption, NoneAssumption, StoreOfCall DEF LockoutAssumption
<1>1. CASE \E c \in Calls : TakeKey(c)
  BY <1>1 DEF TakeKey, First, History, Types, TypeOK, Place, Answer, First,
      Locked
<1>2. CASE \E c \in Calls : Enqueue(c)
  BY <1>2 DEF Enqueue, History, Types, TypeOK, Place, Answer, First, Locked
<1>3. CASE \E c \in Calls : Throws(c)
  BY <1>3 DEF Throws, History, Types, TypeOK, Place, Answer, First, Locked
<1>4. CASE \E c \in Calls : Check(c)
  BY <1>4 DEF Check, History, Types, TypeOK, Place, Answer, First, Locked
<1>5. CASE \E c \in Calls : ReadLocked(c)
  <2> PICK c \in Calls : ReadLocked(c)
    BY <1>5
  <2>1. HasKey(c) /\ Finish(c, "locked", 0) 
        /\ "locked" \in Answer /\ UNCHANGED clock
    BY DEF ReadLocked, HasKey, Answer, State
  <2>2. entry' \in [Stores -> Entry \cup {None}] /\ recorded' \in [Stores -> SUBSET Calls]
    BY DEF ReadLocked, History, Types, TypeOK
  <2>3. overtaken' \subseteq Calls /\ writes' \in {writes, [writes EXCEPT ![c] = None]}
    BY DEF ReadLocked, Overtakes, History, Types, TypeOK
  <2>4. \A s \in Stores : Locked(entry'[s]) => entry'[s].until >= LockFor
    BY DEF ReadLocked, History, Types, TypeOK, Locked
  <2> QED
    BY <2>1, <2>2, <2>3, <2>4, FinishEnds
<1>6. CASE \E c \in Calls : Read(c)
  <2> PICK c \in Calls : Read(c)
    BY <1>6
  <2>1. PICK e \in Seen(Store(c)) : writes' = [writes EXCEPT ![c] = Fresh(e, now[c])]
    BY DEF Read
  <2>2. e \in Entry \cup {None} /\ now[c] \in 0..MaxClock
    BY SeenFacts DEF Types, TypeOK
  <2> DEFINE f == Fresh(e, now[c])
  <2>3. f \in Entry /\ f # None /\ (Locked(f) => f.until >= LockFor)
    BY <2>2, FreshFacts
  <2> HIDE DEF f
  <2>4. TypeOK'
    BY <2>1, <2>3 DEF Read, History, Types, TypeOK, Place, f
  <2>5. writes' = [writes EXCEPT ![c] = f] /\ at' = [at EXCEPT ![c] = "writing"]
        /\ UNCHANGED <<clock, entry, now>>
    BY <2>1 DEF Read, f
  <2> QED
    BY <2>3, <2>4, <2>5 DEF Types, TypeOK, Locked
<1>7. CASE \E c \in Calls : SetThrows(c)
  BY <1>7 DEF SetThrows, History, Types, TypeOK, Place, Answer, First, Locked
<1>8. CASE \E c \in Calls : Write(c)
  <2> PICK c \in Calls : Write(c)
    BY <1>8
  <2>1. HasKey(c) /\ Finish(c, State(writes[c], now[c]), 0) 
        /\ State(writes[c], now[c]) \in Answer /\ UNCHANGED clock
    BY DEF Write, HasKey, Answer, State
  <2>2. entry' \in [Stores -> Entry \cup {None}] /\ recorded' \in [Stores -> SUBSET Calls]
    BY DEF Write, Land, History, Types, TypeOK
  <2>3. overtaken' \subseteq Calls /\ writes' \in {writes, [writes EXCEPT ![c] = None]}
    BY DEF Write, Land, Overtakes, History, Types, TypeOK
  <2>4. \A s \in Stores : Locked(entry'[s]) => entry'[s].until >= LockFor
    BY DEF Write, Land, History, Types, TypeOK, Locked
  <2> QED
    BY <2>1, <2>2, <2>3, <2>4, FinishEnds
<1>9. CASE \E c \in Calls : Clear(c)
  <2> PICK c \in Calls : Clear(c)
    BY <1>9
  <2>1. HasKey(c) /\ Finish(c, "cleared", 0) 
        /\ "cleared" \in Answer /\ UNCHANGED clock
    BY DEF Clear, HasKey, Answer, State
  <2>2. entry' \in [Stores -> Entry \cup {None}] /\ recorded' \in [Stores -> SUBSET Calls]
    BY DEF Clear, Forget, History, Types, TypeOK
  <2>3. overtaken' \subseteq Calls /\ writes' \in {writes, [writes EXCEPT ![c] = None]}
    BY DEF Clear, Forget, Overtakes, History, Types, TypeOK
  <2>4. \A s \in Stores : Locked(entry'[s]) => entry'[s].until >= LockFor
    BY DEF Clear, Forget, History, Types, TypeOK, Locked
  <2> QED
    BY <2>1, <2>2, <2>3, <2>4, FinishEnds
<1>10. CASE \E c \in Calls : Fails(c)
  <2> PICK c \in Calls : Fails(c)
    BY <1>10
  <2>1. HasKey(c) /\ Finish(c, "error", 1) 
        /\ "error" \in Answer /\ UNCHANGED clock
    BY DEF Fails, HasKey, Answer, State
  <2>2. overtaken' \subseteq Calls /\ writes' \in {writes, [writes EXCEPT ![c] = None]}
    BY DEF Fails, Land, Forget, Overtakes, History, Types, TypeOK
  <2>3. /\ entry' \in [Stores -> Entry \cup {None}] /\ recorded' \in [Stores -> SUBSET Calls]
        /\ \A s \in Stores : Locked(entry'[s]) => entry'[s].until >= LockFor
    <3>1. CASE UNCHANGED <<entry, History>>
      BY <3>1 DEF History, Types, TypeOK, Locked
    <3>2. CASE Land(c)
      BY <3>2 DEF Land, Types, TypeOK, Locked
    <3>3. CASE Forget(c)
      BY <3>3 DEF Forget, Types, TypeOK, Locked
    <3> QED
      BY <3>1, <3>2, <3>3 DEF Fails
  <2> QED
    BY <2>1, <2>2, <2>3, FinishEnds
<1>11. CASE \E c \in Calls : Checked(c)
  BY <1>11 DEF Checked, State, History, Types, TypeOK, Place, Answer, First,
      Locked
<1>12. CASE \E c \in Calls : CheckFails(c)
  BY <1>12 DEF CheckFails, History, Types, TypeOK, Place, Answer, First, Locked
<1>13. CASE Tick
  BY <1>13 DEF Tick, History, Types, TypeOK, Place, Answer, First, Locked
<1>14. CASE UNCHANGED vars
  BY <1>14 DEF vars, Types, TypeOK, Place, Answer, First, Locked
<1> QED
  BY <1>1, <1>2, <1>3, <1>4, <1>5, <1>6, <1>7, <1>8, <1>9, <1>10, <1>11, <1>12,
      <1>13, <1>14 DEF Next, Step

(* Every step keeps the key with the one call that uses the store.          *)
LEMMA KeyStep == Types /\ Queued /\ KeyHeld /\ [Next]_vars => (Queued /\ KeyHeld)'
<1> SUFFICES ASSUME Types, Queued, KeyHeld, [Next]_vars PROVE (Queued /\ KeyHeld)'
  OBVIOUS
<1> USE LockoutAssumption, NoneAssumption, StoreOfCall DEF LockoutAssumption
<1>1. CASE \E c \in Calls : TakeKey(c)
  <2> PICK c \in Calls : TakeKey(c)
    BY <1>1
  <2> DEFINE p == Proc[c]
  <2>1. /\ at[c] = "idle" /\ running[p] = None /\ waiting[p] = <<>>
        /\ UNCHANGED waiting
    BY DEF TakeKey, KeyHeld
  <2>2. First(c) \in {"reading", "clearing"}
    BY DEF TakeKey, First
  <2>3. /\ at'[c] = First(c) /\ running'[p] = c
        /\ \A d \in Calls \ {c} : at'[d] = at[d]
        /\ \A q \in Procs \ {p} : running'[q] = running[q]
    BY DEF TakeKey, Types, TypeOK
  <2>4. Queued'
    BY <2>1, <2>3 DEF Queued
  <2>5. \A d \in Calls : Proc[d] = p => ~HasKey(d) /\ at[d] # "waiting"
    BY <2>1 DEF KeyHeld
  <2>6. KeyHeld'
    <3> SUFFICES ASSUME NEW q \in Procs
                 PROVE  /\ \A d \in Calls : Proc[d] = q => (HasKey(d)' <=> running'[q] = d)
                        /\ running'[q] = None => waiting'[q] = <<>>
                        /\ \A d \in Calls : Proc[d] = q /\ at'[d] = "waiting" =>
                             \E i \in 1..Len(waiting'[q]) : waiting'[q][i] = d
      BY DEF KeyHeld
    <3>1. HasKey(c)' /\ \A d \in Calls \ {c} : HasKey(d)' <=> HasKey(d)
      BY <2>2, <2>3 DEF HasKey
    <3>2. \A d \in Calls : at'[d] = "waiting" => at[d] = "waiting"
      BY <2>2, <2>3
    <3>3. CASE q = p
      BY <2>1, <2>3, <2>5, <3>1, <3>2, <3>3
    <3>4. CASE q # p
      BY <2>1, <2>3, <3>1, <3>2, <3>4 DEF KeyHeld
    <3> QED
      BY <3>3, <3>4
  <2> QED
    BY <2>4, <2>6
<1>2. CASE \E c \in Calls : Enqueue(c)
  <2> PICK c \in Calls : Enqueue(c)
    BY <1>2
  <2> DEFINE p == Proc[c]
             queue == waiting[p]
  <2>1. /\ at[c] = "idle" /\ Kind[c] # "check" /\ running[p] # None
        /\ queue \in Seq(Calls) /\ p \in Procs /\ UNCHANGED running
    BY DEF Enqueue, Types, TypeOK
  <2>2. /\ at'[c] = "waiting"
        /\ \A d \in Calls \ {c} : at'[d] = at[d]
        /\ waiting'[p] = Append(queue, c)
        /\ \A q \in Procs \ {p} : waiting'[q] = waiting[q]
    BY DEF Enqueue, Types, TypeOK
  <2>3. /\ Len(queue) \in Nat /\ Len(waiting'[p]) = Len(queue) + 1
        /\ \A i \in 1..Len(queue) : waiting'[p][i] = queue[i]
        /\ waiting'[p][Len(queue) + 1] = c
    BY <2>1, <2>2, AppendProperties
  <2>4. \A q \in Procs : \A i \in 1..Len(waiting[q]) : waiting[q][i] # c
    BY <2>1 DEF Queued
  <2>5. Queued'
    <3> SUFFICES ASSUME NEW q \in Procs, NEW i \in 1..Len(waiting'[q])
                 PROVE  /\ waiting'[q][i] \in Calls /\ Proc[waiting'[q][i]] = q
                        /\ at'[waiting'[q][i]] = "waiting" /\ Kind[waiting'[q][i]] # "check"
                        /\ \A j \in 1..Len(waiting'[q]) : waiting'[q][i] = waiting'[q][j] => i = j
      BY DEF Queued
    <3>1. CASE q # p
      BY <2>2, <2>4, <3>1 DEF Queued
    <3>2. CASE q = p
      <4>1. \A j \in 1..Len(queue) :
              /\ queue[j] \in Calls /\ Proc[queue[j]] = q /\ Kind[queue[j]] # "check"
              /\ at'[queue[j]] = "waiting" /\ queue[j] # c
        BY <2>2, <2>4, <3>2 DEF Queued
      <4>2. \A j, k \in 1..Len(queue) : queue[j] = queue[k] => j = k
        BY <2>1 DEF Queued
      <4> HIDE DEF queue
      <4>3. i \in 1..Len(queue) \/ i = Len(queue) + 1
        BY <2>3, <3>2
      <4>4. \A j \in 1..Len(waiting'[q]) : j \in 1..Len(queue) \/ j = Len(queue) + 1
        BY <2>3, <3>2
      <4>5. CASE i \in 1..Len(queue)
        <5>1. waiting'[q][i] = queue[i]
          BY <2>3, <3>2, <4>5
        <5>2. \A j \in 1..Len(waiting'[q]) : waiting'[q][i] = waiting'[q][j] => i = j
          <6> SUFFICES ASSUME NEW j \in 1..Len(waiting'[q]), waiting'[q][i] = waiting'[q][j]
                       PROVE  i = j
            OBVIOUS
          <6>1. CASE j \in 1..Len(queue)
            <7>1. waiting'[q][j] = queue[j]
              BY <2>3, <3>2, <6>1
            <7> QED
              BY <4>2, <4>5, <5>1, <6>1, <7>1
          <6>2. CASE j = Len(queue) + 1
            <7>1. waiting'[q][j] = c
              BY <2>3, <3>2, <6>2
            <7> QED
              BY <4>1, <4>5, <5>1, <7>1
          <6> QED
            BY <4>4, <6>1, <6>2
        <5> QED
          BY <4>1, <4>5, <5>1, <5>2
      <4>6. CASE i = Len(queue) + 1
        <5>1. waiting'[q][i] = c
          BY <2>3, <3>2, <4>6
        <5>2. \A j \in 1..Len(waiting'[q]) : waiting'[q][i] = waiting'[q][j] => i = j
          <6> SUFFICES ASSUME NEW j \in 1..Len(waiting'[q]), waiting'[q][i] = waiting'[q][j]
                       PROVE  i = j
            OBVIOUS
          <6>1. CASE j \in 1..Len(queue)
            <7>1. waiting'[q][j] = queue[j]
              BY <2>3, <3>2, <6>1
            <7> QED
              BY <4>1, <5>1, <6>1, <7>1
          <6> QED
            BY <4>4, <4>6, <6>1
        <5> QED
          BY <2>1, <2>2, <3>2, <5>1, <5>2
      <4> QED
        BY <4>3, <4>5, <4>6
    <3> QED
      BY <3>1, <3>2
  <2>6. KeyHeld'
    <3> SUFFICES ASSUME NEW q \in Procs
                 PROVE  /\ \A d \in Calls : Proc[d] = q => (HasKey(d)' <=> running'[q] = d)
                        /\ running'[q] = None => waiting'[q] = <<>>
                        /\ \A d \in Calls : Proc[d] = q /\ at'[d] = "waiting" =>
                             \E i \in 1..Len(waiting'[q]) : waiting'[q][i] = d
      BY DEF KeyHeld
    <3>1. \A d \in Calls : HasKey(d)' <=> HasKey(d)
      BY <2>1, <2>2 DEF HasKey
    <3>2. \A d \in Calls : Proc[d] = q => (HasKey(d)' <=> running'[q] = d)
      BY <2>1, <3>1 DEF KeyHeld
    <3>3. running'[q] = None => waiting'[q] = <<>>
      BY <2>1, <2>2 DEF KeyHeld
    <3>4. ASSUME NEW d \in Calls, Proc[d] = q, at'[d] = "waiting"
          PROVE  \E i \in 1..Len(waiting'[q]) : waiting'[q][i] = d
      <4>1. CASE d = c
        BY <2>3, <3>4, <4>1
      <4>2. CASE d # c
        <5>1. PICK i \in 1..Len(waiting[q]) : waiting[q][i] = d
          BY <2>2, <3>4, <4>2 DEF KeyHeld
        <5>2. CASE q = p
          <6>1. i \in 1..Len(queue) /\ queue[i] = d
            BY <5>1, <5>2
          <6> HIDE DEF queue
          <6>2. i \in 1..Len(waiting'[p]) /\ waiting'[p][i] = d
            BY <2>3, <6>1
          <6> QED
            BY <5>2, <6>2
        <5>3. CASE q # p
          BY <2>2, <5>1, <5>3
        <5> QED
          BY <5>2, <5>3
      <4> QED
        BY <4>1, <4>2
    <3> QED
      BY <3>2, <3>3, <3>4
  <2> QED
    BY <2>5, <2>6
<1>3. CASE \E c \in Calls : Throws(c)
  <2> PICK c \in Calls : Throws(c)
    BY <1>3
  <2>1. /\ at[c] # "waiting" /\ at' = [at EXCEPT ![c] = "done"]
        /\ HasKey(c) <=> "done" \in {"reading", "writing", "clearing", "stuck"}
        /\ UNCHANGED <<running, waiting>>
    BY DEF Throws, HasKey
  <2> QED
    BY <2>1, QuietCall
<1>4. CASE \E c \in Calls : Check(c)
  <2> PICK c \in Calls : Check(c)
    BY <1>4
  <2>1. /\ at[c] # "waiting" /\ at' = [at EXCEPT ![c] = "checking"]
        /\ HasKey(c) <=> "checking" \in {"reading", "writing", "clearing", "stuck"}
        /\ UNCHANGED <<running, waiting>>
    BY DEF Check, HasKey
  <2> QED
    BY <2>1, QuietCall
<1>5. CASE \E c \in Calls : ReadLocked(c)
  <2> PICK c \in Calls : ReadLocked(c)
    BY <1>5
  <2>1. HasKey(c) /\ Finish(c, "locked", 0) 
        /\ "locked" \in Answer /\ UNCHANGED clock
    BY DEF ReadLocked, HasKey, Answer, State
  <2> QED
    BY <2>1, FinishMoves
<1>6. CASE \E c \in Calls : Read(c)
  <2> PICK c \in Calls : Read(c)
    BY <1>6
  <2>1. /\ at[c] # "waiting" /\ at' = [at EXCEPT ![c] = "writing"]
        /\ HasKey(c) <=> "writing" \in {"reading", "writing", "clearing", "stuck"}
        /\ UNCHANGED <<running, waiting>>
    BY DEF Read, HasKey
  <2> QED
    BY <2>1, QuietCall
<1>7. CASE \E c \in Calls : SetThrows(c)
  <2> PICK c \in Calls : SetThrows(c)
    BY <1>7
  <2>1. /\ at[c] # "waiting" /\ at' = [at EXCEPT ![c] = "stuck"]
        /\ HasKey(c) <=> "stuck" \in {"reading", "writing", "clearing", "stuck"}
        /\ UNCHANGED <<running, waiting>>
    BY DEF SetThrows, HasKey
  <2> QED
    BY <2>1, QuietCall
<1>8. CASE \E c \in Calls : Write(c)
  <2> PICK c \in Calls : Write(c)
    BY <1>8
  <2>1. HasKey(c) /\ Finish(c, State(writes[c], now[c]), 0) 
        /\ State(writes[c], now[c]) \in Answer /\ UNCHANGED clock
    BY DEF Write, HasKey, Answer, State
  <2> QED
    BY <2>1, FinishMoves
<1>9. CASE \E c \in Calls : Clear(c)
  <2> PICK c \in Calls : Clear(c)
    BY <1>9
  <2>1. HasKey(c) /\ Finish(c, "cleared", 0) 
        /\ "cleared" \in Answer /\ UNCHANGED clock
    BY DEF Clear, HasKey, Answer, State
  <2> QED
    BY <2>1, FinishMoves
<1>10. CASE \E c \in Calls : Fails(c)
  <2> PICK c \in Calls : Fails(c)
    BY <1>10
  <2>1. HasKey(c) /\ Finish(c, "error", 1) 
        /\ "error" \in Answer /\ UNCHANGED clock
    BY DEF Fails, HasKey, Answer, State
  <2> QED
    BY <2>1, FinishMoves
<1>11. CASE \E c \in Calls : Checked(c)
  <2> PICK c \in Calls : Checked(c)
    BY <1>11
  <2>1. /\ at[c] # "waiting" /\ at' = [at EXCEPT ![c] = "done"]
        /\ HasKey(c) <=> "done" \in {"reading", "writing", "clearing", "stuck"}
        /\ UNCHANGED <<running, waiting>>
    BY DEF Checked, HasKey
  <2> QED
    BY <2>1, QuietCall
<1>12. CASE \E c \in Calls : CheckFails(c)
  <2> PICK c \in Calls : CheckFails(c)
    BY <1>12
  <2>1. /\ at[c] # "waiting" /\ at' = [at EXCEPT ![c] = "done"]
        /\ HasKey(c) <=> "done" \in {"reading", "writing", "clearing", "stuck"}
        /\ UNCHANGED <<running, waiting>>
    BY DEF CheckFails, HasKey
  <2> QED
    BY <2>1, QuietCall
<1>13. CASE Tick
  BY <1>13 DEF Tick, History, Types, TypeOK, Place, Answer, First, Queued,
      KeyHeld, HasKey
<1>14. CASE UNCHANGED vars
  BY <1>14 DEF vars, Types, TypeOK, Place, Answer, First, Queued, KeyHeld,
      HasKey
<1> QED
  BY <1>1, <1>2, <1>3, <1>4, <1>5, <1>6, <1>7, <1>8, <1>9, <1>10, <1>11, <1>12,
      <1>13, <1>14 DEF Next, Step

(***************************************************************************)
(* Who is about to write, and what was recorded.                           *)
(***************************************************************************)
LEMMA WritersAfter ==
  ASSUME Types, Queued, KeyHeld, NEW c \in Calls, HasKey(c), NEW ans, NEW failed \in {0, 1},
         Finish(c, ans, failed), NEW d \in Calls, at'[d] = "writing"
  PROVE  d # c /\ at[d] = "writing" /\ Proc[d] # Proc[c]
<1>1. d # c /\ at[d] = "writing"
  BY FinishMoves
<1>2. Proc[d] = Proc[c] => running[Proc[c]] = d /\ running[Proc[c]] = c
  BY <1>1, StoreOfCall DEF KeyHeld, HasKey
<1> QED
  BY <1>1, <1>2

(* Ending a call adds at most itself to the failures recorded.              *)
LEMMA RecordedAfter ==
  ASSUME Types, Queued, KeyHeld, Recorded, NEW c \in Calls, HasKey(c), NEW ans,
         NEW failed \in {0, 1}, Finish(c, ans, failed), NEW s \in Stores,
         recorded'[s] \in {{}, recorded[s], recorded[s] \cup {c}}
  PROVE  IsFiniteSet(recorded'[s]) /\ \A d \in recorded'[s] : at'[d] \in {"done", "lost"}
<1>1. IsFiniteSet(recorded'[s])
  <2>1. IsFiniteSet({}) /\ IsFiniteSet(recorded[s])
    BY FS_EmptySet DEF Recorded
  <2>2. IsFiniteSet(recorded[s] \cup {c})
    BY <2>1, FS_AddElement
  <2> QED
    BY <2>1, <2>2, Zenon
<1>2. at'[c] \in {"done", "lost"} /\ \A d \in Calls \ {c} : at[d] # "waiting" => at'[d] = at[d]
  BY FinishMoves
<1>3. \A d \in recorded[s] : d \in Calls /\ at[d] \in {"done", "lost"}
  BY DEF Recorded, Types, TypeOK
<1> QED
  BY <1>1, <1>2, <1>3

(* A step brings no call to its write over a lock in force, unless overtaken. *)
LEMMA UnlockedStep == Types /\ Queued /\ KeyHeld /\ Unlocked /\ [Next]_vars => Unlocked'
<1> SUFFICES ASSUME Types, Queued, KeyHeld, Unlocked, [Next]_vars PROVE Unlocked'
  OBVIOUS
<1> USE LockoutAssumption, NoneAssumption, StoreOfCall DEF LockoutAssumption
<1>1. CASE \E c \in Calls : TakeKey(c)
  BY <1>1 DEF TakeKey, First, History, Types, TypeOK, Place, Answer, First,
      Unlocked
<1>2. CASE \E c \in Calls : Enqueue(c)
  BY <1>2 DEF Enqueue, History, Types, TypeOK, Place, Answer, First, Unlocked
<1>3. CASE \E c \in Calls : Throws(c)
  BY <1>3 DEF Throws, History, Types, TypeOK, Place, Answer, First, Unlocked
<1>4. CASE \E c \in Calls : Check(c)
  BY <1>4 DEF Check, History, Types, TypeOK, Place, Answer, First, Unlocked
<1>5. CASE \E c \in Calls : ReadLocked(c)
  <2> PICK c \in Calls : ReadLocked(c)
    BY <1>5
  <2>1. HasKey(c) /\ Finish(c, "locked", 0) 
        /\ "locked" \in Answer /\ UNCHANGED clock
    BY DEF ReadLocked, HasKey, Answer, State
  <2> SUFFICES ASSUME NEW d \in Calls, at'[d] = "writing", d \notin overtaken'
               PROVE  ~Locks(entry'[Store(d)], clock')
    BY DEF Unlocked
  <2>2. at[d] = "writing" /\ Proc[d] # Proc[c] /\ Store(d) \in Stores
    BY <2>1, WritersAfter, StoreOfCall
  <2>3. d \notin overtaken /\ entry'[Store(d)] = entry[Store(d)]
    BY <2>2 DEF ReadLocked, Overtakes, History, Types, TypeOK
  <2> QED
    BY <2>1, <2>2, <2>3 DEF Unlocked
<1>6. CASE \E c \in Calls : Read(c)
  <2> PICK c \in Calls : Read(c)
    BY <1>6
  <2>1. PICK e \in Seen(Store(c)) : ~Locks(e, now[c])
    BY DEF Read
  <2>2. /\ entry[Store(c)] \in Entry \cup {None} /\ Store(c) \in Stores
        /\ now[c] \in Nat /\ clock \in Nat /\ now[c] <= clock
    BY StoreOfCall DEF Types, TypeOK
  <2>3. entry[Store(c)] # None /\ entry[Store(c)].until # None => entry[Store(c)].until \in Nat
    BY <2>2, LockoutAssumption DEF Entry, Time, LockoutAssumption
  <2>4. e = entry[Store(c)] \/ Expired(entry[Store(c)])
    BY SeenFacts
  <2>5. ~Locks(entry[Store(c)], clock)
    BY <2>1, <2>2, <2>3, <2>4 DEF Locks, Expired
  <2> QED
    BY <2>5 DEF Read, History, Unlocked, Types, TypeOK
<1>7. CASE \E c \in Calls : SetThrows(c)
  BY <1>7 DEF SetThrows, History, Types, TypeOK, Place, Answer, First, Unlocked
<1>8. CASE \E c \in Calls : Write(c)
  <2> PICK c \in Calls : Write(c)
    BY <1>8
  <2>1. HasKey(c) /\ Finish(c, State(writes[c], now[c]), 0) 
        /\ State(writes[c], now[c]) \in Answer /\ UNCHANGED clock
    BY DEF Write, HasKey, Answer, State
  <2> SUFFICES ASSUME NEW d \in Calls, at'[d] = "writing", d \notin overtaken'
               PROVE  ~Locks(entry'[Store(d)], clock')
    BY DEF Unlocked
  <2>2. at[d] = "writing" /\ Proc[d] # Proc[c] /\ Store(d) \in Stores
    BY <2>1, WritersAfter, StoreOfCall
  <2>3. d \notin overtaken /\ entry'[Store(d)] = entry[Store(d)]
    BY <2>2 DEF Write, Land, Overtakes, History, Types, TypeOK
  <2> QED
    BY <2>1, <2>2, <2>3 DEF Unlocked
<1>9. CASE \E c \in Calls : Clear(c)
  <2> PICK c \in Calls : Clear(c)
    BY <1>9
  <2>1. HasKey(c) /\ Finish(c, "cleared", 0) 
        /\ "cleared" \in Answer /\ UNCHANGED clock
    BY DEF Clear, HasKey, Answer, State
  <2> SUFFICES ASSUME NEW d \in Calls, at'[d] = "writing", d \notin overtaken'
               PROVE  ~Locks(entry'[Store(d)], clock')
    BY DEF Unlocked
  <2>2. at[d] = "writing" /\ Proc[d] # Proc[c] /\ Store(d) \in Stores
    BY <2>1, WritersAfter, StoreOfCall
  <2>3. d \notin overtaken /\ entry'[Store(d)] = entry[Store(d)]
    BY <2>2 DEF Clear, Forget, Overtakes, History, Types, TypeOK
  <2> QED
    BY <2>1, <2>2, <2>3 DEF Unlocked
<1>10. CASE \E c \in Calls : Fails(c)
  <2> PICK c \in Calls : Fails(c)
    BY <1>10
  <2>1. HasKey(c) /\ Finish(c, "error", 1) 
        /\ "error" \in Answer /\ UNCHANGED clock
    BY DEF Fails, HasKey, Answer, State
  <2> SUFFICES ASSUME NEW d \in Calls, at'[d] = "writing", d \notin overtaken'
               PROVE  ~Locks(entry'[Store(d)], clock')
    BY DEF Unlocked
  <2>2. at[d] = "writing" /\ Proc[d] # Proc[c] /\ Store(d) \in Stores
    BY <2>1, WritersAfter, StoreOfCall
  <2>3. d \notin overtaken /\ entry'[Store(d)] = entry[Store(d)]
    BY <2>2 DEF Fails, Land, Forget, Overtakes, History, Types, TypeOK
  <2> QED
    BY <2>1, <2>2, <2>3 DEF Unlocked
<1>11. CASE \E c \in Calls : Checked(c)
  BY <1>11 DEF Checked, State, History, Types, TypeOK, Place, Answer, First,
      Unlocked
<1>12. CASE \E c \in Calls : CheckFails(c)
  BY <1>12 DEF CheckFails, History, Types, TypeOK, Place, Answer, First,
      Unlocked
<1>13. CASE Tick
  <2> SUFFICES ASSUME NEW d \in Calls, at'[d] = "writing", d \notin overtaken'
               PROVE  ~Locks(entry'[Store(d)], clock')
    BY DEF Unlocked
  <2>1. ~Locks(entry[Store(d)], clock)
    BY <1>13 DEF Tick, History, Unlocked
  <2>2. entry[Store(d)] \in Entry \cup {None} /\ clock \in Nat /\ clock' = clock + 1
    BY <1>13, StoreOfCall DEF Tick, Types, TypeOK
  <2>3. entry[Store(d)] # None /\ entry[Store(d)].until # None => entry[Store(d)].until \in Nat
    BY <2>2, LockoutAssumption DEF Entry, Time, LockoutAssumption
  <2> QED
    BY <1>13, <2>1, <2>2, <2>3 DEF Tick, Locks
<1>14. CASE UNCHANGED vars
  BY <1>14 DEF vars, Types, TypeOK, Place, Answer, First, Unlocked
<1> QED
  BY <1>1, <1>2, <1>3, <1>4, <1>5, <1>6, <1>7, <1>8, <1>9, <1>10, <1>11, <1>12,
      <1>13, <1>14 DEF Next, Step

(* Only calls that have ended are recorded as failures.                     *)
LEMMA RecordedStep == Types /\ Queued /\ KeyHeld /\ Recorded /\ [Next]_vars => Recorded'
<1> SUFFICES ASSUME Types, Queued, KeyHeld, Recorded, [Next]_vars PROVE Recorded'
  OBVIOUS
<1> USE LockoutAssumption, NoneAssumption, StoreOfCall DEF LockoutAssumption
<1>1. CASE \E c \in Calls : TakeKey(c)
  BY <1>1 DEF TakeKey, First, History, Types, TypeOK, Place, Answer, First,
      Recorded
<1>2. CASE \E c \in Calls : Enqueue(c)
  BY <1>2 DEF Enqueue, History, Types, TypeOK, Place, Answer, First, Recorded
<1>3. CASE \E c \in Calls : Throws(c)
  BY <1>3 DEF Throws, History, Types, TypeOK, Place, Answer, First, Recorded
<1>4. CASE \E c \in Calls : Check(c)
  BY <1>4 DEF Check, History, Types, TypeOK, Place, Answer, First, Recorded
<1>5. CASE \E c \in Calls : ReadLocked(c)
  <2> PICK c \in Calls : ReadLocked(c)
    BY <1>5
  <2>1. HasKey(c) /\ Finish(c, "locked", 0) 
        /\ "locked" \in Answer /\ UNCHANGED clock
    BY DEF ReadLocked, HasKey, Answer, State
  <2>2. \A s \in Stores : recorded'[s] \in {{}, recorded[s], recorded[s] \cup {c}}
    BY DEF ReadLocked, History, Types, TypeOK
  <2> QED
    BY <2>1, <2>2, RecordedAfter DEF Recorded
<1>6. CASE \E c \in Calls : Read(c)
  BY <1>6 DEF Read, History, Types, TypeOK, Place, Answer, First, Recorded
<1>7. CASE \E c \in Calls : SetThrows(c)
  BY <1>7 DEF SetThrows, History, Types, TypeOK, Place, Answer, First, Recorded
<1>8. CASE \E c \in Calls : Write(c)
  <2> PICK c \in Calls : Write(c)
    BY <1>8
  <2>1. HasKey(c) /\ Finish(c, State(writes[c], now[c]), 0) 
        /\ State(writes[c], now[c]) \in Answer /\ UNCHANGED clock
    BY DEF Write, HasKey, Answer, State
  <2>2. \A s \in Stores : recorded'[s] \in {{}, recorded[s], recorded[s] \cup {c}}
    BY DEF Write, Land, History, Types, TypeOK
  <2> QED
    BY <2>1, <2>2, RecordedAfter DEF Recorded
<1>9. CASE \E c \in Calls : Clear(c)
  <2> PICK c \in Calls : Clear(c)
    BY <1>9
  <2>1. HasKey(c) /\ Finish(c, "cleared", 0) 
        /\ "cleared" \in Answer /\ UNCHANGED clock
    BY DEF Clear, HasKey, Answer, State
  <2>2. \A s \in Stores : recorded'[s] \in {{}, recorded[s], recorded[s] \cup {c}}
    BY DEF Clear, Forget, History, Types, TypeOK
  <2> QED
    BY <2>1, <2>2, RecordedAfter DEF Recorded
<1>10. CASE \E c \in Calls : Fails(c)
  <2> PICK c \in Calls : Fails(c)
    BY <1>10
  <2>1. HasKey(c) /\ Finish(c, "error", 1) 
        /\ "error" \in Answer /\ UNCHANGED clock
    BY DEF Fails, HasKey, Answer, State
  <2>2. \A s \in Stores : recorded'[s] \in {{}, recorded[s], recorded[s] \cup {c}}
    BY DEF Fails, Land, Forget, History, Types, TypeOK
  <2> QED
    BY <2>1, <2>2, RecordedAfter DEF Recorded
<1>11. CASE \E c \in Calls : Checked(c)
  BY <1>11 DEF Checked, State, History, Types, TypeOK, Place, Answer, First,
      Recorded
<1>12. CASE \E c \in Calls : CheckFails(c)
  BY <1>12 DEF CheckFails, History, Types, TypeOK, Place, Answer, First,
      Recorded
<1>13. CASE Tick
  BY <1>13 DEF Tick, History, Types, TypeOK, Place, Answer, First, Recorded
<1>14. CASE UNCHANGED vars
  BY <1>14 DEF vars, Types, TypeOK, Place, Answer, First, Recorded
<1> QED
  BY <1>1, <1>2, <1>3, <1>4, <1>5, <1>6, <1>7, <1>8, <1>9, <1>10, <1>11, <1>12,
      <1>13, <1>14 DEF Next, Step

(***************************************************************************)
(* The count.                                                              *)
(***************************************************************************)
LEMMA MadeIsNat == ASSUME Recorded, NEW s \in Stores PROVE Made(s) \in Nat
BY FS_CardinalityType DEF Recorded, Made

(* A failure that reads in the first window, without having been overtaken, *)
(* sees every failure that was recorded.                                    *)
LEMMA ReadAdds ==
  ASSUME Types, Recorded, EveryFailureCounts, overtaken = {}, errors = 0, NEW c \in Calls,
         NEW e \in Seen(Store(c)), ~Locks(e, now[c]), NEW f, f = Fresh(e, now[c])
  PROVE  /\ f.attempts <= Made(Store(c)) + 1
         /\ Early => /\ Made(Store(c)) < MaxAttempts
                     /\ f.attempts = Made(Store(c)) + 1
                     /\ Made(Store(c)) + 1 = MaxAttempts => f.until # None
<1> DEFINE s == Store(c)
           m == Made(s)
           t == now[c]
<1>1. /\ s \in Stores /\ entry[s] \in Entry \cup {None}
      /\ t \in 0..MaxClock /\ t \in Nat /\ clock \in Nat /\ t <= clock
      /\ MaxAttempts \in Nat \ {0} /\ Window \in Nat /\ LockFor \in Nat /\ None \notin Int
  BY StoreOfCall, LockoutAssumption DEF Types, TypeOK, LockoutAssumption
<1>2. m \in Nat
  BY <1>1, MadeIsNat
<1>3. e = entry[s] \/ (e = None /\ Expired(entry[s]))
  BY SeenFacts
<1>4. /\ entry[s] # None => entry[s].attempts <= m
      /\ Early => /\ m <= MaxAttempts
                  /\ m > 0 => entry[s] # None /\ entry[s].attempts = m
                  /\ m = MaxAttempts => entry[s].until # None
  BY <1>1 DEF EveryFailureCounts, Made, Early
<1>5. entry[s] # None => /\ entry[s].attempts \in Nat \ {0} /\ entry[s].last \in Nat
                         /\ entry[s].until # None => entry[s].until \in Nat /\ entry[s].until >= LockFor
  BY <1>1, LockoutAssumption DEF Entry, Time, Types, Locked, LockoutAssumption
<1>6. Counted(e, t) \in Nat /\ f.attempts = Counted(e, t) + 1
      /\ (f.attempts >= MaxAttempts => f.until # None)
  BY <1>1, <1>3, FreshFacts
<1>7. Counted(e, t) <= m
  BY <1>2, <1>3, <1>4, <1>5 DEF Counted
<1> HIDE DEF m, s, t
<1>8. ASSUME Early PROVE m < MaxAttempts /\ Counted(e, t) = m
  <2>1. clock < Window /\ clock < LockFor
    BY <1>8 DEF Early
  <2>2. entry[s] = None \/ ~Expired(entry[s])
    BY <1>1, <1>5, <2>1 DEF Expired
  <2>3. e = entry[s]
    BY <1>3, <2>2 DEF Expired
  <2>4. CASE m = 0
    <3>1. entry[s] = None
      BY <1>4, <1>5, <2>4
    <3> QED
      BY <1>1, <2>3, <2>4, <3>1 DEF Counted
  <2>5. CASE m > 0
    <3>1. entry[s] # None /\ entry[s].attempts = m
      BY <1>4, <1>8, <2>5
    <3>2. ~Locks(entry[s], t)
      BY <2>3 DEF t
    <3>3. entry[s].until = None
      BY <1>1, <1>5, <2>1, <3>1, <3>2 DEF Locks
    <3>4. m < MaxAttempts
      BY <1>1, <1>2, <1>4, <1>8, <3>3
    <3>5. t - entry[s].last <= Window
      BY <1>1, <1>5, <2>1, <3>1
    <3> QED
      BY <2>3, <3>1, <3>3, <3>4, <3>5 DEF Counted
  <2> QED
    BY <1>2, <2>4, <2>5
<1> QED
  BY <1>1, <1>2, <1>6, <1>7, <1>8 DEF m, s

(* What a call that ends leaves to count, when nobody was overtaken and     *)
(* nothing failed.                                                          *)
LEMMA EndCounts ==
  ASSUME Types, Queued, KeyHeld, Recorded, EveryFailureCounts, Counting, UNCHANGED clock,
         NEW c \in Calls, HasKey(c), NEW ans \in Answer, Finish(c, ans, 0),
         writes' \in {writes, [writes EXCEPT ![c] = None]},
         overtaken \subseteq overtaken',
         \A d \in Calls : /\ Store(d) = Store(c) /\ Proc[d] # Proc[c] /\ at[d] = "writing"
                          => /\ entry'[Store(c)] = entry[Store(c)]
                             /\ recorded'[Store(c)] = recorded[Store(c)]
                             \/ d \in overtaken',
         \A s \in Stores \ {Store(c)} : entry'[s] = entry[s] /\ recorded'[s] = recorded[s]
  PROVE  Counting'
<1> SUFFICES ASSUME overtaken' = {}, errors' = 0, NEW d \in Calls, at'[d] = "writing"
             PROVE  Adds(d)'
  BY DEF Counting
<1>1. overtaken = {} /\ errors = 0
  BY FinishTypes DEF Types, TypeOK
<1>2. d # c /\ at[d] = "writing" /\ Proc[d] # Proc[c] /\ Store(d) \in Stores
  BY WritersAfter, StoreOfCall
<1>3. recorded'[Store(d)] = recorded[Store(d)]
  BY <1>2
<1>4. writes'[d] = writes[d]
  BY <1>2 DEF Types, TypeOK
<1>5. Adds(d)
  BY <1>1, <1>2 DEF Counting
<1> QED
  BY <1>3, <1>4, <1>5 DEF Adds, Made, Early

(* What a call is about to write counts every failure before it and its own. *)
LEMMA CountingStep ==
  Types /\ Queued /\ KeyHeld /\ Recorded /\ EveryFailureCounts /\ Counting /\ [Next]_vars =>
    Counting'
<1> SUFFICES ASSUME Types, Queued, KeyHeld, Recorded, EveryFailureCounts, Counting, [Next]_vars
             PROVE  Counting'
  OBVIOUS
<1> USE LockoutAssumption, NoneAssumption, StoreOfCall DEF LockoutAssumption
<1>1. CASE \E c \in Calls : TakeKey(c)
  BY <1>1 DEF TakeKey, First, History, Types, TypeOK, Place, Answer, First,
      Counting, Adds, Made, Early
<1>2. CASE \E c \in Calls : Enqueue(c)
  BY <1>2 DEF Enqueue, History, Types, TypeOK, Place, Answer, First, Counting,
      Adds, Made, Early
<1>3. CASE \E c \in Calls : Throws(c)
  BY <1>3 DEF Throws, History, Types, TypeOK, Place, Answer, First, Counting,
      Adds, Made, Early
<1>4. CASE \E c \in Calls : Check(c)
  BY <1>4 DEF Check, History, Types, TypeOK, Place, Answer, First, Counting,
      Adds, Made, Early
<1>5. CASE \E c \in Calls : ReadLocked(c)
  <2> PICK c \in Calls : ReadLocked(c)
    BY <1>5
  <2>1. HasKey(c) /\ Finish(c, "locked", 0) 
        /\ "locked" \in Answer /\ UNCHANGED clock
    BY DEF ReadLocked, HasKey, Answer, State
  <2>2. writes' \in {writes, [writes EXCEPT ![c] = None]} /\ overtaken \subseteq overtaken'
    BY DEF ReadLocked, Overtakes, History
  <2>3. \A d \in Calls : /\ Store(d) = Store(c) /\ Proc[d] # Proc[c] /\ at[d] = "writing"
                         => /\ entry'[Store(c)] = entry[Store(c)]
                            /\ recorded'[Store(c)] = recorded[Store(c)]
                            \/ d \in overtaken'
    BY DEF ReadLocked, Overtakes, History
  <2>4. \A s \in Stores \ {Store(c)} : entry'[s] = entry[s] /\ recorded'[s] = recorded[s]
    BY DEF ReadLocked, History, Types, TypeOK
  <2> QED
    BY <2>1, <2>2, <2>3, <2>4, EndCounts
<1>6. CASE \E c \in Calls : Read(c)
  <2> PICK c \in Calls : Read(c)
    BY <1>6
  <2>1. PICK e \in Seen(Store(c)) : /\ ~Locks(e, now[c])
                                    /\ writes' = [writes EXCEPT ![c] = Fresh(e, now[c])]
    BY DEF Read
  <2> SUFFICES ASSUME overtaken' = {}, errors' = 0, NEW d \in Calls, at'[d] = "writing"
               PROVE  Adds(d)'
    BY DEF Counting
  <2>2. /\ overtaken = {} /\ errors = 0
        /\ UNCHANGED <<clock, recorded>>
        /\ at' = [at EXCEPT ![c] = "writing"]
    BY DEF Read, History
  <2>3. CASE d = c
    <3> DEFINE f == Fresh(e, now[c])
    <3>1. writes'[d] = f
      BY <2>1, <2>3 DEF Types, TypeOK
    <3>2. /\ f.attempts <= Made(Store(c)) + 1
          /\ Early => /\ Made(Store(c)) < MaxAttempts
                      /\ f.attempts = Made(Store(c)) + 1
                      /\ Made(Store(c)) + 1 = MaxAttempts => f.until # None
      BY <2>1, <2>2, ReadAdds
    <3> HIDE DEF f
    <3> QED
      BY <2>2, <2>3, <3>1, <3>2 DEF Adds, Made, Early
  <2>4. CASE d # c
    <3>1. at[d] = "writing" /\ writes'[d] = writes[d]
      BY <2>1, <2>2, <2>4 DEF Types, TypeOK
    <3>2. Adds(d)
      BY <2>2, <3>1 DEF Counting
    <3> QED
      BY <2>2, <3>1, <3>2 DEF Adds, Made, Early
  <2> QED
    BY <2>3, <2>4
<1>7. CASE \E c \in Calls : SetThrows(c)
  BY <1>7 DEF SetThrows, History, Types, TypeOK, Place, Answer, First, Counting,
      Adds, Made, Early
<1>8. CASE \E c \in Calls : Write(c)
  <2> PICK c \in Calls : Write(c)
    BY <1>8
  <2>1. HasKey(c) /\ Finish(c, State(writes[c], now[c]), 0) 
        /\ State(writes[c], now[c]) \in Answer /\ UNCHANGED clock
    BY DEF Write, HasKey, Answer, State
  <2>2. writes' \in {writes, [writes EXCEPT ![c] = None]} /\ overtaken \subseteq overtaken'
    BY DEF Write, Land, Overtakes, History
  <2>3. \A d \in Calls : /\ Store(d) = Store(c) /\ Proc[d] # Proc[c] /\ at[d] = "writing"
                         => /\ entry'[Store(c)] = entry[Store(c)]
                            /\ recorded'[Store(c)] = recorded[Store(c)]
                            \/ d \in overtaken'
    BY DEF Write, Land, Overtakes, History
  <2>4. \A s \in Stores \ {Store(c)} : entry'[s] = entry[s] /\ recorded'[s] = recorded[s]
    BY DEF Write, Land, History, Types, TypeOK
  <2> QED
    BY <2>1, <2>2, <2>3, <2>4, EndCounts
<1>9. CASE \E c \in Calls : Clear(c)
  <2> PICK c \in Calls : Clear(c)
    BY <1>9
  <2>1. HasKey(c) /\ Finish(c, "cleared", 0) 
        /\ "cleared" \in Answer /\ UNCHANGED clock
    BY DEF Clear, HasKey, Answer, State
  <2>2. writes' \in {writes, [writes EXCEPT ![c] = None]} /\ overtaken \subseteq overtaken'
    BY DEF Clear, Forget, Overtakes, History
  <2>3. \A d \in Calls : /\ Store(d) = Store(c) /\ Proc[d] # Proc[c] /\ at[d] = "writing"
                         => /\ entry'[Store(c)] = entry[Store(c)]
                            /\ recorded'[Store(c)] = recorded[Store(c)]
                            \/ d \in overtaken'
    BY DEF Clear, Forget, Overtakes, History
  <2>4. \A s \in Stores \ {Store(c)} : entry'[s] = entry[s] /\ recorded'[s] = recorded[s]
    BY DEF Clear, Forget, History, Types, TypeOK
  <2> QED
    BY <2>1, <2>2, <2>3, <2>4, EndCounts
<1>10. CASE \E c \in Calls : Fails(c)
  <2> PICK c \in Calls : Fails(c)
    BY <1>10
  <2>1. errors' >= errors + 1 /\ errors \in Nat
    BY FinishTypes DEF Fails, Answer, Types, TypeOK
  <2> QED
    BY <2>1 DEF Counting
<1>11. CASE \E c \in Calls : Checked(c)
  BY <1>11 DEF Checked, State, History, Types, TypeOK, Place, Answer, First,
      Counting, Adds, Made, Early
<1>12. CASE \E c \in Calls : CheckFails(c)
  BY <1>12 DEF CheckFails, History, Types, TypeOK, Place, Answer, First,
      Counting, Adds, Made, Early
<1>13. CASE Tick
  <2>1. UNCHANGED <<at, writes, recorded, overtaken, errors>> /\ (Early' => Early)
    BY <1>13 DEF Tick, History, Early, Types, TypeOK
  <2> QED
    BY <2>1 DEF Counting, Adds, Made
<1>14. CASE UNCHANGED vars
  BY <1>14 DEF vars, Types, TypeOK, Place, Answer, First, Counting, Adds, Made,
      Early
<1> QED
  BY <1>1, <1>2, <1>3, <1>4, <1>5, <1>6, <1>7, <1>8, <1>9, <1>10, <1>11, <1>12,
      <1>13, <1>14 DEF Next, Step

(* Every step keeps the count of the entry equal to the failures recorded.  *)
LEMMA CountStep ==
  Types /\ Queued /\ KeyHeld /\ Recorded /\ EveryFailureCounts /\ Counting /\ [Next]_vars =>
    EveryFailureCounts'
<1> SUFFICES ASSUME Types, Queued, KeyHeld, Recorded, EveryFailureCounts, Counting, [Next]_vars
             PROVE  EveryFailureCounts'
  OBVIOUS
<1> USE LockoutAssumption, NoneAssumption, StoreOfCall DEF LockoutAssumption
<1>1. CASE \E c \in Calls : TakeKey(c)
  BY <1>1 DEF TakeKey, First, History, Types, TypeOK, Place, Answer, First,
      EveryFailureCounts
<1>2. CASE \E c \in Calls : Enqueue(c)
  BY <1>2 DEF Enqueue, History, Types, TypeOK, Place, Answer, First,
      EveryFailureCounts
<1>3. CASE \E c \in Calls : Throws(c)
  BY <1>3 DEF Throws, History, Types, TypeOK, Place, Answer, First,
      EveryFailureCounts
<1>4. CASE \E c \in Calls : Check(c)
  BY <1>4 DEF Check, History, Types, TypeOK, Place, Answer, First,
      EveryFailureCounts
<1>5. CASE \E c \in Calls : ReadLocked(c)
  <2> PICK c \in Calls : ReadLocked(c)
    BY <1>5
  <2>1. HasKey(c) /\ Finish(c, "locked", 0) 
        /\ "locked" \in Answer /\ UNCHANGED clock
    BY DEF ReadLocked, HasKey, Answer, State
  <2>2. errors' = 0 => errors = 0
    BY <2>1, FinishTypes DEF Types, TypeOK
  <2> QED
    BY <2>1, <2>2 DEF ReadLocked, History, EveryFailureCounts
<1>6. CASE \E c \in Calls : Read(c)
  BY <1>6 DEF Read, History, Types, TypeOK, Place, Answer, First,
      EveryFailureCounts
<1>7. CASE \E c \in Calls : SetThrows(c)
  BY <1>7 DEF SetThrows, History, Types, TypeOK, Place, Answer, First,
      EveryFailureCounts
<1>8. CASE \E c \in Calls : Write(c)
  <2> PICK c \in Calls : Write(c)
    BY <1>8
  <2>1. HasKey(c) /\ Finish(c, State(writes[c], now[c]), 0) 
        /\ State(writes[c], now[c]) \in Answer /\ UNCHANGED clock
    BY DEF Write, HasKey, Answer, State
  <2> SUFFICES ASSUME overtaken' = {}, errors' = 0, NEW s \in Stores
               PROVE  /\ entry'[s] # None => entry'[s].attempts <= Made(s)'
                      /\ Early' => /\ Made(s)' <= MaxAttempts
                                   /\ Made(s)' > 0 => entry'[s] # None /\ entry'[s].attempts = Made(s)'
                                   /\ Made(s)' = MaxAttempts => entry'[s].until # None
    BY DEF EveryFailureCounts, Made, Early
  <2>2. overtaken = {} /\ errors = 0
    BY <2>1, FinishTypes DEF Write, Land, Overtakes, Types, TypeOK
  <2>3. CASE s = Store(c)
    <3>1. at[c] = "writing" /\ Adds(c) /\ writes[c] # None
      BY <2>2 DEF Write, Counting, Types
    <3>2. c \notin recorded[s] /\ IsFiniteSet(recorded[s])
      BY <2>3, <3>1 DEF Recorded
    <3>3. entry'[s] = writes[c] /\ recorded'[s] = recorded[s] \cup {c}
      BY <2>3 DEF Write, Land, Types, TypeOK
    <3>4. Made(s)' = Made(s) + 1 /\ Made(s) \in Nat
      BY <3>2, <3>3, FS_AddElement, MadeIsNat DEF Made
    <3>5. Early' <=> Early
      BY <2>1 DEF Early
    <3> QED
      BY <2>3, <3>1, <3>3, <3>4, <3>5 DEF Adds
  <2>4. CASE s # Store(c)
    <3>1. entry'[s] = entry[s] /\ recorded'[s] = recorded[s] /\ UNCHANGED clock
      BY <2>1, <2>4 DEF Write, Land, Types, TypeOK
    <3> QED
      BY <2>2, <3>1 DEF EveryFailureCounts, Made, Early
  <2> QED
    BY <2>3, <2>4
<1>9. CASE \E c \in Calls : Clear(c)
  <2> PICK c \in Calls : Clear(c)
    BY <1>9
  <2>1. HasKey(c) /\ Finish(c, "cleared", 0) 
        /\ "cleared" \in Answer /\ UNCHANGED clock
    BY DEF Clear, HasKey, Answer, State
  <2>2. errors' = 0 => errors = 0
    BY <2>1, FinishTypes DEF Types, TypeOK
  <2> SUFFICES ASSUME overtaken' = {}, errors' = 0, NEW s \in Stores
               PROVE  /\ entry'[s] # None => entry'[s].attempts <= Made(s)'
                      /\ Early' => /\ Made(s)' <= MaxAttempts
                                   /\ Made(s)' > 0 => entry'[s] # None /\ entry'[s].attempts = Made(s)'
                                   /\ Made(s)' = MaxAttempts => entry'[s].until # None
    BY DEF EveryFailureCounts, Made, Early
  <2>3. overtaken = {} /\ errors = 0
    BY <2>2 DEF Clear, Forget, Overtakes
  <2>4. CASE s = Store(c)
    <3>1. entry'[s] = None /\ recorded'[s] = {}
      BY <2>4 DEF Clear, Forget, Types, TypeOK
    <3>2. Made(s)' = 0
      BY <3>1, FS_EmptySet DEF Made
    <3> QED
      BY <3>1, <3>2 DEF LockoutAssumption
  <2>5. CASE s # Store(c)
    <3>1. entry'[s] = entry[s] /\ recorded'[s] = recorded[s] /\ UNCHANGED clock
      BY <2>1, <2>5 DEF Clear, Forget, Types, TypeOK
    <3> QED
      BY <2>3, <3>1 DEF EveryFailureCounts, Made, Early
  <2> QED
    BY <2>4, <2>5
<1>10. CASE \E c \in Calls : Fails(c)
  <2> PICK c \in Calls : Fails(c)
    BY <1>10
  <2>1. errors' >= errors + 1 /\ errors \in Nat
    BY FinishTypes DEF Fails, Answer, Types, TypeOK
  <2> QED
    BY <2>1 DEF EveryFailureCounts
<1>11. CASE \E c \in Calls : Checked(c)
  BY <1>11 DEF Checked, State, History, Types, TypeOK, Place, Answer, First,
      EveryFailureCounts
<1>12. CASE \E c \in Calls : CheckFails(c)
  BY <1>12 DEF CheckFails, History, Types, TypeOK, Place, Answer, First,
      EveryFailureCounts
<1>13. CASE Tick
  <2>1. /\ UNCHANGED <<entry, recorded, overtaken, errors>>
        /\ clock' < Window /\ clock' < LockFor => clock < Window /\ clock < LockFor
    BY <1>13 DEF Tick, History, Types, TypeOK
  <2> QED
    BY <2>1 DEF EveryFailureCounts
<1>14. CASE UNCHANGED vars
  BY <1>14 DEF vars, Types, TypeOK, Place, Answer, First, EveryFailureCounts
<1> QED
  BY <1>1, <1>2, <1>3, <1>4, <1>5, <1>6, <1>7, <1>8, <1>9, <1>10, <1>11, <1>12,
      <1>13, <1>14 DEF Next, Step

(***************************************************************************)
(* The theorems.                                                           *)
(***************************************************************************)
LEMMA InvHolds == Spec => []Inv
<1>1. Init => Inv
  <2> SUFFICES ASSUME Init PROVE Inv
    OBVIOUS
  <2> USE LockoutAssumption DEF LockoutAssumption
  <2>1. Types
    BY DEF Init, Types, TypeOK, Place, Answer, Locked
  <2>2. Queued /\ KeyHeld
    BY DEF Init, Queued, KeyHeld, HasKey
  <2>3. Unlocked /\ Counting
    BY DEF Init, Unlocked, Counting
  <2>4. \A s \in Stores : recorded[s] = {} /\ Made(s) = 0
    BY FS_EmptySet DEF Init, Made
  <2>5. Recorded /\ EveryFailureCounts
    BY <2>4, FS_EmptySet DEF Init, Recorded, EveryFailureCounts, Made
  <2> QED
    BY <2>1, <2>2, <2>3, <2>5 DEF Inv
<1>2. Inv /\ [Next]_vars => Inv'
  BY TypesStep, KeyStep, UnlockedStep, RecordedStep, CountStep, CountingStep DEF Inv
<1> QED
  BY <1>1, <1>2, PTL DEF Spec

(* Whatever the calls and the store do, times, entries, queues and answers  *)
(* keep their types.                                                        *)
THEOREM TypeCorrect == Spec => []TypeOK
<1>1. Inv => TypeOK
  BY DEF Inv, Types
<1> QED
  BY <1>1, InvHolds, PTL

(* withKeyLock(): within a process at most one call is between its read and *)
(* its write, nobody waits for a key that is free, and no call that waits   *)
(* has dropped out of the queue.                                            *)
THEOREM OneHolderPerKey == Spec => []KeyHeld
<1>1. Inv => KeyHeld
  BY DEF Inv
<1> QED
  BY <1>1, InvHolds, PTL

(* As long as no process is overtaken and no call of the store fails, the   *)
(* count is the number of failures since the last clearance.                *)
THEOREM FailuresCount == Spec => []EveryFailureCounts
<1>1. Inv => EveryFailureCounts
  BY DEF Inv
<1> QED
  BY <1>1, InvHolds, PTL

(* No step shortens a lock in force, unless it clears the entry.            *)
LEMMA LockStep ==
  Inv /\ [Next]_vars =>
    \A s \in Stores : Locks(entry[s], clock) /\ entry'[s] # None /\ overtaken = {} =>
      entry'[s].until # None /\ entry'[s].until >= entry[s].until
<1> SUFFICES ASSUME Inv, [Next]_vars, NEW s \in Stores, Locks(entry[s], clock),
                    entry'[s] # None, overtaken = {}
             PROVE  entry'[s].until # None /\ entry'[s].until >= entry[s].until
  OBVIOUS
<1>1. entry[s] \in Entry /\ entry[s].until # None /\ entry[s].until \in Int
  BY LockoutAssumption DEF Inv, Types, TypeOK, Locks, Entry, Time, LockoutAssumption
<1>2. ASSUME NEW c \in Calls, at[c] = "writing", Land(c) PROVE entry'[s] = entry[s]
  <2>1. Store(c) # s
    BY <1>2 DEF Inv, Unlocked
  <2> QED
    BY <1>2, <2>1 DEF Land, Inv, Types, TypeOK
<1>3. ASSUME NEW c \in Calls, Forget(c) PROVE entry'[s] = entry[s]
  BY <1>3, StoreOfCall DEF Forget, Inv, Types, TypeOK
<1>4. entry'[s] = entry[s]
  BY <1>2, <1>3 DEF Next, Step, vars, History, TakeKey, Enqueue, Throws, Check, ReadLocked, Read,
    SetThrows, Write, Clear, Fails, Checked, CheckFails, Tick
<1> QED
  BY <1>1, <1>4

(* A lock in force stays until its end or a clearance, unless it is written *)
(* over by a process that had read the entry before the account was locked. *)
THEOREM LockStays == Spec => LockIsTerminal
<1>1. Inv /\ [Next]_vars =>
        [\A s \in Stores : Locks(entry[s], clock) /\ entry'[s] # None /\ overtaken = {} =>
           entry'[s].until # None /\ entry'[s].until >= entry[s].until]_vars
  BY LockStep
<1> QED
  BY <1>1, InvHolds, PTL DEF Spec, LockIsTerminal

=============================================================================
