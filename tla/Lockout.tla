------------------------------- MODULE Lockout -------------------------------
(***************************************************************************)
(* The account lockout of lib/authn/src/lockout.js, for one account key.   *)
(* Every process queues its updates of the key and makes each of them a    *)
(* read-modify-write over a store, its own or one it shares: the read and  *)
(* the write land at moments of their own, in between other processes go   *)
(* on and the clock advances.                                              *)
(***************************************************************************)
EXTENDS Integers, Sequences, FiniteSets

CONSTANTS
    Calls,       \* calls of the engine
    Kind,        \* failure, clear (recordSuccess, reset) or check
    Procs, Proc, \* the process that makes a call
    Stores, StoreOf, \* the store a process uses
    MaxAttempts, LockFor, Window, \* maxAttempts, lockMs, windowMs
    MaxClock, MaxErrors,          \* bounds
    None

ASSUME LockoutAssumption ==
    /\ Kind \in [Calls -> {"failure", "clear", "check"}]
    /\ Proc \in [Calls -> Procs]
    /\ StoreOf \in [Procs -> Stores]
    /\ {MaxAttempts, LockFor, Window} \subseteq Nat \ {0}
    /\ {MaxClock, MaxErrors} \subseteq Nat
    /\ None \notin Calls \cup Int

VARIABLES
    clock,
    entry,    \* what each store holds for the account
    running,  \* the call that has the key of a process, None when it is free
    waiting,  \* the calls queued behind it
    at,       \* where each call is
    now,      \* the time a failure took when it got the key
    writes,   \* the entry a failure is writing
    answer,
    recorded,  \* failures written since the entry was last cleared (history)
    overtaken, \* failures another process wrote or cleared past (history)
    errors

vars == <<clock, entry, running, waiting, at, now, writes, answer, recorded, overtaken, errors>>
History == <<recorded, overtaken>>

Time == 0..(MaxClock + LockFor)
Entry == [attempts : Nat \ {0}, last : Time, until : Time \cup {None}]
ASSUME NoneAssumption == None \notin Entry

(* lost, stuck: the exception of a store went past the caller of this call; *)
(* a stuck call has the key for ever.                                       *)
Place == {"idle", "waiting", "reading", "writing", "clearing", "checking", "done", "lost", "stuck"}
Answer == {"none", "open", "locked", "cleared", "error", "thrown"}

Store(c) == StoreOf[Proc[c]]

Init ==
    /\ clock = 0
    /\ entry = [s \in Stores |-> None]
    /\ running = [p \in Procs |-> None]
    /\ waiting = [p \in Procs |-> <<>>]
    /\ at = [c \in Calls |-> "idle"]
    /\ now = [c \in Calls |-> 0]
    /\ writes = [c \in Calls |-> None]
    /\ answer = [c \in Calls |-> "none"]
    /\ recorded = [s \in Stores |-> {}]
    /\ overtaken = {}
    /\ errors = 0

-----------------------------------------------------------------------------
(* What an entry means at a time.                                           *)

Locks(e, t) == e # None /\ e.until # None /\ e.until > t

(* A lock that has lapsed, or a window that has passed, starts over.        *)
Counted(e, t) == IF e # None /\ e.until = None /\ t - e.last <= Window THEN e.attempts ELSE 0

State(e, t) == IF Locks(e, t) THEN "locked" ELSE "open"

(* Mutant: the failure at hand is not counted.                              *)
FreshUncounted(e, t) ==
    LET n == Counted(e, t) IN
    [attempts |-> n, last |-> t, until |-> IF n >= MaxAttempts THEN t + LockFor ELSE None]

Fresh(e, t) ==
    LET n == Counted(e, t) + 1 IN
    [attempts |-> n, last |-> t, until |-> IF n >= MaxAttempts THEN t + LockFor ELSE None]

(* A store with a lifetime of its own may have dropped an entry by          *)
(* expiresAt, which is `until` of a locked entry.                           *)
Expired(e) == e # None /\ (IF e.until = None THEN e.last + Window ELSE e.until) <= clock

Seen(s) == {entry[s]} \cup {None : e \in {f \in {entry[s]} : Expired(f)}}

-----------------------------------------------------------------------------
(* withKeyLock().                                                           *)

First(c) == CASE Kind[c] = "failure" -> "reading"
              [] Kind[c] = "clear" -> "clearing"
              [] Kind[c] = "check" -> "checking"

(* A free key is taken at once.                                             *)
TakeKey(c) ==
    LET p == Proc[c] IN
    /\ at[c] = "idle" /\ Kind[c] # "check" /\ running[p] = None
    /\ running' = [running EXCEPT ![p] = c]
    /\ at' = [at EXCEPT ![c] = First(c)]
    /\ now' = [now EXCEPT ![c] = clock]
    /\ UNCHANGED <<clock, entry, waiting, writes, answer, History, errors>>

(* Mutant: a busy key is not waited for.                                    *)
BargeIn(c) ==
    /\ at[c] = "idle" /\ Kind[c] # "check" /\ running[Proc[c]] # None
    /\ at' = [at EXCEPT ![c] = First(c)]
    /\ now' = [now EXCEPT ![c] = clock]
    /\ UNCHANGED <<clock, entry, running, waiting, writes, answer, History, errors>>

Enqueue(c) ==
    LET p == Proc[c] IN
    /\ at[c] = "idle" /\ Kind[c] # "check" /\ running[p] # None
    /\ waiting' = [waiting EXCEPT ![p] = Append(@, c)]
    /\ at' = [at EXCEPT ![c] = "waiting"]
    /\ UNCHANGED <<clock, entry, running, now, writes, answer, History, errors>>

(* Mutant: the store throws before it is released.                          *)
ThrowsHolding(c) ==
    /\ at[c] = "idle" /\ Kind[c] # "check" /\ running[Proc[c]] = None
    /\ errors < MaxErrors
    /\ errors' = errors + 1
    /\ running' = [running EXCEPT ![Proc[c]] = c]
    /\ at' = [at EXCEPT ![c] = "done"]
    /\ answer' = [answer EXCEPT ![c] = "thrown"]
    /\ UNCHANGED <<clock, entry, waiting, now, writes, History>>

(* A store that throws instead of calling back: the key is released and     *)
(* the caller gets the exception.                                           *)
Throws(c) ==
    /\ at[c] = "idle" /\ Kind[c] # "check" /\ running[Proc[c]] = None
    /\ errors < MaxErrors
    /\ errors' = errors + 1
    /\ at' = [at EXCEPT ![c] = "done"]
    /\ answer' = [answer EXCEPT ![c] = "thrown"]
    /\ UNCHANGED <<clock, entry, running, waiting, now, writes, History>>

(* release() and the callback after it.  The next call of the queue gets    *)
(* the key and starts at once.  The first n may find a store that throws:   *)
(* each passes the key on, and the exception, which ends in the store that  *)
(* has called back, takes the callback of c with it.                        *)
Finish(c, ans, failed) ==
    LET queue == waiting[Proc[c]] IN
    \E n \in 0..Len(queue) :
        LET lost   == IF n = 0 THEN {} ELSE {c} \cup {queue[i] : i \in 1..n}
            starts == IF n < Len(queue) THEN {queue[n + 1]} ELSE {} IN
        /\ errors' = errors + failed + n
        /\ errors' <= MaxErrors
        /\ waiting' = [waiting EXCEPT ![Proc[c]] = SubSeq(queue, n + 2, Len(queue))]
        /\ running' = [running EXCEPT ![Proc[c]] = IF starts = {} THEN None ELSE queue[n + 1]]
        /\ at' = [d \in Calls |-> IF d \in lost THEN "lost"
                                  ELSE IF d = c THEN "done"
                                  ELSE IF d \in starts THEN First(d) ELSE at[d]]
        /\ now' = [d \in Calls |-> IF d \in starts THEN clock ELSE now[d]]
        /\ answer' = IF lost = {} THEN [answer EXCEPT ![c] = ans] ELSE answer

-----------------------------------------------------------------------------
(* recordFailure().                                                         *)

(* An active lock is left alone.                                            *)
ReadLocked(c) ==
    /\ at[c] = "reading"
    /\ \E e \in Seen(Store(c)) : Locks(e, now[c])
    /\ Finish(c, "locked", 0)
    /\ UNCHANGED <<clock, entry, writes, History>>

(* Mutant: an active lock is recorded over.                                 *)
ReadOverLock(c) ==
    /\ at[c] = "reading"
    /\ \E e \in Seen(Store(c)) : writes' = [writes EXCEPT ![c] = Fresh(e, now[c])]
    /\ at' = [at EXCEPT ![c] = "writing"]
    /\ UNCHANGED <<clock, entry, running, waiting, now, answer, History, errors>>

Read(c) ==
    /\ at[c] = "reading"
    /\ \E e \in Seen(Store(c)) :
         /\ ~Locks(e, now[c])
         /\ writes' = [writes EXCEPT ![c] = Fresh(e, now[c])]
    /\ at' = [at EXCEPT ![c] = "writing"]
    /\ UNCHANGED <<clock, entry, running, waiting, now, answer, History, errors>>

(* The store throws when the entry is set: this runs in the callback of the *)
(* read, where nobody catches it to release the key.                        *)
SetThrows(c) ==
    /\ at[c] = "reading"
    /\ \E e \in Seen(Store(c)) : ~Locks(e, now[c])
    /\ errors < MaxErrors
    /\ errors' = errors + 1
    /\ at' = [at EXCEPT ![c] = "stuck"]
    /\ UNCHANGED <<clock, entry, running, waiting, now, writes, answer, History>>

(* What another process has read is stale from now on: its queue is not     *)
(* ours.                                                                    *)
Overtakes(c) ==
    overtaken' = overtaken \cup
        {d \in Calls : Store(d) = Store(c) /\ Proc[d] # Proc[c] /\ at[d] = "writing"}

Land(c) ==
    /\ entry' = [entry EXCEPT ![Store(c)] = writes[c]]
    /\ recorded' = [recorded EXCEPT ![Store(c)] = @ \cup {c}]
    /\ Overtakes(c)

Write(c) ==
    /\ at[c] = "writing"
    /\ Land(c)
    /\ Finish(c, State(writes[c], now[c]), 0)
    /\ writes' = [writes EXCEPT ![c] = None]
    /\ UNCHANGED clock

(* recordSuccess() and reset().                                             *)
Forget(c) ==
    /\ entry' = [entry EXCEPT ![Store(c)] = None]
    /\ recorded' = [recorded EXCEPT ![Store(c)] = {}]
    /\ Overtakes(c)

Clear(c) ==
    /\ at[c] = "clearing"
    /\ Forget(c)
    /\ Finish(c, "cleared", 0)
    /\ UNCHANGED <<clock, writes>>

(* Mutant: an error returns before the release.                             *)
FailsHolding(c) ==
    /\ at[c] \in {"reading", "writing", "clearing"}
    /\ errors < MaxErrors
    /\ errors' = errors + 1
    /\ at' = [at EXCEPT ![c] = "done"]
    /\ answer' = [answer EXCEPT ![c] = "error"]
    /\ UNCHANGED <<clock, entry, running, waiting, now, writes, History>>

(* A call of the store that fails, applied or not.                          *)
Fails(c) ==
    /\ at[c] \in {"reading", "writing", "clearing"}
    /\ \/ UNCHANGED <<entry, History>>
       \/ at[c] = "writing" /\ Land(c)
       \/ at[c] = "clearing" /\ Forget(c)
    /\ Finish(c, "error", 1)
    /\ writes' = [writes EXCEPT ![c] = None]
    /\ UNCHANGED clock

(* check() reads without the key.                                           *)
Check(c) ==
    /\ Kind[c] = "check"
    /\ at[c] = "idle"
    /\ at' = [at EXCEPT ![c] = "checking"]
    /\ UNCHANGED <<clock, entry, running, waiting, now, writes, answer, History, errors>>

Checked(c) ==
    /\ at[c] = "checking"
    /\ at' = [at EXCEPT ![c] = "done"]
    /\ \E e \in Seen(Store(c)) : answer' = [answer EXCEPT ![c] = State(e, clock)]
    /\ UNCHANGED <<clock, entry, running, waiting, now, writes, History, errors>>

CheckFails(c) ==
    /\ at[c] = "checking"
    /\ errors < MaxErrors
    /\ errors' = errors + 1
    /\ at' = [at EXCEPT ![c] = "done"]
    /\ answer' = [answer EXCEPT ![c] = "error"]
    /\ UNCHANGED <<clock, entry, running, waiting, now, writes, History>>

Tick ==
    /\ clock < MaxClock
    /\ clock' = clock + 1
    /\ UNCHANGED <<entry, running, waiting, at, now, writes, answer, History, errors>>

-----------------------------------------------------------------------------
Step(c) ==
    \/ ReadLocked(c) \/ Read(c) \/ SetThrows(c) \/ Write(c) \/ Clear(c) \/ Fails(c)
    \/ Checked(c) \/ CheckFails(c)

Next ==
    \/ \E c \in Calls : TakeKey(c) \/ Enqueue(c) \/ Throws(c) \/ Check(c) \/ Step(c)
    \/ Tick

Spec == Init /\ [][Next]_vars

(* The store calls back, with a result or with an error.                    *)
FairSpec == Spec /\ \A c \in Calls : WF_vars(Step(c))

-----------------------------------------------------------------------------
(* Type correctness of the engine and of the entries.                       *)
TypeOK ==
    /\ clock \in 0..MaxClock
    /\ entry \in [Stores -> Entry \cup {None}]
    /\ running \in [Procs -> Calls \cup {None}]
    /\ waiting \in [Procs -> Seq(Calls)]
    /\ at \in [Calls -> Place]
    /\ now \in [Calls -> 0..MaxClock]
    /\ writes \in [Calls -> Entry \cup {None}]
    /\ answer \in [Calls -> Answer]
    /\ recorded \in [Stores -> SUBSET Calls]
    /\ overtaken \subseteq Calls
    /\ errors \in 0..MaxErrors

(* No failure is lost and no cleared one comes back: as long as no process  *)
(* writes the entry between another's read and write, every failure since   *)
(* the last clearance counts, however many were made at once, and the       *)
(* account locks at the threshold.  Time only takes failures away.          *)
EveryFailureCounts ==
    overtaken = {} /\ errors = 0 =>
        \A s \in Stores :
            LET made == Cardinality(recorded[s]) IN
            /\ entry[s] # None => entry[s].attempts <= made
            /\ clock < Window /\ clock < LockFor =>
                 /\ made <= MaxAttempts
                 /\ made > 0 => entry[s] # None /\ entry[s].attempts = made
                 /\ made = MaxAttempts => entry[s].until # None

(* A lock that is in force is terminal: only a clearance removes it, and no *)
(* failure shortens it, but for one that another process had read before    *)
(* the account was locked.                                                  *)
LockIsTerminal ==
    [][\A s \in Stores :
         Locks(entry[s], clock) /\ entry'[s] # None /\ overtaken = {} =>
             entry'[s].until # None /\ entry'[s].until >= entry[s].until]_vars

(* Every call is answered and the queue of the key drains, also when a call *)
(* of the store fails, or throws at the start of an operation that had not  *)
(* to wait: only a store that throws in a callback hides an answer.         *)
EveryCallAnswered ==
    \A c \in Calls : at[c] # "idle" ~> at[c] = "done" \/ \E d \in Calls : at[d] \in {"lost", "stuck"}
=============================================================================
