------------------------------ MODULE MetaStore ------------------------------
(***************************************************************************)
(* What the StorageMetaStore contract (lib/storage/src/meta-store.js) asks *)
(* of acquireRef, releaseRef and removeIfZero: a call takes effect on the  *)
(* row of its key in one step, between the moment it is made and the       *)
(* moment it is answered.  StorageCas relies on this; a connector store    *)
(* has to provide it.                                                      *)
(***************************************************************************)
EXTENDS RefRow

CONSTANTS
    Calls,  \* the calls made
    Keys,   \* the blob keys
    Verb,   \* which verb each call is of
    Key     \* the key it is about

VARIABLES
    row,    \* the rows
    stage,  \* where each call is
    answer  \* what it was answered

vars == <<row, stage, answer>>

(* ok: no error; did: created, existed, or removed; refs: the new count.    *)
Error  == [ok |-> FALSE, did |-> FALSE, refs |-> 0]
Idle   == [ok |-> TRUE, did |-> FALSE, refs |-> 0]   \* nothing found, nothing done

NewRow == [refs |-> 1, zero |-> None, age |-> 0, inline |-> FALSE]

Init ==
    /\ row = [k \in Keys |-> None]
    /\ stage = [c \in Calls |-> "idle"]
    /\ answer = [c \in Calls |-> None]

(* The row a call leaves where it finds r.                                  *)
After(c, r) ==
    CASE Verb[c] = "acquireRef"   -> Acquired(r, NewRow)
      [] Verb[c] = "releaseRef"   -> Released(r)
      [] Verb[c] = "removeIfZero" -> IF Claimable(r) THEN None ELSE r

(* Whether it creates, decrements or removes that row.                      *)
Does(c, r) ==
    CASE Verb[c] = "acquireRef"   -> ~Exists(r)
      [] Verb[c] = "releaseRef"   -> Exists(r) /\ r.refs > 0
      [] Verb[c] = "removeIfZero" -> Claimable(r)

Refs(r) == IF Exists(r) THEN r.refs ELSE 0

Result(c, r) == [ok |-> TRUE, did |-> Does(c, r), refs |-> Refs(After(c, r))]

Invoke(c) ==
    /\ stage[c] = "idle"
    /\ stage' = [stage EXCEPT ![c] = "open"]
    /\ UNCHANGED <<row, answer>>

Reply(c, a) ==
    /\ stage[c] = "open"
    /\ stage' = [stage EXCEPT ![c] = "served"]
    /\ answer' = [answer EXCEPT ![c] = a]

Takes(c) == row' = [row EXCEPT ![Key[c]] = After(c, @)]

Serve(c) == Reply(c, Result(c, row[Key[c]])) /\ Takes(c)

(* A claim may lose to a revival that was itself undone: the row is at zero *)
(* again, and the claim still answers that it removed nothing.              *)
Decline(c) ==
    /\ Verb[c] = "removeIfZero"
    /\ Reply(c, Idle)
    /\ UNCHANGED row

(* An error says nothing of whether the call took effect.                   *)
Fail(c) == Reply(c, Error) /\ (UNCHANGED row \/ Takes(c))

Next == \E c \in Calls : Invoke(c) \/ Serve(c) \/ Decline(c) \/ Fail(c)

Spec == Init /\ [][Next]_vars

=============================================================================
