------------------------ MODULE CouchbaseStorageStore ------------------------
(***************************************************************************)
(* The refcount verbs of the couchbase metadata store                      *)
(* (core/connectors/couchbase/lib/storage-store.js).  Each one reads the   *)
(* document, decides, and writes under the CAS of what it read; a write    *)
(* that finds another CAS starts over, MAX_CAS_ATTEMPTS times.             *)
(***************************************************************************)
EXTENDS RefRow, FiniteSets

CONSTANTS
    Calls, Keys, Verb, Key,  \* as in MetaStore
    Foreign,                 \* keys whose document carries no refs
    MAX_CAS_ATTEMPTS,
    MaxErrors                \* bound on the errors of the cluster

Verbs == {"acquireRef", "releaseRef", "removeIfZero"}

ASSUME StoreAssumption ==
    /\ Verb \in [Calls -> Verbs]
    /\ Key \in [Calls -> Keys]
    /\ Foreign \subseteq Keys
    /\ MAX_CAS_ATTEMPTS \in Nat \ {0}
    /\ MaxErrors \in Nat

VARIABLES
    doc,     \* the documents: None, or their refs, stamp and CAS
    clock,   \* the last CAS the cluster gave
    stage,   \* where each call is
    answer,  \* what it was answered
    seen,    \* the document it read
    tries,   \* the attempt it is in
    errors

vars == <<doc, clock, stage, answer, seen, tries, errors>>

Doc == [refs : Nat \cup {None}, zeroAt : {0, None}, cas : Nat]

ASSUME DocAssumption == None \notin Doc

Answer == [ok : BOOLEAN, did : BOOLEAN, refs : Nat]
Error  == [ok |-> FALSE, did |-> FALSE, refs |-> 0]
Nothing == [ok |-> TRUE, did |-> FALSE, refs |-> 0]

Init ==
    /\ doc = [k \in Keys |-> IF k \in Foreign THEN [refs |-> None, zeroAt |-> None, cas |-> 0]
                             ELSE None]
    /\ clock = 0
    /\ stage = [c \in Calls |-> "idle"]
    /\ answer = [c \in Calls |-> None]
    /\ seen = [c \in Calls |-> None]
    /\ tries = [c \in Calls |-> 0]
    /\ errors = 0

Refcounted(d) == Exists(d) /\ d.refs # None

Settle(c, a) ==
    /\ stage' = [stage EXCEPT ![c] = "served"]
    /\ answer' = [answer EXCEPT ![c] = a]

Invoke(c) ==
    /\ stage[c] = "idle"
    /\ stage' = [stage EXCEPT ![c] = "reading"]
    /\ UNCHANGED <<doc, clock, answer, seen, tries, errors>>

(* What a verb has nothing to do on: acquireRef refuses a document that is  *)
(* another owner's, releaseRef finds no reference to drop, removeIfZero no  *)
(* row at zero.                                                             *)
Ends(c, d) ==
    CASE Verb[c] = "acquireRef"   -> Exists(d) /\ d.refs = None
      [] Verb[c] = "releaseRef"   -> ~(Refcounted(d) /\ d.refs >= 1)
      [] Verb[c] = "removeIfZero" -> ~(Refcounted(d) /\ d.refs = 0)

Reads(c) ==
    LET d == doc[Key[c]] IN
    /\ stage[c] = "reading"
    /\ IF Ends(c, d)
       THEN /\ Settle(c, IF Verb[c] = "acquireRef" THEN Error ELSE Nothing)
            /\ UNCHANGED seen
       ELSE /\ stage' = [stage EXCEPT ![c] = "writing"]
            /\ seen' = [seen EXCEPT ![c] = d]
            /\ UNCHANGED answer
    /\ UNCHANGED <<doc, clock, tries, errors>>

(* An error other than "no such document".                                  *)
ReadFails(c) ==
    /\ stage[c] = "reading"
    /\ errors < MaxErrors
    /\ errors' = errors + 1
    /\ Settle(c, Error)
    /\ UNCHANGED <<doc, clock, seen, tries>>

(* Mutant: the mutation is sent without the CAS.                            *)
MatchesAny(c) == Exists(doc[Key[c]]) = Exists(seen[c])

(* The write finds what the read saw: insert wants no document, mutateIn    *)
(* and remove the CAS of the one that was read.                             *)
Matches(c) ==
    LET d == doc[Key[c]] IN
    IF Exists(seen[c]) THEN Exists(d) /\ d.cas = seen[c].cas ELSE ~Exists(d)

(* The count a mutation writes, computed from the document that was read.   *)
NextRefs(c) ==
    LET n == IF Exists(seen[c]) THEN seen[c].refs ELSE 0 IN
    IF Verb[c] = "acquireRef" THEN n + 1 ELSE n - 1

Writes(c) ==
    LET n == NextRefs(c) IN
    /\ clock' = clock + 1
    /\ doc' = [doc EXCEPT ![Key[c]] =
           IF Verb[c] = "removeIfZero" THEN None
           ELSE [refs |-> n, zeroAt |-> IF n = 0 THEN 0 ELSE None, cas |-> clock + 1]]

Done(c) ==
    [ok   |-> TRUE,
     did  |-> Verb[c] = "acquireRef" => ~Exists(seen[c]),
     refs |-> IF Verb[c] = "removeIfZero" THEN 0 ELSE NextRefs(c)]

Mutates(c) ==
    /\ stage[c] = "writing"
    /\ Matches(c)
    /\ Writes(c)
    /\ Settle(c, Done(c))
    /\ UNCHANGED <<seen, tries, errors>>

(* Mutant: the retry writes again under the CAS it already holds.           *)
ConflictsKeepingCas(c) ==
    /\ stage[c] = "writing"
    /\ ~Matches(c)
    /\ UNCHANGED <<doc, clock, stage, answer, seen, tries, errors>>

(* Another writer was first.  A claim gives up, the others start over until *)
(* their attempts are spent.                                                *)
Conflicts(c) ==
    /\ stage[c] = "writing"
    /\ ~Matches(c)
    /\ IF Verb[c] = "removeIfZero"
       THEN Settle(c, Nothing) /\ UNCHANGED tries
       ELSE /\ tries' = [tries EXCEPT ![c] = @ + 1]
            /\ IF tries[c] + 1 >= MAX_CAS_ATTEMPTS
               THEN Settle(c, Error)
               ELSE stage' = [stage EXCEPT ![c] = "reading"] /\ UNCHANGED answer
    /\ UNCHANGED <<doc, clock, seen, errors>>

(* A timeout, or a durability level that was not reached: the write may     *)
(* have landed.                                                             *)
WriteFails(c) ==
    /\ stage[c] = "writing"
    /\ errors < MaxErrors
    /\ errors' = errors + 1
    /\ Settle(c, Error)
    /\ \/ UNCHANGED <<doc, clock>>
       \/ Matches(c) /\ Writes(c)
    /\ UNCHANGED <<seen, tries>>

Step(c) == Reads(c) \/ ReadFails(c) \/ Mutates(c) \/ Conflicts(c) \/ WriteFails(c)

Next == \E c \in Calls : Invoke(c) \/ Step(c)

Spec == Init /\ [][Next]_vars

(* The cluster answers what it is asked, and a backoff ends.                *)
FairSpec == Spec /\ \A c \in Calls : WF_vars(Step(c))

-----------------------------------------------------------------------------
(* The documents as the rows of the contract.                               *)
RowOf(d) ==
    IF Refcounted(d) THEN [refs |-> d.refs, zero |-> d.zeroAt, age |-> 0, inline |-> FALSE]
    ELSE None

Contract == INSTANCE MetaStore WITH
    row   <- [k \in Keys |-> RowOf(doc[k])],
    stage <- [c \in Calls |-> IF stage[c] \in {"reading", "writing"} THEN "open" ELSE stage[c]]

(* The CAS loops are atomic calls: the verbs that run between the read and  *)
(* the write of another never make it lose or invent a reference, and each  *)
(* answer is that of the row the call took effect on.                       *)
Implements == Contract!Spec

(* The stamp is there exactly while the count is zero, in every document a  *)
(* reader can see, and another owner's document gets neither.               *)
TypeOK ==
    /\ doc \in [Keys -> Doc \cup {None}]
    /\ \A k \in Keys : Exists(doc[k]) => (doc[k].refs = 0 <=> doc[k].zeroAt # None)
    /\ \A k \in Foreign : Exists(doc[k]) /\ doc[k].refs = None
    /\ clock \in Nat
    /\ stage \in [Calls -> {"idle", "reading", "writing", "served"}]
    /\ answer \in [Calls -> Answer \cup {None}]
    /\ seen \in [Calls -> Doc \cup {None}]
    /\ tries \in [Calls -> Nat]
    /\ errors \in Nat

(* Every call is answered, however many others it runs into.                *)
EveryCallAnswered == \A c \in Calls : stage[c] = "reading" ~> stage[c] = "served"
=============================================================================
