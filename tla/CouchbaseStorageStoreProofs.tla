--------------------- MODULE CouchbaseStorageStoreProofs ---------------------
(***************************************************************************)
(* The CAS loops of the couchbase store implement the contract of the      *)
(* metadata store, for any number of calls, keys, attempts and errors.     *)
(***************************************************************************)
EXTENDS CouchbaseStorageStore, TLAPS

(* What a call that is about to write knows: its verb has something to do   *)
(* on what it read, and what it read is still there if its CAS is.          *)
Reading(c) ==
    /\ Key[c] \notin Foreign
    /\ Exists(seen[c]) => seen[c].refs \in Nat /\ seen[c].cas <= clock
    /\ Verb[c] = "releaseRef" => Exists(seen[c]) /\ seen[c].refs >= 1
    /\ Verb[c] = "removeIfZero" => Exists(seen[c]) /\ seen[c].refs = 0
    /\ Exists(seen[c]) /\ Exists(doc[Key[c]]) /\ doc[Key[c]].cas = seen[c].cas
          => doc[Key[c]] = seen[c]

ReadsInv == \A c \in Calls : stage[c] = "writing" => Reading(c)

(* No document has a CAS the cluster is still to give.                      *)
CasInv == \A k \in Keys : Exists(doc[k]) => doc[k].cas <= clock

Inv == TypeOK /\ CasInv /\ ReadsInv

-----------------------------------------------------------------------------
(* No call has read anything at first.                                      *)
LEMMA InitInv == Init => Inv
<1> SUFFICES ASSUME Init PROVE Inv
  OBVIOUS
<1> USE StoreAssumption, DocAssumption, NoneAssumption
<1>1. TypeOK
  <2>1. doc \in [Keys -> Doc \cup {None}]
    BY DEF Init, Doc
  <2>2. \A k \in Keys : Exists(doc[k]) => (doc[k].refs = 0 <=> doc[k].zeroAt # None)
    BY DEF Init, Exists
  <2>3. \A k \in Foreign : Exists(doc[k]) /\ doc[k].refs = None
    <3>1. [refs |-> None, zeroAt |-> None, cas |-> 0] \in Doc
      BY DEF Doc
    <3> QED
      BY <3>1 DEF Init, Exists
  <2> QED
    BY <2>1, <2>2, <2>3 DEF Init, TypeOK
<1>2. CasInv
  BY DEF Init, CasInv, Exists
<1>3. ReadsInv
  BY DEF Init, ReadsInv
<1> QED
  BY <1>1, <1>2, <1>3 DEF Inv

(* A write that finds what its call read leaves a document that is counted, *)
(* stamped exactly at zero, and under a CAS nobody has seen.                *)
LEMMA WritesInv ==
    ASSUME Inv, NEW c \in Calls, stage[c] = "writing", Writes(c)
    PROVE  /\ clock' = clock + 1 /\ clock' \in Nat
           /\ doc' \in [Keys -> Doc \cup {None}]
           /\ \A k \in Keys : Exists(doc[k])' => (doc[k].refs = 0 <=> doc[k].zeroAt # None)'
           /\ \A k \in Foreign : Exists(doc[k])' /\ (doc[k].refs = None)'
           /\ \A k \in Keys : doc'[k] = doc[k] \/ doc'[k] = None \/ doc'[k].cas = clock + 1
<1> USE StoreAssumption, DocAssumption, NoneAssumption
<1> DEFINE q == Key[c]
           n == NextRefs(c)
           new == [refs |-> n, zeroAt |-> IF n = 0 THEN 0 ELSE None, cas |-> clock + 1]
<1>1. q \in Keys /\ q \notin Foreign /\ clock \in Nat /\ Reading(c)
  BY DEF Inv, ReadsInv, Reading, TypeOK
<1>2. Verb[c] # "removeIfZero" => n \in Nat
  BY <1>1, Verb[c] \in Verbs DEF NextRefs, Reading, Verbs
<1>3. clock' = clock + 1 /\ doc' = [doc EXCEPT ![q] = IF Verb[c] = "removeIfZero" THEN None ELSE new]
  BY DEF Writes
<1>4. doc \in [Keys -> Doc \cup {None}]
  BY DEF Inv, TypeOK
<1>5. Verb[c] # "removeIfZero" => new \in Doc /\ (new.refs = 0 <=> new.zeroAt # None)
                                  /\ new.cas = clock + 1
  BY <1>1, <1>2 DEF Doc
<1> HIDE DEF q, n, new
<1>6. doc' \in [Keys -> Doc \cup {None}]
  BY <1>1, <1>3, <1>4, <1>5
<1>7. \A k \in Keys : k # q => doc'[k] = doc[k]
  BY <1>3, <1>4
<1>8. doc'[q] = IF Verb[c] = "removeIfZero" THEN None ELSE new
  BY <1>1, <1>3, <1>4
<1>9. \A k \in Keys : Exists(doc[k])' => (doc[k].refs = 0 <=> doc[k].zeroAt # None)'
  <2> TAKE k \in Keys
  <2>1. CASE k = q
    BY <1>5, <1>8, <2>1 DEF Exists
  <2>2. CASE k # q
    BY <1>7, <2>2 DEF Inv, TypeOK, Exists
  <2> QED
    BY <2>1, <2>2
<1>10. \A k \in Foreign : Exists(doc[k])' /\ (doc[k].refs = None)'
  BY <1>1, <1>7 DEF Inv, TypeOK, Exists
<1>11. \A k \in Keys : doc'[k] = doc[k] \/ doc'[k] = None \/ doc'[k].cas = clock + 1
  BY <1>5, <1>7, <1>8
<1> QED
  BY <1>1, <1>3, <1>6, <1>9, <1>10, <1>11

(* The reads of others survive a step that changes no document but for a    *)
(* fresh CAS.                                                               *)
LEMMA ReadsSurvive ==
    ASSUME Inv, NEW b \in Calls, stage[b] = "writing", UNCHANGED seen,
           clock' \in Nat, clock' >= clock,
           \A k \in Keys : doc'[k] = doc[k] \/ doc'[k] = None
                              \/ (doc'[k].cas = clock + 1 /\ clock' = clock + 1)
    PROVE  Reading(b)'
<1> USE StoreAssumption
<1>1. Reading(b) /\ Key[b] \in Keys /\ clock \in Nat
  BY DEF Inv, ReadsInv, TypeOK
<1>2. Exists(seen[b]) => seen[b].cas \in Nat /\ seen[b].refs \in Nat
  BY <1>1 DEF Inv, TypeOK, Doc, Exists, Reading
<1> DEFINE d == doc[Key[b]]
<1>3. CASE doc'[Key[b]] = d
  BY <1>1, <1>2, <1>3 DEF Reading, Exists
<1>4. CASE doc'[Key[b]] = None
  BY <1>1, <1>2, <1>4 DEF Reading, Exists
<1>5. CASE doc'[Key[b]].cas = clock + 1 /\ clock' = clock + 1
  <2>1. Exists(seen[b]) => doc'[Key[b]].cas # seen[b].cas
    BY <1>1, <1>2, <1>5 DEF Reading
  <2> QED
    BY <1>1, <1>2, <1>5, <2>1 DEF Reading, Exists
<1> QED
  BY <1>1, <1>3, <1>4, <1>5

(* The clock stays ahead of the documents.                                  *)
LEMMA CasSurvives ==
    ASSUME Inv, clock' \in Nat, clock' >= clock,
           \A k \in Keys : doc'[k] = doc[k] \/ doc'[k] = None
                              \/ (doc'[k].cas = clock + 1 /\ clock' = clock + 1)
    PROVE  CasInv'
<1>1. SUFFICES ASSUME NEW k \in Keys, Exists(doc[k])' PROVE (doc[k].cas <= clock)'
  BY DEF CasInv
<1>2. clock \in Nat
  BY DEF Inv, TypeOK
<1>3. CASE doc'[k] = doc[k]
  <2>1. doc[k].cas \in Nat /\ doc[k].cas <= clock
    BY <1>1, <1>3 DEF Inv, TypeOK, CasInv, Doc, Exists
  <2> QED
    BY <1>2, <1>3, <2>1
<1>4. CASE doc'[k].cas = clock + 1 /\ clock' = clock + 1
  BY <1>2, <1>4
<1> QED
  BY <1>1, <1>3, <1>4 DEF Exists

-----------------------------------------------------------------------------
(* A call is made.                                                          *)
LEMMA InvokeInv == ASSUME Inv, NEW c \in Calls, Invoke(c) PROVE Inv'
<1>1. TypeOK'
  BY DEF Inv, TypeOK, Invoke, Exists
<1>2. CasInv'
  BY DEF Inv, CasInv, Invoke, Exists
<1>3. ReadsInv'
  BY DEF Inv, ReadsInv, Reading, TypeOK, Invoke, Exists
<1> QED
  BY <1>1, <1>2, <1>3 DEF Inv

(* A call reads the document, and knows what its write needs.               *)
LEMMA ReadsStepInv == ASSUME Inv, NEW c \in Calls, Reads(c) PROVE Inv'
<1> USE StoreAssumption
<1>1. /\ UNCHANGED <<doc, clock, tries, errors>>
      /\ stage[c] = "reading" /\ Key[c] \in Keys /\ doc[Key[c]] \in Doc \cup {None}
  BY DEF Reads, Inv, TypeOK
<1>2. stage' \in [Calls -> {"idle", "reading", "writing", "served"}]
  BY DEF Reads, Settle, Inv, TypeOK
<1>3. answer' \in [Calls -> Answer \cup {None}]
  <2>1. Error \in Answer /\ Nothing \in Answer
    BY DEF Error, Nothing, Answer
  <2>2. answer \in [Calls -> Answer \cup {None}]
    BY DEF Inv, TypeOK
  <2> QED
    BY <2>1, <2>2 DEF Reads, Settle
<1>4. seen' \in [Calls -> Doc \cup {None}]
  BY <1>1 DEF Reads, Inv, TypeOK
<1>5. TypeOK'
  BY <1>1, <1>2, <1>3, <1>4 DEF Inv, TypeOK, Exists
<1>6. CasInv'
  BY <1>1 DEF Inv, CasInv, Exists
<1>7. ReadsInv'
  <2> SUFFICES ASSUME NEW b \in Calls, stage'[b] = "writing" PROVE Reading(b)'
    BY DEF ReadsInv
  <2>1. CASE b = c
    <3>1. ~Ends(c, doc[Key[c]]) /\ seen'[c] = doc[Key[c]]
      BY <2>1, <1>1 DEF Reads, Settle, Inv, TypeOK
    <3>2. Verb[c] \in Verbs
      OBVIOUS
    <3>3. Key[c] \notin Foreign
      BY <3>1, <3>2, <1>1, NoneAssumption DEF Ends, Verbs, Refcounted, Inv, TypeOK, Exists
    <3>4. Exists(doc[Key[c]]) => doc[Key[c]].refs \in Nat
      BY <3>1, <3>2, <1>1 DEF Ends, Verbs, Refcounted, Exists, Doc
    <3>5. Exists(doc[Key[c]]) => doc[Key[c]].cas <= clock
      BY <1>1 DEF Inv, CasInv
    <3>6. Verb[c] = "releaseRef" => Exists(doc[Key[c]]) /\ doc[Key[c]].refs >= 1
      BY <3>1 DEF Ends, Refcounted
    <3>7. Verb[c] = "removeIfZero" => Exists(doc[Key[c]]) /\ doc[Key[c]].refs = 0
      BY <3>1 DEF Ends, Refcounted
    <3> QED
      BY <2>1, <1>1, <3>1, <3>3, <3>4, <3>5, <3>6, <3>7 DEF Reading, Exists
  <2>2. CASE b # c
    <3>1. stage[b] = "writing" /\ seen'[b] = seen[b]
      BY <2>2 DEF Reads, Settle, Inv, TypeOK
    <3> QED
      BY <3>1, <1>1 DEF Inv, ReadsInv, Reading, Exists
  <2> QED
    BY <2>1, <2>2
<1> QED
  BY <1>5, <1>6, <1>7 DEF Inv

(* A read fails.                                                            *)
LEMMA ReadFailsInv == ASSUME Inv, NEW c \in Calls, ReadFails(c) PROVE Inv'
<1>1. TypeOK'
  BY StoreAssumption DEF Inv, TypeOK, ReadFails, Settle, Error, Answer, Exists
<1>2. CasInv'
  BY DEF Inv, CasInv, ReadFails, Exists
<1>3. ReadsInv'
  BY DEF Inv, ReadsInv, Reading, TypeOK, ReadFails, Settle, Exists
<1> QED
  BY <1>1, <1>2, <1>3 DEF Inv

(* What a call that ends its write does to the invariant, whether it wrote  *)
(* or not.                                                                  *)
LEMMA SettledInv ==
    ASSUME Inv, NEW c \in Calls, stage[c] = "writing", NEW a \in Answer, Settle(c, a),
           UNCHANGED seen, tries' \in [Calls -> Nat], errors' \in Nat,
           UNCHANGED <<doc, clock>> \/ Writes(c)
    PROVE  Inv'
<1>1. /\ clock' \in Nat /\ clock' >= clock
      /\ doc' \in [Keys -> Doc \cup {None}]
      /\ \A k \in Keys : Exists(doc[k])' => (doc[k].refs = 0 <=> doc[k].zeroAt # None)'
      /\ \A k \in Foreign : Exists(doc[k])' /\ (doc[k].refs = None)'
      /\ \A k \in Keys : doc'[k] = doc[k] \/ doc'[k] = None
                            \/ (doc'[k].cas = clock + 1 /\ clock' = clock + 1)
  <2>1. CASE UNCHANGED <<doc, clock>>
    BY <2>1 DEF Inv, TypeOK, Exists
  <2>2. CASE Writes(c)
    <3>1. clock \in Nat
      BY DEF Inv, TypeOK
    <3> QED
      BY <2>2, <3>1, WritesInv
  <2> QED
    BY <2>1, <2>2
<1>2. stage' \in [Calls -> {"idle", "reading", "writing", "served"}]
  BY DEF Settle, Inv, TypeOK
<1>3. answer' \in [Calls -> Answer \cup {None}]
  BY DEF Settle, Inv, TypeOK
<1>4. TypeOK'
  BY <1>1, <1>2, <1>3 DEF Inv, TypeOK
<1>5. CasInv'
  BY <1>1, CasSurvives
<1>6. ReadsInv'
  <2> SUFFICES ASSUME NEW b \in Calls, stage'[b] = "writing" PROVE Reading(b)'
    BY DEF ReadsInv
  <2>1. stage[b] = "writing"
    BY DEF Settle, Inv, TypeOK
  <2> QED
    BY <2>1, <1>1, ReadsSurvive
<1> QED
  BY <1>4, <1>5, <1>6 DEF Inv

(* A write goes through.                                                    *)
LEMMA MutatesInv == ASSUME Inv, NEW c \in Calls, Mutates(c) PROVE Inv'
<1> USE StoreAssumption
<1>1. Reading(c) /\ stage[c] = "writing"
  BY DEF Inv, ReadsInv, Mutates
<1>2. Done(c) \in Answer
  BY <1>1, Verb[c] \in Verbs DEF Done, Answer, NextRefs, Verbs, Reading
<1> QED
  BY <1>1, <1>2, SettledInv DEF Mutates, Inv, TypeOK

(* A write finds another CAS.                                               *)
LEMMA ConflictsInv == ASSUME Inv, NEW c \in Calls, Conflicts(c) PROVE Inv'
<1>1. stage[c] = "writing" /\ UNCHANGED <<doc, clock, seen, errors>>
  BY DEF Conflicts
<1>2. tries' \in [Calls -> Nat] /\ errors' \in Nat
  BY DEF Conflicts, Inv, TypeOK
<1>3. Nothing \in Answer /\ Error \in Answer
  BY DEF Nothing, Error, Answer
<1>4. CASE Settle(c, Nothing) \/ Settle(c, Error)
  BY <1>1, <1>2, <1>3, <1>4, SettledInv
<1>5. CASE stage' = [stage EXCEPT ![c] = "reading"] /\ UNCHANGED answer
  <2>1. TypeOK'
    BY <1>1, <1>2, <1>5 DEF Inv, TypeOK, Exists
  <2>2. CasInv'
    BY <1>1 DEF Inv, CasInv, Exists
  <2>3. ReadsInv'
    BY <1>1, <1>5 DEF Inv, ReadsInv, Reading, TypeOK, Exists
  <2> QED
    BY <2>1, <2>2, <2>3 DEF Inv
<1> QED
  BY <1>4, <1>5 DEF Conflicts

(* A write fails, and may have landed.                                      *)
LEMMA WriteFailsInv == ASSUME Inv, NEW c \in Calls, WriteFails(c) PROVE Inv'
<1>1. Error \in Answer
  BY DEF Error, Answer
<1>2. tries' \in [Calls -> Nat] /\ errors' \in Nat
  BY DEF WriteFails, Inv, TypeOK
<1> QED
  BY <1>1, <1>2, SettledInv DEF WriteFails

(* The invariant is inductive.                                              *)
LEMMA StepInv == Inv /\ [Next]_vars => Inv'
<1> SUFFICES ASSUME Inv, [Next]_vars PROVE Inv'
  OBVIOUS
<1>1. ASSUME NEW c \in Calls, Invoke(c) PROVE Inv'
  BY <1>1, InvokeInv
<1>2. ASSUME NEW c \in Calls, Step(c) PROVE Inv'
  BY <1>2, ReadsStepInv, ReadFailsInv, MutatesInv, ConflictsInv, WriteFailsInv DEF Step
<1>3. CASE UNCHANGED vars
  BY <1>3 DEF vars, Inv, TypeOK, CasInv, ReadsInv, Reading, Exists
<1> QED
  BY <1>1, <1>2, <1>3 DEF Next

(* Every document carries its stamp exactly while its count is zero, and    *)
(* another owner's document is never given a count.                         *)
THEOREM TypeCorrect == Spec => []TypeOK
<1>1. Spec => []Inv
  BY InitInv, StepInv, PTL DEF Spec
<1>2. Inv => TypeOK
  BY DEF Inv
<1> QED
  BY <1>1, <1>2, PTL

-----------------------------------------------------------------------------
(* The rows and the stages of the contract.                                 *)
rows   == [k \in Keys |-> RowOf(doc[k])]
stages == [c \in Calls |-> IF stage[c] \in {"reading", "writing"} THEN "open" ELSE stage[c]]

(* What the verbs make of a row at n references.                            *)
Counted(n, z) == [refs |-> n, zero |-> z, age |-> 0, inline |-> FALSE]

(* Each verb leaves a counted row counted.                                  *)
LEMMA CountedRows ==
    \A n \in Nat, z \in {0, None} :
        /\ Counted(n, z) \in Fields
        /\ Exists(Counted(n, z))
        /\ Contract!Refs(Counted(n, z)) = n
        /\ \A g : Acquired(Counted(n, z), g) = Counted(n + 1, None)
        /\ n > 0 => Released(Counted(n, z)) = Counted(n - 1, IF n = 1 THEN 0 ELSE None)
<1> TAKE n \in Nat, z \in {0, None}
<1> DEFINE r == Counted(n, z)
<1>1. r \in Fields
  BY DEF Counted, Fields
<1>2. Exists(r)
  BY <1>1, NoneAssumption DEF Exists
<1>3. Contract!Refs(r) = n
  BY <1>2 DEF Contract!Refs, Contract!Exists, Exists, Counted
<1>4. \A g : Acquired(r, g) = Counted(n + 1, None)
  BY <1>2 DEF Acquired, Counted
<1>5. n > 0 => Released(r) = Counted(n - 1, IF n = 1 THEN 0 ELSE None)
  BY <1>2 DEF Released, Counted
<1> QED
  BY <1>1, <1>2, <1>3, <1>4, <1>5

(* The contract's verbs are those of the row.                               *)
LEMMA SameVerbs ==
    /\ \A r : Contract!Exists(r) <=> Exists(r)
    /\ \A r, fresh : Contract!Acquired(r, fresh) = Acquired(r, fresh)
    /\ \A r : Contract!Released(r) = Released(r)
    /\ \A r : Contract!Claimable(r) <=> Claimable(r)
BY DEF Contract!Exists, Exists, Contract!Acquired, Acquired, Contract!Released, Released,
       Contract!Claimable, Claimable

(* A step that settles a call is a reply of the contract.                   *)
LEMMA SettlesReply ==
    ASSUME Inv, NEW c \in Calls, stage[c] \in {"reading", "writing"}, NEW a, Settle(c, a)
    PROVE  Contract!Reply(c, a)
<1>1. stage \in [Calls -> {"idle", "reading", "writing", "served"}]
  BY DEF Inv, TypeOK
<1>2. stages[c] = "open"
  BY DEF stages
<1>3. stages' = [stages EXCEPT ![c] = "served"]
  BY <1>1 DEF Settle, stages
<1> QED
  BY <1>2, <1>3 DEF Contract!Reply, Settle, stages

(* A step that leaves the documents alone leaves the rows alone.            *)
LEMMA RowsStay == UNCHANGED doc => UNCHANGED rows
BY DEF rows, RowOf, Refcounted, Exists

(* The call takes effect on the row when its write finds what it read.      *)
LEMMA WritesTake ==
    ASSUME Inv, NEW c \in Calls, stage[c] = "writing", Matches(c), Writes(c)
    PROVE  /\ Contract!Takes(c)
           /\ Done(c) = Contract!Result(c, rows[Key[c]])
<1> USE StoreAssumption, NoneAssumption, DocAssumption
<1> DEFINE q == Key[c]
           d == doc[q]
           n == NextRefs(c)
<1>1. q \in Keys /\ Verb[c] \in Verbs /\ Reading(c) /\ clock \in Nat
  BY DEF Inv, ReadsInv, TypeOK
<1>2. doc \in [Keys -> Doc \cup {None}] /\ d \in Doc \cup {None}
  BY <1>1 DEF Inv, TypeOK
<1>3. d = seen[c]
  BY <1>1 DEF Matches, Reading, Exists
<1>4. Exists(d) => d.refs \in Nat /\ (d.refs = 0 <=> d.zeroAt # None) /\ d.zeroAt \in {0, None}
  BY <1>1, <1>2, <1>3 DEF Inv, TypeOK, Reading, Doc, Exists
<1>5. RowOf(d) = IF Exists(d) THEN Counted(d.refs, d.zeroAt) ELSE None
  BY <1>4 DEF RowOf, Refcounted, Counted
<1>6. Exists(d) <=> Exists(RowOf(d))
  BY <1>4, <1>5, CountedRows DEF Exists
<1>7. rows' = [rows EXCEPT ![q] = RowOf(doc'[q])]
  <2>1. \A k \in Keys : k # q => doc'[k] = doc[k]
    BY <1>2 DEF Writes
  <2> QED
    BY <2>1, <1>1 DEF rows
<1>8. doc'[q] = IF Verb[c] = "removeIfZero" THEN None
                ELSE [refs |-> n, zeroAt |-> IF n = 0 THEN 0 ELSE None, cas |-> clock + 1]
  BY <1>1, <1>2 DEF Writes
<1>9. rows[q] = RowOf(d)
  BY <1>1 DEF rows
<1>10. CASE Verb[c] = "acquireRef"
  <2>1. n = (IF Exists(d) THEN d.refs ELSE 0) + 1 /\ n \in Nat /\ n # 0
    BY <1>3, <1>4, <1>10 DEF NextRefs
  <2>2. RowOf(doc'[q]) = Counted(n, None)
    <3>1. doc'[q] = [refs |-> n, zeroAt |-> None, cas |-> clock + 1]
      BY <1>8, <1>10, <2>1
    <3>2. doc'[q] \in Doc
      BY <1>1, <2>1, <3>1 DEF Doc
    <3> QED
      BY <2>1, <3>1, <3>2 DEF RowOf, Refcounted, Exists, Counted
  <2>3. Acquired(RowOf(d), Contract!NewRow) = Counted(n, None)
    <3>1. CASE Exists(d)
      <4>1. n = d.refs + 1
        BY <2>1, <3>1
      <4> HIDE DEF n
      <4> QED
        BY <1>4, <1>5, <3>1, <4>1, CountedRows
    <3>2. CASE ~Exists(d)
      <4>1. n = 1
        BY <2>1, <3>2
      <4> QED
        BY <1>6, <3>2, <4>1 DEF Acquired, Contract!NewRow, Counted
    <3> QED
      BY <3>1, <3>2
  <2>4. Contract!After(c, RowOf(d)) = RowOf(doc'[q])
    BY SameVerbs, <1>10, <2>2, <2>3 DEF Contract!After
  <2>5. Contract!Refs(RowOf(doc'[q])) = n
    BY <2>1, <2>2, CountedRows
  <2>6. Done(c) = Contract!Result(c, RowOf(d))
    BY SameVerbs, <1>3, <1>6, <1>10, <2>4, <2>5 DEF Done, Contract!Result, Contract!Does
  <2> QED
    BY <1>7, <1>9, <2>4, <2>6 DEF Contract!Takes, rows
<1>11. CASE Verb[c] = "releaseRef"
  <2>1. Exists(d) /\ d.refs >= 1 /\ n = d.refs - 1 /\ n \in Nat
    BY <1>1, <1>3, <1>4, <1>11 DEF NextRefs, Reading
  <2> DEFINE z == IF n = 0 THEN 0 ELSE None
  <2>2. RowOf(doc'[q]) = Counted(n, z)
    <3>1. doc'[q] = [refs |-> n, zeroAt |-> z, cas |-> clock + 1]
      BY <1>8, <1>11, <2>1
    <3>2. doc'[q] \in Doc
      BY <1>1, <2>1, <3>1 DEF Doc
    <3> QED
      BY <2>1, <3>1, <3>2 DEF RowOf, Refcounted, Exists, Counted
  <2>3. Released(RowOf(d)) = Counted(n, z)
    <3>1. (d.refs = 1 <=> n = 0) /\ n = d.refs - 1 /\ d.refs > 0 /\ d.refs \in Nat
      BY <1>4, <2>1
    <3>2. RowOf(d) = Counted(d.refs, d.zeroAt) /\ d.zeroAt \in {0, None}
      BY <1>4, <1>5, <2>1
    <3> HIDE DEF d, n
    <3> QED
      BY <3>1, <3>2, CountedRows
  <2>4. Contract!After(c, RowOf(d)) = RowOf(doc'[q])
    BY SameVerbs, <1>11, <2>2, <2>3 DEF Contract!After
  <2>5. Contract!Refs(RowOf(doc'[q])) = n
    BY <2>1, <2>2, CountedRows
  <2>6. Contract!Does(c, RowOf(d)) = TRUE
    <3>1. RowOf(d).refs > 0
      BY <1>4, <1>5, <2>1 DEF Counted
    <3> QED
      BY SameVerbs, <1>6, <1>11, <2>1, <3>1 DEF Contract!Does
  <2>7. Done(c) = Contract!Result(c, RowOf(d))
    BY <1>11, <2>4, <2>5, <2>6 DEF Done, Contract!Result
  <2> QED
    BY <1>7, <1>9, <2>4, <2>7 DEF Contract!Takes, rows
<1>12. CASE Verb[c] = "removeIfZero"
  <2>1. Exists(d) /\ d.refs = 0
    BY <1>1, <1>3, <1>12 DEF Reading
  <2>2. Claimable(RowOf(d))
    BY <1>5, <1>6, <2>1 DEF Claimable, Counted
  <2>3. RowOf(doc'[q]) = None
    BY <1>8, <1>12 DEF RowOf, Refcounted, Exists
  <2>4. Contract!After(c, RowOf(d)) = RowOf(doc'[q])
    BY SameVerbs, <1>12, <2>2, <2>3 DEF Contract!After
  <2>5. Contract!Refs(RowOf(doc'[q])) = 0
    BY SameVerbs, <2>3 DEF Contract!Refs, Exists
  <2>6. Contract!Does(c, RowOf(d)) = TRUE
    BY SameVerbs, <1>12, <2>2 DEF Contract!Does
  <2>7. Done(c) = Contract!Result(c, RowOf(d))
    BY <1>12, <2>4, <2>5, <2>6 DEF Done, Contract!Result
  <2> QED
    BY <1>7, <1>9, <2>4, <2>7 DEF Contract!Takes, rows
<1> QED
  BY <1>1, <1>10, <1>11, <1>12 DEF Verbs

-----------------------------------------------------------------------------
(* A read with nothing to do is served at once, or refused.                 *)
LEMMA ReadsImplements ==
    ASSUME Inv, NEW c \in Calls, Reads(c) PROVE [Contract!Next]_(Contract!vars)
<1> USE StoreAssumption
<1> DEFINE d == doc[Key[c]]
<1>1. Key[c] \in Keys /\ Verb[c] \in Verbs /\ d \in Doc \cup {None} /\ UNCHANGED doc
  BY DEF Inv, TypeOK, Reads
<1>2. UNCHANGED rows
  BY <1>1, RowsStay
<1>3. CASE Ends(c, d) /\ Verb[c] = "acquireRef"
  <2>1. Settle(c, Error)
    BY <1>3 DEF Reads
  <2>2. Contract!Reply(c, Error)
    BY <2>1, SettlesReply DEF Reads
  <2>3. Contract!Fail(c)
    BY <1>2, <2>2 DEF Contract!Fail, Contract!Error, Error, rows
  <2> QED
    BY <2>3 DEF Contract!Next
<1>4. CASE Ends(c, d) /\ Verb[c] = "removeIfZero"
  <2>1. Settle(c, Nothing)
    BY <1>4 DEF Reads
  <2>2. Contract!Reply(c, Nothing)
    BY <2>1, SettlesReply DEF Reads
  <2>3. Contract!Decline(c)
    BY <1>2, <1>4, <2>2 DEF Contract!Decline, Contract!Idle, Nothing, rows
  <2> QED
    BY <2>3 DEF Contract!Next
<1>5. CASE Ends(c, d) /\ Verb[c] = "releaseRef"
  <2>1. Settle(c, Nothing)
    BY <1>5 DEF Reads
  <2>2. Contract!Reply(c, Nothing)
    BY <2>1, SettlesReply DEF Reads
  <2> DEFINE r == rows[Key[c]]
  <2>3. r = RowOf(d)
    BY <1>1 DEF rows
  <2>4. ~(Exists(r) /\ r.refs > 0) /\ Contract!Refs(r) = 0
    <3>1. CASE ~Refcounted(d)
      BY SameVerbs, <2>3, <3>1 DEF RowOf, Exists, Contract!Refs
    <3>2. CASE Refcounted(d)
      <4>1. d.refs \in Nat /\ ~(d.refs >= 1)
        BY <1>1, <1>5, <3>2 DEF Ends, Refcounted, Doc, Exists
      <4>2. r.refs = 0
        BY <2>3, <3>2, <4>1 DEF RowOf
      <4> QED
        BY SameVerbs, <4>2 DEF Contract!Refs
    <3> QED
      BY <3>1, <3>2
  <2>5. Contract!After(c, r) = r
    BY SameVerbs, <1>5, <2>4 DEF Contract!After, Released
  <2>6. Contract!Does(c, r) = FALSE
    BY SameVerbs, <1>5, <2>4 DEF Contract!Does
  <2>7. Contract!Result(c, r) = Nothing
    BY <2>4, <2>5, <2>6 DEF Contract!Result, Nothing
  <2>8. Contract!Takes(c)
    BY <1>1, <1>2, <2>5 DEF Contract!Takes, rows
  <2>9. Contract!Serve(c)
    BY <2>2, <2>7, <2>8 DEF Contract!Serve, Contract!Reply, rows
  <2> QED
    BY <2>9 DEF Contract!Next
<1>6. CASE ~Ends(c, d)
  <2>1. UNCHANGED answer /\ stage' = [stage EXCEPT ![c] = "writing"]
    BY <1>6 DEF Reads
  <2>2. UNCHANGED stages
    BY <2>1 DEF stages, Reads, Inv, TypeOK
  <2> QED
    BY <1>2, <2>1, <2>2 DEF Contract!vars, rows, stages
<1> QED
  BY <1>1, <1>3, <1>4, <1>5, <1>6 DEF Verbs

(* Every step of the CAS loops is a step of the contract, or none.          *)
LEMMA StepImplements == Inv /\ [Next]_vars => [Contract!Next]_(Contract!vars)
<1> SUFFICES ASSUME Inv, [Next]_vars PROVE [Contract!Next]_(Contract!vars)
  OBVIOUS
<1>1. ASSUME NEW c \in Calls, Invoke(c) PROVE [Contract!Next]_(Contract!vars)
  <2>1. UNCHANGED rows /\ UNCHANGED answer
    BY <1>1, RowsStay DEF Invoke
  <2>2. stages[c] = "idle" /\ stages' = [stages EXCEPT ![c] = "open"]
    BY <1>1 DEF Invoke, stages, Inv, TypeOK
  <2>3. Contract!Invoke(c)
    BY <2>1, <2>2 DEF Contract!Invoke, rows, stages
  <2> QED
    BY <2>3 DEF Contract!Next
<1>2. ASSUME NEW c \in Calls, Reads(c) PROVE [Contract!Next]_(Contract!vars)
  BY <1>2, ReadsImplements
<1>3. ASSUME NEW c \in Calls, ReadFails(c) PROVE [Contract!Next]_(Contract!vars)
  <2>1. UNCHANGED rows
    BY <1>3, RowsStay DEF ReadFails
  <2>2. Contract!Reply(c, Error)
    BY <1>3, SettlesReply DEF ReadFails
  <2>3. Contract!Fail(c)
    BY <2>1, <2>2 DEF Contract!Fail, Contract!Error, Error, rows
  <2> QED
    BY <2>3 DEF Contract!Next
<1>4. ASSUME NEW c \in Calls, Mutates(c) PROVE [Contract!Next]_(Contract!vars)
  <2>1. Contract!Reply(c, Done(c))
    <3>1. PICK a : a = Done(c)
      OBVIOUS
    <3>2. Settle(c, a)
      BY <1>4, <3>1 DEF Mutates, Settle
    <3>3. stage[c] \in {"reading", "writing"}
      BY <1>4 DEF Mutates
    <3>4. Contract!Reply(c, a)
      BY <3>2, <3>3, SettlesReply DEF Settle, Contract!Reply
    <3> QED
      BY <3>1, <3>4 DEF Contract!Reply
  <2>2. Contract!Takes(c) /\ Done(c) = Contract!Result(c, rows[Key[c]])
    BY <1>4, WritesTake DEF Mutates
  <2>3. rows[Key[c]] = RowOf(doc[Key[c]]) /\ Key[c] \in Keys
    BY StoreAssumption DEF rows
  <2>4. Contract!Serve(c)
    BY <2>1, <2>2, <2>3 DEF Contract!Serve, Contract!Reply, rows
  <2> QED
    BY <2>4 DEF Contract!Next
<1>5. ASSUME NEW c \in Calls, Conflicts(c) PROVE [Contract!Next]_(Contract!vars)
  <2>1. UNCHANGED rows
    BY <1>5, RowsStay DEF Conflicts
  <2>2. CASE Verb[c] = "removeIfZero"
    <3>1. Contract!Reply(c, Nothing)
      BY <1>5, <2>2, SettlesReply DEF Conflicts
    <3>2. Contract!Decline(c)
      BY <2>1, <2>2, <3>1 DEF Contract!Decline, Contract!Idle, Nothing, rows
    <3> QED
      BY <3>2 DEF Contract!Next
  <2>3. CASE Settle(c, Error)
    <3>1. Contract!Reply(c, Error)
      BY <1>5, <2>3, SettlesReply DEF Conflicts
    <3>2. Contract!Fail(c)
      BY <2>1, <3>1 DEF Contract!Fail, Contract!Error, Error, rows
    <3> QED
      BY <3>2 DEF Contract!Next
  <2>4. CASE stage' = [stage EXCEPT ![c] = "reading"] /\ UNCHANGED answer
    <3>1. UNCHANGED stages
      BY <1>5, <2>4 DEF Conflicts, stages, Inv, TypeOK
    <3> QED
      BY <2>1, <2>4, <3>1 DEF Contract!vars, rows, stages
  <2> QED
    BY <1>5, <2>2, <2>3, <2>4 DEF Conflicts
<1>6. ASSUME NEW c \in Calls, WriteFails(c) PROVE [Contract!Next]_(Contract!vars)
  <2>1. Contract!Reply(c, Error)
    BY <1>6, SettlesReply DEF WriteFails
  <2>2. UNCHANGED rows \/ Contract!Takes(c)
    BY <1>6, RowsStay, WritesTake DEF WriteFails
  <2>3. Contract!Fail(c)
    BY <2>1, <2>2 DEF Contract!Fail, Contract!Error, Error, rows
  <2> QED
    BY <2>3 DEF Contract!Next
<1>7. CASE UNCHANGED vars
  BY <1>7, RowsStay DEF vars, Contract!vars, rows
<1> QED
  BY <1>1, <1>2, <1>3, <1>4, <1>5, <1>6, <1>7 DEF Next, Step

(* The contract starts with no rows and no calls too.                       *)
LEMMA InitImplements == Init => Contract!Init
<1> SUFFICES ASSUME Init PROVE Contract!Init
  OBVIOUS
<1>1. \A k \in Keys : RowOf(doc[k]) = None
  BY DEF Init, RowOf, Refcounted, Exists
<1> QED
  BY <1>1 DEF Init, Contract!Init

(* The couchbase store implements the contract: whatever the interleaving   *)
(* of the CAS loops, the answers and the rows are those of calls that took  *)
(* effect one at a time.                                                    *)
THEOREM ContractImplemented == Spec => Implements
<1>1. Spec => []Inv
  BY InitInv, StepInv, PTL DEF Spec
<1> QED
  BY <1>1, InitImplements, StepImplements, PTL DEF Spec, Implements, Contract!Spec
=============================================================================
