-------------------------- MODULE StorageCasProofs --------------------------
(***************************************************************************)
(* Theorems about StorageCas, for any number of processes, puts, contents  *)
(* and failures: the count of a blob covers its holders and, without       *)
(* faults, equals them; bytes are only lost in the window between a        *)
(* sweep's claim and its unlink, which the embedded store does not have;   *)
(* with that store every file is accounted for and no blob is collected    *)
(* before its grace period; and verify() raises no alarm without a cause.  *)
(***************************************************************************)
EXTENDS StorageCas, FiniteSetTheorems, TLAPS

Count(r) == IF Exists(r) THEN r.refs ELSE 0

(* Contents below inlineThreshold are in their rows, the others in files.   *)
Kinds == \A u \in Puts : Exists(row[Content[u]]) => row[Content[u]].inline = (u \in Inline)

Inv == TypeOK /\ RefsCoverHolders /\ Kinds

-----------------------------------------------------------------------------
(* What the verbs do to the count, and that they keep the stamp.            *)
LEMMA VerbFacts ==
    \A r \in Row \cup {None} :
        /\ Count(r) \in Nat
        /\ Claimable(r) => Count(r) = 0
        /\ Released(r) \in Row \cup {None}
        /\ Count(r) > 0 => Count(Released(r)) = Count(r) - 1
        /\ Exists(Released(r)) <=> Exists(r)
        /\ Exists(r) => Released(r).inline = r.inline
        /\ \A f \in Row : f.refs = 1 => /\ Acquired(r, f) \in Row
                                        /\ Count(Acquired(r, f)) = Count(r) + 1
                                        /\ Acquired(r, f).inline = IF Exists(r) THEN r.inline ELSE f.inline
<1> TAKE r \in Row \cup {None}
<1> USE NoneAssumption
<1>1. None \notin Row
  BY DEF Row
<1>2. Exists(r) <=> r \in Row
  BY <1>1 DEF Exists
<1>3. Exists(r) => /\ r \in Fields /\ r.refs \in Nat /\ (r.refs = 0 <=> r.zero # None)
  BY <1>2 DEF Row, Fields
<1>4. Count(r) \in Nat
  BY <1>3 DEF Count
<1>5. Claimable(r) => Count(r) = 0
  BY DEF Claimable, Count
<1>6. CASE ~Exists(r)
  <2>1. Released(r) = r /\ Count(r) = 0
    BY <1>6 DEF Released, Count
  <2>2. \A f \in Row : Acquired(r, f) = f /\ Exists(f)
    BY <1>1, <1>6 DEF Acquired, Exists
  <2> QED
    BY <1>4, <1>5, <1>6, <2>1, <2>2 DEF Count
<1>7. CASE Exists(r)
  <2> DEFINE z == IF r.refs = 1 THEN 0 ELSE None
             d == [r EXCEPT !.refs = @ - 1, !.zero = z]
             a == [r EXCEPT !.refs = @ + 1, !.zero = None]
  <2>0. r \in Fields /\ r.refs \in Nat /\ z \in Nat \cup {None}
    BY <1>3, <1>7
  <2>1. ASSUME r.refs > 0
        PROVE  d \in Fields /\ d.refs = r.refs - 1 /\ d.zero = z /\ d.inline = r.inline
    <3>1. r.refs - 1 \in Nat
      BY <2>0, <2>1
    <3> HIDE DEF z
    <3> QED
      BY <2>0, <3>1 DEF Fields
  <2>2. ASSUME r.refs > 0 PROVE d \in Row
    <3>1. d.refs = 0 <=> d.zero # None
      <4>1. (r.refs - 1 = 0 <=> r.refs = 1) /\ (z # None <=> r.refs = 1)
        BY <2>0, <2>2
      <4> HIDE DEF z, d
      <4> QED
        BY <2>1, <2>2, <4>1
    <3> HIDE DEF d
    <3> QED
      BY <2>1, <2>2, <3>1 DEF Row
  <2>3. Released(r) = IF r.refs > 0 THEN d ELSE r
    BY <1>7 DEF Released
  <2>4. Count(r) = r.refs
    BY <1>7 DEF Count
  <2>5. /\ Released(r) \in Row
        /\ Count(r) > 0 => Count(Released(r)) = Count(r) - 1
        /\ Released(r).inline = r.inline
    <3> HIDE DEF d
    <3> QED
      BY <1>1, <1>2, <1>7, <2>1, <2>2, <2>3, <2>4 DEF Count, Exists
  <2>6. Exists(Released(r))
    BY <1>1, <2>5 DEF Exists
  <2>7. a \in Fields /\ a.refs = r.refs + 1 /\ a.zero = None /\ a.inline = r.inline
    <3>1. r.refs + 1 \in Nat /\ None \in Nat \cup {None}
      BY <2>0
    <3>2. r \in Fields
      BY <2>0
    <3> QED
      BY <3>1, <3>2 DEF Fields
  <2>8. a \in Row
    <3>1. a.refs # 0
      BY <2>0, <2>7
    <3> HIDE DEF a
    <3> QED
      BY <2>7, <3>1 DEF Row
  <2>9. \A f : Acquired(r, f) = a
    BY <1>7 DEF Acquired
  <2>10. Count(a) = r.refs + 1
    <3> HIDE DEF a
    <3> QED
      BY <1>1, <2>7, <2>8 DEF Count, Exists
  <2> QED
    <3> HIDE DEF a, d
    <3> QED
      BY <1>4, <1>5, <1>7, <2>4, <2>5, <2>6, <2>7, <2>8, <2>9, <2>10
<1> QED
  BY <1>6, <1>7

(* The row a first put inserts.                                             *)
LEMMA FreshRow ==
    ASSUME TypeOK, NEW u \in Puts
    PROVE  Fresh(u) \in Row /\ Fresh(u).refs = 1 /\ Fresh(u).inline = (u \in Inline)
BY NoneAssumption DEF TypeOK, Fresh, Row, Fields

(* Ages stay ages, and what has none keeps none.                            *)
LEMMA LaterType == \A t \in Nat \cup {None} : /\ Later(t) \in Nat \cup {None}
                                              /\ Later(t) = None <=> t = None
BY NoneAssumption, CasAssumption DEF Later

(* A row grows older and stays the same otherwise.                          *)
LEMMA OlderRow ==
    ASSUME NEW r \in Row
    PROVE  LET o == [r EXCEPT !.zero = Later(@), !.age = Later(@)] IN
           /\ o \in Row /\ o.refs = r.refs /\ o.inline = r.inline
<1> DEFINE o == [r EXCEPT !.zero = Later(@), !.age = Later(@)]
<1>1. r \in Fields /\ (r.refs = 0 <=> r.zero # None)
  BY DEF Row
<1>2. Later(r.zero) \in Nat \cup {None} /\ (Later(r.zero) = None <=> r.zero = None)
  BY <1>1, LaterType DEF Fields
<1>3. Later(r.age) \in Nat
  BY <1>1, NoneAssumption, LaterType DEF Fields
<1>4. o \in Fields /\ o.refs = r.refs /\ o.zero = Later(r.zero) /\ o.inline = r.inline
  BY <1>1, <1>2, <1>3 DEF Fields
<1>5. o \in Row
  <2> HIDE DEF o
  <2> QED
    BY <1>1, <1>2, <1>4 DEF Row
<1> QED
  BY <1>4, <1>5

-----------------------------------------------------------------------------
(* How the steps move the rows: not at all, by one reference taken or       *)
(* dropped on one content, by the removal of rows at zero, or by ageing.    *)
Takes(u)   == row' = [row EXCEPT ![Content[u]] = Acquired(@, Fresh(u))]
Drops(u)   == row' = [row EXCEPT ![Content[u]] = Released(@)]
Deletes(k) == Claimable(row[k]) /\ row' = [row EXCEPT ![k] = None]
Ages       == row' = [k \in Blobs |-> IF Exists(row[k])
                                      THEN [row[k] EXCEPT !.zero = Later(@), !.age = Later(@)]
                                      ELSE None]

(* The steps of a put move the row of its content only.                     *)
LEMMA PutMoves ==
    ASSUME TypeOK, NEW u \in Puts, PutStep(u) \/ Release(u)
    PROVE  \/ UNCHANGED row \/ Drops(u) \/ Deletes(Content[u])
           \/ Takes(u) /\ (Embedded => Acquires(u))
<1>0. Content[u] \in Blobs /\ \A k \in Blobs : row' = [row EXCEPT ![k] = row[k]] => UNCHANGED row
  BY CasAssumption DEF TypeOK
<1>1. ASSUME LetsGo(u) PROVE UNCHANGED row \/ Drops(u)
  BY <1>1 DEF LetsGo, StoreFails, Drops
<1>2. CASE Acquires(u) \/ AcquireFails(u)
  BY <1>2 DEF Acquires, AcquireFails, StoreFails, Takes
<1>3. CASE Purges(u)
  <2>1. UNCHANGED row \/ row' = [row EXCEPT ![Content[u]] =
                                   IF Claimable(row[Content[u]]) THEN None ELSE row[Content[u]]]
    BY <1>3 DEF Purges, StoreFails
  <2> QED
    BY <2>1, <1>0 DEF Deletes
<1>4. CASE StreamFails(u) \/ StreamEnds(u) \/ Publishes(u) \/ PublishFails(u) \/ Heals(u)
              \/ Discards(u) \/ HealFails(u)
  BY <1>4 DEF StreamFails, StreamEnds, Publishes, PublishFails, Heals, Discards, HealFails, Install
<1>5. CASE RollsBack(u) \/ Undoes(u) \/ Release(u)
  BY <1>1, <1>5 DEF RollsBack, Undoes, Release
<1> QED
  BY <1>2, <1>3, <1>4, <1>5 DEF PutStep

(* A sweep only deletes rows.                                               *)
LEMMA SweepMoves ==
    ASSUME TypeOK, NEW p \in Procs, SweepStep(p)
    PROVE  UNCHANGED row \/ \E k \in Blobs : Deletes(k)
<1>0. \A k \in Blobs : row' = [row EXCEPT ![k] = row[k]] => UNCHANGED row
  BY DEF TypeOK
<1>1. ASSUME NEW k \in Blobs, SweepClaims(p, k) PROVE UNCHANGED row \/ Deletes(k)
  <2>1. \/ UNCHANGED row
        \/ row' = [row EXCEPT ![k] = None] /\ Claimable(row[k])
        \/ row' = [row EXCEPT ![k] = IF Claimable(row[k]) THEN None ELSE row[k]]
    BY <1>1 DEF SweepClaims, StoreFails
  <2> QED
    BY <2>1, <1>0 DEF Deletes
<1>2. ASSUME NEW k \in Blobs, SweepUnlinks(p, k) PROVE UNCHANGED row
  BY <1>2 DEF SweepUnlinks
<1>3. CASE SweepLists(p)
  BY <1>3 DEF SweepLists
<1> QED
  BY <1>1, <1>2, <1>3 DEF SweepStep

(* verify() changes nothing but what it is about to check.                  *)
LEMMA VerifyMoves ==
    ASSUME NEW p \in Procs, VerifyStep(p)
    PROVE  UNCHANGED <<at, host, born, tmp, row, file, claims, unlinks,
                       storeErrors, fileErrors, unlinkErrors, crashes>>
BY DEF VerifyStep, VerifyReads, VerifyFinds, VerifyAlarms, Looks, Looked, putVars, faultVars

(* Every step moves the rows in one of these ways.                          *)
LEMMA RowMoves ==
    ASSUME TypeOK, Next
    PROVE  \/ UNCHANGED row
           \/ \E u \in Puts : Takes(u) /\ (Embedded => Acquires(u))
           \/ \E u \in Puts : Drops(u)
           \/ \E k \in Blobs : Deletes(k)
           \/ Ages
<1>1. ASSUME NEW u \in Puts, PutStep(u) \/ Release(u)
      PROVE  \/ UNCHANGED row \/ Drops(u) \/ Deletes(Content[u])
             \/ Takes(u) /\ (Embedded => Acquires(u))
  BY <1>1, PutMoves
<1>2. ASSUME NEW p \in Procs, SweepStep(p) PROVE UNCHANGED row \/ \E k \in Blobs : Deletes(k)
  BY <1>2, SweepMoves
<1>3. ASSUME NEW p \in Procs, NEW u \in Puts, Begin(p, u) PROVE UNCHANGED row
  BY <1>3 DEF Begin
<1>4. ASSUME NEW u \in Puts, Writes(u) PROVE UNCHANGED row
  BY <1>4 DEF Writes
<1>5. ASSUME NEW k \in Blobs, Scrubs(k) PROVE UNCHANGED row
  BY <1>5 DEF Scrubs
<1>v. ASSUME NEW p \in Procs, VerifyStep(p) PROVE UNCHANGED row
  BY <1>v, VerifyMoves
<1>6. ASSUME NEW p \in Procs, Crash(p) PROVE UNCHANGED row
  BY <1>6 DEF Crash
<1>7. CASE Tick
  BY <1>7 DEF Tick, Ages
<1> QED
  <2>1. Next => \/ \E p \in Procs, u \in Puts : Begin(p, u)
                \/ \E u \in Puts : PutStep(u) \/ Release(u)
                \/ \E u \in Puts : Writes(u)
                \/ \E p \in Procs : SweepStep(p)
                \/ \E p \in Procs : VerifyStep(p)
                \/ \E k \in Blobs : Scrubs(k)
                \/ \E p \in Procs : Crash(p)
                \/ Tick
    BY DEF Next
  <2> QED
    BY <2>1, <1>1, <1>2, <1>3, <1>4, <1>5, <1>v, <1>6, <1>7, CasAssumption

(* Rows stay rows.                                                          *)
LEMMA RowTypes ==
    ASSUME TypeOK, Next
    PROVE  row' \in [Blobs -> Row \cup {None}]
<1> USE CasAssumption
<1>0. row \in [Blobs -> Row \cup {None}]
  BY DEF TypeOK
<1>1. ASSUME NEW u \in Puts, Takes(u) PROVE row' \in [Blobs -> Row \cup {None}]
  <2>1. Content[u] \in Blobs /\ row[Content[u]] \in Row \cup {None}
    BY <1>0
  <2>2. Acquired(row[Content[u]], Fresh(u)) \in Row
    BY <2>1, FreshRow, VerbFacts
  <2> QED
    BY <1>0, <1>1, <2>1, <2>2 DEF Takes
<1>2. ASSUME NEW u \in Puts, Drops(u) PROVE row' \in [Blobs -> Row \cup {None}]
  <2>1. Content[u] \in Blobs /\ row[Content[u]] \in Row \cup {None}
    BY <1>0
  <2>2. Released(row[Content[u]]) \in Row \cup {None}
    BY <2>1, VerbFacts
  <2> QED
    BY <1>0, <1>2, <2>1, <2>2 DEF Drops
<1>3. ASSUME NEW k \in Blobs, Deletes(k) PROVE row' \in [Blobs -> Row \cup {None}]
  BY <1>0, <1>3 DEF Deletes
<1>4. CASE Ages
  <2>1. \A k \in Blobs : Exists(row[k]) =>
            [row[k] EXCEPT !.zero = Later(@), !.age = Later(@)] \in Row
    BY <1>0, OlderRow DEF Exists
  <2> QED
    BY <1>4, <2>1 DEF Ages
<1> QED
  BY <1>0, <1>1, <1>2, <1>3, <1>4, RowMoves

(* No step breaks a type.                                                   *)
LEMMA TypeStep == TypeOK /\ [Next]_vars => TypeOK'
<1> SUFFICES ASSUME TypeOK, [Next]_vars PROVE TypeOK'
  OBVIOUS
<1> USE CasAssumption
<1>1. CASE UNCHANGED vars
  BY <1>1 DEF vars, TypeOK
<1>2. CASE Next
  <2>1. row' \in [Blobs -> Row \cup {None}]
    BY <1>2, RowTypes
  <2> DEFINE Rest == /\ at' \in [Puts -> Place]
                     /\ host' \in [Puts -> Procs \cup {None}]
                     /\ born' \in [Puts -> Nat]
                     /\ tmp' \in [Puts -> Nat \cup {None}]
                     /\ file' \in [Blobs -> Nat \cup {None}]
                     /\ claims' \in [Procs -> SUBSET Blobs]
                     /\ unlinks' \in [Procs -> SUBSET Blobs]
                     /\ verifying' \in [Procs -> [key : Blobs, holders : SUBSET Puts] \cup {None}]
                     /\ {storeErrors, fileErrors, unlinkErrors, crashes}' \subseteq Nat
  <2> USE DEF TypeOK, Place, InTurn, Referring, gcVars, faultVars, putVars
  <2>2. ASSUME NEW p \in Procs, NEW u \in Puts, Begin(p, u) PROVE Rest
    BY <2>2 DEF Begin
  <2>3. ASSUME NEW u \in Puts, Writes(u) PROVE Rest
    BY <2>3 DEF Writes
  <2>4. ASSUME NEW u \in Puts, StreamFails(u) \/ StreamEnds(u) PROVE Rest
    BY <2>4 DEF StreamFails, StreamEnds
  <2>5. ASSUME NEW u \in Puts, Acquires(u) PROVE Rest
    BY <2>5 DEF Acquires
  <2>6. ASSUME NEW u \in Puts, AcquireFails(u) PROVE Rest
    BY <2>6 DEF AcquireFails, StoreFails
  <2>7. ASSUME NEW u \in Puts, Publishes(u) \/ Heals(u) PROVE Rest
    BY <2>7 DEF Publishes, Heals, Install
  <2>8. ASSUME NEW u \in Puts, Discards(u) PROVE Rest
    BY <2>8 DEF Discards, UnlinkFails
  <2>9. ASSUME NEW u \in Puts, PublishFails(u) \/ HealFails(u) PROVE Rest
    BY <2>9 DEF PublishFails, HealFails, Stuck, FileFails
  <2>10. ASSUME NEW u \in Puts, RollsBack(u) PROVE Rest
    BY <2>10 DEF RollsBack, LetsGo, StoreFails
  <2>11. ASSUME NEW u \in Puts, Purges(u) PROVE Rest
    BY <2>11 DEF Purges, StoreFails
  <2>12. ASSUME NEW u \in Puts, Undoes(u) \/ Release(u) PROVE Rest
    BY <2>12 DEF Undoes, Release, LetsGo, StoreFails
  <2>13. ASSUME NEW p \in Procs, SweepLists(p) PROVE Rest
    BY <2>13 DEF SweepLists
  <2>14. ASSUME NEW p \in Procs, NEW k \in Blobs, SweepClaims(p, k) PROVE Rest
    BY <2>14 DEF SweepClaims, StoreFails
  <2>15. ASSUME NEW p \in Procs, NEW k \in Blobs, SweepUnlinks(p, k) PROVE Rest
    BY <2>15 DEF SweepUnlinks, UnlinkFails
  <2>16. ASSUME NEW k \in Blobs, Scrubs(k) PROVE Rest
    BY <2>16 DEF Scrubs
  <2>v. ASSUME NEW p \in Procs, VerifyStep(p) PROVE Rest
    <3>1. \A k \in Blobs : Holders(k) \in SUBSET Puts
      BY DEF Holders
    <3>2. verifying' \in [Procs -> [key : Blobs, holders : SUBSET Puts] \cup {None}]
      BY <2>v, <3>1 DEF VerifyStep, VerifyReads, VerifyFinds, VerifyAlarms, Looks, Looked
    <3> QED
      BY <2>v, <3>2, VerifyMoves
  <2>17. ASSUME NEW p \in Procs, Crash(p) PROVE Rest
    BY <2>17 DEF Crash
  <2>18. ASSUME Tick PROVE Rest
    <3>1. \A t \in Nat \cup {None} : Later(t) \in Nat \cup {None}
      BY LaterType
    <3>2. \A t \in Nat : Later(t) \in Nat
      BY LaterType, NoneAssumption
    <3>3. born' \in [Puts -> Nat]
      BY <2>18, <3>2 DEF Tick
    <3>4. tmp' \in [Puts -> Nat \cup {None}] /\ file' \in [Blobs -> Nat \cup {None}]
      BY <2>18, <3>1 DEF Tick
    <3> QED
      BY <2>18, <3>3, <3>4 DEF Tick
  <2>19. Rest
    BY <1>2, <2>2, <2>3, <2>4, <2>5, <2>6, <2>7, <2>8, <2>9, <2>10, <2>11, <2>12, <2>13, <2>14,
       <2>15, <2>16, <2>v, <2>17, <2>18 DEF Next, PutStep, SweepStep
  <2> QED
    BY <2>1, <2>19
<1> QED
  BY <1>1, <1>2
-----------------------------------------------------------------------------
(* The holders of a content are finitely many, and change by the puts that  *)
(* move.                                                                    *)
LEMMA HoldersFinite ==
    \A k \in Blobs : IsFiniteSet(Holders(k)) /\ Cardinality(Holders(k)) \in Nat
BY CasAssumption, FS_Subset, FS_CardinalityType DEF Holders

(* A step that only takes holders away, and references only from blobs that *)
(* have none, keeps the count above them.                                   *)
LEMMA Shrinks ==
    ASSUME RefsCoverHolders,
           \A u \in Puts : at'[u] \in Referring => at[u] \in Referring,
           \A k \in Blobs : /\ Count(row[k]) \in Nat /\ Count(row'[k]) \in Nat
                            /\ Count(row'[k]) >= Count(row[k]) \/ Count(row[k]) = 0
    PROVE  RefsCoverHolders'
<1> SUFFICES ASSUME NEW k \in Blobs PROVE (Refs(k) >= Cardinality(Holders(k)))'
  BY DEF RefsCoverHolders
<1>1. Holders(k)' \subseteq Holders(k)
  BY DEF Holders
<1>2. Cardinality(Holders(k)') \in Nat /\ Cardinality(Holders(k)') <= Cardinality(Holders(k))
  BY <1>1, HoldersFinite, FS_Subset, FS_CardinalityType
<1>3. Count(row[k]) >= Cardinality(Holders(k)) /\ Cardinality(Holders(k)) \in Nat
  BY HoldersFinite DEF RefsCoverHolders, Refs, Count
<1>4. Count(row'[k]) >= Cardinality(Holders(k)')
  BY <1>2, <1>3
<1> QED
  BY <1>4 DEF Refs, Count

(* A put that takes a reference becomes a holder.                           *)
LEMMA TakesCovers ==
    ASSUME Inv, NEW u \in Puts, Takes(u), NEW place, at' = [at EXCEPT ![u] = place],
           at[u] \notin Referring
    PROVE  RefsCoverHolders'
<1> USE CasAssumption
<1> DEFINE q == Content[u]
<1>0. q \in Blobs /\ row \in [Blobs -> Row \cup {None}] /\ at \in [Puts -> Place]
  BY DEF Inv, TypeOK
<1> SUFFICES ASSUME NEW k \in Blobs PROVE (Refs(k) >= Cardinality(Holders(k)))'
  BY DEF RefsCoverHolders
<1>1. Count(row[k]) >= Cardinality(Holders(k)) /\ Cardinality(Holders(k)) \in Nat
  BY HoldersFinite DEF Inv, RefsCoverHolders, Refs, Count
<1>2. CASE k # q
  <2>1. row'[k] = row[k] /\ Holders(k)' = Holders(k)
    BY <1>0, <1>2 DEF Takes, Holders
  <2> QED
    BY <1>1, <2>1 DEF Refs, Count
<1>3. CASE k = q
  <2>1. Count(row'[k]) = Count(row[k]) + 1 /\ Count(row[k]) \in Nat
    <3>1. row'[k] = Acquired(row[k], Fresh(u)) /\ row[k] \in Row \cup {None}
      BY <1>0, <1>3 DEF Takes
    <3> QED
      BY <3>1, FreshRow, VerbFacts DEF Inv
  <2>2. Holders(k)' \subseteq Holders(k) \cup {u}
    BY <1>0 DEF Holders
  <2>3. IsFiniteSet(Holders(k)) /\ IsFiniteSet(Holders(k) \cup {u})
        /\ Cardinality(Holders(k) \cup {u}) <= Cardinality(Holders(k)) + 1
    <3>1. IsFiniteSet(Holders(k))
      BY HoldersFinite
    <3>2. /\ IsFiniteSet(Holders(k) \cup {u})
          /\ Cardinality(Holders(k) \cup {u}) =
                IF u \in Holders(k) THEN Cardinality(Holders(k)) ELSE Cardinality(Holders(k)) + 1
      BY <3>1, FS_AddElement
    <3> QED
      BY <1>1, <3>1, <3>2
  <2>4. Cardinality(Holders(k)') <= Cardinality(Holders(k) \cup {u})
        /\ Cardinality(Holders(k)') \in Nat /\ Cardinality(Holders(k) \cup {u}) \in Nat
    BY <2>2, <2>3, FS_Subset, FS_CardinalityType
  <2>5. Count(row'[k]) >= Cardinality(Holders(k)')
    BY <1>1, <2>1, <2>3, <2>4
  <2> QED
    BY <2>5 DEF Refs, Count
<1> QED
  BY <1>2, <1>3

(* A holder that drops its reference is one no more.                        *)
LEMMA DropsCovers ==
    ASSUME Inv, NEW u \in Puts, NEW place \in Place \ Referring,
           at[u] \in Referring, at' = [at EXCEPT ![u] = place],
           UNCHANGED row \/ Drops(u)
    PROVE  RefsCoverHolders'
<1> USE CasAssumption
<1> DEFINE q == Content[u]
<1>0. q \in Blobs /\ row \in [Blobs -> Row \cup {None}] /\ at \in [Puts -> Place]
  BY DEF Inv, TypeOK
<1> SUFFICES ASSUME NEW k \in Blobs PROVE (Refs(k) >= Cardinality(Holders(k)))'
  BY DEF RefsCoverHolders
<1>1. /\ Count(row[k]) >= Cardinality(Holders(k)) /\ Cardinality(Holders(k)) \in Nat
      /\ Count(row[k]) \in Nat
  BY <1>0, HoldersFinite, VerbFacts DEF Inv, RefsCoverHolders, Refs, Count
<1>2. CASE k # q
  <2>1. row'[k] = row[k] /\ Holders(k)' = Holders(k)
    BY <1>0, <1>2 DEF Drops, Holders
  <2> QED
    BY <1>1, <2>1 DEF Refs, Count
<1>3. CASE k = q
  <2>1. u \in Holders(k) /\ Holders(k)' = Holders(k) \ {u}
    BY <1>0, <1>3 DEF Holders
  <2>2. Cardinality(Holders(k)') = Cardinality(Holders(k)) - 1
    BY <2>1, HoldersFinite, FS_RemoveElement
  <2>3. Cardinality(Holders(k)') \in Nat
    BY <2>1, HoldersFinite, FS_RemoveElement, FS_CardinalityType
  <2>4. Count(row'[k]) = Count(row[k]) \/ Count(row'[k]) = Count(row[k]) - 1
    <3>1. CASE UNCHANGED row
      BY <3>1
    <3>2. CASE Drops(u)
      <4>1. row'[k] = Released(row[k]) /\ row[k] \in Row \cup {None}
        BY <1>0, <1>3, <3>2 DEF Drops
      <4>2. Count(row[k]) > 0
        BY <1>1, <2>2, <2>3
      <4> QED
        BY <4>1, <4>2, VerbFacts
    <3> QED
      BY <3>1, <3>2
  <2>5. Count(row'[k]) >= Cardinality(Holders(k)')
    BY <1>1, <2>2, <2>4
  <2> QED
    BY <2>5 DEF Refs, Count
<1> QED
  BY <1>2, <1>3

(* Time moves no count.                                                     *)
LEMMA AgesCount ==
    ASSUME TypeOK, Ages
    PROVE  \A k \in Blobs : Count(row'[k]) = Count(row[k])
<1> TAKE k \in Blobs
<1>0. row \in [Blobs -> Row \cup {None}]
  BY DEF TypeOK
<1>1. CASE Exists(row[k])
  <2>1. row[k] \in Row /\ row'[k] = [row[k] EXCEPT !.zero = Later(@), !.age = Later(@)]
    BY <1>0, <1>1 DEF Ages, Exists
  <2>2. row'[k] \in Row /\ row'[k].refs = row[k].refs
    BY <2>1, OlderRow
  <2> QED
    BY <1>1, <2>2, NoneAssumption DEF Count, Exists, Row
<1>2. CASE ~Exists(row[k])
  BY <1>2 DEF Ages, Count, Exists
<1> QED
  BY <1>1, <1>2

(* No step lets the count fall below the holders.                           *)
LEMMA CoverStep ==
    ASSUME Inv, [Next]_vars, TypeOK'
    PROVE  RefsCoverHolders'
<1> USE CasAssumption
<1>0. /\ row \in [Blobs -> Row \cup {None}] /\ row' \in [Blobs -> Row \cup {None}]
      /\ at \in [Puts -> Place]
      /\ \A k \in Blobs : Count(row[k]) \in Nat /\ Count(row'[k]) \in Nat
  BY VerbFacts DEF Inv, TypeOK
<1>1. ASSUME UNCHANGED row, \A u \in Puts : at'[u] \in Referring => at[u] \in Referring
      PROVE  RefsCoverHolders'
  BY <1>0, <1>1, Shrinks DEF Inv
<1>2. ASSUME NEW p \in Procs, NEW u \in Puts, Begin(p, u) PROVE RefsCoverHolders'
  BY <1>0, <1>1, <1>2 DEF Begin, Referring
<1>3. ASSUME NEW u \in Puts, Writes(u) PROVE RefsCoverHolders'
  BY <1>1, <1>3 DEF Writes
<1>4. ASSUME NEW u \in Puts, StreamFails(u) \/ StreamEnds(u) PROVE RefsCoverHolders'
  BY <1>0, <1>1, <1>4 DEF StreamFails, StreamEnds, Referring
<1>5. ASSUME NEW u \in Puts, Acquires(u) PROVE RefsCoverHolders'
  <2>1. at[u] \notin Referring /\ Takes(u)
    BY <1>5 DEF Acquires, Referring, Takes
  <2>2. PICK place : at' = [at EXCEPT ![u] = place]
    BY <1>5 DEF Acquires
  <2> QED
    BY <2>1, <2>2, TakesCovers
<1>6. ASSUME NEW u \in Puts, AcquireFails(u) PROVE RefsCoverHolders'
  <2>1. UNCHANGED row \/ Takes(u)
    BY <1>6 DEF AcquireFails, StoreFails, Takes
  <2>2. at' = [at EXCEPT ![u] = "failed"] /\ at[u] \notin Referring
    BY <1>6 DEF AcquireFails, Referring
  <2>3. \A v \in Puts : at'[v] \in Referring => at[v] \in Referring
    BY <1>0, <2>2 DEF Referring
  <2> QED
    BY <1>1, <2>1, <2>2, <2>3, TakesCovers
<1>7. ASSUME NEW u \in Puts, Publishes(u) \/ Heals(u) \/ Discards(u) PROVE RefsCoverHolders'
  BY <1>0, <1>1, <1>7 DEF Publishes, Heals, Discards, Install, Referring
<1>8. ASSUME NEW u \in Puts, PublishFails(u) \/ HealFails(u) PROVE RefsCoverHolders'
  BY <1>0, <1>1, <1>8 DEF PublishFails, HealFails, Referring
<1>9. ASSUME NEW u \in Puts, RollsBack(u) \/ Undoes(u) \/ Release(u) PROVE RefsCoverHolders'
  <2>1. UNCHANGED row \/ Drops(u)
    BY <1>9 DEF RollsBack, Undoes, Release, LetsGo, StoreFails, Drops
  <2>2. at[u] \in Referring
    BY <1>9 DEF RollsBack, Undoes, Release, Referring
  <2>3. PICK place \in {"purging", "failed", "released"} : at' = [at EXCEPT ![u] = place]
    BY <1>9 DEF RollsBack, Undoes, Release
  <2>4. place \in Place \ Referring
    BY <2>3 DEF Place, InTurn, Referring
  <2> QED
    BY <2>1, <2>2, <2>3, <2>4, DropsCovers
<1>10. ASSUME NEW k \in Blobs, UNCHANGED row \/ Deletes(k),
              \A u \in Puts : at'[u] \in Referring => at[u] \in Referring
       PROVE  RefsCoverHolders'
  <2>1. \A b \in Blobs : Count(row'[b]) >= Count(row[b]) \/ Count(row[b]) = 0
    <3> TAKE b \in Blobs
    <3>1. CASE row'[b] = row[b]
      BY <1>0, <3>1
    <3>2. CASE Claimable(row[b])
      BY <1>0, <3>2, VerbFacts
    <3> QED
      BY <1>0, <1>10, <3>1, <3>2 DEF Deletes
  <2> QED
    BY <1>0, <1>10, <2>1, Shrinks DEF Inv
<1>11. ASSUME NEW u \in Puts, Purges(u) PROVE RefsCoverHolders'
  <2>1. at' = [at EXCEPT ![u] = "failed"] /\ Content[u] \in Blobs
    BY <1>11 DEF Purges
  <2>2. \A v \in Puts : at'[v] \in Referring => at[v] \in Referring
    BY <1>0, <2>1 DEF Referring
  <2>3. UNCHANGED row \/ row' = [row EXCEPT ![Content[u]] =
                                   IF Claimable(row[Content[u]]) THEN None ELSE row[Content[u]]]
    BY <1>11 DEF Purges, StoreFails
  <2>4. UNCHANGED row \/ Deletes(Content[u])
    BY <1>0, <2>1, <2>3 DEF Deletes
  <2> QED
    BY <1>10, <2>1, <2>2, <2>4
<1>12. ASSUME NEW p \in Procs, NEW k \in Blobs, SweepClaims(p, k) PROVE RefsCoverHolders'
  <2>1. UNCHANGED at
    BY <1>12 DEF SweepClaims, putVars
  <2>2. \/ UNCHANGED row
        \/ row' = [row EXCEPT ![k] = None] /\ Claimable(row[k])
        \/ row' = [row EXCEPT ![k] = IF Claimable(row[k]) THEN None ELSE row[k]]
    BY <1>12 DEF SweepClaims, StoreFails
  <2>3. UNCHANGED row \/ Deletes(k)
    BY <1>0, <2>2 DEF Deletes
  <2> QED
    BY <1>10, <2>1, <2>3
<1>13. ASSUME NEW p \in Procs, NEW k \in Blobs, SweepLists(p) \/ SweepUnlinks(p, k)
       PROVE  RefsCoverHolders'
  BY <1>1, <1>13 DEF SweepLists, SweepUnlinks, putVars
<1>14. ASSUME NEW p \in Procs, SweepLists(p) PROVE RefsCoverHolders'
  BY <1>1, <1>14 DEF SweepLists, putVars
<1>15. ASSUME NEW k \in Blobs, Scrubs(k) PROVE RefsCoverHolders'
  BY <1>1, <1>15 DEF Scrubs, putVars
<1>v. ASSUME NEW p \in Procs, VerifyStep(p) PROVE RefsCoverHolders'
  BY <1>1, <1>v, VerifyMoves
<1>16. ASSUME NEW p \in Procs, Crash(p) PROVE RefsCoverHolders'
  BY <1>1, <1>16 DEF Crash, Referring
<1>17. CASE Tick
  <2>1. UNCHANGED at /\ Ages
    BY <1>17 DEF Tick, Ages
  <2>2. \A k \in Blobs : Count(row'[k]) = Count(row[k])
    BY <2>1, AgesCount DEF Inv
  <2> QED
    BY <1>0, <2>1, <2>2, Shrinks DEF Inv
<1>18. CASE UNCHANGED vars
  BY <1>1, <1>18 DEF vars
<1> QED
  BY <1>2, <1>3, <1>4, <1>5, <1>6, <1>7, <1>8, <1>9, <1>11, <1>12, <1>13, <1>14, <1>15, <1>v, <1>16,
     <1>17, <1>18 DEF Next, PutStep, SweepStep

(* Whether a row carries its payload is decided by its first put, and the   *)
(* same for all puts of the content.                                        *)
LEMMA KindsStep ==
    ASSUME Inv, [Next]_vars
    PROVE  Kinds'
<1> USE CasAssumption
<1>0. row \in [Blobs -> Row \cup {None}]
  BY DEF Inv, TypeOK
<1> SUFFICES ASSUME NEW v \in Puts, Exists(row'[Content[v]])
             PROVE  row'[Content[v]].inline = (v \in Inline)
  BY DEF Kinds
<1> DEFINE k == Content[v]
<1>1. k \in Blobs /\ row[k] \in Row \cup {None}
  BY <1>0
<1>2. Exists(row[k]) => row[k].inline = (v \in Inline)
  BY DEF Inv, Kinds
<1>3. CASE UNCHANGED row
  BY <1>2, <1>3
<1>4. ASSUME NEW u \in Puts, Takes(u) PROVE row'[k].inline = (v \in Inline)
  <2>1. CASE Content[u] = k
    <3>1. row'[k] = Acquired(row[k], Fresh(u))
      BY <1>0, <1>1, <1>4, <2>1 DEF Takes
    <3>2. row'[k].inline = IF Exists(row[k]) THEN row[k].inline ELSE u \in Inline
      <4>1. /\ Fresh(u) \in Row /\ Fresh(u).refs = 1 /\ Fresh(u).inline = (u \in Inline)
        BY FreshRow DEF Inv
      <4>2. row'[k].inline = IF Exists(row[k]) THEN row[k].inline ELSE Fresh(u).inline
        BY <1>1, <3>1, <4>1, VerbFacts
      <4> QED
        BY <4>1, <4>2
    <3>3. (u \in Inline) = (v \in Inline)
      BY <2>1
    <3> QED
      BY <1>2, <3>2, <3>3
  <2>2. CASE Content[u] # k
    BY <1>0, <1>1, <1>2, <1>4, <2>2 DEF Takes
  <2> QED
    BY <2>1, <2>2
<1>5. ASSUME NEW u \in Puts, Drops(u) PROVE row'[k].inline = (v \in Inline)
  <2>1. row'[k] = row[k] \/ row'[k] = Released(row[k])
    BY <1>0, <1>1, <1>5 DEF Drops
  <2> QED
    BY <1>1, <1>2, <2>1, VerbFacts
<1>6. ASSUME NEW b \in Blobs, Deletes(b) PROVE row'[k].inline = (v \in Inline)
  BY <1>0, <1>1, <1>2, <1>6 DEF Deletes, Exists
<1>7. CASE Ages
  <2>1. Exists(row[k])
    BY <1>1, <1>7 DEF Ages, Exists
  <2>2. row[k] \in Row /\ row'[k] = [row[k] EXCEPT !.zero = Later(@), !.age = Later(@)]
    BY <1>1, <1>7, <2>1 DEF Ages, Exists
  <2> QED
    BY <1>2, <2>1, <2>2, OlderRow
<1>8. CASE UNCHANGED vars
  BY <1>3, <1>8 DEF vars
<1> QED
  BY <1>3, <1>4, <1>5, <1>6, <1>7, <1>8, RowMoves DEF Inv

(* Nothing is stored at first.                                              *)
LEMMA InitInv == Init => Inv
<1> SUFFICES ASSUME Init PROVE Inv
  OBVIOUS
<1> USE CasAssumption
<1>1. TypeOK
  BY DEF Init, TypeOK, Place
<1>2. Kinds
  BY DEF Init, Kinds, Exists
<1>3. RefsCoverHolders
  <2> SUFFICES ASSUME NEW k \in Blobs PROVE Refs(k) >= Cardinality(Holders(k))
    BY DEF RefsCoverHolders
  <2>1. Holders(k) = {}
    BY DEF Init, Holders, Referring
  <2>2. Refs(k) = 0
    BY DEF Init, Refs, Exists
  <2> QED
    BY <2>1, <2>2, FS_EmptySet
<1> QED
  BY <1>1, <1>2, <1>3 DEF Inv

(* The invariant is inductive.                                              *)
LEMMA StepInv == Inv /\ [Next]_vars => Inv'
BY TypeStep, CoverStep, KindsStep DEF Inv

(* The count of a blob never falls below its holders: neither sweeps nor    *)
(* rollbacks nor crashes nor the ambiguity of a failed verb take the row    *)
(* from under a put that was given its key.                                 *)
THEOREM RefsCover == Spec => []RefsCoverHolders
<1>1. Spec => []Inv
  BY InitInv, StepInv, PTL DEF Spec
<1>2. Inv => RefsCoverHolders
  BY DEF Inv
<1> QED
  BY <1>1, <1>2, PTL

(* Puts, rows, files and sweeps keep their types: a row carries the stamp   *)
(* of its last release exactly while it is at zero.                         *)
THEOREM TypeCorrect == Spec => []TypeOK
<1>1. Spec => []Inv
  BY InitInv, StepInv, PTL DEF Spec
<1>2. Inv => TypeOK
  BY DEF Inv
<1> QED
  BY <1>1, <1>2, PTL
-----------------------------------------------------------------------------
(* A put that counts as a holder has a counted row.                         *)
LEMMA HolderIsCounted ==
    ASSUME TypeOK, RefsCoverHolders, NEW u \in Puts, at[u] \in Referring
    PROVE  Exists(row[Content[u]]) /\ row[Content[u]].refs >= 1
<1> USE CasAssumption
<1> DEFINE k == Content[u]
<1>1. u \in Holders(k) /\ k \in Blobs
  BY DEF Holders
<1>2. Cardinality(Holders(k)) >= 1
  <2>1. IsFiniteSet(Holders(k)) /\ Cardinality(Holders(k)) \in Nat
    BY <1>1, HoldersFinite
  <2>2. Cardinality(Holders(k)) # 0
    BY <1>1, <2>1, FS_EmptySet
  <2> QED
    BY <2>1, <2>2
<1>3. Count(row[k]) >= 1
  <2>1. Count(row[k]) \in Nat /\ Cardinality(Holders(k)) \in Nat
    BY <1>1, HoldersFinite, VerbFacts DEF TypeOK
  <2>2. Count(row[k]) >= Cardinality(Holders(k))
    BY <1>1 DEF RefsCoverHolders, Refs, Count
  <2> QED
    BY <1>2, <2>1, <2>2
<1> QED
  BY <1>3 DEF Count

(* A put that holds a key has one.                                          *)
LEMMA HeldIsCounted ==
    ASSUME TypeOK, RefsCoverHolders, NEW u \in Puts, at[u] = "held"
    PROVE  Exists(row[Content[u]]) /\ row[Content[u]].refs >= 1
BY HolderIsCounted DEF Referring

(* The file of a held key stays in every step but the unlink of a sweep,    *)
(* and is there when a put is given its key.                                *)
LEMMA HeldFileStays ==
    ASSUME Inv, Next, NEW u \in Puts \ Inline, at'[u] = "held",
           at[u] = "held" => file[Content[u]] # None,
           ~\E p \in Procs : SweepUnlinks(p, Content[u])
    PROVE  file'[Content[u]] # None
<1> USE CasAssumption
<1>0. /\ at \in [Puts -> Place] /\ file \in [Blobs -> Nat \cup {None}]
      /\ tmp \in [Puts -> Nat \cup {None}] /\ Content[u] \in Blobs
  BY DEF Inv, TypeOK
<1>1. ASSUME UNCHANGED file, at[u] = "held" PROVE file'[Content[u]] # None
  BY <1>1
<1>2. ASSUME NEW p \in Procs, NEW v \in Puts, Begin(p, v) PROVE file'[Content[u]] # None
  BY <1>0, <1>1, <1>2 DEF Begin
<1>3. ASSUME NEW v \in Puts, Writes(v) PROVE file'[Content[u]] # None
  BY <1>1, <1>3 DEF Writes
<1>4. ASSUME NEW v \in Puts, StreamFails(v) \/ StreamEnds(v) PROVE file'[Content[u]] # None
  BY <1>0, <1>1, <1>4 DEF StreamFails, StreamEnds
<1>5. ASSUME NEW v \in Puts, Acquires(v) PROVE file'[Content[u]] # None
  BY <1>0, <1>1, <1>5 DEF Acquires
<1>6. ASSUME NEW v \in Puts, AcquireFails(v) \/ PublishFails(v) \/ HealFails(v)
      PROVE  file'[Content[u]] # None
  BY <1>0, <1>1, <1>6 DEF AcquireFails, PublishFails, HealFails
<1>7. ASSUME NEW v \in Puts, Publishes(v) \/ Heals(v) PROVE file'[Content[u]] # None
  <2>1. tmp[v] # None /\ file' = [file EXCEPT ![Content[v]] = tmp[v]]
        /\ at' = [at EXCEPT ![v] = "held"]
    BY <1>7 DEF Publishes, Heals, Install
  <2> QED
    BY <1>0, <2>1
<1>8. ASSUME NEW v \in Puts, Discards(v) PROVE file'[Content[u]] # None
  <2>1. file[Content[v]] # None /\ file' = file /\ at' = [at EXCEPT ![v] = "held"]
    BY <1>8 DEF Discards
  <2> QED
    BY <1>0, <2>1
<1>9. ASSUME NEW v \in Puts, RollsBack(v) \/ Purges(v) \/ Undoes(v) \/ Release(v)
      PROVE  file'[Content[u]] # None
  BY <1>0, <1>1, <1>9 DEF RollsBack, Purges, Undoes, Release
<1>10. ASSUME NEW p \in Procs, SweepLists(p) PROVE file'[Content[u]] # None
  BY <1>1, <1>10 DEF SweepLists, putVars
<1>11. ASSUME NEW p \in Procs, NEW k \in Blobs, SweepClaims(p, k) PROVE file'[Content[u]] # None
  BY <1>1, <1>11 DEF SweepClaims, putVars
<1>12. ASSUME NEW p \in Procs, NEW k \in Blobs, SweepUnlinks(p, k) PROVE file'[Content[u]] # None
  <2>1. k # Content[u]
    BY <1>12
  <2>2. file'[Content[u]] = file[Content[u]] /\ UNCHANGED at
    BY <1>0, <1>12, <2>1 DEF SweepUnlinks, putVars
  <2> QED
    BY <2>2
<1>13. ASSUME NEW p \in Procs, VerifyStep(p) PROVE file'[Content[u]] # None
  BY <1>1, <1>13, VerifyMoves
<1>14. ASSUME NEW k \in Blobs, Scrubs(k) PROVE file'[Content[u]] # None
  <2>1. UNCHANGED at /\ ~Exists(row[k]) /\ file' = [file EXCEPT ![k] = None]
    BY <1>14 DEF Scrubs, putVars
  <2>2. Exists(row[Content[u]])
    BY <2>1, HeldIsCounted DEF Inv
  <2> QED
    BY <1>0, <2>1, <2>2
<1>15. ASSUME NEW p \in Procs, Crash(p) PROVE file'[Content[u]] # None
  BY <1>0, <1>1, <1>15 DEF Crash
<1>16. CASE Tick
  <2>1. UNCHANGED at /\ file'[Content[u]] = Later(file[Content[u]])
    BY <1>0, <1>16 DEF Tick
  <2> QED
    BY <1>0, <2>1, LaterType
<1> QED
  BY <1>2, <1>3, <1>4, <1>5, <1>6, <1>7, <1>8, <1>9, <1>10, <1>11, <1>12, <1>13, <1>14, <1>15,
     <1>16 DEF Next, PutStep, SweepStep

(* Read off the invariant: a held key is readable if its file is there.     *)
LEMMA HeldReadable ==
    ASSUME Inv, NEW u \in Puts, at[u] = "held"
    PROVE  Readable(Content[u]) <=> (u \in Inline \/ file[Content[u]] # None)
<1>1. Exists(row[Content[u]]) /\ row[Content[u]].refs >= 1
  BY HeldIsCounted DEF Inv
<1>2. row[Content[u]].inline = (u \in Inline)
  BY <1>1 DEF Inv, Kinds
<1> QED
  BY <1>1, <1>2 DEF Readable

(* A holder that cannot read its bytes has just lost them to an unlink.     *)
LEMMA LossStep ==
    ASSUME Inv, Inv', Next, NEW u \in Puts, at'[u] = "held", ~Readable(Content[u])',
           at[u] = "held" => Readable(Content[u])
    PROVE  \E p \in Procs : SweepUnlinks(p, Content[u])
<1>1. u \notin Inline /\ file'[Content[u]] = None
  <2>1. (at[u] = "held")'
    OBVIOUS
  <2>2. (Readable(Content[u]) <=> (u \in Inline \/ file[Content[u]] # None))'
    BY <2>1, HeldReadable, PTL
  <2> QED
    BY <2>2
<1>2. at[u] = "held" => file[Content[u]] # None
  BY <1>1, HeldReadable
<1> QED
  BY <1>1, <1>2, HeldFileStays

(* Bytes are lost to a holder only where the code says they can be: in the  *)
(* unlink of a sweep whose claim came before a put revived the content.     *)
THEOREM LossWindow == Spec => LossOnlyInSweepWindow
<1>1. Inv /\ Inv' /\ [Next]_vars =>
        [\A u \in Puts :
           /\ at'[u] = "held" /\ ~Readable(Content[u])'
           /\ at[u] = "held" => Readable(Content[u])
           => \E p \in Procs : SweepUnlinks(p, Content[u])]_vars
  BY LossStep
<1> QED
  BY InitInv, StepInv, <1>1, PTL DEF Spec, LossOnlyInSweepWindow

-----------------------------------------------------------------------------
(* With the embedded store a file is unlinked in the turn that claimed it,  *)
(* so no put has revived its row.                                           *)
Unowned == \A p \in Procs, k \in Blobs : k \in unlinks[p] => ~Exists(row[k])

EmbeddedInv == Inv /\ Unowned /\ HeldIsReadable

(* No step gives a row to a key whose file is about to be unlinked.         *)
LEMMA UnownedStep ==
    ASSUME Embedded, Inv, Unowned, [Next]_vars
    PROVE  Unowned'
<1> USE CasAssumption
<1>0. row \in [Blobs -> Row \cup {None}] /\ unlinks \in [Procs -> SUBSET Blobs]
  BY DEF Inv, TypeOK
<1> SUFFICES ASSUME NEW p \in Procs, NEW k \in Blobs, k \in unlinks'[p] PROVE ~Exists(row'[k])
  BY DEF Unowned
<1>1. CASE UNCHANGED vars
  BY <1>1 DEF vars, Unowned
<1>2. CASE Next
  <2>1. CASE k \notin unlinks[p]
    <3>1. \E q \in Procs, b \in Blobs : SweepClaims(q, b)
      <4>1. ASSUME NEW u \in Puts, PutStep(u) \/ Writes(u) \/ Release(u) PROVE UNCHANGED unlinks
        BY <4>1 DEF PutStep, Writes, Release, StreamFails, StreamEnds, Acquires, AcquireFails,
                    Publishes, PublishFails, Heals, Discards, HealFails, RollsBack, Purges, Undoes,
                    Install, gcVars
      <4>2. ASSUME NEW q \in Procs, NEW u \in Puts, Begin(q, u) PROVE UNCHANGED unlinks
        BY <4>2 DEF Begin, gcVars
      <4>3. ASSUME NEW q \in Procs, SweepLists(q) PROVE UNCHANGED unlinks
        BY <4>3 DEF SweepLists
      <4>4. ASSUME NEW q \in Procs, NEW b \in Blobs, SweepUnlinks(q, b)
            PROVE  unlinks'[p] \subseteq unlinks[p]
        BY <1>0, <4>4 DEF SweepUnlinks
      <4>5. ASSUME NEW b \in Blobs, Scrubs(b) PROVE UNCHANGED unlinks
        BY <4>5 DEF Scrubs, gcVars
      <4>v. ASSUME NEW q \in Procs, VerifyStep(q) PROVE UNCHANGED unlinks
        BY <4>v, VerifyMoves
      <4>6. ASSUME NEW q \in Procs, Crash(q) PROVE unlinks'[p] \subseteq unlinks[p]
        BY <1>0, <4>6 DEF Crash
      <4>7. CASE Tick
        BY <2>1, <4>7 DEF Tick, gcVars
      <4> QED
        BY <1>2, <2>1, <4>1, <4>2, <4>3, <4>4, <4>5, <4>v, <4>6, <4>7 DEF Next, SweepStep
    <3>2. PICK q \in Procs, b \in Blobs : SweepClaims(q, b)
      BY <3>1
    <3>3. /\ q = p /\ b = k /\ row' = [row EXCEPT ![b] = None]
      BY <1>0, <2>1, <3>2 DEF SweepClaims
    <3> QED
      BY <1>0, <3>3 DEF Exists
  <2>2. CASE k \in unlinks[p]
    <3>1. ~Exists(row[k])
      BY <2>2 DEF Unowned
    <3>2. ASSUME NEW u \in Puts, Acquires(u) PROVE FALSE
      <4>1. ~Sweeping(p)
        BY <3>2 DEF Acquires, PutMayRun
      <4> QED
        BY <2>2, <4>1 DEF Sweeping
    <3>3. ASSUME NEW u \in Puts, Drops(u) PROVE ~Exists(row'[k])
      <4>1. row'[k] = row[k] \/ row'[k] = Released(row[k])
        BY <1>0, <3>3 DEF Drops
      <4>2. row[k] \in Row \cup {None}
        BY <1>0
      <4> QED
        BY <3>1, <4>1, <4>2, VerbFacts
    <3>4. ASSUME NEW b \in Blobs, Deletes(b) PROVE ~Exists(row'[k])
      BY <1>0, <3>1, <3>4 DEF Deletes, Exists
    <3>5. CASE Ages
      BY <3>1, <3>5 DEF Ages, Exists
    <3>6. CASE UNCHANGED row
      BY <3>1, <3>6
    <3> QED
      BY <1>2, <3>2, <3>3, <3>4, <3>5, <3>6, RowMoves DEF Inv
  <2> QED
    BY <2>1, <2>2
<1> QED
  BY <1>1, <1>2

(* With the embedded store, readability is inductive.                       *)
LEMMA EmbeddedStep == Embedded /\ EmbeddedInv /\ [Next]_vars => EmbeddedInv'
<1> SUFFICES ASSUME Embedded, EmbeddedInv, [Next]_vars PROVE EmbeddedInv'
  OBVIOUS
<1>1. Inv'
  BY StepInv DEF EmbeddedInv
<1>2. Unowned'
  BY UnownedStep DEF EmbeddedInv
<1>3. HeldIsReadable'
  <2>1. CASE UNCHANGED vars
    BY <2>1 DEF vars, EmbeddedInv, HeldIsReadable, Readable, Exists
  <2>2. CASE Next
    <3> SUFFICES ASSUME NEW u \in Puts, at'[u] = "held", ~Readable(Content[u])' PROVE FALSE
      BY DEF HeldIsReadable
    <3>1. at[u] = "held" => Readable(Content[u])
      BY DEF EmbeddedInv, HeldIsReadable
    <3>2. PICK p \in Procs : SweepUnlinks(p, Content[u])
      BY <1>1, <2>2, <3>1, LossStep DEF EmbeddedInv
    <3>3. at[u] = "held" /\ Content[u] \in unlinks[p] /\ Content[u] \in Blobs
      BY <3>2, CasAssumption DEF SweepUnlinks, putVars
    <3>4. Exists(row[Content[u]])
      BY <3>3, HeldIsCounted DEF EmbeddedInv, Inv
    <3> QED
      BY <3>3, <3>4 DEF EmbeddedInv, Unowned
  <2> QED
    BY <2>1, <2>2
<1> QED
  BY <1>1, <1>2, <1>3 DEF EmbeddedInv

(* With the embedded store whoever holds a key can read the bytes behind    *)
(* it, whatever publishes, heals, sweeps, fails or crashes.                 *)
THEOREM EmbeddedHolds ==
    ASSUME Embedded
    PROVE  Spec => []HeldIsReadable
<1>1. Init => EmbeddedInv
  <2>1. Init => Unowned /\ HeldIsReadable
    BY DEF Init, Unowned, HeldIsReadable, Exists
  <2> QED
    BY <2>1, InitInv DEF EmbeddedInv
<1>2. EmbeddedInv /\ [Next]_vars => EmbeddedInv'
  BY EmbeddedStep
<1>3. EmbeddedInv => HeldIsReadable
  BY DEF EmbeddedInv
<1> QED
  BY <1>1, <1>2, <1>3, PTL DEF Spec

-----------------------------------------------------------------------------
(* While no verb fails and nothing crashes, every step moves the count of a *)
(* blob and its holders together.                                           *)
Exact == \A k \in Blobs : Count(row[k]) = Cardinality(Holders(k))

(* A step that moves neither keeps them together.                           *)
LEMMA KeepsExact ==
    ASSUME Exact, \A k \in Blobs : Count(row'[k]) = Count(row[k]),
           \A u \in Puts : at'[u] \in Referring <=> at[u] \in Referring
    PROVE  Exact'
<1>1. \A k \in Blobs : Holders(k)' = Holders(k)
  BY DEF Holders
<1>2. \A k \in Blobs : Count(row[k])' = Count(row'[k])
  BY DEF Count, Exists
<1> QED
  BY <1>1, <1>2 DEF Exact

(* One reference taken, one holder more.                                    *)
LEMMA TakesExact ==
    ASSUME Inv, Exact, NEW u \in Puts, Takes(u), NEW place \in Referring,
           at' = [at EXCEPT ![u] = place], at[u] \notin Referring
    PROVE  Exact'
<1> USE CasAssumption
<1> DEFINE q == Content[u]
<1>0. q \in Blobs /\ row \in [Blobs -> Row \cup {None}] /\ at \in [Puts -> Place]
  BY DEF Inv, TypeOK
<1> SUFFICES ASSUME NEW k \in Blobs PROVE Count(row'[k]) = Cardinality(Holders(k)')
  BY DEF Exact, Count, Exists
<1>1. Count(row[k]) = Cardinality(Holders(k)) /\ IsFiniteSet(Holders(k))
  BY HoldersFinite DEF Exact
<1>2. CASE k # q
  <2>1. row'[k] = row[k] /\ Holders(k)' = Holders(k)
    BY <1>0, <1>2 DEF Takes, Holders
  <2> QED
    BY <1>1, <2>1 DEF Count
<1>3. CASE k = q
  <2>1. Count(row'[k]) = Count(row[k]) + 1
    <3>1. row'[k] = Acquired(row[k], Fresh(u)) /\ row[k] \in Row \cup {None}
      BY <1>0, <1>3 DEF Takes
    <3> QED
      BY <3>1, FreshRow, VerbFacts DEF Inv
  <2>2. Holders(k)' = Holders(k) \cup {u} /\ u \notin Holders(k)
    BY <1>0, <1>3 DEF Holders
  <2>3. Cardinality(Holders(k) \cup {u}) = Cardinality(Holders(k)) + 1
    BY <1>1, <2>2, FS_AddElement
  <2> QED
    BY <1>1, <2>1, <2>2, <2>3
<1> QED
  BY <1>2, <1>3

(* One reference dropped, one holder less.                                  *)
LEMMA DropsExact ==
    ASSUME Inv, Exact, NEW u \in Puts, Drops(u), NEW place \in Place \ Referring,
           at' = [at EXCEPT ![u] = place], at[u] \in Referring
    PROVE  Exact'
<1> USE CasAssumption
<1> DEFINE q == Content[u]
<1>0. q \in Blobs /\ row \in [Blobs -> Row \cup {None}] /\ at \in [Puts -> Place]
  BY DEF Inv, TypeOK
<1> SUFFICES ASSUME NEW k \in Blobs PROVE Count(row'[k]) = Cardinality(Holders(k)')
  BY DEF Exact, Count, Exists
<1>1. Count(row[k]) = Cardinality(Holders(k)) /\ IsFiniteSet(Holders(k))
  BY HoldersFinite DEF Exact
<1>2. CASE k # q
  <2>1. row'[k] = row[k] /\ Holders(k)' = Holders(k)
    BY <1>0, <1>2 DEF Drops, Holders
  <2> QED
    BY <1>1, <2>1 DEF Count
<1>3. CASE k = q
  <2>1. Holders(k)' = Holders(k) \ {u} /\ u \in Holders(k)
    BY <1>0, <1>3 DEF Holders
  <2>2. Cardinality(Holders(k)') = Cardinality(Holders(k)) - 1
    BY <1>1, <2>1, FS_RemoveElement
  <2>3. Count(row'[k]) = Count(row[k]) - 1
    <3>1. row'[k] = Released(row[k]) /\ row[k] \in Row \cup {None}
      BY <1>0, <1>3 DEF Drops
    <3>2. Exists(row[k]) /\ row[k].refs >= 1
      BY <1>3, HolderIsCounted DEF Inv
    <3>3. Count(row[k]) \in Nat /\ Count(row[k]) >= 1
      BY <3>1, <3>2, VerbFacts DEF Count
    <3> QED
      BY <3>1, <3>3, VerbFacts
  <2> QED
    BY <1>1, <2>2, <2>3
<1> QED
  BY <1>2, <1>3

(* No verb has failed so far: the failing branches were not taken.          *)
Faultless == storeErrors = 0 /\ crashes = 0

(* No step moves one without the other.                                     *)
LEMMA ExactStep ==
    ASSUME Inv, Faultless => Exact, [Next]_vars
    PROVE  (Faultless => Exact)'
<1> SUFFICES ASSUME Faultless' PROVE Exact'
  OBVIOUS
<1> USE CasAssumption
<1>0. /\ row \in [Blobs -> Row \cup {None}] /\ at \in [Puts -> Place]
      /\ storeErrors \in Nat /\ crashes \in Nat
  BY DEF Inv, TypeOK
<1>1. ASSUME UNCHANGED <<row, storeErrors, crashes>>,
             \A u \in Puts : at'[u] \in Referring <=> at[u] \in Referring
      PROVE  Exact'
  BY <1>1, KeepsExact DEF Faultless
<1>2. ASSUME NEW k, NEW after, StoreFails(k, after) PROVE storeErrors' # 0
  BY <1>0, <1>2 DEF StoreFails
<1>3. ASSUME NEW p \in Procs, NEW u \in Puts, Begin(p, u) PROVE Exact'
  BY <1>0, <1>1, <1>3 DEF Begin, Referring, faultVars
<1>4. ASSUME NEW u \in Puts, Writes(u) PROVE Exact'
  BY <1>1, <1>4 DEF Writes, faultVars
<1>5. ASSUME NEW u \in Puts, StreamFails(u) \/ StreamEnds(u) PROVE Exact'
  BY <1>0, <1>1, <1>5 DEF StreamFails, StreamEnds, Referring, faultVars
<1>6. ASSUME NEW u \in Puts, Acquires(u) PROVE Exact'
  <2>1. at[u] \notin Referring /\ Takes(u) /\ Exact
    BY <1>6 DEF Acquires, Referring, Takes, Faultless, faultVars
  <2>2. PICK place \in Referring : at' = [at EXCEPT ![u] = place]
    BY <1>6 DEF Acquires, Referring
  <2> QED
    BY <2>1, <2>2, TakesExact
<1>7. ASSUME NEW u \in Puts, AcquireFails(u) PROVE Exact'
  BY <1>2, <1>7 DEF AcquireFails, Faultless
<1>8. ASSUME NEW u \in Puts, Publishes(u) \/ Heals(u) \/ Discards(u) PROVE Exact'
  BY <1>0, <1>1, <1>8 DEF Publishes, Heals, Discards, Install, Referring, faultVars
<1>9. ASSUME NEW u \in Puts, PublishFails(u) \/ HealFails(u) PROVE Exact'
  BY <1>0, <1>1, <1>9 DEF PublishFails, HealFails, Referring
<1>10. ASSUME NEW u \in Puts, RollsBack(u) \/ Undoes(u) \/ Release(u) PROVE Exact'
  <2>1. Drops(u) /\ Exact
    BY <1>2, <1>10 DEF RollsBack, Undoes, Release, LetsGo, Drops, Faultless
  <2>2. at[u] \in Referring
    BY <1>10 DEF RollsBack, Undoes, Release, Referring
  <2>3. PICK place \in {"purging", "failed", "released"} : at' = [at EXCEPT ![u] = place]
    BY <1>10 DEF RollsBack, Undoes, Release
  <2>4. place \in Place \ Referring
    BY <2>3 DEF Place, InTurn, Referring
  <2> QED
    BY <2>1, <2>2, <2>3, <2>4, DropsExact
<1>11. ASSUME NEW k \in Blobs, UNCHANGED row \/ Deletes(k), Exact,
              \A u \in Puts : at'[u] \in Referring <=> at[u] \in Referring
       PROVE  Exact'
  <2>1. \A b \in Blobs : Count(row'[b]) = Count(row[b])
    <3> TAKE b \in Blobs
    <3>1. CASE row'[b] = row[b]
      BY <3>1
    <3>2. CASE Claimable(row[b]) /\ row'[b] = None
      BY <1>0, <3>2, VerbFacts DEF Count, Exists
    <3> QED
      BY <1>0, <1>11, <3>1, <3>2 DEF Deletes
  <2> QED
    BY <1>11, <2>1, KeepsExact
<1>12. ASSUME NEW u \in Puts, Purges(u) PROVE Exact'
  <2>1. /\ at[u] = "purging" /\ at' = [at EXCEPT ![u] = "failed"] /\ Content[u] \in Blobs
        /\ Exact
        /\ row' = [row EXCEPT ![Content[u]] =
                     IF Claimable(row[Content[u]]) THEN None ELSE row[Content[u]]]
    BY <1>2, <1>12 DEF Purges, Faultless
  <2>2. \A v \in Puts : at'[v] \in Referring <=> at[v] \in Referring
    BY <1>0, <2>1 DEF Referring
  <2>3. UNCHANGED row \/ Deletes(Content[u])
    BY <1>0, <2>1 DEF Deletes
  <2> QED
    BY <1>11, <2>1, <2>2, <2>3
<1>13. ASSUME NEW p \in Procs, NEW k \in Blobs, SweepClaims(p, k) PROVE Exact'
  <2>1. UNCHANGED at /\ Exact
    BY <1>2, <1>13 DEF SweepClaims, putVars, Faultless
  <2>2. UNCHANGED row \/ Deletes(k)
    BY <1>2, <1>13 DEF SweepClaims, Deletes, Faultless
  <2> QED
    BY <1>11, <2>1, <2>2
<1>14. ASSUME NEW p \in Procs, SweepLists(p) PROVE Exact'
  BY <1>1, <1>14 DEF SweepLists, putVars, faultVars
<1>15. ASSUME NEW p \in Procs, NEW k \in Blobs, SweepUnlinks(p, k) PROVE Exact'
  BY <1>1, <1>15 DEF SweepUnlinks, putVars
<1>16. ASSUME NEW k \in Blobs, Scrubs(k) PROVE Exact'
  BY <1>1, <1>16 DEF Scrubs, putVars, faultVars
<1>v. ASSUME NEW p \in Procs, VerifyStep(p) PROVE Exact'
  BY <1>1, <1>v, VerifyMoves
<1>17. ASSUME NEW p \in Procs, Crash(p) PROVE Exact'
  BY <1>0, <1>17 DEF Crash, Faultless
<1>18. CASE Tick
  <2>1. UNCHANGED at /\ Ages /\ Exact
    BY <1>18 DEF Tick, Ages, Faultless, faultVars
  <2> QED
    BY <2>1, AgesCount, KeepsExact DEF Inv
<1>19. CASE UNCHANGED vars
  BY <1>1, <1>19 DEF vars
<1> QED
  BY <1>3, <1>4, <1>5, <1>6, <1>7, <1>8, <1>9, <1>10, <1>12, <1>13, <1>14, <1>15, <1>16, <1>v,
     <1>17, <1>18, <1>19 DEF Next, PutStep, SweepStep

(* At first nobody holds, and nothing is counted.                           *)
LEMMA InitExact == Init => Exact
<1>1. ASSUME Init, NEW k \in Blobs PROVE Count(row[k]) = Cardinality(Holders(k))
  <2>1. Holders(k) = {} /\ Count(row[k]) = 0
    BY <1>1, CasAssumption DEF Init, Holders, Referring, Count, Exists
  <2> QED
    BY <2>1, FS_EmptySet
<1> QED
  BY <1>1 DEF Exact

(* A put that got no key leaves no reference behind, and a holder has one:  *)
(* over a store that did not fail, in a driver that did not crash, the      *)
(* count of a blob is the number of its holders.                            *)
THEOREM RefsAreExact == Spec => []RefsExact
<1>1. Init => Inv /\ (Faultless => Exact)
  BY InitInv, InitExact
<1>2. Inv /\ (Faultless => Exact) /\ [Next]_vars => Inv' /\ (Faultless => Exact)'
  BY StepInv, ExactStep
<1>3. (Faultless => Exact) => RefsExact
  BY DEF Faultless, Exact, RefsExact, Refs, Count
<1> QED
  BY <1>1, <1>2, <1>3, PTL DEF Spec

-----------------------------------------------------------------------------
(* With the embedded store nothing runs between a put's acquireRef and the  *)
(* end of its turn.  Until then no other put publishes the content, so a    *)
(* rollback that deletes the row leaves no file behind.                     *)
Cleanly == crashes = 0 /\ unlinkErrors = 0

Accounted ==
    \A k \in Blobs : file[k] # None => Exists(row[k]) \/ \E p \in Procs : k \in unlinks[p]

Unpublished ==
    \A u \in Puts : at[u] \in {"publishing", "rolling", "purging"} => file[Content[u]] = None

OrphanInv == Inv /\ (Cleanly => Accounted /\ Unpublished)

(* A step that gives no file and takes no row, nor puts anything in its     *)
(* turn, leaves everything accounted for.                                   *)
LEMMA KeepsAccounted ==
    ASSUME Accounted, Unpublished, UNCHANGED unlinks,
           \A k \in Blobs : file'[k] # None => file[k] # None,
           \A k \in Blobs : Exists(row[k]) => Exists(row'[k]),
           \A u \in Puts : at'[u] \in {"publishing", "rolling", "purging"} =>
                              at[u] \in {"publishing", "rolling", "purging"},
           \A u \in Puts : Content[u] \in Blobs
    PROVE  Accounted' /\ Unpublished'
<1>1. ASSUME NEW k \in Blobs, file'[k] # None
      PROVE  Exists(row'[k]) \/ \E p \in Procs : k \in unlinks'[p]
  BY <1>1 DEF Accounted
<1>2. ASSUME NEW u \in Puts, at'[u] \in {"publishing", "rolling", "purging"}
      PROVE  file'[Content[u]] = None
  BY <1>2 DEF Unpublished
<1> QED
  BY <1>1, <1>2 DEF Accounted, Unpublished, Exists

(* No step of a clean run leaves a file behind.                             *)
LEMMA OrphanStep ==
    ASSUME Embedded, OrphanInv, [Next]_vars
    PROVE  (Cleanly => Accounted /\ Unpublished)'
<1> SUFFICES ASSUME Cleanly' PROVE Accounted' /\ Unpublished'
  OBVIOUS
<1>0. /\ row \in [Blobs -> Row \cup {None}] /\ at \in [Puts -> Place]
      /\ file \in [Blobs -> Nat \cup {None}] /\ unlinks \in [Procs -> SUBSET Blobs]
      /\ unlinkErrors \in Nat /\ crashes \in Nat
      /\ \A u \in Puts : Content[u] \in Blobs
  BY CasAssumption DEF OrphanInv, Inv, TypeOK
<1>k. ASSUME UNCHANGED <<unlinks, unlinkErrors, crashes>>,
             \A k \in Blobs : file'[k] # None => file[k] # None,
             \A k \in Blobs : Exists(row[k]) => Exists(row'[k]),
             \A u \in Puts : at'[u] \in {"publishing", "rolling", "purging"} =>
                                at[u] \in {"publishing", "rolling", "purging"}
      PROVE  Accounted' /\ Unpublished'
  BY <1>0, <1>k, KeepsAccounted DEF OrphanInv, Cleanly
<1>f. ASSUME UnlinkFails PROVE FALSE
  BY <1>0, <1>f DEF UnlinkFails, Cleanly
<1>r. ASSUME NEW u \in Puts, Drops(u) PROVE \A k \in Blobs : Exists(row[k]) => Exists(row'[k])
  BY <1>0, <1>r, VerbFacts DEF Drops
<1>1. ASSUME NEW p \in Procs, NEW u \in Puts, Begin(p, u) PROVE Accounted' /\ Unpublished'
  BY <1>0, <1>1, <1>k DEF Begin, gcVars, faultVars
<1>2. ASSUME NEW u \in Puts, Writes(u) PROVE Accounted' /\ Unpublished'
  BY <1>2, <1>k DEF Writes, gcVars, faultVars
<1>3. ASSUME NEW u \in Puts, StreamFails(u) \/ StreamEnds(u) PROVE Accounted' /\ Unpublished'
  BY <1>0, <1>3, <1>k DEF StreamFails, StreamEnds, gcVars, faultVars
<1>4. ASSUME NEW u \in Puts, Acquires(u) PROVE Accounted' /\ Unpublished'
  <2>1. /\ row' = [row EXCEPT ![Content[u]] = Acquired(@, Fresh(u))]
        /\ UNCHANGED <<file, unlinks>> /\ Accounted /\ Unpublished
        /\ \A p \in Procs : ~Sweeping(p)
    BY <1>4 DEF Acquires, gcVars, faultVars, PutMayRun, OrphanInv, Cleanly
  <2>2. \A k \in Blobs : Exists(row[k]) => Exists(row'[k])
    <3> SUFFICES ASSUME NEW k \in Blobs, Exists(row[k]) PROVE Exists(row'[k])
      OBVIOUS
    <3>1. CASE k = Content[u]
      <4>1. row'[k] = Acquired(row[k], Fresh(u)) /\ row[k] \in Row \cup {None}
        BY <1>0, <2>1, <3>1
      <4>2. row'[k] \in Row
        BY <4>1, FreshRow, VerbFacts DEF OrphanInv, Inv
      <4> QED
        BY <4>2, NoneAssumption DEF Exists, Row
    <3>2. CASE k # Content[u]
      BY <1>0, <2>1, <3>2
    <3> QED
      BY <3>1, <3>2
  <2>3. at' = [at EXCEPT ![u] = at'[u]]
        /\ (at'[u] = "publishing" => ~Exists(row[Content[u]]))
        /\ at'[u] \notin {"rolling", "purging"}
    BY <1>0, <1>4 DEF Acquires
  <2>4. at'[u] = "publishing" => file[Content[u]] = None
    BY <1>0, <2>1, <2>3 DEF Accounted, Sweeping
  <2>5. Accounted'
    BY <2>1, <2>2 DEF Accounted, Exists
  <2>6. Unpublished'
    <3> SUFFICES ASSUME NEW v \in Puts, at'[v] \in {"publishing", "rolling", "purging"}
                 PROVE  file[Content[v]] = None
      BY <2>1 DEF Unpublished
    <3>1. CASE v = u
      BY <2>3, <2>4, <3>1
    <3>2. CASE v # u
      BY <1>0, <2>1, <2>3, <3>2 DEF Unpublished
    <3> QED
      BY <3>1, <3>2
  <2> QED
    BY <2>5, <2>6
<1>5. ASSUME NEW u \in Puts, AcquireFails(u) PROVE Accounted' /\ Unpublished'
  BY <1>0, <1>5, <1>k DEF AcquireFails, StoreFails, gcVars
<1>6. ASSUME NEW u \in Puts, Publishes(u) \/ Heals(u) PROVE Accounted' /\ Unpublished'
  <2>1. /\ at[u] \in Referring /\ at' = [at EXCEPT ![u] = "held"]
        /\ file' = [file EXCEPT ![Content[u]] = tmp[u]]
        /\ UNCHANGED <<row, unlinks>> /\ Accounted /\ Unpublished
        /\ \A v \in Puts \ {u} : at[v] \notin InTurn
    BY <1>6 DEF Publishes, Heals, Install, gcVars, faultVars, PutMayRun, OrphanInv, Cleanly, Referring
  <2>2. Exists(row[Content[u]])
    BY <2>1, HolderIsCounted DEF OrphanInv, Inv
  <2>3. Accounted'
    BY <1>0, <2>1, <2>2 DEF Accounted, Exists
  <2>4. Unpublished'
    BY <1>0, <2>1 DEF Unpublished, InTurn
  <2> QED
    BY <2>3, <2>4
<1>7. ASSUME NEW u \in Puts, Discards(u) PROVE Accounted' /\ Unpublished'
  BY <1>0, <1>7, <1>f, <1>k DEF Discards, gcVars
<1>8. ASSUME NEW u \in Puts, PublishFails(u) \/ HealFails(u) PROVE Accounted' /\ Unpublished'
  BY <1>0, <1>8, <1>k DEF PublishFails, HealFails, gcVars
<1>9. ASSUME NEW u \in Puts, RollsBack(u) \/ Undoes(u) \/ Release(u)
      PROVE  Accounted' /\ Unpublished'
  <2>1. UNCHANGED row \/ Drops(u)
    BY <1>9 DEF RollsBack, Undoes, Release, LetsGo, StoreFails, Drops
  <2>2. \A k \in Blobs : Exists(row[k]) => Exists(row'[k])
    BY <1>r, <2>1
  <2>3. \A v \in Puts : at'[v] \in {"publishing", "rolling", "purging"} =>
                           at[v] \in {"publishing", "rolling", "purging"}
    BY <1>0, <1>9 DEF RollsBack, Undoes, Release
  <2>4. UNCHANGED <<file, unlinks, unlinkErrors, crashes>>
    BY <1>9 DEF RollsBack, Undoes, Release, gcVars
  <2> QED
    BY <1>k, <2>2, <2>3, <2>4
<1>10. ASSUME NEW u \in Puts, Purges(u) PROVE Accounted' /\ Unpublished'
  <2>1. /\ at[u] = "purging" /\ at' = [at EXCEPT ![u] = "failed"]
        /\ UNCHANGED <<file, unlinks, unlinkErrors, crashes>>
        /\ Accounted /\ Unpublished
    BY <1>10 DEF Purges, gcVars, OrphanInv, Cleanly
  <2>2. UNCHANGED row \/ row' = [row EXCEPT ![Content[u]] =
                                   IF Claimable(row[Content[u]]) THEN None ELSE row[Content[u]]]
    BY <1>10 DEF Purges, StoreFails
  <2>3. file[Content[u]] = None
    BY <2>1 DEF Unpublished
  <2>4. \A k \in Blobs : k # Content[u] => row'[k] = row[k]
    BY <1>0, <2>2
  <2>5. Accounted'
    BY <2>1, <2>3, <2>4 DEF Accounted, Exists
  <2>6. Unpublished'
    BY <1>0, <2>1 DEF Unpublished
  <2> QED
    BY <2>5, <2>6
<1>11. ASSUME NEW p \in Procs, SweepLists(p) PROVE Accounted' /\ Unpublished'
  BY <1>11, <1>k DEF SweepLists, putVars, faultVars
<1>12. ASSUME NEW p \in Procs, NEW k \in Blobs, SweepClaims(p, k) PROVE Accounted' /\ Unpublished'
  <2>1. UNCHANGED <<at, file, unlinkErrors, crashes>> /\ Accounted /\ Unpublished
    BY <1>12 DEF SweepClaims, putVars, OrphanInv, Cleanly
  <2>2. \/ UNCHANGED <<row, unlinks>>
        \/ /\ row' = [row EXCEPT ![k] = None]
           /\ unlinks' = [unlinks EXCEPT ![p] = @ \cup {k}]
    BY <1>12 DEF SweepClaims, StoreFails
  <2>3. CASE UNCHANGED <<row, unlinks>>
    BY <2>1, <2>3, <1>k
  <2>4. CASE /\ row' = [row EXCEPT ![k] = None]
             /\ unlinks' = [unlinks EXCEPT ![p] = @ \cup {k}]
    <3>1. k \in unlinks'[p] /\ \A b \in Blobs, q \in Procs : b \in unlinks[q] => b \in unlinks'[q]
      BY <1>0, <2>4
    <3>2. \A b \in Blobs : b # k => row'[b] = row[b]
      BY <1>0, <2>4
    <3>3. Accounted'
      BY <2>1, <3>1, <3>2 DEF Accounted, Exists
    <3>4. Unpublished'
      BY <2>1 DEF Unpublished
    <3> QED
      BY <3>3, <3>4
  <2> QED
    BY <2>2, <2>3, <2>4
<1>13. ASSUME NEW p \in Procs, NEW k \in Blobs, SweepUnlinks(p, k) PROVE Accounted' /\ Unpublished'
  <2>1. /\ UNCHANGED <<at, row, unlinkErrors, crashes>> /\ Accounted /\ Unpublished
        /\ file' = [file EXCEPT ![k] = None]
        /\ unlinks' = [unlinks EXCEPT ![p] = @ \ {k}]
    BY <1>13, <1>f DEF SweepUnlinks, putVars, OrphanInv, Cleanly
  <2>2. \A b \in Blobs \ {k}, q \in Procs : b \in unlinks[q] => b \in unlinks'[q]
    BY <1>0, <2>1
  <2>3. file'[k] = None /\ \A b \in Blobs : b # k => file'[b] = file[b]
    BY <1>0, <2>1
  <2>4. Accounted'
    BY <2>1, <2>2, <2>3 DEF Accounted, Exists
  <2>5. Unpublished'
    BY <1>0, <2>1, <2>3 DEF Unpublished
  <2> QED
    BY <2>4, <2>5
<1>14. ASSUME NEW p \in Procs, VerifyStep(p) PROVE Accounted' /\ Unpublished'
  BY <1>14, <1>k, VerifyMoves
<1>15. ASSUME NEW k \in Blobs, Scrubs(k) PROVE Accounted' /\ Unpublished'
  BY <1>0, <1>15, <1>k DEF Scrubs, putVars, gcVars, faultVars
<1>16. ASSUME NEW p \in Procs, Crash(p) PROVE FALSE
  BY <1>0, <1>16 DEF Crash, Cleanly
<1>17. CASE Tick
  <2>1. UNCHANGED <<at, unlinks, unlinkErrors, crashes>> /\ Ages
        /\ \A k \in Blobs : file'[k] = Later(file[k])
    BY <1>17 DEF Tick, Ages, gcVars, faultVars
  <2>2. \A k \in Blobs : file'[k] # None => file[k] # None
    BY <1>0, <2>1, LaterType
  <2>3. \A k \in Blobs : Exists(row[k]) => Exists(row'[k])
    <3> SUFFICES ASSUME NEW k \in Blobs, Exists(row[k]) PROVE Exists(row'[k])
      OBVIOUS
    <3>1. row[k] \in Row /\ row'[k] = [row[k] EXCEPT !.zero = Later(@), !.age = Later(@)]
      BY <1>0, <2>1 DEF Ages, Exists
    <3>2. row'[k] \in Row
      BY <3>1, OlderRow
    <3> QED
      BY <3>2, NoneAssumption DEF Exists, Row
  <2> QED
    BY <1>k, <2>1, <2>2, <2>3
<1>18. CASE UNCHANGED vars
  BY <1>18, <1>k DEF vars
<1> QED
  BY <1>1, <1>2, <1>3, <1>4, <1>5, <1>6, <1>7, <1>8, <1>9, <1>10, <1>11, <1>12, <1>13, <1>14,
     <1>15, <1>16, <1>17, <1>18 DEF Next, PutStep, SweepStep

(* With the embedded store only a crash or a failed unlink leaves a blob    *)
(* file that no row accounts for.                                           *)
THEOREM FilesAccounted ==
    ASSUME Embedded
    PROVE  Spec => []NoOrphanFile
<1>1. Init => OrphanInv
  <2>1. Init => Accounted /\ Unpublished
    BY CasAssumption DEF Init, Accounted, Unpublished
  <2> QED
    BY <2>1, InitInv DEF OrphanInv
<1>2. OrphanInv /\ [Next]_vars => OrphanInv'
  BY StepInv, OrphanStep DEF OrphanInv
<1>3. OrphanInv => NoOrphanFile
  BY DEF OrphanInv, Cleanly, Accounted, NoOrphanFile
<1> QED
  BY <1>1, <1>2, <1>3, PTL DEF Spec

-----------------------------------------------------------------------------
(* With the embedded store the sweep claims in the turn that listed: what   *)
(* it is still to claim has sat at zero for the grace window.               *)
ClaimsRipe ==
    \A p \in Procs, k \in Blobs : k \in claims[p] /\ Exists(row[k]) => Collectable(row[k], Grace)

GraceInv == Inv /\ ClaimsRipe

(* No step makes a listed row unripe.                                       *)
LEMMA ClaimsStep ==
    ASSUME Embedded, GraceInv, [Next]_vars
    PROVE  ClaimsRipe'
<1>0. /\ row \in [Blobs -> Row \cup {None}] /\ claims \in [Procs -> SUBSET Blobs]
  BY DEF GraceInv, Inv, TypeOK
<1> SUFFICES ASSUME NEW p \in Procs, NEW k \in Blobs, k \in claims'[p], Exists(row'[k])
             PROVE  Collectable(row'[k], Grace)
  BY DEF ClaimsRipe, Collectable, Claimable, Exists
<1>1. ASSUME row'[k] = row[k], claims'[p] \subseteq claims[p] PROVE Collectable(row'[k], Grace)
  BY <1>1 DEF GraceInv, ClaimsRipe
<1>2. ASSUME NEW u \in Puts, PutMayRun(u), UNCHANGED claims PROVE FALSE
  BY <1>2 DEF PutMayRun, Sweeping
<1>3. ASSUME NEW u \in Puts, PutStep(u) \/ Writes(u) \/ Release(u) PROVE FALSE
  <2>1. PutMayRun(u) /\ UNCHANGED claims
    BY <1>3 DEF PutStep, Writes, Release, StreamFails, StreamEnds, Acquires, AcquireFails,
                Publishes, PublishFails, Heals, Discards, HealFails, RollsBack, Purges, Undoes,
                Install, gcVars
  <2> QED
    BY <1>2, <2>1
<1>4. ASSUME NEW q \in Procs, NEW u \in Puts, Begin(q, u) PROVE FALSE
  BY <1>2, <1>4 DEF Begin, gcVars
<1>5. ASSUME NEW q \in Procs, SweepLists(q) PROVE Collectable(row'[k], Grace)
  <2>1. UNCHANGED row
    BY <1>5 DEF SweepLists
  <2>2. PICK S \in SUBSET Blobs : Batch(S) /\ claims' = [claims EXCEPT ![q] = S]
    BY <1>5 DEF SweepLists
  <2>3. CASE p = q
    BY <1>0, <2>1, <2>2, <2>3 DEF Batch
  <2>4. CASE p # q
    BY <1>0, <1>1, <2>1, <2>2, <2>4
  <2> QED
    BY <2>3, <2>4
<1>6. ASSUME NEW q \in Procs, NEW b \in Blobs, SweepClaims(q, b)
      PROVE  Collectable(row'[k], Grace)
  <2>1. claims'[p] \subseteq claims[p]
    BY <1>0, <1>6 DEF SweepClaims
  <2>2. UNCHANGED row \/ row' = [row EXCEPT ![b] = None]
    BY <1>6 DEF SweepClaims, StoreFails
  <2>3. row'[k] = row[k]
    BY <1>0, <2>2 DEF Exists
  <2> QED
    BY <1>1, <2>1, <2>3
<1>7. ASSUME NEW q \in Procs, NEW b \in Blobs, SweepUnlinks(q, b)
      PROVE  Collectable(row'[k], Grace)
  BY <1>1, <1>7 DEF SweepUnlinks
<1>8. ASSUME NEW b \in Blobs, Scrubs(b) PROVE Collectable(row'[k], Grace)
  BY <1>1, <1>8 DEF Scrubs, gcVars
<1>v. ASSUME NEW q \in Procs, VerifyStep(q) PROVE Collectable(row'[k], Grace)
  BY <1>1, <1>v, VerifyMoves
<1>9. ASSUME NEW q \in Procs, Crash(q) PROVE Collectable(row'[k], Grace)
  BY <1>0, <1>1, <1>9 DEF Crash
<1>10. CASE Tick
  BY <1>10 DEF Tick, AllQuiet, Sweeping, gcVars
<1>11. CASE UNCHANGED vars
  BY <1>1, <1>11 DEF vars
<1> QED
  BY <1>3, <1>4, <1>5, <1>6, <1>7, <1>8, <1>v, <1>9, <1>10, <1>11 DEF Next, SweepStep

(* With the embedded store no blob is collected that did not sit at zero    *)
(* for the grace window.                                                    *)
THEOREM GraceIsHonored ==
    ASSUME Embedded
    PROVE  Spec => GraceHonored
<1>1. Init => GraceInv
  <2>1. Init => ClaimsRipe
    BY DEF Init, ClaimsRipe
  <2> QED
    BY <2>1, InitInv DEF GraceInv
<1>2. GraceInv /\ [Next]_vars => GraceInv'
  BY StepInv, ClaimsStep DEF GraceInv
<1>3. GraceInv /\ [Next]_vars =>
        [\A p \in Procs, k \in Blobs :
           SweepClaims(p, k) /\ Exists(row[k]) /\ ~Exists(row[k])' => Collectable(row[k], Grace)]_vars
  BY DEF GraceInv, ClaimsRipe, SweepClaims
<1> QED
  BY <1>1, <1>2, <1>3, PTL DEF Spec, GraceHonored

-----------------------------------------------------------------------------
(* Neither a tick nor another put touches the age of the row a put created  *)
(* before that put has published its file or dropped its reference.         *)
AgesTogether ==
    \A u \in Puts : at[u] \in {"publishing", "rolling"} =>
                       Exists(row[Content[u]]) /\ row[Content[u]].age = born[u]

(* What the verbs do to the age of a row.                                   *)
LEMMA VerbAges ==
    \A r \in Row : /\ Released(r).age = r.age
                   /\ \A f : Acquired(r, f).age = r.age
<1> TAKE r \in Row
<1>1. r \in Fields /\ r # None
  BY NoneAssumption DEF Row
<1>2. ASSUME NEW n, NEW z PROVE [r EXCEPT !.refs = n, !.zero = z].age = r.age
  BY <1>1 DEF Fields
<1>3. Released(r).age = r.age
  BY <1>2 DEF Released
<1>4. \A f : Acquired(r, f).age = r.age
  BY <1>1, <1>2 DEF Acquired, Exists
<1> QED
  BY <1>3, <1>4

(* No step sets the row and its put apart.                                  *)
LEMMA AgesStep ==
    ASSUME Inv, AgesTogether, [Next]_vars
    PROVE  AgesTogether'
<1> USE CasAssumption
<1>0. /\ row \in [Blobs -> Row \cup {None}] /\ at \in [Puts -> Place]
      /\ born \in [Puts -> Nat] /\ None \notin Row
  BY NoneAssumption DEF Inv, TypeOK, Row
<1> SUFFICES ASSUME NEW v \in Puts, at'[v] \in {"publishing", "rolling"}
             PROVE  Exists(row'[Content[v]]) /\ row'[Content[v]].age = born'[v]
  BY DEF AgesTogether, Exists
<1> DEFINE k == Content[v]
           Goal == Exists(row'[k]) /\ row'[k].age = born'[v]
<1>1. k \in Blobs /\ row[k] \in Row \cup {None}
  BY <1>0
<1>2. ASSUME at[v] \in {"publishing", "rolling"}
      PROVE  Exists(row[k]) /\ row[k].age = born[v] /\ row[k].refs >= 1 /\ row[k] \in Row
  <2>1. Exists(row[k]) /\ row[k].age = born[v]
    BY <1>2 DEF AgesTogether
  <2>2. row[k].refs >= 1
    BY <1>2, HolderIsCounted DEF Referring, Inv
  <2> QED
    BY <1>1, <2>1, <2>2 DEF Exists
<1>3. ASSUME at[v] \in {"publishing", "rolling"}, UNCHANGED born,
             \/ UNCHANGED row
             \/ \E u \in Puts : Takes(u)
             \/ \E u \in Puts : Drops(u)
             \/ \E b \in Blobs : Deletes(b)
      PROVE  Goal
  <2>1. Exists(row[k]) /\ row[k].age = born[v] /\ row[k].refs >= 1 /\ row[k] \in Row
    BY <1>2, <1>3
  <2>2. ASSUME NEW u \in Puts, Takes(u) PROVE Goal
    <3>1. row'[k] = row[k] \/ row'[k] = Acquired(row[k], Fresh(u))
      BY <1>0, <1>1, <2>2 DEF Takes
    <3>2. Acquired(row[k], Fresh(u)) \in Row
      BY <2>1, FreshRow, VerbFacts DEF Inv
    <3> QED
      BY <1>0, <1>3, <2>1, <3>1, <3>2, VerbAges DEF Exists
  <2>3. ASSUME NEW u \in Puts, Drops(u) PROVE Goal
    <3>1. row'[k] = row[k] \/ row'[k] = Released(row[k])
      BY <1>0, <1>1, <2>3 DEF Drops
    <3>2. Exists(Released(row[k]))
      BY <2>1, VerbFacts
    <3> QED
      BY <1>3, <2>1, <3>1, <3>2, VerbAges
  <2>4. ASSUME NEW b \in Blobs, Deletes(b) PROVE Goal
    <3>1. b # k
      BY <2>1, <2>4 DEF Deletes, Claimable
    <3> QED
      BY <1>0, <1>1, <1>3, <2>1, <2>4, <3>1 DEF Deletes
  <2> QED
    BY <1>3, <2>1, <2>2, <2>3, <2>4
<1>4. ASSUME NEW u \in Puts, Acquires(u) PROVE Goal
  <2>1. Takes(u) /\ UNCHANGED born
    BY <1>4 DEF Acquires, Takes
  <2>2. CASE v = u /\ at'[u] = "publishing"
    <3>1. ~Exists(row[k])
      BY <1>0, <1>4, <2>2 DEF Acquires
    <3>2. row'[k] = Fresh(u)
      BY <1>0, <1>1, <2>1, <2>2, <3>1 DEF Takes, Acquired
    <3>3. Fresh(u) \in Row /\ Fresh(u).age = born[u]
      BY FreshRow DEF Inv, Fresh
    <3> QED
      BY <1>0, <2>1, <2>2, <3>2, <3>3 DEF Exists
  <2>3. CASE v # u
    <3>1. at[v] = at'[v]
      BY <1>0, <1>4, <2>3 DEF Acquires
    <3> QED
      BY <1>3, <2>1, <3>1
  <2>4. at'[u] # "rolling"
    BY <1>0, <1>4 DEF Acquires
  <2> QED
    BY <2>2, <2>3, <2>4
<1>5. ASSUME NEW u \in Puts, PutStep(u) \/ Writes(u) \/ Release(u), ~Acquires(u) PROVE Goal
  <2>1. UNCHANGED born /\ at[v] \in {"publishing", "rolling"}
    <3> USE <1>0, <1>5
    <3>1. CASE StreamFails(u) \/ StreamEnds(u) \/ AcquireFails(u) \/ Writes(u)
      BY <3>1 DEF StreamFails, StreamEnds, AcquireFails, Writes
    <3>2. CASE Publishes(u) \/ PublishFails(u) \/ Heals(u) \/ Discards(u) \/ HealFails(u)
      BY <3>2 DEF Publishes, PublishFails, Heals, Discards, HealFails, Install
    <3>3. CASE RollsBack(u) \/ Purges(u) \/ Undoes(u) \/ Release(u)
      BY <3>3 DEF RollsBack, Purges, Undoes, Release
    <3> QED
      BY <3>1, <3>2, <3>3 DEF PutStep
  <2>2. CASE Writes(u)
    BY <1>3, <2>1, <2>2 DEF Writes
  <2>3. CASE PutStep(u) \/ Release(u)
    <3>1. UNCHANGED row \/ Drops(u) \/ Deletes(Content[u]) \/ Takes(u)
      BY <2>3, PutMoves DEF Inv
    <3> QED
      BY <1>0, <1>3, <2>1, <3>1
  <2> QED
    BY <1>5, <2>2, <2>3
<1>6. ASSUME NEW p \in Procs, NEW u \in Puts, Begin(p, u) PROVE Goal
  BY <1>0, <1>3, <1>6 DEF Begin
<1>7. ASSUME NEW p \in Procs, SweepStep(p) PROVE Goal
  <2>1. UNCHANGED <<at, born>>
    BY <1>7 DEF SweepStep, SweepLists, SweepClaims, SweepUnlinks, putVars
  <2>2. UNCHANGED row \/ \E b \in Blobs : Deletes(b)
    BY <1>7, SweepMoves DEF Inv
  <2> QED
    BY <1>3, <2>1, <2>2
<1>8. ASSUME NEW b \in Blobs, Scrubs(b) PROVE Goal
  BY <1>3, <1>8 DEF Scrubs, putVars
<1>v. ASSUME NEW p \in Procs, VerifyStep(p) PROVE Goal
  BY <1>3, <1>v, VerifyMoves
<1>9. ASSUME NEW p \in Procs, Crash(p) PROVE Goal
  BY <1>0, <1>3, <1>9 DEF Crash
<1>10. CASE Tick
  BY <1>10 DEF Tick, AllQuiet, InTurn
<1>11. CASE UNCHANGED vars
  BY <1>3, <1>11 DEF vars
<1> QED
  BY <1>4, <1>5, <1>6, <1>7, <1>8, <1>v, <1>9, <1>10, <1>11 DEF Next

(* What verify() has read.  A put that referred to the row has moved on     *)
(* since, never back to where it could change its birth; while nothing      *)
(* failed there was one; and if it still has no file it is late.            *)
Early == {"idle", "streaming", "acquiring"}

Seen ==
    \A p \in Procs : Verifying(p) =>
        /\ Faultless => verifying[p].holders # {}
        /\ \A u \in verifying[p].holders :
              /\ at[u] \notin Early
              /\ at[u] \in {"publishing", "rolling"} => born[u] >= Grace

AlarmInv == Inv /\ (Faultless => Exact) /\ AgesTogether /\ Seen

(* A put that has taken its reference keeps its birth, and does not publish *)
(* again.                                                                   *)
LEMMA PutGoesOn ==
    ASSUME TypeOK, Next, NEW v \in Puts, at[v] \notin Early
    PROVE  /\ at'[v] \notin Early
           /\ born'[v] = born[v]
           /\ at'[v] \in {"publishing", "rolling"} => at[v] \in {"publishing", "rolling"}
<1> DEFINE Goal == /\ at'[v] \notin Early
                   /\ born'[v] = born[v]
                   /\ at'[v] \in {"publishing", "rolling"} => at[v] \in {"publishing", "rolling"}
<1> USE DEF Early
<1>0. at \in [Puts -> Place] /\ born \in [Puts -> Nat]
  BY DEF TypeOK
<1>1. ASSUME NEW p \in Procs, NEW u \in Puts, Begin(p, u) PROVE Goal
  BY <1>0, <1>1 DEF Begin
<1>2. ASSUME NEW u \in Puts, StreamFails(u) \/ StreamEnds(u) \/ Acquires(u) \/ AcquireFails(u)
                             \/ Writes(u)
      PROVE  Goal
  BY <1>0, <1>2 DEF StreamFails, StreamEnds, Acquires, AcquireFails, Writes
<1>3. ASSUME NEW u \in Puts, Publishes(u) \/ PublishFails(u) \/ Heals(u) \/ Discards(u)
                             \/ HealFails(u)
      PROVE  Goal
  BY <1>0, <1>3 DEF Publishes, PublishFails, Heals, Discards, HealFails, Install
<1>4. ASSUME NEW u \in Puts, RollsBack(u) \/ Purges(u) \/ Undoes(u) \/ Release(u) PROVE Goal
  BY <1>0, <1>4 DEF RollsBack, Purges, Undoes, Release
<1>5. ASSUME NEW p \in Procs, SweepStep(p) PROVE Goal
  BY <1>5 DEF SweepStep, SweepLists, SweepClaims, SweepUnlinks, putVars
<1>6. ASSUME NEW p \in Procs, VerifyStep(p) PROVE Goal
  BY <1>6, VerifyMoves
<1>7. ASSUME NEW k \in Blobs, Scrubs(k) PROVE Goal
  BY <1>7 DEF Scrubs, putVars
<1>8. ASSUME NEW p \in Procs, Crash(p) PROVE Goal
  BY <1>0, <1>8 DEF Crash
<1>9. CASE Tick
  BY <1>0, <1>9 DEF Tick
<1> QED
  BY <1>1, <1>2, <1>3, <1>4, <1>5, <1>6, <1>7, <1>8, <1>9 DEF Next, PutStep

(* Only verify() takes up a row to check; a crash makes it forget.          *)
LEMMA ChecksMove ==
    ASSUME TypeOK, [Next]_vars, NEW p \in Procs, Verifying(p)'
    PROVE  verifying'[p] = verifying[p] \/ \E k \in Blobs : VerifyReads(p, k)
<1>0. verifying \in [Procs -> [key : Blobs, holders : SUBSET Puts] \cup {None}]
  BY DEF TypeOK
<1>1. ASSUME NEW u \in Puts, PutStep(u) \/ Writes(u) \/ Release(u) PROVE UNCHANGED verifying
  BY <1>1 DEF PutStep, Writes, Release, StreamFails, StreamEnds, Acquires, AcquireFails,
              Publishes, PublishFails, Heals, Discards, HealFails, RollsBack, Purges, Undoes,
              Install, gcVars
<1>2. ASSUME NEW q \in Procs, NEW u \in Puts, Begin(q, u) PROVE UNCHANGED verifying
  BY <1>2 DEF Begin, gcVars
<1>3. ASSUME NEW q \in Procs, SweepStep(q) PROVE UNCHANGED verifying
  BY <1>3 DEF SweepStep, SweepLists, SweepClaims, SweepUnlinks
<1>4. ASSUME NEW k \in Blobs, Scrubs(k) PROVE UNCHANGED verifying
  BY <1>4 DEF Scrubs, gcVars
<1>5. ASSUME NEW q \in Procs, Crash(q) PROVE verifying'[p] = verifying[p]
  BY <1>0, <1>5 DEF Crash, Verifying
<1>6. ASSUME NEW q \in Procs, VerifyStep(q)
      PROVE  verifying'[p] = verifying[p] \/ \E k \in Blobs : VerifyReads(p, k)
  <2>1. CASE q = p
    BY <1>0, <1>6, <2>1 DEF VerifyStep, VerifyFinds, VerifyAlarms, Looked, Verifying
  <2>2. CASE q # p
    BY <1>0, <1>6, <2>2 DEF VerifyStep, VerifyReads, VerifyFinds, VerifyAlarms, Looks, Looked
  <2> QED
    BY <2>1, <2>2
<1>7. Tick \/ UNCHANGED vars => UNCHANGED verifying
  BY DEF Tick, gcVars, vars
<1> QED
  BY <1>1, <1>2, <1>3, <1>4, <1>5, <1>6, <1>7 DEF Next

(* What is read is what the row and its puts are.                           *)
LEMMA ReadSees ==
    ASSUME TypeOK, NEW p \in Procs, NEW k \in Blobs, VerifyReads(p, k)
    PROVE  verifying'[p] = [key |-> k, holders |-> Holders(k)]
BY DEF TypeOK, VerifyReads, Looks

(* No fault is ever taken back.                                             *)
LEMMA FaultsStay == TypeOK /\ [Next]_vars /\ Faultless' => Faultless
<1> SUFFICES ASSUME TypeOK, [Next]_vars, Faultless' PROVE Faultless
  OBVIOUS
<1>0. storeErrors \in Nat /\ crashes \in Nat
  BY DEF TypeOK
<1>1. ASSUME NEW u \in Puts, PutStep(u) \/ Writes(u) \/ Release(u) PROVE Faultless
  BY <1>0, <1>1 DEF PutStep, Writes, Release, StreamFails, StreamEnds, Acquires, AcquireFails,
              Publishes, PublishFails, Heals, Discards, HealFails, RollsBack, Purges, Undoes,
              Install, LetsGo, StoreFails, faultVars, Faultless
<1>2. ASSUME NEW p \in Procs, NEW u \in Puts, Begin(p, u) PROVE Faultless
  BY <1>2 DEF Begin, faultVars, Faultless
<1>3. ASSUME NEW p \in Procs, SweepStep(p) PROVE Faultless
  BY <1>0, <1>3 DEF SweepStep, SweepLists, SweepClaims, SweepUnlinks, StoreFails, faultVars,
                    Faultless
<1>4. ASSUME NEW p \in Procs, VerifyStep(p) PROVE Faultless
  BY <1>4, VerifyMoves DEF Faultless
<1>5. ASSUME NEW k \in Blobs, Scrubs(k) PROVE Faultless
  BY <1>5 DEF Scrubs, faultVars, Faultless
<1>6. ASSUME NEW p \in Procs, Crash(p) PROVE Faultless
  BY <1>0, <1>6 DEF Crash, Faultless
<1>7. Tick \/ UNCHANGED vars => Faultless
  BY DEF Tick, faultVars, vars, Faultless
<1> QED
  BY <1>1, <1>2, <1>3, <1>4, <1>5, <1>6, <1>7 DEF Next

(* What is read has a reference, so a put that holds it; and a put that is  *)
(* publishing is as old as the row, which is past the grace window.         *)
LEMMA ReadHasCause ==
    ASSUME Inv, Faultless => Exact, AgesTogether, NEW p \in Procs, NEW k \in Blobs,
           VerifyReads(p, k)
    PROVE  /\ Faultless => Holders(k) # {}
           /\ \A u \in Holders(k) :
                 /\ at[u] \notin Early
                 /\ at[u] \in {"publishing", "rolling"} => born[u] >= Grace
<1>1. Exists(row[k]) /\ row[k].refs >= 1 /\ row[k].age >= Grace
  BY DEF VerifyReads
<1>2. Faultless => Holders(k) # {}
  <2> SUFFICES ASSUME Exact, Holders(k) = {} PROVE FALSE
    OBVIOUS
  <2>1. Count(row[k]) = 0
    BY FS_EmptySet DEF Exact
  <2> QED
    BY <1>1, <2>1 DEF Count
<1>3. ASSUME NEW u \in Holders(k)
      PROVE  /\ at[u] \notin Early
             /\ at[u] \in {"publishing", "rolling"} => born[u] >= Grace
  <2>1. u \in Puts /\ Content[u] = k /\ at[u] \in Referring
    BY DEF Holders
  <2> QED
    BY <1>1, <2>1 DEF AgesTogether, Referring, Early
<1> QED
  BY <1>2, <1>3

(* What verify() has read keeps its cause until the file is looked for,     *)
(* whatever runs in between.                                                *)
LEMMA SeenStep ==
    ASSUME AlarmInv, [Next]_vars
    PROVE  Seen'
<1>1. /\ Inv /\ TypeOK /\ (Faultless => Exact) /\ AgesTogether /\ Seen
      /\ verifying \in [Procs -> [key : Blobs, holders : SUBSET Puts] \cup {None}]
  BY DEF AlarmInv, Inv, TypeOK
<1> SUFFICES ASSUME NEW p \in Procs, Verifying(p)'
             PROVE  /\ Faultless' => verifying'[p].holders # {}
                    /\ \A u \in verifying'[p].holders :
                          /\ at'[u] \notin Early
                          /\ at'[u] \in {"publishing", "rolling"} => born'[u] >= Grace
  BY DEF Seen
<1>2. CASE \E k \in Blobs : VerifyReads(p, k)
  <2>1. PICK k \in Blobs : VerifyReads(p, k)
    BY <1>2
  <2>2. verifying'[p].holders = Holders(k)
    <3>1. verifying'[p] = [key |-> k, holders |-> Holders(k)]
      BY <1>1, <2>1, ReadSees
    <3> QED
      BY <3>1
  <2>3. UNCHANGED <<at, born>> /\ (Faultless' => Faultless)
    BY <2>1, VerifyMoves DEF VerifyStep, Faultless
  <2>4. /\ Faultless => Holders(k) # {}
        /\ \A u \in Holders(k) :
              /\ at[u] \notin Early
              /\ at[u] \in {"publishing", "rolling"} => born[u] >= Grace
    BY <1>1, <2>1, ReadHasCause
  <2> QED
    BY <2>2, <2>3, <2>4
<1>3. CASE verifying'[p] = verifying[p]
  <2>1. /\ Faultless => verifying[p].holders # {}
        /\ verifying[p].holders \subseteq Puts
        /\ \A u \in verifying[p].holders :
              /\ at[u] \notin Early
              /\ at[u] \in {"publishing", "rolling"} => born[u] >= Grace
    BY <1>1, <1>3 DEF Seen, Verifying
  <2>2. Faultless' => Faultless
    BY <1>1, FaultsStay
  <2>3. ASSUME NEW u \in verifying[p].holders
        PROVE  /\ at'[u] \notin Early
               /\ at'[u] \in {"publishing", "rolling"} => born'[u] >= Grace
    <3>1. u \in Puts /\ at[u] \notin Early
          /\ (at[u] \in {"publishing", "rolling"} => born[u] >= Grace)
      BY <2>1
    <3>2. CASE Next
      BY <1>1, <3>1, <3>2, PutGoesOn
    <3>3. CASE UNCHANGED vars
      BY <3>1, <3>3 DEF vars
    <3> QED
      BY <3>2, <3>3
  <2> QED
    BY <1>3, <2>1, <2>2, <2>3
<1> QED
  BY <1>1, <1>2, <1>3, ChecksMove

(* Over a connector too, where the row may be stale when its file is looked *)
(* for, verify() reports no young put as a loss.                            *)
THEOREM AlarmsAreCaused == Spec => AlarmsHaveCause
<1>1. Init => AlarmInv
  <2>1. Init => AgesTogether /\ Seen
    BY DEF Init, AgesTogether, Seen, Verifying
  <2> QED
    BY <2>1, InitInv, InitExact DEF AlarmInv
<1>2. AlarmInv /\ [Next]_vars => AlarmInv'
  BY StepInv, ExactStep, AgesStep, SeenStep DEF AlarmInv
<1>3. AlarmInv /\ [Next]_vars =>
        [\A p \in Procs : VerifyAlarms(p) /\ storeErrors = 0 /\ crashes = 0 =>
           /\ verifying[p].holders # {}
           /\ \A u \in verifying[p].holders :
                 at[u] \in {"publishing", "rolling"} => born[u] >= Grace]_vars
  BY DEF AlarmInv, Seen, Faultless, VerifyAlarms
<1> QED
  BY <1>1, <1>2, <1>3, PTL DEF Spec, AlarmsHaveCause

-----------------------------------------------------------------------------
(* With the embedded store nothing runs between the read of a row and the   *)
(* check of its file.                                                       *)
Checked ==
    \A p \in Procs : Verifying(p) =>
        /\ AllQuiet
        /\ verifying[p].key \in Blobs
        /\ Exists(row[verifying[p].key])
        /\ ~row[verifying[p].key].inline
        /\ row[verifying[p].key].refs >= 1

QuietInv == EmbeddedInv /\ (Faultless => Exact) /\ Checked

(* A row that was read stays as it is until its file was looked for.        *)
LEMMA CheckedStep ==
    ASSUME Embedded, QuietInv, [Next]_vars
    PROVE  Checked'
<1>1. /\ TypeOK /\ Checked /\ at \in [Puts -> Place]
      /\ claims \in [Procs -> SUBSET Blobs] /\ unlinks \in [Procs -> SUBSET Blobs]
  BY DEF QuietInv, EmbeddedInv, Inv, TypeOK
<1> SUFFICES ASSUME NEW p \in Procs, Verifying(p)'
             PROVE  /\ AllQuiet'
                    /\ verifying'[p].key \in Blobs
                    /\ Exists(row'[verifying'[p].key])
                    /\ ~row'[verifying'[p].key].inline
                    /\ row'[verifying'[p].key].refs >= 1
  BY DEF Checked, Exists
<1>2. CASE \E k \in Blobs : VerifyReads(p, k)
  <2>1. PICK k \in Blobs : VerifyReads(p, k)
    BY <1>2
  <2>2. verifying'[p].key = k
    <3>1. verifying'[p] = [key |-> k, holders |-> Holders(k)]
      BY <1>1, <2>1, ReadSees
    <3> QED
      BY <3>1
  <2>3. UNCHANGED <<at, row, claims, unlinks>>
    BY <2>1, VerifyMoves DEF VerifyStep
  <2>4. AllQuiet /\ Exists(row[k]) /\ ~row[k].inline /\ row[k].refs >= 1
    BY <2>1 DEF VerifyReads, Looks
  <2> QED
    BY <2>2, <2>3, <2>4 DEF AllQuiet, Sweeping
<1>3. CASE verifying'[p] = verifying[p]
  <2>1. /\ Verifying(p) /\ AllQuiet /\ ~NoCheck
        /\ verifying[p].key \in Blobs
        /\ Exists(row[verifying[p].key])
        /\ ~row[verifying[p].key].inline
        /\ row[verifying[p].key].refs >= 1
    BY <1>1, <1>3 DEF Checked, Verifying, NoCheck
  <2>2. UNCHANGED row /\ AllQuiet'
    <3>1. ASSUME NEW u \in Puts, PutStep(u) \/ Writes(u) \/ Release(u) PROVE FALSE
      BY <2>1, <3>1 DEF PutStep, Writes, Release, StreamFails, StreamEnds, Acquires, AcquireFails,
                        Publishes, PublishFails, Heals, Discards, HealFails, RollsBack, Purges,
                        Undoes, PutMayRun
    <3>2. ASSUME NEW q \in Procs, NEW u \in Puts, Begin(q, u) PROVE FALSE
      BY <2>1, <3>2 DEF Begin, PutMayRun
    <3>3. ASSUME NEW q \in Procs, SweepStep(q) PROVE FALSE
      BY <2>1, <3>3 DEF SweepStep, SweepLists, SweepClaims, SweepUnlinks, SweepMayRun
    <3>4. ASSUME NEW q \in Procs, VerifyStep(q) PROVE UNCHANGED row /\ AllQuiet'
      BY <2>1, <3>4, VerifyMoves DEF AllQuiet, Sweeping
    <3>5. ASSUME NEW k \in Blobs, Scrubs(k) PROVE FALSE
      BY <2>1, <3>5 DEF Scrubs
    <3>6. ASSUME NEW q \in Procs, Crash(q) PROVE UNCHANGED row /\ AllQuiet'
      <4>1. /\ UNCHANGED row
            /\ \A u \in Puts : at'[u] \in {at[u], "failed"}
            /\ \A r \in Procs : claims'[r] \subseteq claims[r] /\ unlinks'[r] \subseteq unlinks[r]
        BY <1>1, <3>6 DEF Crash
      <4> QED
        BY <2>1, <4>1 DEF AllQuiet, Sweeping, InTurn
    <3>7. ASSUME Tick PROVE FALSE
      BY <2>1, <3>7 DEF Tick
    <3>8. CASE UNCHANGED vars
      BY <2>1, <3>8 DEF vars, AllQuiet, Sweeping
    <3> QED
      BY <3>1, <3>2, <3>3, <3>4, <3>5, <3>6, <3>7, <3>8 DEF Next
  <2> QED
    BY <1>3, <2>1, <2>2
<1> QED
  BY <1>1, <1>2, <1>3, ChecksMove

(* A row with a reference has a holder, and nothing is in its turn, so the  *)
(* holder can read the bytes.                                               *)
LEMMA CheckFinds ==
    ASSUME QuietInv, Faultless, NEW p \in Procs, Verifying(p)
    PROVE  file[verifying[p].key] # None
<1> DEFINE k == verifying[p].key
<1>1. /\ AllQuiet /\ k \in Blobs /\ Exists(row[k]) /\ ~row[k].inline /\ row[k].refs >= 1
      /\ Exact /\ HeldIsReadable
  BY DEF QuietInv, Checked, EmbeddedInv
<1> HIDE DEF k
<1>2. Holders(k) # {}
  <2> SUFFICES ASSUME Holders(k) = {} PROVE FALSE
    OBVIOUS
  <2>1. Count(row[k]) = 0
    BY <1>1, FS_EmptySet DEF Exact
  <2> QED
    BY <1>1, <2>1 DEF Count
<1>3. PICK u \in Puts : Content[u] = k /\ at[u] \in Referring
  BY <1>2 DEF Holders
<1>4. at[u] = "held"
  BY <1>1, <1>3 DEF AllQuiet, Referring, InTurn
<1>5. file[k] # None
  BY <1>1, <1>3, <1>4 DEF HeldIsReadable, Readable
<1> QED
  BY <1>5 DEF k

(* With the embedded store verify() reports only what a crash or an error   *)
(* of the store left behind.                                                *)
THEOREM EmbeddedVerifyIsQuiet ==
    ASSUME Embedded
    PROVE  Spec => VerifyIsQuiet
<1>1. Init => QuietInv
  <2>1. Init => Unowned /\ HeldIsReadable /\ Checked
    BY DEF Init, Unowned, HeldIsReadable, Exists, Checked, Verifying
  <2> QED
    BY <2>1, InitInv, InitExact DEF QuietInv, EmbeddedInv
<1>2. QuietInv /\ [Next]_vars => QuietInv'
  <2> SUFFICES ASSUME QuietInv, [Next]_vars PROVE QuietInv'
    OBVIOUS
  <2>1. EmbeddedInv' /\ (Faultless => Exact)'
    BY EmbeddedStep, ExactStep DEF QuietInv, EmbeddedInv
  <2>2. Checked'
    BY CheckedStep
  <2> QED
    BY <2>1, <2>2 DEF QuietInv
<1>3. QuietInv /\ [Next]_vars =>
        [\A p \in Procs : VerifyAlarms(p) => storeErrors > 0 \/ crashes > 0]_vars
  <2>1. ASSUME QuietInv, NEW p \in Procs, VerifyAlarms(p) PROVE storeErrors > 0 \/ crashes > 0
    <3>1. Verifying(p) /\ file[verifying[p].key] = None
      BY <2>1 DEF VerifyAlarms
    <3>2. ~Faultless
      BY <2>1, <3>1, CheckFinds
    <3>3. storeErrors \in Nat /\ crashes \in Nat
      BY <2>1 DEF QuietInv, EmbeddedInv, Inv, TypeOK
    <3> QED
      BY <3>2, <3>3 DEF Faultless
  <2> QED
    BY <2>1
<1> QED
  BY <1>1, <1>2, <1>3, PTL DEF Spec, VerifyIsQuiet
=============================================================================
