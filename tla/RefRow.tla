------------------------------- MODULE RefRow -------------------------------
(***************************************************************************)
(* The refcounted row of a content-addressed blob, and what the atomic     *)
(* verbs of the StorageMetaStore contract (lib/storage/src/meta-store.js)  *)
(* make of it.  The key is the address of the content, so the row says     *)
(* nothing of the bytes but whether it carries them itself.                *)
(***************************************************************************)
EXTENDS Integers

CONSTANT None

Fields == [refs   : Nat,
           zero   : Nat \cup {None},  \* now - zeroAt in ticks, or no stamp
           age    : Nat,              \* now - createdAt in ticks
           inline : BOOLEAN]          \* the row carries the payload

(* A row is stamped exactly while it is at zero.                            *)
Row == {r \in Fields : r.refs = 0 <=> r.zero # None}

ASSUME NoneAssumption == None \notin Nat /\ None \notin Fields

Exists(r) == r # None

(* Mutant: a revived row keeps the stamp of its last release.               *)
AcquiredStamped(r, fresh) ==
    IF Exists(r) THEN [r EXCEPT !.refs = @ + 1] ELSE fresh

(* acquireRef: insert with one reference, or add one and clear the stamp.   *)
Acquired(r, fresh) ==
    IF Exists(r) THEN [r EXCEPT !.refs = @ + 1, !.zero = None] ELSE fresh

(* Mutant: the moment of the last release is not stamped.                   *)
ReleasedUnstamped(r) ==
    IF Exists(r) /\ r.refs > 0 THEN [r EXCEPT !.refs = @ - 1] ELSE r

(* releaseRef: drop one reference, stamping the moment none is left.        *)
Released(r) ==
    IF Exists(r) /\ r.refs > 0
    THEN [r EXCEPT !.refs = @ - 1, !.zero = IF r.refs = 1 THEN 0 ELSE None]
    ELSE r

(* removeIfZero deletes what listZeroRefs lists, whatever its stamp.        *)
Claimable(r) == Exists(r) /\ r.refs = 0

(* listZeroRefs: a row at zero without a stamp is never listed.             *)
Collectable(r, grace) == Claimable(r) /\ r.zero # None /\ r.zero >= grace
=============================================================================
