----------------------- MODULE MCCouchbaseStorageStore -----------------------
(* A finite instance of CouchbaseStorageStore for TLC. *)
EXTENDS CouchbaseStorageStore

CONSTANTS a1, a2, r1, z1, z2, f1, k, f

(* a1 and a2 acquire k, r1 releases it, z1 and z2 claim it; f1 acquires f,  *)
(* which is another owner's.                                                *)
TheVerbs ==
    [c \in Calls |-> CASE c \in {a1, a2, f1} -> "acquireRef"
                       [] c = r1             -> "releaseRef"
                       [] c \in {z1, z2}     -> "removeIfZero"]
TheKeys == [c \in Calls |-> IF c = f1 THEN f ELSE k]
=============================================================================
