---------------------------- MODULE MCStorageCas ----------------------------
(* Finite instances of StorageCas for TLC. *)
EXTENDS StorageCas

CONSTANTS u1, u2, u3, k1, k2

(* u1, u2 and u3 stream the same content. *)
OneContent == [u \in Puts |-> k1]
(* u1 and u2 stream the same content, u3 another. *)
TwoContents == [u \in Puts |-> IF u = u3 THEN k2 ELSE k1]
=============================================================================
