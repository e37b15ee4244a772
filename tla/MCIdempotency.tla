--------------------------- MODULE MCIdempotency ---------------------------
(* Finite instances of Idempotency for TLC.                                 *)
EXTENDS Idempotency

CONSTANTS r1, r2, r3, r4, ann, p1, p2

(* All are ann's.  r1, r2 and r3 are one payment under one key, r3 with     *)
(* another payload; r4 lacks the header its route requires.                 *)
OnTwo        == [r \in Requests |-> IF r = r2 THEN p2 ELSE p1]
Anns         == [r \in Requests |-> ann]
PayOrRefund  == [r \in Requests |-> IF r = r4 THEN "refund" ELSE "pay"]
OneKey       == [r \in Requests |-> IF r = r4 THEN None ELSE "key"]
ThirdDiffers == [r \in Requests |-> IF r = r3 THEN "three" ELSE "two"]
=============================================================================
