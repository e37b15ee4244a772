------------------------------ MODULE MCLockout ------------------------------
(* Finite instances of Lockout for TLC.                                     *)
EXTENDS Lockout

CONSTANTS c1, c2, c3, c4, c5, p1, p2, s1

Shared == [p \in Procs |-> s1]

(* c4 clears, c5 checks, the others fail; c2 reaches the second process     *)
(* when there is one.                                                       *)
Kinds      == [c \in Calls |-> IF c = c4 THEN "clear" ELSE IF c = c5 THEN "check" ELSE "failure"]
SecondFar  == [c \in Calls |-> IF c = c2 /\ p2 \in Procs THEN p2 ELSE p1]
=============================================================================
