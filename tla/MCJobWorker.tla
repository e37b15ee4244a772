---------------------------- MODULE MCJobWorker ----------------------------
(* Finite instances of JobWorker for TLC. *)
EXTENDS JobWorker

CONSTANTS j1, j2, j3

OneShot   == [j \in Jobs |-> 1]
TwoTries  == [j \in Jobs |-> 2]
FirstRetries == [j \in Jobs |-> IF j = j1 THEN 2 ELSE 1]
(* j3 is more urgent than j1 and j2, which tie. *)
ThirdUrgent == [j \in Jobs |-> IF j = j3 THEN 1 ELSE 3]
SameUrgency == [j \in Jobs |-> 3]
=============================================================================
