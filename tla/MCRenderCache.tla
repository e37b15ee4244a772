---------------------------- MODULE MCRenderCache ----------------------------
(* Finite instances of RenderCache for TLC.                                 *)
EXTENDS RenderCache

CONSTANTS r1, r2, r3, p1, p2, home, feed

(* r3 reaches the second replica when there is one; r2 asks for the second  *)
(* page when there is one.                                                  *)
LastOnOther == [r \in Requests |-> IF r = r3 /\ p2 \in Replicas THEN p2 ELSE p1]
SecondFeed  == [r \in Requests |-> IF r = r2 /\ feed \in Pages THEN feed ELSE home]
=============================================================================
