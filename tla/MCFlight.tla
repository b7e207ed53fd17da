------------------------------ MODULE MCFlight ------------------------------
(* A small instance of Flight for TLC.                                     *)
EXTENDS Flight, TLC

At(px, py) == Point(px * Grain, py * Grain)

(* On both sides of the gap between c1 and c3, before the passage between  *)
(* q3a and q3c, and two points that are too close to c1; the corner of the *)
(* arena comes from Spawn.                                                 *)
MCSpots == {At(690, 640), At(830, 640), At(110, 920), At(685, 560), At(760, 580)}

(* Two and a half times the pace of a client, with a fraction; a leap of   *)
(* 42 pixels, that may end inside c1 or in the middle of the passage; a    *)
(* move that is too fast.                                                  *)
MCMoves == {<<5, -5>>, <<6 * Grain, -6 * Grain>>, <<8 * Grain, -8 * Grain>>}
MCAims == {<<1, 0, 1>>, <<4, -3, 5>>}
MCArms == [w \in {"rocket", "laser"} |-> IF w = "rocket" THEN 5 ELSE 50]

Symmetry == Permutations(Users) \cup Permutations(Ids) \cup Permutations(Objects)
=============================================================================
