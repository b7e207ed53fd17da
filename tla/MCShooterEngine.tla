-------------------------- MODULE MCShooterEngine --------------------------
(* Small instances of ShooterEngine for TLC. *)
EXTENDS ShooterEngine, TLC

Pairs == {<<p, q>> : p, q \in Positions}

(* Weapons of one point of damage, the rocket of two; one shot per window; *)
(* two pellets.                                                            *)
MCDamage == [w \in Weapons |-> IF w = "rocket" THEN 2 ELSE 1]
MCFireRate == [w \in Weapons |-> 1]
MCVolley == [w \in Weapons |-> IF w = "shotgun" THEN 2 ELSE 1]

(* Positions are numbers on a line: neighbours are too close.              *)
MCTooClose == {pq \in Pairs : pq[1] <= pq[2] + 1 /\ pq[2] <= pq[1] + 1}

Symmetry == Permutations(Users)
=============================================================================
