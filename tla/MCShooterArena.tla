--------------------------- MODULE MCShooterArena ---------------------------
(* Small instances of ShooterArena for TLC. *)
EXTENDS ShooterArena, TLC

CONSTANTS u1, u2, s1, s2, s3

MCDamage == [w \in Weapons |-> 1]
MCVolley == [w \in Weapons |-> 1]

(* u1 has two sockets, as after a reload; u2 has one. *)
MCOwner == [s \in Sockets |-> IF s = s3 THEN u2 ELSE u1]

Symmetry == Permutations({s1, s2})
=============================================================================
