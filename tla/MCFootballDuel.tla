--------------------------- MODULE MCFootballDuel ---------------------------
(* Small instances of FootballDuel for TLC. *)
EXTENDS FootballDuel

CONSTANTS u1, u2, u3, s1, s2, s3

(* One socket each. *)
MCOwner == [s \in Sockets |-> CASE s = s1 -> u1 [] s = s2 -> u2 [] s = s3 -> u3]
=============================================================================
