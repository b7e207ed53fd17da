---------------------------- MODULE MCVirtualMap ----------------------------
(* Small instances of VirtualMap for TLC. *)
EXTENDS VirtualMap

CONSTANTS u1, u2, s1, s2, s3

(* u1 has two sockets, as after a reload; u2 has one. *)
MCOwner == [s \in Sockets |-> IF s = s3 THEN u2 ELSE u1]
=============================================================================
