--------------------------- MODULE MCZoneService ---------------------------
(* Small instances of ZoneService for TLC. *)
EXTENDS ZoneService
=============================================================================
