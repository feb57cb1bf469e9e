---------------------------- MODULE MCCinTables ----------------------------
(* Small instances of CinTables for TLC. *)
EXTENDS CinTables

CONSTANTS c1, c2, t1, t2
=============================================================================
