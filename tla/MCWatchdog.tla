----------------------------- MODULE MCWatchdog -----------------------------
(* Small instances of Watchdog for TLC. *)
EXTENDS Watchdog

CONSTANTS l1, l2, q1
=============================================================================
