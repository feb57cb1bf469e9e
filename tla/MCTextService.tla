--------------------------- MODULE MCTextService ---------------------------
(* A small instance of TextServiceUI for TLC. *)
EXTENDS TextServiceUI, TLC

CONSTANTS t1, t2

TextSymmetry == Permutations({t1, t2})
=============================================================================
