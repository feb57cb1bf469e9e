----------------------------- MODULE MCLauncher -----------------------------
(* Small instances of Launcher for TLC. *)
EXTENDS Launcher

CONSTANTS c1, c2

(* One busy connection beside one that only initialises, then leaves.      *)
OneBusy == (c1 :> 3 @@ c2 :> 1)

(* One connection that sends a request after its init, and one that does   *)
(* not.                                                                    *)
OneRequest == (c1 :> 2 @@ c2 :> 1)

(* One host that sends until every channel is full. *)
Burst == [c \in Clients |-> 7]
=============================================================================
