--------------------------- MODULE AsyncConnector ---------------------------
(***************************************************************************)
(* The connector of the text service DLL (PIMETextService/AsyncConnector   *)
(* .cpp): a thread-pool worker opens the pipe and makes the init call, and *)
(* hands the pipe to the UI thread through a message-only window.  The UI  *)
(* thread's part, and cancel, are operators on the connector's record,     *)
(* which module PimeClient applies.                                        *)
(*                                                                         *)
(* A connector opens at most one pipe, so attempts number both.  A worker  *)
(* step is what runs between two places where the other thread can         *)
(* interfere: a lock section, a read of isCancelled(), or pipe I/O.        *)
(***************************************************************************)
EXTENDS Naturals, Sequences

CONSTANTS
  MaxAttempts,   \* bound: connectors created in a behaviour
  Tries          \* times a worker tries to open the pipe (3 in the code)

ASSUME AttemptAssumption == MaxAttempts \in Nat \ {0} /\ Tries \in Nat \ {0}

Attempts == 1 .. MaxAttempts

VARIABLES
  used,   \* attempts made so far
  att,    \* the connector object of each attempt
  conn    \* the client's end of the pipe of each attempt

connectorVars == <<used, att, conn>>

Unused ==
  [worker    |-> "none",   \* where runWorker stands
   tries     |-> 0,        \* failed attempts to open the pipe
   ok        |-> FALSE,    \* the init call succeeded
   target    |-> FALSE,    \* the window handle the worker captured is valid
   window    |-> FALSE,    \* hwnd_ is set and the window exists
   posted    |-> FALSE,    \* WM_PIME_ASYNC_DONE is in the window's queue
   cancelled |-> FALSE,    \* isCancelled_
   callback  |-> FALSE,    \* callback_ is set
   stored    |-> FALSE]    \* pipe_ holds the pipe

NoPipe ==
  [handle  |-> "none",     \* "open" while the handle is open
   sent    |-> 0,          \* sequence number of the last call written
   got     |-> 0,          \* sequence number of the last reply accepted
   replies |-> <<>>,       \* lines to be read: sequence numbers, 0 for none
   due     |-> FALSE,      \* the backend owes an answer
   silent  |-> FALSE,      \* the backend has stopped answering
   call    |-> "none"]     \* the method last called

ConnectorInit ==
  /\ used = 0
  /\ att  = [k \in Attempts |-> Unused]
  /\ conn = [k \in Attempts |-> NoPipe]

Closed(p) == IF p.handle = "open"
             THEN [p EXCEPT !.handle = "closed", !.replies = <<>>] ELSE p

Called(p, n, method) ==
  [p EXCEPT !.sent = n, !.call = method, !.due = TRUE]

(* The connector after connect(): the window is there and the worker has   *)
(* been submitted, or one of the two failed and connect returned false.    *)
Connected(started) ==
  [Unused EXCEPT !.callback = TRUE, !.window = started,
                 !.worker = IF started THEN "starting" ELSE "none"]

(* cancel(): the flag, the callback and the stored pipe under the lock,    *)
(* then the window, whose queued message goes with it.  The worker can see *)
(* the window between the two only by posting to it, which is lost either  *)
(* way, so they are one step.  The first form leaves the callback set.     *)
CancelledLate(a) ==
  [a EXCEPT !.cancelled = TRUE, !.window = FALSE, !.posted = FALSE,
            !.stored = FALSE]
Cancelled(a) == [CancelledLate(a) EXCEPT !.callback = FALSE]

(* The pipe of a connector that is cancelled. *)
Abandoned(a, p) == IF a.stored THEN Closed(p) ELSE p

-----------------------------------------------------------------------------
(* runWorker *)

At(k, pc) == att[k].worker = pc
Goes(k, pc) == att' = [att EXCEPT ![k].worker = pc]

WorkerStarts(k) ==
  /\ At(k, "starting")
  /\ Goes(k, IF att[k].cancelled THEN "done" ELSE "trying")
  /\ UNCHANGED <<used, conn>>

(* Whether the loop goes round again.  The first form tries once too often.*)
TriesOneMore(k) == att[k].tries <= Tries
TriesAgain(k)   == att[k].tries < Tries

WorkerTries(k) ==
  /\ At(k, "trying")
  /\ Goes(k, IF TriesAgain(k) /\ ~att[k].cancelled
             THEN "connecting" ELSE "checking")
  /\ UNCHANGED <<used, conn>>

WorkerConnects(k) ==
  /\ At(k, "connecting")
  /\ Goes(k, "checking")
  /\ conn' = [conn EXCEPT ![k].handle = "open"]
  /\ UNCHANGED used

(* RpcPipe::connect fails; the pause before the next try changes nothing.  *)
WorkerMisses(k) ==
  /\ At(k, "connecting")
  /\ att' = [att EXCEPT ![k].worker = "trying", ![k].tries = @ + 1]
  /\ UNCHANGED <<used, conn>>

(* Without a pipe, or when cancelled, the UI thread is told under the lock *)
(* if it still waits, and the local pipe is dropped.  The first form tells *)
(* only of success.                                                        *)
TellsNobody(k) == FALSE
Tells(k)       == att[k].window /\ ~att[k].cancelled

WorkerGivesUp(k) ==
  /\ At(k, "checking")
  /\ att[k].cancelled \/ conn[k].handle # "open"
  /\ att' = [att EXCEPT ![k].worker = "done",
                        ![k].posted = Tells(k)]
  /\ conn' = [conn EXCEPT ![k] = Closed(@)]
  /\ UNCHANGED used

WorkerCallsInit(k) ==
  /\ At(k, "checking")
  /\ ~att[k].cancelled /\ conn[k].handle = "open"
  /\ Goes(k, "calling")
  /\ conn' = [conn EXCEPT ![k] = Called(@, 1, "init")]
  /\ UNCHANGED used

(* callRpc returns a line; it must carry number 1. *)
WorkerReads(k) ==
  LET n == Head(conn[k].replies) IN
  /\ At(k, "calling")
  /\ conn[k].replies # <<>>
  /\ att' = [att EXCEPT ![k].worker = "finishing", ![k].ok = (n = 1)]
  /\ conn' = [conn EXCEPT ![k].replies = Tail(@),
                          ![k].got = IF n = 1 THEN n ELSE @]
  /\ UNCHANGED used

(* The pipe breaks, or kDefaultRpcTimeoutMs pass.  The first form waits    *)
(* for ever.                                                               *)
WaitsForInit(k) == FALSE

WorkerTimesOut(k) ==
  /\ At(k, "calling")
  /\ Goes(k, "finishing")
  /\ UNCHANGED <<used, conn>>

(* Whether the finished worker throws its pipe away.  The first form does  *)
(* not look at the flag again.                                             *)
DiscardsFailed(k) == ~att[k].ok
Discards(k)       == att[k].cancelled \/ ~att[k].ok

WorkerFinishes(k) ==
  /\ At(k, "finishing")
  /\ att' = [att EXCEPT ![k].worker = "posting",
                        ![k].stored = ~Discards(k),
                        ![k].target = att[k].window]
  /\ conn' = [conn EXCEPT ![k] = IF Discards(k) THEN Closed(@) ELSE @]
  /\ UNCHANGED used

(* PostMessage to the captured handle, outside the lock: nothing happens   *)
(* when the window has gone.                                               *)
WorkerPosts(k) ==
  /\ At(k, "posting")
  /\ att' = [att EXCEPT ![k].worker = "done",
                        ![k].posted = att[k].target /\ att[k].window]
  /\ UNCHANGED <<used, conn>>

WorkerStep(k) ==
  \/ WorkerStarts(k) \/ WorkerTries(k) \/ WorkerConnects(k)
  \/ WorkerMisses(k) \/ WorkerGivesUp(k) \/ WorkerCallsInit(k)
  \/ WorkerReads(k) \/ WorkerTimesOut(k) \/ WorkerFinishes(k)
  \/ WorkerPosts(k)

-----------------------------------------------------------------------------
(* The launcher and the backend, seen through the pipe. *)

(* The answer to the call that is due, with its number, or without one     *)
(* when the server could not make sense of it.                             *)
BackendAnswers(k) ==
  /\ conn[k].due /\ ~conn[k].silent
  /\ \E n \in {conn[k].sent} \cup (IF k < MaxAttempts THEN {0} ELSE {}) :
       conn' = [conn EXCEPT ![k].due = FALSE,
                            ![k].replies = IF conn[k].handle = "open"
                                           THEN Append(@, n) ELSE @]
  /\ UNCHANGED <<used, att>>

(* The backend hangs, or the launcher drops the call.  The last attempt of *)
(* a behaviour is served.                                                  *)
BackendFallsSilent(k) ==
  /\ conn[k].due /\ ~conn[k].silent
  /\ k < MaxAttempts
  /\ conn' = [conn EXCEPT ![k].silent = TRUE]
  /\ UNCHANGED <<used, att>>

-----------------------------------------------------------------------------
WorkerStates == {"none", "starting", "trying", "connecting", "checking",
                 "calling", "finishing", "posting", "done"}

Connectors ==
  [worker : WorkerStates, tries : 0 .. Tries, ok : BOOLEAN,
   target : BOOLEAN, window : BOOLEAN, posted : BOOLEAN,
   cancelled : BOOLEAN, callback : BOOLEAN, stored : BOOLEAN]

Pipes ==
  [handle : {"none", "open", "closed"}, sent : Nat, got : Nat,
   replies : Seq(Nat), due : BOOLEAN, silent : BOOLEAN,
   call : {"none", "init", "onActivate", "event", "onDeactivate"}]

ConnectorTypeOK ==
  /\ used \in 0 .. MaxAttempts
  /\ att \in [Attempts -> Connectors]
  /\ conn \in [Attempts -> Pipes]
=============================================================================
