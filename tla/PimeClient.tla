----------------------------- MODULE PimeClient -----------------------------
(***************************************************************************)
(* The connection of one text service (PIMETextService/PIMEClient.cpp and  *)
(* RpcPipe.cpp): the Client of the active language profile on the UI       *)
(* thread, its calls, and the connectors it starts.                        *)
(*                                                                         *)
(* The UI thread blocks in a call and dispatches no message while it does. *)
(* Handling a reply may call back into the client (setting the keyboard's  *)
(* state notifies onKeyboardStatusChanged, ending a composition notifies   *)
(* onCompositionTerminated), so the thread's position is a stack.          *)
(***************************************************************************)
EXTENDS AsyncConnector

CONSTANTS
  MaxSeq,     \* bound: sequence number up to which events call the backend
  MaxDepth,   \* bound: calls nested in one another's handlers
  MaxLives    \* bound: language profiles activated in a behaviour

ASSUME ClientAssumption == /\ MaxSeq \in Nat
                           /\ MaxDepth \in Nat \ {0}
                           /\ MaxLives \in Nat \ {0}

VARIABLES
  lives,       \* clients created so far
  alive,       \* client_ is set
  activated,   \* isActivated_
  cstate,      \* state_
  connector,   \* the attempt that connector_ holds, or 0
  pipe,        \* the attempt whose pipe pipe_ holds, or 0
  nextSeq,     \* nextSeqNum_
  stack        \* where the UI thread is, innermost frame first

clientVars == <<lives, alive, activated, cstate, connector, pipe, nextSeq,
                stack>>
vars == <<connectorVars, clientVars>>

(* "wait": in callRpc.  "handle": handling a reply.  "init": handling the  *)
(* reply to init, in the connect callback.  "leaving", "left": before and  *)
(* after the call in onDeactivate.                                         *)
Frames == {"wait", "handle", "init", "leaving", "left"}

Innermost == IF stack = <<>> THEN "idle" ELSE Head(stack)
Top(f)    == Innermost = f

Init ==
  /\ ConnectorInit
  /\ lives = 0
  /\ alive = FALSE
  /\ activated = FALSE
  /\ cstate = "Disconnected"
  /\ connector = 0
  /\ pipe = 0
  /\ nextSeq = 0
  /\ stack = <<>>

-----------------------------------------------------------------------------
(* startAsyncConnect, with the pipes as c says.  The result of connect()   *)
(* is ignored: when the window or the worker cannot be had, the client     *)
(* stays Connecting.  The last attempt of a behaviour does start.          *)
StartConnect(c) ==
  LET k == used + 1 IN
  /\ used < MaxAttempts
  /\ used' = k
  /\ \E started \in {TRUE} \cup (IF k < MaxAttempts THEN {FALSE} ELSE {}) :
       att' = [j \in Attempts |->
                 IF j = k THEN Connected(started)
                 ELSE IF j = connector THEN Cancelled(att[j]) ELSE att[j]]
  /\ conn' = [j \in Attempts |->
                IF j = connector THEN Abandoned(att[j], c[j]) ELSE c[j]]
  /\ connector' = k
  /\ cstate' = "Connecting"

(* What ensureConnected does before it returns false. *)
NotReady ==
  /\ cstate # "Ready"
  /\ IF cstate = "Disconnected" /\ activated
     THEN StartConnect(conn)
     ELSE UNCHANGED <<connectorVars, connector, cstate>>

(* callRpcMethod writes a request to the pipe. *)
BeginCall(method) ==
  /\ cstate = "Ready"
  /\ conn' = [conn EXCEPT ![pipe] = Called(@, nextSeq, method)]
  /\ nextSeq' = nextSeq + 1
  /\ UNCHANGED <<used, att, lives, alive, activated, cstate, connector, pipe>>

(* The check of a reply's number.  The first form accepts any line.        *)
AcceptsAny(n) == TRUE
Matches(n)    == n = conn[pipe].sent

CallSucceeds ==
  LET n == Head(conn[pipe].replies) IN
  /\ Top("wait")
  /\ conn[pipe].replies # <<>>
  /\ Matches(n)
  /\ conn' = [conn EXCEPT ![pipe].replies = Tail(@), ![pipe].got = n]
  /\ stack' = <<"handle">> \o Tail(stack)
  /\ UNCHANGED <<used, att, lives, alive, activated, cstate, connector, pipe,
                 nextSeq>>

(* The pipes after a failed call.  The first form does not close the pipe. *)
PipesKept         == conn
PipesAfterFailure == [conn EXCEPT ![pipe] = Closed(@)]

(* The call has failed: the pipe is closed, and a client that is active    *)
(* connects again.  The caller gets null and has nothing to handle.        *)
FailCall ==
  LET c == PipesAfterFailure IN
  /\ Top("wait")
  /\ stack' = Tail(stack)
  /\ pipe' = IF c[pipe].handle = "open" THEN pipe ELSE 0
  /\ IF activated
     THEN StartConnect(c)
     ELSE /\ cstate' = "Disconnected"
          /\ conn' = c
          /\ UNCHANGED <<used, att, connector>>
  /\ UNCHANGED <<lives, alive, activated, nextSeq>>

CallMismatches ==
  /\ Top("wait") /\ conn[pipe].replies # <<>>
  /\ ~Matches(Head(conn[pipe].replies))
  /\ FailCall

(* The pipe breaks, or timeoutMs pass, at any moment of the wait.  The     *)
(* first form waits for ever.                                              *)
NeverGivesUp == FALSE
CallTimesOut == FailCall

(* The handler of a reply returns. *)
HandleDone ==
  /\ Top("handle")
  /\ stack' = Tail(stack)
  /\ UNCHANGED <<connectorVars, lives, alive, activated, cstate, connector,
                 pipe, nextSeq>>

(* A key, a command, a compartment or keyboard change, the end of a        *)
(* composition: a call of its own, or nested in the handler of a reply.    *)
Event ==
  /\ alive
  /\ Innermost \in {"idle", "handle", "init"}
  /\ Len(stack) < MaxDepth
  /\ \/ /\ nextSeq <= MaxSeq
        /\ BeginCall("event")
        /\ stack' = <<"wait">> \o stack
     \/ /\ NotReady
        /\ UNCHANGED <<lives, alive, activated, pipe, nextSeq, stack>>

-----------------------------------------------------------------------------
(* onWindowMessage and the callback of startAsyncConnect, which runs in    *)
(* the message loop.  A valid pipe replaces the client's, which closes it. *)
Deliver(k) ==
  LET a == att[k]
      runs == ~a.cancelled /\ a.callback IN
  /\ stack = <<>>
  /\ a.posted
  /\ att' = [att EXCEPT ![k].window = FALSE, ![k].posted = FALSE,
                        ![k].callback = FALSE, ![k].stored = FALSE]
  /\ IF runs /\ a.stored
     THEN /\ conn' = [j \in Attempts |->
                        IF j = pipe THEN Closed(conn[j]) ELSE conn[j]]
          /\ pipe' = k
          /\ nextSeq' = 2
          /\ cstate' = "Ready"
          /\ stack' = <<"init">>
     ELSE /\ conn' = [conn EXCEPT ![k] = Abandoned(a, @)]
          /\ cstate' = IF runs THEN "Disconnected" ELSE cstate
          /\ UNCHANGED <<pipe, nextSeq, stack>>
  /\ connector' = IF runs THEN 0 ELSE connector
  /\ UNCHANGED <<used, lives, alive, activated>>

(* The rest of the callback: onActivate is called, unless the pipe was     *)
(* lost in the handler of the init reply.                                  *)
InitHandled ==
  /\ Top("init")
  /\ \/ /\ BeginCall("onActivate")
        /\ stack' = <<"wait">> \o Tail(stack)
     \/ /\ NotReady
        /\ stack' = Tail(stack)
        /\ UNCHANGED <<lives, alive, activated, pipe, nextSeq>>

-----------------------------------------------------------------------------
(* onLangProfileActivated: a new client, and its onActivate. *)
OpenClient ==
  /\ ~alive /\ stack = <<>>
  /\ lives < MaxLives
  /\ lives' = lives + 1
  /\ alive' = TRUE
  /\ activated' = TRUE
  /\ pipe' = 0
  /\ nextSeq' = 0
  /\ StartConnect(conn)
  /\ UNCHANGED stack

(* closeClient: onDeactivate sets the state and cancels the connector ...  *)
Deactivate ==
  /\ alive /\ stack = <<>>
  /\ activated' = FALSE
  /\ cstate' = "Disconnected"
  /\ att' = [j \in Attempts |->
               IF j = connector THEN Cancelled(att[j]) ELSE att[j]]
  /\ conn' = [j \in Attempts |->
                IF j = connector THEN Abandoned(att[j], conn[j]) ELSE conn[j]]
  /\ connector' = 0
  /\ stack' = <<"leaving">>
  /\ UNCHANGED <<used, lives, alive, pipe, nextSeq>>

(* ... makes a call, if there is a pipe and callRpcMethod lets it ...      *)
DeactivateCalls ==
  /\ Top("leaving")
  /\ IF pipe # 0 /\ cstate = "Ready"
     THEN /\ BeginCall("onDeactivate")
          /\ stack' = <<"wait", "left">>
     ELSE /\ stack' = <<"left">>
          /\ UNCHANGED <<connectorVars, lives, alive, activated, cstate,
                         connector, pipe, nextSeq>>

(* ... closes the pipe, and the client is destroyed. *)
CloseClient ==
  /\ Top("left")
  /\ conn' = [j \in Attempts |->
                IF j = pipe THEN Closed(conn[j]) ELSE conn[j]]
  /\ pipe' = 0
  /\ alive' = FALSE
  /\ stack' = <<>>
  /\ UNCHANGED <<used, att, lives, activated, cstate, connector, nextSeq>>

-----------------------------------------------------------------------------
UIStep ==
  \/ CallSucceeds \/ CallMismatches \/ CallTimesOut \/ HandleDone
  \/ (\E k \in Attempts : Deliver(k)) \/ InitHandled
  \/ DeactivateCalls \/ CloseClient

WorkerRuns(k) == WorkerStep(k) /\ UNCHANGED clientVars
BackendRuns(k) == BackendAnswers(k) /\ UNCHANGED clientVars

Next ==
  \/ UIStep
  \/ Event \/ OpenClient \/ Deactivate
  \/ \E k \in Attempts :
       \/ WorkerRuns(k)
       \/ BackendRuns(k)
       \/ BackendFallsSilent(k) /\ UNCHANGED clientVars

Spec == Init /\ [][Next]_vars

(* The UI thread and the thread pool go on; a backend that has not fallen  *)
(* silent answers.  Activation, events and faults are never forced.        *)
Fairness ==
  /\ WF_vars(UIStep)
  /\ \A k \in Attempts : WF_vars(WorkerRuns(k)) /\ WF_vars(BackendRuns(k))

FairSpec == Spec /\ Fairness

-----------------------------------------------------------------------------
(* Invariants *)

(* Every variable keeps its type. *)
TypeOK ==
  /\ ConnectorTypeOK
  /\ lives \in 0 .. MaxLives
  /\ alive \in BOOLEAN
  /\ activated \in BOOLEAN
  /\ cstate \in {"Disconnected", "Connecting", "Ready"}
  /\ connector \in Attempts \cup {0}
  /\ pipe \in Attempts \cup {0}
  /\ nextSeq \in Nat
  /\ stack \in Seq(Frames)

(* A callback that may still run is the one of the connector that the      *)
(* living client waits for: it captures that client, and "the callback is  *)
(* NEVER called" after cancel (AsyncConnector.h 40-42).                    *)
NoStaleCallback ==
  \A k \in Attempts : att[k].callback => connector = k /\ alive

(* state_, pipe_ and connector_ agree: Ready has an initialised pipe and   *)
(* no connector, Connecting a connector and no pipe, Disconnected neither, *)
(* but for the pipe that onDeactivate is about to close.                   *)
StateMatchesPipe ==
  /\ cstate = "Ready" =>
       connector = 0 /\ pipe # 0 /\ conn[pipe].handle = "open"
         /\ conn[pipe].got > 0
  /\ cstate = "Connecting" => connector # 0 /\ pipe = 0
  /\ cstate = "Disconnected" =>
       connector = 0 /\ (pipe # 0 => Top("leaving") \/ Top("left"))

(* An open pipe is the client's, or waits in the connector the client      *)
(* waits for, or is in the hands of a worker that will look at the         *)
(* cancelled flag before it gives it up: nobody else could close it.       *)
PipesHeld ==
  \A k \in Attempts : conn[k].handle = "open" =>
    \/ pipe = k
    \/ att[k].stored /\ connector = k
    \/ att[k].worker \in {"checking", "calling", "finishing"}

-----------------------------------------------------------------------------
(* The inductive invariant (module ClientProofs) *)

(* A client that has been told to leave is in onDeactivate; a destroyed one *)
(* has no pipe and nothing on the stack.                                   *)
LifeInv ==
  /\ stack # <<>> => alive
  /\ activated => alive
  /\ alive /\ ~activated => stack \in {<<"leaving">>, <<"left">>}
  /\ \A i \in DOMAIN stack : stack[i] \in {"leaving", "left"} => ~activated
  /\ ~activated => cstate = "Disconnected"
  /\ ~alive => pipe = 0

(* The UI thread waits in its innermost frame only, and with a pipe that   *)
(* is Ready.                                                               *)
WaitInv ==
  /\ Top("wait") => cstate = "Ready"
  /\ \A i \in 2 .. Len(stack) : stack[i] # "wait"

(* One call at a time: only the call waited for is unanswered. *)
NumberInv ==
  cstate = "Ready" =>
    /\ nextSeq = conn[pipe].sent + 1
    /\ conn[pipe].got = IF Top("wait") THEN conn[pipe].sent - 1
                                       ELSE conn[pipe].sent

(* What the position of a worker says of its connector and its pipe. *)
Working == {"starting", "trying", "connecting", "checking", "calling",
            "finishing"}

AttemptOK(a, p) ==
  /\ a.worker \in {"none", "starting", "trying", "connecting"} =>
       p.handle = "none" /\ p.sent = 0 /\ p.got = 0
  /\ a.worker = "checking" =>
       p.handle \in {"none", "open"} /\ p.sent = 0 /\ p.got = 0
  /\ a.worker \in {"calling", "finishing"} =>
       p.handle = "open" /\ p.sent = 1
  /\ a.worker = "calling" => p.got = 0
  /\ a.worker \in Working \ {"finishing"} => ~a.ok
  /\ a.worker = "connecting" => a.tries < Tries
  /\ a.worker = "finishing" => p.got = IF a.ok THEN 1 ELSE 0
  /\ a.worker \in Working /\ ~a.cancelled => a.callback
  /\ a.posted => a.worker = "done"
  /\ a.stored => /\ a.worker \in {"posting", "done"}
                 /\ a.callback
                 /\ p.handle = "open" /\ p.sent = 1 /\ p.got = 1

AttemptInv ==
  /\ \A k \in Attempts : AttemptOK(att[k], conn[k])
  /\ \A k \in Attempts : k > used => att[k] = Unused /\ conn[k] = NoPipe
  /\ pipe # 0 => att[pipe].worker \in {"posting", "done"}
  /\ connector <= used

(* The invariant that every step preserves. *)
ClientInv ==
  /\ TypeOK /\ NoStaleCallback /\ StateMatchesPipe /\ PipesHeld
  /\ LifeInv /\ WaitInv /\ NumberInv /\ AttemptInv

-----------------------------------------------------------------------------
(* Refinement: each pipe carries one numbered call at a time, with its own *)
(* answer, whatever the workers, timeouts and nested handlers do.          *)
Port == INSTANCE HostPort WITH
          Conns <- Attempts,
          phase <- [k \in Attempts |-> conn[k].handle],
          sent  <- [k \in Attempts |-> conn[k].sent],
          got   <- [k \in Attempts |-> conn[k].got]

PortSpec == Port!Spec

-----------------------------------------------------------------------------
(* Action property *)

(* "The user leaves the input method" (comment on onDeactivate,            *)
(* chewing_ime.py 284): a connected client that is deactivated tells its   *)
(* backend before it closes the pipe.                                      *)
DeactivationTold ==
  [][\A k \in Attempts :
       pipe = k /\ pipe' = 0 /\ ~activated =>
         conn[k].call = "onDeactivate"]_vars

-----------------------------------------------------------------------------
(* Liveness *)

(* A connection attempt that has been started comes to an end: the UI      *)
(* thread hears of the result, good or bad, or cancels the attempt.        *)
AttemptsConclude ==
  \A k \in Attempts : (connector = k /\ att[k].window) ~> connector # k

(* The UI thread comes back to its message loop, whatever the backend does.*)
UIThreadComesFree == stack # <<>> ~> stack = <<>>

(* The pipe of a cancelled attempt is closed. *)
CancelledPipesClosed ==
  \A k \in Attempts :
    (att[k].cancelled /\ conn[k].handle = "open") ~> conn[k].handle = "closed"
=============================================================================
