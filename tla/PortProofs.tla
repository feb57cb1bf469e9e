----------------------------- MODULE PortProofs -----------------------------
(***************************************************************************)
(* PimeClient implements HostPort: by the inductive invariant of module    *)
(* ClientProofs each step moves at most one pipe, as HostPort allows.      *)
(***************************************************************************)
EXTENDS ClientProofs

(* A step that touches no handle and no number is a stutter of HostPort. *)
LEMMA PortQuiet ==
  ASSUME \A j \in Attempts : /\ conn'[j].handle = conn[j].handle
                             /\ conn'[j].sent = conn[j].sent
                             /\ conn'[j].got = conn[j].got
  PROVE  UNCHANGED Port!portVars
  BY DEF Port!portVars

(* One pipe moves as HostPort allows. *)
LEMMA PortMoves ==
  ASSUME NEW k \in Attempts, conn[k] \in Pipes,
         \A j \in Attempts \ {k} : conn'[j] = conn[j],
         \/ /\ conn[k].handle = "none" /\ conn'[k].handle = "open"
            /\ conn'[k].sent = conn[k].sent /\ conn'[k].got = conn[k].got
         \/ /\ conn[k].handle = "open" /\ conn'[k].handle = "open"
            /\ conn[k].sent = conn[k].got
            /\ conn'[k].sent = conn[k].sent + 1 /\ conn'[k].got = conn[k].got
         \/ /\ conn[k].handle = "open" /\ conn'[k].handle = "open"
            /\ conn[k].got < conn[k].sent
            /\ conn'[k].sent = conn[k].sent /\ conn'[k].got = conn[k].sent
         \/ /\ conn[k].handle = "open" /\ conn'[k].handle = "closed"
            /\ conn'[k].sent = conn[k].sent /\ conn'[k].got = conn[k].got
  PROVE  Port!Next
  <1>1. CASE /\ conn[k].handle = "none" /\ conn'[k].handle = "open"
             /\ conn'[k].sent = conn[k].sent /\ conn'[k].got = conn[k].got
    <2>1. Port!Open(k)  BY <1>1 DEF Port!Open
    <2> QED BY <2>1 DEF Port!Next
  <1>2. CASE /\ conn[k].handle = "open" /\ conn'[k].handle = "open"
             /\ conn[k].sent = conn[k].got
             /\ conn'[k].sent = conn[k].sent + 1 /\ conn'[k].got = conn[k].got
    <2>1. Port!Send(k)  BY <1>2 DEF Port!Send
    <2> QED BY <2>1 DEF Port!Next
  <1>3. CASE /\ conn[k].handle = "open" /\ conn'[k].handle = "open"
             /\ conn[k].got < conn[k].sent
             /\ conn'[k].sent = conn[k].sent /\ conn'[k].got = conn[k].sent
    <2>1. Port!Accept(k)  BY <1>3 DEF Port!Accept
    <2> QED BY <2>1 DEF Port!Next
  <1>4. CASE /\ conn[k].handle = "open" /\ conn'[k].handle = "closed"
             /\ conn'[k].sent = conn[k].sent /\ conn'[k].got = conn[k].got
    <2>1. Port!Close(k)  BY <1>4 DEF Port!Close
    <2> QED BY <2>1 DEF Port!Next
  <1> QED BY <1>1, <1>2, <1>3, <1>4

(* Closing a pipe, or finding it closed already. *)
LEMMA PortCloses ==
  ASSUME NEW k \in Attempts, conn[k] \in Pipes,
         \A j \in Attempts \ {k} : conn'[j] = conn[j],
         conn'[k] = Closed(conn[k])
  PROVE  [Port!Next]_(Port!portVars)
  <1>1. CASE conn[k].handle = "open"
        BY <1>1, PortMoves, PipeOperators
  <1>2. CASE conn[k].handle # "open"
    <2>1. \A j \in Attempts : conn'[j] = conn[j]
          BY <1>2, PipeOperators
    <2> QED BY <2>1, PortQuiet
  <1> QED BY <1>1, <1>2

(* Leaving the pipes alone. *)
LEMMA PortUnmoved ==
  ASSUME conn' = conn
  PROVE  [Port!Next]_(Port!portVars)
  <1>1. \A j \in Attempts : /\ conn'[j].handle = conn[j].handle
                            /\ conn'[j].sent = conn[j].sent
                            /\ conn'[j].got = conn[j].got
        OBVIOUS
  <1> QED BY <1>1, PortQuiet

(* A worker opens its pipe, makes one call, reads one answer, closes it. *)
LEMMA WorkerImplements ==
  ASSUME ClientInv, NEW k \in Attempts, WorkerStep(k)
  PROVE  [Port!Next]_(Port!portVars)
  <1> USE DEF At
  <1>t. conn \in [Attempts -> Pipes]
        BY DEF ClientInv, TypeOK, ConnectorTypeOK
  <1>k. /\ conn[k] \in Pipes /\ AttemptOK(att[k], conn[k])
        /\ att[k].worker \in Working /\ conn[k].handle = "open" =>
             att[k].worker \in {"checking", "calling", "finishing"}
        BY AttemptMade
  <1>1. CASE WorkerStarts(k) \/ WorkerTries(k) \/ WorkerMisses(k)
             \/ WorkerTimesOut(k) \/ WorkerPosts(k)
    <2>1. conn' = conn
          BY <1>1 DEF WorkerStarts, WorkerTries, WorkerMisses, WorkerTimesOut,
                      WorkerPosts
    <2> QED BY <2>1, PortUnmoved
  <1>2. CASE WorkerConnects(k)
    <2> DEFINE p == [conn[k] EXCEPT !.handle = "open"]
    <2>1. att[k].worker = "connecting" /\ conn' = [conn EXCEPT ![k] = p]
          BY <1>2 DEF WorkerConnects
    <2>2. p.handle = "open" /\ p.sent = conn[k].sent /\ p.got = conn[k].got
          BY <1>k DEF Pipes
    <2>3. conn[k].handle = "none"
          BY <1>k, <2>1 DEF AttemptOK
    <2> HIDE DEF p
    <2>4. conn'[k] = p /\ \A j \in Attempts \ {k} : conn'[j] = conn[j]
          BY <1>t, <2>1
    <2> QED BY <1>k, <2>2, <2>3, <2>4, PortMoves
  <1>3. CASE WorkerGivesUp(k)
    <2>1. conn' = [conn EXCEPT ![k] = Closed(conn[k])]
          BY <1>3 DEF WorkerGivesUp
    <2>2. /\ conn'[k] = Closed(conn[k])
          /\ \A j \in Attempts \ {k} : conn'[j] = conn[j]
          BY <1>t, <2>1
    <2> QED BY <1>k, <2>2, PortCloses
  <1>4. CASE WorkerCallsInit(k)
    <2> DEFINE p == Called(conn[k], 1, "init")
    <2>1. /\ att[k].worker = "checking" /\ conn[k].handle = "open"
          /\ conn' = [conn EXCEPT ![k] = p]
          BY <1>4 DEF WorkerCallsInit
    <2>2. p.handle = "open" /\ p.sent = 1 /\ p.got = conn[k].got
          BY <1>k, <2>1, CalledPipe
    <2>3. conn[k].sent = 0 /\ conn[k].got = 0
          BY <1>k, <2>1 DEF AttemptOK
    <2> HIDE DEF p
    <2>4. conn'[k] = p /\ \A j \in Attempts \ {k} : conn'[j] = conn[j]
          BY <1>t, <2>1
    <2> QED BY <1>k, <2>1, <2>2, <2>3, <2>4, PortMoves
  <1>5. CASE WorkerReads(k)
    <2> DEFINE n == Head(conn[k].replies)
               g == IF n = 1 THEN n ELSE conn[k].got
               p == [conn[k] EXCEPT !.replies = Tail(@), !.got = g]
    <2>1. att[k].worker = "calling" /\ conn' = [conn EXCEPT ![k] = p]
          BY <1>5 DEF WorkerReads
    <2>2. p.handle = conn[k].handle /\ p.sent = conn[k].sent /\ p.got = g
      <3> HIDE DEF g
      <3> QED BY <1>k DEF Pipes
    <2>3. conn[k].handle = "open" /\ conn[k].sent = 1 /\ conn[k].got = 0
          BY <1>k, <2>1 DEF AttemptOK
    <2>4. g \in {0, 1}  BY <2>3
    <2> HIDE DEF p, g
    <2>5. conn'[k] = p /\ \A j \in Attempts \ {k} : conn'[j] = conn[j]
          BY <1>t, <2>1
    <2>6. CASE g = 1
          BY <1>k, <2>2, <2>3, <2>5, <2>6, PortMoves
    <2>7. CASE g = 0
      <3>1. \A j \in Attempts : /\ conn'[j].handle = conn[j].handle
                                /\ conn'[j].sent = conn[j].sent
                                /\ conn'[j].got = conn[j].got
            BY <2>2, <2>3, <2>5, <2>7
      <3> QED BY <3>1, PortQuiet
    <2> QED BY <2>4, <2>6, <2>7
  <1>6. CASE WorkerFinishes(k)
    <2>1. conn' = [conn EXCEPT ![k] = IF Discards(k) THEN Closed(conn[k])
                                                     ELSE conn[k]]
          BY <1>6 DEF WorkerFinishes
    <2>2. CASE Discards(k)
      <3>1. /\ conn'[k] = Closed(conn[k])
            /\ \A j \in Attempts \ {k} : conn'[j] = conn[j]
            BY <1>t, <2>1, <2>2
      <3> QED BY <1>k, <3>1, PortCloses
    <2>3. CASE ~Discards(k)
      <3>1. conn' = conn  BY <1>t, <2>1, <2>3
      <3> QED BY <3>1, PortUnmoved
    <2> QED BY <2>2, <2>3
  <1> QED BY <1>1, <1>2, <1>3, <1>4, <1>5, <1>6 DEF WorkerStep

(* Nothing that the backend does is visible in HostPort. *)
LEMMA BackendImplements ==
  ASSUME ClientInv, NEW k \in Attempts,
         BackendAnswers(k) \/ BackendFallsSilent(k)
  PROVE  [Port!Next]_(Port!portVars)
  <1>t. conn \in [Attempts -> Pipes] /\ conn[k] \in Pipes
        BY DEF ClientInv, TypeOK, ConnectorTypeOK
  <1>1. PICK p : /\ conn' = [conn EXCEPT ![k] = p]
                 /\ p.handle = conn[k].handle
                 /\ p.sent = conn[k].sent /\ p.got = conn[k].got
    <2>1. CASE BackendAnswers(k)
      <3>1. PICK n \in {conn[k].sent} \cup (IF k < MaxAttempts THEN {0} ELSE {}) :
              conn' = [conn EXCEPT ![k].due = FALSE,
                            ![k].replies = IF conn[k].handle = "open"
                                           THEN Append(@, n) ELSE @]
            BY <2>1 DEF BackendAnswers
      <3> DEFINE r == IF conn[k].handle = "open"
                      THEN Append(conn[k].replies, n) ELSE conn[k].replies
                 p == [conn[k] EXCEPT !.due = FALSE, !.replies = r]
      <3>2. conn' = [conn EXCEPT ![k] = p]  BY <1>t, <3>1
      <3>3. p.handle = conn[k].handle
            /\ p.sent = conn[k].sent /\ p.got = conn[k].got
        <4> HIDE DEF r
        <4> QED BY <1>t DEF Pipes
      <3> QED BY <3>2, <3>3
    <2>2. CASE BackendFallsSilent(k)
      <3> DEFINE p == [conn[k] EXCEPT !.silent = TRUE]
      <3>1. conn' = [conn EXCEPT ![k] = p]
            BY <2>2 DEF BackendFallsSilent
      <3>2. p.handle = conn[k].handle
            /\ p.sent = conn[k].sent /\ p.got = conn[k].got
            BY <1>t DEF Pipes
      <3> QED BY <3>1, <3>2
    <2> QED BY <2>1, <2>2
  <1>2. \A j \in Attempts : conn'[j] = IF j = k THEN p ELSE conn[j]
        BY <1>t, <1>1
  <1>3. \A j \in Attempts : /\ conn'[j].handle = conn[j].handle
                            /\ conn'[j].sent = conn[j].sent
                            /\ conn'[j].got = conn[j].got
        BY <1>1, <1>2
  <1> QED BY <1>3, PortQuiet

(* Reconnecting closes at most one pipe: the stored or the failed one. *)
LEMMA ReconnectImplements ==
  ASSUME ClientInv, Reconnects
  PROVE  [Port!Next]_(Port!portVars)
  <1>1. conn' = [j \in Attempts |->
                   IF j = connector THEN Abandoned(att[j], conn[j])
                   ELSE IF j = pipe THEN Closed(conn[j]) ELSE conn[j]]
        BY DEF Reconnects
  <1>2. /\ connector # 0 => pipe = 0
        /\ pipe # 0 => pipe \in Attempts
        /\ connector \in Attempts \cup {0} /\ 0 \notin Attempts
        BY ConnectorAndPipe
  <1>3. conn \in [Attempts -> Pipes]
        BY DEF ClientInv, TypeOK, ConnectorTypeOK
  <1>4. CASE connector # 0
    <2>1. \A j \in Attempts \ {connector} : conn'[j] = conn[j]
          BY <1>1, <1>2, <1>4
    <2>2. conn'[connector] = IF att[connector].stored
                             THEN Closed(conn[connector]) ELSE conn[connector]
          BY <1>1, <1>2, <1>4 DEF Abandoned
    <2>3. CASE att[connector].stored
          BY <1>2, <1>3, <1>4, <2>1, <2>2, <2>3, PortCloses
    <2>4. CASE ~att[connector].stored
      <3>1. \A j \in Attempts : conn'[j] = conn[j]  BY <2>1, <2>2, <2>4
      <3> QED BY <3>1, PortQuiet
    <2> QED BY <2>3, <2>4
  <1>5. CASE connector = 0 /\ pipe # 0
    <2>1. /\ \A j \in Attempts \ {pipe} : conn'[j] = conn[j]
          /\ conn'[pipe] = Closed(conn[pipe])
          BY <1>1, <1>2, <1>5
    <2> QED BY <1>2, <1>3, <1>5, <2>1, PortCloses
  <1>6. CASE connector = 0 /\ pipe = 0
    <2>1. \A j \in Attempts : conn'[j] = conn[j]
          BY <1>1, <1>2, <1>6
    <2> QED BY <2>1, PortQuiet
  <1> QED BY <1>4, <1>5, <1>6

(* A call is sent when the last one is answered. *)
LEMMA BeginCallImplements ==
  ASSUME ClientInv, NEW m \in {"onActivate", "event"}, BeginCall(m),
         ~Top("wait")
  PROVE  [Port!Next]_(Port!portVars)
  <1> DEFINE p == Called(conn[pipe], nextSeq, m)
  <1>1. cstate = "Ready" /\ conn' = [conn EXCEPT ![pipe] = p]
        BY DEF BeginCall
  <1>2. /\ conn \in [Attempts -> Pipes] /\ pipe \in Attempts
        /\ conn[pipe] \in Pipes /\ nextSeq \in Nat
        BY <1>1, ConnectorAndPipe DEF ClientInv, TypeOK, ConnectorTypeOK
  <1>3. /\ conn[pipe].handle = "open" /\ nextSeq = conn[pipe].sent + 1
        /\ conn[pipe].got = conn[pipe].sent
        BY <1>1 DEF ClientInv, StateMatchesPipe, NumberInv
  <1>4. p.handle = conn[pipe].handle /\ p.sent = nextSeq
        /\ p.got = conn[pipe].got
    <2>1. m \in {"init", "onActivate", "event", "onDeactivate"}  OBVIOUS
    <2> QED BY <1>2, <2>1, CalledPipe
  <1> HIDE DEF p
  <1>5. conn'[pipe] = p /\ \A j \in Attempts \ {pipe} : conn'[j] = conn[j]
        BY <1>1, <1>2
  <1>6. Port!Next
        BY <1>2, <1>3, <1>4, <1>5, PortMoves
  <1> QED BY <1>6

(* A refused call sends nothing. *)
LEMMA NotReadyImplements ==
  ASSUME ClientInv, alive, NotReady, ~Top("leaving"), ~Top("left")
  PROVE  [Port!Next]_(Port!portVars)
  <1>1. CASE cstate = "Disconnected" /\ activated
    <2>1. pipe = 0 /\ 0 \notin Attempts
          BY <1>1, ConnectorAndPipe DEF ClientInv, StateMatchesPipe
    <2>2. Reconnects
          BY <1>1, <2>1 DEF NotReady, StartConnect, Reconnects
    <2> QED BY <2>2, ReconnectImplements
  <1>2. CASE ~(cstate = "Disconnected" /\ activated)
    <2>1. conn' = conn  BY <1>2 DEF NotReady, connectorVars
    <2> QED BY <2>1, PortUnmoved
  <1> QED BY <1>1, <1>2

(* A call ends in its own answer or in the end of the connection. *)
LEMMA CallImplements ==
  ASSUME ClientInv, CallSucceeds \/ FailCall
  PROVE  [Port!Next]_(Port!portVars)
  <1>1. Top("wait") /\ cstate = "Ready" /\ alive
        /\ ~Top("leaving") /\ ~Top("left")
        BY DEF CallSucceeds, FailCall, ClientInv, WaitInv, LifeInv, Top,
               Innermost
  <1>2. /\ conn \in [Attempts -> Pipes] /\ pipe \in Attempts
        /\ conn[pipe] \in Pipes /\ connector = 0 /\ 0 \notin Attempts
        BY <1>1, ConnectorAndPipe DEF ClientInv, TypeOK, ConnectorTypeOK
  <1>3. CASE CallSucceeds
    <2> DEFINE n == Head(conn[pipe].replies)
               p == [conn[pipe] EXCEPT !.replies = Tail(@), !.got = n]
    <2>1. conn' = [conn EXCEPT ![pipe] = p] /\ n = conn[pipe].sent
          BY <1>3 DEF CallSucceeds, Matches
    <2>2. p.handle = conn[pipe].handle /\ p.sent = conn[pipe].sent /\ p.got = n
      <3> HIDE DEF n
      <3> QED BY <1>2 DEF Pipes
    <2>3. /\ conn[pipe].handle = "open"
          /\ conn[pipe].got = conn[pipe].sent - 1
          BY <1>1 DEF ClientInv, StateMatchesPipe, NumberInv
    <2>4. conn[pipe].sent \in Nat  BY <1>2 DEF Pipes
    <2> HIDE DEF p, n
    <2>5. conn'[pipe] = p /\ \A j \in Attempts \ {pipe} : conn'[j] = conn[j]
          BY <1>2, <2>1
    <2>6. conn[pipe].got < conn[pipe].sent  BY <2>3, <2>4
    <2>7. Port!Next
          BY <1>2, <2>1, <2>2, <2>3, <2>5, <2>6, PortMoves
    <2> QED BY <2>7
  <1>4. CASE FailCall
    <2>1. activated  BY <1>1, ActiveClient
    <2> DEFINE c == PipesAfterFailure
    <2>2. StartConnect(c)
          BY <1>4, <2>1 DEF FailCall
    <2>3. c = [conn EXCEPT ![pipe] = Closed(conn[pipe])]
          BY DEF PipesAfterFailure
    <2> HIDE DEF c
    <2>4. \A j \in Attempts :
            c[j] = IF j = pipe THEN Closed(conn[j]) ELSE conn[j]
          BY <1>2, <2>3
    <2>5. Reconnects
          BY <1>2, <2>2, <2>4 DEF StartConnect, Reconnects
    <2> QED BY <2>5, ReconnectImplements
  <1> QED BY <1>3, <1>4

(* Taking over a pipe is invisible, dropping one is a close. *)
LEMMA DeliverImplements ==
  ASSUME ClientInv, NEW k \in Attempts, Deliver(k)
  PROVE  [Port!Next]_(Port!portVars)
  <1> DEFINE runs == ~att[k].cancelled /\ att[k].callback
  <1>1. conn \in [Attempts -> Pipes] /\ conn[k] \in Pipes
        BY DEF ClientInv, TypeOK, ConnectorTypeOK
  <1>2. 0 \notin Attempts /\ (att[k].callback => pipe = 0)
        BY ConnectorAndPipe
  <1>3. CASE runs /\ att[k].stored
    <2>1. conn' = [j \in Attempts |->
                     IF j = pipe THEN Closed(conn[j]) ELSE conn[j]]
          BY <1>3 DEF Deliver
    <2>2. conn' = conn  BY <1>1, <1>2, <1>3, <2>1
    <2> QED BY <2>2, PortUnmoved
  <1>4. CASE ~(runs /\ att[k].stored)
    <2>1. conn' = [conn EXCEPT ![k] = Abandoned(att[k], conn[k])]
          BY <1>4 DEF Deliver
    <2>2. CASE att[k].stored
      <3>1. /\ conn'[k] = Closed(conn[k])
            /\ \A j \in Attempts \ {k} : conn'[j] = conn[j]
            BY <1>1, <2>1, <2>2 DEF Abandoned
      <3> QED BY <1>1, <3>1, PortCloses
    <2>3. CASE ~att[k].stored
      <3>1. conn' = conn  BY <1>1, <2>1, <2>3 DEF Abandoned
      <3> QED BY <3>1, PortUnmoved
    <2> QED BY <2>2, <2>3
  <1> QED BY <1>3, <1>4

(* Cancelling an attempt closes its stored pipe, if any. *)
LEMMA DeactivateImplements ==
  ASSUME ClientInv, Deactivate
  PROVE  [Port!Next]_(Port!portVars)
  <1>1. conn' = [j \in Attempts |->
                   IF j = connector THEN Abandoned(att[j], conn[j])
                                    ELSE conn[j]]
        BY DEF Deactivate
  <1>2. /\ conn \in [Attempts -> Pipes] /\ 0 \notin Attempts
        /\ connector \in Attempts \cup {0}
        BY ConnectorAndPipe DEF ClientInv, TypeOK, ConnectorTypeOK
  <1>3. CASE connector # 0 /\ att[connector].stored
    <2>1. /\ conn'[connector] = Closed(conn[connector])
          /\ \A j \in Attempts \ {connector} : conn'[j] = conn[j]
          BY <1>1, <1>2, <1>3 DEF Abandoned
    <2> QED BY <1>2, <1>3, <2>1, PortCloses
  <1>4. CASE ~(connector # 0 /\ att[connector].stored)
    <2>1. conn' = conn  BY <1>1, <1>2, <1>4 DEF Abandoned
    <2> QED BY <2>1, PortUnmoved
  <1> QED BY <1>3, <1>4

(* The last step of closeClient closes the pipe. *)
LEMMA CloseClientImplements ==
  ASSUME ClientInv, CloseClient
  PROVE  [Port!Next]_(Port!portVars)
  <1>1. conn' = [j \in Attempts |->
                   IF j = pipe THEN Closed(conn[j]) ELSE conn[j]]
        BY DEF CloseClient
  <1>2. conn \in [Attempts -> Pipes] /\ (pipe # 0 => pipe \in Attempts)
        /\ 0 \notin Attempts
        BY ConnectorAndPipe DEF ClientInv, TypeOK, ConnectorTypeOK
  <1>3. CASE pipe # 0
    <2>1. /\ conn'[pipe] = Closed(conn[pipe])
          /\ \A j \in Attempts \ {pipe} : conn'[j] = conn[j]
          BY <1>1, <1>2, <1>3
    <2> QED BY <1>2, <1>3, <2>1, PortCloses
  <1>4. CASE pipe = 0
    <2>1. conn' = conn  BY <1>1, <1>2, <1>4
    <2> QED BY <2>1, PortUnmoved
  <1> QED BY <1>3, <1>4

(* Every step of the client is a step of HostPort or a stutter. *)
LEMMA NextImplements ==
  ASSUME ClientInv, [Next]_vars
  PROVE  [Port!Next]_(Port!portVars)
  <1>1. CASE CallSucceeds \/ CallMismatches \/ CallTimesOut
        BY <1>1, CallImplements DEF CallMismatches, CallTimesOut
  <1>2. CASE HandleDone \/ UNCHANGED vars
    <2>1. conn' = conn
          BY <1>2 DEF HandleDone, vars, connectorVars
    <2> QED BY <2>1, PortUnmoved
  <1>3. CASE \E k \in Attempts : Deliver(k)
        BY <1>3, DeliverImplements
  <1>4. CASE InitHandled
    <2>1. alive /\ ~Top("wait") /\ ~Top("leaving") /\ ~Top("left")
          BY <1>4 DEF InitHandled, Top, Innermost, ClientInv, LifeInv
    <2>2. BeginCall("onActivate") \/ NotReady
          BY <1>4 DEF InitHandled
    <2> QED BY <2>1, <2>2, BeginCallImplements, NotReadyImplements
  <1>5. CASE Event
    <2>1. alive /\ ~Top("wait") /\ ~Top("leaving") /\ ~Top("left")
          BY <1>5 DEF Event, Top
    <2>2. BeginCall("event") \/ NotReady
          BY <1>5 DEF Event
    <2> QED BY <2>1, <2>2, BeginCallImplements, NotReadyImplements
  <1>6. CASE DeactivateCalls
    <2>1. cstate = "Disconnected"
          BY <1>6, LeavingClient DEF DeactivateCalls
    <2>2. conn' = conn
          BY <1>6, <2>1 DEF DeactivateCalls, connectorVars
    <2> QED BY <2>2, PortUnmoved
  <1>7. CASE CloseClient  BY <1>7, CloseClientImplements
  <1>8. CASE Deactivate  BY <1>8, DeactivateImplements
  <1>9. CASE OpenClient
    <2>1. StartConnect(conn) /\ pipe = 0 /\ 0 \notin Attempts
          BY <1>9, ConnectorAndPipe DEF OpenClient, ClientInv, LifeInv
    <2>2. Reconnects
          BY <2>1 DEF StartConnect, Reconnects
    <2> QED BY <2>2, ReconnectImplements
  <1>10. ASSUME NEW k \in Attempts, WorkerRuns(k)
         PROVE  [Port!Next]_(Port!portVars)
         BY <1>10, WorkerImplements DEF WorkerRuns
  <1>11. ASSUME NEW k \in Attempts,
                \/ BackendRuns(k)
                \/ BackendFallsSilent(k) /\ UNCHANGED clientVars
         PROVE  [Port!Next]_(Port!portVars)
         BY <1>11, BackendImplements DEF BackendRuns
  <1> QED BY <1>1, <1>2, <1>3, <1>4, <1>5, <1>6, <1>7, <1>8, <1>9, <1>10,
             <1>11 DEF Next, UIStep

(* PIMEClient.cpp callRpcMethod and AsyncConnector.cpp runWorker: on every *)
(* pipe the calls are numbered 1, 2, 3 and so on, one at a time, and no    *)
(* answer is accepted but the one to the last call.                        *)
THEOREM PortImplemented == Spec => PortSpec
  <1>1. ASSUME Init PROVE Port!Init
    <2>1. \A j \in Attempts : conn[j] = NoPipe
          BY <1>1 DEF Init, ConnectorInit
    <2>2. NoPipe.handle = "none" /\ NoPipe.sent = 0 /\ NoPipe.got = 0
          BY DEF NoPipe
    <2> QED BY <2>1, <2>2 DEF Port!Init
  <1>2. ClientInv /\ [Next]_vars => [Port!Next]_(Port!portVars)
        BY NextImplements
  <1> QED BY <1>1, <1>2, ClientInductive, PTL DEF Spec, PortSpec, Port!Spec
=============================================================================
