---------------------------- MODULE OrderProofs -----------------------------
(***************************************************************************)
(* The order of messages, for any sets of connections and backends: the    *)
(* close is the last message of a connection, the watchdog sees every call *)
(* that is not yet answered, no reply is skipped from the middle of a      *)
(* connection's traffic, and a request follows its init to the process.    *)
(* The parts prove OrderInv, MidwayInv and FollowInv (module Launcher) in  *)
(* turn, each with the properties it implies.                              *)
(***************************************************************************)
EXTENDS SessionProofs

-----------------------------------------------------------------------------
(* Queues in order *)

(* What keeps a queue in order. *)
LEMMA OrderedMoves ==
  /\ Ordered(<<>>)
  /\ \A m \in Msg : Ordered(<<m>>)
  /\ \A s \in Seq(Msg) : Ordered(s) /\ s # <<>> =>
       Ordered(Tail(s)) /\ Before({Head(s)}, ToSet(Tail(s)))
  /\ \A s \in Seq(Msg), t \in Seq(Msg) :
       Ordered(s) /\ Ordered(t) /\ Before(ToSet(s), ToSet(t)) => Ordered(s \o t)
<1>1. Ordered(<<>>)
  BY DEF Ordered
<1>2. \A m \in Msg : Ordered(<<m>>)
  BY DEF Ordered
<1>3. ASSUME NEW s \in Seq(Msg), Ordered(s), s # <<>>
      PROVE  Ordered(Tail(s)) /\ Before({Head(s)}, ToSet(Tail(s)))
  <2>1. /\ Tail(s) \in Seq(Msg) /\ Head(s) = s[1] /\ 1 \in DOMAIN s
        /\ DOMAIN Tail(s) = 1 .. Len(s) - 1 /\ DOMAIN s = 1 .. Len(s)
    BY <1>3
  <2>2. \A i \in DOMAIN Tail(s) : i + 1 \in DOMAIN s /\ Tail(s)[i] = s[i + 1]
    BY <1>3, <2>1
  <2>3. Ordered(Tail(s))
    <3> SUFFICES ASSUME NEW i \in DOMAIN Tail(s), NEW j \in DOMAIN Tail(s),
                        i < j
                 PROVE  Precedes(Tail(s)[i], Tail(s)[j])
      BY DEF Ordered
    <3>1. i + 1 \in DOMAIN s /\ j + 1 \in DOMAIN s /\ i + 1 < j + 1
      BY <2>1, <2>2
    <3>2. QED BY <1>3, <2>2, <3>1 DEF Ordered
  <2>4. ToSet(Tail(s)) = {Tail(s)[i] : i \in DOMAIN Tail(s)}
    BY DEF ToSet
  <2>5. \A i \in DOMAIN Tail(s) : Precedes(Head(s), Tail(s)[i])
    BY <1>3, <2>1, <2>2 DEF Ordered
  <2>6. QED BY <2>3, <2>4, <2>5 DEF Before
<1>4. ASSUME NEW s \in Seq(Msg), NEW t \in Seq(Msg), Ordered(s), Ordered(t),
             Before(ToSet(s), ToSet(t))
      PROVE  Ordered(s \o t)
  <2> SUFFICES ASSUME NEW i \in DOMAIN (s \o t), NEW j \in DOMAIN (s \o t), i < j
               PROVE  Precedes((s \o t)[i], (s \o t)[j])
    BY DEF Ordered
  <2>1. /\ i \in 1 .. Len(s) + Len(t) /\ j \in 1 .. Len(s) + Len(t)
        /\ Len(s) \in Nat /\ Len(t) \in Nat
        /\ DOMAIN s = 1 .. Len(s) /\ DOMAIN t = 1 .. Len(t)
    OBVIOUS
  <2>2. \A k \in 1 .. Len(s) + Len(t) :
          (s \o t)[k] = IF k <= Len(s) THEN s[k] ELSE t[k - Len(s)]
    OBVIOUS
  <2>3. CASE j <= Len(s)
    BY <1>4, <2>1, <2>2, <2>3 DEF Ordered
  <2>4. CASE i > Len(s)
    <3>1. i - Len(s) \in DOMAIN t /\ j - Len(s) \in DOMAIN t
          /\ i - Len(s) < j - Len(s)
      BY <2>1, <2>4
    <3>2. (s \o t)[i] = t[i - Len(s)] /\ (s \o t)[j] = t[j - Len(s)]
      BY <2>1, <2>2, <2>4
    <3>3. QED BY <1>4, <3>1, <3>2 DEF Ordered
  <2>5. CASE i <= Len(s) /\ j > Len(s)
    <3>1. i \in 1 .. Len(s) /\ j - Len(s) \in 1 .. Len(t)
      BY <2>1, <2>5
    <3>2. (s \o t)[i] = s[i] /\ (s \o t)[j] = t[j - Len(s)]
      BY <2>1, <2>2, <2>5
    <3>3. s[i] \in ToSet(s) /\ t[j - Len(s)] \in ToSet(t)
      BY <3>1, ElemsByIndex
    <3>4. QED BY <1>4, <3>2, <3>3 DEF Before
  <2>6. QED BY <2>1, <2>3, <2>4, <2>5
<1>5. QED BY <1>1, <1>2, <1>3, <1>4

(* A message that comes after all others may be added at the end. *)
LEMMA OrderedAppend ==
  ASSUME NEW s \in Seq(Msg), NEW m \in Msg, Ordered(s), Before(ToSet(s), {m})
  PROVE  Ordered(Append(s, m))
<1>1. <<m>> \in Seq(Msg) /\ ToSet(<<m>>) = {m} /\ Append(s, m) = s \o <<m>>
  BY SlotElems
<1>2. QED BY <1>1, OrderedMoves

(* What keeps queues that follow on one another in order: a message moves  *)
(* on, the oldest leaves, one is added, or a queue is emptied.             *)
LEMMA LineMoves ==
  ASSUME NEW p \in Seq(Msg), NEW q \in Seq(Msg), NEW r \in Seq(Msg),
         NEW s \in Seq(Msg), InLine(p, q, r, s)
  PROVE  /\ s # <<>> => InLine(p, q, <<Head(s)>>, Tail(s))
         /\ InLine(p, q \o r, <<>>, s)
         /\ q # <<>> => InLine(Append(p, Head(q)), Tail(q), r, s)
         /\ p # <<>> =>
              /\ InLine(Tail(p), q, r, s)
              /\ Before({Head(p)}, ToSet(Tail(p)) \cup ToSet(q)
                                     \cup ToSet(r) \cup ToSet(s))
         /\ q # <<>> => Before({Head(q)}, ToSet(Tail(q)) \cup ToSet(r)
                                            \cup ToSet(s))
         /\ \A m \in Msg :
              Before(ToSet(p) \cup ToSet(q) \cup ToSet(r) \cup ToSet(s), {m})
                => InLine(p, q, r, Append(s, m))
         /\ InLine(<<>>, q, r, s) /\ InLine(p, <<>>, r, s)
         /\ InLine(p, q, <<>>, s) /\ InLine(p, q, r, <<>>)
         /\ InLine(<<>>, <<>>, r, s) /\ InLine(p, <<>>, <<>>, s)
         /\ InLine(<<>>, q, r, <<>>)
<1> USE DEF InLine
<1>1. s # <<>> => InLine(p, q, <<Head(s)>>, Tail(s))
  <2> SUFFICES ASSUME s # <<>> PROVE InLine(p, q, <<Head(s)>>, Tail(s))
    OBVIOUS
  <2>1. /\ Head(s) \in ToSet(s) /\ Head(s) \in Msg
        /\ ToSet(Tail(s)) \subseteq ToSet(s) /\ ToSet(<<Head(s)>>) = {Head(s)}
    BY TailElems, SlotElems
  <2>2. /\ Ordered(<<Head(s)>>) /\ Ordered(Tail(s))
        /\ Before({Head(s)}, ToSet(Tail(s)))
    BY <2>1, OrderedMoves
  <2>3. QED BY <2>1, <2>2 DEF Before
<1>2. InLine(p, q \o r, <<>>, s)
  <2>1. ToSet(q \o r) = ToSet(q) \cup ToSet(r)
    BY ConcatElems
  <2>2. Ordered(q \o r) /\ Ordered(<<>>)
    BY OrderedMoves DEF Before
  <2>3. QED BY <2>1, <2>2, EmptyElems DEF Before
<1>3. ASSUME q # <<>>
      PROVE  /\ InLine(Append(p, Head(q)), Tail(q), r, s)
             /\ Before({Head(q)}, ToSet(Tail(q)) \cup ToSet(r) \cup ToSet(s))
  <2>1. /\ Head(q) \in ToSet(q) /\ Head(q) \in Msg
        /\ ToSet(Tail(q)) \subseteq ToSet(q)
    BY <1>3, TailElems
  <2>2. Ordered(Tail(q)) /\ Before({Head(q)}, ToSet(Tail(q)))
    BY <1>3, OrderedMoves
  <2>3. /\ ToSet(Append(p, Head(q))) = ToSet(p) \cup {Head(q)}
        /\ Ordered(Append(p, Head(q)))
    BY <2>1, AppendElems, OrderedAppend DEF Before
  <2>4. QED BY <2>1, <2>2, <2>3 DEF Before
<1>4. ASSUME p # <<>>
      PROVE  /\ InLine(Tail(p), q, r, s)
             /\ Before({Head(p)}, ToSet(Tail(p)) \cup ToSet(q)
                                    \cup ToSet(r) \cup ToSet(s))
  <2>1. Head(p) \in ToSet(p) /\ ToSet(Tail(p)) \subseteq ToSet(p)
    BY <1>4, TailElems
  <2>2. Ordered(Tail(p)) /\ Before({Head(p)}, ToSet(Tail(p)))
    BY <1>4, OrderedMoves
  <2>3. QED BY <2>1, <2>2 DEF Before
<1>5. ASSUME NEW m \in Msg,
             Before(ToSet(p) \cup ToSet(q) \cup ToSet(r) \cup ToSet(s), {m})
      PROVE  InLine(p, q, r, Append(s, m))
  <2>1. /\ ToSet(Append(s, m)) = ToSet(s) \cup {m}
        /\ Ordered(Append(s, m))
    BY <1>5, AppendElems, OrderedAppend DEF Before
  <2>2. QED BY <1>5, <2>1 DEF Before
<1>6. /\ InLine(<<>>, q, r, s) /\ InLine(p, <<>>, r, s)
      /\ InLine(p, q, <<>>, s) /\ InLine(p, q, r, <<>>)
      /\ InLine(<<>>, <<>>, r, s) /\ InLine(p, <<>>, <<>>, s)
      /\ InLine(<<>>, q, r, <<>>)
  BY EmptyElems, OrderedMoves DEF Before
<1>7. QED BY <1>1, <1>2, <1>3, <1>4, <1>5, <1>6

(* Three queues that are joined. *)
LEMMA JoinedQueues ==
  ASSUME NEW q \in Seq(Msg), NEW r \in Seq(Msg), NEW s \in Seq(Msg)
  PROVE  /\ q \o r \o s \in Seq(Msg)
         /\ ToSet(q \o r \o s) = ToSet(q) \cup ToSet(r) \cup ToSet(s)
         /\ \A p : InLine(p, q, r, s) => Ordered(q \o r \o s)
<1>0. q \o r \in Seq(Msg)
  BY ConcatElems
<1>1. PICK t \in Seq(Msg) : t = q \o r
  BY <1>0
<1>2. ToSet(t) = ToSet(q) \cup ToSet(r)
  BY <1>1, ConcatElems
<1>3. t \o s \in Seq(Msg) /\ ToSet(t \o s) = ToSet(t) \cup ToSet(s)
  BY ConcatElems
<1>4. ASSUME NEW p, InLine(p, q, r, s) PROVE Ordered(t \o s)
  <2>1. /\ Ordered(q) /\ Ordered(r) /\ Ordered(s)
        /\ Before(ToSet(q), ToSet(r)) /\ Before(ToSet(t), ToSet(s))
    BY <1>2, <1>4 DEF InLine, Before
  <2>2. Ordered(t)
    BY <1>1, <2>1, OrderedMoves
  <2>3. QED BY <2>1, <2>2, OrderedMoves
<1>5. QED BY <1>1, <1>2, <1>3, <1>4

-----------------------------------------------------------------------------
(* The messages of a backend *)

LineVars == <<procOut, procIn, inflight, stdinQ, pending>>

(* The steps that move the messages of a backend, and the steps that do    *)
(* not: of these, one starts the backend's task.                           *)
Moves(b) ==
  \/ Spawn(b) \/ RecvInput(b) \/ WriteInput(b) \/ KillAndExit(b)
  \/ DisconnectClients(b) \/ EndRestartDelay(b) \/ RouteReply(b)
  \/ BackendHandles(b) \/ BackendCrashes(b)

Sends(c) == SendLine(c, "handshake") \/ SendLine(c, "sending") \/ SendClose(c)

Rests ==
  /\ UNCHANGED LineVars
  /\ \A b \in Backends :
       task[b]' # task[b] => task[b] = "absent" /\ task[b]' = "spawning"

LEMMA StepKinds ==
  ASSUME TypeOK, [Next]_vars
  PROVE  \/ \E b \in Backends : Moves(b) /\ UNCHANGED launcherVars
         \/ \E c \in Clients : Sends(c)
         \/ Rests
<1>1. CASE UNCHANGED vars
  BY <1>1
  DEF vars, managerVars, taskVars, procVars, Rests, LineVars
<1>2. ASSUME NEW b \in Backends, BackendStep(b)
      PROVE  (Moves(b) /\ UNCHANGED launcherVars) \/ Rests
  <2>1. CASE SendCompletes(b) \/ SendTimesOut(b) \/ StdoutReadError(b)
               \/ BackendHangs(b)
    BY <2>1
    DEF SendCompletes, SendTimesOut, StdoutReadError, BackendHangs,
        channelVars, taskVars, procVars, Rests, LineVars
  <2>2. CASE WriteFails(b) \/ WatchdogKill(b) \/ ChildExits(b)
    <3>1. UNCHANGED launcherVars
      BY <1>2, <2>2
      DEF BackendStep, WriteFails, WatchdogKill, ChildExits, KillAndExit,
          RestartAfterDelay, EndRestartDelay, Spawn, RecvInput, WriteInput,
          DisconnectClients, RouteReply, SendCompletes, SendTimesOut,
          BackendHandles, StdoutReadError, BackendHangs, BackendCrashes
    <3>2. QED BY <2>2, <3>1 DEF WriteFails, WatchdogKill, ChildExits, Moves
  <2>3. QED BY <1>2, <2>1, <2>2 DEF BackendStep, RestartAfterDelay, Moves
<1>3. ASSUME NEW c \in Clients, HostStep(c) PROVE Rests
  BY <1>3
  DEF HostStep, HostConnect, HostSend, HostRecv, HostClose, managerVars,
      taskVars, procVars, Rests, LineVars
<1>4. ASSUME NEW c \in Clients, AcceptStep(c) PROVE Sends(c) \/ Rests
  <2>1. CASE AcceptGetInput(c)
    <3>1. task \in [Backends -> TaskStates]
      BY DEF TypeOK, ManagerTypeOK, TaskTypeOK
    <3>2. QED
      BY <2>1, <3>1
      DEF AcceptGetInput, GetBackendInput, procVars, Rests, LineVars
  <2>2. CASE AcceptHandshake(c) \/ AcceptFails(c) \/ AcceptRegister(c)
    BY <2>2
    DEF AcceptHandshake, AcceptFails, AcceptRegister, managerVars, taskVars,
        procVars, Rests, LineVars
  <2>3. QED
    BY <1>4, <2>1, <2>2 DEF AcceptStep, AcceptSendHandshake, Sends
<1>5. ASSUME NEW c \in Clients, SessionStep(c) PROVE Sends(c) \/ Rests
  <2>1. CASE SendClientLine(c) \/ SendClose(c)
    BY <2>1 DEF SendClientLine, Sends
  <2>2. CASE ReadClient(c) \/ ReadEof(c) \/ RecvReply(c) \/ WriteReply(c)
               \/ WriteReplyFails(c) \/ RecvClosed(c) \/ Unregister(c)
    BY <2>2
    DEF ReadClient, ReadEof, RecvReply, WriteReply, WriteReplyFails,
        RecvClosed, Unregister, managerVars, taskVars, procVars, Rests,
        LineVars
  <2>3. QED BY <1>5, <2>1, <2>2 DEF SessionStep
<1>6. QED BY <1>1, <1>2, <1>3, <1>4, <1>5 DEF Next

(* A step of one backend leaves the others' messages alone, and keeps      *)
(* their task.                                                             *)
LEMMA OneBackend ==
  ASSUME TypeOK, NEW b \in Backends, Moves(b), NEW x \in Backends, x # b
  PROVE  /\ procOut[x]' = procOut[x] /\ procIn[x]' = procIn[x]
         /\ inflight[x]' = inflight[x] /\ stdinQ[x]' = stdinQ[x]
         /\ pending[x]' = pending[x] /\ task[x]' = task[x]
<1> USE DEF TypeOK, ManagerTypeOK, TaskTypeOK, ProcTypeOK
<1>1. CASE Spawn(b) \/ RecvInput(b) \/ WriteInput(b)
  BY <1>1 DEF Spawn, RecvInput, WriteInput, procVars
<1>2. CASE KillAndExit(b) \/ DisconnectClients(b) \/ EndRestartDelay(b)
  BY <1>2 DEF KillAndExit, DisconnectClients, EndRestartDelay, procVars
<1>3. CASE RouteReply(b) \/ BackendHandles(b) \/ BackendCrashes(b)
  BY <1>3 DEF RouteReply, BackendHandles, BackendCrashes, taskVars
<1>4. QED BY <1>1, <1>2, <1>3 DEF Moves

(* Where the messages of the backend are after the step. *)
LEMMA MovedTo ==
  ASSUME TypeOK, NEW b \in Backends, Moves(b)
  PROVE  \/ /\ Spawn(b)
            /\ procOut[b]' = <<>> /\ procIn[b]' = <<>>
            /\ inflight[b]' = inflight[b] /\ stdinQ[b]' = stdinQ[b]
            /\ pending[b]' = {} /\ task[b] = "spawning"
            /\ task[b]' = "running"
         \/ /\ RecvInput(b) /\ stdinQ[b] # <<>>
            /\ procOut[b]' = procOut[b] /\ procIn[b]' = procIn[b]
            /\ inflight[b]' = <<Head(stdinQ[b])>>
            /\ stdinQ[b]' = Tail(stdinQ[b])
            /\ pending[b]' = pending[b] \cup {Key(Head(stdinQ[b]))}
            /\ task[b] = "running" /\ task[b]' = "writing"
         \/ /\ WriteInput(b)
            /\ procOut[b]' = procOut[b]
            /\ procIn[b]' = procIn[b] \o inflight[b]
            /\ inflight[b]' = <<>> /\ stdinQ[b]' = stdinQ[b]
            /\ pending[b]' = pending[b]
            /\ task[b] = "writing" /\ task[b]' = "running"
         \/ /\ KillAndExit(b)
            /\ procOut[b]' = procOut[b] /\ procIn[b]' = <<>>
            /\ inflight[b]' = <<>> /\ stdinQ[b]' = stdinQ[b]
            /\ task[b]' = "exiting"
         \/ /\ DisconnectClients(b)
            /\ procOut[b]' = <<>> /\ procIn[b]' = procIn[b]
            /\ inflight[b]' = inflight[b] /\ stdinQ[b]' = <<>>
            /\ task[b] = "exiting" /\ task[b]' = "delay"
         \/ /\ EndRestartDelay(b)
            /\ procOut[b]' = procOut[b] /\ procIn[b]' = procIn[b]
            /\ inflight[b]' = inflight[b] /\ stdinQ[b]' = <<>>
            /\ task[b] = "delay" /\ task[b]' = "spawning"
         \/ /\ RouteReply(b) /\ procOut[b] # <<>>
            /\ procOut[b]' = Tail(procOut[b]) /\ procIn[b]' = procIn[b]
            /\ inflight[b]' = inflight[b] /\ stdinQ[b]' = stdinQ[b]
            /\ pending[b]' = pending[b] \ {Key(Head(procOut[b]))}
            /\ task[b]' = task[b]
         \/ /\ BackendHandles(b) /\ procIn[b] # <<>>
            /\ procOut[b]' = Append(procOut[b], Head(procIn[b]))
            /\ procIn[b]' = Tail(procIn[b])
            /\ inflight[b]' = inflight[b] /\ stdinQ[b]' = stdinQ[b]
            /\ pending[b]' = pending[b] /\ task[b]' = task[b]
         \/ /\ BackendCrashes(b)
            /\ procOut[b]' = procOut[b] /\ procIn[b]' = <<>>
            /\ inflight[b]' = inflight[b] /\ stdinQ[b]' = stdinQ[b]
            /\ pending[b]' = pending[b] /\ task[b]' = task[b]
<1> USE DEF TypeOK, ManagerTypeOK, TaskTypeOK, ProcTypeOK, procVars, taskVars
<1>1. CASE Spawn(b)
  BY <1>1 DEF Spawn
<1>2. CASE RecvInput(b)
  BY <1>2 DEF RecvInput
<1>3. CASE WriteInput(b)
  BY <1>3 DEF WriteInput
<1>4. CASE KillAndExit(b)
  BY <1>4 DEF KillAndExit
<1>5. CASE DisconnectClients(b)
  BY <1>5 DEF DisconnectClients
<1>6. CASE EndRestartDelay(b)
  BY <1>6 DEF EndRestartDelay, Drained
<1>7. CASE RouteReply(b)
  BY <1>7 DEF RouteReply, Untrack
<1>8. CASE BackendHandles(b)
  BY <1>8 DEF BackendHandles
<1>9. CASE BackendCrashes(b)
  BY <1>9 DEF BackendCrashes
<1>10. QED
  BY <1>1, <1>2, <1>3, <1>4, <1>5, <1>6, <1>7, <1>8, <1>9 DEF Moves

-----------------------------------------------------------------------------
(* The invariant *)

(* Messages stay in line at a backend when none arrives. *)
LEMMA LineAtBackend ==
  ASSUME TypeOK, NEW b \in Backends, Moves(b),
         InLine(procOut[b], procIn[b], inflight[b], stdinQ[b])
  PROVE  InLine(procOut[b], procIn[b], inflight[b], stdinQ[b])'
<1> DEFINE p == procOut[b]
           q == procIn[b]
           r == inflight[b]
           s == stdinQ[b]
<1>1. p \in Seq(Msg) /\ q \in Seq(Msg) /\ r \in Seq(Msg) /\ s \in Seq(Msg)
  BY QueueTypes
<1> HIDE DEF p, q, r, s
<1>2. /\ InLine(<<>>, <<>>, r, s) /\ InLine(p, q \o r, <<>>, s)
      /\ InLine(p, <<>>, <<>>, s) /\ InLine(<<>>, q, r, <<>>)
      /\ InLine(p, q, r, <<>>) /\ InLine(p, <<>>, r, s)
      /\ s # <<>> => InLine(p, q, <<Head(s)>>, Tail(s))
      /\ p # <<>> => InLine(Tail(p), q, r, s)
      /\ q # <<>> => InLine(Append(p, Head(q)), Tail(q), r, s)
  <2>1. InLine(p, q, r, s)
    BY DEF p, q, r, s
  <2>2. QED BY <1>1, <2>1, LineMoves
<1>3. QED BY <1>2, MovedTo DEF p, q, r, s

(* A message that arrives last stays in line. *)
LEMMA LineArrival ==
  ASSUME TypeOK, LineInv, NEW b \in Backends, NEW m \in Msg,
         UNCHANGED <<procOut, procIn, inflight>>,
         stdinQ' = [stdinQ EXCEPT ![b] = Append(stdinQ[b], m)],
         Before(ToSet(procOut[b]) \cup Waiting(b), {m})
  PROVE  LineInv'
<1>1. stdinQ \in [Backends -> Seq(Msg)]
  BY DEF TypeOK, ManagerTypeOK, TaskTypeOK
<1>2. /\ stdinQ[b]' = Append(stdinQ[b], m)
      /\ \A x \in Backends \ {b} : stdinQ[x]' = stdinQ[x]
  BY <1>1
<1>3. /\ procOut[b] \in Seq(Msg) /\ procIn[b] \in Seq(Msg)
      /\ inflight[b] \in Seq(Msg) /\ stdinQ[b] \in Seq(Msg)
  BY QueueTypes
<1>4. InLine(procOut[b], procIn[b], inflight[b], stdinQ[b])
  BY DEF LineInv
<1>5. Before(ToSet(procOut[b]) \cup ToSet(procIn[b]) \cup ToSet(inflight[b])
               \cup ToSet(stdinQ[b]), {m})
  BY DEF Waiting, Before
<1>6. InLine(procOut[b], procIn[b], inflight[b], Append(stdinQ[b], m))
  BY <1>3, <1>4, <1>5, LineMoves
<1>7. QED BY <1>2, <1>6 DEF LineInv

(* A line or a close comes after everything its connection sent before:    *)
(* the session is not done, so no close is under way, and what is still in *)
(* the pipe is younger.                                                    *)
LEMMA SentIsLast ==
  ASSUME TypeOK, SentInv, NEW b \in Backends, NEW c \in Clients,
         NEW m \in Msg, m.client = c, sess[c] # "done",
         m.kind = "close" \/ m \in ToSet(toServer[c])
  PROVE  Before(ToSet(procOut[b]) \cup Waiting(b), {m})
<1> SUFFICES ASSUME NEW x \in ToSet(procOut[b]) \cup Waiting(b), x.client = c
             PROVE  x.kind # "close" /\ (m.kind # "close" => x.seq < m.seq)
  BY DEF Before, Precedes
<1>1. x \in Waiting(b) \cup Answered(b)
  BY DEF Answered
<1>2. QED BY <1>1 DEF SentInv

LEMMA LineStep == IInv /\ OrderInv /\ [Next]_vars => LineInv'
<1> SUFFICES ASSUME IInv, OrderInv, [Next]_vars PROVE LineInv'
  OBVIOUS
<1>1. TypeOK /\ LineInv /\ SentInv
  BY DEF IInv, OrderInv
<1>2. ASSUME NEW b \in Backends, Moves(b) PROVE LineInv'
  <2>1. InLine(procOut[b], procIn[b], inflight[b], stdinQ[b])'
    BY <1>1, <1>2, LineAtBackend DEF LineInv
  <2>2. ASSUME NEW x \in Backends, x # b
        PROVE  InLine(procOut[x], procIn[x], inflight[x], stdinQ[x])'
    BY <1>1, <1>2, <2>2, OneBackend DEF LineInv
  <2>3. QED BY <2>1, <2>2 DEF LineInv
<1>3. ASSUME NEW c \in Clients, Sends(c) PROVE LineInv'
  <2>1. PICK b \in Backends : b = backendOf[c]
    BY <1>3 DEF IInv, EntryInv, Sends, SendLine, SendClose, SessAt, Live
  <2>2. PICK m \in Msg :
          /\ m.client = c /\ sess[c] # "done"
          /\ m.kind = "close" \/ m \in ToSet(toServer[c])
          /\ stdinQ' = [stdinQ EXCEPT ![b] = Append(stdinQ[b], m)]
          /\ UNCHANGED <<procOut, procIn, inflight>>
    <3>1. CASE SendLine(c, "handshake") \/ SendLine(c, "sending")
      <4>1. toServer[c] # <<>> /\ toServer[c] \in Seq(Msg)
        BY <1>1, <3>1, QueueTypes DEF SendLine
      <4>2. Head(toServer[c]) \in Msg /\ Head(toServer[c]) \in ToSet(toServer[c])
        BY <4>1, TailElems
      <4>3. Head(toServer[c]).client = c
        BY <4>2 DEF IInv, ChannelInv
      <4>4. QED
        BY <2>1, <3>1, <4>2, <4>3 DEF SendLine, SessAt, Enqueue, procVars
    <3>2. CASE SendClose(c)
      <4>1. closeSeq[c] \in Nat
        BY <1>1 DEF TypeOK, SessionTypeOK
      <4>2. [client |-> c, kind |-> "close", seq |-> closeSeq[c]] \in Msg
        BY <4>1 DEF Msg, Kinds
      <4>3. QED
        BY <2>1, <3>2, <4>2 DEF SendClose, SessAt, Enqueue, procVars
    <3>3. QED BY <1>3, <3>1, <3>2 DEF Sends
  <2>3. QED BY <1>1, <2>2, SentIsLast, LineArrival
<1>4. CASE Rests
  BY <1>1, <1>4 DEF Rests, LineVars, LineInv
<1>5. QED BY <1>1, <1>2, <1>3, <1>4, StepKinds

(* A host adds to its pipe at the end, with the next number; a session     *)
(* takes from the front; and a session that is done stays done.            *)
HostFlow ==
  /\ \A c \in Clients :
       \/ toServer[c]' = toServer[c] /\ hostSeq[c]' = hostSeq[c]
       \/ /\ toServer[c] # <<>> /\ toServer[c]' = Tail(toServer[c])
          /\ hostSeq[c]' = hostSeq[c]
       \/ /\ hostSeq[c]' = hostSeq[c] + 1
          /\ \E m \in Msg : m.client = c /\ m.seq = hostSeq[c] + 1
                            /\ toServer[c]' = Append(toServer[c], m)
  /\ \A c \in Clients : sess[c] = "done" => sess[c]' = "done"

LEMMA HostStepFlow == TypeOK /\ [Next]_vars => HostFlow
<1> SUFFICES ASSUME TypeOK, [Next]_vars PROVE HostFlow
  OBVIOUS
<1>0. /\ toServer \in [Clients -> Seq(Msg)] /\ hostSeq \in [Clients -> Nat]
      /\ sess \in [Clients -> SessStates]
  BY DEF TypeOK, SessionTypeOK, HostTypeOK
<1>1. CASE UNCHANGED vars
  BY <1>1 DEF vars, launcherVars, sessionVars, hostVars, HostFlow
<1>2. ASSUME NEW b \in Backends, BackendStep(b) PROVE HostFlow
  <2>1. UNCHANGED launcherVars
    BY <1>2 DEF BackendStep, RestartAfterDelay
  <2>2. QED BY <2>1 DEF launcherVars, sessionVars, hostVars, HostFlow
<1>3. ASSUME NEW c \in Clients, HostStep(c) PROVE HostFlow
  <2>1. CASE HostSend(c)
    <3> DEFINE n == hostSeq[c] + 1
               m == [client |-> c, kind |-> IF n = 1 THEN "init" ELSE "req",
                     seq |-> n]
    <3>1. n \in Nat /\ m \in Msg
      BY <1>0 DEF Msg, Kinds
    <3>2. /\ hostSeq' = [hostSeq EXCEPT ![c] = n]
          /\ toServer' = [toServer EXCEPT ![c] = Append(@, m)]
          /\ sess' = sess
      BY <2>1 DEF HostSend, sessionVars
    <3>3. m.client = c /\ m.seq = n
      OBVIOUS
    <3> HIDE DEF m
    <3>4. hostSeq[c]' = n /\ toServer[c]' = Append(toServer[c], m)
      BY <1>0, <3>2
    <3>5. \A x \in Clients \ {c} :
            hostSeq[x]' = hostSeq[x] /\ toServer[x]' = toServer[x]
      BY <1>0, <3>2
    <3>6. QED BY <3>1, <3>2, <3>3, <3>4, <3>5 DEF HostFlow
  <2>2. CASE HostConnect(c)
    BY <1>0, <2>2 DEF HostConnect, SessAt, HostFlow
  <2>3. CASE HostRecv(c) \/ HostClose(c)
    BY <2>3 DEF HostRecv, HostClose, sessionVars, HostFlow
  <2>4. QED BY <1>3, <2>1, <2>2, <2>3 DEF HostStep
<1>4. ASSUME NEW c \in Clients, AcceptStep(c) \/ SessionStep(c) PROVE HostFlow
  <2>1. CASE \E from \in {"handshake", "sending"} : SendLine(c, from)
    <3>1. PICK from \in {"handshake", "sending"} : SendLine(c, from)
      BY <2>1
    <3>2. /\ sess[c] = from /\ sess' = [sess EXCEPT ![c] = "running"]
          /\ toServer[c] # <<>> /\ hostSeq' = hostSeq
          /\ toServer' = [toServer EXCEPT ![c] = Tail(@)]
      BY <3>1 DEF SendLine, SessAt
    <3>3. QED BY <1>0, <3>2 DEF HostFlow
  <2>2. CASE AcceptHandshake(c) \/ AcceptFails(c) \/ AcceptGetInput(c)
               \/ AcceptRegister(c)
    BY <1>0, <2>2
    DEF AcceptHandshake, AcceptFails, AcceptGetInput, AcceptRegister, SessAt,
        hostVars, HostFlow
  <2>3. CASE ReadClient(c) \/ ReadEof(c) \/ RecvReply(c) \/ WriteReply(c)
               \/ WriteReplyFails(c)
    BY <1>0, <2>3
    DEF ReadClient, Serves, ReadEof, RecvReply, WriteReply, WriteReplyFails,
        SessAt, hostVars, HostFlow
  <2>4. CASE RecvClosed(c) \/ Unregister(c) \/ SendClose(c)
    BY <1>0, <2>4
    DEF RecvClosed, Unregister, SendClose, SessAt, hostVars, HostFlow
  <2>5. QED
    BY <1>4, <2>1, <2>2, <2>3, <2>4
    DEF AcceptStep, SessionStep, AcceptSendHandshake, SendClientLine
<1>5. QED BY <1>1, <1>2, <1>3, <1>4 DEF Next

(* The numbers of what is under way and in the pipes. *)
LEMMA SentStep ==
  IInv /\ OrderInv /\ Flows /\ HostFlow /\ TypeOK' => SentInv'
<1> SUFFICES ASSUME IInv, OrderInv, Flows, HostFlow, TypeOK' PROVE SentInv'
  OBVIOUS
<1>0. /\ TypeOK /\ SentInv /\ ChannelInv /\ FreshInv
      /\ \A c \in Clients : hostSeq[c] \in Nat
  BY DEF IInv, OrderInv, TypeOK, HostTypeOK
<1>1. ASSUME NEW c \in Clients
      PROVE  /\ Ordered(toServer[c])' /\ hostSeq[c]' >= hostSeq[c]
             /\ \A n \in ToSet(toServer[c])' : n.seq <= hostSeq[c]'
             /\ \A n \in ToSet(toServer[c])' :
                  n \in ToSet(toServer[c]) \/ n.seq = hostSeq[c] + 1
             /\ toServer[c] # <<>> /\ toServer[c]' = Tail(toServer[c]) =>
                  Before({Head(toServer[c])}, ToSet(toServer[c])')
  <2>0. /\ toServer[c] \in Seq(Msg) /\ hostSeq[c] \in Nat
        /\ Ordered(toServer[c])
        /\ \A n \in ToSet(toServer[c]) :
             /\ n \in Msg /\ n.seq \in Nat /\ n.seq <= hostSeq[c]
             /\ n.client = c /\ n.kind # "close"
    <3>1. toServer[c] \in Seq(Msg)
      BY <1>0, QueueTypes
    <3>2. \A n \in ToSet(toServer[c]) : n \in Msg
      BY <3>1, ElemsByIndex
    <3>3. QED BY <1>0, <3>1, <3>2 DEF SentInv, ChannelInv, Msg
  <2>1. toServer[c] # <<>> =>
          /\ ToSet(Tail(toServer[c])) \subseteq ToSet(toServer[c])
          /\ Ordered(Tail(toServer[c]))
          /\ Before({Head(toServer[c])}, ToSet(Tail(toServer[c])))
    BY <2>0, TailElems, OrderedMoves
  <2>2. CASE toServer[c]' = toServer[c] /\ hostSeq[c]' = hostSeq[c]
    <3>1. toServer[c] # <<>> /\ toServer[c]' = Tail(toServer[c]) =>
            Before({Head(toServer[c])}, ToSet(toServer[c])')
      BY <2>1, <2>2
    <3>2. QED BY <2>0, <2>2, <3>1
  <2>3. CASE /\ toServer[c] # <<>> /\ toServer[c]' = Tail(toServer[c])
             /\ hostSeq[c]' = hostSeq[c]
    BY <2>0, <2>1, <2>3
  <2>4. CASE /\ hostSeq[c]' = hostSeq[c] + 1
             /\ \E m \in Msg : m.client = c /\ m.seq = hostSeq[c] + 1
                               /\ toServer[c]' = Append(toServer[c], m)
    <3>1. PICK m \in Msg : /\ m.client = c /\ m.seq = hostSeq[c] + 1
                           /\ toServer[c]' = Append(toServer[c], m)
      BY <2>4
    <3>2. ToSet(toServer[c])' = ToSet(toServer[c]) \cup {m}
      BY <2>0, <3>1, AppendElems
    <3>3. Before(ToSet(toServer[c]), {m})
      BY <2>0, <3>1 DEF Before, Precedes
    <3>4. Ordered(toServer[c])'
      BY <2>0, <3>1, <3>3, OrderedAppend
    <3>5. toServer[c] # <<>> /\ toServer[c]' = Tail(toServer[c]) =>
            Before({Head(toServer[c])}, ToSet(toServer[c])')
      BY <2>1
    <3>6. QED BY <2>0, <2>4, <3>1, <3>2, <3>4, <3>5
  <2>5. QED BY <2>2, <2>3, <2>4 DEF HostFlow
<1>2. ASSUME NEW b \in Backends, NEW m \in Waiting(b) \cup Answered(b)
      PROVE  IF m.kind = "close" THEN sess[m.client]' = "done"
             ELSE /\ m.seq <= hostSeq[m.client]'
                  /\ \A n \in ToSet(toServer[m.client])' : m.seq < n.seq
  <2>1. m.client \in Clients /\ m \in Msg /\ m.seq \in Nat
    BY <1>0, TrafficTypes DEF Msg
  <2>2. CASE m.kind = "close"
    BY <1>0, <2>1, <2>2 DEF SentInv, HostFlow
  <2>3. CASE m.kind # "close"
    <3>1. /\ m.seq <= hostSeq[m.client]
          /\ \A n \in ToSet(toServer[m.client]) : m.seq < n.seq
      BY <1>0, <2>3 DEF SentInv
    <3>2. hostSeq[m.client] \in Nat /\ hostSeq[m.client]' \in Nat
      BY <2>1 DEF TypeOK, HostTypeOK, IInv
    <3>3. PICK c \in Clients : c = m.client
      BY <2>1
    <3>4. /\ hostSeq[c]' >= hostSeq[c]
          /\ \A n \in ToSet(toServer[c])' :
               n \in ToSet(toServer[c]) \/ n.seq = hostSeq[c] + 1
      BY <1>1
    <3>5. m.seq <= hostSeq[c]'
      BY <2>1, <3>1, <3>2, <3>3, <3>4
    <3>6. ASSUME NEW n \in ToSet(toServer[c])' PROVE m.seq < n.seq
      BY <2>1, <3>1, <3>2, <3>3, <3>4, <3>6
    <3>7. QED BY <2>3, <3>3, <3>5, <3>6
  <2>4. QED BY <2>2, <2>3
<1>3. ASSUME NEW b \in Backends, NEW m \in Waiting(b)', m \notin Waiting(b)
      PROVE  IF m.kind = "close" THEN sess[m.client]' = "done"
             ELSE /\ m.seq <= hostSeq[m.client]'
                  /\ \A n \in ToSet(toServer[m.client])' : m.seq < n.seq
  <2>1. PICK c \in Clients :
          \/ /\ sess[c] \in Live /\ toServer[c] # <<>>
             /\ m = Head(toServer[c]) /\ toServer[c]' = Tail(toServer[c])
          \/ /\ sess[c] = "closing" /\ sess[c]' = "done"
             /\ m.client = c /\ m.kind = "close"
    BY <1>3 DEF Flows, WaitingFlow
  <2>2. CASE /\ toServer[c] # <<>>
             /\ m = Head(toServer[c]) /\ toServer[c]' = Tail(toServer[c])
    <3>1. toServer[c] \in Seq(Msg)
      BY <1>0, QueueTypes
    <3>2. /\ m \in ToSet(toServer[c]) /\ m \in Msg
          /\ ToSet(toServer[c])' \subseteq ToSet(toServer[c])
      BY <2>2, <3>1, TailElems
    <3>3. m.client = c /\ m.kind # "close" /\ m.seq <= hostSeq[c]
      BY <1>0, <3>2 DEF ChannelInv, SentInv
    <3>4. m.seq <= hostSeq[c]'
      <4>1. /\ m.seq \in Nat /\ hostSeq[c] \in Nat /\ hostSeq[c]' \in Nat
            /\ hostSeq[c]' >= hostSeq[c]
        BY <1>0, <1>1, <3>2 DEF Msg, TypeOK, HostTypeOK
      <4>2. QED BY <3>3, <4>1
    <3>5. ASSUME NEW n \in ToSet(toServer[c])' PROVE m.seq < n.seq
      <4>1. n.client = c /\ n.kind # "close"
        BY <1>0, <3>2, <3>5 DEF ChannelInv
      <4>2. Precedes(m, n)
        BY <1>1, <2>2, <3>5 DEF Before
      <4>3. QED BY <3>3, <4>1, <4>2 DEF Precedes
    <3>6. QED BY <3>3, <3>4, <3>5
  <2>3. CASE sess[c]' = "done" /\ m.client = c /\ m.kind = "close"
    BY <2>3
  <2>4. QED BY <2>1, <2>2, <2>3
<1>4. \A b \in Backends : \A m \in Answered(b)' : m \in Waiting(b) \cup Answered(b)
  BY DEF Flows, AnsweredFlow
<1>5. \A c \in Clients :
        Ordered(toServer[c])' /\ \A n \in ToSet(toServer[c])' : n.seq <= hostSeq[c]'
  BY <1>1
<1>6. \A b \in Backends : \A m \in Waiting(b)' \cup Answered(b)' :
        IF m.kind = "close" THEN sess[m.client]' = "done"
        ELSE /\ m.seq <= hostSeq[m.client]'
             /\ \A n \in ToSet(toServer[m.client])' : m.seq < n.seq
  BY <1>2, <1>3, <1>4
<1>7. QED BY <1>5, <1>6 DEF SentInv

(* Only the input loop that writes has a message in flight. *)
LEMMA SlotStep == IInv /\ SlotInv /\ [Next]_vars => SlotInv'
<1> SUFFICES ASSUME IInv, SlotInv, [Next]_vars,
                    NEW x \in Backends, inflight[x]' # <<>>
             PROVE  task[x]' = "writing"
  BY DEF SlotInv
<1>1. TypeOK
  BY DEF IInv
<1>2. ASSUME NEW b \in Backends, Moves(b) PROVE task[x]' = "writing"
  <2>1. CASE x # b
    BY <1>1, <1>2, <2>1, OneBackend DEF SlotInv
  <2>2. CASE x = b
    BY <1>1, <1>2, <2>2, MovedTo DEF SlotInv
  <2>3. QED BY <2>1, <2>2
<1>3. ASSUME NEW c \in Clients, Sends(c) PROVE task[x]' = "writing"
  BY <1>3 DEF Sends, SendLine, SendClose, SlotInv
<1>4. CASE Rests
  BY <1>4 DEF Rests, LineVars, SlotInv
<1>5. QED BY <1>1, <1>2, <1>3, <1>4, StepKinds

(* The calls that have been handed over and not been answered. *)
Owed(b) == ToSet(procIn[b]) \cup ToSet(inflight[b]) \cup ToSet(procOut[b])

OwedTracked ==
  \A b \in Backends : task[b] \in {"running", "writing"} =>
    \A m \in Owed(b) : m.kind # "close" => Key(m) \in pending[b]

LEMMA OwedCalls == TypeOK => (WatchdogSeesUnanswered <=> OwedTracked)
<1> SUFFICES ASSUME TypeOK PROVE WatchdogSeesUnanswered <=> OwedTracked
  OBVIOUS
<1>1. ASSUME NEW b \in Backends
      PROVE  ToSet(procIn[b] \o inflight[b] \o procOut[b]) = Owed(b)
  BY QueueTypes, JoinedQueues DEF Owed
<1>2. QED BY <1>1 DEF WatchdogSeesUnanswered, OwedTracked

(* The reply that is routed answers no other call that is still owed: what *)
(* follows it in line has another number.  And a close that shares its     *)
(* number with a call comes after that call.                               *)
LEMMA WatchStep == IInv /\ OrderInv /\ TypeOK' /\ [Next]_vars
                     => WatchdogSeesUnanswered'
<1> SUFFICES ASSUME IInv, OrderInv, TypeOK', [Next]_vars,
                    NEW x \in Backends, task[x]' \in {"running", "writing"},
                    NEW m \in Owed(x)', m.kind # "close"
             PROVE  Key(m) \in pending[x]'
  <2>1. TypeOK' => (WatchdogSeesUnanswered' <=> OwedTracked')
    BY OwedCalls, PTL
  <2>2. QED BY <2>1 DEF OwedTracked
<1>1. TypeOK /\ LineInv /\ SlotInv
  BY DEF IInv, OrderInv
<1>2. task[x] \in {"running", "writing"} =>
        \A n \in Owed(x) : n.kind # "close" => Key(n) \in pending[x]
  BY <1>1, OwedCalls DEF OrderInv, OwedTracked
<1>3. ASSUME NEW b \in Backends, Moves(b), x = b PROVE Key(m) \in pending[x]'
  <2> DEFINE p == procOut[b]
             q == procIn[b]
             r == inflight[b]
             s == stdinQ[b]
  <2>1. p \in Seq(Msg) /\ q \in Seq(Msg) /\ r \in Seq(Msg) /\ s \in Seq(Msg)
    BY <1>1, QueueTypes
  <2>2. m \in ToSet(procIn[b])' \cup ToSet(inflight[b])' \cup ToSet(procOut[b])'
    BY <1>3 DEF Owed
  <2>3. Owed(b) = ToSet(q) \cup ToSet(r) \cup ToSet(p)
    BY DEF Owed
  <2> HIDE DEF p, q, r, s
  <2>4. CASE Spawn(b)
    <3>1. r = <<>>
      BY <1>1, <2>4 DEF SlotInv, Spawn, r
    <3>2. procOut[b]' = <<>> /\ procIn[b]' = <<>> /\ inflight[b]' = r
      BY <1>1, <2>4
      DEF Spawn, r, TypeOK, ManagerTypeOK, ProcTypeOK
    <3>3. QED BY <2>2, <3>1, <3>2, EmptyElems
  <2>5. CASE /\ s # <<>> /\ procOut[b]' = p /\ procIn[b]' = q
             /\ inflight[b]' = <<Head(s)>>
             /\ pending[b]' = pending[b] \cup {Key(Head(s))}
             /\ task[b] = "running"
    <3>1. ToSet(<<Head(s)>>) = {Head(s)}
      BY <2>1, <2>5, TailElems, SlotElems
    <3>2. QED BY <1>2, <1>3, <2>2, <2>3, <2>5, <3>1
  <2>6. CASE /\ procOut[b]' = p /\ procIn[b]' = q \o r /\ inflight[b]' = <<>>
             /\ pending[b]' = pending[b] /\ task[b] = "writing"
    <3>1. ToSet(q \o r) = ToSet(q) \cup ToSet(r)
      BY <2>1, ConcatElems
    <3>2. QED BY <1>2, <1>3, <2>2, <2>3, <2>6, <3>1, EmptyElems
  <2>7. CASE /\ p # <<>> /\ procOut[b]' = Tail(p) /\ procIn[b]' = q
             /\ inflight[b]' = r /\ pending[b]' = pending[b] \ {Key(Head(p))}
             /\ task[b]' = task[b]
    <3>1. /\ m \in ToSet(Tail(p)) \cup ToSet(q) \cup ToSet(r) \cup ToSet(s)
          /\ ToSet(Tail(p)) \subseteq ToSet(p) /\ Head(p) \in Msg
      BY <2>1, <2>2, <2>7, TailElems
    <3>2. Key(m) \in pending[b]
      BY <1>2, <1>3, <2>2, <2>3, <2>7, <3>1
    <3>3. InLine(p, q, r, s)
      BY <1>1 DEF LineInv, p, q, r, s
    <3>4. Precedes(Head(p), m)
      BY <2>1, <2>7, <3>1, <3>3, LineMoves DEF Before
    <3>5. m \in Msg
      BY <2>1, <3>1, ElemsByIndex
    <3>6. Key(m) # Key(Head(p))
      <4>1. m.seq \in Nat /\ Head(p).seq \in Nat
        BY <3>1, <3>5 DEF Msg
      <4>2. ~(m.client = Head(p).client /\ m.seq = Head(p).seq)
        BY <3>4, <4>1 DEF Precedes
      <4>3. QED BY <4>2 DEF Key
    <3>7. QED BY <1>3, <2>7, <3>2, <3>6
  <2>8. CASE /\ q # <<>> /\ procOut[b]' = Append(p, Head(q))
             /\ procIn[b]' = Tail(q) /\ inflight[b]' = r
             /\ pending[b]' = pending[b] /\ task[b]' = task[b]
    <3>1. /\ ToSet(Tail(q)) \subseteq ToSet(q) /\ Head(q) \in ToSet(q)
          /\ ToSet(Append(p, Head(q))) = ToSet(p) \cup {Head(q)}
      BY <2>1, <2>8, TailElems, AppendElems
    <3>2. QED BY <1>2, <1>3, <2>2, <2>3, <2>8, <3>1
  <2>9. CASE /\ procOut[b]' = p /\ procIn[b]' = <<>> /\ inflight[b]' = r
             /\ pending[b]' = pending[b] /\ task[b]' = task[b]
    BY <1>2, <1>3, <2>2, <2>3, <2>9, EmptyElems
  <2>10. QED
    BY <1>1, <1>3, <2>4, <2>5, <2>6, <2>7, <2>8, <2>9, MovedTo
    DEF p, q, r, s
<1>4. ASSUME NEW b \in Backends, Moves(b), x # b PROVE Key(m) \in pending[x]'
  BY <1>1, <1>2, <1>4, OneBackend DEF Owed
<1>5. ASSUME NEW c \in Clients, Sends(c) PROVE Key(m) \in pending[x]'
  BY <1>2, <1>5 DEF Sends, SendLine, SendClose, Owed, procVars
<1>6. CASE Rests
  BY <1>2, <1>6 DEF Rests, LineVars, Owed
<1>7. QED BY <1>1, <1>3, <1>4, <1>5, <1>6, StepKinds

(* Nothing is under way at the start. *)
LEMMA OrderInit == Init => OrderInv
<1> SUFFICES ASSUME Init PROVE OrderInv
  OBVIOUS
<1>1. TypeOK
  BY TypeInit
<1>2. LineInv
  BY OrderedMoves, EmptyElems DEF Init, ManagerInit, LineInv, InLine, Before
<1>3. SentInv /\ SlotInv
  BY OrderedMoves, EmptyElems
  DEF Init, ManagerInit, SentInv, SlotInv, Waiting, Answered
<1>4. WatchdogSeesUnanswered
  BY <1>1, OwedCalls DEF Init, ManagerInit, OwedTracked
<1>5. QED BY <1>2, <1>3, <1>4 DEF OrderInv

(* Every step keeps the order. *)
LEMMA OrderStep == IInv /\ OrderInv /\ [Next]_vars => OrderInv'
<1> SUFFICES ASSUME IInv, OrderInv, [Next]_vars PROVE OrderInv'
  OBVIOUS
<1>1. TypeOK' /\ Flows /\ HostFlow
  BY TypeStep, FlowStep, HostStepFlow DEF IInv
<1>2. QED BY <1>1, LineStep, SentStep, SlotStep, WatchStep DEF OrderInv

-----------------------------------------------------------------------------
(* Numbers *)

Below(M, N) == \A m \in M, n \in N : m < n

(* What comes first has no gap when the whole has none. *)
LEMMA UnbrokenPrefix ==
  ASSUME NEW A \in SUBSET Nat, NEW B \in SUBSET Nat, NEW r \in Nat,
         Unbroken(A \cup B, r), Below(A, B)
  PROVE  Unbroken(A, r)
<1>1. ASSUME NEW m \in Nat, NEW n \in A, m .. n \subseteq A \cup B
      PROVE  m .. n \subseteq A
  <2> SUFFICES ASSUME NEW k \in m .. n, k \in B PROVE FALSE
    BY <1>1
  <2>1. n < k
    BY DEF Below
  <2>2. k \in Nat /\ n \in Nat /\ k <= n
    OBVIOUS
  <2>3. QED BY <2>1, <2>2
<1>2. \A m, n \in A : m .. n \subseteq A
  BY <1>1 DEF Unbroken
<1>3. r > 0 => \A n \in A : r < n /\ r + 1 .. n \subseteq A
  BY <1>1 DEF Unbroken
<1>4. QED BY <1>2, <1>3 DEF Unbroken

(* Numbers that are complete have no gap. *)
LEMMA CompleteUnbroken ==
  ASSUME NEW N \in SUBSET Nat, NEW r \in Nat, NEW last \in Nat,
         Complete(N, r, last)
  PROVE  Unbroken(N, r)
<1>1. \A n \in N : n \in Nat /\ n <= last
  BY DEF Complete
<1>2. \A m, n \in N : m .. n \subseteq N
  <2> SUFFICES ASSUME NEW m \in N, NEW n \in N, NEW k \in m .. n PROVE k \in N
    OBVIOUS
  <2>1. m .. last \subseteq N /\ k \in m .. last
    BY <1>1 DEF Complete
  <2>2. QED BY <2>1
<1>3. ASSUME r > 0, NEW n \in N PROVE r < n /\ r + 1 .. n \subseteq N
  <2>1. r < n /\ r + 1 .. last \subseteq N /\ n <= last
    BY <1>1, <1>3 DEF Complete
  <2>2. QED BY <1>1, <2>1
<1>4. QED BY <1>2, <1>3 DEF Unbroken

(* The oldest number is taken away. *)
LEMMA OldestTaken ==
  ASSUME NEW h \in Nat, NEW N \in SUBSET Nat, NEW r \in Nat, Below({h}, N)
  PROVE  /\ Unbroken({h} \cup N, r) => Unbroken(N, h)
         /\ \A last \in Nat :
              Complete({h} \cup N, r, last) =>
                Complete(N, h, last) /\ Complete(N, 0, last)
<1>0. \A n \in N : h < n /\ n \in Nat
  BY DEF Below
<1>1. ASSUME Unbroken({h} \cup N, r) PROVE Unbroken(N, h)
  <2>1. \A m, n \in N : m .. n \subseteq N
    <3> SUFFICES ASSUME NEW m \in N, NEW n \in N, NEW k \in m .. n PROVE k \in N
      OBVIOUS
    <3>1. k \in {h} \cup N
      BY <1>1 DEF Unbroken
    <3>2. h < m /\ m <= k /\ m \in Nat /\ k \in Nat
      BY <1>0
    <3>3. QED BY <3>1, <3>2
  <2>2. \A n \in N : h + 1 .. n \subseteq N
    <3> SUFFICES ASSUME NEW n \in N, NEW k \in h + 1 .. n PROVE k \in N
      OBVIOUS
    <3>1. k \in h .. n /\ k # h
      BY <1>0
    <3>2. h .. n \subseteq {h} \cup N
      BY <1>1 DEF Unbroken
    <3>3. QED BY <3>1, <3>2
  <2>3. QED BY <1>0, <2>1, <2>2 DEF Unbroken
<1>2. ASSUME NEW last \in Nat, Complete({h} \cup N, r, last)
      PROVE  Complete(N, h, last) /\ Complete(N, 0, last)
  <2>1. \A n \in N : n <= last /\ n .. last \subseteq N
    <3> SUFFICES ASSUME NEW n \in N
                 PROVE  n <= last /\ \A k \in n .. last : k \in N
      OBVIOUS
    <3>1. n <= last /\ n .. last \subseteq {h} \cup N
      BY <1>2 DEF Complete
    <3>2. \A k \in n .. last : k # h
      BY <1>0
    <3>3. QED BY <3>1, <3>2
  <2>2. h + 1 .. last \subseteq N
    <3>1. h .. last \subseteq {h} \cup N
      BY <1>2 DEF Complete
    <3>2. \A k \in h + 1 .. last : k \in h .. last /\ k # h
      OBVIOUS
    <3>3. QED BY <3>1, <3>2
  <2>3. QED BY <1>0, <2>1, <2>2 DEF Complete
<1>3. QED BY <1>1, <1>2

(* The next number is added. *)
LEMMA NextAdded ==
  ASSUME NEW N \in SUBSET Nat, NEW r \in Nat, NEW last \in Nat, r <= last,
         Complete(N, r, last)
  PROVE  Complete(N \cup {last + 1}, r, last + 1)
<1> DEFINE M == N \cup {last + 1}
<1>1. \A m \in Nat : \A k \in m .. last + 1 : k \in m .. last \/ k = last + 1
  OBVIOUS
<1>2. ASSUME NEW n \in M PROVE n <= last + 1 /\ n .. last + 1 \subseteq M
  <2>1. CASE n \in N
    <3>1. n \in Nat /\ n <= last /\ n .. last \subseteq N
      BY <2>1 DEF Complete
    <3>2. QED BY <1>1, <3>1
  <2>2. CASE n = last + 1
    BY <2>2
  <2>3. QED BY <2>1, <2>2
<1>3. ASSUME r > 0
      PROVE  r + 1 .. last + 1 \subseteq M /\ \A n \in M : r < n
  <2>1. r + 1 .. last \subseteq N /\ \A n \in N : r < n
    BY <1>3 DEF Complete
  <2>2. r + 1 .. last + 1 \subseteq M
    <3>1. r + 1 \in Nat
      OBVIOUS
    <3>2. QED BY <1>1, <2>1, <3>1
  <2>3. QED BY <2>1, <2>2
<1>4. QED BY <1>2, <1>3 DEF Complete

LEMMA NoNumbers ==
  /\ \A r \in Nat : Unbroken({}, r)
  /\ \A last \in Nat : Complete({}, 0, last)
BY DEF Unbroken, Complete

(* The number of one message. *)
NumberOf(m, c) == IF m.client = c /\ m.kind # "close" THEN {m.seq} ELSE {}

(* The numbers of a queue that changes. *)
LEMMA AppendNumbers ==
  ASSUME NEW c, NEW s \in Seq(Msg), NEW m \in Msg
  PROVE  Numbers(Append(s, m), c) = Numbers(s, c) \cup NumberOf(m, c)
<1>1. ToSet(Append(s, m)) = ToSet(s) \cup {m}
  BY AppendElems
<1>2. QED BY <1>1 DEF Numbers, NumberOf

LEMMA ConcatNumbers ==
  ASSUME NEW c, NEW s \in Seq(Msg), NEW t \in Seq(Msg)
  PROVE  Numbers(s \o t, c) = Numbers(s, c) \cup Numbers(t, c)
<1>1. ToSet(s \o t) = ToSet(s) \cup ToSet(t)
  BY ConcatElems
<1>2. QED BY <1>1 DEF Numbers

(* The numbers of a queue, by its first message and the rest. *)
LEMMA QueueNumbers ==
  ASSUME NEW c
  PROVE  /\ Numbers(<<>>, c) = {}
         /\ \A s \in Seq(Msg) : Numbers(s, c) \in SUBSET Nat
         /\ \A m \in Msg : Numbers(<<m>>, c) = NumberOf(m, c)
         /\ \A s \in Seq(Msg) : s # <<>> =>
              Numbers(s, c) = NumberOf(Head(s), c) \cup Numbers(Tail(s), c)
<1>1. Numbers(<<>>, c) = {}
  BY EmptyElems DEF Numbers
<1>2. ASSUME NEW s \in Seq(Msg) PROVE Numbers(s, c) \in SUBSET Nat
  <2>1. \A m \in ToSet(s) : m \in Msg
    BY ElemsByIndex
  <2>2. QED BY <2>1 DEF Numbers, Msg
<1>3. ASSUME NEW m \in Msg PROVE Numbers(<<m>>, c) = NumberOf(m, c)
  <2>1. ToSet(<<m>>) = {m}
    BY SlotElems
  <2>2. QED BY <2>1 DEF Numbers, NumberOf
<1>4. ASSUME NEW s \in Seq(Msg), s # <<>>
      PROVE  Numbers(s, c) = NumberOf(Head(s), c) \cup Numbers(Tail(s), c)
  <2>1. Head(s) \in Msg /\ Tail(s) \in Seq(Msg) /\ s = <<Head(s)>> \o Tail(s)
    BY <1>4
  <2>2. <<Head(s)>> \in Seq(Msg)
    BY <2>1
  <2>3. PICK h \in Seq(Msg) : h = <<Head(s)>>
    BY <2>2
  <2>4. PICK t \in Seq(Msg) : t = Tail(s)
    BY <2>1
  <2>5. Numbers(h \o t, c) = Numbers(h, c) \cup Numbers(t, c)
    BY ConcatNumbers
  <2>6. QED BY <1>3, <2>1, <2>3, <2>4, <2>5
<1>5. QED BY <1>1, <1>2, <1>3, <1>4

(* Messages that go before others have lower numbers. *)
LEMMA NumbersBefore ==
  ASSUME NEW s, NEW t, Before(ToSet(s), ToSet(t)), NEW c
  PROVE  Below(Numbers(s, c), Numbers(t, c))
BY DEF Below, Numbers, Before, Precedes

-----------------------------------------------------------------------------
(* Where a session stands *)

(* A session that stays where it is, with what it holds and has received.  *)
Still(c) ==
  /\ sess[c]' = sess[c] /\ rxOpen[c]' = rxOpen[c] /\ hold[c]' = hold[c]
  /\ outQ[c]' = outQ[c] \/ c \in registered \/ sess[c] \notin Fresh
  /\ lastRecv[c]' = lastRecv[c] /\ hostSeq[c]' = hostSeq[c]

(* A reply is routed only to a connection that has been registered. *)
LEMMA RoutedSession ==
  ASSUME IInv, NEW b \in Backends, NEW m \in Answered(b)
  PROVE  /\ m \in Msg /\ m.client \in Clients /\ m.seq \in Nat
         /\ sess[m.client] \notin Fresh /\ backendOf[m.client] = b
<1>1. m \in Msg /\ m.client \in Clients
  BY TrafficTypes DEF IInv
<1>2. QED BY <1>1 DEF IInv, FreshInv, ChannelInv, Msg

LEMMA HoldStep == IInv /\ ReplyInv /\ HoldInv /\ [Next]_vars => HoldInv'
<1> SUFFICES ASSUME IInv, ReplyInv, HoldInv, [Next]_vars PROVE HoldInv'
  OBVIOUS
<1> DEFINE Holds(c) == /\ sess[c] \in Live => rxOpen[c]
                       /\ hold[c] # <<>> => sess[c] = "writing"
                       /\ sess[c] \in Fresh => outQ[c] = <<>> /\ lastRecv[c] = 0
                       /\ lastRecv[c] <= hostSeq[c]
<1>0. TypeOK /\ EntryInv /\ FreshInv
  BY DEF IInv
<1>T. /\ outQ \in [Clients -> Seq(Msg)] /\ rxOpen \in [Clients -> BOOLEAN]
      /\ sess \in [Clients -> SessStates] /\ hold \in [Clients -> Seq(Msg)]
      /\ lastRecv \in [Clients -> Nat] /\ hostSeq \in [Clients -> Nat]
  BY <1>0 DEF TypeOK, ManagerTypeOK, ChannelTypeOK, SessionTypeOK, HostTypeOK
<1>1. \A c \in Clients : Holds(c)
  BY DEF HoldInv
<1>2. ASSUME NEW c \in Clients, Still(c) PROVE Holds(c)'
  <2>1. Holds(c)
    BY <1>1
  <2>2. sess[c] \in Fresh => outQ[c]' = outQ[c]
    BY <1>0, <1>2 DEF EntryInv, Live, Fresh, Still
  <2>3. QED BY <1>2, <2>1, <2>2 DEF Still
<1> HIDE DEF Holds
<1>3. CASE UNCHANGED vars
  <2>1. \A c \in Clients : Still(c)
    BY <1>3
    DEF vars, managerVars, channelVars, launcherVars, sessionVars, hostVars,
        Still
  <2>2. QED BY <1>2, <2>1 DEF HoldInv, Holds
<1>4. ASSUME NEW b \in Backends, BackendStep(b) PROVE HoldInv'
  <2>1. UNCHANGED <<sess, hold, lastRecv, hostSeq>>
    BY <1>4
    DEF BackendStep, RestartAfterDelay, launcherVars, sessionVars, hostVars
  <2>2. ASSUME NEW c \in Clients PROVE Still(c)
    <3>1. CASE RouteReply(b)
      <4>1. rxOpen' = rxOpen
        BY <3>1 DEF RouteReply
      <4>2. outQ[c]' = outQ[c] \/ c \in registered
        BY <1>T, <3>1 DEF RouteReply
      <4>3. QED BY <2>1, <4>1, <4>2 DEF Still
    <3>2. CASE SendCompletes(b)
      <4>1. sending[b] \in Seq(Msg) /\ sending[b] # <<>>
        BY <1>0, <3>2, QueueTypes DEF SendCompletes
      <4>2. Head(sending[b]) \in Answered(b)
        BY <4>1, TailElems DEF Answered
      <4>3. rxOpen' = rxOpen /\ (outQ[c]' = outQ[c] \/ c = Head(sending[b]).client)
        BY <1>T, <3>2 DEF SendCompletes
      <4>4. QED BY <2>1, <4>2, <4>3, RoutedSession DEF Still
    <3>3. CASE UNCHANGED channelVars
      BY <2>1, <3>3 DEF channelVars, Still
    <3>4. QED
      BY <1>4, <3>1, <3>2, <3>3
      DEF BackendStep, RestartAfterDelay, Spawn, RecvInput, WriteInput,
          WriteFails, WatchdogKill, ChildExits, KillAndExit, DisconnectClients,
          EndRestartDelay, SendTimesOut, BackendHandles, StdoutReadError,
          BackendHangs, BackendCrashes
  <2>3. QED BY <1>2, <2>2 DEF HoldInv, Holds
<1>5. ASSUME NEW c \in Clients,
             HostStep(c) \/ AcceptStep(c) \/ SessionStep(c),
             NEW x \in Clients, x # c
      PROVE  Holds(x)'
  <2>1. /\ sess[x]' = sess[x] /\ hold[x]' = hold[x]
        /\ lastRecv[x]' = lastRecv[x] /\ hostSeq[x]' = hostSeq[x]
        /\ outQ[x]' = outQ[x] /\ rxOpen[x]' = rxOpen[x]
    <3>1. CASE HostStep(c)
      BY <1>T, <1>5, <3>1
      DEF HostStep, HostConnect, HostSend, HostRecv, HostClose, SessAt,
          managerVars, channelVars, sessionVars
    <3>2. CASE AcceptStep(c)
      BY <1>T, <1>5, <3>2
      DEF AcceptStep, AcceptHandshake, AcceptFails, AcceptGetInput,
          AcceptRegister, RegisterClient, AcceptSendHandshake, SendLine,
          SessAt, managerVars, channelVars, hostVars
    <3>3. CASE SessionStep(c)
      <4>1. CASE ReadClient(c) \/ SendClientLine(c) \/ ReadEof(c) \/ RecvReply(c)
        BY <1>T, <1>5, <4>1
        DEF ReadClient, SendClientLine, SendLine, ReadEof, RecvReply, SessAt,
            managerVars, channelVars, hostVars
      <4>2. CASE WriteReply(c) \/ WriteReplyFails(c) \/ RecvClosed(c)
                   \/ Unregister(c) \/ SendClose(c)
        BY <1>T, <1>5, <4>2
        DEF WriteReply, WriteReplyFails, RecvClosed, Unregister, SendClose,
            SessAt, managerVars, channelVars, hostVars
      <4>3. QED BY <3>3, <4>1, <4>2 DEF SessionStep
    <3>4. QED BY <1>5, <3>1, <3>2, <3>3
  <2>2. Still(x)
    BY <2>1 DEF Still
  <2>3. QED BY <1>2, <2>2
<1>6. ASSUME NEW c \in Clients, HostStep(c) \/ AcceptStep(c) \/ SessionStep(c)
      PROVE  Holds(c)'
  <2>0. Holds(c) /\ (sess[c] \in Fresh => hold[c] = <<>> /\ toClient[c] = <<>>)
    BY <1>0, <1>1 DEF FreshInv
  <2>1. CASE HostSend(c) \/ HostClose(c)
    <3>1. hostSeq[c]' = hostSeq[c] + 1 \/ hostSeq[c]' = hostSeq[c]
      BY <1>T, <2>1 DEF HostSend, HostClose
    <3>2. UNCHANGED <<sess, hold, lastRecv, outQ, rxOpen>>
      BY <2>1
      DEF HostSend, HostClose, managerVars, channelVars, sessionVars
    <3>3. lastRecv[c] \in Nat /\ hostSeq[c] \in Nat
      BY <1>T
    <3>4. QED BY <2>0, <3>1, <3>2, <3>3 DEF Holds
  <2>2. CASE HostRecv(c)
    <3>1. toClient[c] # <<>> /\ toClient[c] \in Seq(Msg)
      BY <1>0, <2>2, QueueTypes DEF HostRecv
    <3>2. Head(toClient[c]) \in Replies(c)
      BY <3>1, TailElems DEF Replies
    <3>3. Head(toClient[c]).seq <= hostSeq[c]
      BY <3>2 DEF ReplyInv
    <3>4. lastRecv[c]' = Head(toClient[c]).seq
      BY <1>T, <2>2 DEF HostRecv
    <3>5. UNCHANGED <<sess, hold, hostSeq, outQ, rxOpen>>
      BY <2>2 DEF HostRecv, managerVars, channelVars, sessionVars
    <3>6. QED BY <2>0, <3>1, <3>3, <3>4, <3>5 DEF Holds
  <2>3. CASE HostConnect(c) \/ AcceptHandshake(c) \/ AcceptFails(c)
               \/ AcceptGetInput(c)
    <3>1. /\ sess[c] \in Fresh /\ sess[c]' \in Fresh \cup {"done"}
          /\ UNCHANGED <<hold, lastRecv, hostSeq, outQ, rxOpen>>
      BY <1>T, <2>3
      DEF HostConnect, AcceptHandshake, AcceptFails, AcceptGetInput, SessAt,
          Fresh, managerVars, channelVars, hostVars
    <3>2. QED BY <2>0, <3>1 DEF Holds, Live, Fresh
  <2>4. CASE AcceptRegister(c)
    <3>1. /\ sess[c] \in Fresh /\ sess[c]' = "handshake"
          /\ rxOpen[c]' = TRUE /\ UNCHANGED <<hold, lastRecv, hostSeq>>
      BY <1>T, <2>4
      DEF AcceptRegister, RegisterClient, SessAt, Fresh, hostVars
    <3>2. QED BY <2>0, <3>1 DEF Holds, Live, Fresh
  <2>5. CASE AcceptSendHandshake(c) \/ SendClientLine(c)
    <3>1. /\ sess[c] \in Live /\ sess[c] # "writing" /\ sess[c]' = "running"
          /\ UNCHANGED <<hold, lastRecv, hostSeq, outQ, rxOpen>>
      BY <1>T, <2>5
      DEF AcceptSendHandshake, SendClientLine, SendLine, SessAt, Live,
          channelVars
    <3>2. QED BY <2>0, <3>1 DEF Holds, Live, Fresh
  <2>6. CASE ReadClient(c) \/ ReadEof(c) \/ RecvClosed(c) \/ Unregister(c)
    <3>1. /\ sess[c] \in Live /\ sess[c] # "writing"
          /\ sess[c]' \in {"sending", "ended", "closing"}
          /\ UNCHANGED <<hold, lastRecv, hostSeq, outQ, rxOpen>>
      BY <1>T, <2>6
      DEF ReadClient, Serves, ReadEof, RecvClosed, Unregister, SessAt, Live,
          managerVars, channelVars, hostVars
    <3>2. QED BY <2>0, <3>1 DEF Holds, Live, Fresh
  <2>7. CASE RecvReply(c)
    <3>1. /\ sess[c] \in Live /\ sess[c]' = "writing"
          /\ UNCHANGED <<lastRecv, hostSeq, rxOpen>>
      BY <1>T, <2>7 DEF RecvReply, SessAt, Live, hostVars
    <3>2. QED BY <2>0, <3>1 DEF Holds, Live, Fresh
  <2>8. CASE WriteReply(c) \/ WriteReplyFails(c)
    <3>1. /\ sess[c] \in Live /\ sess[c]' \in {"running", "ended"}
          /\ hold[c]' = <<>>
          /\ UNCHANGED <<lastRecv, hostSeq, outQ, rxOpen>>
      BY <1>T, <2>8
      DEF WriteReply, WriteReplyFails, SessAt, Live, managerVars, channelVars,
          hostVars
    <3>2. QED BY <2>0, <3>1 DEF Holds, Live, Fresh
  <2>9. CASE SendClose(c)
    <3>1. /\ sess[c] = "closing" /\ sess[c]' = "done"
          /\ UNCHANGED <<hold, lastRecv, hostSeq>>
      BY <1>T, <2>9 DEF SendClose, SessAt, hostVars
    <3>2. QED BY <2>0, <3>1 DEF Holds, Live, Fresh
  <2>10. QED
    BY <1>6, <2>1, <2>2, <2>3, <2>4, <2>5, <2>6, <2>7, <2>8, <2>9
    DEF HostStep, AcceptStep, SessionStep
<1>7. ASSUME NEW c \in Clients, HostStep(c) \/ AcceptStep(c) \/ SessionStep(c)
      PROVE  HoldInv'
  BY <1>5, <1>6, <1>7 DEF HoldInv, Holds
<1>8. QED BY <1>3, <1>4, <1>7 DEF Next

-----------------------------------------------------------------------------
(* The order of replies *)

(* The replies of c are in order. *)
InOrder(c) == InLine(<<>>, toClient[c], hold[c], outQ[c])

(* The step routes no reply: replies only move on or go. *)
Quiet ==
  /\ \A c \in Clients :
       Replies(c)' \subseteq Replies(c) /\ (InOrder(c) => InOrder(c)')
  /\ \A b \in Backends : sending[b]' = sending[b] \/ sending[b]' = <<>>

(* Nothing a session or a host does breaks the order of the replies. *)
LEMMA ReplyMoves ==
  ASSUME NEW t \in Seq(Msg), NEW h \in Seq(Msg), NEW o \in Seq(Msg),
         InLine(<<>>, t, h, o)
  PROVE  /\ o # <<>> /\ h = <<>> => InLine(<<>>, t, <<Head(o)>>, Tail(o))
         /\ InLine(<<>>, t \o h, <<>>, o)
         /\ InLine(<<>>, t, <<>>, o) /\ InLine(<<>>, <<>>, h, o)
         /\ InLine(<<>>, t, h, <<>>)
         /\ t # <<>> => InLine(<<>>, Tail(t), h, o)
<1>0. <<>> \in Seq(Msg)
  OBVIOUS
<1>1. /\ o # <<>> => InLine(<<>>, t, <<Head(o)>>, Tail(o))
      /\ InLine(<<>>, t \o h, <<>>, o)
      /\ InLine(<<>>, t, <<>>, o) /\ InLine(<<>>, <<>>, h, o)
      /\ InLine(<<>>, t, h, <<>>)
  BY <1>0, LineMoves
<1>2. ASSUME t # <<>> PROVE InLine(<<>>, Tail(t), h, o)
  <2>1. InLine(Append(<<>>, Head(t)), Tail(t), h, o)
    BY <1>0, <1>2, LineMoves
  <2>2. QED BY <2>1, EmptyElems, OrderedMoves DEF InLine, Before
<1>3. QED BY <1>1, <1>2

LEMMA QuietStep ==
  ASSUME IInv, HoldInv, [Next]_vars
  PROVE  \/ \E b \in Backends : RouteReply(b) /\ UNCHANGED launcherVars
         \/ \E b \in Backends : SendCompletes(b) /\ UNCHANGED launcherVars
         \/ Quiet
<1>0. TypeOK
  BY DEF IInv
<1>T. /\ outQ \in [Clients -> Seq(Msg)] /\ hold \in [Clients -> Seq(Msg)]
      /\ toClient \in [Clients -> Seq(Msg)]
      /\ sending \in [Backends -> Seq(Msg)]
  BY <1>0
  DEF TypeOK, ManagerTypeOK, ChannelTypeOK, TaskTypeOK, SessionTypeOK,
      HostTypeOK
<1>1. ASSUME UNCHANGED <<toClient, hold, outQ>>, NEW c \in Clients
      PROVE  Replies(c)' \subseteq Replies(c) /\ (InOrder(c) => InOrder(c)')
  BY <1>1 DEF Replies, InOrder
<1>2. CASE UNCHANGED vars
  BY <1>1, <1>2
  DEF vars, managerVars, channelVars, taskVars, launcherVars, sessionVars,
      hostVars, Quiet
<1>3. ASSUME NEW b \in Backends, BackendStep(b)
      PROVE  \/ RouteReply(b) /\ UNCHANGED launcherVars
             \/ SendCompletes(b) /\ UNCHANGED launcherVars
             \/ Quiet
  <2>1. CASE UNCHANGED <<outQ, sending, launcherVars>>
    BY <1>1, <2>1 DEF launcherVars, sessionVars, hostVars, Quiet
  <2>2. CASE DisconnectClients(b) \/ SendTimesOut(b)
    <3>1. UNCHANGED <<outQ, launcherVars>>
      BY <1>3, <2>2
      DEF BackendStep, DisconnectClients, SendTimesOut, channelVars,
          RestartAfterDelay, EndRestartDelay, Spawn, RecvInput, WriteInput,
          WriteFails, WatchdogKill, ChildExits, KillAndExit, BackendHandles,
          StdoutReadError, BackendHangs, BackendCrashes, RouteReply,
          SendCompletes
    <3>2. \A x \in Backends : sending[x]' = sending[x] \/ sending[x]' = <<>>
      BY <1>T, <2>2 DEF DisconnectClients, SendTimesOut
    <3>3. QED
      BY <1>1, <3>1, <3>2 DEF launcherVars, sessionVars, hostVars, Quiet
  <2>3. QED
    BY <1>3, <2>1, <2>2
    DEF BackendStep, RestartAfterDelay, Spawn, RecvInput, WriteInput,
        WriteFails, WatchdogKill, ChildExits, KillAndExit, EndRestartDelay,
        BackendHandles, StdoutReadError, BackendHangs, BackendCrashes,
        channelVars, taskVars
<1>4. ASSUME NEW c \in Clients, HostStep(c) \/ AcceptStep(c) \/ SessionStep(c)
      PROVE  Quiet
  <2>1. sending' = sending
    BY <1>4
    DEF HostStep, HostConnect, HostSend, HostRecv, HostClose, AcceptStep,
        AcceptHandshake, AcceptFails, AcceptGetInput, AcceptRegister,
        AcceptSendHandshake, SessionStep, ReadClient, SendClientLine, ReadEof,
        RecvReply, WriteReply, WriteReplyFails, RecvClosed, Unregister,
        SendClose, SendLine, managerVars, taskVars
  <2> DEFINE t == toClient[c]
             h == hold[c]
             o == outQ[c]
  <2>2. t \in Seq(Msg) /\ h \in Seq(Msg) /\ o \in Seq(Msg)
    BY <1>T
  <2>3. \/ t' = t /\ h' = h /\ o' = o
        \/ t # <<>> /\ t' = Tail(t) /\ h' = h /\ o' = o
        \/ t' = <<>> /\ h' = h /\ o' = o
        \/ t' = t /\ h' = h /\ o' = <<>>
        \/ o # <<>> /\ h = <<>> /\ t' = t /\ h' = <<Head(o)>> /\ o' = Tail(o)
        \/ t' = t \o h /\ h' = <<>> /\ o' = o
        \/ t' = t /\ h' = <<>> /\ o' = o
    <3>1. CASE HostRecv(c) \/ HostClose(c)
      BY <1>T, <3>1
      DEF HostRecv, HostClose, managerVars, channelVars, sessionVars
    <3>2. CASE AcceptRegister(c) \/ SendClose(c)
      BY <1>T, <3>2
      DEF AcceptRegister, RegisterClient, SendClose, hostVars
    <3>3. CASE RecvReply(c)
      BY <1>T, <3>3 DEF RecvReply, SessAt, hostVars, HoldInv
    <3>4. CASE WriteReply(c) \/ WriteReplyFails(c)
      BY <1>T, <3>4
      DEF WriteReply, WriteReplyFails, managerVars, channelVars, hostVars
    <3>5. CASE HostConnect(c) \/ HostSend(c) \/ AcceptHandshake(c)
                 \/ AcceptFails(c) \/ AcceptGetInput(c)
      BY <3>5
      DEF HostConnect, HostSend, AcceptHandshake, AcceptFails, AcceptGetInput,
          managerVars, channelVars, sessionVars, hostVars
    <3>6. CASE AcceptSendHandshake(c) \/ SendClientLine(c) \/ ReadClient(c)
                 \/ ReadEof(c) \/ RecvClosed(c) \/ Unregister(c)
      BY <3>6
      DEF AcceptSendHandshake, SendClientLine, SendLine, ReadClient, ReadEof,
          RecvClosed, Unregister, managerVars, channelVars, hostVars
    <3>7. QED
      BY <1>4, <3>1, <3>2, <3>3, <3>4, <3>5, <3>6
      DEF HostStep, AcceptStep, SessionStep
  <2>4. \A x \in Clients \ {c} :
          toClient[x]' = toClient[x] /\ hold[x]' = hold[x] /\ outQ[x]' = outQ[x]
    <3>1. CASE HostStep(c)
      BY <1>T, <3>1
      DEF HostStep, HostConnect, HostSend, HostRecv, HostClose, managerVars,
          channelVars, sessionVars
    <3>2. CASE AcceptStep(c)
      BY <1>T, <3>2
      DEF AcceptStep, AcceptHandshake, AcceptFails, AcceptGetInput,
          AcceptRegister, RegisterClient, AcceptSendHandshake, SendLine,
          managerVars, channelVars, hostVars
    <3>3. CASE SessionStep(c)
      BY <1>T, <3>3
      DEF SessionStep, ReadClient, SendClientLine, SendLine, ReadEof,
          RecvReply, WriteReply, WriteReplyFails, RecvClosed, Unregister,
          SendClose, managerVars, channelVars, hostVars
    <3>4. QED BY <1>4, <3>1, <3>2, <3>3
  <2>5. \A x \in Clients \ {c} :
          Replies(x)' \subseteq Replies(x) /\ (InOrder(x) => InOrder(x)')
    BY <2>4 DEF Replies, InOrder
  <2>6. Replies(c)' \subseteq Replies(c)
    <3>1. /\ t # <<>> => ToSet(Tail(t)) \subseteq ToSet(t)
          /\ o # <<>> => /\ ToSet(Tail(o)) \subseteq ToSet(o)
                         /\ ToSet(<<Head(o)>>) \subseteq ToSet(o)
          /\ ToSet(t \o h) = ToSet(t) \cup ToSet(h)
      <4> HIDE DEF t, h, o
      <4>1. t # <<>> => ToSet(Tail(t)) \subseteq ToSet(t)
        BY <2>2, TailElems
      <4>2. ASSUME o # <<>>
            PROVE  /\ ToSet(Tail(o)) \subseteq ToSet(o)
                   /\ ToSet(<<Head(o)>>) \subseteq ToSet(o)
        BY <2>2, <4>2, TailElems, SlotElems
      <4>3. QED BY <2>2, <4>1, <4>2, ConcatElems
    <3>2. Replies(c) = ToSet(t) \cup ToSet(h) \cup ToSet(o)
      BY DEF Replies
    <3>3. Replies(c)' = ToSet(t') \cup ToSet(h') \cup ToSet(o')
      BY DEF Replies
    <3> HIDE DEF t, h, o
    <3>4. QED BY <2>3, <3>1, <3>2, <3>3, EmptyElems
  <2>7. ASSUME InOrder(c) PROVE InOrder(c)'
    <3>1. InLine(<<>>, t, h, o)
      BY <2>7 DEF InOrder
    <3>2. InLine(<<>>, t', h', o')
      <4> HIDE DEF t, h, o
      <4>1. QED BY <2>2, <2>3, <3>1, ReplyMoves
    <3>3. QED BY <3>2 DEF InOrder
  <2>8. QED BY <2>1, <2>5, <2>6, <2>7 DEF Quiet
<1>5. QED BY <1>2, <1>3, <1>4 DEF Next

(* Reply h goes from the router of b to the channel of its connection,     *)
(* ahead of everything else of that connection.                            *)
Delivers(b, h) ==
  /\ h \in Answered(b) /\ h.kind # "close"
  /\ outQ' = [outQ EXCEPT ![h.client] = Append(@, h)]
  /\ Before({h}, Answered(b)' \cup Waiting(b))
  /\ \A x \in Backends : sending[x]' = sending[x] \/ sending[x]' = <<>>
  /\ UNCHANGED <<launcherVars, stdinQ, inflight, procIn>>

(* Reply h waits in the router of b for room in the channel. *)
Waits(b, h) ==
  /\ h \in Answered(b) /\ h.kind # "close"
  /\ sending' = [sending EXCEPT ![b] = <<h>>]
  /\ Before({h}, ToSet(procOut[b])' \cup Waiting(b))
  /\ UNCHANGED <<outQ, launcherVars, stdinQ, inflight, procIn>>

(* Only a connection that has an entry is routed to, and that is never     *)
(* answered a close.                                                       *)
LEMMA RoutedKind ==
  ASSUME IInv, OrderInv, NEW b \in Backends, NEW m \in Answered(b),
         m.client \in registered
  PROVE  m.kind # "close"
<1>1. m.client \in Clients
  BY RoutedSession
<1>2. sess[m.client] # "done"
  BY <1>1 DEF IInv, EntryInv, Live
<1>3. QED BY <1>2 DEF OrderInv, SentInv

LEMMA RouteKinds ==
  ASSUME IInv, OrderInv, ReplyInv, NEW b \in Backends,
         RouteReply(b) \/ SendCompletes(b), UNCHANGED launcherVars
  PROVE  Quiet \/ \E h \in Msg : Delivers(b, h) \/ Waits(b, h)
<1>0. TypeOK
  BY DEF IInv
<1>T. /\ outQ \in [Clients -> Seq(Msg)] /\ sending \in [Backends -> Seq(Msg)]
      /\ procOut \in [Backends -> Seq(Msg)]
  BY <1>0 DEF TypeOK, ManagerTypeOK, ChannelTypeOK, TaskTypeOK, ProcTypeOK
<1>Q. ASSUME outQ' = outQ,
             \A x \in Backends : sending[x]' = sending[x] \/ sending[x]' = <<>>
      PROVE  Quiet
  BY <1>Q DEF Quiet, Replies, InOrder, launcherVars, sessionVars, hostVars
<1>1. CASE RouteReply(b)
  <2>0. PICK h \in Msg : h = Head(procOut[b])
    BY <1>T, <1>1, TailElems DEF RouteReply
  <2>1. /\ sending[b] = <<>> /\ procOut[b] # <<>>
        /\ procOut' = [procOut EXCEPT ![b] = Tail(@)]
        /\ UNCHANGED <<stdinQ, inflight, procIn>>
    BY <1>1 DEF RouteReply
  <2>2. h \in ToSet(procOut[b]) /\ procOut[b]' = Tail(procOut[b])
    BY <1>T, <2>0, <2>1, TailElems
  <2>3. h \in Answered(b)
    BY <2>2 DEF Answered
  <2>4. Before({h}, ToSet(procOut[b])' \cup Waiting(b))
    <3>1. InLine(procOut[b], procIn[b], inflight[b], stdinQ[b])
      BY DEF OrderInv, LineInv
    <3>2. PICK p \in Seq(Msg), q \in Seq(Msg), r \in Seq(Msg), s \in Seq(Msg) :
            p = procOut[b] /\ q = procIn[b] /\ r = inflight[b] /\ s = stdinQ[b]
      BY <1>0, QueueTypes
    <3>3. Before({Head(p)}, ToSet(Tail(p)) \cup ToSet(q) \cup ToSet(r)
                                \cup ToSet(s))
      BY <2>1, <3>1, <3>2, LineMoves
    <3>4. QED BY <2>0, <2>2, <3>2, <3>3 DEF Waiting, Before
  <2>5. \/ UNCHANGED <<outQ, sending>>
        \/ /\ h.client \in registered
           /\ \/ /\ sending' = sending
                 /\ outQ' = [outQ EXCEPT ![h.client] = Append(@, h)]
              \/ /\ outQ' = outQ
                 /\ sending' = [sending EXCEPT ![b] = <<h>>]
    BY <1>1, <2>0 DEF RouteReply
  <2>6. CASE UNCHANGED <<outQ, sending>>
    BY <1>Q, <2>6
  <2>7. CASE /\ h.client \in registered /\ sending' = sending
             /\ outQ' = [outQ EXCEPT ![h.client] = Append(@, h)]
    <3>1. Answered(b)' = ToSet(procOut[b])'
      BY <2>1, <2>7, EmptyElems DEF Answered
    <3>2. h.kind # "close"
      BY <2>3, <2>7, RoutedKind
    <3>3. Delivers(b, h)
      BY <2>1, <2>3, <2>4, <2>7, <3>1, <3>2 DEF Delivers
    <3>4. QED BY <3>3
  <2>8. CASE /\ h.client \in registered /\ outQ' = outQ
             /\ sending' = [sending EXCEPT ![b] = <<h>>]
    <3>1. h.kind # "close"
      BY <2>3, <2>8, RoutedKind
    <3>2. Waits(b, h)
      BY <2>1, <2>3, <2>4, <2>8, <3>1 DEF Waits
    <3>3. QED BY <3>2
  <2>9. QED BY <2>5, <2>6, <2>7, <2>8
<1>2. CASE SendCompletes(b)
  <2>0. PICK h \in Msg : h = Head(sending[b])
    BY <1>T, <1>2, TailElems DEF SendCompletes
  <2>1. /\ sending[b] # <<>> /\ sending' = [sending EXCEPT ![b] = <<>>]
        /\ UNCHANGED <<stdinQ, inflight, procIn, procOut>>
    BY <1>2 DEF SendCompletes, procVars
  <2>2. h \in ToSet(sending[b])
    BY <1>T, <2>0, <2>1, TailElems
  <2>3. /\ sending[b]' = <<>>
        /\ \A x \in Backends : sending[x]' = sending[x] \/ sending[x]' = <<>>
    BY <1>T, <2>1
  <2>4. outQ' = outQ \/ outQ' = [outQ EXCEPT ![h.client] = Append(@, h)]
    BY <1>2, <2>0 DEF SendCompletes
  <2>5. CASE outQ' = outQ
    BY <1>Q, <2>3, <2>5
  <2>6. CASE outQ' = [outQ EXCEPT ![h.client] = Append(@, h)]
    <3>1. Answered(b)' = ToSet(procOut[b])
      BY <2>1, <2>3, EmptyElems DEF Answered
    <3>2. h.kind # "close" /\ Before({h}, Answered(b)' \cup Waiting(b))
      BY <2>2, <3>1 DEF ReplyInv, Before
    <3>3. h \in Answered(b)
      BY <2>2 DEF Answered
    <3>4. Delivers(b, h)
      BY <2>1, <2>3, <2>6, <3>2, <3>3 DEF Delivers
    <3>5. QED BY <3>4
  <2>7. QED BY <2>4, <2>5, <2>6
<1>3. QED BY <1>1, <1>2

(* What enters a backend's queues comes after what the backend has given   *)
(* out before.                                                             *)
LEMMA ArrivesLater ==
  ASSUME IInv, WaitingFlow, NEW b \in Backends, NEW n \in Waiting(b)',
         n \notin Waiting(b), NEW m, m.kind # "close", m.client \in Clients,
         \A k \in ToSet(toServer[m.client]) : m.seq < k.seq
  PROVE  Precedes(m, n)
<1>1. PICK c \in Clients :
        \/ toServer[c] # <<>> /\ n = Head(toServer[c])
        \/ n.client = c /\ n.kind = "close"
  BY DEF WaitingFlow
<1>2. CASE toServer[c] # <<>> /\ n = Head(toServer[c])
  <2>1. toServer[c] \in Seq(Msg)
    BY QueueTypes DEF IInv
  <2>2. n \in ToSet(toServer[c])
    BY <1>2, <2>1, TailElems
  <2>3. n.client = c
    BY <2>2 DEF IInv, ChannelInv
  <2>4. QED BY <2>2, <2>3 DEF Precedes
<1>3. CASE n.kind = "close"
  BY <1>3 DEF Precedes
<1>4. QED BY <1>1, <1>2, <1>3

(* What a host adds to its pipe has a number above all others. *)
LEMMA PipeNumbers ==
  ASSUME TypeOK, HostFlow, NEW c \in Clients
  PROVE  /\ hostSeq[c] \in Nat /\ hostSeq[c]' \in Nat
         /\ hostSeq[c]' >= hostSeq[c]
         /\ \A n \in ToSet(toServer[c])' :
              n \in ToSet(toServer[c]) \/ n.seq = hostSeq[c] + 1
<1>1. toServer[c] \in Seq(Msg) /\ hostSeq[c] \in Nat
  BY QueueTypes DEF TypeOK, HostTypeOK
<1>2. CASE toServer[c]' = toServer[c] /\ hostSeq[c]' = hostSeq[c]
  BY <1>1, <1>2
<1>3. CASE /\ toServer[c] # <<>> /\ toServer[c]' = Tail(toServer[c])
           /\ hostSeq[c]' = hostSeq[c]
  <2>1. ToSet(Tail(toServer[c])) \subseteq ToSet(toServer[c])
    BY <1>1, <1>3, TailElems
  <2>2. QED BY <1>1, <1>3, <2>1
<1>4. CASE /\ hostSeq[c]' = hostSeq[c] + 1
           /\ \E m \in Msg : m.client = c /\ m.seq = hostSeq[c] + 1
                             /\ toServer[c]' = Append(toServer[c], m)
  <2>1. PICK m \in Msg : /\ m.seq = hostSeq[c] + 1
                         /\ toServer[c]' = Append(toServer[c], m)
    BY <1>4
  <2>2. ToSet(toServer[c])' = ToSet(toServer[c]) \cup {m}
    BY <1>1, <2>1, AppendElems
  <2>3. QED BY <1>1, <1>4, <2>1, <2>2
<1>5. QED BY <1>2, <1>3, <1>4 DEF HostFlow

(* What a backend prints it has read. *)
LEMMA PrintFlow ==
  ASSUME TypeOK, [Next]_vars, NEW b \in Backends
  PROVE  ToSet(procOut[b])' \subseteq ToSet(procOut[b]) \cup Waiting(b)
<1>1. ASSUME NEW x \in Backends, Moves(x)
      PROVE  ToSet(procOut[b])' \subseteq ToSet(procOut[b]) \cup Waiting(b)
  <2>1. CASE x # b
    BY <1>1, <2>1, OneBackend
  <2>2. CASE x = b
    <3>1. procOut[b] \in Seq(Msg) /\ procIn[b] \in Seq(Msg)
      BY QueueTypes
    <3>2. procOut[b] # <<>> =>
            ToSet(Tail(procOut[b])) \subseteq ToSet(procOut[b])
      BY <3>1, TailElems
    <3>3. procIn[b] # <<>> =>
            ToSet(Append(procOut[b], Head(procIn[b])))
              \subseteq ToSet(procOut[b]) \cup ToSet(procIn[b])
      BY <3>1, TailElems, AppendElems
    <3>4. \/ procOut[b]' = procOut[b] \/ procOut[b]' = <<>>
          \/ procOut[b] # <<>> /\ procOut[b]' = Tail(procOut[b])
          \/ /\ procIn[b] # <<>>
             /\ procOut[b]' = Append(procOut[b], Head(procIn[b]))
      BY <1>1, <2>2, MovedTo
    <3>5. QED BY <3>2, <3>3, <3>4, EmptyElems DEF Waiting
  <2>3. QED BY <2>1, <2>2
<1>2. ASSUME NEW c \in Clients, Sends(c) PROVE procOut' = procOut
  BY <1>2 DEF Sends, SendLine, SendClose, procVars
<1>3. QED BY <1>1, <1>2, StepKinds DEF Rests, LineVars

(* The router keeps at most one reply, ahead of the process's output.      *)
SenderInv ==
  \A b \in Backends :
    /\ Len(sending[b]) <= 1
    /\ \A m \in ToSet(sending[b]) : m.kind # "close"
    /\ Before(ToSet(sending[b]), ToSet(procOut[b]) \cup Waiting(b))

(* The replies of c come before everything else of c. *)
Foremost(c) ==
  /\ InOrder(c)
  /\ \A m \in Replies(c) :
       m.client = c /\ m.kind # "close" /\ m.seq <= hostSeq[c]
  /\ \A b \in Backends : Before(Replies(c), Answered(b) \cup Waiting(b))
  /\ Before(Replies(c), ToSet(toServer[c]))

LEMMA ReplyParts == ReplyInv <=> SenderInv /\ \A c \in Clients : Foremost(c)
  BY DEF ReplyInv, SenderInv, Foremost, InOrder

(* What was printed and is not sent on stays behind what is being sent. *)
LEMMA SenderStep ==
  ASSUME IInv, OrderInv, ReplyInv, Flows, [Next]_vars,
         \/ \A x \in Backends : sending[x]' = sending[x] \/ sending[x]' = <<>>
         \/ \E b \in Backends, h \in Msg : Waits(b, h)
  PROVE  SenderInv'
<1>0. TypeOK /\ SenderInv /\ SentInv
  BY ReplyParts DEF IInv, OrderInv
<1>1. ASSUME NEW b \in Backends, sending[b]' = sending[b] \/ sending[b]' = <<>>
      PROVE  /\ Len(sending[b])' <= 1
             /\ \A m \in ToSet(sending[b])' : m.kind # "close"
             /\ Before(ToSet(sending[b]), ToSet(procOut[b]) \cup Waiting(b))'
  <2>1. ToSet(sending[b])' \subseteq ToSet(sending[b])
    BY <1>1, EmptyElems
  <2>2. Len(sending[b])' <= 1 /\ \A m \in ToSet(sending[b])' : m.kind # "close"
    <3>1. \A t : t = <<>> => Len(t) = 0
      OBVIOUS
    <3>2. Len(sending[b]) <= 1 /\ \A m \in ToSet(sending[b]) : m.kind # "close"
      BY <1>0 DEF SenderInv
    <3>3. Len(sending[b])' <= 1
      BY <1>1, <3>1, <3>2
    <3>4. QED BY <2>1, <3>2, <3>3
  <2>3. ASSUME NEW m \in ToSet(sending[b])',
               NEW n \in ToSet(procOut[b])' \cup Waiting(b)'
        PROVE  Precedes(m, n)
    <3>1. m \in ToSet(sending[b]) /\ m.kind # "close"
      BY <2>1, <2>2, <2>3
    <3>2. CASE n \in ToSet(procOut[b]) \cup Waiting(b)
      BY <1>0, <3>1, <3>2 DEF SenderInv, Before
    <3>3. CASE n \in Waiting(b)' /\ n \notin Waiting(b)
      <4>1. m \in Answered(b) /\ m.client \in Clients
        BY <3>1, RoutedSession DEF Answered
      <4>2. \A k \in ToSet(toServer[m.client]) : m.seq < k.seq
        BY <1>0, <3>1, <4>1 DEF SentInv
      <4>3. QED BY <3>1, <3>3, <4>1, <4>2, ArrivesLater DEF Flows
    <3>4. ToSet(procOut[b])' \subseteq ToSet(procOut[b]) \cup Waiting(b)
      BY <1>0, PrintFlow
    <3>5. QED BY <3>2, <3>3, <3>4
  <2>4. QED BY <2>2, <2>3 DEF Before
<1>2. ASSUME NEW b \in Backends, NEW h \in Msg, Waits(b, h)
      PROVE  SenderInv'
  <2>1. \A x \in Backends : sending[x]' = IF x = b THEN <<h>> ELSE sending[x]
    BY <1>0, <1>2 DEF Waits, TypeOK, ManagerTypeOK, TaskTypeOK
  <2>2. ToSet(<<h>>) = {h} /\ \A t : t = <<h>> => Len(t) = 1
    BY SlotElems
  <2>3. Waiting(b)' = Waiting(b)
    BY <1>2 DEF Waits, Waiting
  <2>4. /\ Len(sending[b])' <= 1
        /\ \A m \in ToSet(sending[b])' : m.kind # "close"
        /\ Before(ToSet(sending[b]), ToSet(procOut[b]) \cup Waiting(b))'
    <3>1. sending[b]' = <<h>>
      BY <2>1
    <3>2. Len(sending[b])' <= 1
      BY <2>2, <3>1
    <3>3. QED BY <1>2, <2>2, <2>3, <3>1, <3>2 DEF Waits
  <2>5. QED BY <1>1, <2>1, <2>4 DEF SenderInv
<1>3. QED BY <1>1, <1>2 DEF SenderInv

(* Replies that only move on stay foremost. *)
LEMMA ForemostMove ==
  ASSUME IInv, OrderInv, ReplyInv, Flows, HostFlow, NEW c \in Clients,
         Replies(c)' \subseteq Replies(c), InOrder(c) => InOrder(c)'
  PROVE  Foremost(c)'
<1>0. TypeOK /\ Foremost(c)
  BY ReplyParts DEF IInv
<1>1. /\ hostSeq[c] \in Nat /\ hostSeq[c]' \in Nat /\ hostSeq[c]' >= hostSeq[c]
      /\ \A n \in ToSet(toServer[c])' :
           n \in ToSet(toServer[c]) \/ n.seq = hostSeq[c] + 1
  BY <1>0, PipeNumbers
<1>2. \A m \in Replies(c) :
        /\ m \in Msg /\ m.seq \in Nat /\ m.client = c /\ m.kind # "close"
        /\ m.seq <= hostSeq[c]
        /\ \A k \in ToSet(toServer[c]) : m.seq < k.seq
  <2>1. \A m \in Replies(c) : m \in Msg
    BY <1>0, QueueTypes, ElemsByIndex DEF Replies
  <2>2. \A k \in ToSet(toServer[c]) : k.client = c /\ k.kind # "close"
    BY DEF IInv, ChannelInv
  <2>3. QED BY <1>0, <2>1, <2>2 DEF Foremost, Before, Precedes, Msg
<1>3. ASSUME NEW m \in Replies(c)'
      PROVE  /\ m.client = c /\ m.kind # "close" /\ m.seq <= hostSeq[c]'
             /\ \A n \in ToSet(toServer[c])' : Precedes(m, n)
  <2>1. /\ m.seq \in Nat /\ m.client = c /\ m.kind # "close"
        /\ m.seq <= hostSeq[c]
        /\ \A k \in ToSet(toServer[c]) : m.seq < k.seq
    BY <1>2
  <2>2. \A n \in ToSet(toServer[c])' : m.seq < n.seq
    BY <1>1, <2>1
  <2>3. QED BY <1>1, <2>1, <2>2 DEF Precedes
<1>4. ASSUME NEW b \in Backends, NEW m \in Replies(c)',
             NEW n \in Answered(b)' \cup Waiting(b)'
      PROVE  Precedes(m, n)
  <2>1. CASE n \in Answered(b) \cup Waiting(b)
    BY <1>0, <2>1 DEF Foremost, Before
  <2>2. CASE n \in Waiting(b)' /\ n \notin Waiting(b)
    BY <1>2, <2>2, ArrivesLater DEF Flows
  <2>3. QED BY <2>1, <2>2 DEF Flows, AnsweredFlow
<1>5. QED BY <1>0, <1>3, <1>4 DEF Foremost, Before

(* A reply that is delivered is the last of the replies. *)
LEMMA ForemostDelivered ==
  ASSUME IInv, OrderInv, ReplyInv, Flows, HostFlow,
         NEW b \in Backends, NEW h \in Msg, Delivers(b, h), NEW c \in Clients
  PROVE  Foremost(c)'
<1>0. /\ TypeOK /\ Foremost(c) /\ SentInv
      /\ toServer' = toServer /\ toClient' = toClient /\ hold' = hold
      /\ hostSeq' = hostSeq /\ Waiting(b)' = Waiting(b)
  BY ReplyParts
  DEF IInv, OrderInv, Delivers, launcherVars, sessionVars, hostVars, Waiting
<1>1. outQ \in [Clients -> Seq(Msg)]
  BY <1>0 DEF TypeOK, ManagerTypeOK, ChannelTypeOK
<1>2. CASE c # h.client
  <2>1. outQ[c]' = outQ[c]
    BY <1>1, <1>2 DEF Delivers
  <2>2. Replies(c)' = Replies(c) /\ (InOrder(c) => InOrder(c)')
    BY <1>0, <2>1 DEF Replies, InOrder
  <2>3. QED BY <2>2, ForemostMove
<1>3. CASE c = h.client
  <2>1. /\ outQ[c]' = Append(outQ[c], h) /\ h \in Answered(b)
        /\ h.kind # "close" /\ Before({h}, Answered(b)' \cup Waiting(b))
    BY <1>1, <1>3 DEF Delivers
  <2>2. /\ h.seq <= hostSeq[c] /\ backendOf[c] = b
        /\ \A k \in ToSet(toServer[c]) : h.seq < k.seq
    BY <1>0, <1>3, <2>1, RoutedSession DEF SentInv
  <2>3. Before(Replies(c), {h})
    BY <1>0, <2>1 DEF Foremost, Before
  <2>4. Replies(c)' = Replies(c) \cup {h}
    <3>1. ToSet(Append(outQ[c], h)) = ToSet(outQ[c]) \cup {h}
      BY <1>1, AppendElems
    <3>2. QED BY <1>0, <2>1, <3>1 DEF Replies
  <2>5. InOrder(c)'
    <3>1. PICK t \in Seq(Msg), g \in Seq(Msg), o \in Seq(Msg), e \in Seq(Msg) :
            t = toClient[c] /\ g = hold[c] /\ o = outQ[c] /\ e = <<>>
      <4>1. <<>> \in Seq(Msg)
        OBVIOUS
      <4>2. QED BY <1>0, <4>1, QueueTypes
    <3>2. InLine(e, t, g, o)
      BY <1>0, <3>1 DEF Foremost, InOrder
    <3>3. Before(ToSet(e) \cup ToSet(t) \cup ToSet(g) \cup ToSet(o), {h})
      BY <2>3, <3>1, EmptyElems DEF Replies, Before
    <3>4. InLine(e, t, g, Append(o, h))
      BY <3>2, <3>3, LineMoves
    <3>5. QED BY <1>0, <2>1, <3>1, <3>4 DEF InOrder
  <2>6. \A m \in Replies(c)' :
          m.client = c /\ m.kind # "close" /\ m.seq <= hostSeq[c]'
    BY <1>0, <1>3, <2>1, <2>2, <2>4 DEF Foremost
  <2>7. Before(Replies(c), ToSet(toServer[c]))'
    BY <1>0, <2>1, <2>2, <2>4 DEF Foremost, Before, Precedes
  <2>8. ASSUME NEW x \in Backends, NEW m \in Replies(c)',
               NEW n \in Answered(x)' \cup Waiting(x)'
        PROVE  Precedes(m, n)
    <3>1. n \in Answered(x) \cup Waiting(x)
      BY DEF Flows, AnsweredFlow, Delivers, Waiting
    <3>2. CASE m \in Replies(c)
      BY <1>0, <3>1, <3>2 DEF Foremost, Before
    <3>3. CASE m = h /\ x = b
      BY <1>0, <2>1, <3>3 DEF Before
    <3>4. CASE m = h /\ x # b
      <4>1. n.client # c
        BY <2>2, <3>1, <3>4 DEF IInv, ChannelInv
      <4>2. QED BY <1>3, <3>4, <4>1 DEF Precedes
    <3>5. QED BY <2>4, <3>2, <3>3, <3>4
  <2>9. QED BY <2>5, <2>6, <2>7, <2>8 DEF Foremost, Before
<1>4. QED BY <1>2, <1>3

LEMMA ReplyStep ==
  IInv /\ OrderInv /\ HoldInv /\ ReplyInv /\ Flows /\ HostFlow /\ [Next]_vars
    => ReplyInv'
<1> SUFFICES ASSUME IInv, OrderInv, HoldInv, ReplyInv, Flows, HostFlow,
                    [Next]_vars
             PROVE  SenderInv' /\ \A c \in Clients : Foremost(c)'
  <2>1. (ReplyInv <=> SenderInv /\ \A c \in Clients : Foremost(c))'
    BY ReplyParts, PTL
  <2>2. QED BY <2>1
<1>1. \/ Quiet
      \/ \E b \in Backends, h \in Msg : Delivers(b, h) \/ Waits(b, h)
  BY QuietStep, RouteKinds
<1>2. CASE Quiet
  BY <1>2, SenderStep, ForemostMove DEF Quiet
<1>3. ASSUME NEW b \in Backends, NEW h \in Msg, Delivers(b, h)
      PROVE  SenderInv' /\ \A c \in Clients : Foremost(c)'
  BY <1>3, SenderStep, ForemostDelivered DEF Delivers
<1>4. ASSUME NEW b \in Backends, NEW h \in Msg, Waits(b, h)
      PROVE  SenderInv' /\ \A c \in Clients : Foremost(c)'
  <2>1. SenderInv'
    BY <1>4, SenderStep
  <2>2. \A c \in Clients :
          Replies(c)' \subseteq Replies(c) /\ (InOrder(c) => InOrder(c)')
    BY <1>4
    DEF Waits, Replies, InOrder, launcherVars, sessionVars, hostVars
  <2>3. QED BY <2>1, <2>2, ForemostMove
<1>5. QED BY <1>1, <1>2, <1>3, <1>4

-----------------------------------------------------------------------------
(* No gaps *)

LEMMA NumberTypes ==
  ASSUME TypeOK, NEW c \in Clients, NEW b \in Backends
  PROVE  /\ Numbers(toClient[c], c) \in SUBSET Nat
         /\ Numbers(hold[c], c) \in SUBSET Nat
         /\ Numbers(outQ[c], c) \in SUBSET Nat
         /\ Numbers(sending[b], c) \in SUBSET Nat
         /\ Numbers(procOut[b], c) \in SUBSET Nat
         /\ Numbers(procIn[b], c) \in SUBSET Nat
         /\ Numbers(inflight[b], c) \in SUBSET Nat
         /\ Numbers(stdinQ[b], c) \in SUBSET Nat
         /\ Numbers(toServer[c], c) \in SUBSET Nat
  BY QueueTypes, QueueNumbers

(* The queues between a host's last call and its last reply are in order.  *)
LEMMA NumbersInLine ==
  ASSUME IInv, OrderInv, ReplyInv, NEW c \in Clients, NEW b \in Backends
  PROVE  /\ Below(Numbers(toClient[c], c),
                  Numbers(hold[c], c) \cup Numbers(outQ[c], c))
         /\ Below(Numbers(hold[c], c), Numbers(outQ[c], c))
         /\ Below(Numbers(toClient[c], c) \cup Numbers(hold[c], c)
                    \cup Numbers(outQ[c], c),
                  Numbers(sending[b], c) \cup Numbers(procOut[b], c)
                    \cup Numbers(procIn[b], c) \cup Numbers(inflight[b], c)
                    \cup Numbers(stdinQ[b], c) \cup Numbers(toServer[c], c))
         /\ Below(Numbers(sending[b], c),
                  Numbers(procOut[b], c) \cup Numbers(procIn[b], c)
                    \cup Numbers(inflight[b], c) \cup Numbers(stdinQ[b], c)
                    \cup Numbers(toServer[c], c))
         /\ Below(Numbers(procOut[b], c),
                  Numbers(procIn[b], c) \cup Numbers(inflight[b], c)
                    \cup Numbers(stdinQ[b], c) \cup Numbers(toServer[c], c))
         /\ Below(Numbers(procIn[b], c),
                  Numbers(inflight[b], c) \cup Numbers(stdinQ[b], c)
                    \cup Numbers(toServer[c], c))
<1>1. ASSUME NEW s, NEW t, NEW S, NEW T, ToSet(s) \subseteq S,
             ToSet(t) \subseteq T, Before(S, T)
      PROVE  Below(Numbers(s, c), Numbers(t, c))
  <2>1. Before(ToSet(s), ToSet(t))
    BY <1>1 DEF Before
  <2>2. QED BY <2>1, NumbersBefore
<1>2. ASSUME NEW s, ToSet(s) \subseteq Waiting(b) \cup Answered(b)
      PROVE  Below(Numbers(s, c), Numbers(toServer[c], c))
  <2>1. ASSUME NEW m \in ToSet(s), m.client = c, m.kind # "close",
               NEW n \in ToSet(toServer[c])
        PROVE  m.seq < n.seq
    <3>1. m \in Waiting(b) \cup Answered(b)
      BY <1>2
    <3>2. QED BY <2>1, <3>1 DEF OrderInv, SentInv
  <2>2. QED BY <2>1 DEF Below, Numbers
<1>3. /\ Below(Numbers(toClient[c], c), Numbers(hold[c], c))
      /\ Below(Numbers(toClient[c], c), Numbers(outQ[c], c))
      /\ Below(Numbers(hold[c], c), Numbers(outQ[c], c))
  <2>1. InLine(<<>>, toClient[c], hold[c], outQ[c])
    BY DEF ReplyInv
  <2>2. QED BY <1>1, <2>1 DEF InLine
<1>4. ASSUME NEW s, ToSet(s) \subseteq Replies(c)
      PROVE  /\ Below(Numbers(s, c), Numbers(sending[b], c))
             /\ Below(Numbers(s, c), Numbers(procOut[b], c))
             /\ Below(Numbers(s, c), Numbers(procIn[b], c))
             /\ Below(Numbers(s, c), Numbers(inflight[b], c))
             /\ Below(Numbers(s, c), Numbers(stdinQ[b], c))
             /\ Below(Numbers(s, c), Numbers(toServer[c], c))
  <2>1. /\ Before(Replies(c), Answered(b) \cup Waiting(b))
        /\ Before(Replies(c), ToSet(toServer[c]))
    BY DEF ReplyInv
  <2>2. /\ ToSet(sending[b]) \subseteq Answered(b) \cup Waiting(b)
        /\ ToSet(procOut[b]) \subseteq Answered(b) \cup Waiting(b)
        /\ ToSet(procIn[b]) \subseteq Answered(b) \cup Waiting(b)
        /\ ToSet(inflight[b]) \subseteq Answered(b) \cup Waiting(b)
        /\ ToSet(stdinQ[b]) \subseteq Answered(b) \cup Waiting(b)
    BY DEF Answered, Waiting
  <2>3. QED BY <1>1, <1>4, <2>1, <2>2
<1>5. /\ Below(Numbers(sending[b], c), Numbers(procOut[b], c))
      /\ Below(Numbers(sending[b], c), Numbers(procIn[b], c))
      /\ Below(Numbers(sending[b], c), Numbers(inflight[b], c))
      /\ Below(Numbers(sending[b], c), Numbers(stdinQ[b], c))
      /\ Below(Numbers(sending[b], c), Numbers(toServer[c], c))
  <2>1. Before(ToSet(sending[b]), ToSet(procOut[b]) \cup Waiting(b))
    BY DEF ReplyInv
  <2>2. /\ ToSet(procOut[b]) \subseteq ToSet(procOut[b]) \cup Waiting(b)
        /\ ToSet(procIn[b]) \subseteq ToSet(procOut[b]) \cup Waiting(b)
        /\ ToSet(inflight[b]) \subseteq ToSet(procOut[b]) \cup Waiting(b)
        /\ ToSet(stdinQ[b]) \subseteq ToSet(procOut[b]) \cup Waiting(b)
        /\ ToSet(sending[b]) \subseteq Waiting(b) \cup Answered(b)
    BY DEF Answered, Waiting
  <2>3. QED BY <1>1, <1>2, <2>1, <2>2
<1>6. /\ Below(Numbers(procOut[b], c), Numbers(procIn[b], c))
      /\ Below(Numbers(procOut[b], c), Numbers(inflight[b], c))
      /\ Below(Numbers(procOut[b], c), Numbers(stdinQ[b], c))
      /\ Below(Numbers(procOut[b], c), Numbers(toServer[c], c))
      /\ Below(Numbers(procIn[b], c), Numbers(inflight[b], c))
      /\ Below(Numbers(procIn[b], c), Numbers(stdinQ[b], c))
      /\ Below(Numbers(procIn[b], c), Numbers(toServer[c], c))
  <2>1. InLine(procOut[b], procIn[b], inflight[b], stdinQ[b])
    BY DEF OrderInv, LineInv
  <2>2. /\ ToSet(procOut[b]) \subseteq Waiting(b) \cup Answered(b)
        /\ ToSet(procIn[b]) \subseteq Waiting(b) \cup Answered(b)
    BY DEF Answered, Waiting
  <2>3. QED BY <1>1, <1>2, <2>1, <2>2 DEF InLine
<1>7. /\ ToSet(toClient[c]) \subseteq Replies(c)
      /\ ToSet(hold[c]) \subseteq Replies(c)
      /\ ToSet(outQ[c]) \subseteq Replies(c)
  BY DEF Replies
<1>8. QED BY <1>3, <1>4, <1>5, <1>6, <1>7 DEF Below

(* The oldest number of a queue. *)
LEMMA OldestOfQueue ==
  ASSUME NEW s \in Seq(Msg), s # <<>>, Ordered(s), NEW c
  PROVE  /\ Numbers(s, c) = NumberOf(Head(s), c) \cup Numbers(Tail(s), c)
         /\ Below(NumberOf(Head(s), c), Numbers(Tail(s), c))
         /\ NumberOf(Head(s), c) \subseteq Numbers(s, c)
         /\ Numbers(Tail(s), c) \in SUBSET Nat
         /\ NumberOf(Head(s), c) \in SUBSET Nat
<1>1. Numbers(s, c) = NumberOf(Head(s), c) \cup Numbers(Tail(s), c)
  BY QueueNumbers
<1>2. Before({Head(s)}, ToSet(Tail(s))) /\ Tail(s) \in Seq(Msg)
  BY OrderedMoves
<1>3. Below(NumberOf(Head(s), c), Numbers(Tail(s), c))
  BY <1>2 DEF Below, NumberOf, Numbers, Before, Precedes
<1>4. Numbers(s, c) \in SUBSET Nat
  BY QueueNumbers
<1>5. QED BY <1>1, <1>3, <1>4

(* A step that leaves alone what NoGap(c) looks at. *)
Kept(c) ==
  /\ backendOf[c]' = backendOf[c] /\ hostSeq[c]' = hostSeq[c]
  /\ lastRecv[c]' = lastRecv[c] /\ (hostOpen[c]' => hostOpen[c])
  /\ backendOf[c] \in Backends =>
       /\ Arriving(c)' = Arriving(c)
       /\ c \in registered' =>
            /\ c \in registered /\ Answers(c)' = Answers(c)
            /\ alive[backendOf[c]]' =>
                 alive[backendOf[c]] /\ Calls(c)' = Calls(c)
            /\ task[backendOf[c]]' \in Down =>
                 task[backendOf[c]] \in Down /\ Unread(c)' = Unread(c)

LEMMA KeptNoGap ==
  ASSUME NEW c \in Clients, NoGap(c), Kept(c)
  PROVE  NoGap(c)'
<1> SUFFICES ASSUME backendOf[c]' \in Backends, hostOpen[c]'
             PROVE  /\ Unbroken(Arriving(c)', lastRecv[c]')
                    /\ c \in registered' =>
                         /\ Unbroken(Answers(c)', lastRecv[c]')
                         /\ alive[backendOf[c]]' =>
                              Complete(Calls(c)', lastRecv[c]', hostSeq[c]')
                         /\ task[backendOf[c]]' \in Down =>
                              /\ lastRecv[c]' = 0 /\ Arriving(c)' = {}
                              /\ Complete(Unread(c)', 0, hostSeq[c]')
  BY DEF NoGap
<1>1. QED BY DEF NoGap, Kept

(* A step of a backend leaves other backends and what is outside alone. *)
LEMMA BackendLocal ==
  ASSUME IInv, NEW b \in Backends, BackendStep(b)
  PROVE  /\ UNCHANGED launcherVars /\ backendOf' = backendOf
         /\ rxOpen' = rxOpen /\ registered' \subseteq registered
         /\ \A y \in Backends \ {b} :
              /\ sending[y]' = sending[y] /\ procOut[y]' = procOut[y]
              /\ procIn[y]' = procIn[y] /\ inflight[y]' = inflight[y]
              /\ stdinQ[y]' = stdinQ[y] /\ alive[y]' = alive[y]
              /\ task[y]' = task[y]
         /\ \A x \in Clients : backendOf[x] # b => outQ[x]' = outQ[x]
<1>0. /\ TypeOK /\ outQ \in [Clients -> Seq(Msg)]
      /\ task \in [Backends -> TaskStates]
      /\ stdinQ \in [Backends -> Seq(Msg)]
      /\ inflight \in [Backends -> Seq(Msg)]
      /\ sending \in [Backends -> Seq(Msg)]
      /\ alive \in [Backends -> BOOLEAN]
      /\ procIn \in [Backends -> Seq(Msg)]
      /\ procOut \in [Backends -> Seq(Msg)]
  BY DEF IInv, TypeOK, ManagerTypeOK, ChannelTypeOK, TaskTypeOK, ProcTypeOK
<1>1. UNCHANGED launcherVars
  BY DEF BackendStep, RestartAfterDelay
<1>2. /\ backendOf' = backendOf /\ rxOpen' = rxOpen
      /\ registered' \subseteq registered
  BY DEF BackendStep, RestartAfterDelay, EndRestartDelay, Spawn, RecvInput,
         WriteInput, WriteFails, WatchdogKill, ChildExits, KillAndExit,
         DisconnectClients, RouteReply, SendCompletes, SendTimesOut,
         ForceDisconnected, BackendHandles, StdoutReadError, BackendHangs,
         BackendCrashes, entryVars, channelVars
<1>3. ASSUME NEW y \in Backends \ {b}
      PROVE  /\ sending[y]' = sending[y] /\ procOut[y]' = procOut[y]
             /\ procIn[y]' = procIn[y] /\ inflight[y]' = inflight[y]
             /\ stdinQ[y]' = stdinQ[y] /\ alive[y]' = alive[y]
             /\ task[y]' = task[y]
  <2>1. CASE Spawn(b) \/ RecvInput(b) \/ WriteInput(b)
    BY <1>0, <1>3, <2>1 DEF Spawn, RecvInput, WriteInput, procVars
  <2>2. CASE WriteFails(b) \/ WatchdogKill(b) \/ ChildExits(b)
    BY <1>0, <1>3, <2>2 DEF WriteFails, WatchdogKill, ChildExits, KillAndExit
  <2>3. CASE DisconnectClients(b) \/ RestartAfterDelay(b)
    BY <1>0, <1>3, <2>3
    DEF DisconnectClients, RestartAfterDelay, EndRestartDelay, procVars
  <2>4. CASE RouteReply(b) \/ SendCompletes(b) \/ SendTimesOut(b)
    BY <1>0, <1>3, <2>4
    DEF RouteReply, SendCompletes, SendTimesOut, procVars
  <2>5. CASE BackendHandles(b) \/ StdoutReadError(b) \/ BackendHangs(b)
               \/ BackendCrashes(b)
    BY <1>0, <1>3, <2>5
    DEF BackendHandles, StdoutReadError, BackendHangs, BackendCrashes,
        taskVars, procVars
  <2>6. QED BY <2>1, <2>2, <2>3, <2>4, <2>5 DEF BackendStep
<1>4. ASSUME NEW x \in Clients, backendOf[x] # b PROVE outQ[x]' = outQ[x]
  <2>1. CASE RouteReply(b)
    <3>1. procOut[b] # <<>> /\ procOut[b] \in Seq(Msg)
      BY <1>0, <2>1 DEF RouteReply
    <3>2. Head(procOut[b]) \in Answered(b)
      BY <3>1, TailElems DEF Answered
    <3>3. Head(procOut[b]).client # x
      BY <1>4, <3>2, RoutedSession
    <3>4. QED BY <1>0, <2>1, <3>3 DEF RouteReply
  <2>2. CASE SendCompletes(b)
    <3>1. sending[b] # <<>> /\ sending[b] \in Seq(Msg)
      BY <1>0, <2>2 DEF SendCompletes
    <3>2. Head(sending[b]) \in Answered(b)
      BY <3>1, TailElems DEF Answered
    <3>3. Head(sending[b]).client # x
      BY <1>4, <3>2, RoutedSession
    <3>4. QED BY <1>0, <2>2, <3>3 DEF SendCompletes
  <2>3. QED
    BY <2>1, <2>2
    DEF BackendStep, RestartAfterDelay, EndRestartDelay, Spawn, RecvInput,
        WriteInput, WriteFails, WatchdogKill, ChildExits, KillAndExit,
        DisconnectClients, SendTimesOut, BackendHandles, StdoutReadError,
        BackendHangs, BackendCrashes, channelVars
<1>5. QED BY <1>1, <1>2, <1>3, <1>4

LEMMA GapElsewhere ==
  ASSUME IInv, NEW b \in Backends, BackendStep(b), NEW c \in Clients,
         backendOf[c] # b
  PROVE  Kept(c)
<1>1. /\ UNCHANGED launcherVars /\ backendOf' = backendOf /\ rxOpen' = rxOpen
      /\ registered' \subseteq registered /\ outQ[c]' = outQ[c]
      /\ backendOf[c] \in Backends =>
           /\ sending[backendOf[c]]' = sending[backendOf[c]]
           /\ procOut[backendOf[c]]' = procOut[backendOf[c]]
           /\ procIn[backendOf[c]]' = procIn[backendOf[c]]
           /\ inflight[backendOf[c]]' = inflight[backendOf[c]]
           /\ stdinQ[backendOf[c]]' = stdinQ[backendOf[c]]
           /\ alive[backendOf[c]]' = alive[backendOf[c]]
           /\ task[backendOf[c]]' = task[backendOf[c]]
  <2>1. PICK y : y = backendOf[c]
    OBVIOUS
  <2>2. backendOf' = backendOf /\ (y \in Backends =>
          /\ sending[y]' = sending[y] /\ procOut[y]' = procOut[y]
          /\ procIn[y]' = procIn[y] /\ inflight[y]' = inflight[y]
          /\ stdinQ[y]' = stdinQ[y] /\ alive[y]' = alive[y]
          /\ task[y]' = task[y])
    BY <2>1, BackendLocal
  <2>3. QED BY <2>1, <2>2, BackendLocal
<1>2. /\ toClient' = toClient /\ hold' = hold /\ toServer' = toServer
      /\ hostSeq' = hostSeq /\ lastRecv' = lastRecv /\ hostOpen' = hostOpen
  BY <1>1 DEF launcherVars, sessionVars, hostVars
<1>3. backendOf[c] \in Backends =>
        /\ Arriving(c)' = Arriving(c) /\ Answers(c)' = Answers(c)
        /\ Calls(c)' = Calls(c) /\ Unread(c)' = Unread(c)
  BY <1>1, <1>2 DEF Arriving, Answers, Calls, Unread
<1>4. QED BY <1>1, <1>2, <1>3 DEF Kept

(* The backend of c takes a step that moves no message of c from one part  *)
(* of the traffic to another, or that ends the process.                    *)
LEMMA GapSettled ==
  ASSUME IInv, OrderInv, NEW b \in Backends, NEW c \in Clients,
         backendOf[c] = b, UNCHANGED launcherVars,
         \/ WriteFails(b) \/ WatchdogKill(b) \/ ChildExits(b)
         \/ BackendCrashes(b) \/ BackendHangs(b) \/ StdoutReadError(b)
         \/ RecvInput(b) \/ WriteInput(b)
  PROVE  Kept(c)
<1>0. TypeOK
  BY DEF IInv
<1>T. /\ task \in [Backends -> TaskStates]
      /\ stdinQ \in [Backends -> Seq(Msg)]
      /\ inflight \in [Backends -> Seq(Msg)]
      /\ alive \in [Backends -> BOOLEAN]
      /\ procIn \in [Backends -> Seq(Msg)]
  BY <1>0 DEF TypeOK, ManagerTypeOK, TaskTypeOK, ProcTypeOK
<1>1. /\ toClient' = toClient /\ hold' = hold /\ toServer' = toServer
      /\ hostSeq' = hostSeq /\ lastRecv' = lastRecv /\ hostOpen' = hostOpen
  BY DEF launcherVars, sessionVars, hostVars
<1>2. ASSUME UNCHANGED <<outQ, rxOpen, sending, procOut, backendOf>>
      PROVE  Arriving(c)' = Arriving(c) /\ Answers(c)' = Answers(c)
  BY <1>1, <1>2 DEF Arriving, Answers
<1>3. CASE WriteFails(b) \/ WatchdogKill(b) \/ ChildExits(b)
  <2>1. /\ UNCHANGED <<outQ, rxOpen, sending, procOut, backendOf, registered>>
        /\ alive[b]' = FALSE /\ task[b]' = "exiting"
    BY <1>T, <1>3
    DEF WriteFails, WatchdogKill, ChildExits, KillAndExit, entryVars,
        channelVars
  <2>2. QED BY <1>1, <1>2, <2>1 DEF Kept, Down
<1>4. CASE BackendCrashes(b)
  <2>1. /\ UNCHANGED <<outQ, rxOpen, sending, procOut, backendOf, registered,
                       task, stdinQ>>
        /\ alive[b]' = FALSE
    BY <1>T, <1>4 DEF BackendCrashes, entryVars, channelVars, taskVars
  <2>2. Unread(c)' = Unread(c)
    BY <1>1, <2>1 DEF Unread
  <2>3. QED BY <1>1, <1>2, <2>1, <2>2 DEF Kept
<1>5. CASE BackendHangs(b) \/ StdoutReadError(b)
  <2>1. UNCHANGED <<outQ, rxOpen, sending, procOut, backendOf, registered,
                    task, stdinQ, procIn, inflight, alive>>
    BY <1>5
    DEF BackendHangs, StdoutReadError, entryVars, channelVars, taskVars,
        procVars
  <2>2. Unread(c)' = Unread(c) /\ Calls(c)' = Calls(c)
    BY <1>1, <1>2, <2>1 DEF Unread, Calls
  <2>3. QED BY <1>1, <1>2, <2>1, <2>2 DEF Kept
<1>6. CASE RecvInput(b)
  <2>1. /\ UNCHANGED <<outQ, rxOpen, sending, procOut, backendOf, registered,
                       procIn, alive>>
        /\ task[b]' = "writing" /\ task[b] = "running"
        /\ stdinQ[b] # <<>> /\ stdinQ[b]' = Tail(stdinQ[b])
        /\ inflight[b]' = <<Head(stdinQ[b])>>
    BY <1>T, <1>6 DEF RecvInput, channelVars, procVars
  <2>2. inflight[b] = <<>> /\ stdinQ[b] \in Seq(Msg)
    BY <1>T, <2>1 DEF OrderInv, SlotInv
  <2>3. /\ Numbers(inflight[b], c) = {}
        /\ Numbers(stdinQ[b], c) = Numbers(<<Head(stdinQ[b])>>, c)
                                     \cup Numbers(Tail(stdinQ[b]), c)
    <3>1. PICK h \in Msg : h = Head(stdinQ[b])
      BY <2>1, <2>2, HeadMsg
    <3>2. /\ Numbers(<<h>>, c) = NumberOf(h, c) /\ Numbers(<<>>, c) = {}
          /\ Numbers(stdinQ[b], c)
               = NumberOf(h, c) \cup Numbers(Tail(stdinQ[b]), c)
      BY <2>1, <2>2, <3>1, QueueNumbers
    <3>3. QED BY <2>2, <3>1, <3>2
  <2>4. Calls(c)' = Calls(c)
    BY <1>1, <1>2, <2>1, <2>3 DEF Calls, Unread
  <2>5. QED BY <1>1, <1>2, <2>1, <2>4 DEF Kept, Down
<1>7. CASE WriteInput(b)
  <2>1. /\ UNCHANGED <<outQ, rxOpen, sending, procOut, backendOf, registered,
                       stdinQ, alive>>
        /\ task[b]' = "running" /\ procIn[b]' = procIn[b] \o inflight[b]
        /\ inflight[b]' = <<>>
    BY <1>T, <1>7 DEF WriteInput, entryVars, channelVars
  <2>2. procIn[b] \in Seq(Msg) /\ inflight[b] \in Seq(Msg)
    BY <1>T
  <2>3. Numbers(procIn[b] \o inflight[b], c)
          = Numbers(procIn[b], c) \cup Numbers(inflight[b], c)
    BY <2>2, ConcatNumbers
  <2>4. Calls(c)' = Calls(c)
    BY <1>1, <1>2, <2>1, <2>3, QueueNumbers DEF Calls, Unread
  <2>5. QED BY <1>1, <1>2, <2>1, <2>4 DEF Kept, Down
<1>8. QED BY <1>3, <1>4, <1>5, <1>6, <1>7

(* A restart: the clients are disconnected, the queue is drained, and the  *)
(* new process is given what was queued since.                             *)
LEMMA GapRestart ==
  ASSUME IInv, OrderInv, ReplyInv, GapInv,
         NEW b \in Backends, NEW c \in Clients,
         backendOf[c] = b, UNCHANGED launcherVars,
         DisconnectClients(b) \/ EndRestartDelay(b) \/ Spawn(b)
  PROVE  NoGap(c)'
<1>0. TypeOK /\ NoGap(c) /\ Complete(Numbers(toServer[c], c), 0, hostSeq[c])
  BY DEF IInv, GapInv
<1>T. /\ task \in [Backends -> TaskStates]
      /\ stdinQ \in [Backends -> Seq(Msg)]
      /\ sending \in [Backends -> Seq(Msg)]
      /\ alive \in [Backends -> BOOLEAN]
      /\ procIn \in [Backends -> Seq(Msg)]
      /\ procOut \in [Backends -> Seq(Msg)]
      /\ lastRecv[c] \in Nat /\ hostSeq[c] \in Nat
  BY <1>0 DEF TypeOK, ManagerTypeOK, TaskTypeOK, ProcTypeOK, HostTypeOK
<1>1. /\ toClient' = toClient /\ hold' = hold /\ toServer' = toServer
      /\ hostSeq' = hostSeq /\ lastRecv' = lastRecv /\ hostOpen' = hostOpen
      /\ UNCHANGED <<outQ, rxOpen, backendOf>>
  BY DEF launcherVars, sessionVars, hostVars, DisconnectClients, Spawn,
         EndRestartDelay, channelVars, entryVars
<1>E. Numbers(<<>>, c) = {}
  BY QueueNumbers
<1>2. CASE DisconnectClients(b)
  <2>1. sending[b]' = <<>> /\ c \notin registered'
    BY <1>T, <1>2 DEF DisconnectClients, Disconnected
  <2>2. ASSUME hostOpen[c] PROVE Unbroken(Arriving(c)', lastRecv[c])
    <3> DEFINE R == Numbers(toClient[c], c) \cup Numbers(hold[c], c)
                      \cup Numbers(outQ[c], c)
               S == IF rxOpen[c] THEN Numbers(sending[b], c) ELSE {}
    <3>1. Unbroken(R \cup S, lastRecv[c])
      BY <1>0, <2>2 DEF NoGap, Arriving
    <3>2. Below(R, S)
      BY NumbersInLine DEF Below
    <3>3. R \in SUBSET Nat /\ S \in SUBSET Nat
      BY <1>0, NumberTypes
    <3>4. Arriving(c)' = R
      BY <1>1, <1>E, <2>1 DEF Arriving
    <3> HIDE DEF R, S
    <3>5. QED BY <1>T, <3>1, <3>2, <3>3, <3>4, UnbrokenPrefix
  <2>3. QED BY <1>1, <2>1, <2>2 DEF NoGap
<1>3. CASE EndRestartDelay(b)
  <2>1. /\ UNCHANGED <<registered, sending, procOut, alive>>
        /\ task[b] \in Down /\ ~alive[b] /\ stdinQ[b]' = <<>>
    BY <1>T, <1>3
    DEF EndRestartDelay, entryVars, procVars, Drained, Down, IInv, DownInv
  <2>2. Arriving(c)' = Arriving(c) /\ Answers(c)' = Answers(c)
    BY <1>1, <2>1 DEF Arriving, Answers
  <2>3. Unread(c)' = Numbers(toServer[c], c)
    BY <1>1, <1>E, <2>1 DEF Unread
  <2>4. ASSUME hostOpen[c]
        PROVE  /\ Unbroken(Arriving(c)', lastRecv[c])
               /\ c \in registered =>
                    /\ Unbroken(Answers(c)', lastRecv[c])
                    /\ lastRecv[c] = 0 /\ Arriving(c)' = {}
                    /\ Complete(Unread(c)', 0, hostSeq[c])
    BY <1>0, <2>1, <2>2, <2>3, <2>4 DEF NoGap
  <2>5. QED BY <1>1, <2>1, <2>4 DEF NoGap
<1>4. CASE Spawn(b)
  <2>1. /\ UNCHANGED <<registered, sending, stdinQ, inflight>>
        /\ task[b] = "spawning" /\ task[b]' = "running"
        /\ procIn[b]' = <<>> /\ procOut[b]' = <<>>
    BY <1>T, <1>4 DEF Spawn, entryVars
  <2>2. inflight[b] = <<>>
    BY <2>1 DEF OrderInv, SlotInv
  <2>3. /\ Arriving(c)' = Arriving(c) /\ Answers(c)' = Arriving(c)
        /\ Calls(c)' = Arriving(c) \cup Unread(c)
    BY <1>1, <1>E, <2>1, <2>2 DEF Arriving, Answers, Calls, Unread
  <2>4. ASSUME hostOpen[c]
        PROVE  /\ Unbroken(Arriving(c)', lastRecv[c])
               /\ c \in registered =>
                    /\ Unbroken(Answers(c)', lastRecv[c])
                    /\ Complete(Calls(c)', lastRecv[c], hostSeq[c])
    BY <1>0, <2>1, <2>3, <2>4 DEF NoGap, Down
  <2>5. QED BY <1>1, <2>1, <2>4 DEF NoGap, Down
<1>5. QED BY <1>2, <1>3, <1>4

(* The router takes a reply off the output; the process answers a call.    *)
LEMMA GapAnswered ==
  ASSUME IInv, OrderInv, HoldInv, ReplyInv, GapInv,
         NEW b \in Backends, NEW c \in Clients,
         backendOf[c] = b, UNCHANGED launcherVars,
         RouteReply(b) \/ BackendHandles(b)
  PROVE  NoGap(c)'
<1>0. TypeOK /\ NoGap(c)
  BY DEF IInv, GapInv
<1>T. /\ outQ \in [Clients -> Seq(Msg)]
      /\ sending \in [Backends -> Seq(Msg)]
      /\ procIn \in [Backends -> Seq(Msg)]
      /\ procOut \in [Backends -> Seq(Msg)]
      /\ lastRecv[c] \in Nat /\ hostSeq[c] \in Nat
  BY <1>0
  DEF TypeOK, ManagerTypeOK, ChannelTypeOK, TaskTypeOK, ProcTypeOK, HostTypeOK
<1>1. /\ toClient' = toClient /\ hold' = hold /\ toServer' = toServer
      /\ hostSeq' = hostSeq /\ lastRecv' = lastRecv /\ hostOpen' = hostOpen
      /\ UNCHANGED <<rxOpen, backendOf, registered, task, stdinQ, inflight,
                     alive>>
  BY DEF launcherVars, sessionVars, hostVars, RouteReply, BackendHandles,
         channelVars, entryVars, taskVars
<1>2. InLine(procOut[b], procIn[b], inflight[b], stdinQ[b])
  BY DEF OrderInv, LineInv
<1>S. Unread(c)' = Unread(c)
  BY <1>1 DEF Unread
<1> DEFINE R == Numbers(toClient[c], c) \cup Numbers(hold[c], c)
                  \cup Numbers(outQ[c], c)
           S == IF rxOpen[c] THEN Numbers(sending[b], c) ELSE {}
           P == Numbers(procOut[b], c)
           W == Numbers(procIn[b], c) \cup Numbers(inflight[b], c) \cup Unread(c)
<1>3. /\ Arriving(c) = R \cup S /\ Answers(c) = R \cup S \cup P
      /\ Calls(c) = R \cup S \cup P \cup W
  BY DEF Arriving, Answers, Calls
<1>4. /\ R \in SUBSET Nat /\ S \in SUBSET Nat /\ P \in SUBSET Nat
      /\ W \in SUBSET Nat
  BY <1>0, NumberTypes DEF Unread
<1>5. Below(R, P) /\ Below(S, P) /\ Below(R, W) /\ Below(S, W) /\ Below(P, W)
  BY NumbersInLine DEF Below, Unread
<1>6. CASE RouteReply(b)
  <2>1. /\ procOut[b] # <<>> /\ procOut[b] \in Seq(Msg) /\ sending[b] = <<>>
        /\ procOut[b]' = Tail(procOut[b]) /\ procIn' = procIn
    BY <1>T, <1>6 DEF RouteReply
  <2>2. PICK h \in Msg : h = Head(procOut[b])
    BY <2>1, HeadMsg
  <2> DEFINE H == NumberOf(h, c)
             T == Numbers(Tail(procOut[b]), c)
  <2>3. /\ P = H \cup T /\ Below(H, T) /\ H \subseteq P
        /\ H \in SUBSET Nat /\ T \in SUBSET Nat
    BY <1>2, <2>1, <2>2, OldestOfQueue DEF InLine
  <2>4. task[b] \notin Down /\ S = {}
    BY <2>1, QueueNumbers DEF IInv, DownInv
  <2>5. CASE h.client = c /\ c \in registered
    <3>1. rxOpen[c]
      BY <2>5 DEF IInv, EntryInv, HoldInv
    <3>2. \/ /\ outQ[c]' = Append(outQ[c], h) /\ sending[b]' = <<>>
          \/ /\ outQ[c]' = outQ[c] /\ sending[b]' = <<h>>
      BY <1>T, <1>6, <2>1, <2>2, <2>5 DEF RouteReply
    <3>3. /\ Numbers(<<>>, c) = {} /\ Numbers(<<h>>, c) = H
          /\ Numbers(Append(outQ[c], h), c) = Numbers(outQ[c], c) \cup H
      <4>1. outQ[c] \in Seq(Msg)
        BY <1>T
      <4>2. Numbers(Append(outQ[c], h), c) = Numbers(outQ[c], c) \cup H
        BY <4>1, AppendNumbers
      <4>3. QED BY <4>2, QueueNumbers
    <3>4. Arriving(c)' = R \cup H
      BY <1>1, <3>1, <3>2, <3>3 DEF Arriving
    <3>5. /\ Answers(c)' = R \cup H \cup T /\ Answers(c)' = Answers(c)
          /\ Calls(c)' = Calls(c)
      BY <1>1, <1>3, <1>S, <2>1, <2>3, <2>4, <3>4 DEF Answers, Calls
    <3>6. ASSUME hostOpen[c]
          PROVE  /\ Unbroken(R \cup H, lastRecv[c])
                 /\ Unbroken(Answers(c), lastRecv[c])
                 /\ alive[b] => Complete(Calls(c), lastRecv[c], hostSeq[c])
      <4>1. /\ Unbroken(Answers(c), lastRecv[c])
            /\ alive[b] => Complete(Calls(c), lastRecv[c], hostSeq[c])
        BY <1>0, <2>5, <3>6 DEF NoGap
      <4>2. Below(R \cup H, T)
        BY <1>5, <2>3 DEF Below
      <4>3. Unbroken((R \cup H) \cup T, lastRecv[c])
        BY <3>5, <4>1
      <4>4. R \cup H \in SUBSET Nat
        BY <1>4, <2>3
      <4> HIDE DEF R, H, T
      <4>5. QED BY <1>T, <2>3, <4>1, <4>2, <4>3, <4>4, UnbrokenPrefix
    <3>7. QED BY <1>1, <2>4, <3>4, <3>5, <3>6 DEF NoGap
  <2>6. CASE h.client # c \/ c \notin registered
    <3>1. /\ outQ[c]' = outQ[c]
          /\ sending[b]' = <<>> \/ (sending[b]' = <<h>> /\ h.client # c)
      BY <1>T, <1>6, <2>1, <2>2, <2>6 DEF RouteReply
    <3>2. /\ Numbers(<<>>, c) = {} /\ Numbers(<<h>>, c) = H
          /\ h.client # c => H = {}
      BY QueueNumbers DEF NumberOf
    <3>3. Arriving(c)' = Arriving(c)
      BY <1>1, <1>3, <2>4, <3>1, <3>2 DEF Arriving
    <3>4. c \in registered => Answers(c)' = Answers(c) /\ Calls(c)' = Calls(c)
      BY <1>1, <1>3, <1>S, <2>1, <2>3, <2>6, <3>2, <3>3 DEF Answers, Calls
    <3>5. Kept(c)
      BY <1>1, <1>S, <3>3, <3>4 DEF Kept
    <3>6. QED BY <1>0, <3>5, KeptNoGap
  <2>7. QED BY <2>5, <2>6
<1>7. CASE BackendHandles(b)
  <2>1. /\ procIn[b] # <<>> /\ procIn[b] \in Seq(Msg) /\ alive[b]
        /\ procIn[b]' = Tail(procIn[b]) /\ UNCHANGED <<outQ, sending>>
        /\ procOut[b]' = Append(procOut[b], Head(procIn[b]))
    BY <1>T, <1>7 DEF BackendHandles, channelVars, taskVars
  <2>2. PICK h \in Msg : h = Head(procIn[b])
    BY <2>1, HeadMsg
  <2> DEFINE H == NumberOf(h, c)
             T == Numbers(Tail(procIn[b]), c) \cup Numbers(inflight[b], c)
                    \cup Unread(c)
  <2>3. /\ Numbers(procIn[b], c) = H \cup Numbers(Tail(procIn[b]), c)
        /\ Below(H, Numbers(Tail(procIn[b]), c))
        /\ H \subseteq Numbers(procIn[b], c)
        /\ H \in SUBSET Nat /\ Numbers(Tail(procIn[b]), c) \in SUBSET Nat
    BY <1>2, <2>1, <2>2, OldestOfQueue DEF InLine
  <2>4. /\ W = H \cup T /\ T \in SUBSET Nat /\ T \subseteq W
        /\ Below(H, T)
    <3>1. Below(Numbers(procIn[b], c), Numbers(inflight[b], c) \cup Unread(c))
      BY NumbersInLine DEF Unread
    <3>2. QED BY <1>4, <2>3, <3>1 DEF Below
  <2>5. task[b] \notin Down
    BY <2>1 DEF IInv, DownInv
  <2>6. /\ Arriving(c)' = Arriving(c)
        /\ Numbers(procOut[b]', c) = P \cup H
    <3>1. procOut[b] \in Seq(Msg)
      BY <1>T
    <3>2. Numbers(Append(procOut[b], h), c) = P \cup H
      BY <3>1, AppendNumbers
    <3>3. QED BY <1>1, <2>1, <2>2, <3>2 DEF Arriving
  <2>7. Answers(c)' = R \cup S \cup P \cup H /\ Calls(c)' = Calls(c)
    <3>1. Answers(c)' = R \cup S \cup P \cup H
      BY <1>1, <1>3, <2>6 DEF Answers
    <3>2. Calls(c)' = Answers(c)' \cup T
      BY <1>1, <1>S, <2>1 DEF Calls
    <3>3. QED BY <1>3, <2>4, <3>1, <3>2
  <2>8. ASSUME hostOpen[c], c \in registered
        PROVE  /\ Unbroken(R \cup S \cup P \cup H, lastRecv[c])
               /\ Complete(Calls(c), lastRecv[c], hostSeq[c])
    <3>1. Complete(Calls(c), lastRecv[c], hostSeq[c])
      BY <1>0, <2>1, <2>8 DEF NoGap
    <3>2. PICK A \in SUBSET Nat : A = R \cup S \cup P \cup H
      BY <1>4, <2>3
    <3>3. Calls(c) = A \cup T
      BY <1>3, <2>4, <3>2
    <3>4. Below(A, T)
      BY <1>5, <2>4, <3>2 DEF Below
    <3> HIDE DEF T
    <3>5. Unbroken(A \cup T, lastRecv[c])
      BY <1>T, <2>4, <3>1, <3>3, CompleteUnbroken
    <3>6. Unbroken(A, lastRecv[c])
      BY <1>T, <2>4, <3>4, <3>5, UnbrokenPrefix
    <3>7. QED BY <3>1, <3>2, <3>6
  <2>9. hostOpen[c] => Unbroken(Arriving(c), lastRecv[c])
    BY <1>0 DEF NoGap
  <2>10. QED BY <1>1, <2>5, <2>6, <2>7, <2>8, <2>9 DEF NoGap
<1>8. QED BY <1>6, <1>7

(* The router's blocked send completes or times out. *)
LEMMA GapSent ==
  ASSUME IInv, OrderInv, ReplyInv, GapInv, NEW b \in Backends,
         NEW c \in Clients, backendOf[c] = b, UNCHANGED launcherVars,
         SendCompletes(b) \/ SendTimesOut(b)
  PROVE  NoGap(c)'
<1>0. TypeOK /\ NoGap(c)
  BY DEF IInv, GapInv
<1>T. /\ outQ \in [Clients -> Seq(Msg)]
      /\ sending \in [Backends -> Seq(Msg)] /\ lastRecv[c] \in Nat
  BY <1>0
  DEF TypeOK, ManagerTypeOK, ChannelTypeOK, TaskTypeOK, HostTypeOK
<1>1. /\ toClient' = toClient /\ hold' = hold /\ toServer' = toServer
      /\ hostSeq' = hostSeq /\ lastRecv' = lastRecv /\ hostOpen' = hostOpen
      /\ UNCHANGED <<rxOpen, backendOf, task, stdinQ, inflight, alive, procIn,
                     procOut>>
  BY DEF launcherVars, sessionVars, hostVars, SendCompletes, SendTimesOut,
         channelVars, entryVars, procVars
<1>2. sending[b] # <<>> /\ sending[b]' = <<>>
  BY <1>T DEF SendCompletes, SendTimesOut
<1>3. PICK h \in Msg : h = Head(sending[b])
  BY <1>T, <1>2, HeadMsg
<1>4. /\ Numbers(sending[b], c) = NumberOf(h, c) /\ Numbers(<<>>, c) = {}
      /\ h.client # c => NumberOf(h, c) = {}
  <2>1. Tail(sending[b]) = <<>>
    <3>1. \A s \in Seq(Msg) : s # <<>> /\ Len(s) <= 1 => Tail(s) = <<>>
      OBVIOUS
    <3>2. QED BY <1>T, <1>2, <3>1 DEF ReplyInv
  <2>2. sending[b] \in Seq(Msg)
    BY <1>T
  <2>3. /\ Numbers(sending[b], c)
             = NumberOf(Head(sending[b]), c) \cup Numbers(Tail(sending[b]), c)
        /\ Numbers(<<>>, c) = {}
    BY <1>2, <2>2, QueueNumbers
  <2>4. QED BY <1>3, <2>1, <2>3 DEF NumberOf
<1>5. ASSUME Arriving(c)' = Arriving(c), registered' \subseteq registered
      PROVE  NoGap(c)'
  <2>1. /\ Answers(c)' = Answers(c) /\ Calls(c)' = Calls(c)
        /\ Unread(c)' = Unread(c)
    BY <1>1, <1>5 DEF Answers, Calls, Unread
  <2>2. Kept(c)
    BY <1>1, <1>5, <2>1 DEF Kept
  <2>3. QED BY <1>0, <2>2, KeptNoGap
<1>6. CASE SendCompletes(b)
  <2>1. registered' = registered
    BY <1>6 DEF SendCompletes, entryVars
  <2>2. CASE h.client = c /\ rxOpen[c]
    <3>1. outQ[c]' = Append(outQ[c], h) /\ outQ[c] \in Seq(Msg)
      BY <1>T, <1>3, <1>6, <2>2 DEF SendCompletes
    <3>2. Numbers(outQ[c]', c) = Numbers(outQ[c], c) \cup NumberOf(h, c)
      BY <3>1, AppendNumbers
    <3>3. Arriving(c)' = Arriving(c)
      BY <1>1, <1>2, <1>4, <2>2, <3>2 DEF Arriving
    <3>4. QED BY <1>5, <2>1, <3>3
  <2>3. CASE ~(h.client = c /\ rxOpen[c])
    <3>1. outQ[c]' = outQ[c]
      BY <1>T, <1>3, <1>6, <2>3 DEF SendCompletes
    <3>2. Arriving(c)' = Arriving(c)
      BY <1>1, <1>2, <1>4, <2>3, <3>1 DEF Arriving
    <3>3. QED BY <1>5, <2>1, <3>2
  <2>4. QED BY <2>2, <2>3
<1>7. CASE SendTimesOut(b)
  <2>1. outQ' = outQ /\ registered' = registered \ {h.client}
    BY <1>3, <1>7 DEF SendTimesOut, ForceDisconnected, channelVars
  <2>2. CASE h.client # c
    <3>1. Arriving(c)' = Arriving(c)
      BY <1>1, <1>2, <1>4, <2>1, <2>2 DEF Arriving
    <3>2. QED BY <1>5, <2>1, <3>1
  <2>3. CASE h.client = c
    <3> DEFINE R == Numbers(toClient[c], c) \cup Numbers(hold[c], c)
                      \cup Numbers(outQ[c], c)
               S == IF rxOpen[c] THEN Numbers(sending[b], c) ELSE {}
    <3>1. hostOpen[c] => Unbroken(R \cup S, lastRecv[c])
      BY <1>0 DEF NoGap, Arriving
    <3>2. Below(R, S)
      BY NumbersInLine DEF Below
    <3>3. R \in SUBSET Nat /\ S \in SUBSET Nat
      BY <1>0, NumberTypes
    <3>4. Arriving(c)' = R
      BY <1>1, <1>2, <1>4, <2>1 DEF Arriving
    <3>5. c \notin registered'
      BY <2>1, <2>3
    <3> HIDE DEF R, S
    <3>6. hostOpen[c] => Unbroken(Arriving(c)', lastRecv[c])
      BY <1>T, <3>1, <3>2, <3>3, <3>4, UnbrokenPrefix
    <3>7. QED BY <1>1, <3>5, <3>6 DEF NoGap
  <2>4. QED BY <2>2, <2>3
<1>8. QED BY <1>6, <1>7

(* Every step of a backend. *)
LEMMA GapBackendStep ==
  ASSUME IInv, OrderInv, HoldInv, ReplyInv, GapInv,
         NEW b \in Backends, BackendStep(b)
  PROVE  GapInv'
<1>1. UNCHANGED launcherVars
  BY BackendLocal
<1>2. ASSUME NEW c \in Clients PROVE NoGap(c)'
  <2>1. CASE backendOf[c] # b
    BY <2>1, GapElsewhere, KeptNoGap DEF GapInv
  <2>2. CASE backendOf[c] = b
    <3>1. CASE \/ WriteFails(b) \/ WatchdogKill(b) \/ ChildExits(b)
               \/ BackendCrashes(b) \/ BackendHangs(b) \/ StdoutReadError(b)
               \/ RecvInput(b) \/ WriteInput(b)
      <4>1. NoGap(c)
        BY DEF GapInv
      <4>2. Kept(c)
        BY <1>1, <2>2, <3>1, GapSettled
      <4>3. QED BY <4>1, <4>2, KeptNoGap
    <3>2. CASE DisconnectClients(b) \/ EndRestartDelay(b) \/ Spawn(b)
      BY <1>1, <2>2, <3>2, GapRestart
    <3>3. CASE RouteReply(b) \/ BackendHandles(b)
      BY <1>1, <2>2, <3>3, GapAnswered
    <3>4. CASE SendCompletes(b) \/ SendTimesOut(b)
      BY <1>1, <2>2, <3>4, GapSent
    <3>5. QED
      BY <3>1, <3>2, <3>3, <3>4 DEF BackendStep, RestartAfterDelay
  <2>3. QED BY <2>1, <2>2
<1>3. \A c \in Clients : Complete(Numbers(toServer[c], c), 0, hostSeq[c])'
  BY <1>1 DEF GapInv, launcherVars, hostVars
<1>4. QED BY <1>2, <1>3 DEF GapInv

(* A step of one connection, or of its host, leaves the others alone. *)
LEMMA GapOthers ==
  ASSUME IInv, NEW d \in Clients, HostStep(d) \/ AcceptStep(d) \/ SessionStep(d),
         NEW c \in Clients, c # d
  PROVE  /\ Kept(c) /\ hostSeq[c]' = hostSeq[c] /\ toServer[c]' = toServer[c]
<1>0. TypeOK
  BY DEF IInv
<1>T. /\ registered \subseteq Clients
      /\ backendOf \in [Clients -> Backends \cup {NoBackend}]
      /\ outQ \in [Clients -> Seq(Msg)] /\ rxOpen \in [Clients -> BOOLEAN]
      /\ hold \in [Clients -> Seq(Msg)] /\ toClient \in [Clients -> Seq(Msg)]
      /\ toServer \in [Clients -> Seq(Msg)] /\ hostOpen \in [Clients -> BOOLEAN]
      /\ lastRecv \in [Clients -> Nat] /\ hostSeq \in [Clients -> Nat]
      /\ task \in [Backends -> TaskStates]
      /\ stdinQ \in [Backends -> Seq(Msg)]
  BY <1>0
  DEF TypeOK, ManagerTypeOK, EntryTypeOK, ChannelTypeOK, TaskTypeOK,
      SessionTypeOK, HostTypeOK
<1>1. /\ backendOf[c]' = backendOf[c] /\ rxOpen[c]' = rxOpen[c]
      /\ outQ[c]' = outQ[c] /\ hold[c]' = hold[c]
      /\ toClient[c]' = toClient[c] /\ toServer[c]' = toServer[c]
      /\ hostOpen[c]' = hostOpen[c] /\ lastRecv[c]' = lastRecv[c]
      /\ hostSeq[c]' = hostSeq[c] /\ (c \in registered' => c \in registered)
      /\ UNCHANGED <<sending, procOut, procIn, inflight, alive>>
  <2>1. CASE HostStep(d)
    BY <1>T, <2>1
    DEF HostStep, HostConnect, HostSend, HostRecv, HostClose, managerVars,
        entryVars, channelVars, taskVars, procVars, sessionVars
  <2>2. CASE AcceptHandshake(d) \/ AcceptFails(d) \/ AcceptGetInput(d)
    BY <1>T, <2>2
    DEF AcceptHandshake, AcceptFails, AcceptGetInput, managerVars, entryVars,
        channelVars, taskVars, procVars, hostVars
  <2>3. CASE AcceptRegister(d)
    BY <1>T, <2>3
    DEF AcceptRegister, RegisterClient, taskVars, procVars, hostVars
  <2>4. CASE AcceptSendHandshake(d) \/ SendClientLine(d)
    BY <1>T, <2>4
    DEF AcceptSendHandshake, SendClientLine, SendLine, entryVars, channelVars,
        procVars
  <2>5. CASE ReadClient(d) \/ ReadEof(d) \/ RecvClosed(d) \/ WriteReplyFails(d)
    BY <1>T, <2>5
    DEF ReadClient, ReadEof, RecvClosed, WriteReplyFails, managerVars,
        entryVars, channelVars, taskVars, procVars, hostVars
  <2>6. CASE RecvReply(d) \/ WriteReply(d)
    BY <1>T, <2>6
    DEF RecvReply, WriteReply, managerVars, entryVars, channelVars, taskVars,
        procVars, hostVars
  <2>7. CASE Unregister(d) \/ SendClose(d)
    BY <1>T, <2>7
    DEF Unregister, WithoutEntry, SendClose, entryVars, channelVars, taskVars,
        procVars, hostVars
  <2>8. QED
    BY <2>1, <2>2, <2>3, <2>4, <2>5, <2>6, <2>7 DEF AcceptStep, SessionStep
<1>2. ASSUME NEW b \in Backends
      PROVE  /\ Numbers(stdinQ[b]', c) = Numbers(stdinQ[b], c)
             /\ task[b]' \in Down => task[b] \in Down
  <2>1. task[b]' \in Down => task[b] \in Down
    <3>1. CASE AcceptGetInput(d)
      BY <1>T, <3>1 DEF AcceptGetInput, GetBackendInput, Down
    <3>2. CASE task' = task
      BY <3>2
    <3>3. QED
      BY <3>1, <3>2
      DEF HostStep, HostConnect, HostSend, HostRecv, HostClose, AcceptStep,
          AcceptHandshake, AcceptFails, AcceptRegister, AcceptSendHandshake,
          SessionStep, ReadClient, SendClientLine, ReadEof, RecvReply,
          WriteReply, WriteReplyFails, RecvClosed, Unregister, SendClose,
          SendLine, managerVars, taskVars
  <2>2. CASE stdinQ' = stdinQ
    BY <2>1, <2>2
  <2>3. ASSUME NEW m \in Msg, m.client = d,
               stdinQ' = [stdinQ EXCEPT ![backendOf[d]] = Append(@, m)]
        PROVE  Numbers(stdinQ[b]', c) = Numbers(stdinQ[b], c)
    <3>1. stdinQ[b]' = stdinQ[b] \/ stdinQ[b]' = Append(stdinQ[b], m)
      BY <1>T, <2>3
    <3>2. Numbers(Append(stdinQ[b], m), c)
            = Numbers(stdinQ[b], c) \cup NumberOf(m, c)
      BY <1>T, AppendNumbers
    <3>3. NumberOf(m, c) = {}
      BY <2>3 DEF NumberOf
    <3>4. QED BY <3>1, <3>2, <3>3
  <2>4. CASE AcceptSendHandshake(d) \/ SendClientLine(d)
    <3>1. /\ toServer[d] # <<>> /\ toServer[d] \in Seq(Msg)
          /\ stdinQ' = [stdinQ EXCEPT ![backendOf[d]]
                          = Append(@, Head(toServer[d]))]
      BY <1>T, <2>4 DEF AcceptSendHandshake, SendClientLine, SendLine, Enqueue
    <3>2. PICK m \in Msg : m = Head(toServer[d])
      BY <3>1, TailElems
    <3>3. m \in ToSet(toServer[d])
      BY <3>1, <3>2, TailElems
    <3>4. m.client = d
      BY <3>3 DEF IInv, ChannelInv
    <3>5. QED BY <2>1, <2>3, <3>1, <3>2, <3>4
  <2>5. CASE SendClose(d)
    <3>1. closeSeq[d] \in Nat
      BY <1>0 DEF TypeOK, SessionTypeOK
    <3>2. PICK m \in Msg :
            m = [client |-> d, kind |-> "close", seq |-> closeSeq[d]]
      BY <3>1 DEF Msg, Kinds
    <3>3. stdinQ' = [stdinQ EXCEPT ![backendOf[d]] = Append(@, m)]
      BY <2>5, <3>2 DEF SendClose, Enqueue
    <3>4. m.client = d
      BY <3>2
    <3>5. QED BY <2>1, <2>3, <3>3, <3>4
  <2>6. QED
    BY <2>1, <2>2, <2>4, <2>5
    DEF HostStep, HostConnect, HostSend, HostRecv, HostClose, AcceptStep,
        AcceptHandshake, AcceptFails, AcceptGetInput, AcceptRegister,
        SessionStep, ReadClient, ReadEof, RecvReply, WriteReply,
        WriteReplyFails, RecvClosed, Unregister, managerVars, taskVars
<1>3. backendOf[c] \in Backends =>
        /\ Arriving(c)' = Arriving(c) /\ Answers(c)' = Answers(c)
        /\ Calls(c)' = Calls(c) /\ Unread(c)' = Unread(c)
        /\ task[backendOf[c]]' \in Down => task[backendOf[c]] \in Down
  <2>1. ASSUME NEW b \in Backends, backendOf[c] = b
        PROVE  /\ Arriving(c)' = Arriving(c) /\ Answers(c)' = Answers(c)
               /\ Calls(c)' = Calls(c) /\ Unread(c)' = Unread(c)
    BY <1>1, <1>2, <2>1 DEF Arriving, Answers, Calls, Unread
  <2>2. ASSUME NEW b \in Backends, backendOf[c] = b
        PROVE  task[backendOf[c]]' \in Down => task[backendOf[c]] \in Down
    BY <1>1, <1>2, <2>2
  <2>3. QED BY <2>1, <2>2
<1>4. QED BY <1>1, <1>3 DEF Kept

(* A connection that has not been registered has nothing under way but     *)
(* what its host has written to the pipe.                                  *)
LEMMA FreshNumbers ==
  ASSUME IInv, HoldInv, NEW c \in Clients, sess[c] \in Fresh,
         NEW b \in Backends
  PROVE  /\ c \notin registered /\ lastRecv[c] = 0
         /\ Numbers(toClient[c], c) = {} /\ Numbers(hold[c], c) = {}
         /\ Numbers(outQ[c], c) = {} /\ Numbers(sending[b], c) = {}
         /\ Numbers(procOut[b], c) = {} /\ Numbers(procIn[b], c) = {}
         /\ Numbers(inflight[b], c) = {} /\ Numbers(stdinQ[b], c) = {}
<1>1. /\ c \notin registered /\ lastRecv[c] = 0
      /\ toClient[c] = <<>> /\ hold[c] = <<>> /\ outQ[c] = <<>>
      /\ \A m \in Waiting(b) \cup Answered(b) : m.client # c
  BY DEF IInv, EntryInv, Live, Fresh, FreshInv, HoldInv
<1>2. /\ ToSet(sending[b]) \subseteq Waiting(b) \cup Answered(b)
      /\ ToSet(procOut[b]) \subseteq Waiting(b) \cup Answered(b)
      /\ ToSet(procIn[b]) \subseteq Waiting(b) \cup Answered(b)
      /\ ToSet(inflight[b]) \subseteq Waiting(b) \cup Answered(b)
      /\ ToSet(stdinQ[b]) \subseteq Waiting(b) \cup Answered(b)
  BY DEF Answered, Waiting
<1>3. ASSUME NEW s, ToSet(s) \subseteq Waiting(b) \cup Answered(b)
      PROVE  Numbers(s, c) = {}
  BY <1>1, <1>3 DEF Numbers
<1>4. QED BY <1>1, <1>2, <1>3, QueueNumbers

(* A connection is opened, resolved and registered: nothing of it is under *)
(* way but what is in its pipe.                                            *)
LEMMA GapOpened ==
  ASSUME IInv, HoldInv, GapInv, NEW c \in Clients,
         HostConnect(c) \/ AcceptHandshake(c) \/ AcceptRegister(c)
  PROVE  NoGap(c)'
<1>0. TypeOK
  BY DEF IInv
<1>T. /\ registered \subseteq Clients
      /\ backendOf \in [Clients -> Backends \cup {NoBackend}]
      /\ outQ \in [Clients -> Seq(Msg)] /\ rxOpen \in [Clients -> BOOLEAN]
      /\ hostSeq[c] \in Nat
  BY <1>0
  DEF TypeOK, ManagerTypeOK, EntryTypeOK, ChannelTypeOK, HostTypeOK
<1>1. /\ sess[c] \in Fresh
      /\ UNCHANGED <<toClient, hold, toServer, lastRecv, hostSeq, sending,
                     procOut, procIn, inflight, stdinQ>>
  BY DEF HostConnect, AcceptHandshake, AcceptRegister, SessAt, Fresh,
         managerVars, taskVars, procVars, hostVars
<1>2. Complete(Numbers(toServer[c], c), 0, hostSeq[c])
  BY DEF GapInv
<1> SUFFICES ASSUME NEW b \in Backends, backendOf[c]' = b
             PROVE  NoGap(c)'
  BY DEF NoGap
<1>3. /\ c \notin registered /\ lastRecv[c] = 0
      /\ Numbers(toClient[c], c) = {} /\ Numbers(hold[c], c) = {}
      /\ Numbers(outQ[c], c) = {} /\ Numbers(sending[b], c) = {}
      /\ Numbers(procOut[b], c) = {} /\ Numbers(procIn[b], c) = {}
      /\ Numbers(inflight[b], c) = {} /\ Numbers(stdinQ[b], c) = {}
  BY <1>1, FreshNumbers
<1>4. Numbers(outQ[c]', c) = {}
  <2>1. outQ[c]' = outQ[c] \/ outQ[c]' = <<>>
    BY <1>T
    DEF HostConnect, AcceptHandshake, AcceptRegister, RegisterClient,
        managerVars, channelVars
  <2>2. QED BY <1>3, <2>1, QueueNumbers
<1>5. /\ Arriving(c)' = {} /\ Answers(c)' = {}
      /\ Unread(c)' = Numbers(toServer[c], c)
      /\ Calls(c)' = Numbers(toServer[c], c)
  <2>1. Arriving(c)' = {}
    BY <1>1, <1>3, <1>4 DEF Arriving
  <2>2. Answers(c)' = {} /\ Unread(c)' = Numbers(toServer[c], c)
    BY <1>1, <1>3, <2>1 DEF Answers, Unread
  <2>3. QED BY <1>1, <1>3, <2>1, <2>2 DEF Calls
<1>6. lastRecv[c]' = 0 /\ hostSeq[c]' = hostSeq[c]
  BY <1>1, <1>3
<1>7. QED BY <1>2, <1>5, <1>6, NoNumbers DEF NoGap

(* The session moves a line or a reply on, or goes to its next state. *)
LEMMA GapServed ==
  ASSUME IInv, OrderInv, HoldInv, GapInv, NEW c \in Clients,
         \/ AcceptFails(c) \/ AcceptGetInput(c) \/ AcceptSendHandshake(c)
         \/ ReadClient(c) \/ SendClientLine(c) \/ ReadEof(c) \/ RecvReply(c)
         \/ WriteReply(c) \/ RecvClosed(c) \/ Unregister(c)
  PROVE  NoGap(c)' /\ Complete(Numbers(toServer[c], c), 0, hostSeq[c])'
<1>0. TypeOK /\ NoGap(c)
  BY DEF IInv, GapInv
<1>T. /\ outQ[c] \in Seq(Msg) /\ hold[c] \in Seq(Msg)
      /\ toClient[c] \in Seq(Msg) /\ toServer[c] \in Seq(Msg)
      /\ outQ \in [Clients -> Seq(Msg)] /\ hold \in [Clients -> Seq(Msg)]
      /\ toClient \in [Clients -> Seq(Msg)]
      /\ toServer \in [Clients -> Seq(Msg)]
      /\ task \in [Backends -> TaskStates]
      /\ stdinQ \in [Backends -> Seq(Msg)]
      /\ hostSeq[c] \in Nat
  BY <1>0
  DEF TypeOK, ManagerTypeOK, ChannelTypeOK, TaskTypeOK, SessionTypeOK,
      HostTypeOK
<1>1. Complete(Numbers(toServer[c], c), 0, hostSeq[c])
  BY DEF GapInv
<1>2. ASSUME UNCHANGED <<backendOf, rxOpen, sending, procOut, procIn, inflight,
                         alive, lastRecv, hostSeq, hostOpen>>,
             registered' \subseteq registered,
             Numbers(toClient[c], c)' \cup Numbers(hold[c], c)'
               \cup Numbers(outQ[c], c)'
                 = Numbers(toClient[c], c) \cup Numbers(hold[c], c)
                     \cup Numbers(outQ[c], c),
             \A b \in Backends :
               backendOf[c] = b =>
                 /\ task[b]' \in Down => task[b] \in Down
                 /\ Numbers(stdinQ[b], c)' \cup Numbers(toServer[c], c)'
                      = Numbers(stdinQ[b], c) \cup Numbers(toServer[c], c)
      PROVE  NoGap(c)'
  <2>1. CASE backendOf[c] \notin Backends
    BY <1>2, <2>1 DEF NoGap
  <2>2. ASSUME NEW b \in Backends, backendOf[c] = b PROVE NoGap(c)'
    <3>1. Unread(c)' = Unread(c)
      BY <1>2, <2>2 DEF Unread
    <3>2. Arriving(c)' = Arriving(c)
      BY <1>2, <2>2 DEF Arriving
    <3>3. Answers(c)' = Answers(c)
      BY <1>2, <2>2, <3>2 DEF Answers
    <3>4. Calls(c)' = Calls(c)
      BY <1>2, <2>2, <3>1, <3>3 DEF Calls
    <3>5. Kept(c)
      BY <1>2, <2>2, <3>1, <3>2, <3>3, <3>4 DEF Kept
    <3>6. QED BY <1>0, <3>5, KeptNoGap
  <2>3. QED BY <2>1, <2>2
<1>3. CASE \/ AcceptFails(c) \/ AcceptGetInput(c) \/ ReadClient(c)
           \/ ReadEof(c) \/ RecvClosed(c) \/ Unregister(c)
  <2>1. /\ UNCHANGED <<backendOf, rxOpen, sending, procOut, procIn, inflight,
                       alive, lastRecv, hostSeq, hostOpen, toClient, hold,
                       outQ, stdinQ, toServer>>
        /\ registered' \subseteq registered
    BY <1>3
    DEF AcceptFails, AcceptGetInput, ReadClient, ReadEof, RecvClosed,
        Unregister, WithoutEntry, managerVars, entryVars, channelVars,
        taskVars, procVars, hostVars
  <2>2. \A b \in Backends : task[b]' \in Down => task[b] \in Down
    BY <1>T, <1>3
    DEF AcceptFails, AcceptGetInput, GetBackendInput, ReadClient, ReadEof,
        RecvClosed, Unregister, managerVars, taskVars, Down
  <2>3. QED BY <1>1, <1>2, <2>1, <2>2
<1>4. CASE RecvReply(c)
  <2>1. /\ UNCHANGED <<backendOf, rxOpen, sending, procOut, procIn, inflight,
                       alive, lastRecv, hostSeq, hostOpen, toClient, task,
                       stdinQ, toServer, registered>>
        /\ outQ[c] # <<>> /\ outQ[c]' = Tail(outQ[c])
        /\ hold[c]' = <<Head(outQ[c])>> /\ hold[c] = <<>>
    BY <1>T, <1>4
    DEF RecvReply, SessAt, HoldInv, entryVars, taskVars, procVars, hostVars
  <2>2. PICK h \in Msg : h = Head(outQ[c])
    BY <1>T, <2>1, HeadMsg
  <2>3. /\ Numbers(outQ[c], c) = NumberOf(h, c) \cup Numbers(Tail(outQ[c]), c)
        /\ Numbers(<<h>>, c) = NumberOf(h, c) /\ Numbers(<<>>, c) = {}
    BY <1>T, <2>1, <2>2, QueueNumbers
  <2>4. QED BY <1>1, <1>2, <2>1, <2>2, <2>3
<1>5. CASE WriteReply(c)
  <2>1. /\ UNCHANGED <<backendOf, rxOpen, sending, procOut, procIn, inflight,
                       alive, lastRecv, hostSeq, hostOpen, outQ, task,
                       stdinQ, toServer, registered>>
        /\ toClient[c]' = toClient[c] \o hold[c] /\ hold[c]' = <<>>
    BY <1>T, <1>5
    DEF WriteReply, managerVars, entryVars, channelVars, taskVars, procVars
  <2>2. /\ Numbers(toClient[c] \o hold[c], c)
             = Numbers(toClient[c], c) \cup Numbers(hold[c], c)
        /\ Numbers(<<>>, c) = {}
    <3>1. toClient[c] \in Seq(Msg) /\ hold[c] \in Seq(Msg)
      BY <1>T
    <3>2. Numbers(toClient[c] \o hold[c], c)
            = Numbers(toClient[c], c) \cup Numbers(hold[c], c)
      BY <3>1, ConcatNumbers
    <3>3. QED BY <3>2, QueueNumbers
  <2>3. QED BY <1>1, <1>2, <2>1, <2>2
<1>6. CASE AcceptSendHandshake(c) \/ SendClientLine(c)
  <2>1. /\ UNCHANGED <<backendOf, rxOpen, sending, procOut, procIn, inflight,
                       alive, lastRecv, hostSeq, hostOpen, toClient, hold,
                       outQ, task, registered>>
        /\ toServer[c] # <<>> /\ toServer[c]' = Tail(toServer[c])
        /\ \A b \in Backends : backendOf[c] = b =>
             stdinQ[b]' = Append(stdinQ[b], Head(toServer[c]))
    BY <1>T, <1>6
    DEF AcceptSendHandshake, SendClientLine, SendLine, Enqueue, entryVars,
        channelVars, procVars
  <2>2. PICK h \in Msg : h = Head(toServer[c])
    BY <1>T, <2>1, HeadMsg
  <2>3. h \in ToSet(toServer[c])
    BY <1>T, <2>1, <2>2, TailElems
  <2>4. h.client = c /\ h.kind # "close" /\ h.seq \in Nat
    BY <2>3 DEF IInv, ChannelInv, Msg
  <2>5. /\ Numbers(toServer[c], c) = {h.seq} \cup Numbers(Tail(toServer[c]), c)
        /\ Below({h.seq}, Numbers(Tail(toServer[c]), c))
        /\ Numbers(Tail(toServer[c]), c) \in SUBSET Nat
        /\ NumberOf(h, c) = {h.seq}
    <3>1. Ordered(toServer[c])
      BY DEF OrderInv, SentInv
    <3>2. /\ Numbers(toServer[c], c)
               = NumberOf(h, c) \cup Numbers(Tail(toServer[c]), c)
          /\ Below(NumberOf(h, c), Numbers(Tail(toServer[c]), c))
          /\ Numbers(Tail(toServer[c]), c) \in SUBSET Nat
      BY <1>T, <2>1, <2>2, <3>1, OldestOfQueue
    <3>3. NumberOf(h, c) = {h.seq}
      BY <2>4 DEF NumberOf
    <3>4. QED BY <3>2, <3>3
  <2>6. ASSUME NEW b \in Backends, backendOf[c] = b
        PROVE  Numbers(stdinQ[b], c)' = Numbers(stdinQ[b], c) \cup {h.seq}
    <3>1. Numbers(Append(stdinQ[b], h), c)
            = Numbers(stdinQ[b], c) \cup NumberOf(h, c)
      BY <1>T, AppendNumbers
    <3>2. QED BY <2>1, <2>2, <2>5, <2>6, <3>1
  <2>7. Complete(Numbers(Tail(toServer[c]), c), 0, hostSeq[c])
    <3>1. PICK N \in SUBSET Nat : N = Numbers(Tail(toServer[c]), c)
      BY <2>5
    <3>2. Complete({h.seq} \cup N, 0, hostSeq[c]) /\ Below({h.seq}, N)
      BY <1>1, <2>5, <3>1
    <3>3. Complete(N, 0, hostSeq[c])
      BY <1>T, <2>4, <3>2, OldestTaken
    <3>4. QED BY <3>1, <3>3
  <2>8. NoGap(c)'
    BY <1>2, <2>1, <2>5, <2>6
  <2>9. QED BY <2>1, <2>7, <2>8
<1>7. QED BY <1>3, <1>4, <1>5, <1>6

(* The session ends: its channel is dropped with the replies in it. *)
LEMMA GapClosed ==
  ASSUME IInv, OrderInv, ReplyInv, GapInv, NEW c \in Clients,
         SendClose(c) \/ WriteReplyFails(c) \/ HostClose(c)
  PROVE  NoGap(c)' /\ Complete(Numbers(toServer[c], c), 0, hostSeq[c])'
<1>0. TypeOK /\ NoGap(c) /\ Complete(Numbers(toServer[c], c), 0, hostSeq[c])
  BY DEF IInv, GapInv
<1>T. /\ outQ \in [Clients -> Seq(Msg)] /\ rxOpen \in [Clients -> BOOLEAN]
      /\ hostOpen \in [Clients -> BOOLEAN] /\ lastRecv[c] \in Nat
  BY <1>0 DEF TypeOK, ManagerTypeOK, ChannelTypeOK, HostTypeOK
<1>1. UNCHANGED <<toServer, hostSeq>>
  BY DEF SendClose, WriteReplyFails, HostClose, hostVars
<1>2. CASE WriteReplyFails(c) \/ HostClose(c)
  <2>1. hostOpen[c]' = FALSE
    BY <1>T, <1>2 DEF WriteReplyFails, HostClose, hostVars
  <2>2. QED BY <1>0, <1>1, <2>1 DEF NoGap
<1>3. CASE SendClose(c)
  <2>1. /\ UNCHANGED <<backendOf, registered, toClient, hold, hostOpen,
                       lastRecv>>
        /\ outQ[c]' = <<>> /\ ~rxOpen[c]' /\ c \notin registered
    BY <1>T, <1>3
    DEF SendClose, SessAt, entryVars, hostVars, IInv, EntryInv, Live
  <2>2. ASSUME NEW b \in Backends, backendOf[c] = b, hostOpen[c]
        PROVE  Unbroken(Arriving(c)', lastRecv[c])
    <3> DEFINE R == Numbers(toClient[c], c) \cup Numbers(hold[c], c)
               S == Numbers(outQ[c], c)
                      \cup IF rxOpen[c] THEN Numbers(sending[b], c) ELSE {}
    <3>1. R \in SUBSET Nat /\ S \in SUBSET Nat
      BY <1>0, NumberTypes
    <3>2. Below(R, S)
      BY NumbersInLine DEF Below
    <3>3. Unbroken(R \cup S, lastRecv[c])
      <4>1. Arriving(c) = R \cup S
        BY <2>2 DEF Arriving
      <4>2. QED BY <1>0, <2>2, <4>1 DEF NoGap
    <3>4. Numbers(<<>>, c) = {}
      BY QueueNumbers
    <3>5. Arriving(c)' = R
      BY <2>1, <3>4 DEF Arriving
    <3> HIDE DEF R, S
    <3>6. QED BY <1>T, <3>1, <3>2, <3>3, <3>5, UnbrokenPrefix
  <2>3. QED BY <1>0, <1>1, <2>1, <2>2 DEF NoGap
<1>4. QED BY <1>2, <1>3

(* The host writes its next call. *)
LEMMA GapSend ==
  ASSUME IInv, HoldInv, GapInv, NEW c \in Clients, HostSend(c)
  PROVE  NoGap(c)' /\ Complete(Numbers(toServer[c], c), 0, hostSeq[c])'
<1>0. TypeOK /\ NoGap(c) /\ Complete(Numbers(toServer[c], c), 0, hostSeq[c])
  BY DEF IInv, GapInv
<1>T. /\ toServer \in [Clients -> Seq(Msg)] /\ hostSeq \in [Clients -> Nat]
      /\ lastRecv[c] \in Nat /\ hostSeq[c] \in Nat
  BY <1>0 DEF TypeOK, HostTypeOK
<1>1. lastRecv[c] <= hostSeq[c]
  BY DEF HoldInv
<1>2. UNCHANGED <<registered, backendOf, outQ, rxOpen, task, alive, sending,
                  procOut, procIn, inflight, stdinQ, hold, toClient, hostOpen,
                  lastRecv>>
  BY DEF HostSend, managerVars, entryVars, channelVars, taskVars, procVars,
         sessionVars
<1>3. PICK n \in Nat : n = hostSeq[c] + 1
  BY <1>T
<1>4. PICK m \in Msg : /\ m.client = c /\ m.kind # "close" /\ m.seq = n
                       /\ toServer[c]' = Append(toServer[c], m)
  <2>1. PICK k \in {"init", "req"} : k = IF n = 1 THEN "init" ELSE "req"
    OBVIOUS
  <2>2. PICK m \in Msg : m = [client |-> c, kind |-> k, seq |-> n]
    BY DEF Msg, Kinds
  <2>3. toServer' = [toServer EXCEPT ![c] = Append(@, m)]
    BY <1>3, <2>1, <2>2 DEF HostSend
  <2>4. QED BY <1>T, <2>2, <2>3
<1>5. hostSeq[c]' = hostSeq[c] + 1
  BY <1>T DEF HostSend
<1>6. Numbers(toServer[c], c)' = Numbers(toServer[c], c) \cup {hostSeq[c] + 1}
  <2>1. Numbers(Append(toServer[c], m), c)
          = Numbers(toServer[c], c) \cup NumberOf(m, c)
    BY <1>T, AppendNumbers
  <2>2. NumberOf(m, c) = {hostSeq[c] + 1}
    BY <1>3, <1>4 DEF NumberOf
  <2>3. QED BY <1>4, <2>1, <2>2
<1>7. Numbers(toServer[c], c) \in SUBSET Nat
  BY <1>T, QueueNumbers
<1>8. Complete(Numbers(toServer[c], c), 0, hostSeq[c])'
  BY <1>0, <1>T, <1>5, <1>6, <1>7, NextAdded
<1>9. ASSUME NEW b \in Backends, backendOf[c] = b, hostOpen[c]
      PROVE  NoGap(c)'
  <2>1. Arriving(c)' = Arriving(c)
    BY <1>2 DEF Arriving
  <2>2. Answers(c)' = Answers(c)
    BY <1>2, <2>1 DEF Answers
  <2>3. Unread(c)' = Unread(c) \cup {hostSeq[c] + 1}
    BY <1>2, <1>6 DEF Unread
  <2>4. Calls(c)' = Calls(c) \cup {hostSeq[c] + 1}
    BY <1>2, <2>2, <2>3 DEF Calls
  <2>5. Calls(c) \in SUBSET Nat /\ Unread(c) \in SUBSET Nat
    BY <1>0, <1>9, NumberTypes DEF Calls, Answers, Arriving, Unread
  <2>6. Complete(Calls(c), lastRecv[c], hostSeq[c]) =>
          Complete(Calls(c)', lastRecv[c], hostSeq[c] + 1)
    BY <1>T, <1>1, <2>4, <2>5, NextAdded
  <2>7. Complete(Unread(c), 0, hostSeq[c]) =>
          Complete(Unread(c)', 0, hostSeq[c] + 1)
    BY <1>T, <2>3, <2>5, NextAdded
  <2>8. QED BY <1>0, <1>2, <1>5, <1>9, <2>1, <2>2, <2>6, <2>7 DEF NoGap
<1>10. QED BY <1>2, <1>8, <1>9 DEF NoGap

(* The host takes a reply: it is the oldest of all that is under way. *)
LEMMA GapReceived ==
  ASSUME IInv, OrderInv, ReplyInv, GapInv, NEW c \in Clients, HostRecv(c)
  PROVE  NoGap(c)' /\ Complete(Numbers(toServer[c], c), 0, hostSeq[c])'
<1>0. TypeOK /\ NoGap(c) /\ Complete(Numbers(toServer[c], c), 0, hostSeq[c])
  BY DEF IInv, GapInv
<1>T. /\ toClient \in [Clients -> Seq(Msg)] /\ lastRecv \in [Clients -> Nat]
      /\ lastRecv[c] \in Nat /\ hostSeq[c] \in Nat
  BY <1>0 DEF TypeOK, HostTypeOK
<1>1. UNCHANGED <<registered, backendOf, outQ, rxOpen, task, alive, sending,
                  procOut, procIn, inflight, stdinQ, hold, toServer, hostOpen,
                  hostSeq>>
  BY DEF HostRecv, managerVars, entryVars, channelVars, taskVars, procVars,
         sessionVars
<1>2. toClient[c] # <<>> /\ toClient[c] \in Seq(Msg)
  BY <1>T DEF HostRecv
<1>3. PICK h \in Msg : h = Head(toClient[c])
  BY <1>2, HeadMsg
<1>4. h.client = c /\ h.kind # "close" /\ h.seq \in Nat
  <2>1. h \in Replies(c)
    BY <1>2, <1>3, TailElems DEF Replies
  <2>2. QED BY <2>1 DEF ReplyInv, Msg
<1>5. toClient[c]' = Tail(toClient[c]) /\ lastRecv[c]' = h.seq
  BY <1>T, <1>3 DEF HostRecv
<1>6. /\ Numbers(toClient[c], c) = {h.seq} \cup Numbers(Tail(toClient[c]), c)
      /\ Below({h.seq}, Numbers(Tail(toClient[c]), c))
      /\ Numbers(Tail(toClient[c]), c) \in SUBSET Nat
  <2>1. Ordered(toClient[c])
    BY DEF ReplyInv, InLine
  <2>2. /\ Numbers(toClient[c], c)
             = NumberOf(h, c) \cup Numbers(Tail(toClient[c]), c)
        /\ Below(NumberOf(h, c), Numbers(Tail(toClient[c]), c))
        /\ Numbers(Tail(toClient[c]), c) \in SUBSET Nat
    BY <1>2, <1>3, <2>1, OldestOfQueue
  <2>3. NumberOf(h, c) = {h.seq}
    BY <1>4 DEF NumberOf
  <2>4. QED BY <2>2, <2>3
<1>7. ASSUME NEW b \in Backends, backendOf[c] = b, hostOpen[c]
      PROVE  NoGap(c)'
  <2>0. /\ Below({h.seq}, Numbers(hold[c], c) \cup Numbers(outQ[c], c))
        /\ Below({h.seq}, Numbers(sending[b], c))
        /\ Below({h.seq}, Numbers(procOut[b], c))
        /\ Below({h.seq}, Numbers(procIn[b], c) \cup Numbers(inflight[b], c))
        /\ Below({h.seq}, Unread(c))
    BY <1>6, <1>7, NumbersInLine DEF Below, Unread
  <2>1. PICK A \in SUBSET Nat :
          /\ A = Arriving(c)' /\ Arriving(c) = {h.seq} \cup A
          /\ Below({h.seq}, A)
    <3>1. Arriving(c)' \in SUBSET Nat
      BY <1>0, <1>1, <1>5, <1>6, <1>7, NumberTypes DEF Arriving
    <3>2. Arriving(c) = {h.seq} \cup Arriving(c)'
      BY <1>1, <1>5, <1>6 DEF Arriving
    <3>3. Below({h.seq}, Arriving(c)')
      BY <1>1, <1>5, <1>6, <1>7, <2>0 DEF Arriving, Below
    <3>4. QED BY <3>1, <3>2, <3>3
  <2>2. PICK B \in SUBSET Nat :
          /\ B = Answers(c)' /\ Answers(c) = {h.seq} \cup B
          /\ Below({h.seq}, B)
    <3>1. Answers(c)' \in SUBSET Nat
      BY <1>0, <1>1, <1>7, <2>1, NumberTypes DEF Answers
    <3>2. Answers(c) = {h.seq} \cup Answers(c)'
      BY <1>1, <2>1 DEF Answers
    <3>3. Below({h.seq}, Answers(c)')
      BY <1>1, <1>7, <2>0, <2>1 DEF Answers, Below
    <3>4. QED BY <3>1, <3>2, <3>3
  <2>3. PICK C \in SUBSET Nat :
          /\ C = Calls(c)' /\ Calls(c) = {h.seq} \cup C
          /\ Below({h.seq}, C)
    <3>0. Unread(c)' = Unread(c)
      BY <1>1 DEF Unread
    <3>1. Calls(c)' \in SUBSET Nat
      BY <1>0, <1>1, <1>7, <2>2, NumberTypes DEF Calls, Unread
    <3>2. Calls(c) = {h.seq} \cup Calls(c)'
      BY <1>1, <2>2, <3>0 DEF Calls
    <3>3. Below({h.seq}, Calls(c)')
      BY <1>1, <1>7, <2>0, <2>2, <3>0 DEF Calls, Below
    <3>4. QED BY <3>1, <3>2, <3>3
  <2>4. /\ Unbroken({h.seq} \cup A, lastRecv[c]) => Unbroken(A, h.seq)
        /\ Unbroken({h.seq} \cup B, lastRecv[c]) => Unbroken(B, h.seq)
        /\ Complete({h.seq} \cup C, lastRecv[c], hostSeq[c]) =>
             Complete(C, h.seq, hostSeq[c])
    <3>1. Unbroken({h.seq} \cup A, lastRecv[c]) => Unbroken(A, h.seq)
      BY <1>T, <1>4, <2>1, OldestTaken
    <3>2. Unbroken({h.seq} \cup B, lastRecv[c]) => Unbroken(B, h.seq)
      BY <1>T, <1>4, <2>2, OldestTaken
    <3>3. Complete({h.seq} \cup C, lastRecv[c], hostSeq[c]) =>
            Complete(C, h.seq, hostSeq[c])
      BY <1>T, <1>4, <2>3, OldestTaken
    <3>4. QED BY <3>1, <3>2, <3>3
  <2>5. Arriving(c) # {}
    BY <2>1
  <2>6. QED
    BY <1>0, <1>1, <1>5, <1>7, <2>1, <2>2, <2>3, <2>4, <2>5 DEF NoGap
<1>8. QED BY <1>0, <1>1, <1>7 DEF NoGap

LEMMA GapStep ==
  IInv /\ OrderInv /\ HoldInv /\ ReplyInv /\ GapInv /\ [Next]_vars => GapInv'
<1> SUFFICES ASSUME IInv, OrderInv, HoldInv, ReplyInv, GapInv, [Next]_vars
             PROVE  GapInv'
  OBVIOUS
<1>1. ASSUME NEW c \in Clients, HostStep(c) \/ AcceptStep(c) \/ SessionStep(c)
      PROVE  GapInv'
  <2>1. ASSUME NEW x \in Clients, x # c
        PROVE  NoGap(x)' /\ Complete(Numbers(toServer[x], x), 0, hostSeq[x])'
    <3>1. NoGap(x) /\ Complete(Numbers(toServer[x], x), 0, hostSeq[x])
      BY DEF GapInv
    <3>2. /\ Kept(x) /\ hostSeq[x]' = hostSeq[x] /\ toServer[x]' = toServer[x]
      BY <1>1, <2>1, GapOthers
    <3>3. QED BY <3>1, <3>2, KeptNoGap
  <2>2. NoGap(c)' /\ Complete(Numbers(toServer[c], c), 0, hostSeq[c])'
    <3>1. CASE HostConnect(c) \/ AcceptHandshake(c) \/ AcceptRegister(c)
      <4>1. NoGap(c)'
        BY <3>1, GapOpened
      <4>2. UNCHANGED <<toServer, hostSeq>>
        BY <3>1
        DEF HostConnect, AcceptHandshake, AcceptRegister, hostVars
      <4>3. QED BY <4>1, <4>2 DEF GapInv
    <3>2. CASE SendClose(c) \/ WriteReplyFails(c) \/ HostClose(c)
      BY <3>2, GapClosed
    <3>3. CASE HostSend(c)
      BY <3>3, GapSend
    <3>4. CASE HostRecv(c)
      BY <3>4, GapReceived
    <3>5. CASE \/ AcceptFails(c) \/ AcceptGetInput(c) \/ AcceptSendHandshake(c)
               \/ ReadClient(c) \/ SendClientLine(c) \/ ReadEof(c)
               \/ RecvReply(c) \/ WriteReply(c) \/ RecvClosed(c)
               \/ Unregister(c)
      BY <3>5, GapServed
    <3>6. QED
      BY <1>1, <3>1, <3>2, <3>3, <3>4, <3>5
      DEF HostStep, AcceptStep, SessionStep
  <2>3. QED BY <2>1, <2>2 DEF GapInv
<1>2. CASE UNCHANGED vars
  BY <1>2
  DEF vars, managerVars, entryVars, channelVars, taskVars, procVars,
      launcherVars, sessionVars, hostVars, GapInv, NoGap, Arriving, Answers,
      Calls, Unread
<1>3. QED BY <1>1, <1>2, GapBackendStep DEF Next

(* Nothing is under way at the start. *)
LEMMA MidwayInit == Init => MidwayInv
<1> SUFFICES ASSUME Init PROVE MidwayInv
  OBVIOUS
<1>1. HoldInv
  BY DEF Init, ManagerInit, HoldInv, Live, Fresh
<1>2. ReplyInv
  <2>1. \A t : t = <<>> => Len(t) = 0
    OBVIOUS
  <2>2. ASSUME NEW b \in Backends
        PROVE  sending[b] = <<>> /\ ToSet(sending[b]) = {}
    BY EmptyElems DEF Init, ManagerInit
  <2>3. ASSUME NEW c \in Clients
        PROVE  /\ toClient[c] = <<>> /\ hold[c] = <<>> /\ outQ[c] = <<>>
               /\ Replies(c) = {}
    BY EmptyElems DEF Init, ManagerInit, Replies
  <2>4. InLine(<<>>, <<>>, <<>>, <<>>)
    BY OrderedMoves, EmptyElems DEF InLine, Before
  <2>5. QED BY <2>1, <2>2, <2>3, <2>4 DEF ReplyInv, Before
<1>3. GapInv
  <2> SUFFICES ASSUME NEW c \in Clients
               PROVE  /\ Complete(Numbers(toServer[c], c), 0, hostSeq[c])
                      /\ NoGap(c)
    BY DEF GapInv
  <2>1. toServer[c] = <<>> /\ hostSeq[c] = 0 /\ hostOpen[c] = FALSE
    BY DEF Init
  <2>2. Numbers(toServer[c], c) = {}
    BY <2>1, QueueNumbers
  <2>3. Complete({}, 0, 0)
    BY NoNumbers
  <2>4. NoGap(c)
    BY <2>1 DEF NoGap
  <2>5. QED BY <2>1, <2>2, <2>3, <2>4
<1>4. QED BY <1>1, <1>2, <1>3 DEF MidwayInv

(* Every step keeps it. *)
LEMMA MidwayStep ==
  IInv /\ OrderInv /\ MidwayInv /\ [Next]_vars => MidwayInv'
<1> SUFFICES ASSUME IInv, OrderInv, MidwayInv, [Next]_vars PROVE MidwayInv'
  OBVIOUS
<1>1. TypeOK /\ HoldInv /\ ReplyInv /\ GapInv
  BY DEF IInv, MidwayInv
<1>2. Flows /\ HostFlow
  BY <1>1, FlowStep, HostStepFlow
<1>3. QED BY <1>1, <1>2, HoldStep, ReplyStep, GapStep DEF MidwayInv

-----------------------------------------------------------------------------
(* What the invariant says *)

(* The full invariant holds in every reachable state. *)
THEOREM LauncherInductive == Spec => []LauncherInv
<1>1. Init => LauncherInv
  BY IInvInit, OrderInit, MidwayInit DEF LauncherInv
<1>2. LauncherInv /\ [Next]_vars => LauncherInv'
  BY IInvStep, OrderStep, MidwayStep DEF LauncherInv
<1>3. QED BY <1>1, <1>2, PTL DEF Spec

(* The watchdog sees every call that the running process has been handed   *)
(* and has not answered, so that a process that hangs is replaced.         *)
THEOREM WatchdogIsRight == Spec => []WatchdogSeesUnanswered
<1>1. LauncherInv => WatchdogSeesUnanswered
  BY DEF LauncherInv, OrderInv
<1>2. QED BY <1>1, LauncherInductive, PTL

(* A backend gets nothing from a connection after its close, and the       *)
(* session adds nothing after it.                                          *)
THEOREM ClosedForGood == Spec => []CloseIsLast
<1>1. ASSUME LauncherInv PROVE CloseIsLast
  <2> SUFFICES ASSUME NEW b \in Backends,
                      NEW i \in DOMAIN Towards(b), Towards(b)[i].kind = "close"
               PROVE  /\ sess[Towards(b)[i].client] = "done"
                      /\ \A j \in DOMAIN Towards(b) : j > i =>
                           Towards(b)[j].client # Towards(b)[i].client
    BY DEF CloseIsLast
  <2>1. /\ procIn[b] \in Seq(Msg) /\ inflight[b] \in Seq(Msg)
        /\ stdinQ[b] \in Seq(Msg)
    BY <1>1, QueueTypes DEF LauncherInv, IInv
  <2>2. InLine(procOut[b], procIn[b], inflight[b], stdinQ[b])
    BY <1>1 DEF LauncherInv, OrderInv, LineInv
  <2>3. /\ Towards(b) \in Seq(Msg) /\ ToSet(Towards(b)) = Waiting(b)
        /\ Ordered(Towards(b))
    BY <2>1, <2>2, JoinedQueues DEF Towards, Waiting
  <2>4. sess[Towards(b)[i].client] = "done"
    <3>1. Towards(b)[i] \in Waiting(b)
      BY <2>3, ElemsByIndex
    <3>2. QED BY <1>1, <3>1 DEF LauncherInv, OrderInv, SentInv
  <2>5. \A j \in DOMAIN Towards(b) : j > i =>
          Towards(b)[j].client # Towards(b)[i].client
    BY <2>3 DEF Ordered, Precedes
  <2>6. QED BY <2>4, <2>5
<1>2. QED BY <1>1, LauncherInductive, PTL

(* In a queue that is in order and holds no close of c, the positions of   *)
(* c's messages are in the order of their numbers.                         *)
LEMMA OrderedCalls ==
  ASSUME NEW c \in Clients, NEW s \in Seq(Msg), Ordered(s),
         \A m \in ToSet(s) : m.client = c => m.kind # "close"
  PROVE  /\ \A i, j \in {k \in DOMAIN s : s[k].client = c} :
              i < j => s[i].seq < s[j].seq
         /\ {s[i].seq : i \in {k \in DOMAIN s : s[k].client = c}} = Numbers(s, c)
<1>1. DOMAIN s = 1 .. Len(s) /\ ToSet(s) = {s[i] : i \in DOMAIN s}
  BY DEF ToSet
<1>2. \A i \in DOMAIN s : s[i].client = c => s[i].kind # "close"
  BY <1>1
<1>3. \A i, j \in {k \in DOMAIN s : s[k].client = c} :
        i < j => s[i].seq < s[j].seq
  BY <1>2 DEF Ordered, Precedes
<1>4. {s[i].seq : i \in {k \in DOMAIN s : s[k].client = c}} = Numbers(s, c)
  BY <1>1, <1>2 DEF Numbers
<1>5. QED BY <1>3, <1>4

(* Two queues of which one goes before the other. *)
LEMMA JoinTwo ==
  ASSUME NEW s \in Seq(Msg), NEW t \in Seq(Msg), Ordered(s), Ordered(t),
         Before(ToSet(s), ToSet(t))
  PROVE  /\ s \o t \in Seq(Msg) /\ Ordered(s \o t)
         /\ ToSet(s \o t) = ToSet(s) \cup ToSet(t)
BY ConcatElems, OrderedMoves

(* The parts of c's traffic, each in order and before the next. *)
LEMMA PipelineParts ==
  ASSUME LauncherInv, NEW c \in Clients, NEW b \in Backends, backendOf[c] = b
  PROVE  /\ toClient[c] \o hold[c] \o outQ[c] \in Seq(Msg)
         /\ Ordered(toClient[c] \o hold[c] \o outQ[c])
         /\ ToSet(toClient[c] \o hold[c] \o outQ[c]) = Replies(c)
         /\ sending[b] \o procOut[b] \in Seq(Msg)
         /\ Ordered(sending[b] \o procOut[b])
         /\ ToSet(sending[b] \o procOut[b]) = Answered(b)
         /\ Before(Replies(c), Answered(b) \cup Waiting(b) \cup ToSet(toServer[c]))
         /\ c \in registered =>
              /\ Towards(b) \o toServer[c] \in Seq(Msg)
              /\ Ordered(Towards(b) \o toServer[c])
              /\ ToSet(Towards(b) \o toServer[c])
                   = Waiting(b) \cup ToSet(toServer[c])
              /\ Before(Answered(b), Waiting(b) \cup ToSet(toServer[c]))
              /\ \A m \in Answered(b) \cup Waiting(b) \cup ToSet(toServer[c]) :
                   m.client = c => m.kind # "close"
<1>0. TypeOK /\ EntryInv /\ ChannelInv /\ LineInv /\ SentInv /\ ReplyInv
  BY DEF LauncherInv, IInv, OrderInv, MidwayInv
<1>T. /\ stdinQ[b] \in Seq(Msg) /\ inflight[b] \in Seq(Msg)
      /\ procIn[b] \in Seq(Msg) /\ procOut[b] \in Seq(Msg)
      /\ sending[b] \in Seq(Msg)
      /\ outQ[c] \in Seq(Msg) /\ hold[c] \in Seq(Msg)
      /\ toServer[c] \in Seq(Msg) /\ toClient[c] \in Seq(Msg)
  BY <1>0, QueueTypes
<1>1. InLine(procOut[b], procIn[b], inflight[b], stdinQ[b])
  BY <1>0 DEF LineInv
<1>2. /\ toClient[c] \o hold[c] \o outQ[c] \in Seq(Msg)
      /\ Ordered(toClient[c] \o hold[c] \o outQ[c])
      /\ ToSet(toClient[c] \o hold[c] \o outQ[c]) = Replies(c)
  <2>1. InLine(<<>>, toClient[c], hold[c], outQ[c])
    BY <1>0 DEF ReplyInv
  <2>2. QED BY <1>T, <2>1, JoinedQueues DEF Replies
<1>3. Before(ToSet(sending[b]), ToSet(procOut[b]) \cup Waiting(b))
  BY <1>0 DEF ReplyInv
<1>4. /\ sending[b] \o procOut[b] \in Seq(Msg)
      /\ Ordered(sending[b] \o procOut[b])
      /\ ToSet(sending[b] \o procOut[b]) = Answered(b)
  <2>1. Ordered(sending[b])
    <3>1. Len(sending[b]) <= 1
      BY <1>0 DEF ReplyInv
    <3>2. \A i, j \in DOMAIN sending[b] : ~(i < j)
      BY <1>T, <3>1
    <3>3. QED BY <3>2 DEF Ordered
  <2>2. Ordered(procOut[b])
    BY <1>1 DEF InLine
  <2>3. Before(ToSet(sending[b]), ToSet(procOut[b]))
    BY <1>3 DEF Before
  <2>4. QED BY <1>T, <2>1, <2>2, <2>3, JoinTwo DEF Answered
<1>5. Before(Replies(c), Answered(b) \cup Waiting(b) \cup ToSet(toServer[c]))
  BY <1>0 DEF ReplyInv, Before
<1>6. ASSUME c \in registered
      PROVE  /\ Towards(b) \o toServer[c] \in Seq(Msg)
             /\ Ordered(Towards(b) \o toServer[c])
             /\ ToSet(Towards(b) \o toServer[c])
                  = Waiting(b) \cup ToSet(toServer[c])
             /\ Before(Answered(b), Waiting(b) \cup ToSet(toServer[c]))
             /\ \A m \in Answered(b) \cup Waiting(b) \cup ToSet(toServer[c]) :
                  m.client = c => m.kind # "close"
  <2>1. sess[c] # "done"
    BY <1>0, <1>6 DEF EntryInv, Live
  <2>2. \A m \in Answered(b) \cup Waiting(b) :
          m.client = c => m.kind # "close"
    BY <1>0, <2>1 DEF SentInv
  <2>3. \A m \in ToSet(toServer[c]) : m.client = c /\ m.kind # "close"
    BY <1>0 DEF ChannelInv
  <2>4. Before(Answered(b) \cup Waiting(b), ToSet(toServer[c]))
    BY <1>0, <2>2, <2>3 DEF SentInv, Before, Precedes
  <2>5. Before(Answered(b), Waiting(b))
    BY <1>1, <1>3 DEF InLine, Before, Answered, Waiting
  <2>6. Before(Answered(b), Waiting(b) \cup ToSet(toServer[c]))
    BY <2>4, <2>5 DEF Before
  <2>7. /\ Towards(b) \in Seq(Msg) /\ ToSet(Towards(b)) = Waiting(b)
        /\ Ordered(Towards(b))
    BY <1>1, <1>T, JoinedQueues DEF Towards, Waiting
  <2>8. Ordered(toServer[c]) /\ Before(ToSet(Towards(b)), ToSet(toServer[c]))
    BY <1>0, <2>4, <2>7 DEF SentInv, Before
  <2>9. QED BY <1>T, <2>2, <2>3, <2>6, <2>7, <2>8, JoinTwo
<1>7. QED BY <1>2, <1>4, <1>5, <1>6

(* While a host's pipe is open, the replies and calls under way carry on   *)
(* from the last reply it has had, in order and without a gap.             *)
THEOREM NoReplySkipped == Spec => []NothingLostMidway
<1>1. ASSUME LauncherInv PROVE NothingLostMidway
  <2> DEFINE rep(c) == toClient[c] \o hold[c] \o outQ[c]
             routed(b) == sending[b] \o procOut[b]
             req(b, c) == Towards(b) \o toServer[c]
             Sound(s, c) == LET mine == {i \in DOMAIN s : s[i].client = c} IN
                            /\ \A i, j \in mine : i < j => s[i].seq < s[j].seq
                            /\ Unbroken({s[i].seq : i \in mine}, lastRecv[c])
  <2>0. TypeOK /\ EntryInv /\ HoldInv /\ ReplyInv /\ GapInv
    BY <1>1 DEF LauncherInv, IInv, MidwayInv
  <2> SUFFICES ASSUME NEW c \in Clients, NEW b \in Backends,
                      backendOf[c] = b, hostOpen[c]
               PROVE  Sound(Pipeline(c), c)
    BY <2>0 DEF NothingLostMidway, TypeOK, ManagerTypeOK, EntryTypeOK
  <2>T. /\ Numbers(toClient[c], c) \in SUBSET Nat
        /\ Numbers(hold[c], c) \in SUBSET Nat
        /\ Numbers(outQ[c], c) \in SUBSET Nat
        /\ Numbers(sending[b], c) \in SUBSET Nat
        /\ Numbers(procOut[b], c) \in SUBSET Nat
        /\ Numbers(procIn[b], c) \in SUBSET Nat
        /\ Numbers(inflight[b], c) \in SUBSET Nat
        /\ Numbers(stdinQ[b], c) \in SUBSET Nat
        /\ Numbers(toServer[c], c) \in SUBSET Nat
        /\ lastRecv[c] \in Nat /\ hostSeq[c] \in Nat
    BY <2>0, NumberTypes DEF TypeOK, HostTypeOK
  <2>1. ASSUME NEW s \in Seq(Msg), Ordered(s),
               \A m \in ToSet(s) : m.client = c => m.kind # "close",
               Unbroken(Numbers(s, c), lastRecv[c])
        PROVE  Sound(s, c)
    BY <2>1, OrderedCalls
  <2>2. /\ Unbroken(Arriving(c), lastRecv[c])
        /\ c \in registered =>
             /\ Unbroken(Answers(c), lastRecv[c])
             /\ alive[b] => Complete(Calls(c), lastRecv[c], hostSeq[c])
    BY <2>0 DEF GapInv, NoGap
  <2>3. rep(c) \in Seq(Msg) /\ Ordered(rep(c)) /\ ToSet(rep(c)) = Replies(c)
    BY <1>1, PipelineParts
  <2>4. Numbers(rep(c), c) = Numbers(toClient[c], c) \cup Numbers(hold[c], c)
                               \cup Numbers(outQ[c], c)
    BY <2>3 DEF Numbers, Replies
  <2>5. \A m \in Replies(c) : m.kind # "close"
    BY <2>0 DEF ReplyInv
  <2>6. CASE c \notin registered
    <3>1. Pipeline(c) = rep(c) \o <<>>
      BY <2>6 DEF Pipeline
    <3>2. Pipeline(c) = rep(c)
      BY <2>3, <3>1
    <3>3. Unbroken(Numbers(rep(c), c), lastRecv[c])
      <4> DEFINE A == Numbers(rep(c), c)
                 B == IF rxOpen[c] THEN Numbers(sending[b], c) ELSE {}
      <4>1. A \in SUBSET Nat /\ B \in SUBSET Nat /\ Arriving(c) = A \cup B
        BY <2>T, <2>4 DEF Arriving
      <4>2. Below(A, B)
        BY <1>1, <2>0, <2>4, NumbersInLine DEF LauncherInv, Below
      <4> HIDE DEF A, B
      <4>3. Unbroken(A, lastRecv[c])
        BY <2>2, <2>T, <4>1, <4>2, UnbrokenPrefix
      <4>4. QED BY <4>3 DEF A
    <3> HIDE DEF rep, Sound
    <3>4. QED BY <2>1, <2>3, <2>5, <3>2, <3>3
  <2>7. ASSUME c \in registered PROVE Sound(Pipeline(c), c)
    <3>1. rxOpen[c]
      BY <2>0, <2>7 DEF EntryInv, HoldInv
    <3>2. /\ routed(b) \in Seq(Msg) /\ Ordered(routed(b))
          /\ ToSet(routed(b)) = Answered(b)
          /\ req(b, c) \in Seq(Msg) /\ Ordered(req(b, c))
          /\ ToSet(req(b, c)) = Waiting(b) \cup ToSet(toServer[c])
          /\ Before(ToSet(rep(c)), ToSet(routed(b)) \cup ToSet(req(b, c)))
          /\ Before(ToSet(routed(b)), ToSet(req(b, c)))
          /\ \A m \in ToSet(routed(b)) \cup ToSet(req(b, c)) :
               m.client = c => m.kind # "close"
      <4>1. /\ routed(b) \in Seq(Msg) /\ Ordered(routed(b))
            /\ ToSet(routed(b)) = Answered(b)
            /\ req(b, c) \in Seq(Msg) /\ Ordered(req(b, c))
            /\ ToSet(req(b, c)) = Waiting(b) \cup ToSet(toServer[c])
        BY <1>1, <2>7, PipelineParts
      <4>2. /\ Before(Replies(c),
                      Answered(b) \cup Waiting(b) \cup ToSet(toServer[c]))
            /\ Before(Answered(b), Waiting(b) \cup ToSet(toServer[c]))
            /\ \A m \in Answered(b) \cup Waiting(b) \cup ToSet(toServer[c]) :
                 m.client = c => m.kind # "close"
        BY <1>1, <2>7, PipelineParts
      <4> HIDE DEF rep, routed, req, Sound
      <4>3. QED BY <2>3, <4>1, <4>2 DEF Before
    <3>3. Numbers(routed(b), c)
            = Numbers(sending[b], c) \cup Numbers(procOut[b], c)
      BY <3>2 DEF Numbers, Answered
    <3>4. Numbers(req(b, c), c)
            = Numbers(stdinQ[b], c) \cup Numbers(inflight[b], c)
                \cup Numbers(procIn[b], c) \cup Numbers(toServer[c], c)
      BY <3>2 DEF Numbers, Waiting
    <3>5. CASE ~alive[b]
      <4>1. Pipeline(c) = rep(c) \o routed(b)
        BY <2>7, <3>5 DEF Pipeline
      <4> HIDE DEF rep, routed, req, Sound
      <4>2. /\ rep(c) \o routed(b) \in Seq(Msg)
            /\ Ordered(rep(c) \o routed(b))
            /\ ToSet(rep(c) \o routed(b)) = Replies(c) \cup ToSet(routed(b))
        BY <2>3, <3>2, JoinTwo DEF Before
      <4>3. Numbers(rep(c) \o routed(b), c) = Answers(c)
        BY <2>3, <2>4, <3>1, <3>2, <3>3, ConcatNumbers DEF Answers, Arriving
      <4>4. QED BY <2>1, <2>2, <2>5, <2>7, <3>2, <4>1, <4>2, <4>3
    <3>6. CASE alive[b]
      <4>1. Pipeline(c) = rep(c) \o (routed(b) \o req(b, c))
        BY <2>7, <3>6 DEF Pipeline
      <4> HIDE DEF rep, routed, req, Sound
      <4>2. PICK t : t = routed(b) \o req(b, c)
        OBVIOUS
      <4>3. /\ t \in Seq(Msg) /\ Ordered(t)
            /\ ToSet(t) = ToSet(routed(b)) \cup ToSet(req(b, c))
            /\ Numbers(t, c) = Numbers(routed(b), c) \cup Numbers(req(b, c), c)
        BY <3>2, <4>2, JoinTwo, ConcatNumbers
      <4>4. /\ rep(c) \o t \in Seq(Msg) /\ Ordered(rep(c) \o t)
            /\ ToSet(rep(c) \o t) = Replies(c) \cup ToSet(t)
        BY <2>3, <3>2, <4>3, JoinTwo DEF Before
      <4>5. Numbers(rep(c) \o t, c) = Calls(c)
        <5>1. Numbers(rep(c) \o t, c) = Numbers(rep(c), c) \cup Numbers(t, c)
          BY <2>3, <4>3, ConcatNumbers
        <5>2. QED BY <2>4, <3>1, <3>3, <3>4, <4>3, <5>1
                  DEF Calls, Answers, Arriving, Unread
      <4>6. Unbroken(Calls(c), lastRecv[c])
        <5>1. Calls(c) \in SUBSET Nat
          BY <2>T DEF Calls, Answers, Arriving, Unread
        <5>2. QED BY <2>2, <2>7, <2>T, <3>6, <5>1, CompleteUnbroken
      <4>7. QED BY <2>1, <2>5, <3>2, <4>1, <4>2, <4>3, <4>4, <4>5, <4>6
    <3>7. QED BY <3>5, <3>6
  <2>8. QED BY <2>6, <2>7
<1>2. QED BY <1>1, LauncherInductive, PTL

-----------------------------------------------------------------------------
(* Requests follow their inits *)

(* What a host has received changes only when it reads a reply, and a host *)
(* adds to its pipe only when it sends.                                    *)
LEMMA HostKinds ==
  ASSUME TypeOK, [Next]_vars, NEW c \in Clients
  PROVE  /\ inited[c] => inited[c]'
         /\ \/ lastRecv[c]' = lastRecv[c] /\ inited[c]' = inited[c]
            \/ HostRecv(c)
         /\ ToSet(toServer[c])' \subseteq ToSet(toServer[c]) \/ HostSend(c)
<1>0. /\ lastRecv \in [Clients -> Nat] /\ inited \in [Clients -> BOOLEAN]
      /\ toServer \in [Clients -> Seq(Msg)]
  BY DEF TypeOK, HostTypeOK
<1>1. CASE UNCHANGED vars
  BY <1>1 DEF vars, launcherVars, hostVars
<1>2. ASSUME NEW b \in Backends, BackendStep(b)
      PROVE  UNCHANGED <<lastRecv, inited, toServer>>
  BY <1>2 DEF BackendStep, RestartAfterDelay, launcherVars, hostVars
<1>3. ASSUME NEW d \in Clients, HostStep(d)
      PROVE  /\ inited[c] => inited[c]'
             /\ \/ lastRecv[c]' = lastRecv[c] /\ inited[c]' = inited[c]
                \/ HostRecv(c)
             /\ ToSet(toServer[c])' \subseteq ToSet(toServer[c]) \/ HostSend(c)
  <2>1. CASE HostConnect(d) \/ HostClose(d)
    BY <2>1 DEF HostConnect, HostClose
  <2>2. CASE HostSend(d)
    BY <1>0, <2>2 DEF HostSend
  <2>3. CASE HostRecv(d)
    <3>1. toServer' = toServer
      BY <2>3 DEF HostRecv
    <3>2. /\ inited[c] => inited[c]'
          /\ d # c => lastRecv[c]' = lastRecv[c] /\ inited[c]' = inited[c]
      BY <1>0, <2>3 DEF HostRecv
    <3>3. QED BY <2>3, <3>1, <3>2
  <2>4. QED BY <1>3, <2>1, <2>2, <2>3 DEF HostStep
<1>4. ASSUME NEW d \in Clients, AcceptStep(d) \/ SessionStep(d)
      PROVE  /\ UNCHANGED <<lastRecv, inited>>
             /\ ToSet(toServer[c])' \subseteq ToSet(toServer[c])
  <2>1. UNCHANGED <<lastRecv, inited>>
    BY <1>4
    DEF AcceptStep, AcceptHandshake, AcceptFails, AcceptGetInput,
        AcceptRegister, AcceptSendHandshake, SessionStep, ReadClient,
        SendClientLine, SendLine, ReadEof, RecvReply, WriteReply,
        WriteReplyFails, RecvClosed, Unregister, SendClose, hostVars
  <2>2. \/ toServer' = toServer
        \/ /\ toServer[d] # <<>>
           /\ toServer' = [toServer EXCEPT ![d] = Tail(@)]
    BY <1>4
    DEF AcceptStep, AcceptHandshake, AcceptFails, AcceptGetInput,
        AcceptRegister, AcceptSendHandshake, SessionStep, ReadClient,
        SendClientLine, SendLine, ReadEof, RecvReply, WriteReply,
        WriteReplyFails, RecvClosed, Unregister, SendClose, hostVars
  <2>3. toServer[d] # <<>> =>
          ToSet(Tail(toServer[d])) \subseteq ToSet(toServer[d])
    BY <1>0, TailElems
  <2>4. QED BY <1>0, <2>1, <2>2, <2>3
<1>5. QED BY <1>1, <1>2, <1>3, <1>4 DEF Next

(* A reply that reaches a connection was answered by a backend, or was     *)
(* already on its way.                                                     *)
LEMMA RepliesFrom ==
  ASSUME IInv, OrderInv, HoldInv, ReplyInv, [Next]_vars,
         NEW c \in Clients, NEW m \in Replies(c)'
  PROVE  \/ m \in Replies(c)
         \/ m.client = c /\ \E b \in Backends : m \in Answered(b)
<1>1. \/ Quiet
      \/ \E b \in Backends, h \in Msg : Delivers(b, h) \/ Waits(b, h)
  BY QuietStep, RouteKinds
<1>2. CASE Quiet
  BY <1>2 DEF Quiet
<1>3. ASSUME NEW b \in Backends, NEW h \in Msg, Delivers(b, h)
      PROVE  m \in Replies(c) \/ (m = h /\ h.client = c /\ h \in Answered(b))
  <2>1. outQ \in [Clients -> Seq(Msg)]
    BY DEF IInv, TypeOK, ManagerTypeOK, ChannelTypeOK
  <2>2. /\ toClient' = toClient /\ hold' = hold
        /\ outQ' = [outQ EXCEPT ![h.client] = Append(@, h)]
        /\ h \in Answered(b)
    BY <1>3 DEF Delivers, launcherVars, sessionVars, hostVars
  <2>3. CASE h.client = c
    <3>1. outQ[c]' = Append(outQ[c], h)
      BY <2>1, <2>2, <2>3
    <3>2. ToSet(outQ[c])' = ToSet(outQ[c]) \cup {h}
      BY <2>1, <3>1, AppendElems
    <3>3. QED BY <2>2, <2>3, <3>2 DEF Replies
  <2>4. CASE h.client # c
    <3>1. outQ[c]' = outQ[c]
      BY <2>1, <2>2, <2>4
    <3>2. QED BY <2>2, <3>1 DEF Replies
  <2>5. QED BY <2>3, <2>4
<1>4. ASSUME NEW b \in Backends, NEW h \in Msg, Waits(b, h)
      PROVE  m \in Replies(c)
  BY <1>4 DEF Waits, Replies, launcherVars, sessionVars, hostVars
<1>5. QED BY <1>1, <1>2, <1>3, <1>4

(* A host that waits for each reply sends a request only when it has had   *)
(* one, and the first reply it gets is to its init, since before that no   *)
(* request is under way.                                                   *)
LEMMA InitedStep ==
  ASSUME MaxInFlight = 1, LauncherInv, InitedInv, Flows, [Next]_vars
  PROVE  InitedInv'
<1>0. /\ TypeOK /\ IInv /\ OrderInv /\ HoldInv /\ ReplyInv /\ ChannelInv
      /\ WaitingFlow /\ AnsweredFlow
  BY DEF LauncherInv, IInv, MidwayInv, Flows
<1>T. /\ lastRecv \in [Clients -> Nat] /\ inited \in [Clients -> BOOLEAN]
      /\ hostSeq \in [Clients -> Nat] /\ toServer \in [Clients -> Seq(Msg)]
      /\ toClient \in [Clients -> Seq(Msg)]
  BY <1>0 DEF TypeOK, HostTypeOK
<1>1. ASSUME NEW c \in Clients PROVE inited[c] => inited[c]'
  BY <1>0, HostKinds
<1>2. ASSUME NEW c \in Clients PROVE lastRecv[c]' > 0 => inited[c]'
  <2>1. CASE lastRecv[c]' = lastRecv[c] /\ inited[c]' = inited[c]
    BY <2>1 DEF InitedInv
  <2>2. CASE HostRecv(c)
    <3>1. PICK r \in Msg : r = Head(toClient[c])
      BY <1>T, <2>2, TailElems DEF HostRecv
    <3>2. /\ r \in Replies(c)
          /\ inited[c]' = (inited[c] \/ r.kind = "init")
      <4>1. toClient[c] # <<>> /\ inited[c]' = (inited[c] \/ r.kind = "init")
        BY <1>T, <2>2, <3>1 DEF HostRecv
      <4>2. r \in ToSet(toClient[c])
        BY <1>T, <3>1, <4>1, TailElems
      <4>3. QED BY <4>1, <4>2 DEF Replies
    <3>3. r.kind # "close" /\ (r.kind = "req" => inited[c])
      BY <1>0, <3>2 DEF ReplyInv, InitedInv
    <3>4. r.kind \in Kinds
      BY DEF Msg
    <3>5. QED BY <1>T, <3>2, <3>3, <3>4 DEF Kinds
  <2>3. QED BY <1>0, <2>1, <2>2, HostKinds
<1>3. ASSUME NEW c \in Clients, NEW m \in ToSet(toServer[c])', m.kind = "req"
      PROVE  inited[c]'
  <2>1. CASE m \in ToSet(toServer[c])
    BY <1>1, <1>3, <2>1 DEF InitedInv
  <2>2. CASE HostSend(c) /\ m \notin ToSet(toServer[c])
    <3> DEFINE n == hostSeq[c] + 1
               e == [client |-> c, kind |-> IF n = 1 THEN "init" ELSE "req",
                     seq |-> n]
    <3>1. n \in Nat /\ n >= 1
      BY <1>T
    <3>2. e \in Msg /\ (e.kind = "req" => n # 1)
      BY <3>1 DEF Msg, Kinds
    <3>3. toServer[c]' = Append(toServer[c], e) /\ n <= lastRecv[c] + 1
      BY <1>T, <2>2 DEF HostSend
    <3>4. m = e
      <4>1. ToSet(Append(toServer[c], e)) = ToSet(toServer[c]) \cup {e}
        BY <1>T, <3>2, AppendElems
      <4>2. QED BY <2>2, <3>3, <4>1
    <3>5. lastRecv[c] > 0
      BY <1>T, <1>3, <3>1, <3>2, <3>3, <3>4
    <3>6. QED BY <1>1, <3>5 DEF InitedInv
  <2>3. QED BY <1>0, <1>3, <2>1, <2>2, HostKinds
<1>4. ASSUME NEW c \in Clients, toServer[c] # <<>>
      PROVE  /\ Head(toServer[c]).client = c
             /\ Head(toServer[c]).kind = "req" => inited[c]
  <2>1. Head(toServer[c]) \in ToSet(toServer[c])
    BY <1>T, <1>4, TailElems
  <2>2. QED BY <1>0, <2>1 DEF ChannelInv, InitedInv
<1>5. ASSUME NEW b \in Backends, NEW m \in Waiting(b) \cup Answered(b),
             m.kind = "req"
      PROVE  m.client \in Clients /\ inited[m.client] /\ inited[m.client]'
  <2>1. m.client \in Clients /\ inited[m.client]
    BY <1>0, <1>5, TrafficTypes DEF InitedInv
  <2>2. QED BY <1>1, <2>1
<1>6. ASSUME NEW b \in Backends, NEW m \in Waiting(b)', m.kind = "req"
      PROVE  inited[m.client]'
  <2>1. CASE m \in Waiting(b)
    BY <1>5, <1>6, <2>1
  <2>2. ASSUME NEW c \in Clients, toServer[c] # <<>>, m = Head(toServer[c])
        PROVE  inited[m.client]'
    BY <1>1, <1>4, <1>6, <2>2
  <2>3. QED BY <1>0, <1>6, <2>1, <2>2 DEF WaitingFlow
<1>7. ASSUME NEW b \in Backends, NEW m \in Answered(b)', m.kind = "req"
      PROVE  inited[m.client]'
  <2>1. m \in Waiting(b) \cup Answered(b)
    BY <1>0, <1>7 DEF AnsweredFlow
  <2>2. QED BY <1>5, <1>7, <2>1
<1>8. ASSUME NEW c \in Clients, NEW m \in Replies(c)', m.kind = "req"
      PROVE  inited[c]'
  <2>1. CASE m \in Replies(c)
    BY <1>1, <1>8, <2>1 DEF InitedInv
  <2>2. ASSUME NEW b \in Backends, m \in Answered(b), m.client = c
        PROVE  inited[c]'
    BY <1>5, <1>8, <2>2
  <2>3. QED BY <1>0, <1>8, <2>1, <2>2, RepliesFrom
<1>9. QED BY <1>2, <1>3, <1>6, <1>7, <1>8 DEF InitedInv

(* How a backend's task and process come and go. *)
LEMMA ProcessKinds ==
  ASSUME TypeOK, [Next]_vars, NEW b \in Backends
  PROVE  /\ task[b]' \in {"absent", "spawning"} =>
              task[b] \in {"absent", "spawning"} \/ RestartAfterDelay(b)
         /\ task[b]' \in Taking =>
              task[b] \in Taking \/ (Spawn(b) /\ UNCHANGED launcherVars)
         /\ task[b]' \notin Taking =>
              \/ procIn[b]' = <<>>
              \/ task[b] \notin Taking /\ procIn[b] # <<>>
<1>0. task \in [Backends -> TaskStates]
  BY DEF TypeOK, ManagerTypeOK, TaskTypeOK
<1>1. ASSUME EndRestartDelay(b) PROVE RestartAfterDelay(b)
  <2>1. task[b] = "delay" /\ task[b]' = "spawning"
    BY <1>0, <1>1 DEF EndRestartDelay
  <2>2. CASE UNCHANGED vars
    BY <2>1, <2>2 DEF vars, managerVars, taskVars
  <2>3. ASSUME NEW x \in Backends, BackendStep(x) PROVE RestartAfterDelay(b)
    <3>1. CASE Spawn(x) \/ RecvInput(x) \/ WriteInput(x)
      BY <1>0, <2>1, <3>1 DEF Spawn, RecvInput, WriteInput
    <3>2. CASE WriteFails(x) \/ WatchdogKill(x) \/ ChildExits(x)
                 \/ DisconnectClients(x)
      BY <1>0, <2>1, <3>2
      DEF WriteFails, WatchdogKill, ChildExits, KillAndExit, DisconnectClients
    <3>3. CASE RestartAfterDelay(x)
      BY <1>0, <2>1, <3>3 DEF RestartAfterDelay, EndRestartDelay
    <3>4. CASE \/ RouteReply(x) \/ SendCompletes(x) \/ SendTimesOut(x)
               \/ BackendHandles(x) \/ StdoutReadError(x) \/ BackendHangs(x)
               \/ BackendCrashes(x)
      BY <2>1, <3>4
      DEF RouteReply, SendCompletes, SendTimesOut, BackendHandles,
          StdoutReadError, BackendHangs, BackendCrashes, taskVars
    <3>5. QED BY <2>3, <3>1, <3>2, <3>3, <3>4 DEF BackendStep
  <2>4. ASSUME NEW c \in Clients,
               HostStep(c) \/ AcceptStep(c) \/ SessionStep(c)
        PROVE  FALSE
    <3>1. task' = task \/ AcceptGetInput(c)
      BY <2>4
      DEF HostStep, HostConnect, HostSend, HostRecv, HostClose, AcceptStep,
          AcceptHandshake, AcceptFails, AcceptRegister, AcceptSendHandshake,
          SessionStep, ReadClient, SendClientLine, SendLine, ReadEof,
          RecvReply, WriteReply, WriteReplyFails, RecvClosed, Unregister,
          SendClose, managerVars, taskVars
    <3>2. QED
      BY <1>0, <2>1, <3>1 DEF AcceptGetInput, GetBackendInput
  <2>5. QED BY <2>2, <2>3, <2>4 DEF Next
<1>2. CASE Rests
  BY <1>2 DEF Rests, LineVars, Taking
<1>3. ASSUME NEW c \in Clients, Sends(c)
      PROVE  task' = task /\ procIn' = procIn
  BY <1>3 DEF Sends, SendLine, SendClose, procVars
<1>4. ASSUME NEW x \in Backends, Moves(x), UNCHANGED launcherVars, x # b
      PROVE  task[b]' = task[b] /\ procIn[b]' = procIn[b]
  BY <1>4, OneBackend
<1>5. ASSUME Moves(b), UNCHANGED launcherVars
      PROVE  /\ task[b]' \in {"absent", "spawning"} =>
                  task[b] \in {"absent", "spawning"} \/ EndRestartDelay(b)
             /\ task[b]' \in Taking => task[b] \in Taking \/ Spawn(b)
             /\ task[b]' \notin Taking =>
                  procIn[b]' = <<>> \/ procIn[b]' = procIn[b]
                    \/ (task[b]' = task[b] /\ procIn[b] # <<>>)
             /\ task[b]' \notin Taking /\ procIn[b]' # <<>> =>
                  task[b] \notin Taking
  BY <1>5, MovedTo DEF Taking
<1>6. QED BY <1>1, <1>2, <1>3, <1>4, <1>5, StepKinds

(* What the process knows changes when it starts and when it handles a     *)
(* message.                                                                *)
LEMMA KnownKinds ==
  ASSUME TypeOK, [Next]_vars, NEW b \in Backends
  PROVE  known[b]' = known[b] \/ Spawn(b) \/ BackendHandles(b)
<1>0. known \in [Backends -> SUBSET Clients]
  BY DEF TypeOK, ManagerTypeOK, ProcTypeOK
<1>1. CASE UNCHANGED vars
  BY <1>1 DEF vars, managerVars, procVars
<1>2. ASSUME NEW x \in Backends, BackendStep(x)
      PROVE  known[b]' = known[b] \/ Spawn(b) \/ BackendHandles(b)
  <2>1. CASE Spawn(x) \/ BackendHandles(x)
    BY <1>0, <2>1 DEF Spawn, BackendHandles
  <2>2. CASE ~(Spawn(x) \/ BackendHandles(x))
    BY <1>2, <2>2
    DEF BackendStep, RecvInput, WriteInput, WriteFails, WatchdogKill,
        ChildExits, KillAndExit, DisconnectClients, RestartAfterDelay,
        EndRestartDelay, RouteReply, SendCompletes, SendTimesOut,
        StdoutReadError, BackendHangs, BackendCrashes, procVars
  <2>3. QED BY <2>1, <2>2
<1>3. ASSUME NEW c \in Clients, HostStep(c) \/ AcceptStep(c) \/ SessionStep(c)
      PROVE  known' = known
  BY <1>3
  DEF HostStep, HostConnect, HostSend, HostRecv, HostClose, AcceptStep,
      AcceptHandshake, AcceptFails, AcceptGetInput, AcceptRegister,
      AcceptSendHandshake, SessionStep, ReadClient, SendClientLine, SendLine,
      ReadEof, RecvReply, WriteReply, WriteReplyFails, RecvClosed, Unregister,
      SendClose, managerVars, procVars
<1>4. QED BY <1>1, <1>2, <1>3 DEF Next

(* A client is forgotten when its close is handled, and after it nothing   *)
(* of that client is left for the process to read.                         *)
LEMMA ForgottenLast ==
  ASSUME LauncherInv, [Next]_vars, NEW b \in Backends, NEW c \in known[b],
         c \notin known[b]', ~Spawn(b)
  PROVE  sess[c] = "done" /\ \A m \in Waiting(b)' : m.client # c
<1>0. TypeOK /\ LineInv /\ SentInv
  BY DEF LauncherInv, IInv, OrderInv
<1>T. /\ procIn[b] \in Seq(Msg) /\ stdinQ[b] \in Seq(Msg)
      /\ inflight[b] \in Seq(Msg) /\ procOut[b] \in Seq(Msg)
      /\ procIn \in [Backends -> Seq(Msg)]
      /\ known \in [Backends -> SUBSET Clients]
  BY <1>0, QueueTypes DEF TypeOK, ManagerTypeOK, ProcTypeOK
<1>1. BackendHandles(b)
  BY <1>0, KnownKinds
<1>2. /\ procIn[b] # <<>> /\ procIn[b]' = Tail(procIn[b])
      /\ stdinQ[b]' = stdinQ[b] /\ inflight[b]' = inflight[b]
  BY <1>T, <1>1 DEF BackendHandles, taskVars
<1>3. PICK h \in Msg : h = Head(procIn[b])
  BY <1>T, <1>2, TailElems
<1>4. h.client = c /\ h.kind = "close"
  <2>1. known[b]' = (known[b] \cup IF h.kind = "init" THEN {h.client} ELSE {})
                      \ Forgets(h)
    BY <1>T, <1>1, <1>3 DEF BackendHandles
  <2>2. QED BY <2>1 DEF Forgets
<1>5. h \in Waiting(b)
  BY <1>T, <1>2, <1>3, TailElems DEF Waiting
<1>6. Before({h}, Waiting(b)')
  <2>1. InLine(procOut[b], procIn[b], inflight[b], stdinQ[b])
    BY <1>0 DEF LineInv
  <2>2. Before({h}, ToSet(Tail(procIn[b])) \cup ToSet(inflight[b])
                      \cup ToSet(stdinQ[b]))
    <3>1. PICK p \in Seq(Msg), q \in Seq(Msg), r \in Seq(Msg), s \in Seq(Msg) :
            p = procOut[b] /\ q = procIn[b] /\ r = inflight[b] /\ s = stdinQ[b]
      BY <1>T
    <3>2. Before({Head(q)}, ToSet(Tail(q)) \cup ToSet(r) \cup ToSet(s))
      BY <1>2, <2>1, <3>1, LineMoves
    <3>3. QED BY <1>3, <3>1, <3>2
  <2>3. QED BY <1>2, <2>2 DEF Waiting, Before
<1>7. QED BY <1>0, <1>4, <1>5, <1>6 DEF SentInv, Before, Precedes

(* A connection that is greeted has been by its own backend, and keeps it. *)
LEMMA GreetedBy ==
  ASSUME LauncherInv, Flows, NEW c \in Clients,
         Greeted(c)' \/ \E b \in Backends : InitTo(c, b)'
  PROVE  /\ backendOf[c]' = backendOf[c]
         /\ \/ Greeted(c) \/ InitTo(c, backendOf[c])
            \/ \E b \in Backends : \E m \in Waiting(b) :
                 /\ backendOf[c] = b /\ m.client = c /\ m.kind = "init"
                 /\ c \in known[b]'
<1>0. /\ TypeOK /\ FreshInv /\ ChannelInv /\ HoldInv
      /\ AnsweredFlow /\ GreetFlow /\ EntryFlow
  BY DEF LauncherInv, IInv, MidwayInv, Flows
<1>1. \/ Greeted(c)
      \/ \E b \in Backends : InitTo(c, b)
      \/ \E b \in Backends : \E m \in Waiting(b) :
           m.client = c /\ m.kind = "init" /\ c \in known[b]'
  <2>1. CASE Greeted(c)'
    BY <1>0, <2>1 DEF GreetFlow
  <2>2. ASSUME NEW b \in Backends, InitTo(c, b)'
        PROVE  \/ InitTo(c, b)
               \/ \E m \in Waiting(b) :
                    m.client = c /\ m.kind = "init" /\ c \in known[b]'
    BY <1>0, <2>2 DEF InitTo, AnsweredFlow
  <2>3. QED BY <2>1, <2>2
<1>2. ASSUME NEW b \in Backends, NEW m \in Waiting(b) \cup Answered(b),
             m.client = c
      PROVE  backendOf[c] = b /\ sess[c] \notin Fresh
  BY <1>0, <1>2 DEF ChannelInv, FreshInv
<1>3. Greeted(c) => sess[c] \notin Fresh
  <2> SUFFICES ASSUME sess[c] \in Fresh PROVE ~Greeted(c)
    OBVIOUS
  <2>1. /\ ~inited[c] /\ toClient[c] = <<>> /\ hold[c] = <<>>
        /\ outQ[c] = <<>>
    BY <1>0 DEF FreshInv, HoldInv
  <2>2. QED BY <2>1, InitElems DEF Greeted
<1>4. sess[c] \notin Fresh
  BY <1>1, <1>2, <1>3 DEF InitTo
<1>5. backendOf[c]' = backendOf[c]
  BY <1>0, <1>4 DEF EntryFlow, Fresh
<1>6. (\E b \in Backends : InitTo(c, b)) => InitTo(c, backendOf[c])
  BY <1>2 DEF InitTo
<1>7. QED BY <1>1, <1>2, <1>5, <1>6

(* A request that reaches a backend comes from a connection that is served *)
(* by it and has been greeted.                                             *)
LEMMA RequestFrom ==
  ASSUME LauncherInv, InitedInv, Flows,
         NEW b \in Backends, NEW m \in Waiting(b)', m.kind = "req"
  PROVE  \/ m \in Waiting(b)
         \/ /\ m.client \in Clients /\ backendOf[m.client] = b
            /\ sess[m.client] # "done" /\ Greeted(m.client)
<1>0. TypeOK /\ ChannelInv /\ WaitingFlow
  BY DEF LauncherInv, IInv, Flows
<1>1. ASSUME NEW c \in Clients, backendOf[c] = b, sess[c] \in Live,
             toServer[c] # <<>>, m = Head(toServer[c])
      PROVE  m.client = c /\ sess[c] # "done" /\ Greeted(c)
  <2>1. toServer[c] \in Seq(Msg)
    BY <1>0, QueueTypes
  <2>2. m \in ToSet(toServer[c])
    BY <1>1, <2>1, TailElems
  <2>3. QED BY <1>0, <1>1, <2>2 DEF ChannelInv, InitedInv, Greeted, Live
<1>2. QED BY <1>0, <1>1 DEF WaitingFlow

(* The second drain leaves nothing, and by then the sessions of the last   *)
(* process are over.                                                       *)
LEMMA StartStep ==
  ASSUME PromptSessions, LauncherInv, FollowInv, Flows, HostFlow, [Next]_vars
  PROVE  StartInv'
<1>0. /\ TypeOK /\ EntryInv /\ FreshInv /\ ChannelInv /\ DownInv /\ SlotInv
      /\ InitedInv /\ StartInv /\ ServedInv /\ WaitingFlow
  BY DEF LauncherInv, IInv, OrderInv, FollowInv, Flows
<1> SUFFICES ASSUME NEW b \in Backends, task[b]' \in {"absent", "spawning"}
             PROVE  /\ \A m \in Waiting(b)' : m.kind # "req"
                    /\ \A c \in Clients : backendOf[c]' = b /\ sess[c]' # "done"
                                            => ~Greeted(c)'
  BY DEF StartInv
<1>1. CASE task[b] \in {"absent", "spawning"}
  <2>1. Answered(b) = {}
    BY <1>0, <1>1, EmptyElems DEF DownInv, Down, Answered
  <2>2. ASSUME NEW m \in Waiting(b)', m.kind = "req" PROVE FALSE
    BY <1>0, <1>1, <2>2, RequestFrom DEF StartInv
  <2>3. ASSUME NEW c \in Clients, backendOf[c]' = b, sess[c]' # "done",
               Greeted(c)'
        PROVE  FALSE
    <3>1. backendOf[c] = b /\ sess[c] # "done"
      BY <2>3, GreetedBy DEF HostFlow
    <3>2. Greeted(c) \/ InitTo(c, b)
      <4>1. GreetFlow
        BY DEF Flows
      <4>2. Greeted(c) \/ \E x \in Backends : InitTo(c, x)
        BY <2>3, <4>1 DEF GreetFlow
      <4>3. \A x \in Backends : InitTo(c, x) => x = b
        BY <1>0, <3>1 DEF InitTo, ChannelInv
      <4>4. QED BY <4>2, <4>3
    <3>3. QED BY <1>0, <1>1, <2>1, <3>1, <3>2 DEF StartInv, InitTo
  <2>4. QED BY <2>2, <2>3
<1>2. CASE RestartAfterDelay(b)
  <2>1. /\ stdinQ[b]' = <<>> /\ inflight' = inflight /\ procIn' = procIn
        /\ task[b] = "delay" /\ SessionsNoticed(b)
        /\ UNCHANGED <<launcherVars, backendOf, outQ>>
    <3>1. stdinQ \in [Backends -> Seq(Msg)]
      BY <1>0 DEF TypeOK, ManagerTypeOK, TaskTypeOK
    <3>2. QED
      BY <1>2, <3>1
      DEF RestartAfterDelay, EndRestartDelay, Drained, procVars, entryVars,
          channelVars
  <2>2. Waiting(b)' = {}
    <3>1. inflight[b] = <<>>
      BY <1>0, <2>1 DEF SlotInv
    <3>2. procIn[b] = <<>>
      BY <1>0, <2>1 DEF ServedInv, Taking
    <3>3. QED BY <2>1, <3>1, <3>2, EmptyElems DEF Waiting
  <2>3. ASSUME NEW c \in Clients, backendOf[c] = b, sess[c] # "done"
        PROVE  ~Greeted(c)
    <3>1. CASE c \in registered
      BY <1>0, <2>1, <2>3, <3>1 DEF DownInv, Down
    <3>2. CASE c \notin registered
      <4>1. sess[c] \in Fresh
        BY <2>1, <2>3, <3>2 DEF SessionsNoticed, Fresh
      <4>2. /\ ~inited[c] /\ toClient[c] = <<>> /\ hold[c] = <<>>
            /\ outQ[c] = <<>>
        BY <1>0, <4>1 DEF LauncherInv, MidwayInv, HoldInv, FreshInv
      <4>3. QED BY <4>2, InitElems DEF Greeted
    <3>3. QED BY <3>1, <3>2
  <2>4. \A c \in Clients : Greeted(c)' => Greeted(c)
    BY <2>1 DEF Greeted, HasInit, launcherVars, sessionVars, hostVars
  <2>5. QED
    BY <2>1, <2>2, <2>3, <2>4 DEF launcherVars, sessionVars
<1>3. QED BY <1>0, <1>1, <1>2, ProcessKinds

(* A new process finds nothing of an old one; a running one knows whom it  *)
(* has greeted until their close, which is the last it reads of them.      *)
LEMMA ServedStep ==
  ASSUME LauncherInv, FollowInv, Flows, HostFlow, [Next]_vars
  PROVE  ServedInv'
<1>0. /\ TypeOK /\ DownInv /\ ChannelInv /\ SlotInv
      /\ InitedInv /\ StartInv /\ ServedInv
  BY DEF LauncherInv, IInv, OrderInv, FollowInv
<1> SUFFICES ASSUME NEW b \in Backends
             PROVE  IF task[b]' \in Taking
                    THEN /\ \A m \in Waiting(b)' :
                              m.kind = "req" => m.client \in known[b]'
                         /\ \A c \in Clients :
                              /\ backendOf[c]' = b /\ sess[c]' # "done"
                              /\ Greeted(c)' \/ InitTo(c, b)'
                              => c \in known[b]'
                    ELSE procIn[b]' = <<>>
  BY DEF ServedInv, InitTo
<1>1. CASE task[b]' \notin Taking
  <2>1. task[b] \notin Taking => procIn[b] = <<>>
    BY <1>0 DEF ServedInv
  <2>2. QED BY <1>0, <1>1, <2>1, ProcessKinds
<1>2. CASE Spawn(b) /\ UNCHANGED launcherVars
  <2>1. /\ task[b] = "spawning" /\ procIn[b]' = <<>> /\ procOut[b]' = <<>>
        /\ UNCHANGED <<stdinQ, inflight, sending, backendOf, outQ>>
    BY <1>0, <1>2
    DEF Spawn, TypeOK, ManagerTypeOK, ProcTypeOK, entryVars, channelVars
  <2>2. Waiting(b)' \subseteq Waiting(b)
    BY <2>1, EmptyElems DEF Waiting
  <2>3. Answered(b)' = {}
    <3>1. sending[b] = <<>>
      BY <1>0, <2>1 DEF DownInv, Down
    <3>2. QED BY <2>1, <3>1, EmptyElems DEF Answered
  <2>4. /\ \A m \in Waiting(b) : m.kind # "req"
        /\ \A c \in Clients :
             backendOf[c] = b /\ sess[c] # "done" => ~Greeted(c)
    BY <1>0, <2>1 DEF StartInv
  <2>5. \A c \in Clients : sess[c]' = sess[c] /\ (Greeted(c)' => Greeted(c))
    BY <1>2, <2>1 DEF Greeted, HasInit, launcherVars, sessionVars, hostVars
  <2>6. \A c \in Clients : ~InitTo(c, b)'
    BY <2>3 DEF InitTo
  <2>7. \A m \in Waiting(b)' : m.kind # "req"
    BY <2>2, <2>4
  <2>8. \A c \in Clients :
          backendOf[c]' = b /\ sess[c]' # "done" => ~Greeted(c)'
    BY <2>1, <2>4, <2>5
  <2>9. task[b]' \in Taking
    BY <1>0, <1>2
    DEF Spawn, Taking, TypeOK, ManagerTypeOK, TaskTypeOK
  <2>10. QED BY <2>6, <2>7, <2>8, <2>9
<1>3. CASE task[b] \in Taking /\ task[b]' \in Taking
  <2>0. ~Spawn(b)
    BY <1>3 DEF Spawn, Taking
  <2>1. /\ \A m \in Waiting(b) : m.kind = "req" => m.client \in known[b]
        /\ \A c \in Clients :
             /\ backendOf[c] = b /\ sess[c] # "done"
             /\ Greeted(c) \/ InitTo(c, b)
             => c \in known[b]
    BY <1>0, <1>3 DEF ServedInv, InitTo
  <2>2. ASSUME NEW m \in Waiting(b)', m.kind = "req"
        PROVE  m.client \in known[b]'
    <3>1. m.client \in known[b]
      BY <2>1, <2>2, <1>0, RequestFrom
    <3>2. QED BY <2>0, <2>2, <3>1, ForgottenLast
  <2>3. ASSUME NEW c \in Clients, backendOf[c]' = b, sess[c]' # "done",
               Greeted(c)' \/ InitTo(c, b)'
        PROVE  c \in known[b]'
    <3>1. /\ backendOf[c] = b
          /\ \/ Greeted(c) \/ InitTo(c, b)
             \/ c \in known[b]'
      BY <2>3, GreetedBy
    <3>2. sess[c] # "done"
      BY <2>3 DEF HostFlow
    <3>3. c \in known[b] \/ c \in known[b]'
      BY <2>1, <3>1, <3>2
    <3>4. QED BY <2>0, <3>2, <3>3, ForgottenLast
  <2>4. QED BY <1>3, <2>2, <2>3
<1>4. QED BY <1>0, <1>1, <1>2, <1>3, ProcessKinds

LEMMA FollowInit == Init => FollowInv
<1> SUFFICES ASSUME Init PROVE FollowInv
  OBVIOUS
<1>1. ASSUME NEW b \in Backends
      PROVE  /\ Waiting(b) = {} /\ Answered(b) = {} /\ procIn[b] = <<>>
             /\ task[b] = "absent"
  BY EmptyElems DEF Init, ManagerInit, Waiting, Answered
<1>2. ASSUME NEW c \in Clients
      PROVE  /\ Replies(c) = {} /\ ToSet(toServer[c]) = {} /\ lastRecv[c] = 0
             /\ ~Greeted(c)
  BY EmptyElems, InitElems DEF Init, ManagerInit, Replies, Greeted
<1>3. InitedInv
  BY <1>1, <1>2 DEF InitedInv
<1>4. StartInv
  BY <1>1, <1>2 DEF StartInv
<1>5. ServedInv
  BY <1>1 DEF ServedInv, Taking
<1>6. QED BY <1>3, <1>4, <1>5 DEF FollowInv

(* A host that waits for each reply, behind a session that notices when it *)
(* is disconnected, has no request served by a process that does not know  *)
(* it: the process has handled its init.                                   *)
THEOREM InitComesFirst ==
  MaxInFlight = 1 /\ PromptSessions => (Spec => []RequestsFollowInit)
<1> SUFFICES ASSUME MaxInFlight = 1, PromptSessions
             PROVE  Spec => []RequestsFollowInit
  OBVIOUS
<1>1. FollowInv /\ LauncherInv /\ [Next]_vars => FollowInv'
  <2> SUFFICES ASSUME FollowInv, LauncherInv, [Next]_vars PROVE FollowInv'
    OBVIOUS
  <2>1. Flows /\ HostFlow
    BY FlowStep, HostStepFlow DEF LauncherInv, IInv
  <2>2. InitedInv' /\ StartInv' /\ ServedInv'
    BY <2>1, InitedStep, StartStep, ServedStep DEF FollowInv
  <2>3. QED BY <2>2 DEF FollowInv
<1>2. ASSUME FollowInv, TypeOK PROVE RequestsFollowInit
  <2> SUFFICES ASSUME NEW b \in Backends, NEW i \in DOMAIN procIn[b],
                      procIn[b][i].kind = "req"
               PROVE  procIn[b][i].client \in known[b]
    BY DEF RequestsFollowInit
  <2>1. procIn[b] \in Seq(Msg)
    BY <1>2, QueueTypes
  <2>2. procIn[b] # <<>>
    OBVIOUS
  <2>3. task[b] \in Taking
    BY <1>2, <2>2 DEF FollowInv, ServedInv
  <2>4. procIn[b][i] \in Waiting(b)
    BY <2>1, ElemsByIndex DEF Waiting
  <2>5. QED BY <1>2, <2>3, <2>4 DEF FollowInv, ServedInv
<1>3. LauncherInv => TypeOK
  BY DEF LauncherInv, IInv
<1>4. QED BY <1>1, <1>2, <1>3, FollowInit, LauncherInductive, PTL DEF Spec

-----------------------------------------------------------------------------
(* What the watchdog holds against a process *)

(* The head of a queue and the rest are all of it. *)
LEMMA HeadAndTail ==
  ASSUME NEW S, NEW s \in Seq(S), s # <<>>
  PROVE  ToSet(s) = {Head(s)} \cup ToSet(Tail(s))
<1>1. /\ Len(s) \in Nat \ {0} /\ Head(s) = s[1] /\ Tail(s) \in Seq(S)
      /\ Len(Tail(s)) = Len(s) - 1
  OBVIOUS
<1>2. ASSUME NEW i \in 1 .. Len(s), i # 1
      PROVE  i - 1 \in 1 .. Len(Tail(s)) /\ s[i] = Tail(s)[i - 1]
  <2>1. PICK j \in 1 .. Len(Tail(s)) : i = j + 1
    BY <1>1, <1>2
  <2>2. Tail(s)[j] = s[j + 1]
    BY <1>1, <2>1
  <2>3. QED BY <2>1, <2>2
<1>3. /\ ToSet(s) = {s[i] : i \in 1 .. Len(s)}
      /\ ToSet(Tail(s)) = {Tail(s)[i] : i \in 1 .. Len(Tail(s))}
  BY <1>1, ElemsByIndex
<1>4. ASSUME NEW e \in ToSet(s) PROVE e = Head(s) \/ e \in ToSet(Tail(s))
  BY <1>1, <1>2, <1>3
<1>5. QED BY <1>4, TailElems

TrackedOwed ==
  \A b \in Backends : task[b] \in {"running", "writing"} /\ alive[b] =>
    \A k \in pending[b] : \E m \in Owed(b) : Key(m) = k

LEMMA TrackedCalls == TypeOK => (TrackedUnanswered <=> TrackedOwed)
<1> SUFFICES ASSUME TypeOK PROVE TrackedUnanswered <=> TrackedOwed
  OBVIOUS
<1>1. ASSUME NEW b \in Backends
      PROVE  ToSet(procIn[b] \o inflight[b] \o procOut[b]) = Owed(b)
  BY QueueTypes, JoinedQueues DEF Owed
<1>2. QED BY <1>1 DEF TrackedUnanswered, TrackedOwed

(* A process comes to life only when it is started. *)
LEMMA OnlySpawnRevives ==
  ASSUME TypeOK, [Next]_vars, NEW x \in Backends, alive[x]'
  PROVE  alive[x] \/ Spawn(x)
<1>1. CASE UNCHANGED vars
  BY <1>1 DEF vars, managerVars, procVars
<1>2. ASSUME NEW b \in Backends, BackendStep(b) PROVE alive[x] \/ Spawn(x)
  <2> USE DEF TypeOK, ManagerTypeOK, ProcTypeOK, procVars
  <2>1. CASE Spawn(b)
    BY <2>1 DEF Spawn
  <2>2. CASE RecvInput(b) \/ WriteInput(b) \/ DisconnectClients(b)
               \/ EndRestartDelay(b)
    BY <2>2 DEF RecvInput, WriteInput, DisconnectClients, EndRestartDelay
  <2>3. CASE KillAndExit(b) \/ BackendCrashes(b) \/ BackendHangs(b)
    BY <2>3 DEF KillAndExit, BackendCrashes, BackendHangs
  <2>4. CASE RouteReply(b) \/ SendCompletes(b) \/ SendTimesOut(b)
               \/ BackendHandles(b) \/ StdoutReadError(b)
    BY <2>4
    DEF RouteReply, SendCompletes, SendTimesOut, BackendHandles,
        StdoutReadError
  <2>5. QED
    BY <1>2, <2>1, <2>2, <2>3, <2>4
    DEF BackendStep, RestartAfterDelay, WriteFails, WatchdogKill, ChildExits
<1>3. ASSUME NEW c \in Clients, HostStep(c) PROVE alive[x]
  BY <1>3
  DEF HostStep, HostConnect, HostSend, HostRecv, HostClose, managerVars,
      procVars
<1>4. ASSUME NEW c \in Clients, AcceptStep(c) PROVE alive[x]
  BY <1>4
  DEF AcceptStep, AcceptGetInput, GetBackendInput, AcceptHandshake,
      AcceptFails, AcceptRegister, AcceptSendHandshake, SendLine,
      managerVars, procVars
<1>5. ASSUME NEW c \in Clients, SessionStep(c) PROVE alive[x]
  BY <1>5
  DEF SessionStep, SendClientLine, SendLine, SendClose, ReadClient, ReadEof,
      RecvReply, WriteReply, WriteReplyFails, RecvClosed, Unregister,
      managerVars, procVars
<1>6. QED BY <1>1, <1>2, <1>3, <1>4, <1>5 DEF Next

(* A tracked call moves with the message, and its key goes when the reply  *)
(* leaves the way back.                                                    *)
LEMMA TrackedStep == TypeOK /\ SlotInv /\ TrackedUnanswered /\ TypeOK'
                       /\ [Next]_vars => TrackedUnanswered'
<1> SUFFICES ASSUME TypeOK, SlotInv, TrackedUnanswered, TypeOK', [Next]_vars,
                    NEW x \in Backends, task[x]' \in {"running", "writing"},
                    alive[x]', NEW k \in pending[x]'
             PROVE  \E m \in Owed(x)' : Key(m) = k
  <2>1. TypeOK' => (TrackedUnanswered' <=> TrackedOwed')
    BY TrackedCalls, PTL
  <2>2. QED BY <2>1 DEF TrackedOwed
<1>1. alive[x] \/ Spawn(x)
  BY OnlySpawnRevives
<1>2. task[x] \in {"running", "writing"} /\ alive[x] =>
        \A n \in pending[x] : \E m \in Owed(x) : Key(m) = n
  BY TrackedCalls DEF TrackedOwed
<1>3. ASSUME NEW b \in Backends, Moves(b), x = b
      PROVE  \E m \in Owed(x)' : Key(m) = k
  <2> DEFINE p == procOut[b]
             q == procIn[b]
             r == inflight[b]
             s == stdinQ[b]
  <2>1. p \in Seq(Msg) /\ q \in Seq(Msg) /\ r \in Seq(Msg) /\ s \in Seq(Msg)
    BY QueueTypes
  <2>2. Owed(b)' = ToSet(procIn[b]') \cup ToSet(inflight[b]')
                     \cup ToSet(procOut[b]')
    BY DEF Owed
  <2>3. Owed(b) = ToSet(q) \cup ToSet(r) \cup ToSet(p)
    BY DEF Owed
  <2> HIDE DEF p, q, r, s
  <2>4. CASE pending[b]' = {}
    BY <1>3, <2>4
  <2>5. CASE /\ s # <<>> /\ procOut[b]' = p /\ procIn[b]' = q
             /\ inflight[b]' = <<Head(s)>>
             /\ pending[b]' = pending[b] \cup {Key(Head(s))}
             /\ task[b] = "running" /\ alive[b]
    <3>1. ToSet(<<Head(s)>>) = {Head(s)}
      BY <2>1, <2>5, TailElems, SlotElems
    <3>2. ToSet(r) = {}
      BY <2>5, EmptyElems DEF SlotInv, r
    <3>3. QED BY <1>2, <1>3, <2>2, <2>3, <2>5, <3>1, <3>2
  <2>6. CASE /\ procOut[b]' = p /\ procIn[b]' = q \o r /\ inflight[b]' = <<>>
             /\ pending[b]' = pending[b] /\ task[b] = "writing" /\ alive[b]
    <3>1. ToSet(q \o r) = ToSet(q) \cup ToSet(r)
      BY <2>1, ConcatElems
    <3>2. QED BY <1>2, <1>3, <2>2, <2>3, <2>6, <3>1, EmptyElems
  <2>7. CASE /\ p # <<>> /\ procOut[b]' = Tail(p) /\ procIn[b]' = q
             /\ inflight[b]' = r /\ pending[b]' = pending[b] \ {Key(Head(p))}
             /\ task[b]' = task[b] /\ alive[b]
    <3>1. ToSet(p) = {Head(p)} \cup ToSet(Tail(p))
      BY <2>1, <2>7, HeadAndTail
    <3>2. k \in pending[b] /\ k # Key(Head(p))
      BY <1>3, <2>7
    <3>3. PICK m \in Owed(b) : Key(m) = k
      BY <1>2, <1>3, <2>7, <3>2
    <3>4. QED BY <1>3, <2>2, <2>3, <2>7, <3>1, <3>2, <3>3
  <2>8. CASE /\ q # <<>> /\ procOut[b]' = Append(p, Head(q))
             /\ procIn[b]' = Tail(q) /\ inflight[b]' = r
             /\ pending[b]' = pending[b] /\ task[b]' = task[b] /\ alive[b]
    <3>1. /\ ToSet(q) = {Head(q)} \cup ToSet(Tail(q)) /\ Head(q) \in Msg
          /\ ToSet(Append(p, Head(q))) = ToSet(p) \cup {Head(q)}
      BY <2>1, <2>8, HeadAndTail, TailElems, AppendElems
    <3>2. QED BY <1>2, <1>3, <2>2, <2>3, <2>8, <3>1
  <2>9. ~BackendCrashes(b)
    BY <1>3 DEF BackendCrashes, TypeOK, ManagerTypeOK, ProcTypeOK
  <2>10. QED
    BY <1>1, <1>3, <2>4, <2>5, <2>6, <2>7, <2>8, <2>9, MovedTo
    DEF p, q, r, s, Spawn
<1>4. ASSUME NEW b \in Backends, Moves(b), x # b
      PROVE  \E m \in Owed(x)' : Key(m) = k
  <2>1. /\ procOut[x]' = procOut[x] /\ procIn[x]' = procIn[x]
        /\ inflight[x]' = inflight[x] /\ pending[x]' = pending[x]
        /\ task[x]' = task[x]
    BY <1>4, OneBackend
  <2>2. alive[x]
    BY <1>1, <2>1 DEF Spawn, TypeOK, ManagerTypeOK, TaskTypeOK
  <2>3. QED BY <1>2, <2>1, <2>2 DEF Owed
<1>5. ASSUME NEW c \in Clients, Sends(c) PROVE \E m \in Owed(x)' : Key(m) = k
  <2>1. UNCHANGED <<procOut, procIn, inflight, pending, task, alive>>
    BY <1>5 DEF Sends, SendLine, SendClose, procVars
  <2>2. QED BY <1>2, <2>1 DEF Owed
<1>6. CASE Rests
  <2>1. /\ procOut' = procOut /\ procIn' = procIn /\ inflight' = inflight
        /\ pending' = pending /\ task[x]' = task[x]
    BY <1>6 DEF Rests, LineVars
  <2>2. alive[x]
    BY <1>1, <2>1 DEF Spawn, TypeOK, ManagerTypeOK, TaskTypeOK
  <2>3. QED BY <1>2, <2>1, <2>2 DEF Owed
<1>7. QED BY <1>3, <1>4, <1>5, <1>6, StepKinds

(* The watchdog holds nothing against a process that has answered: a call  *)
(* whose reply has reached the router, also one for a client that is gone, *)
(* is not in pending_requests, and cannot have a healthy process replaced. *)
THEOREM AnsweredIsForgotten == Spec => []TrackedUnanswered
<1>1. Init => TrackedUnanswered
  BY DEF Init, ManagerInit, TrackedUnanswered
<1>2. LauncherInv => TypeOK /\ SlotInv
  BY DEF LauncherInv, IInv, OrderInv
<1>3. LauncherInv /\ LauncherInv' /\ TrackedUnanswered /\ [Next]_vars
        => TrackedUnanswered'
  <2>1. LauncherInv' => TypeOK'
    BY <1>2, PTL
  <2>2. QED BY <1>2, <2>1, TrackedStep
<1>4. QED BY <1>1, <1>3, LauncherInductive, PTL DEF Spec
=============================================================================
