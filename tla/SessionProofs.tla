--------------------------- MODULE SessionProofs ----------------------------
(***************************************************************************)
(* No session outlives its backend process, and no finished connection     *)
(* keeps an entry, for any sets of connections and backends.  The first    *)
(* part states what one step may do to the messages under way, to the      *)
(* connections and to the backend tasks; the second part shows that these  *)
(* facts are all the inductive invariant IInv needs.                       *)
(***************************************************************************)
EXTENDS LauncherProofs

-----------------------------------------------------------------------------
(* What a step may do *)

Serving    == Live \cup {"resolved", "gotInput", "closing"}
Stopped    == Down \cup {"exiting"}
InitTo(c, b) == \E m \in Answered(b) : m.client = c /\ m.kind = "init"

(* A message reaches a backend's queues as the first in the pipe of a      *)
(* connection that is served, or as the close of one that has been         *)
(* unregistered and is done now.                                           *)
WaitingFlow ==
  \A b \in Backends : \A m \in Waiting(b)' :
    \/ m \in Waiting(b)
    \/ \E c \in Clients :
         /\ backendOf[c] = b
         /\ \/ /\ sess[c] \in Live /\ toServer[c] # <<>>
               /\ m = Head(toServer[c]) /\ toServer[c]' = Tail(toServer[c])
            \/ /\ sess[c] = "closing" /\ sess[c]' = "done"
               /\ m.client = c /\ m.kind = "close"

(* A message is answered by a process that has read it, and an init is     *)
(* answered by making the client known.                                    *)
AnsweredFlow ==
  \A b \in Backends : \A m \in Answered(b)' :
    \/ m \in Answered(b)
    \/ m \in Waiting(b) /\ (m.kind = "init" => m.client \in known[b]')

(* A host writes only its own inits and requests to its pipe. *)
PipeFlow ==
  \A c \in Clients : \A m \in ToSet(toServer[c])' :
    m \in ToSet(toServer[c]) \/ (m.client = c /\ m.kind # "close")

(* A connection is greeted by an init reply of a backend. *)
GreetFlow ==
  \A c \in Clients : Greeted(c)' =>
    Greeted(c) \/ \E b \in Backends : InitTo(c, b)

(* Before it is registered a connection receives nothing. *)
FreshFlow ==
  \A c \in Clients :
    /\ sess[c]' \in Fresh => sess[c] \in Fresh
    /\ sess[c] \in Fresh /\ toClient[c] = <<>> =>
         /\ inited[c]' = inited[c]
         /\ toClient[c]' = <<>>
         /\ hold[c]' = hold[c]

(* Entries are made by accept_client for a connection whose backend is     *)
(* resolved, with an empty channel, and go before the session ends.        *)
EntryFlow ==
  \A c \in Clients :
    /\ c \in registered' =>
         \/ c \in registered /\ (sess[c] \in Live => sess[c]' \in Live)
         \/ sess[c] = "gotInput" /\ sess[c]' \in Live /\ outQ[c]' = <<>>
    /\ \/ backendOf[c]' = backendOf[c]
       \/ sess[c] = "accepting" /\ backendOf[c]' \in Backends
    /\ sess[c]' \in Serving => sess[c] \in Serving \/ backendOf[c]' \in Backends

(* A stopped backend has no process; it goes down with its output thrown   *)
(* away and its clients disconnected, and stays silent until it is         *)
(* started again.                                                          *)
TaskFlow ==
  \A b \in Backends :
    /\ task[b]' \in Stopped /\ alive[b]' => task[b] \in Stopped /\ alive[b]
    /\ task[b]' \in Down =>
         \/ /\ task[b] \in Down
            /\ ~alive[b] /\ procOut[b] = <<>> /\ sending[b] = <<>> =>
                 procOut[b]' = <<>> /\ sending[b]' = <<>>
         \/ /\ task[b] = "exiting"
            /\ procOut[b]' = <<>> /\ sending[b]' = <<>>
            /\ \A c \in registered' : backendOf[c]' # b

(* A client is forgotten by a process that reads its close message, or     *)
(* with the process.                                                       *)
KnownFlow ==
  \A b \in Backends : \A c \in known[b] :
    \/ c \in known[b]'
    \/ task[b] \in Down
    \/ \E m \in Waiting(b) : m.client = c /\ m.kind = "close"

Flows == /\ WaitingFlow /\ AnsweredFlow /\ PipeFlow /\ GreetFlow
         /\ FreshFlow /\ EntryFlow /\ TaskFlow /\ KnownFlow

(* A step that leaves the variables of a fact alone respects it. *)
LEMMA FlowFrames ==
  /\ UNCHANGED <<stdinQ, inflight, procIn>> => WaitingFlow
  /\ UNCHANGED <<procOut, sending>> => AnsweredFlow
  /\ UNCHANGED toServer => PipeFlow
  /\ UNCHANGED <<inited, toClient, hold, outQ>> => GreetFlow
  /\ UNCHANGED <<sess, inited, toClient, hold>> => FreshFlow
  /\ UNCHANGED <<sess, registered, backendOf>> => EntryFlow
  /\ UNCHANGED <<task, alive, procOut, sending>> => TaskFlow
  /\ UNCHANGED known => KnownFlow
<1>1. UNCHANGED <<stdinQ, inflight, procIn>> => WaitingFlow
  BY DEF WaitingFlow, Waiting
<1>2. UNCHANGED <<procOut, sending>> => AnsweredFlow
  BY DEF AnsweredFlow, Answered
<1>3. UNCHANGED toServer => PipeFlow
  BY DEF PipeFlow
<1>4. UNCHANGED <<inited, toClient, hold, outQ>> => GreetFlow
  BY DEF GreetFlow, Greeted, HasInit
<1>5. UNCHANGED <<sess, inited, toClient, hold>> => FreshFlow
  BY DEF FreshFlow
<1>6. UNCHANGED <<sess, registered, backendOf>> => EntryFlow
  BY DEF EntryFlow
<1>7. UNCHANGED <<task, alive, procOut, sending>> => TaskFlow
  BY DEF TaskFlow
<1>8. UNCHANGED known => KnownFlow
  BY DEF KnownFlow
<1>9. QED BY <1>1, <1>2, <1>3, <1>4, <1>5, <1>6, <1>7, <1>8

(* A connection that moves on keeps its entry and its backend. *)
LEMMA EntryMove ==
  ASSUME TypeOK, NEW c \in Clients, NEW to \in SessStates,
         UNCHANGED <<registered, backendOf>>,
         sess' = [sess EXCEPT ![c] = to],
         sess[c] \in Live => to \in Live,
         to \in Serving => sess[c] \in Serving
  PROVE  EntryFlow
<1>1. sess \in [Clients -> SessStates]
  BY DEF TypeOK, SessionTypeOK
<1>2. \A x \in Clients : sess[x]' = IF x = c THEN to ELSE sess[x]
  BY <1>1
<1>3. QED BY <1>2 DEF EntryFlow

(* Where an init can be in a queue after the queue has changed. *)
LEMMA InitElems ==
  /\ ~HasInit(<<>>)
  /\ \A s \in Seq(Msg), t \in Seq(Msg) :
       HasInit(s \o t) => HasInit(s) \/ HasInit(t)
  /\ \A s \in Seq(Msg), m \in Msg :
       HasInit(Append(s, m)) => HasInit(s) \/ m.kind = "init"
  /\ \A s \in Seq(Msg) : s # <<>> =>
       /\ Head(s).kind = "init" => HasInit(s)
       /\ HasInit(Tail(s)) => HasInit(s)
       /\ HasInit(<<Head(s)>>) => HasInit(s)
<1>1. ~HasInit(<<>>)
  BY EmptyElems DEF HasInit
<1>2. \A s \in Seq(Msg), t \in Seq(Msg) :
        HasInit(s \o t) => HasInit(s) \/ HasInit(t)
  BY ConcatElems DEF HasInit
<1>3. \A s \in Seq(Msg), m \in Msg :
        HasInit(Append(s, m)) => HasInit(s) \/ m.kind = "init"
  BY AppendElems DEF HasInit
<1>4. ASSUME NEW s \in Seq(Msg), s # <<>>
      PROVE  /\ Head(s).kind = "init" => HasInit(s)
             /\ HasInit(Tail(s)) => HasInit(s)
             /\ HasInit(<<Head(s)>>) => HasInit(s)
  <2>1. /\ Head(s) \in ToSet(s) /\ Head(s) \in Msg
        /\ ToSet(Tail(s)) \subseteq ToSet(s)
    BY <1>4, TailElems
  <2>2. ToSet(<<Head(s)>>) = {Head(s)}
    BY <2>1, SlotElems
  <2>3. QED BY <2>1, <2>2 DEF HasInit
<1>5. QED BY <1>1, <1>2, <1>3, <1>4

(* Only the replies of connection c move. *)
LEMMA GreetMove ==
  ASSUME NEW c \in Clients,
         \A x \in Clients \ {c} :
           /\ inited[x]' = inited[x] /\ toClient[x]' = toClient[x]
           /\ hold[x]' = hold[x] /\ outQ[x]' = outQ[x],
         Greeted(c)' => Greeted(c) \/ \E b \in Backends : InitTo(c, b)
  PROVE  GreetFlow
<1>1. \A x \in Clients \ {c} : Greeted(x)' => Greeted(x)
  BY DEF Greeted, HasInit
<1>2. QED BY <1>1 DEF GreetFlow

(* The queues hold messages. *)
LEMMA QueueTypes ==
  ASSUME TypeOK
  PROVE  /\ \A b \in Backends :
              /\ stdinQ[b] \in Seq(Msg) /\ inflight[b] \in Seq(Msg)
              /\ procIn[b] \in Seq(Msg) /\ procOut[b] \in Seq(Msg)
              /\ sending[b] \in Seq(Msg)
         /\ \A c \in Clients :
              /\ outQ[c] \in Seq(Msg) /\ hold[c] \in Seq(Msg)
              /\ toServer[c] \in Seq(Msg) /\ toClient[c] \in Seq(Msg)
  BY DEF TypeOK, ManagerTypeOK, ChannelTypeOK, TaskTypeOK, ProcTypeOK,
         SessionTypeOK, HostTypeOK

(* Every message that waits for a backend or is answered by it is one. *)
LEMMA TrafficTypes ==
  ASSUME TypeOK, NEW b \in Backends, NEW m \in Waiting(b) \cup Answered(b)
  PROVE  m \in Msg /\ m.client \in Clients
<1>1. m \in Msg
  BY QueueTypes, ElemsByIndex DEF Waiting, Answered
<1>2. QED BY <1>1 DEF Msg


(* Every step respects the facts. *)
LEMMA FlowStep == TypeOK /\ [Next]_vars => Flows
<1> SUFFICES ASSUME TypeOK, [Next]_vars PROVE Flows
  OBVIOUS
<1> USE DEF managerVars, launcherVars, entryVars, channelVars, taskVars,
            procVars, sessionVars, hostVars
<1>0. /\ EntryTypeOK /\ ChannelTypeOK /\ TaskTypeOK /\ ProcTypeOK
      /\ SessionTypeOK /\ HostTypeOK
  BY DEF TypeOK, ManagerTypeOK
<1>1. ASSUME NEW b \in Backends, Spawn(b), UNCHANGED launcherVars
      PROVE  Flows
  <2>1. WaitingFlow
    BY <1>0, <1>1, EmptyElems
    DEF Spawn, WaitingFlow, Waiting, Live, TaskTypeOK, ProcTypeOK
  <2>2. AnsweredFlow
    BY <1>0, <1>1, EmptyElems
    DEF Spawn, AnsweredFlow, Answered, Waiting, TaskTypeOK, ProcTypeOK
  <2>3. TaskFlow
    BY <1>0, <1>1
    DEF Spawn, TaskFlow, Stopped, Down, EntryTypeOK, TaskTypeOK, ProcTypeOK
  <2>4. KnownFlow
    BY <1>0, <1>1 DEF Spawn, KnownFlow, Down, Waiting, ProcTypeOK
  <2> QED
    BY <1>1, <2>1, <2>2, <2>3, <2>4, FlowFrames DEF Spawn, Flows
<1>2. ASSUME NEW b \in Backends, RecvInput(b), UNCHANGED launcherVars
      PROVE  Flows
  <2>1. /\ Head(stdinQ[b]) \in ToSet(stdinQ[b])
        /\ ToSet(Tail(stdinQ[b])) \subseteq ToSet(stdinQ[b])
        /\ Head(stdinQ[b]) \in Msg
        /\ ToSet(<<Head(stdinQ[b])>>) = {Head(stdinQ[b])}
    <3>1. stdinQ[b] \in Seq(Msg) /\ stdinQ[b] # <<>>
      BY <1>2, QueueTypes DEF RecvInput
    <3>2. QED BY <3>1, TailElems, SlotElems
  <2>2. WaitingFlow
    BY <1>0, <1>2, <2>1
    DEF RecvInput, WaitingFlow, Waiting, Live, TaskTypeOK, ProcTypeOK
  <2>3. TaskFlow
    BY <1>0, <1>2
    DEF RecvInput, TaskFlow, Stopped, Down, EntryTypeOK, TaskTypeOK, ProcTypeOK
  <2> QED
    BY <1>2, <2>2, <2>3, FlowFrames DEF RecvInput, Flows
<1>3. ASSUME NEW b \in Backends, WriteInput(b), UNCHANGED launcherVars
      PROVE  Flows
  <2>1. ToSet(procIn[b] \o inflight[b])
          = ToSet(procIn[b]) \cup ToSet(inflight[b])
    BY QueueTypes, ConcatElems
  <2>2. WaitingFlow
    BY <1>0, <1>3, <2>1, EmptyElems
    DEF WriteInput, WaitingFlow, Waiting, Live, TaskTypeOK, ProcTypeOK
  <2>3. TaskFlow
    BY <1>0, <1>3
    DEF WriteInput, TaskFlow, Stopped, Down, EntryTypeOK, TaskTypeOK,
        ProcTypeOK
  <2> QED
    BY <1>3, <2>2, <2>3, FlowFrames DEF WriteInput, Flows
<1>4. ASSUME NEW b \in Backends, WriteFails(b), UNCHANGED launcherVars
      PROVE  Flows
  <2>1. WaitingFlow
    BY <1>0, <1>4, EmptyElems
    DEF WriteFails, KillAndExit, WaitingFlow, Waiting, Live, TaskTypeOK,
        ProcTypeOK
  <2>2. TaskFlow
    BY <1>0, <1>4
    DEF WriteFails, KillAndExit, TaskFlow, Stopped, Down, EntryTypeOK,
        TaskTypeOK, ProcTypeOK
  <2> QED
    BY <1>4, <2>1, <2>2, FlowFrames DEF WriteFails, KillAndExit, Flows
<1>5. ASSUME NEW b \in Backends, WatchdogKill(b), UNCHANGED launcherVars
      PROVE  Flows
  <2>1. WaitingFlow
    BY <1>0, <1>5, EmptyElems
    DEF WatchdogKill, KillAndExit, WaitingFlow, Waiting, Live, TaskTypeOK,
        ProcTypeOK
  <2>2. TaskFlow
    BY <1>0, <1>5
    DEF WatchdogKill, KillAndExit, TaskFlow, Stopped, Down, EntryTypeOK,
        TaskTypeOK, ProcTypeOK
  <2> QED
    BY <1>5, <2>1, <2>2, FlowFrames DEF WatchdogKill, KillAndExit, Flows
<1>6. ASSUME NEW b \in Backends, ChildExits(b), UNCHANGED launcherVars
      PROVE  Flows
  <2>1. WaitingFlow
    BY <1>0, <1>6, EmptyElems
    DEF ChildExits, KillAndExit, WaitingFlow, Waiting, Live, TaskTypeOK,
        ProcTypeOK
  <2>2. TaskFlow
    BY <1>0, <1>6
    DEF ChildExits, KillAndExit, TaskFlow, Stopped, Down, EntryTypeOK,
        TaskTypeOK, ProcTypeOK
  <2> QED
    BY <1>6, <2>1, <2>2, FlowFrames DEF ChildExits, KillAndExit, Flows
<1>7. ASSUME NEW b \in Backends, DisconnectClients(b), UNCHANGED launcherVars
      PROVE  Flows
  <2>1. WaitingFlow
    BY <1>0, <1>7, EmptyElems
    DEF DisconnectClients, Disconnected, WaitingFlow, Waiting, Live,
        TaskTypeOK, ProcTypeOK
  <2>2. AnsweredFlow
    BY <1>0, <1>7, EmptyElems
    DEF DisconnectClients, Disconnected, AnsweredFlow, Answered, Waiting,
        TaskTypeOK, ProcTypeOK
  <2>3. EntryFlow
    BY <1>0, <1>7
    DEF DisconnectClients, Disconnected, EntryFlow, Serving, Live, EntryTypeOK,
        SessionTypeOK, ChannelTypeOK
  <2>4. TaskFlow
    BY <1>0, <1>7
    DEF DisconnectClients, Disconnected, TaskFlow, Stopped, Down, EntryTypeOK,
        TaskTypeOK, ProcTypeOK
  <2> QED
    BY <1>7, <2>1, <2>2, <2>3, <2>4, FlowFrames
    DEF DisconnectClients, Disconnected, Flows
<1>8. ASSUME NEW b \in Backends, RestartAfterDelay(b)
      PROVE  Flows
  <2>1. WaitingFlow
    BY <1>0, <1>8, EmptyElems
    DEF RestartAfterDelay, EndRestartDelay, Drained, WaitingFlow, Waiting,
        Live, TaskTypeOK, ProcTypeOK
  <2>2. TaskFlow
    BY <1>0, <1>8
    DEF RestartAfterDelay, EndRestartDelay, Drained, TaskFlow, Stopped, Down,
        EntryTypeOK, TaskTypeOK, ProcTypeOK
  <2> QED
    BY <1>8, <2>1, <2>2, FlowFrames
    DEF RestartAfterDelay, EndRestartDelay, Drained, Flows
<1>9. ASSUME NEW b \in Backends, RouteReply(b), UNCHANGED launcherVars
      PROVE  Flows
  <2>1. /\ Head(procOut[b]) \in ToSet(procOut[b])
        /\ ToSet(Tail(procOut[b])) \subseteq ToSet(procOut[b])
        /\ Head(procOut[b]) \in Msg
        /\ ToSet(<<Head(procOut[b])>>) = {Head(procOut[b])}
    <3>1. procOut[b] \in Seq(Msg) /\ procOut[b] # <<>>
      BY <1>9, QueueTypes DEF RouteReply
    <3>2. QED BY <3>1, TailElems, SlotElems
  <2>2. \A c \in Clients : ToSet(Append(outQ[c], Head(procOut[b])))
                                = ToSet(outQ[c]) \cup {Head(procOut[b])}
    BY QueueTypes, <2>1, AppendElems
  <2>3. AnsweredFlow
    BY <1>0, <1>9, <2>1, <2>2, EmptyElems
    DEF RouteReply, AnsweredFlow, Answered, Waiting, TaskTypeOK, ProcTypeOK
  <2>4. GreetFlow
    <3>0. PICK c \in Clients : c = Head(procOut[b]).client
      BY <2>1 DEF Msg
    <3>1. /\ \A x \in Clients \ {c} :
               /\ inited[x]' = inited[x] /\ toClient[x]' = toClient[x]
               /\ hold[x]' = hold[x] /\ outQ[x]' = outQ[x]
          /\ inited' = inited /\ toClient' = toClient /\ hold' = hold
          /\ outQ[c]' = outQ[c] \/ outQ[c]' = Append(outQ[c], Head(procOut[b]))
      BY <1>0, <1>9, <2>1, <2>2, <3>0
      DEF RouteReply, ChannelTypeOK, SessionTypeOK, HostTypeOK
    <3>2. Greeted(c)' => Greeted(c) \/ InitTo(c, b)
      <4>1. HasInit(outQ[c])' =>
              HasInit(outQ[c]) \/ Head(procOut[b]).kind = "init"
        BY <2>1, <3>1, InitElems, QueueTypes DEF HasInit
      <4>2. Head(procOut[b]).kind = "init" => InitTo(c, b)
        BY <2>1, <3>0 DEF InitTo, Answered
      <4>3. QED BY <3>1, <4>1, <4>2 DEF Greeted
    <3> QED BY <3>1, <3>2, GreetMove
  <2>5. TaskFlow
    BY <1>0, <1>9
    DEF RouteReply, TaskFlow, Stopped, Down, EntryTypeOK, TaskTypeOK,
        ProcTypeOK
  <2> QED
    BY <1>9, <2>3, <2>4, <2>5, FlowFrames DEF RouteReply, Flows
<1>10. ASSUME NEW b \in Backends, SendCompletes(b), UNCHANGED launcherVars
      PROVE  Flows
  <2>1. /\ Head(sending[b]) \in ToSet(sending[b])
        /\ ToSet(Tail(sending[b])) \subseteq ToSet(sending[b])
        /\ Head(sending[b]) \in Msg
        /\ ToSet(<<Head(sending[b])>>) = {Head(sending[b])}
    <3>1. sending[b] \in Seq(Msg) /\ sending[b] # <<>>
      BY <1>10, QueueTypes DEF SendCompletes
    <3>2. QED BY <3>1, TailElems, SlotElems
  <2>2. \A c \in Clients : ToSet(Append(outQ[c], Head(sending[b])))
                                = ToSet(outQ[c]) \cup {Head(sending[b])}
    BY QueueTypes, <2>1, AppendElems
  <2>3. AnsweredFlow
    BY <1>0, <1>10, <2>1, <2>2, EmptyElems
    DEF SendCompletes, AnsweredFlow, Answered, Waiting, TaskTypeOK, ProcTypeOK
  <2>4. GreetFlow
    <3>0. PICK c \in Clients : c = Head(sending[b]).client
      BY <2>1 DEF Msg
    <3>1. /\ \A x \in Clients \ {c} :
               /\ inited[x]' = inited[x] /\ toClient[x]' = toClient[x]
               /\ hold[x]' = hold[x] /\ outQ[x]' = outQ[x]
          /\ inited' = inited /\ toClient' = toClient /\ hold' = hold
          /\ outQ[c]' = outQ[c] \/ outQ[c]' = Append(outQ[c], Head(sending[b]))
      BY <1>0, <1>10, <2>1, <2>2, <3>0
      DEF SendCompletes, ChannelTypeOK, SessionTypeOK, HostTypeOK
    <3>2. Greeted(c)' => Greeted(c) \/ InitTo(c, b)
      <4>1. HasInit(outQ[c])' =>
              HasInit(outQ[c]) \/ Head(sending[b]).kind = "init"
        BY <2>1, <3>1, InitElems, QueueTypes DEF HasInit
      <4>2. Head(sending[b]).kind = "init" => InitTo(c, b)
        BY <2>1, <3>0 DEF InitTo, Answered
      <4>3. QED BY <3>1, <4>1, <4>2 DEF Greeted
    <3> QED BY <3>1, <3>2, GreetMove
  <2>5. TaskFlow
    BY <1>0, <1>10
    DEF SendCompletes, TaskFlow, Stopped, Down, EntryTypeOK, TaskTypeOK,
        ProcTypeOK
  <2> QED
    BY <1>10, <2>3, <2>4, <2>5, FlowFrames DEF SendCompletes, Flows
<1>11. ASSUME NEW b \in Backends, SendTimesOut(b), UNCHANGED launcherVars
      PROVE  Flows
  <2>1. AnsweredFlow
    BY <1>0, <1>11, EmptyElems
    DEF SendTimesOut, ForceDisconnected, AnsweredFlow, Answered, Waiting,
        TaskTypeOK, ProcTypeOK
  <2>2. EntryFlow
    BY <1>0, <1>11
    DEF SendTimesOut, ForceDisconnected, EntryFlow, Serving, Live, EntryTypeOK,
        SessionTypeOK, ChannelTypeOK
  <2>3. TaskFlow
    BY <1>0, <1>11
    DEF SendTimesOut, ForceDisconnected, TaskFlow, Stopped, Down, EntryTypeOK,
        TaskTypeOK, ProcTypeOK
  <2> QED
    BY <1>11, <2>1, <2>2, <2>3, FlowFrames
    DEF SendTimesOut, ForceDisconnected, Flows
<1>12. ASSUME NEW b \in Backends, BackendHandles(b), UNCHANGED launcherVars
      PROVE  Flows
  <2>1. /\ Head(procIn[b]) \in ToSet(procIn[b])
        /\ ToSet(Tail(procIn[b])) \subseteq ToSet(procIn[b])
        /\ Head(procIn[b]) \in Msg
        /\ ToSet(<<Head(procIn[b])>>) = {Head(procIn[b])}
    <3>1. procIn[b] \in Seq(Msg) /\ procIn[b] # <<>>
      BY <1>12, QueueTypes DEF BackendHandles, Forgets
    <3>2. QED BY <3>1, TailElems, SlotElems
  <2>2. ToSet(Append(procOut[b], Head(procIn[b])))
          = ToSet(procOut[b]) \cup {Head(procIn[b])}
    BY QueueTypes, <2>1, AppendElems
  <2>3. WaitingFlow
    BY <1>0, <1>12, <2>1, <2>2
    DEF BackendHandles, Forgets, WaitingFlow, Waiting, Live, TaskTypeOK, ProcTypeOK
  <2>4. AnsweredFlow
    BY <1>0, <1>12, <2>1, <2>2
    DEF BackendHandles, Forgets, AnsweredFlow, Answered, Waiting, TaskTypeOK,
        ProcTypeOK
  <2>5. TaskFlow
    BY <1>0, <1>12
    DEF BackendHandles, Forgets, TaskFlow, Stopped, Down, EntryTypeOK, TaskTypeOK,
        ProcTypeOK
  <2>6. KnownFlow
    BY <1>0, <1>12, <2>1, <2>2
    DEF BackendHandles, Forgets, KnownFlow, Down, Waiting, ProcTypeOK
  <2> QED
    BY <1>12, <2>3, <2>4, <2>5, <2>6, FlowFrames DEF BackendHandles, Forgets, Flows
<1>13. ASSUME NEW b \in Backends, StdoutReadError(b), UNCHANGED launcherVars
      PROVE  Flows
  BY <1>13, FlowFrames DEF StdoutReadError, Flows
<1>14. ASSUME NEW b \in Backends, BackendHangs(b), UNCHANGED launcherVars
      PROVE  Flows
  BY <1>14, FlowFrames DEF BackendHangs, Flows
<1>15. ASSUME NEW b \in Backends, BackendCrashes(b), UNCHANGED launcherVars
      PROVE  Flows
  <2>1. WaitingFlow
    BY <1>0, <1>15, EmptyElems
    DEF BackendCrashes, WaitingFlow, Waiting, Live, TaskTypeOK, ProcTypeOK
  <2>2. TaskFlow
    BY <1>0, <1>15
    DEF BackendCrashes, TaskFlow, Stopped, Down, EntryTypeOK, TaskTypeOK,
        ProcTypeOK
  <2> QED
    BY <1>15, <2>1, <2>2, FlowFrames DEF BackendCrashes, Flows
<1>16. ASSUME NEW c \in Clients, HostConnect(c)
      PROVE  Flows
  <2>1. FreshFlow
    BY <1>0, <1>16
    DEF HostConnect, SessAt, FreshFlow, Fresh, SessionTypeOK, HostTypeOK
  <2>2. EntryFlow
    <3>1. /\ UNCHANGED <<registered, backendOf>>
          /\ sess[c] = "idle" /\ sess' = [sess EXCEPT ![c] = "accepting"]
      BY <1>16 DEF HostConnect, SessAt
    <3>2. QED BY <3>1, EntryMove DEF SessStates, Serving, Live
  <2> QED
    BY <1>16, <2>1, <2>2, FlowFrames DEF HostConnect, SessAt, Flows
<1>17. ASSUME NEW c \in Clients, HostSend(c)
      PROVE  Flows
  <2>1. PICK m \in Msg : /\ m.client = c /\ m.kind # "close"
                         /\ toServer' = [toServer EXCEPT ![c] = Append(@, m)]
    <3> DEFINE n == hostSeq[c] + 1
               e == [client |-> c, seq |-> n,
                     kind |-> IF n = 1 THEN "init" ELSE "req"]
    <3>1. n \in Nat
      BY <1>0 DEF HostTypeOK
    <3>2. e \in Msg /\ e.client = c /\ e.kind # "close"
      BY <3>1 DEF Msg, Kinds
    <3>3. toServer' = [toServer EXCEPT ![c] = Append(@, e)]
      BY <1>17 DEF HostSend
    <3>4. QED BY <3>2, <3>3
  <2>2. ToSet(Append(toServer[c], m)) = ToSet(toServer[c]) \cup {m}
    BY QueueTypes, AppendElems
  <2>3. PipeFlow
    BY <1>0, <1>17, <2>1, <2>2 DEF HostSend, PipeFlow, HostTypeOK
  <2> QED
    BY <1>17, <2>3, FlowFrames DEF HostSend, Flows
<1>18. ASSUME NEW c \in Clients, HostRecv(c)
      PROVE  Flows
  <2>1. /\ Head(toClient[c]) \in ToSet(toClient[c])
        /\ ToSet(Tail(toClient[c])) \subseteq ToSet(toClient[c])
        /\ Head(toClient[c]) \in Msg
        /\ ToSet(<<Head(toClient[c])>>) = {Head(toClient[c])}
    <3>1. toClient[c] \in Seq(Msg) /\ toClient[c] # <<>>
      BY <1>18, QueueTypes DEF HostRecv
    <3>2. QED BY <3>1, TailElems, SlotElems
  <2>2. GreetFlow
    <3>1. /\ \A x \in Clients \ {c} :
               /\ inited[x]' = inited[x] /\ toClient[x]' = toClient[x]
               /\ hold[x]' = hold[x] /\ outQ[x]' = outQ[x]
          /\ toClient[c] # <<>> /\ toClient[c]' = Tail(toClient[c])
          /\ inited[c]' = (inited[c] \/ Head(toClient[c]).kind = "init")
          /\ hold[c]' = hold[c] /\ outQ[c]' = outQ[c]
      BY <1>0, <1>18, <2>1
      DEF HostRecv, ChannelTypeOK, SessionTypeOK, HostTypeOK
    <3>2. Greeted(c)' => Greeted(c)
      BY <1>0, <1>18, <2>1, <3>1, InitElems, QueueTypes DEF HostRecv, Greeted
    <3> QED BY <3>1, <3>2, GreetMove
  <2>3. FreshFlow
    BY <1>0, <1>18 DEF HostRecv, FreshFlow, Fresh, SessionTypeOK, HostTypeOK
  <2> QED
    BY <1>18, <2>2, <2>3, FlowFrames DEF HostRecv, Flows
<1>19. ASSUME NEW c \in Clients, HostClose(c)
      PROVE  Flows
  <2>1. GreetFlow
    <3>1. /\ \A x \in Clients \ {c} :
               /\ inited[x]' = inited[x] /\ toClient[x]' = toClient[x]
               /\ hold[x]' = hold[x] /\ outQ[x]' = outQ[x]
          /\ inited[c]' = inited[c] /\ toClient[c]' = <<>>
          /\ hold[c]' = hold[c] /\ outQ[c]' = outQ[c]
      BY <1>0, <1>19 DEF HostClose, ChannelTypeOK, SessionTypeOK, HostTypeOK
    <3>2. Greeted(c)' => Greeted(c)
      BY <1>0, <1>19, <3>1, InitElems, QueueTypes DEF HostClose, Greeted
    <3> QED BY <3>1, <3>2, GreetMove
  <2>2. FreshFlow
    BY <1>0, <1>19 DEF HostClose, FreshFlow, Fresh, SessionTypeOK, HostTypeOK
  <2> QED
    BY <1>19, <2>1, <2>2, FlowFrames DEF HostClose, Flows
<1>20. ASSUME NEW c \in Clients, AcceptHandshake(c)
      PROVE  Flows
  <2>1. FreshFlow
    BY <1>0, <1>20
    DEF AcceptHandshake, SessAt, FreshFlow, Fresh, SessionTypeOK, HostTypeOK
  <2>2. EntryFlow
    BY <1>0, <1>20
    DEF AcceptHandshake, SessAt, EntryFlow, Serving, Live, EntryTypeOK,
        SessionTypeOK, ChannelTypeOK
  <2> QED
    BY <1>20, <2>1, <2>2, FlowFrames DEF AcceptHandshake, SessAt, Flows
<1>21. ASSUME NEW c \in Clients, AcceptFails(c)
      PROVE  Flows
  <2>1. FreshFlow
    BY <1>0, <1>21
    DEF AcceptFails, SessAt, FreshFlow, Fresh, SessionTypeOK, HostTypeOK
  <2>2. EntryFlow
    <3>1. /\ UNCHANGED <<registered, backendOf>>
          /\ sess[c] = "accepting" /\ sess' = [sess EXCEPT ![c] = "done"]
      BY <1>21 DEF AcceptFails, SessAt
    <3>2. QED BY <3>1, EntryMove DEF SessStates, Serving, Live
  <2> QED
    BY <1>21, <2>1, <2>2, FlowFrames DEF AcceptFails, SessAt, Flows
<1>22. ASSUME NEW c \in Clients, AcceptGetInput(c)
      PROVE  Flows
  <2>1. FreshFlow
    BY <1>0, <1>22
    DEF AcceptGetInput, SessAt, GetBackendInput, FreshFlow, Fresh,
        SessionTypeOK, HostTypeOK
  <2>2. EntryFlow
    <3>1. /\ UNCHANGED <<registered, backendOf>>
          /\ sess[c] = "resolved" /\ sess' = [sess EXCEPT ![c] = "gotInput"]
      BY <1>22 DEF AcceptGetInput, SessAt, GetBackendInput
    <3>2. QED BY <3>1, EntryMove DEF SessStates, Serving, Live
  <2>3. TaskFlow
    BY <1>0, <1>22
    DEF AcceptGetInput, SessAt, GetBackendInput, TaskFlow, Stopped, Down,
        EntryTypeOK, TaskTypeOK, ProcTypeOK
  <2> QED
    BY <1>22, <2>1, <2>2, <2>3, FlowFrames
    DEF AcceptGetInput, SessAt, GetBackendInput, Flows
<1>23. ASSUME NEW c \in Clients, AcceptRegister(c)
      PROVE  Flows
  <2>1. GreetFlow
    BY <1>0, <1>23, InitElems, QueueTypes
    DEF AcceptRegister, SessAt, RegisterClient, GreetFlow, Greeted, InitTo,
        Answered, ChannelTypeOK, SessionTypeOK, HostTypeOK
  <2>2. FreshFlow
    BY <1>0, <1>23
    DEF AcceptRegister, SessAt, RegisterClient, FreshFlow, Fresh,
        SessionTypeOK, HostTypeOK
  <2>3. EntryFlow
    BY <1>0, <1>23
    DEF AcceptRegister, SessAt, RegisterClient, EntryFlow, Serving, Live,
        EntryTypeOK, SessionTypeOK, ChannelTypeOK
  <2> QED
    BY <1>23, <2>1, <2>2, <2>3, FlowFrames
    DEF AcceptRegister, SessAt, RegisterClient, Flows
<1>24. ASSUME NEW c \in Clients, AcceptSendHandshake(c)
      PROVE  Flows
  <2>1. /\ Head(toServer[c]) \in ToSet(toServer[c])
        /\ ToSet(Tail(toServer[c])) \subseteq ToSet(toServer[c])
        /\ Head(toServer[c]) \in Msg
        /\ ToSet(<<Head(toServer[c])>>) = {Head(toServer[c])}
    <3>1. toServer[c] \in Seq(Msg) /\ toServer[c] # <<>>
      BY <1>24, QueueTypes DEF AcceptSendHandshake, SendLine, Enqueue, SessAt
    <3>2. QED BY <3>1, TailElems, SlotElems
  <2>2. \A b \in Backends :
          ToSet(Append(stdinQ[b], Head(toServer[c])))
            = ToSet(stdinQ[b]) \cup {Head(toServer[c])}
    BY <2>1, QueueTypes, AppendElems
  <2>3. WaitingFlow
    <3>1. /\ sess[c] \in Live /\ toServer[c] # <<>>
          /\ toServer[c]' = Tail(toServer[c])
      BY <1>0, <1>24
      DEF AcceptSendHandshake, SendLine, Enqueue, SessAt, Live, HostTypeOK
    <3>2. ASSUME NEW b \in Backends
          PROVE  /\ \/ ToSet(stdinQ[b])' = ToSet(stdinQ[b])
                    \/ /\ b = backendOf[c]
                       /\ ToSet(stdinQ[b])'
                            = ToSet(stdinQ[b]) \cup {Head(toServer[c])}
                 /\ inflight[b]' = inflight[b] /\ procIn[b]' = procIn[b]
      BY <1>0, <1>24, <2>2
      DEF AcceptSendHandshake, SendLine, Enqueue, SessAt, TaskTypeOK, ProcTypeOK
    <3>3. QED BY <3>1, <3>2 DEF WaitingFlow, Waiting
  <2>4. PipeFlow
    BY <1>0, <1>24, <2>1, <2>2
    DEF AcceptSendHandshake, SendLine, Enqueue, SessAt, PipeFlow, HostTypeOK
  <2>5. FreshFlow
    BY <1>0, <1>24
    DEF AcceptSendHandshake, SendLine, Enqueue, SessAt, FreshFlow, Fresh,
        SessionTypeOK, HostTypeOK
  <2>6. EntryFlow
    <3>1. /\ UNCHANGED <<registered, backendOf>>
          /\ sess[c] = "handshake" /\ sess' = [sess EXCEPT ![c] = "running"]
      BY <1>24 DEF AcceptSendHandshake, SendLine, Enqueue, SessAt
    <3>2. QED BY <3>1, EntryMove DEF SessStates, Serving, Live
  <2> QED
    BY <1>24, <2>3, <2>4, <2>5, <2>6, FlowFrames
    DEF AcceptSendHandshake, SendLine, Enqueue, SessAt, Flows
<1>25. ASSUME NEW c \in Clients, ReadClient(c)
      PROVE  Flows
  <2>1. FreshFlow
    BY <1>0, <1>25
    DEF ReadClient, Serves, FreshFlow, Fresh, SessionTypeOK, HostTypeOK
  <2>2. EntryFlow
    <3>1. /\ UNCHANGED <<registered, backendOf>>
          /\ sess[c] = "running" /\ sess' = [sess EXCEPT ![c] = "sending"]
      BY <1>25 DEF ReadClient, Serves
    <3>2. QED BY <3>1, EntryMove DEF SessStates, Serving, Live
  <2> QED
    BY <1>25, <2>1, <2>2, FlowFrames DEF ReadClient, Serves, Flows
<1>26. ASSUME NEW c \in Clients, SendClientLine(c)
      PROVE  Flows
  <2>1. /\ Head(toServer[c]) \in ToSet(toServer[c])
        /\ ToSet(Tail(toServer[c])) \subseteq ToSet(toServer[c])
        /\ Head(toServer[c]) \in Msg
        /\ ToSet(<<Head(toServer[c])>>) = {Head(toServer[c])}
    <3>1. toServer[c] \in Seq(Msg) /\ toServer[c] # <<>>
      BY <1>26, QueueTypes DEF SendClientLine, SendLine, Enqueue, SessAt
    <3>2. QED BY <3>1, TailElems, SlotElems
  <2>2. \A b \in Backends :
          ToSet(Append(stdinQ[b], Head(toServer[c])))
            = ToSet(stdinQ[b]) \cup {Head(toServer[c])}
    BY <2>1, QueueTypes, AppendElems
  <2>3. WaitingFlow
    <3>1. /\ sess[c] \in Live /\ toServer[c] # <<>>
          /\ toServer[c]' = Tail(toServer[c])
      BY <1>0, <1>26
      DEF SendClientLine, SendLine, Enqueue, SessAt, Live, HostTypeOK
    <3>2. ASSUME NEW b \in Backends
          PROVE  /\ \/ ToSet(stdinQ[b])' = ToSet(stdinQ[b])
                    \/ /\ b = backendOf[c]
                       /\ ToSet(stdinQ[b])'
                            = ToSet(stdinQ[b]) \cup {Head(toServer[c])}
                 /\ inflight[b]' = inflight[b] /\ procIn[b]' = procIn[b]
      BY <1>0, <1>26, <2>2
      DEF SendClientLine, SendLine, Enqueue, SessAt, TaskTypeOK, ProcTypeOK
    <3>3. QED BY <3>1, <3>2 DEF WaitingFlow, Waiting
  <2>4. PipeFlow
    BY <1>0, <1>26, <2>1, <2>2
    DEF SendClientLine, SendLine, Enqueue, SessAt, PipeFlow, HostTypeOK
  <2>5. FreshFlow
    BY <1>0, <1>26
    DEF SendClientLine, SendLine, Enqueue, SessAt, FreshFlow, Fresh,
        SessionTypeOK, HostTypeOK
  <2>6. EntryFlow
    <3>1. /\ UNCHANGED <<registered, backendOf>>
          /\ sess[c] = "sending" /\ sess' = [sess EXCEPT ![c] = "running"]
      BY <1>26 DEF SendClientLine, SendLine, Enqueue, SessAt
    <3>2. QED BY <3>1, EntryMove DEF SessStates, Serving, Live
  <2> QED
    BY <1>26, <2>3, <2>4, <2>5, <2>6, FlowFrames
    DEF SendClientLine, SendLine, Enqueue, SessAt, Flows
<1>27. ASSUME NEW c \in Clients, ReadEof(c)
      PROVE  Flows
  <2>1. FreshFlow
    BY <1>0, <1>27
    DEF ReadEof, SessAt, FreshFlow, Fresh, SessionTypeOK, HostTypeOK
  <2>2. EntryFlow
    <3>1. /\ UNCHANGED <<registered, backendOf>>
          /\ sess[c] = "running" /\ sess' = [sess EXCEPT ![c] = "ended"]
      BY <1>27 DEF ReadEof, SessAt
    <3>2. QED BY <3>1, EntryMove DEF SessStates, Serving, Live
  <2> QED
    BY <1>27, <2>1, <2>2, FlowFrames DEF ReadEof, SessAt, Flows
<1>28. ASSUME NEW c \in Clients, RecvReply(c)
      PROVE  Flows
  <2>1. /\ Head(outQ[c]) \in ToSet(outQ[c])
        /\ ToSet(Tail(outQ[c])) \subseteq ToSet(outQ[c])
        /\ Head(outQ[c]) \in Msg
        /\ ToSet(<<Head(outQ[c])>>) = {Head(outQ[c])}
    <3>1. outQ[c] \in Seq(Msg) /\ outQ[c] # <<>>
      BY <1>28, QueueTypes DEF RecvReply, SessAt
    <3>2. QED BY <3>1, TailElems, SlotElems
  <2>2. GreetFlow
    BY <1>0, <1>28, <2>1, InitElems, QueueTypes
    DEF RecvReply, SessAt, GreetFlow, Greeted, InitTo, Answered, ChannelTypeOK,
        SessionTypeOK, HostTypeOK
  <2>3. FreshFlow
    BY <1>0, <1>28
    DEF RecvReply, SessAt, FreshFlow, Fresh, SessionTypeOK, HostTypeOK
  <2>4. EntryFlow
    <3>1. /\ UNCHANGED <<registered, backendOf>>
          /\ sess[c] = "running" /\ sess' = [sess EXCEPT ![c] = "writing"]
      BY <1>28 DEF RecvReply, SessAt
    <3>2. QED BY <3>1, EntryMove DEF SessStates, Serving, Live
  <2> QED
    BY <1>28, <2>2, <2>3, <2>4, FlowFrames DEF RecvReply, SessAt, Flows
<1>29. ASSUME NEW c \in Clients, WriteReply(c)
      PROVE  Flows
  <2>1. ToSet(toClient[c] \o hold[c])
          = ToSet(toClient[c]) \cup ToSet(hold[c])
    BY QueueTypes, ConcatElems
  <2>2. GreetFlow
    <3>1. /\ \A x \in Clients \ {c} :
               /\ inited[x]' = inited[x] /\ toClient[x]' = toClient[x]
               /\ hold[x]' = hold[x] /\ outQ[x]' = outQ[x]
          /\ inited[c]' = inited[c] /\ toClient[c]' = toClient[c] \o hold[c]
          /\ hold[c]' = <<>> /\ outQ[c]' = outQ[c]
      BY <1>0, <1>29, <2>1
      DEF WriteReply, SessAt, ChannelTypeOK, SessionTypeOK, HostTypeOK
    <3>2. Greeted(c)' => Greeted(c)
      BY <1>0, <1>29, <2>1, <3>1, InitElems, QueueTypes DEF WriteReply, Greeted
    <3> QED BY <3>1, <3>2, GreetMove
  <2>3. FreshFlow
    BY <1>0, <1>29
    DEF WriteReply, SessAt, FreshFlow, Fresh, SessionTypeOK, HostTypeOK
  <2>4. EntryFlow
    <3>1. /\ UNCHANGED <<registered, backendOf>>
          /\ sess[c] = "writing" /\ sess' = [sess EXCEPT ![c] = "running"]
      BY <1>29 DEF WriteReply, SessAt
    <3>2. QED BY <3>1, EntryMove DEF SessStates, Serving, Live
  <2> QED
    BY <1>29, <2>2, <2>3, <2>4, FlowFrames DEF WriteReply, SessAt, Flows
<1>30. ASSUME NEW c \in Clients, WriteReplyFails(c)
      PROVE  Flows
  <2>1. GreetFlow
    <3>1. /\ \A x \in Clients \ {c} :
               /\ inited[x]' = inited[x] /\ toClient[x]' = toClient[x]
               /\ hold[x]' = hold[x] /\ outQ[x]' = outQ[x]
          /\ inited[c]' = inited[c] /\ toClient[c]' = toClient[c]
          /\ hold[c]' = <<>> /\ outQ[c]' = outQ[c]
      BY <1>0, <1>30
      DEF WriteReplyFails, SessAt, ChannelTypeOK, SessionTypeOK, HostTypeOK
    <3>2. Greeted(c)' => Greeted(c)
      BY <1>0, <1>30, <3>1, InitElems, QueueTypes DEF WriteReplyFails, Greeted
    <3> QED BY <3>1, <3>2, GreetMove
  <2>2. FreshFlow
    BY <1>0, <1>30
    DEF WriteReplyFails, SessAt, FreshFlow, Fresh, SessionTypeOK, HostTypeOK
  <2>3. EntryFlow
    <3>1. /\ UNCHANGED <<registered, backendOf>>
          /\ sess[c] = "writing" /\ sess' = [sess EXCEPT ![c] = "ended"]
      BY <1>30 DEF WriteReplyFails, SessAt
    <3>2. QED BY <3>1, EntryMove DEF SessStates, Serving, Live
  <2> QED
    BY <1>30, <2>1, <2>2, <2>3, FlowFrames DEF WriteReplyFails, SessAt, Flows
<1>31. ASSUME NEW c \in Clients, RecvClosed(c)
      PROVE  Flows
  <2>1. FreshFlow
    BY <1>0, <1>31
    DEF RecvClosed, SessAt, FreshFlow, Fresh, SessionTypeOK, HostTypeOK
  <2>2. EntryFlow
    <3>1. /\ UNCHANGED <<registered, backendOf>>
          /\ sess[c] = "running" /\ sess' = [sess EXCEPT ![c] = "ended"]
      BY <1>31 DEF RecvClosed, SessAt
    <3>2. QED BY <3>1, EntryMove DEF SessStates, Serving, Live
  <2> QED
    BY <1>31, <2>1, <2>2, FlowFrames DEF RecvClosed, SessAt, Flows
<1>32. ASSUME NEW c \in Clients, Unregister(c)
      PROVE  Flows
  <2>1. FreshFlow
    BY <1>0, <1>32
    DEF Unregister, SessAt, WithoutEntry, FreshFlow, Fresh, SessionTypeOK,
        HostTypeOK
  <2>2. EntryFlow
    BY <1>0, <1>32
    DEF Unregister, SessAt, WithoutEntry, EntryFlow, Serving, Live,
        EntryTypeOK, SessionTypeOK, ChannelTypeOK
  <2> QED
    BY <1>32, <2>1, <2>2, FlowFrames
    DEF Unregister, SessAt, WithoutEntry, Flows
<1>33. ASSUME NEW c \in Clients, SendClose(c)
      PROVE  Flows
  <2>1. PICK m \in Msg : /\ m.client = c /\ m.kind = "close"
                         /\ stdinQ' = [stdinQ EXCEPT ![backendOf[c]] =
                                         Append(@, m)]
    <3>1. closeSeq[c] \in Nat
      BY <1>0 DEF SessionTypeOK
    <3>2. QED BY <1>33, <3>1 DEF SendClose, Enqueue, Msg, Kinds
  <2>2. \A b \in Backends :
          ToSet(Append(stdinQ[b], m)) = ToSet(stdinQ[b]) \cup {m}
    BY QueueTypes, AppendElems
  <2>3. WaitingFlow
    BY <1>0, <1>33, <2>1, <2>2, EmptyElems
    DEF SendClose, SessAt, Enqueue, WaitingFlow, Waiting, Live, TaskTypeOK,
        ProcTypeOK, SessionTypeOK
  <2>4. GreetFlow
    BY <1>0, <1>33, <2>1, <2>2, InitElems, QueueTypes
    DEF SendClose, SessAt, Enqueue, GreetFlow, Greeted, InitTo, Answered,
        ChannelTypeOK, SessionTypeOK, HostTypeOK
  <2>5. FreshFlow
    BY <1>0, <1>33
    DEF SendClose, SessAt, Enqueue, FreshFlow, Fresh, SessionTypeOK, HostTypeOK
  <2>6. EntryFlow
    <3>1. /\ UNCHANGED <<registered, backendOf>>
          /\ sess[c] = "closing" /\ sess' = [sess EXCEPT ![c] = "done"]
      BY <1>33 DEF SendClose, SessAt, Enqueue
    <3>2. QED BY <3>1, EntryMove DEF SessStates, Serving, Live
  <2> QED
    BY <1>33, <2>3, <2>4, <2>5, <2>6, FlowFrames
    DEF SendClose, SessAt, Enqueue, Flows
<1>34. CASE UNCHANGED vars
  BY <1>34, FlowFrames DEF Flows, vars
<1>35. QED
  BY <1>1, <1>2, <1>3, <1>4, <1>5, <1>6, <1>7, <1>8, <1>9, <1>10, <1>11, <1>12,
      <1>13, <1>14, <1>15, <1>16, <1>17, <1>18, <1>19, <1>20, <1>21, <1>22,
      <1>23, <1>24, <1>25, <1>26, <1>27, <1>28, <1>29, <1>30, <1>31, <1>32,
      <1>33, <1>34
  DEF Next, BackendStep, HostStep, AcceptStep, SessionStep

-----------------------------------------------------------------------------
(* The inductive invariant *)

(* A connection that has traffic has chosen its backend for good. *)
LEMMA BackendStays ==
  ASSUME TypeOK, EntryInv, FreshInv, ChannelInv, Flows
  PROVE  /\ \A b \in Backends : \A m \in Waiting(b) \cup Answered(b) :
              backendOf[m.client]' = b
         /\ \A c \in registered :
              backendOf[c]' = backendOf[c] /\ backendOf[c] \in Backends
         /\ \A c \in Clients :
              sess[c] \in Serving => backendOf[c]' = backendOf[c]
<1>1. \A c \in Clients : sess[c] \in Serving => backendOf[c]' = backendOf[c]
  BY DEF Flows, EntryFlow, Serving, Live
<1>2. ASSUME NEW b \in Backends, NEW m \in Waiting(b) \cup Answered(b)
      PROVE  backendOf[m.client]' = b
  <2>1. m.client \in Clients
    BY <1>2, TrafficTypes
  <2>2. sess[m.client] \notin Fresh
    BY <1>2, <2>1 DEF FreshInv
  <2>3. backendOf[m.client]' = backendOf[m.client]
    BY <2>1, <2>2 DEF Flows, EntryFlow, Fresh
  <2>4. QED BY <1>2, <2>3 DEF ChannelInv
<1>3. registered \subseteq Clients
  BY DEF TypeOK, ManagerTypeOK, EntryTypeOK
<1>4. \A c \in registered : sess[c] \in Serving /\ backendOf[c] \in Backends
  BY <1>3 DEF EntryInv, Serving
<1>5. QED BY <1>1, <1>2, <1>3, <1>4

(* A message that reaches a backend's queues was there already, or comes   *)
(* from a connection that is served or closing, and is that connection's.  *)
LEMMA NewTraffic ==
  ASSUME TypeOK, EntryInv, ChannelInv, Flows,
         NEW b \in Backends, NEW m \in Waiting(b)', m \notin Waiting(b)
  PROVE  \E c \in Clients :
           /\ m.client = c /\ backendOf[c] = b
           /\ sess[c] \in Live \cup {"closing"}
           /\ m.kind = "close" => sess[c] = "closing"
<1>1. PICK c \in Clients :
        /\ backendOf[c] = b
        /\ \/ sess[c] \in Live /\ toServer[c] # <<>> /\ m = Head(toServer[c])
           \/ sess[c] = "closing" /\ m.client = c
  BY DEF Flows, WaitingFlow
<1>2. toServer[c] # <<>> => Head(toServer[c]) \in ToSet(toServer[c])
  BY QueueTypes, TailElems
<1>3. m \in ToSet(toServer[c]) => m.client = c /\ m.kind # "close"
  BY DEF ChannelInv
<1>4. QED BY <1>1, <1>2, <1>3 DEF Serving, Live

(* A connection that gets its entry has not been greeted. *)
LEMMA FreshEntry ==
  ASSUME FreshInv, Flows, NEW c \in Clients, sess[c] = "gotInput",
         outQ[c]' = <<>>
  PROVE  ~Greeted(c)'
<1>1. ~inited[c] /\ toClient[c] = <<>> /\ hold[c] = <<>>
  BY DEF FreshInv, Fresh
<1>2. ~inited[c]' /\ toClient[c]' = <<>> /\ hold[c]' = <<>>
  BY <1>1 DEF Flows, FreshFlow, Fresh
<1>3. QED BY <1>2, EmptyElems DEF Greeted, HasInit

(* Entries belong to connections that are served. *)
LEMMA EntryStep == EntryInv /\ Flows => EntryInv'
  BY DEF EntryInv, Flows, EntryFlow, Serving, Live

(* A connection without an entry still leaves no trace. *)
LEMMA FreshStep ==
  TypeOK /\ EntryInv /\ FreshInv /\ ChannelInv /\ Flows => FreshInv'
<1> SUFFICES ASSUME TypeOK, EntryInv, FreshInv, ChannelInv, Flows,
                    NEW c \in Clients, sess[c]' \in Fresh
             PROVE  /\ ~inited[c]' /\ toClient[c]' = <<>> /\ hold[c]' = <<>>
                    /\ \A b \in Backends :
                         \A m \in Waiting(b)' \cup Answered(b)' : m.client # c
  BY DEF FreshInv
<1>1. sess[c] \in Fresh
  BY DEF Flows, FreshFlow
<1>2. ~inited[c]' /\ toClient[c]' = <<>> /\ hold[c]' = <<>>
  BY <1>1 DEF FreshInv, Flows, FreshFlow
<1>3. ASSUME NEW b \in Backends, NEW m \in Waiting(b)'
      PROVE  m.client # c
  <2>1. CASE m \in Waiting(b)
    BY <1>1, <2>1 DEF FreshInv
  <2>2. CASE m \notin Waiting(b)
    <3>1. \E c2 \in Clients : m.client = c2 /\ sess[c2] \in Live \cup {"closing"}
      BY <1>3, <2>2, NewTraffic
    <3>2. sess[c] \notin Live \cup {"closing"}
      BY <1>1 DEF Live, Fresh
    <3>3. QED BY <3>1, <3>2
  <2>3. QED BY <2>1, <2>2
<1>4. ASSUME NEW b \in Backends, NEW m \in Answered(b)' PROVE m.client # c
  BY <1>1, <1>4 DEF FreshInv, Flows, AnsweredFlow
<1>5. QED BY <1>2, <1>3, <1>4

(* Messages stay with the backend of their connection. *)
LEMMA ChannelStep ==
  TypeOK /\ EntryInv /\ FreshInv /\ ChannelInv /\ Flows => ChannelInv'
<1> SUFFICES ASSUME TypeOK, EntryInv, FreshInv, ChannelInv, Flows
             PROVE  ChannelInv'
  OBVIOUS
<1>1. ASSUME NEW b \in Backends, NEW m \in Waiting(b)'
      PROVE  backendOf[m.client]' = b
  <2>1. CASE m \in Waiting(b)
    BY <2>1, BackendStays
  <2>2. CASE m \notin Waiting(b)
    BY <1>1, <2>2, NewTraffic, BackendStays DEF Serving
  <2>3. QED BY <2>1, <2>2
<1>2. ASSUME NEW b \in Backends, NEW m \in Answered(b)'
      PROVE  backendOf[m.client]' = b
  BY <1>2, BackendStays DEF Flows, AnsweredFlow
<1>3. ASSUME NEW c \in Clients, NEW m \in ToSet(toServer[c])'
      PROVE  m.client = c /\ m.kind # "close"
  BY <1>3 DEF ChannelInv, Flows, PipeFlow
<1>4. QED BY <1>1, <1>2, <1>3 DEF ChannelInv

(* A close message is under way only when the entry is gone. *)
LEMMA CloseStep ==
  TypeOK /\ EntryInv /\ FreshInv /\ ChannelInv /\ CloseInv /\ Flows => CloseInv'
<1> SUFFICES ASSUME TypeOK, EntryInv, FreshInv, ChannelInv, CloseInv, Flows,
                    NEW b \in Backends, NEW m \in Waiting(b)', m.kind = "close"
             PROVE  m.client \notin registered'
  BY DEF CloseInv
<1>1. CASE m \in Waiting(b)
  <2>1. m.client \in Clients /\ m.client \notin registered
    BY <1>1, TrafficTypes DEF CloseInv
  <2>2. sess[m.client] # "gotInput"
    BY <1>1, <2>1 DEF FreshInv, Fresh
  <2>3. QED BY <2>1, <2>2 DEF Flows, EntryFlow
<1>2. CASE m \notin Waiting(b)
  <2>1. m.client \in Clients /\ sess[m.client] = "closing"
    BY <1>2, NewTraffic
  <2>2. m.client \notin registered
    BY <2>1 DEF EntryInv, Live
  <2>3. QED BY <2>1, <2>2 DEF Flows, EntryFlow
<1>3. QED BY <1>1, <1>2

(* Nothing of an old process survives between two processes. *)
LEMMA DownStep ==
  ASSUME TypeOK, TypeOK', EntryInv, FreshInv, ChannelInv, DownInv, Flows
  PROVE  DownInv'
<1> SUFFICES ASSUME NEW b \in Backends
             PROVE  /\ task[b]' = "exiting" => ~alive[b]'
                    /\ task[b]' \in Down =>
                         /\ ~alive[b]' /\ procOut[b]' = <<>> /\ sending[b]' = <<>>
                         /\ \A c \in registered' :
                              backendOf[c]' = b => ~Greeted(c)'
  BY DEF DownInv
<1>1. task[b] \in Stopped => ~alive[b]
  BY DEF DownInv, Stopped
<1>2. task[b]' \in Stopped => ~alive[b]'
  BY <1>1 DEF Flows, TaskFlow
<1>3. task[b]' \in Down => procOut[b]' = <<>> /\ sending[b]' = <<>>
  BY DEF Flows, TaskFlow, DownInv
<1>4. ASSUME task[b]' \in Down, NEW c \in registered', backendOf[c]' = b
      PROVE  ~Greeted(c)'
  <2>1. task[b] \in Down
    BY <1>4 DEF Flows, TaskFlow
  <2>2. c \in Clients
    BY <1>4 DEF TypeOK, ManagerTypeOK, EntryTypeOK
  <2>3. CASE c \in registered
    <3>1. backendOf[c] = b /\ ~Greeted(c)
      BY <1>4, <2>1, <2>3, BackendStays DEF DownInv
    <3>2. \A b2 \in Backends : ~InitTo(c, b2)
      <4>1. Answered(b) = {}
        BY <2>1, EmptyElems DEF DownInv, Answered
      <4>2. QED BY <3>1, <4>1 DEF InitTo, ChannelInv
    <3>3. QED BY <2>2, <3>1, <3>2 DEF Flows, GreetFlow
  <2>4. CASE c \notin registered
    BY <2>2, <2>4, FreshEntry DEF Flows, EntryFlow
  <2>5. QED BY <2>3, <2>4
<1>5. QED BY <1>2, <1>3, <1>4 DEF Stopped

(* A registered, greeted client stays known to the process. *)
LEMMA KnownStep == IInv /\ Flows /\ TypeOK' => KnownInv'
<1> SUFFICES ASSUME IInv, Flows, TypeOK', NEW c \in registered',
                    Greeted(c)' \/ InitTo(c, backendOf[c])'
             PROVE  c \in known[backendOf[c]]'
  BY DEF KnownInv, InitTo
<1>0. /\ TypeOK /\ EntryInv /\ FreshInv /\ ChannelInv /\ CloseInv /\ DownInv
      /\ KnownInv /\ c \in Clients
  BY DEF IInv, TypeOK, ManagerTypeOK, EntryTypeOK
<1>1. c \in registered
  <2> SUFFICES ASSUME c \notin registered PROVE FALSE
    OBVIOUS
  <2>1. sess[c] = "gotInput" /\ ~Greeted(c)'
    BY <1>0, FreshEntry DEF Flows, EntryFlow
  <2>2. backendOf[c]' = backendOf[c] /\ backendOf[c] \in Backends
    BY <1>0, <2>1, BackendStays DEF EntryInv, Serving
  <2>3. \A m \in Waiting(backendOf[c]) \cup Answered(backendOf[c]) : m.client # c
    BY <1>0, <2>1, <2>2 DEF FreshInv, Fresh
  <2>4. ~InitTo(c, backendOf[c])'
    BY <2>2, <2>3 DEF InitTo, Flows, AnsweredFlow
  <2>5. QED BY <2>1, <2>4
<1> DEFINE b == backendOf[c]
<1>2. b \in Backends /\ backendOf[c]' = b
  BY <1>0, <1>1, BackendStays
<1>3. (c \in known[b] /\ (Greeted(c) \/ InitTo(c, b))) \/ c \in known[b]'
  <2>1. ASSUME Greeted(c)' PROVE Greeted(c) \/ InitTo(c, b)
    <3>1. Greeted(c) \/ \E b2 \in Backends : InitTo(c, b2)
      BY <1>0, <2>1 DEF Flows, GreetFlow
    <3>2. \A b2 \in Backends : InitTo(c, b2) => b2 = b
      BY <1>0 DEF InitTo, ChannelInv
    <3>3. QED BY <3>1, <3>2
  <2>2. ASSUME InitTo(c, b)' PROVE InitTo(c, b) \/ c \in known[b]'
    BY <1>2, <2>2 DEF InitTo, Flows, AnsweredFlow
  <2>3. Greeted(c) \/ InitTo(c, b) => c \in known[b]
    BY <1>0, <1>1 DEF KnownInv, InitTo
  <2>4. QED BY <1>2, <2>1, <2>2, <2>3
<1>4. ASSUME c \in known[b], Greeted(c) \/ InitTo(c, b) PROVE c \in known[b]'
  <2>1. ~(\E m \in Waiting(b) : m.client = c /\ m.kind = "close")
    BY <1>0, <1>1, <1>2 DEF CloseInv
  <2>2. task[b] \notin Down
    <3> SUFFICES ASSUME task[b] \in Down PROVE FALSE
      OBVIOUS
    <3>1. ~Greeted(c) /\ procOut[b] = <<>> /\ sending[b] = <<>>
      BY <1>0, <1>1, <1>2 DEF DownInv
    <3>2. QED BY <1>4, <3>1, EmptyElems DEF InitTo, Answered
  <2>3. QED BY <1>2, <1>4, <2>1, <2>2 DEF Flows, KnownFlow
<1>5. known[b]' = known[backendOf[c]]'
  BY <1>2
<1>6. QED BY <1>3, <1>4, <1>5

-----------------------------------------------------------------------------
(* The theorems *)

(* Nothing is under way at the start. *)
LEMMA IInvInit == Init => IInv
<1> SUFFICES ASSUME Init PROVE IInv
  OBVIOUS
<1>1. TypeOK
  BY TypeInit
<1>2. \A b \in Backends : Waiting(b) = {} /\ Answered(b) = {}
  BY EmptyElems DEF Init, ManagerInit, Waiting, Answered
<1>3. EntryInv /\ CloseInv /\ DownInv /\ KnownInv
  BY <1>2, EmptyElems
  DEF Init, ManagerInit, EntryInv, CloseInv, DownInv, KnownInv, Live, Down
<1>4. FreshInv /\ ChannelInv
  BY <1>2, EmptyElems DEF Init, ManagerInit, FreshInv, ChannelInv
<1>5. QED BY <1>1, <1>3, <1>4 DEF IInv

(* Every step keeps the invariant. *)
LEMMA IInvStep == IInv /\ [Next]_vars => IInv'
<1> SUFFICES ASSUME IInv, [Next]_vars PROVE IInv'
  OBVIOUS
<1>1. TypeOK' /\ Flows
  BY TypeStep, FlowStep DEF IInv
<1>2. QED
  BY <1>1, EntryStep, FreshStep, ChannelStep, CloseStep, DownStep, KnownStep
  DEF IInv

(* The invariant holds in every reachable state. *)
THEOREM Inductive == Spec => []IInv
  BY IInvInit, IInvStep, PTL DEF Spec

(* No session outlives its backend process: whatever the interleaving of   *)
(* registrations, replies, closes, crashes and restarts, a connection that *)
(* has an entry and whose init was answered is known to the process that   *)
(* runs now.                                                               *)
THEOREM SessionSafety == Spec => []SessionsMatchProcess
<1>1. IInv => SessionsMatchProcess
  BY DEF IInv, KnownInv, SessionsMatchProcess, Greeted
<1>2. QED BY <1>1, Inductive, PTL

(* A finished connection has no entry: the table of clients does not grow  *)
(* with connections that are gone.                                         *)
THEOREM EntriesReleased == Spec => []NoLeakedEntry
<1>1. IInv => NoLeakedEntry
  BY DEF IInv, TypeOK, ManagerTypeOK, EntryTypeOK, EntryInv, NoLeakedEntry,
      Live
<1>2. QED BY <1>1, Inductive, PTL

=============================================================================
