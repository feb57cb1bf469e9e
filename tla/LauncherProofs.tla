--------------------------- MODULE LauncherProofs ---------------------------
(***************************************************************************)
(* Proofs about module Launcher, for any sets of connections and backends  *)
(* and any capacities: what Append, Tail and concatenation do to the       *)
(* elements of a queue, and the types.                                     *)
(***************************************************************************)
EXTENDS Launcher, TLAPS

-----------------------------------------------------------------------------
(* Queues *)

(* The elements of a queue, by position. *)
LEMMA ElemsByIndex ==
  ASSUME NEW S, NEW s \in Seq(S)
  PROVE  /\ ToSet(s) = {s[i] : i \in 1 .. Len(s)}
         /\ ToSet(s) \subseteq S
  BY DEF ToSet

(* An empty queue has no elements. *)
LEMMA EmptyElems == ToSet(<<>>) = {}
  BY DEF ToSet

(* A slot that holds one message. *)
LEMMA SlotElems ==
  ASSUME NEW S, NEW e \in S
  PROVE  ToSet(<<e>>) = {e} /\ <<e>> \in Seq(S)
  BY DEF ToSet

(* Joining two queues joins their elements. *)
LEMMA ConcatElems ==
  ASSUME NEW S, NEW s \in Seq(S), NEW t \in Seq(S)
  PROVE  ToSet(s \o t) = ToSet(s) \cup ToSet(t) /\ s \o t \in Seq(S)
<1>1. s \o t \in Seq(S) /\ Len(s \o t) = Len(s) + Len(t)
  OBVIOUS
<1>2. ASSUME NEW i \in 1 .. Len(s)
      PROVE  i \in 1 .. Len(s \o t) /\ (s \o t)[i] = s[i]
  OBVIOUS
<1>3. ASSUME NEW i \in 1 .. Len(t)
      PROVE  /\ i + Len(s) \in 1 .. Len(s \o t)
             /\ (s \o t)[i + Len(s)] = t[i]
  OBVIOUS
<1>4. ASSUME NEW i \in 1 .. Len(s \o t)
      PROVE  (s \o t)[i] \in ToSet(s) \cup ToSet(t)
  <2>1. CASE i <= Len(s)
    BY <2>1, ElemsByIndex
  <2>2. CASE i > Len(s)
    <3>1. i - Len(s) \in 1 .. Len(t) /\ (s \o t)[i] = t[i - Len(s)]
      BY <2>2
    <3>2. QED BY <3>1, ElemsByIndex
  <2>3. QED BY <2>1, <2>2
<1>5. ToSet(s \o t) = {(s \o t)[i] : i \in 1 .. Len(s \o t)}
  BY <1>1, ElemsByIndex
<1>6. ToSet(s) = {s[i] : i \in 1 .. Len(s)} /\ ToSet(t) = {t[i] : i \in 1 .. Len(t)}
  BY ElemsByIndex
<1>7. QED BY <1>1, <1>2, <1>3, <1>4, <1>5, <1>6

(* Adding a message at the back of a queue adds it to the elements. *)
LEMMA AppendElems ==
  ASSUME NEW S, NEW s \in Seq(S), NEW e \in S
  PROVE  ToSet(Append(s, e)) = ToSet(s) \cup {e} /\ Append(s, e) \in Seq(S)
<1>1. Append(s, e) = s \o <<e>>
  OBVIOUS
<1>2. ToSet(<<e>>) = {e} /\ <<e>> \in Seq(S)
  BY SlotElems
<1>3. ToSet(s \o <<e>>) = ToSet(s) \cup ToSet(<<e>>) /\ s \o <<e>> \in Seq(S)
  BY <1>2, ConcatElems
<1>4. QED BY <1>1, <1>2, <1>3

(* Taking the first message off a queue: it was an element, and what is    *)
(* left were elements.                                                     *)
LEMMA TailElems ==
  ASSUME NEW S, NEW s \in Seq(S), s # <<>>
  PROVE  /\ Head(s) \in ToSet(s) /\ Head(s) \in S
         /\ Tail(s) \in Seq(S) /\ ToSet(Tail(s)) \subseteq ToSet(s)
<1>1. Len(s) \in Nat \ {0} /\ Head(s) = s[1] /\ Tail(s) \in Seq(S)
  OBVIOUS
<1>2. \A i \in 1 .. Len(Tail(s)) : i + 1 \in 1 .. Len(s) /\ Tail(s)[i] = s[i + 1]
  OBVIOUS
<1>3. ToSet(Tail(s)) = {Tail(s)[i] : i \in 1 .. Len(Tail(s))}
  BY <1>1, ElemsByIndex
<1>4. QED BY <1>1, <1>2, <1>3, ElemsByIndex

-----------------------------------------------------------------------------
(* Type correctness *)

(* The first message of a queue, and what is left of the queue. *)
LEMMA HeadMsg ==
  ASSUME NEW s \in Seq(Msg), s # <<>>
  PROVE  /\ Head(s) \in Msg /\ Tail(s) \in Seq(Msg) /\ <<Head(s)>> \in Seq(Msg)
         /\ Head(s).client \in Clients /\ Head(s).kind \in Kinds
         /\ Head(s).seq \in Nat /\ Key(Head(s)) \in Clients \X Nat
<1>1. Head(s) \in Msg /\ Tail(s) \in Seq(Msg)
  OBVIOUS
<1>2. QED BY <1>1 DEF Msg, Key

(* A group of variables that does not change keeps its type. *)
LEMMA UnchangedTypes ==
  /\ EntryTypeOK /\ UNCHANGED entryVars => EntryTypeOK'
  /\ ChannelTypeOK /\ UNCHANGED channelVars => ChannelTypeOK'
  /\ TaskTypeOK /\ UNCHANGED taskVars => TaskTypeOK'
  /\ ProcTypeOK /\ UNCHANGED procVars => ProcTypeOK'
  /\ SessionTypeOK /\ UNCHANGED sessionVars => SessionTypeOK'
  /\ HostTypeOK /\ UNCHANGED hostVars => HostTypeOK'
  BY DEF entryVars, channelVars, taskVars, procVars, sessionVars, hostVars,
         EntryTypeOK, ChannelTypeOK, TaskTypeOK, ProcTypeOK, SessionTypeOK,
         HostTypeOK

(* Every step of the launcher, its processes and its hosts keeps the types. *)
LEMMA TypeStep == TypeOK /\ [Next]_vars => TypeOK'
<1> SUFFICES ASSUME TypeOK, [Next]_vars PROVE TypeOK'
  OBVIOUS
<1> USE DEF managerVars, launcherVars, entryVars, channelVars, taskVars,
            procVars, sessionVars, hostVars
<1>0. /\ EntryTypeOK /\ ChannelTypeOK /\ TaskTypeOK /\ ProcTypeOK
      /\ SessionTypeOK /\ HostTypeOK
  BY DEF TypeOK, ManagerTypeOK

<1>1. ASSUME NEW b \in Backends, Spawn(b), UNCHANGED launcherVars
      PROVE  TypeOK'
  <2>1. TaskTypeOK'
    BY <1>0, <1>1 DEF Spawn, TaskTypeOK, TaskStates
  <2>2. ProcTypeOK'
    BY <1>0, <1>1 DEF Spawn, ProcTypeOK
  <2> QED
    BY <1>0, <1>1, <2>1, <2>2, UnchangedTypes DEF Spawn, TypeOK, ManagerTypeOK
<1>2. ASSUME NEW b \in Backends, RecvInput(b), UNCHANGED launcherVars
      PROVE  TypeOK'
  <2>1. /\ stdinQ[b] \in Seq(Msg) /\ Tail(stdinQ[b]) \in Seq(Msg)
        /\ Head(stdinQ[b]) \in Msg /\ <<Head(stdinQ[b])>> \in Seq(Msg)
        /\ Head(stdinQ[b]).client \in Clients /\ Head(stdinQ[b]).seq \in Nat
        /\ Key(Head(stdinQ[b])) \in Clients \X Nat
    <3>1. stdinQ[b] \in Seq(Msg) /\ stdinQ[b] # <<>>
      BY <1>0, <1>2 DEF RecvInput, TaskTypeOK
    <3>2. QED BY <3>1, HeadMsg
  <2>2. EntryTypeOK'
    BY <1>0, <1>2, <2>1 DEF RecvInput, EntryTypeOK
  <2>3. TaskTypeOK'
    BY <1>0, <1>2, <2>1 DEF RecvInput, TaskTypeOK, TaskStates
  <2> QED
    BY <1>0, <1>2, <2>2, <2>3, UnchangedTypes
    DEF RecvInput, TypeOK, ManagerTypeOK
<1>3. ASSUME NEW b \in Backends, WriteInput(b), UNCHANGED launcherVars
      PROVE  TypeOK'
  <2>1. procIn[b] \o inflight[b] \in Seq(Msg)
    BY <1>0, <1>3 DEF TaskTypeOK, ProcTypeOK
  <2>2. TaskTypeOK'
    BY <1>0, <1>3, <2>1 DEF WriteInput, TaskTypeOK, TaskStates
  <2>3. ProcTypeOK'
    BY <1>0, <1>3, <2>1 DEF WriteInput, ProcTypeOK
  <2> QED
    BY <1>0, <1>3, <2>2, <2>3, UnchangedTypes
    DEF WriteInput, TypeOK, ManagerTypeOK
<1>4. ASSUME NEW b \in Backends, WriteFails(b), UNCHANGED launcherVars
      PROVE  TypeOK'
  <2>1. TaskTypeOK'
    BY <1>0, <1>4 DEF WriteFails, KillAndExit, TaskTypeOK, TaskStates
  <2>2. ProcTypeOK'
    BY <1>0, <1>4 DEF WriteFails, KillAndExit, ProcTypeOK
  <2> QED
    BY <1>0, <1>4, <2>1, <2>2, UnchangedTypes
    DEF WriteFails, KillAndExit, TypeOK, ManagerTypeOK
<1>5. ASSUME NEW b \in Backends, WatchdogKill(b), UNCHANGED launcherVars
      PROVE  TypeOK'
  <2>1. TaskTypeOK'
    BY <1>0, <1>5 DEF WatchdogKill, KillAndExit, TaskTypeOK, TaskStates
  <2>2. ProcTypeOK'
    BY <1>0, <1>5 DEF WatchdogKill, KillAndExit, ProcTypeOK
  <2> QED
    BY <1>0, <1>5, <2>1, <2>2, UnchangedTypes
    DEF WatchdogKill, KillAndExit, TypeOK, ManagerTypeOK
<1>6. ASSUME NEW b \in Backends, ChildExits(b), UNCHANGED launcherVars
      PROVE  TypeOK'
  <2>1. TaskTypeOK'
    BY <1>0, <1>6 DEF ChildExits, KillAndExit, TaskTypeOK, TaskStates
  <2>2. ProcTypeOK'
    BY <1>0, <1>6 DEF ChildExits, KillAndExit, ProcTypeOK
  <2> QED
    BY <1>0, <1>6, <2>1, <2>2, UnchangedTypes
    DEF ChildExits, KillAndExit, TypeOK, ManagerTypeOK
<1>7. ASSUME NEW b \in Backends, DisconnectClients(b), UNCHANGED launcherVars
      PROVE  TypeOK'
  <2>1. EntryTypeOK'
    BY <1>0, <1>7 DEF DisconnectClients, Disconnected, EntryTypeOK
  <2>2. TaskTypeOK'
    BY <1>0, <1>7 DEF DisconnectClients, Disconnected, TaskTypeOK, TaskStates
  <2>3. ProcTypeOK'
    BY <1>0, <1>7 DEF DisconnectClients, Disconnected, ProcTypeOK
  <2> QED
    BY <1>0, <1>7, <2>1, <2>2, <2>3, UnchangedTypes
    DEF DisconnectClients, Disconnected, TypeOK, ManagerTypeOK
<1>8. ASSUME NEW b \in Backends, RestartAfterDelay(b)
      PROVE  TypeOK'
  <2>1. TaskTypeOK'
    BY <1>0, <1>8
    DEF RestartAfterDelay, EndRestartDelay, Drained, TaskTypeOK, TaskStates
  <2> QED
    BY <1>0, <1>8, <2>1, UnchangedTypes
    DEF RestartAfterDelay, EndRestartDelay, Drained, TypeOK, ManagerTypeOK
<1>9. ASSUME NEW b \in Backends, RouteReply(b), UNCHANGED launcherVars
      PROVE  TypeOK'
  <2>1. /\ procOut[b] \in Seq(Msg) /\ Tail(procOut[b]) \in Seq(Msg)
        /\ Head(procOut[b]) \in Msg /\ <<Head(procOut[b])>> \in Seq(Msg)
        /\ Head(procOut[b]).client \in Clients /\ Head(procOut[b]).seq \in Nat
        /\ Key(Head(procOut[b])) \in Clients \X Nat
    <3>1. procOut[b] \in Seq(Msg) /\ procOut[b] # <<>>
      BY <1>0, <1>9 DEF RouteReply, ProcTypeOK
    <3>2. QED BY <3>1, HeadMsg
  <2>2. Append(outQ[Head(procOut[b]).client], Head(procOut[b])) \in Seq(Msg)
    BY <1>0, <1>9, <2>1 DEF ChannelTypeOK
  <2>3. ChannelTypeOK'
    BY <1>0, <1>9, <2>1, <2>2 DEF RouteReply, Untrack, ChannelTypeOK
  <2>4. TaskTypeOK'
    BY <1>0, <1>9, <2>1, <2>2 DEF RouteReply, Untrack, TaskTypeOK, TaskStates
  <2>5. ProcTypeOK'
    BY <1>0, <1>9, <2>1, <2>2 DEF RouteReply, Untrack, ProcTypeOK
  <2> QED
    BY <1>0, <1>9, <2>3, <2>4, <2>5, UnchangedTypes
    DEF RouteReply, Untrack, TypeOK, ManagerTypeOK
<1>10. ASSUME NEW b \in Backends, SendCompletes(b), UNCHANGED launcherVars
      PROVE  TypeOK'
  <2>1. /\ sending[b] \in Seq(Msg) /\ Tail(sending[b]) \in Seq(Msg)
        /\ Head(sending[b]) \in Msg /\ <<Head(sending[b])>> \in Seq(Msg)
        /\ Head(sending[b]).client \in Clients /\ Head(sending[b]).seq \in Nat
        /\ Key(Head(sending[b])) \in Clients \X Nat
    <3>1. sending[b] \in Seq(Msg) /\ sending[b] # <<>>
      BY <1>0, <1>10 DEF SendCompletes, TaskTypeOK
    <3>2. QED BY <3>1, HeadMsg
  <2>2. Append(outQ[Head(sending[b]).client], Head(sending[b])) \in Seq(Msg)
    BY <1>0, <1>10, <2>1 DEF ChannelTypeOK
  <2>3. ChannelTypeOK'
    BY <1>0, <1>10, <2>1, <2>2 DEF SendCompletes, ChannelTypeOK
  <2>4. TaskTypeOK'
    BY <1>0, <1>10, <2>1, <2>2 DEF SendCompletes, TaskTypeOK, TaskStates
  <2> QED
    BY <1>0, <1>10, <2>3, <2>4, UnchangedTypes
    DEF SendCompletes, TypeOK, ManagerTypeOK
<1>11. ASSUME NEW b \in Backends, SendTimesOut(b), UNCHANGED launcherVars
      PROVE  TypeOK'
  <2>1. /\ sending[b] \in Seq(Msg) /\ Tail(sending[b]) \in Seq(Msg)
        /\ Head(sending[b]) \in Msg /\ <<Head(sending[b])>> \in Seq(Msg)
        /\ Head(sending[b]).client \in Clients /\ Head(sending[b]).seq \in Nat
        /\ Key(Head(sending[b])) \in Clients \X Nat
    <3>1. sending[b] \in Seq(Msg) /\ sending[b] # <<>>
      BY <1>0, <1>11 DEF SendTimesOut, TaskTypeOK
    <3>2. QED BY <3>1, HeadMsg
  <2>2. EntryTypeOK'
    BY <1>0, <1>11, <2>1 DEF SendTimesOut, ForceDisconnected, EntryTypeOK
  <2>3. TaskTypeOK'
    BY <1>0, <1>11, <2>1
    DEF SendTimesOut, ForceDisconnected, TaskTypeOK, TaskStates
  <2> QED
    BY <1>0, <1>11, <2>2, <2>3, UnchangedTypes
    DEF SendTimesOut, ForceDisconnected, TypeOK, ManagerTypeOK
<1>12. ASSUME NEW b \in Backends, BackendHandles(b), UNCHANGED launcherVars
      PROVE  TypeOK'
  <2>1. /\ procIn[b] \in Seq(Msg) /\ Tail(procIn[b]) \in Seq(Msg)
        /\ Head(procIn[b]) \in Msg /\ <<Head(procIn[b])>> \in Seq(Msg)
        /\ Head(procIn[b]).client \in Clients /\ Head(procIn[b]).seq \in Nat
        /\ Key(Head(procIn[b])) \in Clients \X Nat
    <3>1. procIn[b] \in Seq(Msg) /\ procIn[b] # <<>>
      BY <1>0, <1>12 DEF BackendHandles, Forgets, ProcTypeOK
    <3>2. QED BY <3>1, HeadMsg
  <2>2. ProcTypeOK'
    BY <1>0, <1>12, <2>1 DEF BackendHandles, Forgets, ProcTypeOK
  <2> QED
    BY <1>0, <1>12, <2>2, UnchangedTypes
    DEF BackendHandles, Forgets, TypeOK, ManagerTypeOK
<1>13. ASSUME NEW b \in Backends, StdoutReadError(b), UNCHANGED launcherVars
      PROVE  TypeOK'
  <2>1. TaskTypeOK'
    BY <1>0, <1>13 DEF StdoutReadError, TaskTypeOK, TaskStates
  <2> QED
    BY <1>0, <1>13, <2>1, UnchangedTypes
    DEF StdoutReadError, TypeOK, ManagerTypeOK
<1>14. ASSUME NEW b \in Backends, BackendHangs(b), UNCHANGED launcherVars
      PROVE  TypeOK'
  <2>1. ProcTypeOK'
    BY <1>0, <1>14 DEF BackendHangs, ProcTypeOK
  <2> QED
    BY <1>0, <1>14, <2>1, UnchangedTypes
    DEF BackendHangs, TypeOK, ManagerTypeOK
<1>15. ASSUME NEW b \in Backends, BackendCrashes(b), UNCHANGED launcherVars
      PROVE  TypeOK'
  <2>1. ProcTypeOK'
    BY <1>0, <1>15 DEF BackendCrashes, ProcTypeOK
  <2> QED
    BY <1>0, <1>15, <2>1, UnchangedTypes
    DEF BackendCrashes, TypeOK, ManagerTypeOK
<1>16. ASSUME NEW c \in Clients, HostConnect(c)
      PROVE  TypeOK'
  <2>1. SessionTypeOK'
    BY <1>0, <1>16 DEF HostConnect, SessAt, SessionTypeOK, SessStates
  <2>2. HostTypeOK'
    BY <1>0, <1>16 DEF HostConnect, SessAt, HostTypeOK
  <2> QED
    BY <1>0, <1>16, <2>1, <2>2, UnchangedTypes
    DEF HostConnect, SessAt, TypeOK, ManagerTypeOK
<1>17. ASSUME NEW c \in Clients, HostSend(c)
      PROVE  TypeOK'
  <2> DEFINE n == hostSeq[c] + 1
             m == [client |-> c, kind |-> IF n = 1 THEN "init" ELSE "req",
                   seq |-> n]
  <2>1. m \in Msg /\ n \in Nat
    BY <1>0, <1>17 DEF HostTypeOK, Msg, Kinds
  <2>2. Append(toServer[c], m) \in Seq(Msg)
    BY <1>0, <1>17, <2>1 DEF HostTypeOK
  <2>3. HostTypeOK'
    BY <1>0, <1>17, <2>1, <2>2 DEF HostSend, HostTypeOK
  <2> QED
    BY <1>0, <1>17, <2>3, UnchangedTypes DEF HostSend, TypeOK, ManagerTypeOK
<1>18. ASSUME NEW c \in Clients, HostRecv(c)
      PROVE  TypeOK'
  <2>1. /\ toClient[c] \in Seq(Msg) /\ Tail(toClient[c]) \in Seq(Msg)
        /\ Head(toClient[c]) \in Msg /\ <<Head(toClient[c])>> \in Seq(Msg)
        /\ Head(toClient[c]).client \in Clients /\ Head(toClient[c]).seq \in Nat
        /\ Key(Head(toClient[c])) \in Clients \X Nat
    <3>1. toClient[c] \in Seq(Msg) /\ toClient[c] # <<>>
      BY <1>0, <1>18 DEF HostRecv, HostTypeOK
    <3>2. QED BY <3>1, HeadMsg
  <2>2. HostTypeOK'
    BY <1>0, <1>18, <2>1 DEF HostRecv, HostTypeOK
  <2> QED
    BY <1>0, <1>18, <2>2, UnchangedTypes DEF HostRecv, TypeOK, ManagerTypeOK
<1>19. ASSUME NEW c \in Clients, HostClose(c)
      PROVE  TypeOK'
  <2>1. HostTypeOK'
    BY <1>0, <1>19 DEF HostClose, HostTypeOK
  <2> QED
    BY <1>0, <1>19, <2>1, UnchangedTypes DEF HostClose, TypeOK, ManagerTypeOK
<1>20. ASSUME NEW c \in Clients, AcceptHandshake(c)
      PROVE  TypeOK'
  <2>1. EntryTypeOK'
    BY <1>0, <1>20 DEF AcceptHandshake, SessAt, EntryTypeOK
  <2>2. SessionTypeOK'
    BY <1>0, <1>20 DEF AcceptHandshake, SessAt, SessionTypeOK, SessStates
  <2> QED
    BY <1>0, <1>20, <2>1, <2>2, UnchangedTypes
    DEF AcceptHandshake, SessAt, TypeOK, ManagerTypeOK
<1>21. ASSUME NEW c \in Clients, AcceptFails(c)
      PROVE  TypeOK'
  <2>1. SessionTypeOK'
    BY <1>0, <1>21 DEF AcceptFails, SessAt, SessionTypeOK, SessStates
  <2> QED
    BY <1>0, <1>21, <2>1, UnchangedTypes
    DEF AcceptFails, SessAt, TypeOK, ManagerTypeOK
<1>22. ASSUME NEW c \in Clients, AcceptGetInput(c)
      PROVE  TypeOK'
  <2>1. TaskTypeOK'
    BY <1>0, <1>22
    DEF AcceptGetInput, SessAt, GetBackendInput, TaskTypeOK, TaskStates
  <2>2. SessionTypeOK'
    BY <1>0, <1>22
    DEF AcceptGetInput, SessAt, GetBackendInput, SessionTypeOK, SessStates
  <2> QED
    BY <1>0, <1>22, <2>1, <2>2, UnchangedTypes
    DEF AcceptGetInput, SessAt, GetBackendInput, TypeOK, ManagerTypeOK
<1>23. ASSUME NEW c \in Clients, AcceptRegister(c)
      PROVE  TypeOK'
  <2>1. EntryTypeOK'
    BY <1>0, <1>23 DEF AcceptRegister, SessAt, RegisterClient, EntryTypeOK
  <2>2. ChannelTypeOK'
    BY <1>0, <1>23 DEF AcceptRegister, SessAt, RegisterClient, ChannelTypeOK
  <2>3. SessionTypeOK'
    BY <1>0, <1>23
    DEF AcceptRegister, SessAt, RegisterClient, SessionTypeOK, SessStates
  <2> QED
    BY <1>0, <1>23, <2>1, <2>2, <2>3, UnchangedTypes
    DEF AcceptRegister, SessAt, RegisterClient, TypeOK, ManagerTypeOK
<1>24. ASSUME NEW c \in Clients, AcceptSendHandshake(c)
      PROVE  TypeOK'
  <2>1. /\ toServer[c] \in Seq(Msg) /\ Tail(toServer[c]) \in Seq(Msg)
        /\ Head(toServer[c]) \in Msg /\ <<Head(toServer[c])>> \in Seq(Msg)
        /\ Head(toServer[c]).client \in Clients /\ Head(toServer[c]).seq \in Nat
        /\ Key(Head(toServer[c])) \in Clients \X Nat
    <3>1. toServer[c] \in Seq(Msg) /\ toServer[c] # <<>>
      BY <1>0, <1>24 DEF AcceptSendHandshake, SendLine, SessAt, HostTypeOK
    <3>2. QED BY <3>1, HeadMsg
  <2>2. stdinQ[backendOf[c]] \in Seq(Msg) =>
          Append(stdinQ[backendOf[c]], Head(toServer[c])) \in Seq(Msg)
    BY <1>0, <1>24, <2>1
  <2>3. TaskTypeOK'
    BY <1>0, <1>24, <2>1, <2>2
    DEF AcceptSendHandshake, SessAt, SendLine, Enqueue, TaskTypeOK, TaskStates
  <2>4. SessionTypeOK'
    BY <1>0, <1>24, <2>1, <2>2
    DEF AcceptSendHandshake, SessAt, SendLine, Enqueue, SessionTypeOK,
        SessStates
  <2>5. HostTypeOK'
    BY <1>0, <1>24, <2>1, <2>2
    DEF AcceptSendHandshake, SessAt, SendLine, Enqueue, HostTypeOK
  <2> QED
    BY <1>0, <1>24, <2>3, <2>4, <2>5, UnchangedTypes
    DEF AcceptSendHandshake, SessAt, SendLine, Enqueue, TypeOK, ManagerTypeOK
<1>25. ASSUME NEW c \in Clients, ReadClient(c)
      PROVE  TypeOK'
  <2>1. SessionTypeOK'
    BY <1>0, <1>25 DEF ReadClient, SessionTypeOK, SessStates
  <2> QED
    BY <1>0, <1>25, <2>1, UnchangedTypes DEF ReadClient, TypeOK, ManagerTypeOK
<1>26. ASSUME NEW c \in Clients, SendClientLine(c)
      PROVE  TypeOK'
  <2>1. /\ toServer[c] \in Seq(Msg) /\ Tail(toServer[c]) \in Seq(Msg)
        /\ Head(toServer[c]) \in Msg /\ <<Head(toServer[c])>> \in Seq(Msg)
        /\ Head(toServer[c]).client \in Clients /\ Head(toServer[c]).seq \in Nat
        /\ Key(Head(toServer[c])) \in Clients \X Nat
    <3>1. toServer[c] \in Seq(Msg) /\ toServer[c] # <<>>
      BY <1>0, <1>26 DEF SendClientLine, SendLine, SessAt, HostTypeOK
    <3>2. QED BY <3>1, HeadMsg
  <2>2. stdinQ[backendOf[c]] \in Seq(Msg) =>
          Append(stdinQ[backendOf[c]], Head(toServer[c])) \in Seq(Msg)
    BY <1>0, <1>26, <2>1
  <2>3. TaskTypeOK'
    BY <1>0, <1>26, <2>1, <2>2
    DEF SendClientLine, SessAt, SendLine, Enqueue, TaskTypeOK, TaskStates
  <2>4. SessionTypeOK'
    BY <1>0, <1>26, <2>1, <2>2
    DEF SendClientLine, SessAt, SendLine, Enqueue, SessionTypeOK, SessStates
  <2>5. HostTypeOK'
    BY <1>0, <1>26, <2>1, <2>2
    DEF SendClientLine, SessAt, SendLine, Enqueue, HostTypeOK
  <2> QED
    BY <1>0, <1>26, <2>3, <2>4, <2>5, UnchangedTypes
    DEF SendClientLine, SessAt, SendLine, Enqueue, TypeOK, ManagerTypeOK
<1>27. ASSUME NEW c \in Clients, ReadEof(c)
      PROVE  TypeOK'
  <2>1. SessionTypeOK'
    BY <1>0, <1>27 DEF ReadEof, SessAt, SessionTypeOK, SessStates
  <2> QED
    BY <1>0, <1>27, <2>1, UnchangedTypes
    DEF ReadEof, SessAt, TypeOK, ManagerTypeOK
<1>28. ASSUME NEW c \in Clients, RecvReply(c)
      PROVE  TypeOK'
  <2>1. /\ outQ[c] \in Seq(Msg) /\ Tail(outQ[c]) \in Seq(Msg)
        /\ Head(outQ[c]) \in Msg /\ <<Head(outQ[c])>> \in Seq(Msg)
        /\ Head(outQ[c]).client \in Clients /\ Head(outQ[c]).seq \in Nat
        /\ Key(Head(outQ[c])) \in Clients \X Nat
    <3>1. outQ[c] \in Seq(Msg) /\ outQ[c] # <<>>
      BY <1>0, <1>28 DEF RecvReply, SessAt, ChannelTypeOK
    <3>2. QED BY <3>1, HeadMsg
  <2>2. ChannelTypeOK'
    BY <1>0, <1>28, <2>1 DEF RecvReply, SessAt, ChannelTypeOK
  <2>3. SessionTypeOK'
    BY <1>0, <1>28, <2>1 DEF RecvReply, SessAt, SessionTypeOK, SessStates
  <2> QED
    BY <1>0, <1>28, <2>2, <2>3, UnchangedTypes
    DEF RecvReply, SessAt, TypeOK, ManagerTypeOK
<1>29. ASSUME NEW c \in Clients, WriteReply(c)
      PROVE  TypeOK'
  <2>1. toClient[c] \o hold[c] \in Seq(Msg)
    BY <1>0, <1>29 DEF SessionTypeOK, HostTypeOK
  <2>2. SessionTypeOK'
    BY <1>0, <1>29, <2>1 DEF WriteReply, SessAt, SessionTypeOK, SessStates
  <2>3. HostTypeOK'
    BY <1>0, <1>29, <2>1 DEF WriteReply, SessAt, HostTypeOK
  <2> QED
    BY <1>0, <1>29, <2>2, <2>3, UnchangedTypes
    DEF WriteReply, SessAt, TypeOK, ManagerTypeOK
<1>30. ASSUME NEW c \in Clients, WriteReplyFails(c)
      PROVE  TypeOK'
  <2>1. SessionTypeOK'
    BY <1>0, <1>30 DEF WriteReplyFails, SessAt, SessionTypeOK, SessStates
  <2> QED
    BY <1>0, <1>30, <2>1, UnchangedTypes
    DEF WriteReplyFails, SessAt, TypeOK, ManagerTypeOK
<1>31. ASSUME NEW c \in Clients, RecvClosed(c)
      PROVE  TypeOK'
  <2>1. SessionTypeOK'
    BY <1>0, <1>31 DEF RecvClosed, SessAt, SessionTypeOK, SessStates
  <2> QED
    BY <1>0, <1>31, <2>1, UnchangedTypes
    DEF RecvClosed, SessAt, TypeOK, ManagerTypeOK
<1>32. ASSUME NEW c \in Clients, Unregister(c)
      PROVE  TypeOK'
  <2>1. CloseSeqNum(c) \in Nat
    BY <1>0, <1>32 DEF CloseSeqNum, EntryTypeOK
  <2>2. EntryTypeOK'
    BY <1>0, <1>32, <2>1 DEF Unregister, SessAt, WithoutEntry, EntryTypeOK
  <2>3. SessionTypeOK'
    BY <1>0, <1>32, <2>1
    DEF Unregister, SessAt, WithoutEntry, SessionTypeOK, SessStates
  <2> QED
    BY <1>0, <1>32, <2>2, <2>3, UnchangedTypes
    DEF Unregister, SessAt, WithoutEntry, TypeOK, ManagerTypeOK
<1>33. ASSUME NEW c \in Clients, SendClose(c)
      PROVE  TypeOK'
  <2> DEFINE m == [client |-> c, kind |-> "close", seq |-> closeSeq[c]]
  <2>1. m \in Msg
    BY <1>0, <1>33 DEF SessionTypeOK, Msg, Kinds
  <2>2. stdinQ[backendOf[c]] \in Seq(Msg) =>
          Append(stdinQ[backendOf[c]], m) \in Seq(Msg)
    BY <1>0, <1>33, <2>1
  <2>3. ChannelTypeOK'
    BY <1>0, <1>33, <2>1, <2>2 DEF SendClose, SessAt, Enqueue, ChannelTypeOK
  <2>4. TaskTypeOK'
    BY <1>0, <1>33, <2>1, <2>2
    DEF SendClose, SessAt, Enqueue, TaskTypeOK, TaskStates
  <2>5. SessionTypeOK'
    BY <1>0, <1>33, <2>1, <2>2
    DEF SendClose, SessAt, Enqueue, SessionTypeOK, SessStates
  <2> QED
    BY <1>0, <1>33, <2>3, <2>4, <2>5, UnchangedTypes
    DEF SendClose, SessAt, Enqueue, TypeOK, ManagerTypeOK
<1>34. CASE UNCHANGED vars
  BY <1>0, <1>34, UnchangedTypes DEF vars, TypeOK, ManagerTypeOK
<1>35. QED
  BY <1>1, <1>2, <1>3, <1>4, <1>5, <1>6, <1>7, <1>8, <1>9, <1>10, <1>11, <1>12,
      <1>13, <1>14, <1>15, <1>16, <1>17, <1>18, <1>19, <1>20, <1>21, <1>22,
      <1>23, <1>24, <1>25, <1>26, <1>27, <1>28, <1>29, <1>30, <1>31, <1>32,
      <1>33, <1>34
  DEF Next, BackendStep, HostStep, AcceptStep, SessionStep

(* The launcher starts with empty tables and queues. *)
LEMMA TypeInit == Init => TypeOK
<1> SUFFICES ASSUME Init PROVE TypeOK
  OBVIOUS
<1>1. <<>> \in Seq(Msg)
  OBVIOUS
<1>2. EntryTypeOK /\ ChannelTypeOK
  BY <1>1 DEF Init, ManagerInit, EntryTypeOK, ChannelTypeOK
<1>3. TaskTypeOK
  BY <1>1 DEF Init, ManagerInit, TaskTypeOK, TaskStates
<1>4. ProcTypeOK
  BY <1>1 DEF Init, ManagerInit, ProcTypeOK
<1>5. SessionTypeOK
  BY <1>1 DEF Init, SessionTypeOK, SessStates
<1>6. HostTypeOK
  BY <1>1 DEF Init, HostTypeOK
<1>7. QED
  BY <1>2, <1>3, <1>4, <1>5, <1>6 DEF TypeOK, ManagerTypeOK

(* The launcher, the processes and the hosts keep every variable in its    *)
(* type, for any number of connections, backends and any capacities.       *)
THEOREM TypeCorrect == Spec => []TypeOK
  BY TypeInit, TypeStep, PTL DEF Spec

=============================================================================
