------------------------------ MODULE Launcher ------------------------------
(***************************************************************************)
(* PIMELauncher's worker: the pipe server (pipe_server.rs) and the client  *)
(* sessions (client_session.rs) composed with the backend manager, and the *)
(* hosts at the other end of the pipes.                                    *)
(*                                                                         *)
(* The task of one connection is a thread of its own: each action below    *)
(* stands for what it does between two awaits, so connections, backend     *)
(* tasks and processes interleave freely.                                  *)
(***************************************************************************)
EXTENDS BackendManager, SequencesExt

CONSTANTS
  MaxSeq,          \* bound: messages the host of each connection sends
  MaxInFlight,     \* messages a host sends ahead of the replies (1: the DLL)
  PromptSessions   \* whether sessions notice a disconnect within the delay

ASSUME HostAssumption == /\ MaxSeq \in [Clients -> Nat \ {0}]
                         /\ MaxInFlight \in Nat \ {0}
                         /\ PromptSessions \in BOOLEAN

VARIABLES
  sess,       \* where handle_client stands for each connection
  hold,       \* the reply a session is writing to its pipe
  closeSeq,   \* the number of the close message still to be sent, or 0
  toServer,   \* the pipe, host to launcher
  toClient,   \* the pipe, launcher to host
  hostOpen,   \* the host has the pipe open
  hostSeq,    \* sequence number of the host's last message
  lastRecv,   \* sequence number of the last reply the host received
  inited      \* the host has received the reply to its init

sessionVars == <<sess, hold, closeSeq>>
hostVars    == <<toServer, toClient, hostOpen, hostSeq, lastRecv, inited>>
launcherVars == <<sessionVars, hostVars>>
vars == <<managerVars, launcherVars>>

SessStates == {"idle", "accepting", "resolved", "gotInput", "handshake",
               "running", "sending", "writing", "ended", "closing", "done"}

Init ==
  /\ ManagerInit
  /\ sess     = [c \in Clients |-> "idle"]
  /\ hold     = [c \in Clients |-> <<>>]
  /\ closeSeq = [c \in Clients |-> 0]
  /\ toServer = [c \in Clients |-> <<>>]
  /\ toClient = [c \in Clients |-> <<>>]
  /\ hostOpen = [c \in Clients |-> FALSE]
  /\ hostSeq  = [c \in Clients |-> 0]
  /\ lastRecv = [c \in Clients |-> 0]
  /\ inited   = [c \in Clients |-> FALSE]

SessAt(c, from, to) == sess[c] = from /\ sess' = [sess EXCEPT ![c] = to]

-----------------------------------------------------------------------------
(* The host: PIMETextService in an application, as the pipe server sees it.*)

HostConnect(c) ==
  /\ SessAt(c, "idle", "accepting")
  /\ hostOpen' = [hostOpen EXCEPT ![c] = TRUE]
  /\ UNCHANGED <<managerVars, hold, closeSeq, toServer, toClient, hostSeq,
                 lastRecv, inited>>

(* The first message is the init handshake; requests follow.               *)
HostSend(c) ==
  LET n == hostSeq[c] + 1
      m == [client |-> c, kind |-> IF n = 1 THEN "init" ELSE "req", seq |-> n]
  IN
  /\ hostOpen[c] /\ sess[c] # "done"
  /\ n <= MaxSeq[c]
  /\ n <= lastRecv[c] + MaxInFlight
  /\ hostSeq' = [hostSeq EXCEPT ![c] = n]
  /\ toServer' = [toServer EXCEPT ![c] = Append(@, m)]
  /\ UNCHANGED <<managerVars, sessionVars, toClient, hostOpen, lastRecv,
                 inited>>

HostRecv(c) ==
  LET r == Head(toClient[c]) IN
  /\ hostOpen[c] /\ toClient[c] # <<>>
  /\ toClient' = [toClient EXCEPT ![c] = Tail(@)]
  /\ lastRecv' = [lastRecv EXCEPT ![c] = r.seq]
  /\ inited' = [inited EXCEPT ![c] = @ \/ r.kind = "init"]
  /\ UNCHANGED <<managerVars, sessionVars, toServer, hostOpen, hostSeq>>

(* A timeout, a deactivation, the end of the application.                  *)
HostClose(c) ==
  /\ hostOpen[c]
  /\ hostOpen' = [hostOpen EXCEPT ![c] = FALSE]
  /\ toClient' = [toClient EXCEPT ![c] = <<>>]
  /\ UNCHANGED <<managerVars, sessionVars, toServer, hostSeq, lastRecv,
                 inited>>

-----------------------------------------------------------------------------
(* accept_client. *)

(* The first line names a backend that the registry knows.                 *)
AcceptHandshake(c) ==
  /\ toServer[c] # <<>>
  /\ SessAt(c, "accepting", "resolved")
  /\ \E b \in Backends : backendOf' = [backendOf EXCEPT ![c] = b]
  /\ UNCHANGED <<registered, lastSeq, channelVars, taskVars, procVars, hold,
                 closeSeq, hostVars>>

(* The first line is no init or names no backend, or the host has left.    *)
AcceptFails(c) ==
  /\ toServer[c] # <<>> \/ ~hostOpen[c]
  /\ SessAt(c, "accepting", "done")
  /\ UNCHANGED <<managerVars, hold, closeSeq, hostVars>>

AcceptGetInput(c) ==
  /\ SessAt(c, "resolved", "gotInput")
  /\ GetBackendInput(backendOf[c])
  /\ UNCHANGED <<entryVars, channelVars, stdinQ, inflight, pending, sending,
                 readerOn, procVars, hold, closeSeq, hostVars>>

AcceptRegister(c) ==
  /\ SessAt(c, "gotInput", "handshake")
  /\ RegisterClient(c)
  /\ UNCHANGED <<backendOf, taskVars, procVars, hold, closeSeq, hostVars>>

(* A send on the backend's input channel takes the line read last off the  *)
(* pipe, and waits while the channel is full.                              *)
SendLine(c, from) ==
  /\ SessAt(c, from, "running")
  /\ toServer[c] # <<>>
  /\ Enqueue(backendOf[c], Head(toServer[c]))
  /\ toServer' = [toServer EXCEPT ![c] = Tail(@)]
  /\ UNCHANGED <<entryVars, channelVars, task, inflight, pending, sending,
                 readerOn, procVars, hold, closeSeq, toClient, hostOpen,
                 hostSeq, lastRecv, inited>>

AcceptSendHandshake(c) == SendLine(c, "handshake")

-----------------------------------------------------------------------------
(* ClientSession::run. *)

(* Where the session waits in its select.  The first form goes on serving  *)
(* the pipe when the connection has been unregistered.                     *)
ServesAlways(c) ==
  sess[c] \in {"running", "done"} /\ backendOf[c] # NoBackend
Serves(c)       == sess[c] = "running"

ReadClient(c) ==
  /\ Serves(c)
  /\ toServer[c] # <<>>
  /\ sess' = [sess EXCEPT ![c] = "sending"]
  /\ UNCHANGED <<managerVars, hold, closeSeq, hostVars>>

SendClientLine(c) == SendLine(c, "sending")

(* The pipe is closed and everything in it has been read.                  *)
ReadEof(c) ==
  /\ SessAt(c, "running", "ended")
  /\ ~hostOpen[c] /\ toServer[c] = <<>>
  /\ UNCHANGED <<managerVars, hold, closeSeq, hostVars>>

RecvReply(c) ==
  /\ SessAt(c, "running", "writing")
  /\ outQ[c] # <<>>
  /\ outQ' = [outQ EXCEPT ![c] = Tail(@)]
  /\ hold' = [hold EXCEPT ![c] = <<Head(outQ[c])>>]
  /\ UNCHANGED <<entryVars, rxOpen, taskVars, procVars, closeSeq, hostVars>>

WriteReply(c) ==
  /\ SessAt(c, "writing", "running")
  /\ hostOpen[c]
  /\ Len(toClient[c]) < PipeCap
  /\ toClient' = [toClient EXCEPT ![c] = @ \o hold[c]]
  /\ hold' = [hold EXCEPT ![c] = <<>>]
  /\ UNCHANGED <<managerVars, closeSeq, toServer, hostOpen, hostSeq, lastRecv,
                 inited>>

WriteReplyFails(c) ==
  /\ SessAt(c, "writing", "ended")
  /\ ~hostOpen[c]
  /\ hold' = [hold EXCEPT ![c] = <<>>]
  /\ UNCHANGED <<managerVars, closeSeq, hostVars>>

(* The output channel is empty and no sender is left: not the entry's, and *)
(* not the clone of a router that waits for room.  The first form does not *)
(* end the session then.                                                   *)
NeverClosed(c)   == FALSE
ChannelClosed(c) ==
  /\ outQ[c] = <<>>
  /\ c \notin registered
  /\ \A b \in Backends :
       \A i \in DOMAIN sending[b] : sending[b][i].client # c

RecvClosed(c) ==
  /\ ChannelClosed(c)
  /\ SessAt(c, "running", "ended")
  /\ UNCHANGED <<managerVars, hold, closeSeq, hostVars>>

-----------------------------------------------------------------------------
(* unregister_client: the entry goes, then the close message is sent.      *)

Unregister(c) ==
  /\ SessAt(c, "ended", "closing")
  /\ registered' = WithoutEntry(c)
  /\ closeSeq' = [closeSeq EXCEPT ![c] = CloseSeqNum(c)]
  /\ UNCHANGED <<lastSeq, backendOf, channelVars, taskVars, procVars, hold,
                 hostVars>>

(* The session, and with it the pipe, is dropped when the close is sent.   *)
SendClose(c) ==
  /\ SessAt(c, "closing", "done")
  /\ Enqueue(backendOf[c],
             [client |-> c, kind |-> "close", seq |-> closeSeq[c]])
  /\ closeSeq' = [closeSeq EXCEPT ![c] = 0]
  /\ rxOpen' = [rxOpen EXCEPT ![c] = FALSE]
  /\ outQ' = [outQ EXCEPT ![c] = <<>>]
  /\ UNCHANGED <<entryVars, task, inflight, pending, sending, readerOn,
                 procVars, hold, hostVars>>

-----------------------------------------------------------------------------
(* The restart delay is a second long.  With PromptSessions it is long     *)
(* enough for every session whose channel was closed to notice it.         *)
SessionsNoticed(b) ==
  \A c \in Clients :
    backendOf[c] = b /\ c \notin registered =>
      sess[c] \in {"resolved", "gotInput", "done"}

RestartAfterDelay(b) ==
  /\ PromptSessions => SessionsNoticed(b)
  /\ EndRestartDelay(b)
  /\ UNCHANGED launcherVars

BackendStep(b) ==
  \/ Spawn(b) /\ UNCHANGED launcherVars
  \/ RecvInput(b) /\ UNCHANGED launcherVars
  \/ WriteInput(b) /\ UNCHANGED launcherVars
  \/ WriteFails(b) /\ UNCHANGED launcherVars
  \/ WatchdogKill(b) /\ UNCHANGED launcherVars
  \/ ChildExits(b) /\ UNCHANGED launcherVars
  \/ DisconnectClients(b) /\ UNCHANGED launcherVars
  \/ RestartAfterDelay(b)
  \/ RouteReply(b) /\ UNCHANGED launcherVars
  \/ SendCompletes(b) /\ UNCHANGED launcherVars
  \/ SendTimesOut(b) /\ UNCHANGED launcherVars
  \/ BackendHandles(b) /\ UNCHANGED launcherVars
  \/ StdoutReadError(b) /\ UNCHANGED launcherVars
  \/ BackendHangs(b) /\ UNCHANGED launcherVars
  \/ BackendCrashes(b) /\ UNCHANGED launcherVars

HostStep(c) == HostConnect(c) \/ HostSend(c) \/ HostRecv(c) \/ HostClose(c)

AcceptStep(c) ==
  \/ AcceptHandshake(c) \/ AcceptFails(c) \/ AcceptGetInput(c)
  \/ AcceptRegister(c) \/ AcceptSendHandshake(c)

SessionStep(c) ==
  \/ ReadClient(c) \/ SendClientLine(c) \/ ReadEof(c) \/ RecvReply(c)
  \/ WriteReply(c) \/ WriteReplyFails(c) \/ RecvClosed(c)
  \/ Unregister(c) \/ SendClose(c)

Next ==
  \/ \E b \in Backends : BackendStep(b)
  \/ \E c \in Clients : HostStep(c) \/ AcceptStep(c) \/ SessionStep(c)

Spec == Init /\ [][Next]_vars

(* Every task and every healthy process keeps running; hosts read replies. *)
(* Faults, new connections, requests and closes are never forced.          *)
Fairness ==
  /\ \A b \in Backends :
       /\ WF_vars(TaskStep(b) /\ UNCHANGED launcherVars)
       /\ WF_vars(RestartAfterDelay(b))
       /\ WF_vars(RouterStep(b) /\ UNCHANGED launcherVars)
       /\ WF_vars(BackendHandles(b) /\ UNCHANGED launcherVars)
  /\ \A c \in Clients :
       /\ WF_vars(HostRecv(c))
       /\ WF_vars(AcceptStep(c))
       /\ WF_vars(SessionStep(c))

FairSpec == Spec /\ Fairness

-----------------------------------------------------------------------------
(* Invariants *)

SessionTypeOK ==
  /\ sess \in [Clients -> SessStates]
  /\ hold \in [Clients -> Seq(Msg)]
  /\ closeSeq \in [Clients -> Nat]

HostTypeOK ==
  /\ toServer \in [Clients -> Seq(Msg)]
  /\ toClient \in [Clients -> Seq(Msg)]
  /\ hostOpen \in [Clients -> BOOLEAN]
  /\ hostSeq \in [Clients -> Nat]
  /\ lastRecv \in [Clients -> Nat]
  /\ inited \in [Clients -> BOOLEAN]

(* Every variable keeps its type. *)
TypeOK == ManagerTypeOK /\ SessionTypeOK /\ HostTypeOK

(* No session outlives its backend process: a connection that still has an *)
(* entry and whose init has been answered is known to the process that     *)
(* runs now, because a restart disconnects every client of the old one     *)
(* (backend_manager.rs 228-231).                                           *)
SessionsMatchProcess ==
  \A c \in Clients :
    c \in registered /\ inited[c] => c \in known[backendOf[c]]

(* What is on its way to backend b, oldest first.                          *)
Towards(b) == procIn[b] \o inflight[b] \o stdinQ[b]

(* The close message is the last a backend gets from a connection: nothing *)
(* follows it, in any queue on the way, and the session adds no more.      *)
CloseIsLast ==
  \A b \in Backends :
    LET s == Towards(b) IN
    \A i \in DOMAIN s : s[i].kind = "close" =>
      /\ sess[s[i].client] = "done"
      /\ \A j \in DOMAIN s : j > i => s[j].client # s[i].client

(* The watchdog sees every call the running process still owes an answer:  *)
(* an init or a request that has been handed over stays in                 *)
(* pending_requests until its reply is routed.  A reply to another call    *)
(* never removes it.                                                       *)
WatchdogSeesUnanswered ==
  \A b \in Backends : task[b] \in {"running", "writing"} =>
    \A m \in ToSet(procIn[b] \o inflight[b] \o procOut[b]) :
      m.kind # "close" => Key(m) \in pending[b]

(* The watchdog holds nothing against a process that has answered: while   *)
(* the process lives, a tracked call is still on its way to it, in it, or  *)
(* on its way back to the router, whoever has been disconnected meanwhile. *)
TrackedUnanswered ==
  \A b \in Backends : task[b] \in {"running", "writing"} /\ alive[b] =>
    \A k \in pending[b] :
      \E m \in ToSet(procIn[b] \o inflight[b] \o procOut[b]) : Key(m) = k

(* What lies between the host's last reply and its last message, in the    *)
(* order in which the host will see it answered, among the messages of     *)
(* other connections.  What a dead process had not read will not be        *)
(* answered.                                                               *)
Pipeline(c) ==
  LET b == backendOf[c]
      replies  == toClient[c] \o hold[c] \o outQ[c]
      routed   == sending[b] \o procOut[b]
      requests == Towards(b) \o toServer[c]
  IN replies \o IF c \notin registered THEN <<>>
                ELSE IF alive[b] THEN routed \o requests ELSE routed

(* Numbers that follow on one another, and on r unless that is 0.          *)
Unbroken(N, r) ==
  /\ \A m, n \in N : m .. n \subseteq N
  /\ r > 0 => \A n \in N : r < n /\ r + 1 .. n \subseteq N

(* Nothing is lost from the middle: once a host has had a reply, and while *)
(* its pipe is open, the replies and requests under way carry on from it   *)
(* without a gap.  A slow client, a dead process or a drained queue cuts   *)
(* the connection's traffic off at the end and never skips a reply.        *)
NothingLostMidway ==
  \A c \in Clients :
    backendOf[c] # NoBackend /\ hostOpen[c] =>
      LET s == Pipeline(c)
          mine == {i \in DOMAIN s : s[i].client = c}
      IN
      /\ \A i, j \in mine : i < j => s[i].seq < s[j].seq
      /\ Unbroken({s[i].seq : i \in mine}, lastRecv[c])

(* A finished connection leaves no entry behind, whichever of the session, *)
(* the router or the restart removed it.                                   *)
NoLeakedEntry == \A c \in registered : sess[c] # "done"

(* With sessions that notice a disconnect within the restart delay, and    *)
(* hosts that wait for each reply, a process is never asked to serve a     *)
(* request of a client whose init it has not been given first.             *)
RequestsFollowInit ==
  \A b \in Backends : \A i \in DOMAIN procIn[b] :
    LET m == procIn[b][i] IN
    m.kind = "req" =>
      \/ m.client \in known[b]
      \/ \E j \in 1 .. i - 1 :
           procIn[b][j].client = m.client /\ procIn[b][j].kind = "init"

-----------------------------------------------------------------------------
(* The inductive invariant behind SessionsMatchProcess and NoLeakedEntry.  *)

Live  == {"handshake", "running", "sending", "writing", "ended"}
Fresh == {"idle", "accepting", "resolved", "gotInput"}
Down  == {"absent", "spawning", "delay"}

Waiting(b)  == ToSet(stdinQ[b]) \cup ToSet(inflight[b]) \cup ToSet(procIn[b])
Answered(b) == ToSet(procOut[b]) \cup ToSet(sending[b])

HasInit(s) == \E m \in ToSet(s) : m.kind = "init"

(* The reply to c's init has been routed to c. *)
Greeted(c) ==
  inited[c] \/ HasInit(toClient[c]) \/ HasInit(hold[c]) \/ HasInit(outQ[c])

(* Entries belong to sessions that are serving, and these have a backend.  *)
EntryInv ==
  \A c \in Clients :
    /\ c \in registered => sess[c] \in Live
    /\ sess[c] \in Live \cup {"resolved", "gotInput", "closing"} =>
         backendOf[c] \in Backends

(* A connection that has not been registered yet has left no trace. *)
FreshInv ==
  \A c \in Clients : sess[c] \in Fresh =>
    /\ ~inited[c] /\ toClient[c] = <<>> /\ hold[c] = <<>>
    /\ \A b \in Backends : \A m \in Waiting(b) \cup Answered(b) : m.client # c

(* A connection's messages are in its own backend's queues, and its pipe   *)
(* carries its own messages, no close among them.                          *)
ChannelInv ==
  /\ \A b \in Backends : \A m \in Waiting(b) \cup Answered(b) :
       backendOf[m.client] = b
  /\ \A c \in Clients : \A m \in ToSet(toServer[c]) :
       m.client = c /\ m.kind # "close"

(* The close message is sent after the entry is gone. *)
CloseInv ==
  \A b \in Backends : \A m \in Waiting(b) :
    m.kind = "close" => m.client \notin registered

(* Between two processes of a backend nothing of the old one is left: its  *)
(* output is gone and no registered connection has been greeted by it.     *)
DownInv ==
  \A b \in Backends :
    /\ task[b] = "exiting" => ~alive[b]
    /\ task[b] \in Down =>
         /\ ~alive[b] /\ procOut[b] = <<>> /\ sending[b] = <<>>
         /\ \A c \in registered : backendOf[c] = b => ~Greeted(c)

(* SessionsMatchProcess, with the init replies that are still under way.   *)
KnownInv ==
  \A c \in registered :
    Greeted(c) \/ (\E m \in Answered(backendOf[c]) :
                     m.client = c /\ m.kind = "init")
      => c \in known[backendOf[c]]

IInv == /\ TypeOK /\ EntryInv /\ FreshInv /\ ChannelInv
        /\ CloseInv /\ DownInv /\ KnownInv

-----------------------------------------------------------------------------
(* The inductive invariant behind CloseIsLast and WatchdogSeesUnanswered.  *)

(* m goes before n: if they are of one connection, m is no close, and n a  *)
(* later call.                                                             *)
Precedes(m, n) ==
  m.client = n.client =>
    m.kind # "close" /\ (n.kind # "close" => m.seq < n.seq)

Ordered(s)   == \A i, j \in DOMAIN s : i < j => Precedes(s[i], s[j])
Before(S, T) == \A m \in S, n \in T : Precedes(m, n)

(* Queues that follow on one another, the oldest messages first.           *)
InLine(p, q, r, s) ==
  /\ Ordered(p) /\ Ordered(q) /\ Ordered(r) /\ Ordered(s)
  /\ Before(ToSet(p), ToSet(q) \cup ToSet(r) \cup ToSet(s))
  /\ Before(ToSet(q), ToSet(r) \cup ToSet(s))
  /\ Before(ToSet(r), ToSet(s))

(* Each backend gets and answers the messages of a connection in order.    *)
LineInv ==
  \A b \in Backends : InLine(procOut[b], procIn[b], inflight[b], stdinQ[b])

(* The connection's later messages are still in its pipe, and when a close *)
(* is under way its session is over.                                       *)
SentInv ==
  /\ \A b \in Backends : \A m \in Waiting(b) \cup Answered(b) :
       IF m.kind = "close" THEN sess[m.client] = "done"
       ELSE /\ m.seq <= hostSeq[m.client]
            /\ \A n \in ToSet(toServer[m.client]) : m.seq < n.seq
  /\ \A c \in Clients :
       /\ Ordered(toServer[c])
       /\ \A n \in ToSet(toServer[c]) : n.seq <= hostSeq[c]

(* A message is in flight only while the input loop writes it.             *)
SlotInv == \A b \in Backends : inflight[b] # <<>> => task[b] = "writing"

OrderInv == LineInv /\ SentInv /\ SlotInv /\ WatchdogSeesUnanswered

-----------------------------------------------------------------------------
(* The inductive invariant behind NothingLostMidway.                       *)

(* Where a session stands says what it holds and has received.             *)
HoldInv ==
  \A c \in Clients :
    /\ sess[c] \in Live => rxOpen[c]
    /\ hold[c] # <<>> => sess[c] = "writing"
    /\ sess[c] \in Fresh => outQ[c] = <<>> /\ lastRecv[c] = 0
    /\ lastRecv[c] <= hostSeq[c]

Replies(c) == ToSet(toClient[c]) \cup ToSet(hold[c]) \cup ToSet(outQ[c])

(* Replies go to their connections in order, ahead of what is unanswered.  *)
ReplyInv ==
  /\ \A b \in Backends :
       /\ Len(sending[b]) <= 1
       /\ \A m \in ToSet(sending[b]) : m.kind # "close"
       /\ Before(ToSet(sending[b]), ToSet(procOut[b]) \cup Waiting(b))
  /\ \A c \in Clients :
       /\ InLine(<<>>, toClient[c], hold[c], outQ[c])
       /\ \A m \in Replies(c) :
            m.client = c /\ m.kind # "close" /\ m.seq <= hostSeq[c]
       /\ \A b \in Backends : Before(Replies(c), Answered(b) \cup Waiting(b))
       /\ Before(Replies(c), ToSet(toServer[c]))

(* The numbers of c's calls in a queue.                                    *)
Numbers(q, c) ==
  {m.seq : m \in {n \in ToSet(q) : n.client = c /\ n.kind # "close"}}

(* The numbers of the replies that c will get, or that can still be routed *)
(* to it; of its calls that no process has been given; and of all of them. *)
Arriving(c) ==
  Numbers(toClient[c], c) \cup Numbers(hold[c], c) \cup Numbers(outQ[c], c)
    \cup IF rxOpen[c] THEN Numbers(sending[backendOf[c]], c) ELSE {}
Answers(c)  == Arriving(c) \cup Numbers(procOut[backendOf[c]], c)
Unread(c)   == Numbers(stdinQ[backendOf[c]], c) \cup Numbers(toServer[c], c)
Calls(c)    == Answers(c) \cup Numbers(procIn[backendOf[c]], c)
                 \cup Numbers(inflight[backendOf[c]], c) \cup Unread(c)

(* The numbers of N follow on one another up to the last one sent.         *)
Complete(N, r, last) ==
  /\ \A n \in N : n <= last /\ n .. last \subseteq N
  /\ r > 0 => r + 1 .. last \subseteq N /\ \A n \in N : r < n

(* What arrives never has a gap; what is answered has none while c has an  *)
(* entry; and no call at all is missing while the process lives.  Between  *)
(* two processes, no call is missing among those not read, and no reply    *)
(* has come.                                                               *)
NoGap(c) ==
  backendOf[c] \in Backends /\ hostOpen[c] =>
    /\ Unbroken(Arriving(c), lastRecv[c])
    /\ c \in registered =>
         /\ Unbroken(Answers(c), lastRecv[c])
         /\ alive[backendOf[c]] => Complete(Calls(c), lastRecv[c], hostSeq[c])
         /\ task[backendOf[c]] \in Down =>
              /\ lastRecv[c] = 0 /\ Arriving(c) = {}
              /\ Complete(Unread(c), 0, hostSeq[c])

GapInv ==
  \A c \in Clients :
    Complete(Numbers(toServer[c], c), 0, hostSeq[c]) /\ NoGap(c)

MidwayInv == HoldInv /\ ReplyInv /\ GapInv

LauncherInv == IInv /\ OrderInv /\ MidwayInv

-----------------------------------------------------------------------------
(* The inductive invariant behind RequestsFollowInit, for hosts that wait  *)
(* for each reply and sessions that notice a disconnect within the delay.  *)

(* A host has had the reply to its init before it sends a request.         *)
InitedInv ==
  /\ \A c \in Clients :
       /\ lastRecv[c] > 0 => inited[c]
       /\ \A m \in Replies(c) \cup ToSet(toServer[c]) :
            m.kind = "req" => inited[c]
  /\ \A b \in Backends : \A m \in Waiting(b) \cup Answered(b) :
       m.kind = "req" => inited[m.client]

(* A process finds no request waiting when it starts, and no connection    *)
(* that an earlier process has greeted, unless its session is over.        *)
StartInv ==
  \A b \in Backends : task[b] \in {"absent", "spawning"} =>
    /\ \A m \in Waiting(b) : m.kind # "req"
    /\ \A c \in Clients :
         backendOf[c] = b /\ sess[c] # "done" => ~Greeted(c)

(* A process that takes input knows every client whose request waits, and  *)
(* every one it has greeted whose session is not over.                     *)
Taking == {"running", "writing"}

ServedInv ==
  \A b \in Backends :
    IF task[b] \in Taking
    THEN /\ \A m \in Waiting(b) : m.kind = "req" => m.client \in known[b]
         /\ \A c \in Clients :
              /\ backendOf[c] = b /\ sess[c] # "done"
              /\ \/ Greeted(c)
                 \/ \E m \in Answered(b) : m.client = c /\ m.kind = "init"
              => c \in known[b]
    ELSE procIn[b] = <<>>

FollowInv == InitedInv /\ StartInv /\ ServedInv

-----------------------------------------------------------------------------
(* Action property *)

(* "Drain any stale requests in the queue sent by disconnected clients     *)
(* before or during the restart delay" (backend_manager.rs 235-236): what  *)
(* the drain at the end of the delay throws away was sent by clients that  *)
(* have been disconnected.                                                 *)
DrainsOnlyDisconnected ==
  [][\A b \in Backends :
       task[b] = "delay" /\ task'[b] = "spawning" =>
         \A m \in ToSet(stdinQ[b]) : m.client \notin registered]_vars

-----------------------------------------------------------------------------
(* Liveness *)

(* Messages of clients, other than closes, that the process will never     *)
(* answer: it has stopped reading, or nobody reads its output any more.    *)
Unanswerable(b) ==
  {m \in ToSet(IF readerOn[b] THEN procIn[b] ELSE procIn[b] \o procOut[b]) :
     m.kind # "close" /\ (hung[b] \/ ~readerOn[b])}

(* A process that has stopped reading, or whose output is no longer read,  *)
(* is replaced once it owes an answer.                                     *)
StuckProcessReplaced ==
  \A b \in Backends :
    (alive[b] /\ Unanswerable(b) # {})
      ~> (alive[b] /\ ~hung[b] /\ readerOn[b])

(* A connection whose entry has been removed ends: the host sees its pipe  *)
(* broken and can connect again.                                           *)
DisconnectedSessionEnds ==
  \A c \in Clients :
    (rxOpen[c] /\ c \notin registered) ~> (sess[c] = "done")

(* A session that waits for room in the input queue does not wait for ever,*)
(* even when the process, the router and the session wait on one another.  *)
SenderComesFree ==
  \A c \in Clients :
    sess[c] \in {"handshake", "sending", "closing"}
      ~> sess[c] \in {"running", "done"}

(* A connection whose host has gone is cleaned up, entry included.         *)
ClosedConnectionReleased ==
  \A c \in Clients :
    (sess[c] # "idle" /\ ~hostOpen[c])
      ~> (sess[c] = "done" /\ c \notin registered)

(* The process does not keep a client whose connection is finished: either *)
(* it handles the close message, or it is on its way out, stuck or dead.   *)
ProcessForgetsClosed ==
  \A b \in Backends, c \in Clients :
    (c \in known[b] /\ sess[c] = "done")
      ~> (c \notin known[b] \/ hung[b] \/ ~readerOn[b])
=============================================================================
