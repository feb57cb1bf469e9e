--------------------------- MODULE BackendManager ---------------------------
(***************************************************************************)
(* The backend manager of PIMELauncher (PIMELauncher/src/backend_manager   *)
(* .rs): the table of registered clients, one task per backend that owns   *)
(* the backend's process, and the task that routes the process's output.   *)
(*                                                                         *)
(* A client is one pipe connection: accept_client draws a fresh UUID for   *)
(* each, so an element of Clients is used once.  Message payloads are      *)
(* abstracted to what the launcher and the servers tell apart: the         *)
(* client, the kind of call and its sequence number.                       *)
(*                                                                         *)
(* Sessions and the pipe are added by module Launcher, which conjoins      *)
(* the UNCHANGED of its own variables to the actions defined here.         *)
(***************************************************************************)
EXTENDS Naturals, Sequences, FiniteSets

CONSTANTS
  Clients,      \* client ids: one per pipe connection
  Backends,     \* backend names known to the registry
  NoBackend,    \* a connection whose handshake has not been resolved yet
  QueueCap,     \* capacity of a backend's input channel (1024 in the code)
  OutCap,       \* capacity of a client's output channel (1024 in the code)
  PipeCap,      \* messages an operating-system pipe holds before a write blocks
  MaxStarts     \* bound: processes started per backend in a behaviour

ASSUME NoBackendAssumption == NoBackend \notin Backends
ASSUME CapAssumption == /\ QueueCap \in Nat \ {0}
                        /\ OutCap \in Nat \ {0}
                        /\ PipeCap \in Nat \ {0}
                        /\ MaxStarts \in Nat \ {0}

VARIABLES
  registered,   \* the clients that have an entry in state.clients
  lastSeq,      \* last_seq_num of each client's entry
  backendOf,    \* backend_name of each connection
  outQ,         \* each client's output channel
  rxOpen,       \* whether the session still holds the channel's receiver
  task,         \* where the task of spawn_backend_process stands
  stdinQ,       \* each backend's input channel
  inflight,     \* the message forward_inputs_to_backend is writing
  pending,      \* pending_requests of the running process
  sending,      \* the reply forward_outputs_to_client is blocked on
  readerOn,     \* whether forward_outputs_to_client is still reading
  alive,        \* the process exists
  hung,         \* the process has stopped reading
  starts,       \* processes started so far
  procIn,       \* the process's stdin pipe
  procOut,      \* the process's stdout pipe
  known         \* the clients the process has initialised

entryVars   == <<registered, lastSeq, backendOf>>
channelVars == <<outQ, rxOpen>>
taskVars    == <<task, stdinQ, inflight, pending, sending, readerOn>>
procVars    == <<alive, hung, starts, procIn, procOut, known>>
managerVars == <<entryVars, channelVars, taskVars, procVars>>

Kinds  == {"init", "req", "close"}
Msg    == [client : Clients, kind : Kinds, seq : Nat]
Key(m) == <<m.client, m.seq>>

TaskStates == {"absent", "spawning", "running", "writing", "exiting", "delay"}

-----------------------------------------------------------------------------
ManagerInit ==
  /\ registered = {}
  /\ lastSeq   = [c \in Clients |-> 0]
  /\ backendOf = [c \in Clients |-> NoBackend]
  /\ outQ      = [c \in Clients |-> <<>>]
  /\ rxOpen    = [c \in Clients |-> FALSE]
  /\ task      = [b \in Backends |-> "absent"]
  /\ stdinQ    = [b \in Backends |-> <<>>]
  /\ inflight  = [b \in Backends |-> <<>>]
  /\ pending   = [b \in Backends |-> {}]
  /\ sending   = [b \in Backends |-> <<>>]
  /\ readerOn  = [b \in Backends |-> FALSE]
  /\ alive     = [b \in Backends |-> FALSE]
  /\ hung      = [b \in Backends |-> FALSE]
  /\ starts    = [b \in Backends |-> 0]
  /\ procIn    = [b \in Backends |-> <<>>]
  /\ procOut   = [b \in Backends |-> <<>>]
  /\ known     = [b \in Backends |-> {}]

-----------------------------------------------------------------------------
(* The methods sessions call. They act on entries and input channels only. *)

(* register_client: a fresh entry and a fresh output channel. *)
RegisterClient(c) ==
  /\ registered' = registered \cup {c}
  /\ lastSeq' = [lastSeq EXCEPT ![c] = 0]
  /\ outQ' = [outQ EXCEPT ![c] = <<>>]
  /\ rxOpen' = [rxOpen EXCEPT ![c] = TRUE]

(* The sequence number unregister_client gives the close message.  The     *)
(* first form counts the wrong way.                                        *)
CloseSeqBefore(c) == IF c \in registered THEN lastSeq[c] - 1 ELSE 1
CloseSeqNum(c) == IF c \in registered THEN lastSeq[c] + 1 ELSE 1

(* The entries left when unregister_client has removed c's.  The first     *)
(* form keeps the entry, as a missing remove would.                        *)
KeepEntry(c)    == registered
WithoutEntry(c) == registered \ {c}

(* get_backend_input: the first caller for a backend starts its task; both *)
(* the lookup and the insertion are under one lock.                        *)
GetBackendInput(b) ==
  task' = [task EXCEPT ![b] = IF @ = "absent" THEN "spawning" ELSE @]

HasRoom(b) == Len(stdinQ[b]) < QueueCap

(* Sender::send on the input channel, once there is room. *)
Enqueue(b, m) ==
  /\ HasRoom(b)
  /\ stdinQ' = [stdinQ EXCEPT ![b] = Append(@, m)]

-----------------------------------------------------------------------------
(* The task of spawn_backend_process. *)

(* create_backend_process succeeds; a failure sleeps five seconds and      *)
(* tries again with nothing changed, so it is a stuttering step.  The      *)
(* pending map and the output reader belong to the new process.            *)
Spawn(b) ==
  /\ task[b] = "spawning"
  /\ starts[b] < MaxStarts
  /\ task' = [task EXCEPT ![b] = "running"]
  /\ starts' = [starts EXCEPT ![b] = @ + 1]
  /\ alive' = [alive EXCEPT ![b] = TRUE]
  /\ hung' = [hung EXCEPT ![b] = FALSE]
  /\ procIn' = [procIn EXCEPT ![b] = <<>>]
  /\ procOut' = [procOut EXCEPT ![b] = <<>>]
  /\ known' = [known EXCEPT ![b] = {}]
  /\ pending' = [pending EXCEPT ![b] = {}]
  /\ readerOn' = [readerOn EXCEPT ![b] = TRUE]
  /\ UNCHANGED <<entryVars, channelVars, stdinQ, inflight, sending>>

(* forward_inputs_to_backend takes a message: its key is tracked and the   *)
(* sender's entry, if it still has one, remembers the number.              *)
RecvInput(b) ==
  LET m == Head(stdinQ[b]) IN
  /\ task[b] = "running"
  /\ stdinQ[b] # <<>>
  /\ stdinQ' = [stdinQ EXCEPT ![b] = Tail(@)]
  /\ inflight' = [inflight EXCEPT ![b] = <<m>>]
  /\ pending' = [pending EXCEPT ![b] = @ \cup {Key(m)}]
  /\ lastSeq' = IF m.client \in registered
                THEN [lastSeq EXCEPT ![m.client] = m.seq] ELSE lastSeq
  /\ task' = [task EXCEPT ![b] = "writing"]
  /\ UNCHANGED <<registered, backendOf, channelVars, sending, readerOn,
                 procVars>>

(* The write to the process's stdin completes. *)
WriteInput(b) ==
  /\ task[b] = "writing"
  /\ alive[b]
  /\ Len(procIn[b]) < PipeCap
  /\ procIn' = [procIn EXCEPT ![b] = @ \o inflight[b]]
  /\ inflight' = [inflight EXCEPT ![b] = <<>>]
  /\ task' = [task EXCEPT ![b] = "running"]
  /\ UNCHANGED <<entryVars, channelVars, stdinQ, pending, sending, readerOn,
                 alive, hung, starts, procOut, known>>

(* child_process.kill(), and the input loop returns Error. *)
KillAndExit(b) ==
  /\ alive' = [alive EXCEPT ![b] = FALSE]
  /\ procIn' = [procIn EXCEPT ![b] = <<>>]
  /\ inflight' = [inflight EXCEPT ![b] = <<>>]
  /\ task' = [task EXCEPT ![b] = "exiting"]
  /\ UNCHANGED <<entryVars, channelVars, stdinQ, pending, sending, readerOn,
                 hung, starts, procOut, known>>

(* The write fails (the process is gone) or times out after                *)
(* BACKEND_WRITE_TIMEOUT with the pipe still full.                         *)
WriteFails(b) ==
  /\ task[b] = "writing"
  /\ \/ ~alive[b]
     \/ Len(procIn[b]) >= PipeCap /\ starts[b] < MaxStarts
  /\ KillAndExit(b)

(* The hang test of the watchdog tick.  Ages are abstracted: any tracked   *)
(* request may have reached HANG_TIMEOUT.  The first form overlooks a      *)
(* request that is alone.                                                  *)
SeveralOverdue(b) == Cardinality(pending[b]) > 1
Overdue(b)        == pending[b] # {}

WatchdogKill(b) ==
  /\ task[b] = "running"
  /\ Overdue(b)
  /\ starts[b] < MaxStarts
  /\ KillAndExit(b)

(* child_process.wait() returns. *)
ChildExits(b) ==
  /\ task[b] = "running"
  /\ ~alive[b]
  /\ KillAndExit(b)

(* The clients disconnect_clients_for_backend removes.  The first form     *)
(* disconnects nobody.                                                     *)
NoneDisconnected(b) == {}
Disconnected(b)     == {c \in registered : backendOf[c] = b}

(* After an error exit the output task is aborted, the backend's clients   *)
(* are disconnected and the input channel is drained, with no await in     *)
(* between.                                                                *)
DisconnectClients(b) ==
  /\ task[b] = "exiting"
  /\ registered' = registered \ Disconnected(b)
  /\ stdinQ' = [stdinQ EXCEPT ![b] = <<>>]
  /\ sending' = [sending EXCEPT ![b] = <<>>]
  /\ procOut' = [procOut EXCEPT ![b] = <<>>]
  /\ readerOn' = [readerOn EXCEPT ![b] = FALSE]
  /\ pending' = [pending EXCEPT ![b] = {}]
  /\ task' = [task EXCEPT ![b] = "delay"]
  /\ UNCHANGED <<lastSeq, backendOf, channelVars, inflight, alive, hung,
                 starts, procIn, known>>

(* The queue after the second drain, at the end of the one-second delay.   *)
(* The first form leaves what was queued during the delay in place.        *)
NotDrained(q) == q
Drained(q)    == <<>>

EndRestartDelay(b) ==
  /\ task[b] = "delay"
  /\ stdinQ' = [stdinQ EXCEPT ![b] = Drained(@)]
  /\ task' = [task EXCEPT ![b] = "spawning"]
  /\ UNCHANGED <<entryVars, channelVars, inflight, pending, sending, readerOn,
                 procVars>>

-----------------------------------------------------------------------------
(* forward_outputs_to_client: the task that routes replies. *)

(* Removing the key a reply answers from the pending map.  The first form  *)
(* forgets every request of the client, the second only requests of        *)
(* clients that are still there.                                           *)
UntrackClient(p, r)     == {k \in p : k[1] # r.client}
UntrackRegistered(p, r) == IF r.client \in registered THEN p \ {Key(r)} ELSE p
Untrack(p, r)           == p \ {Key(r)}

(* One line of output: the request is no longer pending; the reply goes to *)
(* the client's channel, or waits for room, or is dropped when the client  *)
(* has no entry.                                                           *)
RouteReply(b) ==
  LET r == Head(procOut[b])
      full == Len(outQ[r.client]) >= OutCap IN
  /\ readerOn[b]
  /\ sending[b] = <<>>
  /\ procOut[b] # <<>>
  /\ procOut' = [procOut EXCEPT ![b] = Tail(@)]
  /\ pending' = [pending EXCEPT ![b] = Untrack(@, r)]
  /\ IF r.client \in registered
     THEN /\ outQ' = IF full THEN outQ
                     ELSE [outQ EXCEPT ![r.client] = Append(@, r)]
          /\ sending' = IF full THEN [sending EXCEPT ![b] = <<r>>] ELSE sending
     ELSE UNCHANGED <<outQ, sending>>
  /\ UNCHANGED <<entryVars, rxOpen, task, stdinQ, inflight, readerOn,
                 alive, hung, starts, procIn, known>>

(* The blocked send completes: there is room, or the receiver is gone and  *)
(* the error is ignored.                                                   *)
SendCompletes(b) ==
  LET r == Head(sending[b])
      c == r.client IN
  /\ sending[b] # <<>>
  /\ ~rxOpen[c] \/ Len(outQ[c]) < OutCap
  /\ outQ' = IF rxOpen[c] THEN [outQ EXCEPT ![c] = Append(@, r)] ELSE outQ
  /\ sending' = [sending EXCEPT ![b] = <<>>]
  /\ UNCHANGED <<entryVars, rxOpen, task, stdinQ, inflight, pending, readerOn,
                 procVars>>

(* The entries left when a send to c has timed out.  The first form drops  *)
(* the reply and keeps the client.                                         *)
DropReplyOnly(c)     == registered
ForceDisconnected(c) == registered \ {c}

(* 500 ms pass with the channel full: the client is disconnected so that   *)
(* it cannot stall the backend's other clients.  The first form waits for  *)
(* ever.                                                                   *)
NeverTimesOut(b) == FALSE

SendTimesOut(b) ==
  LET c == Head(sending[b]).client IN
  /\ sending[b] # <<>>
  /\ rxOpen[c] /\ Len(outQ[c]) >= OutCap
  /\ registered' = ForceDisconnected(c)
  /\ sending' = [sending EXCEPT ![b] = <<>>]
  /\ UNCHANGED <<lastSeq, backendOf, channelVars, task, stdinQ, inflight,
                 pending, readerOn, procVars>>

(* A line that is not UTF-8 or is too long ends the routing loop, and      *)
(* nothing restarts it before the process is restarted.                    *)
StdoutReadError(b) ==
  /\ readerOn[b] /\ alive[b] /\ sending[b] = <<>>
  /\ starts[b] < MaxStarts
  /\ readerOn' = [readerOn EXCEPT ![b] = FALSE]
  /\ UNCHANGED <<entryVars, channelVars, task, stdinQ, inflight, pending,
                 sending, procVars>>

-----------------------------------------------------------------------------
(* The process.  The three servers answer every message with its sequence  *)
(* number, in order; init creates the client's state and close deletes it. *)
(* The first form of Forgets has no close message.                         *)
ForgetsNothing(m) == {}
Forgets(m) == IF m.kind = "close" THEN {m.client} ELSE {}

BackendHandles(b) ==
  LET m == Head(procIn[b]) IN
  /\ alive[b] /\ ~hung[b]
  /\ procIn[b] # <<>>
  /\ Len(procOut[b]) < PipeCap
  /\ procIn' = [procIn EXCEPT ![b] = Tail(@)]
  /\ procOut' = [procOut EXCEPT ![b] = Append(@, m)]
  /\ known' = [known EXCEPT ![b] =
                 (@ \cup IF m.kind = "init" THEN {m.client} ELSE {})
                   \ Forgets(m)]
  /\ UNCHANGED <<entryVars, channelVars, taskVars, alive, hung, starts>>

BackendHangs(b) ==
  /\ alive[b] /\ ~hung[b]
  /\ starts[b] < MaxStarts
  /\ hung' = [hung EXCEPT ![b] = TRUE]
  /\ UNCHANGED <<entryVars, channelVars, taskVars, alive, starts, procIn,
                 procOut, known>>

(* The process dies by itself.  What it had printed can still be read.     *)
BackendCrashes(b) ==
  /\ alive[b]
  /\ starts[b] < MaxStarts
  /\ alive' = [alive EXCEPT ![b] = FALSE]
  /\ procIn' = [procIn EXCEPT ![b] = <<>>]
  /\ UNCHANGED <<entryVars, channelVars, taskVars, hung, starts, procOut,
                 known>>

-----------------------------------------------------------------------------
TaskStep(b) ==
  \/ Spawn(b) \/ RecvInput(b) \/ WriteInput(b) \/ WriteFails(b)
  \/ WatchdogKill(b) \/ ChildExits(b) \/ DisconnectClients(b)

RouterStep(b) == RouteReply(b) \/ SendCompletes(b) \/ SendTimesOut(b)

EntryTypeOK ==
  /\ registered \subseteq Clients
  /\ lastSeq \in [Clients -> Nat]
  /\ backendOf \in [Clients -> Backends \cup {NoBackend}]

ChannelTypeOK ==
  /\ outQ \in [Clients -> Seq(Msg)]
  /\ rxOpen \in [Clients -> BOOLEAN]

TaskTypeOK ==
  /\ task \in [Backends -> TaskStates]
  /\ stdinQ \in [Backends -> Seq(Msg)]
  /\ inflight \in [Backends -> Seq(Msg)]
  /\ pending \in [Backends -> SUBSET (Clients \X Nat)]
  /\ sending \in [Backends -> Seq(Msg)]
  /\ readerOn \in [Backends -> BOOLEAN]

ProcTypeOK ==
  /\ alive \in [Backends -> BOOLEAN]
  /\ hung \in [Backends -> BOOLEAN]
  /\ starts \in [Backends -> Nat]
  /\ procIn \in [Backends -> Seq(Msg)]
  /\ procOut \in [Backends -> Seq(Msg)]
  /\ known \in [Backends -> SUBSET Clients]

ManagerTypeOK == EntryTypeOK /\ ChannelTypeOK /\ TaskTypeOK /\ ProcTypeOK
=============================================================================
