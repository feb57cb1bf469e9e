------------------------------ MODULE Watchdog ------------------------------
(***************************************************************************)
(* PIMELauncher's processes (main.rs): the watchdog that keeps one worker  *)
(* running, the mutex that keeps a second watchdog out, the event by which *)
(* "/quit" stops it, the job object that ties the worker to it, and the    *)
(* pipe that only one worker can open first (pipe_server.rs).              *)
(*                                                                         *)
(* A kernel object exists as long as some process has a handle to it.  An  *)
(* ending process closes its handles one by one, in no known order.        *)
(***************************************************************************)
EXTENDS Naturals, FiniteSets

CONSTANTS
  Launchers,   \* PIMELauncher processes started without /quit
  Quitters,    \* PIMELauncher processes started with /quit
  NoOne,
  MaxCrashes,  \* bound: ends of a worker that nobody asked for
  MaxFailures  \* bound: failed attempts to spawn one

ASSUME WatchdogAssumption == /\ NoOne \notin Launchers
                             /\ MaxCrashes \in Nat /\ MaxFailures \in Nat

VARIABLES
  proc,        \* of each launcher: where its main thread is
  thread,      \* of each launcher: where its event thread is
  inbox,       \* of each launcher: how many messages are in quit_rx
  handles,     \* of each launcher: the objects it has handles to
  worker,      \* of each launcher: its worker process
  quitter,     \* of each /quit process: where it is
  signalled,   \* the state of the event, if it exists
  pipe,        \* the launcher whose worker serves the pipe
  crashes,
  failures,
  killed,      \* history: launchers that were ended from outside
  asked        \* history: launchers that some /quit was meant for

vars == <<proc, thread, inbox, handles, worker, quitter, signalled, pipe,
          crashes, failures, killed, asked>>

Places == {"absent", "started", "spawning", "failed", "watching", "pausing",
           "killing", "exiting", "gone"}

(* Inside the loop of run_watchdog. *)
Loop == {"spawning", "failed", "watching", "pausing", "killing"}

Init ==
  /\ proc = [l \in Launchers |-> "absent"]
  /\ thread = [l \in Launchers |-> "off"]
  /\ inbox = [l \in Launchers |-> 0]
  /\ handles = [l \in Launchers |-> {}]
  /\ worker = [l \in Launchers |-> "none"]
  /\ quitter = [q \in Quitters |-> "absent"]
  /\ signalled = FALSE
  /\ pipe = NoOne
  /\ crashes = 0 /\ failures = 0
  /\ killed = {} /\ asked = {}

Holds(l, h)   == h \in handles[l]
MutexExists   == \E l \in Launchers : Holds(l, "mutex")
WorkerRuns(l) == worker[l] \in {"alive", "doomed"}

GoTo(l, p)       == proc' = [proc EXCEPT ![l] = p]
ThreadGoes(l, p) == thread' = [thread EXCEPT ![l] = p]
WorkerIs(l, s)   == worker' = [worker EXCEPT ![l] = s]
Release(l)       == pipe' = IF pipe = l THEN NoOne ELSE pipe

(* The event is gone with its last handle, and with it its state.          *)
EventKept(hs, qs) ==
  \/ \E l \in Launchers : "event" \in hs[l]
  \/ \E q \in Quitters : qs[q] \in {"open", "set"}

bounds  == <<crashes, failures>>
history == <<killed, asked>>

-----------------------------------------------------------------------------
(* main *)

(* assign_process_to_job_object. *)
StartUnbound(l) ==
  /\ proc[l] = "absent"
  /\ GoTo(l, "started")
  /\ UNCHANGED <<thread, inbox, handles, worker, quitter, signalled, pipe,
                 bounds, history>>

Start(l) ==
  /\ proc[l] = "absent"
  /\ GoTo(l, "started")
  /\ handles' = [handles EXCEPT ![l] = {"job"}]
  /\ UNCHANGED <<thread, inbox, worker, quitter, signalled, pipe, bounds,
                 history>>

(* create_single_instance_mutex; a refused launcher has a handle to the    *)
(* mutex, too, until it exits.  The first form keeps none.                 *)
TakeMutexDropped(l) ==
  /\ proc[l] = "started"
  /\ IF MutexExists
     THEN GoTo(l, "exiting") /\ UNCHANGED thread
     ELSE GoTo(l, "spawning") /\ ThreadGoes(l, "creating")
  /\ UNCHANGED <<inbox, handles, worker, quitter, signalled, pipe, bounds,
                 history>>

TakeMutex(l) ==
  /\ proc[l] = "started"
  /\ handles' = [handles EXCEPT ![l] = @ \cup {"mutex"}]
  /\ IF MutexExists
     THEN GoTo(l, "exiting") /\ UNCHANGED thread
     ELSE GoTo(l, "spawning") /\ ThreadGoes(l, "creating")
  /\ UNCHANGED <<inbox, worker, quitter, signalled, pipe, bounds, history>>

-----------------------------------------------------------------------------
(* run_watchdog: the event thread *)

(* The event may be there already.  If so, those who keep it are a /quit,  *)
(* or a launcher that was ended before it could close it.                  *)
CreateEvent(l) ==
  /\ thread[l] = "creating"
  /\ handles' = [handles EXCEPT ![l] = @ \cup {"event"}]
  /\ ThreadGoes(l, "waiting")
  /\ asked' = IF \/ \E q \in Quitters : quitter[q] \in {"open", "set"}
                 \/ \E k \in killed : Holds(k, "event")
              THEN asked \cup {l} ELSE asked
  /\ UNCHANGED <<proc, inbox, worker, quitter, signalled, pipe, bounds,
                 killed>>

Wake(l) ==
  /\ thread[l] = "waiting" /\ signalled
  /\ ThreadGoes(l, "closing")
  /\ UNCHANGED <<proc, inbox, handles, worker, quitter, signalled, pipe,
                 bounds, history>>

(* CloseHandle, before the watchdog is told.  The first form leaves the    *)
(* handle to the end of the process.                                       *)
KeepEvent(l) ==
  /\ thread[l] = "closing"
  /\ ThreadGoes(l, "sending")
  /\ UNCHANGED <<proc, inbox, handles, worker, quitter, signalled, pipe,
                 bounds, history>>

CloseEvent(l) ==
  /\ thread[l] = "closing"
  /\ handles' = [handles EXCEPT ![l] = @ \ {"event"}]
  /\ signalled' = (signalled /\ EventKept(handles', quitter))
  /\ ThreadGoes(l, "sending")
  /\ UNCHANGED <<proc, inbox, worker, quitter, pipe, bounds, history>>

(* blocking_send; nothing else is ever sent.  The first form then waits    *)
(* for the event again.                                                    *)
SendEach(l) ==
  /\ thread[l] = "sending"
  /\ inbox' = [inbox EXCEPT ![l] = @ + 1]
  /\ ThreadGoes(l, "creating")
  /\ UNCHANGED <<proc, handles, worker, quitter, signalled, pipe, bounds,
                 history>>

Send(l) ==
  /\ thread[l] = "sending"
  /\ inbox' = [inbox EXCEPT ![l] = @ + 1]
  /\ ThreadGoes(l, "off")
  /\ UNCHANGED <<proc, handles, worker, quitter, signalled, pipe, bounds,
                 history>>

-----------------------------------------------------------------------------
(* run_watchdog: the loop *)

Spawn(l) ==
  /\ proc[l] = "spawning"
  /\ GoTo(l, "watching")
  /\ WorkerIs(l, "alive")
  /\ UNCHANGED <<thread, inbox, handles, quitter, signalled, pipe, bounds,
                 history>>

SpawnFails(l) ==
  /\ proc[l] = "spawning" /\ failures < MaxFailures
  /\ GoTo(l, "failed")
  /\ failures' = failures + 1
  /\ UNCHANGED <<thread, inbox, handles, worker, quitter, signalled, pipe,
                 crashes, history>>

(* child.wait() is ready. *)
SeeExit(l) ==
  /\ proc[l] = "watching" /\ worker[l] = "dead"
  /\ GoTo(l, "pausing")
  /\ WorkerIs(l, "none")
  /\ UNCHANGED <<thread, inbox, handles, quitter, signalled, pipe, bounds,
                 history>>

(* The end of either sleep.  Neither is cut short by quit_rx.  The first   *)
(* form replaces no worker that has ended.                                 *)
SpawnOnce(l) ==
  /\ proc[l] = "failed"
  /\ GoTo(l, "spawning")
  /\ UNCHANGED <<thread, inbox, handles, worker, quitter, signalled, pipe,
                 bounds, history>>

SpawnAgain(l) ==
  /\ proc[l] \in {"failed", "pausing"}
  /\ GoTo(l, "spawning")
  /\ UNCHANGED <<thread, inbox, handles, worker, quitter, signalled, pipe,
                 bounds, history>>

(* quit_rx.recv() is ready: child.kill() ... *)
HearQuit(l) ==
  /\ proc[l] = "watching" /\ inbox[l] > 0
  /\ inbox' = [inbox EXCEPT ![l] = @ - 1]
  /\ GoTo(l, "killing")
  /\ WorkerIs(l, IF worker[l] = "alive" THEN "doomed" ELSE worker[l])
  /\ UNCHANGED <<thread, handles, quitter, signalled, pipe, bounds, history>>

(* ... returns when the worker has ended.                                  *)
Quit(l) ==
  /\ proc[l] = "killing" /\ worker[l] = "dead"
  /\ GoTo(l, "exiting")
  /\ WorkerIs(l, "none")
  /\ UNCHANGED <<thread, inbox, handles, quitter, signalled, pipe, bounds,
                 history>>

-----------------------------------------------------------------------------
(* signal_quit_event, the whole of a /quit process *)

OpenEvent(q) ==
  /\ quitter[q] = "absent"
  /\ quitter' = [quitter EXCEPT ![q] = "open"]
  /\ UNCHANGED <<proc, thread, inbox, handles, worker, signalled, pipe,
                 bounds, history>>

SetEvent(q) ==
  /\ quitter[q] = "open"
  /\ quitter' = [quitter EXCEPT ![q] = "set"]
  /\ signalled' = TRUE
  /\ asked' = asked \cup {l \in Launchers : proc[l] # "absent"}
  /\ UNCHANGED <<proc, thread, inbox, handles, worker, pipe, bounds, killed>>

EndQuitter(q) ==
  /\ quitter[q] = "set"
  /\ quitter' = [quitter EXCEPT ![q] = "done"]
  /\ signalled' = (signalled /\ EventKept(handles, quitter'))
  /\ UNCHANGED <<proc, thread, inbox, handles, worker, pipe, bounds, history>>

-----------------------------------------------------------------------------
(* Windows and the worker *)

(* Someone ends the launcher's process, as the installer does half a       *)
(* second after /quit (macros.nsh).                                        *)
Kill(l) ==
  /\ proc[l] \in Loop \cup {"started"}
  /\ GoTo(l, "exiting")
  /\ ThreadGoes(l, "off")
  /\ inbox' = [inbox EXCEPT ![l] = 0]
  /\ killed' = killed \cup {l}
  /\ UNCHANGED <<handles, worker, quitter, signalled, pipe, bounds, asked>>

(* JOB_OBJECT_LIMIT_KILL_ON_JOB_CLOSE. *)
CloseAtExit(l, h) ==
  /\ proc[l] = "exiting" /\ Holds(l, h)
  /\ handles' = [handles EXCEPT ![l] = @ \ {h}]
  /\ signalled' = (signalled /\ EventKept(handles', quitter))
  /\ WorkerIs(l, IF h = "job" /\ worker[l] = "alive"
                 THEN "doomed" ELSE worker[l])
  /\ UNCHANGED <<proc, thread, inbox, quitter, pipe, bounds, history>>

Exit(l) ==
  /\ proc[l] = "exiting" /\ handles[l] = {}
  /\ GoTo(l, "gone")
  /\ UNCHANGED <<thread, inbox, handles, worker, quitter, signalled, pipe,
                 bounds, history>>

WorkerEnds(l) ==
  /\ worker[l] = "doomed"
  /\ WorkerIs(l, "dead")
  /\ Release(l)
  /\ UNCHANGED <<proc, thread, inbox, handles, quitter, signalled, bounds,
                 history>>

WorkerCrashes(l) ==
  /\ worker[l] = "alive" /\ crashes < MaxCrashes
  /\ crashes' = crashes + 1
  /\ WorkerIs(l, "dead")
  /\ Release(l)
  /\ UNCHANGED <<proc, thread, inbox, handles, quitter, signalled, failures,
                 history>>

(* PipeServer.run: first_pipe_instance(true), tried again every second     *)
(* while another process has the pipe.                                     *)
OpenPipe(l) ==
  /\ worker[l] = "alive" /\ pipe = NoOne
  /\ pipe' = l
  /\ UNCHANGED <<proc, thread, inbox, handles, worker, quitter, signalled,
                 bounds, history>>

-----------------------------------------------------------------------------
WatchdogStep(l) ==
  \/ TakeMutex(l)
  \/ Spawn(l) \/ SeeExit(l) \/ SpawnAgain(l) \/ Quit(l)

ThreadStep(l) == CreateEvent(l) \/ Wake(l) \/ CloseEvent(l) \/ Send(l)

ExitStep(l) == (\E h \in {"job", "mutex", "event"} : CloseAtExit(l, h)) \/ Exit(l)

Next ==
  \/ \E l \in Launchers :
       \/ WatchdogStep(l) \/ HearQuit(l) \/ ThreadStep(l) \/ ExitStep(l)
       \/ WorkerEnds(l) \/ OpenPipe(l)
       \/ Start(l) \/ SpawnFails(l) \/ Kill(l) \/ WorkerCrashes(l)
  \/ \E q \in Quitters : OpenEvent(q) \/ SetEvent(q) \/ EndQuitter(q)

Spec == Init /\ [][Next]_vars

(* Whatever has started goes on.  tokio::select! polls its branches in     *)
(* random order, so that a worker that keeps ending does not keep the      *)
(* watchdog from the quit message; and the pipe is tried again and again.  *)
Fairness ==
  /\ \A l \in Launchers :
       /\ WF_vars(WatchdogStep(l)) /\ WF_vars(ThreadStep(l))
       /\ WF_vars(ExitStep(l)) /\ WF_vars(WorkerEnds(l))
       /\ SF_vars(HearQuit(l)) /\ SF_vars(OpenPipe(l))
  /\ \A q \in Quitters : WF_vars(EndQuitter(q))

FairSpec == Spec /\ Fairness

-----------------------------------------------------------------------------
(* Invariants *)

(* Every variable keeps its type. *)
TypeOK ==
  /\ proc \in [Launchers -> Places]
  /\ thread \in [Launchers -> {"off", "creating", "waiting", "closing",
                               "sending"}]
  /\ inbox \in [Launchers -> 0 .. 1]
  /\ handles \in [Launchers -> SUBSET {"job", "mutex", "event"}]
  /\ worker \in [Launchers -> {"none", "alive", "doomed", "dead"}]
  /\ quitter \in [Quitters -> {"absent", "open", "set", "done"}]
  /\ signalled \in BOOLEAN
  /\ pipe \in Launchers \cup {NoOne}
  /\ crashes \in 0 .. MaxCrashes
  /\ failures \in 0 .. MaxFailures
  /\ killed \subseteq Launchers
  /\ asked \subseteq Launchers

(* Two workers never run side by side, however launchers are started and   *)
(* told to quit while others start, unless one of them has lost its        *)
(* watchdog to somebody who ended it and is about to end itself.           *)
OneWorker ==
  \A k, l \in Launchers :
    WorkerRuns(k) /\ WorkerRuns(l) /\ k # l => k \in killed \/ l \in killed

(* A watchdog stops its worker only because some /quit was still running   *)
(* when, or after, it was started (or left the event to a launcher that    *)
(* was ended before it could answer): it never answers to the /quit that   *)
(* its predecessor has answered, although the event is never reset.        *)
QuitOnlyWhenAsked ==
  \A l \in Launchers : proc[l] = "killing" => l \in asked

-----------------------------------------------------------------------------
(* Liveness *)

(* A /quit that finds a watchdog waiting ends it, even if it comes while   *)
(* the watchdog sleeps between two workers.                                *)
QuitHeard ==
  \A l \in Launchers :
    thread[l] = "waiting" /\ signalled ~> proc[l] = "gone" /\ ~WorkerRuns(l)

(* While a watchdog runs there is again and again a worker of its that     *)
(* serves the pipe, even if its predecessor's worker was left behind and   *)
(* still has it.                                                           *)
PipeServedAgain ==
  \A l \in Launchers : proc[l] \in Loop ~> proc[l] \notin Loop \/ pipe = l
=============================================================================
