# PIME in TLA+

A verification project for PIME, an input method framework for Windows. An
application loads `PIMETextService.dll`, the DLL talks to `PIMELauncher.exe`
over a named pipe, and the launcher talks to backend servers (Python, Node, Go)
over their standard input and output.

    application + PIMETextService.dll  <-- named pipe -->  PIMELauncher
        (one connection per client)                             |
                                                      stdin / stdout lines
                                                                |
                                                    backend server processes

The launcher is the component on which everything else relies: it multiplexes
all connections onto one process per backend, and replaces a process that
crashes or hangs. It is modelled first. The other end of the pipe, the client
and its connector in the DLL, is modelled second; the two meet in an abstract
specification of what a host does on a pipe. Around these two stand the watchdog
process that keeps the launcher's worker running, what the DLL shows of a
service's replies, and a table that the services of one server process share.

## Inventory

| Component | State | Operations | Talks to | Hard behaviour | What makes it correct |
|---|---|---|---|---|---|
| Backend manager (`backend_manager.rs`) | client table, one input channel per backend, pending requests of the running process | register, unregister, send, spawn, forward inputs, route outputs, watchdog tick, restart | sessions (channels), processes (pipes) | crash and hang at any step, two drains and a delay in a restart, 500 ms and 5 s timeouts, bounded channels | a session never outlives its process; the close is last; the watchdog tracks what is owed; nothing is lost midway; entries are released |
| Pipe server (`pipe_server.rs`) | one task per connection | accept, handshake, cleanup | backend manager | handshake racing a restart | a connection is registered once and cleaned up once |
| Client session (`client_session.rs`) | reader, writer, two channels | read a line, write a reply, end | DLL, backend manager | blocking on one side stops the other | it ends when either side goes away |
| Protocol (`protocol.rs`) | none | parse and format lines | all | lines without a number, malformed lines | the key of a call is its client and number |
| Launcher watchdog (`main.rs`) | the worker process, mutex, quit event, job object | spawn, wait, quit | worker, second launcher, `/quit` processes | quit while sleeping between two workers, a killed watchdog, an event that is never reset | workers do not overlap; a quit is heard, and answered once; a dead worker is replaced |
| Registry (`backend_registry.rs`) | backends, GUID map | load, look up | pipe server | later directories overwrite earlier ones | every GUID maps to a loaded backend |
| DLL connection (`PIMEClient`, `AsyncConnector`, `RpcPipe`) | state, connector, pipe, sequence number, leftover input | activate, deactivate, call, connect in a worker, cancel | launcher | UI thread against worker, late replies, callbacks that call back | no callback after cancel; a reply is never taken for another call's |
| DLL updates (`PIMEClient`, `PIMETextService`) | composition, candidate and message windows, buttons, keyboard | apply a reply part by part, react to a forced end, a timer, the keyboard | TSF, the service | ending a composition and closing the keyboard call the service again from inside a reply; the connection breaks between two parts | screen, language bar and service agree once the UI thread is back in its loop |
| Python server and services | clients, a service per client, the reply under construction | init, request, close, exception | launcher | exceptions half-way | one numbered answer per request |
| Shared tables (`cinbase`) | the table of one input method, its future, a reference in each service | construct, wait, reload, callback, compare, look up | loader threads, configuration file | a table emptied while another client uses it, late callbacks, stale copies of the configuration | one load at a time; keys find the current table; the clients settle on one table |
| Node and Go servers | the same | the same | launcher | error replies without a number | the same |
| Input methods (chewing, cinbase, braille, rime) | composition buffer, candidates, configuration, counts | key filter, key, commands | services | the engine freed while keys may come, throttled saves, chords | per method |

Left out for good: `json/` (vendored), `installer/`, build files, data tables,
icons and DLL registration, `acl.rs` (one Windows call), and `libIME2`, a
submodule that is empty here.

`PROJECT.json` lists the hazards, each at its line.

## Modules

| Module | Models |
|---|---|
| `BackendManager` | `backend_manager.rs`, and the server process as the launcher sees it |
| `Launcher` | `pipe_server.rs`, `client_session.rs` and the hosts, composed with `BackendManager`; all properties |
| `MCLauncher` | the instances for TLC |
| `LauncherProofs` | what Append, Tail and concatenation do to the elements of a queue; `TypeCorrect` |
| `SessionProofs` | the inductive invariant of entries, sessions and processes, and its consequences |
| `OrderProofs` | the order of messages, the numbers without a gap, and requests after their init; the full inductive invariant |
| `HostPort` | what the launcher may expect of a host on one pipe (abstract) |
| `AsyncConnector` | `AsyncConnector.cpp`: the worker's steps, and what `connect` and `cancel` do to the connector |
| `PimeClient` | `PIMEClient.cpp`, `RpcPipe.cpp` and the UI thread, composed with `AsyncConnector`; all properties; the cfgs instantiate it |
| `ClientProofs` | the inductive invariant of `PimeClient` and its consequences |
| `PortProofs` | `PimeClient` implements `HostPort` |
| `TextServiceUI` | `updateStatus` of `PIMEClient.cpp`, the windows of `PIMETextService.cpp`, and the chewing service at the other end |
| `MCTextService`, `TextServiceProofs` | its instance; all its invariants |
| `CinTables` | `cinbase/cintablebase.py`, `LoadCinTable`, `checkConfigChange`, the constructor of `checj_ime.py` |
| `MCCinTables`, `CinProofs` | its instance; types, one load, lookups |
| `Watchdog` | `main.rs`, and the first pipe instance of `pipe_server.rs` |
| `MCWatchdog`, `WatchdogProofs` | its instance; types and the safety of quitting |

`Launcher` extends `BackendManager` and conjoins the UNCHANGED of its own
variables, so that both have one state space and the atomicity is visible in
one place. Every action is what one task does between two awaits; a lock
section is part of one action.

`PimeClient` extends `AsyncConnector` in the same way. `HostPort` is instantiated
by `PimeClient` and says of the hosts what `Launcher` assumes of them when
`MaxInFlight` is 1 (the run launcher_sync): one numbered call at a time on each
connection. So the assumption of one model is a checked property of the other.

### State of the launcher

| Code | Model |
|---|---|
| `state.clients` | `registered`, `lastSeq`, `backendOf` |
| a client's `mpsc` channel | `outQ`, and `rxOpen` while the session holds the receiver |
| `state.backends` and the spawned task | `task`: `absent`, `spawning`, `running` (in the select), `writing`, `exiting`, `delay` |
| a backend's `mpsc` channel | `stdinQ` |
| `forward_inputs_to_backend` | `inflight` (being written), `pending` |
| `forward_outputs_to_client` | `sending` (blocked on a full channel), `readerOn` |
| the process | `alive`, `hung`, `starts`, its pipes `procIn` and `procOut`, and `known`, the clients it has initialised |
| `handle_client` | `sess`, with `hold` (reply being written) and `closeSeq` |
| named pipe and host | `toServer`, `toClient`, `hostOpen`, `hostSeq`, `lastRecv`, `inited` |

`accept_client` is `AcceptHandshake` (first line read and resolved),
`AcceptGetInput`, `AcceptRegister` and `AcceptSendHandshake`, or `AcceptFails`.
`ClientSession::run` is `ReadClient` then `SendClientLine`, `RecvReply` then
`WriteReply`, and the exits `ReadEof`, `WriteReplyFails` and `RecvClosed`.
`unregister_client` is `Unregister`, then `SendClose`. A restart is `KillAndExit`
(from `WriteFails`, `WatchdogKill` or `ChildExits`), `DisconnectClients`,
`RestartAfterDelay`, `Spawn`.

### State of the client

| Code | Model |
|---|---|
| `AsyncConnector` object of attempt k | `att[k]`: `cancelled` (`isCancelled_`), `callback` (`callback_`), `stored` (`pipe_`), `window` and `posted` (the message-only window and its queue) |
| `runWorker` | `att[k].worker`, with `tries`, `ok` (init succeeded), `target` (the handle it captured) |
| the pipe an attempt opened | `conn[k]`: the handle, the last number written and accepted, the lines to be read, and the backend behind it |
| `client_` of the text service | `alive`, `lives` |
| `isActivated_`, `state_`, `connector_`, `pipe_`, `nextSeqNum_` | `activated`, `cstate`, `connector`, `pipe`, `nextSeq` |
| the call stack of the UI thread | `stack`: waiting in `callRpc`, handling a reply, in the connect callback, in `onDeactivate` before and after its call |

A worker step (`WorkerStarts`, `WorkerTries`, `WorkerConnects` or `WorkerMisses`,
`WorkerGivesUp` or `WorkerCallsInit`, `WorkerReads` or `WorkerTimesOut`,
`WorkerFinishes`, `WorkerPosts`) is the code between two places where the UI
thread can interfere: a lock section, a read of `isCancelled()`, pipe I/O. On
the UI thread a step is the code between two points where it blocks or calls
back: `OpenClient` (`onLangProfileActivated`), `Deliver` then `InitHandled` (the
connect callback), `Event` then `CallSucceeds` with `HandleDone`, or
`CallMismatches` or `CallTimesOut`, and `Deactivate`, `DeactivateCalls`,
`CloseClient` (`closeClient`).

### State of the text service

| Code | Model |
|---|---|
| `client_`, its `state_` | `alive`, `ready` |
| composition of libIME2 and its text, `showingCandidates_`, `candidateWindow_`, `messageWindow_`, the keyboard compartment | `ui.composing`, `text`, `showing`, `window`, `message`, `open` |
| the language bar, `buttons_` | `ui.bar` (how often the group is there), `ui.buttons` |
| `compositionString`, `showCandidates`, `hasLangButtons`, `chewingContext` | `svc` |
| history, not in the code | `stale` (on screen since before the connection broke), `kept` (a composition that closing the keyboard has left), `unheard` (what the service has refused to hear of) |
| the UI thread inside `updateStatus`, `endComposition`, `onKeyboardStatusChanged` | a frame of `stack` |

Each part of `updateStatus` is an action (`UpdateMessageWindow`,
`UpdateCandidateList`, `UpdateCommitString`, `UpdateComposition`,
`UpdateLanguageButtons`, `UpdateKeyboardStatus`); a part that calls the service
pushes the nested reply and is resumed by `ReleaseComposition`, `CloseKeyboard`
or `HideAll`, or, when there is no context to end a composition in,
`CloseWithoutContext`. `Call` is `callRpcMethod` with its four outcomes:
`Answered`; `Refused`, a reply with `success` false, of which nothing is applied
and whose handler has not run; `Lost` (the service and its buttons are gone); and
`NotConnected`. A call is one step here because `PimeClient` shows that each is
answered with its own reply.

Every handler of an activated service is preceded by a check for a changed
configuration (`textService.py` 89). `Checked` is what it may do to the engine:
nothing, or build one, also for a closed keyboard. When it finds new settings
and there is no engine to apply them to, it raises, and the call is `Refused`.
`OtherRequest` stands for the calls that do no more than this check.

### State of the shared table

| Code | Model |
|---|---|
| `CinTable.future`, `CinTable.curCinType` | `load`, `curCinType` |
| the loader threads and their callbacks | `running`, `owner` (callback to come), `late` (callbacks of superseded loads) |
| `cbTS.cin` of each service | `cin`: the current table, an old and emptied one, None, or no attribute |
| `cbTS.cfg`, the file | `sel`, `fileType` |
| the server's request thread | `main`, `read` |

`checkConfigChange` is `BeginRequest`, `CheckConfig`, then `Reload`, or
`Compare`, `ReadTable`, `AssignTable`: a loader thread may come in between any
two of its accesses to the table. `HandleKey` and `LookUp` are the handlers.

### State of the watchdog

| Code | Model |
|---|---|
| the main thread of each launcher | `proc` |
| its event thread, the channel | `thread`, `inbox` |
| its handles to job, mutex and event | `handles` |
| its child | `worker`: alive, doomed (terminated, still ending), dead (not yet waited for) |
| `/quit` processes, the event | `quitter`, `signalled` |
| the first pipe instance | `pipe` |

`create_single_instance_mutex` is `TakeMutex`, which opens the mutex even if it
finds it taken; the event thread is `CreateEvent`, `Wake`, `CloseEvent`, `Send`;
the loop is `Spawn` or `SpawnFails`, then `SeeExit` and `SpawnAgain`, or
`HearQuit` and `Quit`. A process that ends closes its handles one by one in any
order (`CloseAtExit`), and a kernel object is gone with its last handle.

Several definitions are preceded by a wrong form of the same operator, such as
`KeepEntry` before `WithoutEntry`. The wrong form is used nowhere; replacing the
right one by it must break a property, and `PROJECT.json` names which.

### Abstractions of the launcher

- A message is its client, its kind and its number. The payload is copied
  through unchanged by the code.
- Time: a tracked call may be overdue at any tick, a full pipe may time out, a
  full channel may time out after 500 ms. The restart delay of one second ends
  at any time, or, with `PromptSessions`, when the sessions whose channel was
  closed have noticed: they need a few microseconds of the second.
- Aborting the output task is immediate. A late abort could only route some
  more replies to clients that have no entry.
- Killing a process succeeds. A failed `create_backend_process` sleeps and
  retries with nothing changed: a stuttering step.
- `BackendExitReason::Normal` needs every Sender of the channel to be dropped;
  the `backends` map keeps one for ever, so it is unreachable and left out.
- The send error of `accept_client` needs the receiver to be dropped, which the
  task never does: left out with it.
- Empty lines are skipped and leave no trace. Malformed lines and lines without
  a number are not sent by the DLL; a server's replies without a number are
  listed as hazards for the server modules.
- The limit of 254 pipe instances and errors creating the pipe are outside.

### Abstractions of the client

- Messages are dispatched when the UI thread is in its message loop, that is with
  an empty `stack`: nothing in these files pumps messages.
- The lock section of `cancel` and its `DestroyWindow` are one step. The worker
  can tell them apart only by posting to the window in between, and a message
  posted there goes with the window.
- A window handle is not used again for another window after it was destroyed.
- The destructors of the connector and of `RpcPipe` close whatever is left. By
  `PipesHeld` nothing is left, except in the hands of a worker, which holds its
  own reference to the connector.
- `onActivate` runs once on a fresh client, `onDeactivate` once before it is
  destroyed; `onLangProfileActivated` with a client in place is `closeClient`
  followed by the opening of the next one.
- A handler may make further calls (`Event` with a frame on the stack), at most
  `MaxDepth` deep. It does not switch the profile.
- `connect()` fails when the window or the thread-pool work cannot be had.
  `startAsyncConnect` ignores the result, so the client stays `Connecting` for
  ever: the model keeps this, `AttemptsConclude` speaks of attempts that were
  started, and the hazard is listed.
- A backend answers a call with its number, without one (0), or not at all. What
  the reply says is left to the text service's module.

### Abstractions of the text service

- libIME2 is external. `endComposition` calls `onCompositionTerminated(false)`
  synchronously before it releases the composition and does nothing without one;
  `setKeyboardOpen` notifies on a change only, synchronously; no keys are
  delivered while the keyboard is closed. There may or may not be a current
  context when the keyboard closes.
- What libchewing makes of a key is a choice: any composition, candidates or
  none, with or without a commit string and a message. The list of candidates is
  "sent" or not; which candidates they are is left out.
- The language buttons are one group, added and removed together, as chewing
  does. Preserved keys, menus and commands are only requests (`OtherRequest`);
  the mode icon is left out.
- The exceptions modelled are those of a service without an engine, in the check
  for a changed configuration and in a key. Exceptions of libchewing, of OpenCC
  or of reading files are assumed away.
- `stale` remembers that something on screen was there when the connection broke:
  only `CandidatesAgree` and `CompositionKept` except it. `unheard` remembers the
  news whose telling was refused, until the next of its kind is heard or the
  connection ends, and `kept` a composition that a closing keyboard had no
  context to end in, until it ends or the keyboard opens. The properties that
  except these say so; `OpeningStartsEngine` does not, and fails.

### Abstractions of the shared table

- One of the three tables of an input method (the others are loaded by the same
  pattern), and one reason to reload it, `selCinType`.
- A load succeeds. Its result is the table named when it began.
- A service is constructed, then activated, then gets keys until it is closed.
- The configuration file is read whole, at most once in three seconds: a request
  may or may not see a change.

### Abstractions of the watchdog

- Terminating a process takes time but succeeds. `child.kill()` and
  `child.wait()` return when it has ended.
- Creating the job, the mutex and the event succeeds.
- The worker is what runs and may have the pipe; what it does is `Launcher`.

## Runs

Two connections to one backend are enough for every interaction: the code treats
connections alike and compares them only for equality, and tasks of different
backends share only the client table, which they index by disjoint clients.

**launcher_pipelined** (about a million states). Every channel and pipe holds one
message, one host sends three messages two ahead of the replies, the other one
message; the process is started at most twice. So the channels fill, writes
block and time out, a slow client is force-disconnected, and the process may
crash, hang, or print a line that ends the routing, at each step. Checked:

- `TypeOK`;
- `SessionsMatchProcess`: a registered connection whose init was answered is
  known to the process that runs now;
- `CloseIsLast`: nothing follows the close of a connection on its way to the
  process;
- `WatchdogSeesUnanswered`: every call handed over and not yet routed back is in
  `pending`. A close is excepted: its number, last forwarded + 1, may equal the
  number of a call of the same client still in the queue, so one key stands for
  both and the first answer removes it;
- `TrackedUnanswered`: the converse for a living process. A tracked call is still
  on its way to it, in it, or on its way back to the router, also when its client
  has been disconnected meanwhile, so that nothing is held against a process that
  has answered;
- `NothingLostMidway`: between the last reply a host has read and its last
  message there is no gap, only an end;
- `NoLeakedEntry`: a finished connection has no entry;
- `LauncherInv`, the inductive invariant of the proofs.

**launcher_sync**. Hosts wait for every reply, as the DLL does (`callRpcMethod`
closes the pipe unless the reply came), and sessions notice a disconnect within
the delay. Then:

- `RequestsFollowInit`: a process is never given a request of a client it was
  not given the init of. Without either assumption this is false: a host that
  sends ahead can have its init drained and its request kept, and so can a
  session that is slower than the delay;
- liveness, under `Fairness`: `StuckProcessReplaced` (a process that hangs or
  whose output is no longer read is replaced once it owes an answer),
  `DisconnectedSessionEnds` (a session whose entry is gone ends, so that the host
  can connect again) and `ProcessForgetsClosed` (the process does not keep the
  service of a finished connection).

**launcher_full**. One connection whose host sends seven messages, the least
that can fill everything: the session waits for the input queue, the input loop
for the process's stdin, the process for its stdout, the router for the
session's output channel. `SenderComesFree` says that the wait ends: only the
500 ms timeout breaks the cycle when no fault helps, which is what its mutant
shows. `ClosedConnectionReleased`: a connection whose host has gone is cleaned
up, from any of these states.

**launcher_drain** (finding). The comment at `backend_manager.rs` 235 says that
the drain after the delay removes what disconnected clients sent. The run finds
a client that connects during the delay, registers, has its init drained, and
stays registered: it gets no reply, and only its own timeout (15 s) ends the
connection. `tests/integration_test.rs` 149 sleeps 1.5 s before it reconnects
and so does not meet it.

**client** (75 thousand states). Two profiles in turn, two connection attempts
of three tries, calls numbered up to three, one nested call. Checked: `TypeOK`;

- `NoStaleCallback`: a callback that may still run belongs to the connector the
  living client waits for;
- `StateMatchesPipe`: `state_`, `pipe_` and `connector_` agree;
- `PipesHeld`: an open pipe is the client's, or stored in its connector, or in
  the hands of a worker that will still look at the cancelled flag;
- `ClientInv`, the inductive invariant of the proofs;
- `PortSpec`: the client and its workers implement `HostPort`, so a reply is
  never taken for another call's, even after a timeout or a nested call;
- liveness, under `Fairness`: `AttemptsConclude` (the UI thread hears of a started
  attempt or cancels it), `UIThreadComesFree` (it comes back to its message loop,
  whatever the backend does), `CancelledPipesClosed` (no attempt leaks its pipe).

**client_deactivate** (finding). `onDeactivate` sets `isActivated_` and `state_`
to their final values at `PIMEClient.cpp` 421 and 422, and only then calls
`callRpcMethod`, whose `ensureConnected` refuses a client that is not `Ready`.
So the backend is never told that the user leaves the input method, although its
services handle `onDeactivate` (`chewing_ime.py` 284 describes it); it sees the
pipe close instead.

**text_service** (13 thousand states: all there are with two texts, which are
interchangeable). Between two events of the message loop, whatever replies,
nested calls and failures came before:

- `WindowShownIffShowing`: the candidate window exists exactly while candidates
  are shown;
- `CandidatesAgree`, `ServiceCompositionShown`: the service and the screen agree
  on candidates, and what the service believes to be composing is on screen,
  unless it has refused to hear that a composition has ended;
- `ButtonsAgree`: the buttons are in the language bar once while connected and
  open, and otherwise not at all; nor when the service has refused to hear that
  the keyboard is open;
- `EngineReadyForKeys`: a key finds an engine, unless the service has refused to
  hear that the keyboard is open;
- `ClosedShowsNothing`: a closed keyboard leaves nothing on screen, but for a
  composition that there was no context to end in.

**keyboard_opened** (finding). The handler that opens the keyboard makes "sure
that the engine has been started" (`chewing_ime.py` 930), but it may not be
reached. A service whose keyboard is closed has no engine (943); if `config.json`
has changed meanwhile, `checkConfigChange` runs first (`textService.py` 89) and
raises in `applyConfig` (126). The request is answered with `success` false, so
the keyboard is open with a connected service, without engine and buttons, and
every key raises (411) until the keyboard is closed and opened again.

**composition_kept** (finding). The converse of `ServiceCompositionShown` is
false. A reply with a commit string and a composition ends the old composition
first (`PIMEClient.cpp` 172), the service is told, empties its
`compositionString`, and only then is the new composition shown. The service
takes itself not to be composing (`chewing_ime.py` 341) and its `filterKeyDown`
leaves the next Backspace or Enter to the application. With chewing this takes
one key: one that commits the oldest characters of a full buffer.

**cin_tables** (248 thousand states). Two services, two tables, two changes of
the file, each service with its own copy of the configuration. `OneLoad`,
`LookupCurrent` (a key is looked up in the current table; its two exceptions are
part of the statement: a request that itself reloads the table, and one in whose
middle the callback of a superseded load hands its client the old table),
`WaitedServiceHasTable`, and `TablesConverge`: the services do not go on replacing each other's table.

**cin_loading** (finding). The first key of a service whose table is loading
raises, because the attribute `cin` is missing (`cinbase/__init__.py` 3324), and
is answered with `success` false; the code that would answer "loading, please
wait" comes later and is not reached. It needs only a first activation.

**watchdog** (100 thousand states). Two launchers, one `/quit`, a crash, a
failed spawn, and kills at any time (the installer kills a launcher half a second
after `/quit`). `OneWorker`, `QuitOnlyWhenAsked`, `QuitHeard` and
`PipeServedAgain`. More launchers and `/quit`s are left to the proof, which covers
any number of them. A `/quit` that comes before the event exists is lost; the
properties do not promise otherwise, and the hazard is listed.

Bounds: `MaxStarts` bounds the processes per backend. Faults are disabled for
the last process, so that the liveness properties speak of a system that is
eventually free of faults. `MaxSeq` bounds the messages of a host. Deadlock
checking is off because a connection is used once: when all have finished, the
system really stops.

`MaxAttempts` bounds the connection attempts: two let an attempt be replaced
while its worker runs, and what a replacement leaves behind does not depend on
how many went before; the safety of more attempts is left to the proofs, which
cover any number. The last attempt is started and served, so that the UI thread
is not stuck for lack of attempts. `Tries` is 3 as in the code.
`MaxSeq` 3 gives a connection init, `onActivate` and an event in flight, and
`MaxDepth` 2 a call made while handling the reply of another. `MaxLives` 2 lets
the workers of a destroyed client meet the next one.

Fairness of the launcher: weak fairness of each task (a Tokio task that can go on does), of the
process (it answers while it is alive and not hung), and of a host that reads
replies. The tasks of one backend (input loop and router) have separate
conditions, because they are separate Tokio tasks. Nothing forces a host to
connect, send or close, nor a fault to happen.

Fairness of the client: weak fairness of the UI thread's steps, of each worker
(the operating system schedules both), and of the answer of each backend that
has not fallen silent. `CallTimesOut` and `WorkerTimesOut` are part of these
conditions because `callRpc` is given a time limit on every call. Profiles,
events and faults are never forced.

Fairness of the shared table: weak fairness of the server's thread, of loads and
of callbacks; strong fairness of each activated service's requests that look at
the file, since requests of other services may come between. It says that the
user goes on typing, and is used by `TablesConverge` only.

Fairness of the watchdog: weak fairness of each thread and of ending processes;
strong fairness of `HearQuit`, since `tokio::select!` polls its branches in
random order and a worker that keeps ending could hide the message otherwise,
and of `OpenPipe`, which is tried every second. Starting, killing and `/quit`
are never forced.

`TextServiceUI` has no liveness property: its stack only shrinks but for nested
calls, and a call returns by `UIThreadComesFree`.

## Proofs

For every set of clients and backends, and all capacities and bounds:

- `TypeCorrect`: `Spec => []TypeOK`;
- `Inductive`: `Spec => []IInv`, and `LauncherInductive`: `Spec => []LauncherInv`;
- `SessionSafety`: `Spec => []SessionsMatchProcess`;
- `EntriesReleased`: `Spec => []NoLeakedEntry`;
- `ClosedForGood`: `Spec => []CloseIsLast`;
- `WatchdogIsRight`: `Spec => []WatchdogSeesUnanswered`;
- `AnsweredIsForgotten`: `Spec => []TrackedUnanswered`;
- `NoReplySkipped`: `Spec => []NothingLostMidway`;
- `InitComesFirst`:
  `MaxInFlight = 1 /\ PromptSessions => (Spec => []RequestsFollowInit)`.

And of the client, for any number of attempts, tries, calls, nested handlers and
profiles:

- `ClientInductive`: `Spec => []ClientInv`;
- `CallbackSafety`: `Spec => []NoStaleCallback`;
- `ClientTypeCorrect`, `StateAgrees`, `PipesAreHeld`: `Spec => []TypeOK`,
  `Spec => []StateMatchesPipe`, `Spec => []PipesHeld`;
- `PortImplemented`: `Spec => PortSpec`.

Of the shared table, for any number of services, tables and changes:
`CinTypeCorrect`, `LoadsOneByOne`, `KeysFindTable` and `WaitGivesTable`; of the
watchdog, for any number of launchers, `/quit` processes, crashes and failures:
`WatchdogInductive`, `WatchdogTypeCorrect`, `WorkersAlone` and `QuitIsAsked`.

Of the screen, for any set of texts: `UIInductive`, and with it every invariant of
`TextServiceUI`: `UITypeCorrect`, `NoEmptyWindow`, `CandidatesStayAgreed`,
`CompositionIsShown`, `ButtonsStayAgreed`, `KeysFindEngine` and `ClosedIsBlank`.

Assumptions: the `ASSUME`s of `BackendManager`, `Launcher`, `AsyncConnector`,
`PimeClient`, `CinTables` and `Watchdog` about constants; TLC evaluates them in
each run.

`SessionsMatchProcess` is not inductive: whether the host will have seen an init
reply depends on the replies still in the channel, the session, the router and
the process's output, and these must not outlive the process. `IInv` adds

- `EntryInv`: an entry belongs to a session that is being served;
- `FreshInv`: a connection not yet registered has left no message anywhere;
- `ChannelInv`: messages are in the queues of their connection's backend, and a
  host never sends a close;
- `CloseInv`: a close under way means the entry is gone, so that a process only
  forgets clients that are not registered;
- `DownInv`: between two processes, no output of the old one is left and none of
  the backend's registered clients has been answered;
- `KnownInv`: the property itself, extended to replies under way.

`SessionProofs` first says of each action which variables may move a message
and where from (`Flows`), then shows each part of `IInv` from those facts.

`LauncherInv` adds two more parts to `IInv`, proved in `OrderProofs`. `OrderInv`
is about order, because a message's place in the queues is all that tells a close
from the call it shares a number with:

- `LineInv`: what a backend has to read, reads and has printed is one line in
  which the messages of a connection keep their order and nothing follows a
  close. A kill and the two drains empty whole queues, which keeps it;
- `SentInv`: what the host has still in its pipe is later than all of that, and a
  close in the line means that the session is over and adds nothing;
- `SlotInv`: a message is in flight only while the input loop writes it, so a new
  process starts with nothing in flight;
- `WatchdogSeesUnanswered` itself. The step that could break it is the routing of
  a reply, which removes its key from `pending`: every other unanswered call of
  that connection comes later in the line, so it has another number.

`TrackedUnanswered` is inductive beside `SlotInv`: a call is tracked in the step
that puts it in flight, a restart clears `pending`, and the only step that takes
a message out of a living process's line is the routing of its reply, which
removes its key.

`MidwayInv` is about gaps:

- `HoldInv`: where a session stands says what it holds, that its receiver is open
  and, before it is registered, that no reply has come;
- `ReplyInv`: the replies on their way to a host are in order, and ahead of
  everything of that connection that has not been answered;
- `GapInv`: three prefixes of one line of numbers, each without a gap. What
  arrives or can still be routed never has one; with the printed replies there is
  none while the connection has an entry; and while the process lives too, no
  number at all is missing up to the last one sent. These are different because
  a force-disconnect drops a reply together with the entry, and the death of a
  process drops calls that a later process will not answer: between two processes
  a connection that keeps its entry has had no reply (`Down`), so that the next
  process begins anew and not in the middle.

Each step then either takes the oldest number, adds the next, moves one along the
line, or cuts the line off at its end (`KeptNoGap`, `OldestTaken`, `NextAdded`,
`UnbrokenPrefix`); only the connection and the backend of the step need be looked
at (`GapElsewhere`, `GapOthers`).

`FollowInv`, checked with TLC on the instance of `launcher_sync`, holds beside
`LauncherInv` when hosts wait for each reply and sessions notice a disconnect
within the delay:

- `InitedInv`: a host has had the reply to its init before any request of it is
  under way;
- `StartInv`: before a process starts no request waits for it, and no connection
  whose session goes on has been greeted by an earlier one. This is where both
  assumptions are needed: the delay ends after every greeted session has, so the
  drain that follows it takes their last requests, and those who register later
  have had no reply and so send nothing but their init;
- `ServedInv`: a running process knows every client whose request waits, and
  everyone it has greeted or is about to, until the session is over. It forgets a
  client at its close only, and the close is the last it reads of it (`LineInv`).

The client's properties are not inductive either: that a stored pipe is open and
initialised depends on where its worker stands, and that a reply is the one to
the call waited for depends on the UI thread waiting in one frame only.
`ClientInv` adds to them

- `LifeInv`: a client told to leave is in `onDeactivate` and `Disconnected`; a
  destroyed one has no pipe;
- `WaitInv`: the UI thread waits in its innermost frame only, with a `Ready` pipe;
- `NumberInv`: on a `Ready` pipe only the call waited for is unanswered, and
  `nextSeqNum_` is one ahead;
- `AttemptInv`: the position of each worker determines the handle and the numbers
  of its pipe; a worker not cancelled still has its callback; only a finished or
  posting worker has a stored pipe, a posted message, or the client's pipe.

`ClientProofs` first shows that a step of one attempt preserves `ClientInv` if it
keeps these facts of that attempt (`AttemptFrame`), then that reconnecting leaves
nothing of the last attempt but a cancelled worker (`ReconnectPreserves`), which
failed calls, refused calls and new clients share. `PortProofs` shows that each
step moves at most one pipe: reconnecting closes the stored pipe or the failed
one, never both, because a client with a connector has no pipe.

`CinInv` adds to the properties of the shared table that a reload is only asked
for while nothing loads, that a load has been named before anyone waits
(`LoadInv`), and what the client at hand may refer to at each step of a request
(`TableInv`). `WatchdogInv` says that a launcher in the loop has the mutex and is
alone there (`LoopInv`), who may have a running worker (`WorkerInv`), that the
event thread gives up its handle before its message is heard (`ThreadInv`), and
who of those near the end was asked (`AskedInv`). The heart of `QuitIsAsked` is
`CreateEvent`: an event that is set then is kept by someone; not by another
watchdog in the loop, since there is none, and not by one that has quit, since
it closed its handle before it told its main thread.

The properties of `TextServiceUI` speak of the moments when the UI thread is back
in its message loop; every step in between leaves them broken. `UIInv`
(`TextServiceProofs`) says what holds meanwhile:

- `StackInv`: the stacks that occur. A reply to a key has no part for the language
  bar, one to a notification none for the composition; so at most three frames
  nest, and the reply to a key is the outermost one;
- `ConnectionInv`: without a connection the service is a new one, and whatever is
  still on screen is marked `stale`;
- `ButtonsInv`: the service has its buttons exactly while the keyboard is open,
  up to a refused call; the language bar agrees, or the reply at the top of the
  stack is about to add or to remove them;
- `EngineInv`: only a service with an engine has buttons or shows candidates;
- `WindowInv`, `CandidatesInv`: service and screen agree on the candidates, up to
  the part of a reply that shows or hides them, or the rest of closing the
  keyboard; a composition forced to an end hides both;
- `CompositionInv`: the service's composition is on screen, or is the one the
  outermost reply is about to show; there is none while the end of a composition
  is being told to the service; all this while no end was refused;
- `ClosedInv`: a closed keyboard is blank, but for a kept composition, or still
  closing, and no key is being answered then.

`Resting` takes the properties from it: with an empty stack nothing is pending.

Only model-checked: the liveness properties. Liveness and ENABLED are outside
what the prover supports. Every invariant of a passing run is proved.

## Not modelled

- Backend registry, pipe ACL, service manager, DLL registration, icons: read or
  built once, no behaviour in time.
- The Node and Go servers: the launcher sees them through the same process model
  as the Python server. What differs is listed under the hazards.
- Key handling inside the input methods (symbols, phrases, chords of the braille
  keyboard, rime): sequential functions of large tables and of engines that are
  not part of this code. Their results are choices of `KeyHandled`.
- The counts that `cin.py` saves, and the reverse-lookup and homophone tables.

## Plan

1. *(done)* `BackendManager`, `Launcher`: checked; types, session safety and
   release of entries proved.
2. *(done)* `AsyncConnector`, `PimeClient`, and `HostPort`, which they implement:
   checked; callback and pipe safety and the refinement proved.
3. *(done)* `Watchdog`, `TextServiceUI`, `CinTables`: checked and their safety
   proved.
4. *(done)* Proofs of the order of messages: `CloseIsLast`,
   `WatchdogSeesUnanswered`, `NothingLostMidway`, `RequestsFollowInit`.
