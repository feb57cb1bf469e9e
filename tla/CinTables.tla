----------------------------- MODULE CinTables -----------------------------
(***************************************************************************)
(* The code table that the clients of one cinbase input method share       *)
(* (cinbase/cintablebase.py, LoadCinTable and checkConfigChange in         *)
(* cinbase/__init__.py, checj_ime.py and its siblings).                    *)
(*                                                                         *)
(* One thread serves the requests of all clients in turn.  It replaces the *)
(* table when the configuration of the client at hand asks for another; a  *)
(* worker thread loads it and then, in a callback, hands it to the client  *)
(* that asked.  Other clients pick it up at the start of their next        *)
(* request.  The two threads interleave between any two accesses to what   *)
(* they share.                                                             *)
(***************************************************************************)
EXTENDS Naturals, FiniteSets

CONSTANTS
  Clients,     \* connections that use this input method
  Types,       \* its tables: values of selCinType
  NoType,      \* no table has been asked for yet
  NoClient,
  MaxChanges   \* bound: changes of the configuration file

ASSUME CinAssumption == /\ IsFiniteSet(Clients)
                        /\ NoType \notin Types
                        /\ NoClient \notin Clients
                        /\ MaxChanges \in Nat

VARIABLES
  fileType,    \* selCinType in the configuration file
  changes,     \* how often it has changed
  phase,       \* of each client: is there a service, is it activated
  sel,         \* of each client: selCinType of its own copy, cbTS.cfg
  cin,         \* of each client: the table its attribute cin refers to
  curCinType,  \* of CinTable
  load,        \* the load that CinTable.future stands for
  running,     \* how many loads are in progress
  owner,       \* whose callback is to run after that load
  late,        \* callbacks of superseded loads that are still to run
  main,        \* where the server's thread is, with which client
  read,        \* the table it has just read from CinTable.cin
  overtaken    \* history: a late callback has run during the request

vars == <<fileType, changes, phase, sel, cin, curCinType, load, running,
          owner, late, main, read, overtaken>>

shared == <<fileType, changes, curCinType, load, running, owner, late>>

(* "current" is the table of CinTable.future, "old" any earlier one; the   *)
(* client that replaces a table empties it first.  A client's cin may be   *)
(* None, and has no value at all until one is assigned.                    *)
Tables == {"current", "old", "None", "unset"}

Places == {"idle", "waiting", "checking", "reloading", "comparing",
           "reading", "assigning", "key", "lookup", "raised"}

Init ==
  /\ fileType \in Types
  /\ changes = 0
  /\ phase = [c \in Clients |-> "absent"]
  /\ sel = [c \in Clients |-> fileType]
  /\ cin = [c \in Clients |-> "unset"]
  /\ curCinType = NoType
  /\ load = "none"
  /\ running = 0
  /\ owner = NoClient
  /\ late = {}
  /\ main = [at |-> "idle", client |-> NoClient, reloads |-> FALSE]
  /\ read = "None"
  /\ overtaken = FALSE

(* CinTableBase.loading, and CinTableBase.cin, which does not wait. *)
loading  == load = "loading"
TableCin == IF load = "done" THEN "current" ELSE "None"

At(p) == main.at = p
GoTo(p) == main' = [main EXCEPT !.at = p]
Finish == main' = [at |-> "idle", client |-> NoClient, reloads |-> FALSE]

-----------------------------------------------------------------------------
(* The worker thread *)

(* _load_table returns.  The first form may return once more. *)
LoadEnds ==
  /\ load' = "done"
  /\ running' = running - 1
  /\ UNCHANGED <<fileType, changes, phase, sel, cin, curCinType, owner, late,
                 main, read, overtaken>>

LoadDone ==
  /\ loading
  /\ load' = "done"
  /\ running' = running - 1
  /\ UNCHANGED <<fileType, changes, phase, sel, cin, curCinType, owner, late,
                 main, read, overtaken>>

(* _on_done gives the client the table it asked for ...                    *)
RunCallback ==
  /\ load = "done" /\ owner # NoClient
  /\ cin' = [cin EXCEPT ![owner] = "current"]
  /\ owner' = NoClient
  /\ UNCHANGED <<fileType, changes, phase, sel, curCinType, load, running,
                 late, main, read, overtaken>>

(* ... also when that table has been replaced in the meantime. *)
RunLateCallback(c) ==
  /\ c \in late
  /\ cin' = [cin EXCEPT ![c] = "old"]
  /\ late' = late \ {c}
  /\ overtaken' = (overtaken \/ main.client = c)
  /\ UNCHANGED <<fileType, changes, phase, sel, curCinType, load, running,
                 owner, main, read>>

-----------------------------------------------------------------------------
(* LoadCinTable.start for client c: the client's table is emptied, which   *)
(* every other client that refers to it will see, and a load begins.  The  *)
(* first form does not note which table it is.                             *)
StartUnnamed(c) ==
  /\ cin' = [d \in Clients |-> IF cin[d] = "current" THEN "old" ELSE cin[d]]
  /\ curCinType' = curCinType
  /\ load' = "loading"
  /\ running' = running + 1
  /\ late' = IF owner # NoClient THEN late \cup {owner} ELSE late
  /\ owner' = c

StartLoad(c) ==
  /\ cin' = [d \in Clients |-> IF cin[d] = "current" THEN "old" ELSE cin[d]]
  /\ curCinType' = sel'[c]
  /\ load' = "loading"
  /\ running' = running + 1
  /\ late' = IF owner # NoClient THEN late \cup {owner} ELSE late
  /\ owner' = c

(* A new service waits for a load that is going on, or starts one.  The    *)
(* first form does not look whether one is.                                *)
StartsRegardless(c) == curCinType # sel'[c]
StartsAtOnce(c)     == curCinType # sel'[c] /\ ~loading

Construct(c) ==
  /\ At("idle") /\ phase[c] = "absent"
  /\ sel' = [sel EXCEPT ![c] = fileType]
  /\ phase' = [phase EXCEPT ![c] = "new"]
  /\ IF StartsAtOnce(c)
     THEN /\ StartLoad(c)
          /\ UNCHANGED main
     ELSE /\ main' = [at |-> "waiting", client |-> c, reloads |-> FALSE]
          /\ UNCHANGED <<cin, curCinType, load, running, late, owner>>
  /\ UNCHANGED <<fileType, changes, read, overtaken>>

(* CinTable.wait() blocks the server's thread until the load is done.  The *)
(* first form waits for a limited time.                                    *)
WaitTimesOut ==
  /\ At("waiting")
  /\ cin' = [cin EXCEPT ![main.client] = TableCin]
  /\ Finish
  /\ UNCHANGED <<shared, phase, sel, read, overtaken>>

WaitOver ==
  /\ At("waiting") /\ ~loading
  /\ cin' = [cin EXCEPT ![main.client] = TableCin]
  /\ Finish
  /\ UNCHANGED <<shared, phase, sel, read, overtaken>>

(* onActivate: the first request that does not check the configuration. *)
Activate(c) ==
  /\ At("idle") /\ phase[c] = "new"
  /\ phase' = [phase EXCEPT ![c] = "active"]
  /\ UNCHANGED <<shared, sel, cin, main, read, overtaken>>

(* The launcher closes the connection; a load of its goes on. *)
Close(c) ==
  /\ At("idle") /\ phase[c] \in {"new", "active"}
  /\ phase' = [phase EXCEPT ![c] = "closed"]
  /\ UNCHANGED <<shared, sel, cin, main, read, overtaken>>

-----------------------------------------------------------------------------
(* A key of an activated client: checkConfigChange, then the handler *)

(* cfg.update reads the file if 3 seconds have passed since it last did.   *)
BeginRequest(c, fresh) ==
  /\ At("idle") /\ phase[c] = "active"
  /\ sel' = IF fresh THEN [sel EXCEPT ![c] = fileType] ELSE sel
  /\ main' = [at |-> "checking", client |-> c, reloads |-> FALSE]
  /\ overtaken' = FALSE
  /\ UNCHANGED <<shared, phase, cin, read>>

(* Another table is asked for only while none is being loaded. *)
CheckConfig ==
  /\ At("checking")
  /\ GoTo(IF ~loading /\ curCinType # sel[main.client]
          THEN "reloading" ELSE "comparing")
  /\ UNCHANGED <<shared, phase, sel, cin, read, overtaken>>

Reload ==
  /\ At("reloading")
  /\ sel' = sel
  /\ StartLoad(main.client)
  /\ main' = [main EXCEPT !.at = "key", !.reloads = TRUE]
  /\ UNCHANGED <<fileType, changes, phase, read, overtaken>>

(* "if not cbTS.cin == CinTable.cin": without the attribute this raises.   *)
(* The first form finds every table equal to every other.                  *)
CompareAny ==
  /\ At("comparing")
  /\ GoTo(CASE cin[main.client] = "unset" -> "raised"
            [] cin[main.client] = "old" -> "key"
            [] cin[main.client] = TableCin -> "key"
            [] OTHER -> "reading")
  /\ UNCHANGED <<shared, phase, sel, cin, read, overtaken>>

Compare ==
  /\ At("comparing")
  /\ GoTo(CASE cin[main.client] = "unset" -> "raised"
            [] cin[main.client] = TableCin -> "key"
            [] OTHER -> "reading")
  /\ UNCHANGED <<shared, phase, sel, cin, read, overtaken>>

(* "cbTS.cin = CinTable.cin": the table is read again, then assigned. *)
ReadTable ==
  /\ At("reading")
  /\ read' = TableCin
  /\ GoTo("assigning")
  /\ UNCHANGED <<shared, phase, sel, cin, overtaken>>

AssignTable ==
  /\ At("assigning")
  /\ cin' = [cin EXCEPT ![main.client] = read]
  /\ GoTo("key")
  /\ UNCHANGED <<shared, phase, sel, read, overtaken>>

(* filterKeyDown and onKeyDown: "loading, please wait" is shown instead of *)
(* looking the key up while there is no table.                             *)
HandleKey ==
  /\ At("key")
  /\ IF loading \/ cin[main.client] \in {"None", "unset"}
     THEN Finish
     ELSE GoTo("lookup")
  /\ UNCHANGED <<shared, phase, sel, cin, read, overtaken>>

LookUp ==
  /\ At("lookup")
  /\ Finish
  /\ UNCHANGED <<shared, phase, sel, cin, read, overtaken>>

(* The server answers a request that raised with success false. *)
Raised ==
  /\ At("raised")
  /\ Finish
  /\ UNCHANGED <<shared, phase, sel, cin, read, overtaken>>

(* The configuration tool writes another selCinType. *)
ChangeConfig ==
  /\ changes < MaxChanges
  /\ changes' = changes + 1
  /\ \E t \in Types \ {fileType} : fileType' = t
  /\ UNCHANGED <<phase, sel, cin, curCinType, load, running, owner, late,
                 main, read, overtaken>>

-----------------------------------------------------------------------------
ServerStep ==
  \/ WaitOver \/ CheckConfig \/ Reload \/ Compare \/ ReadTable
  \/ AssignTable \/ HandleKey \/ LookUp \/ Raised

Next ==
  \/ LoadDone \/ RunCallback \/ (\E c \in Clients : RunLateCallback(c))
  \/ ServerStep
  \/ \E c \in Clients :
       \/ Construct(c) \/ Activate(c) \/ Close(c)
       \/ \E fresh \in BOOLEAN : BeginRequest(c, fresh)
  \/ ChangeConfig

Spec == Init /\ [][Next]_vars

(* The threads go on; and an activated client that is not closed goes on   *)
(* sending keys, some of them more than 3 seconds after its last look at   *)
(* the file.                                                               *)
Fairness ==
  /\ WF_vars(LoadDone) /\ WF_vars(RunCallback) /\ WF_vars(ServerStep)
  /\ \A c \in Clients :
       WF_vars(RunLateCallback(c)) /\ SF_vars(BeginRequest(c, TRUE))

FairSpec == Spec /\ Fairness

-----------------------------------------------------------------------------
(* Invariants *)

(* Every variable keeps its type. *)
TypeOK ==
  /\ fileType \in Types
  /\ changes \in 0 .. MaxChanges
  /\ phase \in [Clients -> {"absent", "new", "active", "closed"}]
  /\ sel \in [Clients -> Types]
  /\ cin \in [Clients -> Tables]
  /\ curCinType \in Types \cup {NoType}
  /\ load \in {"none", "loading", "done"}
  /\ running \in Nat
  /\ owner \in Clients \cup {NoClient}
  /\ late \subseteq Clients
  /\ main \in [at: Places, client: Clients \cup {NoClient}, reloads: BOOLEAN]
  /\ read \in {"current", "old", "None"}
  /\ overtaken \in BOOLEAN

(* CinTable.future stands for every load in progress: two services never   *)
(* load at the same time, whichever of them are constructed while others   *)
(* reload, so that none waits for a table that nobody will hand out.       *)
OneLoad == running = IF loading THEN 1 ELSE 0

(* A key is looked up in the table that CinTable.future stands for, never  *)
(* in one that another client has emptied or replaced: each request starts *)
(* by picking up the shared table.  The two exceptions are a request that  *)
(* has itself begun a load, if that ends before the key is handled, and    *)
(* one in whose middle the callback of a superseded load hands its client  *)
(* the old table.                                                          *)
LookupCurrent ==
  At("lookup") =>
    \/ cin[main.client] = "current"
    \/ main.reloads
    \/ overtaken

(* A service that is constructed during a load holds up the server no      *)
(* longer than the load, and has a table when it is let go.                *)
WaitedServiceHasTable ==
  [][At("waiting") /\ main'.at # "waiting" =>
       cin'[main.client] = "current"]_vars

(* "non-blocking table access" that is "None if still loading"             *)
(* (cintablebase.py 30, 45): a request is answered while a table loads.    *)
RequestsAnswered == ~At("raised")

-----------------------------------------------------------------------------
(* Liveness *)

(* Although each client has its own copy of the configuration, looks at    *)
(* the file at its own times, and replaces the table the others use when   *)
(* it finds its copy to differ, they stop taking turns once the file has   *)
(* stopped changing: all use the table that it names.                      *)
TablesConverge ==
  <>[](\A c \in Clients : phase[c] = "active" =>
         curCinType = fileType /\ cin[c] = "current")
=============================================================================
