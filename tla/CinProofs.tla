------------------------------ MODULE CinProofs ------------------------------
(***************************************************************************)
(* Proofs about module CinTables, for any number of clients, tables and    *)
(* changes of the configuration.                                           *)
(***************************************************************************)
EXTENDS CinTables, TLAPS

(* One load at a time: the server's thread asks for one only when it has   *)
(* seen none, and no other thread can begin one in between.  Once a table  *)
(* has been named there is a load.                                         *)
LoadInv ==
  /\ running = IF loading THEN 1 ELSE 0
  /\ At("reloading") => ~loading
  /\ load = "none" <=> curCinType = NoType
  /\ At("waiting") => load # "none"

(* From the comparison on, the client at hand has the current table or     *)
(* none, unless it has begun a load or a late callback has run.            *)
TableInv ==
  /\ ~At("idle") => main.client \in Clients
  /\ At("assigning") => read # "old"
  /\ At("key") =>
       cin[main.client] \in {"current", "None"} \/ main.reloads \/ overtaken
  /\ At("lookup") =>
       cin[main.client] = "current" \/ main.reloads \/ overtaken

CinInv == TypeOK /\ LoadInv /\ TableInv

-----------------------------------------------------------------------------
LEMMA CinInit == Init => CinInv
<1> SUFFICES ASSUME Init PROVE CinInv  OBVIOUS
<1>1. TypeOK
  <2>1. 0 \in 0 .. MaxChanges  BY CinAssumption
  <2> QED BY <2>1 DEF Init, TypeOK, Tables, Places
<1>2. LoadInv /\ TableInv
  BY DEF Init, LoadInv, TableInv, At, loading
<1> QED BY <1>1, <1>2 DEF CinInv

(* Every step of either thread keeps the invariant. *)
LEMMA CinStep == CinInv /\ [Next]_vars => CinInv'
<1> SUFFICES ASSUME CinInv, [Next]_vars PROVE CinInv'  OBVIOUS
<1> USE CinAssumption DEF shared
<1>inv. TypeOK /\ LoadInv /\ TableInv  BY DEF CinInv
<1>1. ASSUME LoadDone PROVE CinInv'
  <2>1. TypeOK'
    BY <1>inv, <1>1
    DEF LoadDone, loading, TypeOK, Tables, Places, LoadInv
  <2>2. LoadInv'
    BY <1>inv, <1>1
    DEF LoadDone, loading, LoadInv, TypeOK, At
  <2>3. TableInv'
    BY <1>inv, <1>1
    DEF LoadDone, loading, TableInv, TypeOK, At, Tables
  <2> QED BY <2>1, <2>2, <2>3 DEF CinInv
<1>2. ASSUME RunCallback PROVE CinInv'
  <2>1. TypeOK'
    BY <1>inv, <1>2
    DEF RunCallback, TypeOK, Tables, Places
  <2>2. LoadInv'
    BY <1>inv, <1>2
    DEF RunCallback, LoadInv, TypeOK, loading, At
  <2>3. TableInv'
    BY <1>inv, <1>2
    DEF RunCallback, TableInv, TypeOK, At, Tables
  <2> QED BY <2>1, <2>2, <2>3 DEF CinInv
<1>3. ASSUME NEW c \in Clients, RunLateCallback(c) PROVE CinInv'
  <2>1. TypeOK'
    BY <1>inv, <1>3
    DEF RunLateCallback, TypeOK, Tables, Places
  <2>2. LoadInv'
    BY <1>inv, <1>3
    DEF RunLateCallback, LoadInv, TypeOK, loading, At
  <2>3. TableInv'
    BY <1>inv, <1>3
    DEF RunLateCallback, TableInv, TypeOK, At, Tables
  <2> QED BY <2>1, <2>2, <2>3 DEF CinInv
<1>4. ASSUME WaitOver PROVE CinInv'
  <2>1. TypeOK'
    BY <1>inv, <1>4
    DEF WaitOver, At, TableCin, Finish, loading, TypeOK, Tables, Places,
        TableInv
  <2>2. LoadInv'
    BY <1>inv, <1>4
    DEF WaitOver, At, TableCin, Finish, loading, LoadInv, TypeOK
  <2>3. TableInv'
    BY <1>inv, <1>4
    DEF WaitOver, At, TableCin, Finish, loading, TableInv, TypeOK, Tables
  <2> QED BY <2>1, <2>2, <2>3 DEF CinInv
<1>5. ASSUME CheckConfig PROVE CinInv'
  <2>1. TypeOK'
    BY <1>inv, <1>5
    DEF CheckConfig, At, GoTo, loading, TypeOK, Tables, Places
  <2>2. LoadInv'
    BY <1>inv, <1>5
    DEF CheckConfig, At, GoTo, loading, LoadInv, TypeOK
  <2>3. TableInv'
    BY <1>inv, <1>5
    DEF CheckConfig, At, GoTo, loading, TableInv, TypeOK, Tables
  <2> QED BY <2>1, <2>2, <2>3 DEF CinInv
<1>6. ASSUME Reload PROVE CinInv'
  <2>1. TypeOK'
    <3>1. main.client \in Clients /\ main \in [at: Places,
            client: Clients \cup {NoClient}, reloads: BOOLEAN]
      BY <1>inv, <1>6 DEF Reload, At, TableInv, TypeOK
    <3>2. main' \in [at: Places, client: Clients \cup {NoClient},
                    reloads: BOOLEAN]
      BY <3>1, <1>6 DEF Reload, Places
    <3>3. running' \in Nat /\ cin' \in [Clients -> Tables]
      BY <1>inv, <1>6 DEF Reload, StartLoad, TypeOK, Tables
    <3>4. curCinType' \in Types /\ owner' \in Clients /\ late' \subseteq Clients
      BY <1>inv, <1>6, <3>1 DEF Reload, StartLoad, TypeOK
    <3> QED BY <1>inv, <1>6, <3>2, <3>3, <3>4 DEF Reload, StartLoad, TypeOK
  <2>2. LoadInv'
    BY <1>inv, <1>6
    DEF Reload, At, StartLoad, LoadInv, TypeOK, loading, TableInv
  <2>3. TableInv'
    BY <1>inv, <1>6
    DEF Reload, At, StartLoad, TableInv, TypeOK, Tables
  <2> QED BY <2>1, <2>2, <2>3 DEF CinInv
<1>7. ASSUME Compare PROVE CinInv'
  <2>1. TypeOK'
    BY <1>inv, <1>7
    DEF Compare, At, GoTo, TableCin, TypeOK, Tables, Places
  <2>2. LoadInv'
    BY <1>inv, <1>7
    DEF Compare, At, GoTo, TableCin, LoadInv, TypeOK, loading
  <2>3. TableInv'
    BY <1>inv, <1>7
    DEF Compare, At, GoTo, TableCin, TableInv, TypeOK, Tables
  <2> QED BY <2>1, <2>2, <2>3 DEF CinInv
<1>8. ASSUME ReadTable PROVE CinInv'
  <2>1. TypeOK'
    BY <1>inv, <1>8
    DEF ReadTable, At, GoTo, TableCin, TypeOK, Tables, Places
  <2>2. LoadInv'
    BY <1>inv, <1>8
    DEF ReadTable, At, GoTo, TableCin, LoadInv, TypeOK, loading
  <2>3. TableInv'
    BY <1>inv, <1>8
    DEF ReadTable, At, GoTo, TableCin, TableInv, TypeOK, Tables
  <2> QED BY <2>1, <2>2, <2>3 DEF CinInv
<1>9. ASSUME AssignTable PROVE CinInv'
  <2>1. TypeOK'
    BY <1>inv, <1>9
    DEF AssignTable, At, GoTo, TypeOK, Tables, Places, TableInv
  <2>2. LoadInv'
    BY <1>inv, <1>9
    DEF AssignTable, At, GoTo, LoadInv, TypeOK, loading
  <2>3. TableInv'
    BY <1>inv, <1>9
    DEF AssignTable, At, GoTo, TableInv, TypeOK, Tables
  <2> QED BY <2>1, <2>2, <2>3 DEF CinInv
<1>10. ASSUME HandleKey PROVE CinInv'
  <2>1. TypeOK'
    <3>1. main' \in [at: Places, client: Clients \cup {NoClient},
                    reloads: BOOLEAN]
      <4>1. CASE Finish  BY <4>1 DEF Finish, Places
      <4>2. CASE GoTo("lookup")  BY <1>inv, <4>2 DEF GoTo, TypeOK, Places
      <4> QED BY <1>10, <4>1, <4>2 DEF HandleKey
    <3> QED BY <1>inv, <1>10, <3>1 DEF HandleKey, TypeOK
  <2>2. LoadInv'
    BY <1>inv, <1>10
    DEF HandleKey, At, GoTo, Finish, loading, LoadInv, TypeOK
  <2>3. TableInv'
    BY <1>inv, <1>10
    DEF HandleKey, At, GoTo, Finish, loading, TableInv, TypeOK, Tables
  <2> QED BY <2>1, <2>2, <2>3 DEF CinInv
<1>11. ASSUME LookUp PROVE CinInv'
  <2>1. TypeOK'
    BY <1>inv, <1>11
    DEF LookUp, At, Finish, TypeOK, Tables, Places
  <2>2. LoadInv'
    BY <1>inv, <1>11
    DEF LookUp, At, Finish, LoadInv, TypeOK, loading
  <2>3. TableInv'
    BY <1>inv, <1>11
    DEF LookUp, At, Finish, TableInv, TypeOK, Tables
  <2> QED BY <2>1, <2>2, <2>3 DEF CinInv
<1>12. ASSUME Raised PROVE CinInv'
  <2>1. TypeOK'
    BY <1>inv, <1>12
    DEF Raised, At, Finish, TypeOK, Tables, Places
  <2>2. LoadInv'
    BY <1>inv, <1>12
    DEF Raised, At, Finish, LoadInv, TypeOK, loading
  <2>3. TableInv'
    BY <1>inv, <1>12
    DEF Raised, At, Finish, TableInv, TypeOK, Tables
  <2> QED BY <2>1, <2>2, <2>3 DEF CinInv
<1>13. ASSUME NEW c \in Clients, Construct(c) PROVE CinInv'
  <2>1. TypeOK'
    <3>1. sel' \in [Clients -> Types] /\ sel'[c] = fileType
          /\ phase' \in [Clients -> {"absent", "new", "active", "closed"}]
      BY <1>inv, <1>13 DEF Construct, TypeOK
    <3>2. CASE StartLoad(c) /\ UNCHANGED main
      <4>1. running' \in Nat /\ cin' \in [Clients -> Tables]
        BY <1>inv, <3>2 DEF StartLoad, TypeOK, Tables
      <4>2. curCinType' \in Types /\ owner' \in Clients /\ late' \subseteq Clients
        BY <1>inv, <3>1, <3>2 DEF StartLoad, TypeOK
      <4> QED
        BY <1>inv, <1>13, <3>1, <3>2, <4>1, <4>2
        DEF Construct, StartLoad, TypeOK
    <3>3. CASE /\ main' = [at |-> "waiting", client |-> c, reloads |-> FALSE]
               /\ UNCHANGED <<cin, curCinType, load, running, late, owner>>
      <4>1. main' \in [at: Places, client: Clients \cup {NoClient},
                      reloads: BOOLEAN]
        BY <3>3 DEF Places
      <4> QED BY <1>inv, <1>13, <3>1, <3>3, <4>1 DEF Construct, TypeOK
    <3> QED BY <1>13, <3>2, <3>3 DEF Construct
  <2>2. LoadInv'
    BY <1>inv, <1>13
    DEF Construct, At, StartLoad, StartsAtOnce, loading, LoadInv, TypeOK
  <2>3. TableInv'
    BY <1>inv, <1>13
    DEF Construct, At, StartLoad, StartsAtOnce, loading, TableInv, TypeOK,
        Tables
  <2> QED BY <2>1, <2>2, <2>3 DEF CinInv
<1>14. ASSUME NEW c \in Clients, Activate(c) PROVE CinInv'
  <2>1. TypeOK'
    BY <1>inv, <1>14
    DEF Activate, At, TypeOK, Tables, Places
  <2>2. LoadInv'
    BY <1>inv, <1>14
    DEF Activate, At, LoadInv, TypeOK, loading
  <2>3. TableInv'
    BY <1>inv, <1>14
    DEF Activate, At, TableInv, TypeOK, Tables
  <2> QED BY <2>1, <2>2, <2>3 DEF CinInv
<1>15. ASSUME NEW c \in Clients, Close(c) PROVE CinInv'
  <2>1. TypeOK'
    BY <1>inv, <1>15
    DEF Close, At, TypeOK, Tables, Places
  <2>2. LoadInv'
    BY <1>inv, <1>15
    DEF Close, At, LoadInv, TypeOK, loading
  <2>3. TableInv'
    BY <1>inv, <1>15
    DEF Close, At, TableInv, TypeOK, Tables
  <2> QED BY <2>1, <2>2, <2>3 DEF CinInv
<1>16. ASSUME NEW c \in Clients, NEW fresh \in BOOLEAN,
             BeginRequest(c, fresh)
      PROVE CinInv'
  <2>1. TypeOK'
    BY <1>inv, <1>16
    DEF BeginRequest, At, TypeOK, Tables, Places
  <2>2. LoadInv'
    BY <1>inv, <1>16
    DEF BeginRequest, At, LoadInv, TypeOK, loading
  <2>3. TableInv'
    BY <1>inv, <1>16
    DEF BeginRequest, At, TableInv, TypeOK, Tables
  <2> QED BY <2>1, <2>2, <2>3 DEF CinInv
<1>17. ASSUME ChangeConfig PROVE CinInv'
  <2>1. TypeOK'
    BY <1>inv, <1>17
    DEF ChangeConfig, TypeOK, Tables, Places
  <2>2. LoadInv'
    BY <1>inv, <1>17
    DEF ChangeConfig, LoadInv, TypeOK, loading, At
  <2>3. TableInv'
    BY <1>inv, <1>17
    DEF ChangeConfig, TableInv, TypeOK, At, Tables
  <2> QED BY <2>1, <2>2, <2>3 DEF CinInv
<1>18. CASE UNCHANGED vars
  BY <1>inv, <1>18
  DEF vars, CinInv, TypeOK, LoadInv, TableInv, At, loading
<1> QED
  BY <1>1, <1>2, <1>3, <1>4, <1>5, <1>6, <1>7, <1>8, <1>9, <1>10, <1>11,
     <1>12, <1>13, <1>14, <1>15, <1>16, <1>17, <1>18
  DEF Next, ServerStep

(* The invariant holds in every behaviour. *)
THEOREM CinInductive == Spec => []CinInv
  BY CinInit, CinStep, PTL DEF Spec

(* Every variable keeps its type. *)
THEOREM CinTypeCorrect == Spec => []TypeOK
  <1>1. CinInv => TypeOK  BY DEF CinInv
  <1> QED BY <1>1, CinInductive, PTL

(* Two loads never run at the same time, for any number of clients.        *)
THEOREM LoadsOneByOne == Spec => []OneLoad
  <1>1. CinInv => OneLoad  BY DEF CinInv, LoadInv, OneLoad
  <1> QED BY <1>1, CinInductive, PTL

(* A key is never looked up in a table that another client has emptied,    *)
(* outside the two windows that LookupCurrent names.                       *)
THEOREM KeysFindTable == Spec => []LookupCurrent
  <1>1. CinInv => LookupCurrent  BY DEF CinInv, TableInv, LookupCurrent
  <1> QED BY <1>1, CinInductive, PTL

(* A service that has waited for a load has the table when it goes on.     *)
THEOREM WaitGivesTable == Spec => WaitedServiceHasTable
<1>1. CinInv /\ [Next]_vars =>
        [At("waiting") /\ main'.at # "waiting" =>
           cin'[main.client] = "current"]_vars
  <2> SUFFICES ASSUME CinInv, Next, At("waiting"), main'.at # "waiting"
               PROVE  cin'[main.client] = "current"
    OBVIOUS
  <2>1. WaitOver
    BY DEF Next, ServerStep, LoadDone, RunCallback, RunLateCallback,
           CheckConfig, Reload, Compare, ReadTable, AssignTable, HandleKey,
           LookUp, Raised, Construct, Activate, Close, BeginRequest,
           ChangeConfig, shared, At
  <2> QED
    BY <2>1 DEF WaitOver, CinInv, TypeOK, LoadInv, TableInv, TableCin, At,
                loading
<1> QED BY <1>1, CinInductive, PTL DEF Spec, WaitedServiceHasTable
=============================================================================
