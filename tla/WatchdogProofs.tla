--------------------------- MODULE WatchdogProofs ---------------------------
(***************************************************************************)
(* Proofs about module Watchdog, for any number of launchers and of /quit  *)
(* processes, and any number of crashes and failures.                      *)
(***************************************************************************)
EXTENDS Watchdog, TLAPS

(* A launcher in the loop keeps the mutex, so it is alone there; before it *)
(* has started it keeps nothing.                                           *)
LoopInv ==
  /\ \A l \in Launchers : proc[l] = "absent" => handles[l] = {}
  /\ \A l \in Launchers : proc[l] \in Loop => Holds(l, "mutex")
  /\ \A k, l \in Launchers : proc[k] \in Loop /\ proc[l] \in Loop => k = l

(* A running worker is watched, being killed, or left by a launcher that   *)
(* was ended from outside.                                                 *)
WorkerInv ==
  \A l \in Launchers : WorkerRuns(l) =>
    \/ proc[l] \in {"watching", "killing"}
    \/ proc[l] \in {"exiting", "gone"} /\ l \in killed

(* The event thread sends one message, and before that gives up its handle.*)
ThreadInv ==
  \A l \in Launchers :
    /\ thread[l] # "off" => inbox[l] = 0 /\ proc[l] \in Loop \ {"killing"}
    /\ proc[l] \in {"absent", "started", "killing"} => inbox[l] = 0
    /\ Holds(l, "event") /\ l \notin killed =>
         thread[l] \in {"waiting", "closing"}

(* Whoever goes on towards the end was asked to, and so was whoever is     *)
(* about to see the event set.                                             *)
AskedInv ==
  \A l \in Launchers :
    /\ \/ thread[l] \in {"closing", "sending"}
       \/ inbox[l] > 0
       \/ proc[l] = "killing"
       => l \in asked
    /\ thread[l] = "waiting" /\ signalled => l \in asked

(* An event that is set exists. *)
EventInv == signalled => EventKept(handles, quitter)

WatchdogInv ==
  TypeOK /\ LoopInv /\ WorkerInv /\ ThreadInv /\ AskedInv /\ EventInv

-----------------------------------------------------------------------------
LEMMA InitInv == Init => WatchdogInv
<1> SUFFICES ASSUME Init PROVE WatchdogInv  OBVIOUS
<1>1. TypeOK
  <2>1. 0 \in 0 .. MaxCrashes /\ 0 \in 0 .. MaxFailures /\ 0 \in 0 .. 1
    BY WatchdogAssumption
  <2> QED BY <2>1 DEF Init, TypeOK, Places
<1>2. LoopInv /\ WorkerInv /\ ThreadInv
  BY DEF Init, LoopInv, Loop, WorkerInv, WorkerRuns, ThreadInv, Holds
<1>3. AskedInv /\ EventInv
  BY DEF Init, AskedInv, EventInv
<1> QED BY <1>1, <1>2, <1>3 DEF WatchdogInv

(* Every step keeps the invariant. *)
LEMMA StepInv == WatchdogInv /\ [Next]_vars => WatchdogInv'
<1> SUFFICES ASSUME WatchdogInv, [Next]_vars PROVE WatchdogInv'  OBVIOUS
<1> USE WatchdogAssumption DEF bounds, history
<1>inv. TypeOK /\ LoopInv /\ WorkerInv /\ ThreadInv /\ AskedInv /\ EventInv
  BY DEF WatchdogInv
<1>1. ASSUME NEW l \in Launchers, TakeMutex(l) PROVE WatchdogInv'
  <2>1. TypeOK'
    BY <1>inv, <1>1
    DEF TakeMutex, GoTo, ThreadGoes, TypeOK, Places, Loop
  <2>2. LoopInv'
    BY <1>inv, <1>1
    DEF TakeMutex, GoTo, ThreadGoes, LoopInv, TypeOK, Loop, Holds, MutexExists
  <2>3. WorkerInv'
    BY <1>inv, <1>1
    DEF TakeMutex, GoTo, ThreadGoes, WorkerInv, TypeOK, WorkerRuns, Loop
  <2>4. ThreadInv'
    BY <1>inv, <1>1
    DEF TakeMutex, GoTo, ThreadGoes, ThreadInv, TypeOK, Loop, Holds
  <2>5. AskedInv'
    BY <1>inv, <1>1
    DEF TakeMutex, GoTo, ThreadGoes, AskedInv, TypeOK, ThreadInv, EventInv,
        EventKept, LoopInv, Holds, Loop
  <2>6. EventInv'
    BY <1>inv, <1>1
    DEF TakeMutex, GoTo, ThreadGoes, EventInv, TypeOK, EventKept, LoopInv
  <2> QED BY <2>1, <2>2, <2>3, <2>4, <2>5, <2>6 DEF WatchdogInv
<1>2. ASSUME NEW l \in Launchers, Spawn(l) PROVE WatchdogInv'
  <2>1. TypeOK'
    BY <1>inv, <1>2
    DEF Spawn, GoTo, WorkerIs, TypeOK, Places, Loop
  <2>2. LoopInv'
    BY <1>inv, <1>2
    DEF Spawn, GoTo, WorkerIs, LoopInv, TypeOK, Loop, Holds
  <2>3. WorkerInv'
    BY <1>inv, <1>2
    DEF Spawn, GoTo, WorkerIs, WorkerInv, TypeOK, WorkerRuns, Loop
  <2>4. ThreadInv'
    BY <1>inv, <1>2
    DEF Spawn, GoTo, WorkerIs, ThreadInv, TypeOK, Loop, Holds
  <2>5. AskedInv'
    BY <1>inv, <1>2
    DEF Spawn, GoTo, WorkerIs, AskedInv, TypeOK, ThreadInv, EventInv,
        EventKept, LoopInv, Holds, Loop
  <2>6. EventInv'
    BY <1>inv, <1>2
    DEF Spawn, GoTo, WorkerIs, EventInv, TypeOK, EventKept, LoopInv
  <2> QED BY <2>1, <2>2, <2>3, <2>4, <2>5, <2>6 DEF WatchdogInv
<1>3. ASSUME NEW l \in Launchers, SeeExit(l) PROVE WatchdogInv'
  <2>1. TypeOK'
    BY <1>inv, <1>3
    DEF SeeExit, GoTo, WorkerIs, TypeOK, Places, Loop
  <2>2. LoopInv'
    BY <1>inv, <1>3
    DEF SeeExit, GoTo, WorkerIs, LoopInv, TypeOK, Loop, Holds
  <2>3. WorkerInv'
    BY <1>inv, <1>3
    DEF SeeExit, GoTo, WorkerIs, WorkerInv, TypeOK, WorkerRuns, Loop
  <2>4. ThreadInv'
    BY <1>inv, <1>3
    DEF SeeExit, GoTo, WorkerIs, ThreadInv, TypeOK, Loop, Holds
  <2>5. AskedInv'
    BY <1>inv, <1>3
    DEF SeeExit, GoTo, WorkerIs, AskedInv, TypeOK, ThreadInv, EventInv,
        EventKept, LoopInv, Holds, Loop
  <2>6. EventInv'
    BY <1>inv, <1>3
    DEF SeeExit, GoTo, WorkerIs, EventInv, TypeOK, EventKept, LoopInv
  <2> QED BY <2>1, <2>2, <2>3, <2>4, <2>5, <2>6 DEF WatchdogInv
<1>4. ASSUME NEW l \in Launchers, SpawnAgain(l) PROVE WatchdogInv'
  <2>1. TypeOK'
    BY <1>inv, <1>4
    DEF SpawnAgain, GoTo, TypeOK, Places, Loop
  <2>2. LoopInv'
    BY <1>inv, <1>4
    DEF SpawnAgain, GoTo, LoopInv, TypeOK, Loop, Holds
  <2>3. WorkerInv'
    BY <1>inv, <1>4
    DEF SpawnAgain, GoTo, WorkerInv, TypeOK, WorkerRuns, Loop
  <2>4. ThreadInv'
    BY <1>inv, <1>4
    DEF SpawnAgain, GoTo, ThreadInv, TypeOK, Loop, Holds
  <2>5. AskedInv'
    BY <1>inv, <1>4
    DEF SpawnAgain, GoTo, AskedInv, TypeOK, ThreadInv, EventInv, EventKept,
        LoopInv, Holds, Loop
  <2>6. EventInv'
    BY <1>inv, <1>4
    DEF SpawnAgain, GoTo, EventInv, TypeOK, EventKept, LoopInv
  <2> QED BY <2>1, <2>2, <2>3, <2>4, <2>5, <2>6 DEF WatchdogInv
<1>5. ASSUME NEW l \in Launchers, Quit(l) PROVE WatchdogInv'
  <2>1. TypeOK'
    BY <1>inv, <1>5
    DEF Quit, GoTo, WorkerIs, TypeOK, Places, Loop
  <2>2. LoopInv'
    BY <1>inv, <1>5
    DEF Quit, GoTo, WorkerIs, LoopInv, TypeOK, Loop, Holds
  <2>3. WorkerInv'
    BY <1>inv, <1>5
    DEF Quit, GoTo, WorkerIs, WorkerInv, TypeOK, WorkerRuns, Loop
  <2>4. ThreadInv'
    BY <1>inv, <1>5
    DEF Quit, GoTo, WorkerIs, ThreadInv, TypeOK, Loop, Holds
  <2>5. AskedInv'
    BY <1>inv, <1>5
    DEF Quit, GoTo, WorkerIs, AskedInv, TypeOK, ThreadInv, EventInv,
        EventKept, LoopInv, Holds, Loop
  <2>6. EventInv'
    BY <1>inv, <1>5
    DEF Quit, GoTo, WorkerIs, EventInv, TypeOK, EventKept, LoopInv
  <2> QED BY <2>1, <2>2, <2>3, <2>4, <2>5, <2>6 DEF WatchdogInv
<1>6. ASSUME NEW l \in Launchers, HearQuit(l) PROVE WatchdogInv'
  <2>1. TypeOK'
    BY <1>inv, <1>6
    DEF HearQuit, GoTo, WorkerIs, TypeOK, Places, Loop
  <2>2. LoopInv'
    BY <1>inv, <1>6
    DEF HearQuit, GoTo, WorkerIs, LoopInv, TypeOK, Loop, Holds
  <2>3. WorkerInv'
    BY <1>inv, <1>6
    DEF HearQuit, GoTo, WorkerIs, WorkerInv, TypeOK, WorkerRuns, Loop
  <2>4. ThreadInv'
    BY <1>inv, <1>6
    DEF HearQuit, GoTo, WorkerIs, ThreadInv, TypeOK, Loop, Holds
  <2>5. AskedInv'
    BY <1>inv, <1>6
    DEF HearQuit, GoTo, WorkerIs, AskedInv, TypeOK, ThreadInv, EventInv,
        EventKept, LoopInv, Holds, Loop
  <2>6. EventInv'
    BY <1>inv, <1>6
    DEF HearQuit, GoTo, WorkerIs, EventInv, TypeOK, EventKept, LoopInv
  <2> QED BY <2>1, <2>2, <2>3, <2>4, <2>5, <2>6 DEF WatchdogInv
<1>7. ASSUME NEW l \in Launchers, CreateEvent(l) PROVE WatchdogInv'
  <2>1. TypeOK'
    BY <1>inv, <1>7
    DEF CreateEvent, ThreadGoes, TypeOK, Places, Loop
  <2>2. LoopInv'
    BY <1>inv, <1>7
    DEF CreateEvent, ThreadGoes, LoopInv, TypeOK, Loop, Holds, ThreadInv
  <2>3. WorkerInv'
    BY <1>inv, <1>7
    DEF CreateEvent, ThreadGoes, WorkerInv, TypeOK, WorkerRuns, Loop
  <2>4. ThreadInv'
    BY <1>inv, <1>7
    DEF CreateEvent, ThreadGoes, ThreadInv, TypeOK, Loop, Holds
  <2>5. AskedInv'
    BY <1>inv, <1>7
    DEF CreateEvent, ThreadGoes, AskedInv, TypeOK, ThreadInv, EventInv,
        EventKept, LoopInv, Holds, Loop
  <2>6. EventInv'
    BY <1>inv, <1>7
    DEF CreateEvent, ThreadGoes, EventInv, TypeOK, EventKept, LoopInv
  <2> QED BY <2>1, <2>2, <2>3, <2>4, <2>5, <2>6 DEF WatchdogInv
<1>8. ASSUME NEW l \in Launchers, Wake(l) PROVE WatchdogInv'
  <2>1. TypeOK'
    BY <1>inv, <1>8
    DEF Wake, ThreadGoes, TypeOK, Places, Loop
  <2>2. LoopInv'
    BY <1>inv, <1>8
    DEF Wake, ThreadGoes, LoopInv, TypeOK, Loop, Holds
  <2>3. WorkerInv'
    BY <1>inv, <1>8
    DEF Wake, ThreadGoes, WorkerInv, TypeOK, WorkerRuns, Loop
  <2>4. ThreadInv'
    BY <1>inv, <1>8
    DEF Wake, ThreadGoes, ThreadInv, TypeOK, Loop, Holds
  <2>5. AskedInv'
    BY <1>inv, <1>8
    DEF Wake, ThreadGoes, AskedInv, TypeOK, ThreadInv, EventInv, EventKept,
        LoopInv, Holds, Loop
  <2>6. EventInv'
    BY <1>inv, <1>8
    DEF Wake, ThreadGoes, EventInv, TypeOK, EventKept, LoopInv
  <2> QED BY <2>1, <2>2, <2>3, <2>4, <2>5, <2>6 DEF WatchdogInv
<1>9. ASSUME NEW l \in Launchers, CloseEvent(l) PROVE WatchdogInv'
  <2>1. TypeOK'
    BY <1>inv, <1>9
    DEF CloseEvent, ThreadGoes, TypeOK, Places, Loop
  <2>2. LoopInv'
    BY <1>inv, <1>9
    DEF CloseEvent, ThreadGoes, LoopInv, TypeOK, Loop, Holds
  <2>3. WorkerInv'
    BY <1>inv, <1>9
    DEF CloseEvent, ThreadGoes, WorkerInv, TypeOK, WorkerRuns, Loop
  <2>4. ThreadInv'
    BY <1>inv, <1>9
    DEF CloseEvent, ThreadGoes, ThreadInv, TypeOK, Loop, Holds
  <2>5. AskedInv'
    BY <1>inv, <1>9
    DEF CloseEvent, ThreadGoes, AskedInv, TypeOK, ThreadInv, EventInv,
        EventKept, LoopInv, Holds, Loop
  <2>6. EventInv'
    BY <1>inv, <1>9
    DEF CloseEvent, ThreadGoes, EventInv, TypeOK, EventKept, LoopInv
  <2> QED BY <2>1, <2>2, <2>3, <2>4, <2>5, <2>6 DEF WatchdogInv
<1>10. ASSUME NEW l \in Launchers, Send(l) PROVE WatchdogInv'
  <2>1. TypeOK'
    BY <1>inv, <1>10
    DEF Send, ThreadGoes, TypeOK, Places, Loop, ThreadInv
  <2>2. LoopInv'
    BY <1>inv, <1>10
    DEF Send, ThreadGoes, LoopInv, TypeOK, Loop, Holds
  <2>3. WorkerInv'
    BY <1>inv, <1>10
    DEF Send, ThreadGoes, WorkerInv, TypeOK, WorkerRuns, Loop
  <2>4. ThreadInv'
    BY <1>inv, <1>10
    DEF Send, ThreadGoes, ThreadInv, TypeOK, Loop, Holds
  <2>5. AskedInv'
    BY <1>inv, <1>10
    DEF Send, ThreadGoes, AskedInv, TypeOK, ThreadInv, EventInv, EventKept,
        LoopInv, Holds, Loop
  <2>6. EventInv'
    BY <1>inv, <1>10
    DEF Send, ThreadGoes, EventInv, TypeOK, EventKept, LoopInv
  <2> QED BY <2>1, <2>2, <2>3, <2>4, <2>5, <2>6 DEF WatchdogInv
<1>11. ASSUME NEW l \in Launchers, Exit(l) PROVE WatchdogInv'
  <2>1. TypeOK'
    BY <1>inv, <1>11
    DEF Exit, GoTo, TypeOK, Places, Loop
  <2>2. LoopInv'
    BY <1>inv, <1>11
    DEF Exit, GoTo, LoopInv, TypeOK, Loop, Holds
  <2>3. WorkerInv'
    BY <1>inv, <1>11
    DEF Exit, GoTo, WorkerInv, TypeOK, WorkerRuns, Loop
  <2>4. ThreadInv'
    BY <1>inv, <1>11
    DEF Exit, GoTo, ThreadInv, TypeOK, Loop, Holds
  <2>5. AskedInv'
    BY <1>inv, <1>11
    DEF Exit, GoTo, AskedInv, TypeOK, ThreadInv, EventInv, EventKept, LoopInv,
        Holds, Loop
  <2>6. EventInv'
    BY <1>inv, <1>11
    DEF Exit, GoTo, EventInv, TypeOK, EventKept, LoopInv
  <2> QED BY <2>1, <2>2, <2>3, <2>4, <2>5, <2>6 DEF WatchdogInv
<1>12. ASSUME NEW l \in Launchers, WorkerEnds(l) PROVE WatchdogInv'
  <2>1. TypeOK'
    BY <1>inv, <1>12
    DEF WorkerEnds, WorkerIs, Release, TypeOK, Places, Loop
  <2>2. LoopInv'
    BY <1>inv, <1>12
    DEF WorkerEnds, WorkerIs, Release, LoopInv, TypeOK, Loop, Holds
  <2>3. WorkerInv'
    BY <1>inv, <1>12
    DEF WorkerEnds, WorkerIs, Release, WorkerInv, TypeOK, WorkerRuns, Loop
  <2>4. ThreadInv'
    BY <1>inv, <1>12
    DEF WorkerEnds, WorkerIs, Release, ThreadInv, TypeOK, Loop, Holds
  <2>5. AskedInv'
    BY <1>inv, <1>12
    DEF WorkerEnds, WorkerIs, Release, AskedInv, TypeOK, ThreadInv, EventInv,
        EventKept, LoopInv, Holds, Loop
  <2>6. EventInv'
    BY <1>inv, <1>12
    DEF WorkerEnds, WorkerIs, Release, EventInv, TypeOK, EventKept, LoopInv
  <2> QED BY <2>1, <2>2, <2>3, <2>4, <2>5, <2>6 DEF WatchdogInv
<1>13. ASSUME NEW l \in Launchers, OpenPipe(l) PROVE WatchdogInv'
  <2>1. TypeOK'
    BY <1>inv, <1>13
    DEF OpenPipe, TypeOK, Places, Loop
  <2>2. LoopInv'
    BY <1>inv, <1>13
    DEF OpenPipe, LoopInv, TypeOK, Loop, Holds
  <2>3. WorkerInv'
    BY <1>inv, <1>13
    DEF OpenPipe, WorkerInv, TypeOK, WorkerRuns, Loop
  <2>4. ThreadInv'
    BY <1>inv, <1>13
    DEF OpenPipe, ThreadInv, TypeOK, Loop, Holds
  <2>5. AskedInv'
    BY <1>inv, <1>13
    DEF OpenPipe, AskedInv, TypeOK, ThreadInv, EventInv, EventKept, LoopInv,
        Holds, Loop
  <2>6. EventInv'
    BY <1>inv, <1>13
    DEF OpenPipe, EventInv, TypeOK, EventKept, LoopInv
  <2> QED BY <2>1, <2>2, <2>3, <2>4, <2>5, <2>6 DEF WatchdogInv
<1>14. ASSUME NEW l \in Launchers, Start(l) PROVE WatchdogInv'
  <2>1. TypeOK'
    BY <1>inv, <1>14
    DEF Start, GoTo, TypeOK, Places, Loop
  <2>2. LoopInv'
    BY <1>inv, <1>14
    DEF Start, GoTo, LoopInv, TypeOK, Loop, Holds
  <2>3. WorkerInv'
    BY <1>inv, <1>14
    DEF Start, GoTo, WorkerInv, TypeOK, WorkerRuns, Loop
  <2>4. ThreadInv'
    BY <1>inv, <1>14
    DEF Start, GoTo, ThreadInv, TypeOK, Loop, Holds
  <2>5. AskedInv'
    BY <1>inv, <1>14
    DEF Start, GoTo, AskedInv, TypeOK, ThreadInv, EventInv, EventKept,
        LoopInv, Holds, Loop
  <2>6. EventInv'
    BY <1>inv, <1>14
    DEF Start, GoTo, EventInv, TypeOK, EventKept, LoopInv
  <2> QED BY <2>1, <2>2, <2>3, <2>4, <2>5, <2>6 DEF WatchdogInv
<1>15. ASSUME NEW l \in Launchers, SpawnFails(l) PROVE WatchdogInv'
  <2>1. TypeOK'
    BY <1>inv, <1>15
    DEF SpawnFails, GoTo, TypeOK, Places, Loop
  <2>2. LoopInv'
    BY <1>inv, <1>15
    DEF SpawnFails, GoTo, LoopInv, TypeOK, Loop, Holds
  <2>3. WorkerInv'
    BY <1>inv, <1>15
    DEF SpawnFails, GoTo, WorkerInv, TypeOK, WorkerRuns, Loop
  <2>4. ThreadInv'
    BY <1>inv, <1>15
    DEF SpawnFails, GoTo, ThreadInv, TypeOK, Loop, Holds
  <2>5. AskedInv'
    BY <1>inv, <1>15
    DEF SpawnFails, GoTo, AskedInv, TypeOK, ThreadInv, EventInv, EventKept,
        LoopInv, Holds, Loop
  <2>6. EventInv'
    BY <1>inv, <1>15
    DEF SpawnFails, GoTo, EventInv, TypeOK, EventKept, LoopInv
  <2> QED BY <2>1, <2>2, <2>3, <2>4, <2>5, <2>6 DEF WatchdogInv
<1>16. ASSUME NEW l \in Launchers, Kill(l) PROVE WatchdogInv'
  <2>1. TypeOK'
    BY <1>inv, <1>16
    DEF Kill, GoTo, ThreadGoes, TypeOK, Places, Loop
  <2>2. LoopInv'
    BY <1>inv, <1>16
    DEF Kill, GoTo, ThreadGoes, LoopInv, TypeOK, Loop, Holds
  <2>3. WorkerInv'
    BY <1>inv, <1>16
    DEF Kill, GoTo, ThreadGoes, WorkerInv, TypeOK, WorkerRuns, Loop
  <2>4. ThreadInv'
    BY <1>inv, <1>16
    DEF Kill, GoTo, ThreadGoes, ThreadInv, TypeOK, Loop, Holds
  <2>5. AskedInv'
    BY <1>inv, <1>16
    DEF Kill, GoTo, ThreadGoes, AskedInv, TypeOK, ThreadInv, EventInv,
        EventKept, LoopInv, Holds, Loop
  <2>6. EventInv'
    BY <1>inv, <1>16
    DEF Kill, GoTo, ThreadGoes, EventInv, TypeOK, EventKept, LoopInv
  <2> QED BY <2>1, <2>2, <2>3, <2>4, <2>5, <2>6 DEF WatchdogInv
<1>17. ASSUME NEW l \in Launchers, WorkerCrashes(l) PROVE WatchdogInv'
  <2>1. TypeOK'
    BY <1>inv, <1>17
    DEF WorkerCrashes, WorkerIs, Release, TypeOK, Places, Loop
  <2>2. LoopInv'
    BY <1>inv, <1>17
    DEF WorkerCrashes, WorkerIs, Release, LoopInv, TypeOK, Loop, Holds
  <2>3. WorkerInv'
    BY <1>inv, <1>17
    DEF WorkerCrashes, WorkerIs, Release, WorkerInv, TypeOK, WorkerRuns, Loop
  <2>4. ThreadInv'
    BY <1>inv, <1>17
    DEF WorkerCrashes, WorkerIs, Release, ThreadInv, TypeOK, Loop, Holds
  <2>5. AskedInv'
    BY <1>inv, <1>17
    DEF WorkerCrashes, WorkerIs, Release, AskedInv, TypeOK, ThreadInv,
        EventInv, EventKept, LoopInv, Holds, Loop
  <2>6. EventInv'
    BY <1>inv, <1>17
    DEF WorkerCrashes, WorkerIs, Release, EventInv, TypeOK, EventKept, LoopInv
  <2> QED BY <2>1, <2>2, <2>3, <2>4, <2>5, <2>6 DEF WatchdogInv
<1>18. ASSUME NEW l \in Launchers, NEW h \in {"job", "mutex", "event"},
             CloseAtExit(l, h)
      PROVE WatchdogInv'
  <2>1. TypeOK'
    BY <1>inv, <1>18
    DEF CloseAtExit, WorkerIs, TypeOK, Places, Loop
  <2>2. LoopInv'
    BY <1>inv, <1>18
    DEF CloseAtExit, WorkerIs, LoopInv, TypeOK, Loop, Holds
  <2>3. WorkerInv'
    BY <1>inv, <1>18
    DEF CloseAtExit, WorkerIs, WorkerInv, TypeOK, WorkerRuns, Loop
  <2>4. ThreadInv'
    BY <1>inv, <1>18
    DEF CloseAtExit, WorkerIs, ThreadInv, TypeOK, Loop, Holds
  <2>5. AskedInv'
    BY <1>inv, <1>18
    DEF CloseAtExit, WorkerIs, AskedInv, TypeOK, ThreadInv, EventInv,
        EventKept, LoopInv, Holds, Loop
  <2>6. EventInv'
    BY <1>inv, <1>18
    DEF CloseAtExit, WorkerIs, EventInv, TypeOK, EventKept, LoopInv
  <2> QED BY <2>1, <2>2, <2>3, <2>4, <2>5, <2>6 DEF WatchdogInv
<1>19. ASSUME NEW q \in Quitters, OpenEvent(q) PROVE WatchdogInv'
  <2>1. TypeOK'
    BY <1>inv, <1>19
    DEF OpenEvent, TypeOK, Places, Loop
  <2>2. LoopInv'
    BY <1>inv, <1>19
    DEF OpenEvent, LoopInv, TypeOK, Loop, Holds
  <2>3. WorkerInv'
    BY <1>inv, <1>19
    DEF OpenEvent, WorkerInv, TypeOK, WorkerRuns, Loop
  <2>4. ThreadInv'
    BY <1>inv, <1>19
    DEF OpenEvent, ThreadInv, TypeOK, Loop, Holds
  <2>5. AskedInv'
    BY <1>inv, <1>19
    DEF OpenEvent, AskedInv, TypeOK, ThreadInv, EventInv, EventKept, LoopInv,
        Holds, Loop
  <2>6. EventInv'
    BY <1>inv, <1>19
    DEF OpenEvent, EventInv, TypeOK, EventKept, LoopInv
  <2> QED BY <2>1, <2>2, <2>3, <2>4, <2>5, <2>6 DEF WatchdogInv
<1>20. ASSUME NEW q \in Quitters, SetEvent(q) PROVE WatchdogInv'
  <2>1. TypeOK'
    BY <1>inv, <1>20
    DEF SetEvent, TypeOK, Places, Loop
  <2>2. LoopInv'
    BY <1>inv, <1>20
    DEF SetEvent, LoopInv, TypeOK, Loop, Holds
  <2>3. WorkerInv'
    BY <1>inv, <1>20
    DEF SetEvent, WorkerInv, TypeOK, WorkerRuns, Loop
  <2>4. ThreadInv'
    BY <1>inv, <1>20
    DEF SetEvent, ThreadInv, TypeOK, Loop, Holds
  <2>5. AskedInv'
    BY <1>inv, <1>20
    DEF SetEvent, AskedInv, TypeOK, ThreadInv, EventInv, EventKept, LoopInv,
        Holds, Loop
  <2>6. EventInv'
    BY <1>inv, <1>20
    DEF SetEvent, EventInv, TypeOK, EventKept, LoopInv
  <2> QED BY <2>1, <2>2, <2>3, <2>4, <2>5, <2>6 DEF WatchdogInv
<1>21. ASSUME NEW q \in Quitters, EndQuitter(q) PROVE WatchdogInv'
  <2>1. TypeOK'
    BY <1>inv, <1>21
    DEF EndQuitter, TypeOK, Places, Loop
  <2>2. LoopInv'
    BY <1>inv, <1>21
    DEF EndQuitter, LoopInv, TypeOK, Loop, Holds
  <2>3. WorkerInv'
    BY <1>inv, <1>21
    DEF EndQuitter, WorkerInv, TypeOK, WorkerRuns, Loop
  <2>4. ThreadInv'
    BY <1>inv, <1>21
    DEF EndQuitter, ThreadInv, TypeOK, Loop, Holds
  <2>5. AskedInv'
    BY <1>inv, <1>21
    DEF EndQuitter, AskedInv, TypeOK, ThreadInv, EventInv, EventKept, LoopInv,
        Holds, Loop
  <2>6. EventInv'
    BY <1>inv, <1>21
    DEF EndQuitter, EventInv, TypeOK, EventKept, LoopInv
  <2> QED BY <2>1, <2>2, <2>3, <2>4, <2>5, <2>6 DEF WatchdogInv
<1>22. CASE UNCHANGED vars
  BY <1>inv, <1>22
  DEF vars, WatchdogInv, TypeOK, Places, Loop, LoopInv, Holds, MutexExists,
      WorkerInv, WorkerRuns, ThreadInv, AskedInv, EventInv, EventKept
<1> QED
  BY <1>1, <1>2, <1>3, <1>4, <1>5, <1>6, <1>7, <1>8, <1>9, <1>10, <1>11, <1>12, <1>13, <1>14, <1>15, <1>16, <1>17, <1>18, <1>19, <1>20, <1>21, <1>22
  DEF Next, WatchdogStep, ThreadStep, ExitStep

(* The invariant holds in every behaviour. *)
THEOREM WatchdogInductive == Spec => []WatchdogInv
  BY InitInv, StepInv, PTL DEF Spec

(* Every variable keeps its type; in particular the event thread puts at   *)
(* most one message into quit_rx.                                          *)
THEOREM WatchdogTypeCorrect == Spec => []TypeOK
  <1>1. WatchdogInv => TypeOK  BY DEF WatchdogInv
  <1> QED BY <1>1, WatchdogInductive, PTL

(* Of two workers that run at the same time one is left by a launcher that *)
(* was ended from outside.                                                 *)
THEOREM WorkersAlone == Spec => []OneWorker
  <1>1. WatchdogInv => OneWorker
    BY DEF WatchdogInv, LoopInv, WorkerInv, OneWorker, Loop
  <1> QED BY <1>1, WatchdogInductive, PTL

(* A watchdog quits only when a /quit was meant for it, however many /quit *)
(* processes and launchers there are and in whatever order they end.       *)
THEOREM QuitIsAsked == Spec => []QuitOnlyWhenAsked
  <1>1. WatchdogInv => QuitOnlyWhenAsked
    BY DEF WatchdogInv, AskedInv, QuitOnlyWhenAsked
  <1> QED BY <1>1, WatchdogInductive, PTL
=============================================================================
