------------------------------ MODULE HostPort ------------------------------
(***************************************************************************)
(* What PIMELauncher may expect of the hosts at the other end of its pipes:*)
(* each connection is opened once and closed once, carries one call at a   *)
(* time, numbered 1, 2, 3 and so on, and no answer is taken that is not    *)
(* the answer to the last call.  Module PimeClient implements it; it is    *)
(* the host of module Launcher when MaxInFlight is 1.                      *)
(***************************************************************************)
EXTENDS Naturals

CONSTANT Conns   \* the connections of one text service

VARIABLES
  phase,   \* "none", "open" or "closed"
  sent,    \* number of the last call sent on each connection
  got      \* number of the last answer accepted on it

portVars == <<phase, sent, got>>

Init ==
  /\ phase = [p \in Conns |-> "none"]
  /\ sent  = [p \in Conns |-> 0]
  /\ got   = [p \in Conns |-> 0]

Open(p) ==
  /\ phase[p] = "none"
  /\ phase' = [phase EXCEPT ![p] = "open"]
  /\ UNCHANGED <<sent, got>>

Send(p) ==
  /\ phase[p] = "open"
  /\ sent[p] = got[p]
  /\ sent' = [sent EXCEPT ![p] = @ + 1]
  /\ UNCHANGED <<phase, got>>

Accept(p) ==
  /\ phase[p] = "open"
  /\ got[p] < sent[p]
  /\ got' = [got EXCEPT ![p] = sent[p]]
  /\ UNCHANGED <<phase, sent>>

Close(p) ==
  /\ phase[p] = "open"
  /\ phase' = [phase EXCEPT ![p] = "closed"]
  /\ UNCHANGED <<sent, got>>

Next == \E p \in Conns : Open(p) \/ Send(p) \/ Accept(p) \/ Close(p)

Spec == Init /\ [][Next]_portVars
=============================================================================
