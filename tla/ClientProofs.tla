---------------------------- MODULE ClientProofs ----------------------------
(***************************************************************************)
(* The inductive invariant ClientInv of module PimeClient: first the       *)
(* connector's and the pipe's operators and the worker's steps, then the   *)
(* stack, the starting and cancelling of attempts, and the steps of the UI *)
(* thread.                                                                 *)
(***************************************************************************)
EXTENDS PimeClient, TLAPS

(* Closing a pipe keeps its numbers, and does nothing to a closed one. *)
LEMMA PipeOperators ==
  ASSUME NEW p \in Pipes
  PROVE  /\ Closed(p) \in Pipes
         /\ Closed(p).handle # "open"
         /\ Closed(p).sent = p.sent /\ Closed(p).got = p.got
         /\ p.handle # "open" => Closed(p) = p
         /\ p.handle = "open" => Closed(p).handle = "closed"
  <1>1. Closed(p) \in Pipes
    <2>1. <<>> \in Seq(Nat)  OBVIOUS
    <2> QED BY <2>1 DEF Closed, Pipes
  <1>2. Closed(p).sent = p.sent /\ Closed(p).got = p.got
        BY DEF Closed, Pipes
  <1>3. p.handle = "open" => Closed(p).handle = "closed"
        BY DEF Closed, Pipes
  <1> QED BY <1>1, <1>2, <1>3 DEF Closed

(* Writing a call changes neither the handle nor the number answered. *)
LEMMA CalledPipe ==
  ASSUME NEW p \in Pipes, NEW n \in Nat,
         NEW m \in {"init", "onActivate", "event", "onDeactivate"}
  PROVE  /\ Called(p, n, m) \in Pipes
         /\ Called(p, n, m).handle = p.handle
         /\ Called(p, n, m).sent = n
         /\ Called(p, n, m).got = p.got
  <1>1. Called(p, n, m) \in Pipes
        BY DEF Called, Pipes
  <1> QED BY <1>1 DEF Called, Pipes

(* A cancelled connector has no callback, pipe or message left. *)
LEMMA CancelledConnector ==
  ASSUME NEW a \in Connectors
  PROVE  /\ Cancelled(a) \in Connectors
         /\ ~Cancelled(a).callback /\ ~Cancelled(a).stored
         /\ ~Cancelled(a).posted /\ Cancelled(a).cancelled
         /\ Cancelled(a).worker = a.worker
         /\ Cancelled(a).ok = a.ok
  <1>1. Cancelled(a) \in Connectors
        BY DEF Cancelled, CancelledLate, Connectors
  <1>2. Cancelled(a).worker = a.worker
        BY DEF Cancelled, CancelledLate, Connectors
  <1>3. Cancelled(a).ok = a.ok
        BY DEF Cancelled, CancelledLate, Connectors
  <1>4. ~Cancelled(a).callback /\ ~Cancelled(a).stored
        BY DEF Cancelled, CancelledLate, Connectors
  <1>5. ~Cancelled(a).posted /\ Cancelled(a).cancelled
        BY DEF Cancelled, CancelledLate, Connectors
  <1> QED BY <1>1, <1>2, <1>3, <1>4, <1>5

(* A new connector waits with a callback, whether or not it started. *)
LEMMA NewConnector ==
  ASSUME NEW started \in BOOLEAN
  PROVE  /\ Connected(started) \in Connectors
         /\ Connected(started).callback /\ ~Connected(started).stored
         /\ ~Connected(started).posted /\ ~Connected(started).cancelled
         /\ Connected(started).worker \in {"none", "starting"}
         /\ ~Connected(started).ok
  <1>1. Unused \in Connectors
        BY AttemptAssumption DEF Unused, Connectors, WorkerStates
  <1>2. Connected(started) \in Connectors
        BY <1>1 DEF Connected, Connectors, WorkerStates
  <1>3. /\ ~Unused.stored /\ ~Unused.posted /\ ~Unused.cancelled
        /\ ~Unused.ok
        BY DEF Unused
  <1>4. Connected(started).callback
        BY <1>1 DEF Connected, Connectors
  <1>5. Connected(started).stored = Unused.stored
        BY <1>1 DEF Connected, Connectors
  <1>6. Connected(started).posted = Unused.posted
        BY <1>1 DEF Connected, Connectors
  <1>7. Connected(started).cancelled = Unused.cancelled
        BY <1>1 DEF Connected, Connectors
  <1>8. Connected(started).worker \in {"none", "starting"}
        BY <1>1 DEF Connected, Connectors
  <1>9. Connected(started).ok = Unused.ok
        BY <1>1 DEF Connected, Connectors
  <1> QED BY <1>2, <1>3, <1>4, <1>5, <1>6, <1>7, <1>8, <1>9

-----------------------------------------------------------------------------
(* What a step of attempt k alone must satisfy to preserve the invariant.  *)
LEMMA AttemptFrame ==
  ASSUME ClientInv, NEW k \in Attempts, k <= used,
         UNCHANGED clientVars, used' = used,
         NEW a \in Connectors, NEW p \in Pipes,
         att' = [att EXCEPT ![k] = a],
         conn' = [conn EXCEPT ![k] = p],
         AttemptOK(a, p),
         a.callback => att[k].callback,
         pipe = k => /\ a.worker \in {"posting", "done"}
                     /\ p.handle = conn[k].handle
                     /\ p.sent = conn[k].sent /\ p.got = conn[k].got,
         p.handle = "open" =>
           \/ pipe = k \/ a.stored
           \/ a.worker \in {"checking", "calling", "finishing"}
  PROVE  ClientInv'
  <1> USE DEF clientVars
  <1>t. /\ att \in [Attempts -> Connectors] /\ conn \in [Attempts -> Pipes]
        /\ used \in 0 .. MaxAttempts
        BY DEF ClientInv, TypeOK, ConnectorTypeOK
  <1>a. \A j \in Attempts : att'[j] = IF j = k THEN a ELSE att[j]
        BY <1>t
  <1>c. \A j \in Attempts : conn'[j] = IF j = k THEN p ELSE conn[j]
        BY <1>t
  <1>p. pipe # 0 => pipe \in Attempts
        BY DEF ClientInv, TypeOK
  <1>1. TypeOK'
        BY <1>t DEF ClientInv, TypeOK, ConnectorTypeOK
  <1>2. NoStaleCallback'
        BY <1>a DEF ClientInv, NoStaleCallback
  <1>3. StateMatchesPipe'
        BY <1>c, <1>p DEF ClientInv, StateMatchesPipe, Top, Innermost
  <1>4. PipesHeld'
    <2> SUFFICES ASSUME NEW j \in Attempts, conn'[j].handle = "open"
                 PROVE  \/ pipe' = j
                        \/ att'[j].stored /\ connector' = j
                        \/ att'[j].worker \in {"checking", "calling", "finishing"}
        BY DEF PipesHeld
    <2>1. CASE j = k
      <3>1. a.stored => connector = k
            BY DEF AttemptOK, ClientInv, NoStaleCallback
      <3> QED BY <2>1, <3>1, <1>a, <1>c
    <2>2. CASE j # k
          BY <2>2, <1>a, <1>c DEF ClientInv, PipesHeld
    <2> QED BY <2>1, <2>2
  <1>5. LifeInv'
        BY DEF ClientInv, LifeInv
  <1>6. WaitInv'
        BY DEF ClientInv, WaitInv, Top, Innermost
  <1>7. NumberInv'
        BY <1>c, <1>p DEF ClientInv, NumberInv, StateMatchesPipe, Top, Innermost
  <1>8. AttemptInv'
    <2>1. \A j \in Attempts : AttemptOK(att'[j], conn'[j])
          BY <1>a, <1>c DEF ClientInv, AttemptInv
    <2>2. \A j \in Attempts : j > used' => att'[j] = Unused /\ conn'[j] = NoPipe
          BY <1>a, <1>c, <1>t DEF ClientInv, AttemptInv, Attempts
    <2>3. pipe' # 0 => att'[pipe'].worker \in {"posting", "done"}
          BY <1>a, <1>p DEF ClientInv, AttemptInv
    <2>4. connector' <= used'
          BY DEF ClientInv, AttemptInv
    <2> QED BY <2>1, <2>2, <2>3, <2>4 DEF AttemptInv
  <1> QED BY <1>1, <1>2, <1>3, <1>4, <1>5, <1>6, <1>7, <1>8 DEF ClientInv

(* An attempt whose worker is at work, or whose backend owes an answer,    *)
(* has been made; its pipe is not yet the client's.                        *)
LEMMA AttemptMade ==
  ASSUME ClientInv, NEW k \in Attempts
  PROVE  /\ att[k] \in Connectors /\ conn[k] \in Pipes
         /\ AttemptOK(att[k], conn[k])
         /\ att[k].worker # "none" => k <= used
         /\ conn[k].due => k <= used
         /\ att[k].worker \in Working =>
              /\ pipe # k /\ ~att[k].stored /\ ~att[k].posted
              /\ conn[k].handle = "open" =>
                   att[k].worker \in {"checking", "calling", "finishing"}
  <1>t. /\ att[k] \in Connectors /\ conn[k] \in Pipes
        /\ used \in 0 .. MaxAttempts /\ k \in Nat
        BY DEF ClientInv, TypeOK, ConnectorTypeOK, Attempts
  <1>1. AttemptOK(att[k], conn[k])
        BY DEF ClientInv, AttemptInv
  <1>2. ~(k <= used) => att[k] = Unused /\ conn[k] = NoPipe
        BY <1>t DEF ClientInv, AttemptInv
  <1>3. Unused.worker = "none" /\ NoPipe.due = FALSE
        BY DEF Unused, NoPipe
  <1>4. ASSUME att[k].worker \in Working
        PROVE  pipe # k /\ ~att[k].stored /\ ~att[k].posted
        BY <1>4, <1>1 DEF ClientInv, AttemptInv, AttemptOK, Working, Attempts
  <1>5. ASSUME att[k].worker \in Working, conn[k].handle = "open"
        PROVE  att[k].worker \in {"checking", "calling", "finishing"}
        BY <1>4, <1>5 DEF ClientInv, PipesHeld
  <1> QED BY <1>t, <1>1, <1>2, <1>3, <1>4, <1>5

(* Moving a worker on changes nothing else of its connector. *)
LEMMA MovedWorker ==
  ASSUME NEW a \in Connectors, NEW v \in WorkerStates
  PROVE  LET b == [a EXCEPT !.worker = v] IN
         /\ b \in Connectors
         /\ b.worker = v /\ b.ok = a.ok /\ b.tries = a.tries
         /\ b.callback = a.callback /\ b.cancelled = a.cancelled
         /\ b.posted = a.posted /\ b.stored = a.stored
  <1> DEFINE b == [a EXCEPT !.worker = v]
  <1>1. b \in Connectors  BY DEF Connectors
  <1>2. b.worker = v /\ b.ok = a.ok /\ b.tries = a.tries  BY DEF Connectors
  <1>3. b.callback = a.callback /\ b.cancelled = a.cancelled  BY DEF Connectors
  <1>4. b.posted = a.posted /\ b.stored = a.stored  BY DEF Connectors
  <1> QED BY <1>1, <1>2, <1>3, <1>4

-----------------------------------------------------------------------------
(* Every step of a worker preserves the invariant. *)
LEMMA WorkerPreserves ==
  ASSUME ClientInv, NEW k \in Attempts, WorkerStep(k), UNCHANGED clientVars
  PROVE  ClientInv'
  <1> USE DEF At, Goes
  <1> DEFINE w == att[k].worker
             Moved(v) == [att[k] EXCEPT !.worker = v]
  <1>t. /\ att \in [Attempts -> Connectors] /\ conn \in [Attempts -> Pipes]
        BY DEF ClientInv, TypeOK, ConnectorTypeOK
  <1>k. /\ att[k] \in Connectors /\ conn[k] \in Pipes
        /\ AttemptOK(att[k], conn[k])
        /\ w # "none" => k <= used
        /\ w \in Working => /\ pipe # k /\ ~att[k].stored /\ ~att[k].posted
                            /\ conn[k].handle = "open" =>
                                 w \in {"checking", "calling", "finishing"}
        BY AttemptMade
  <1>c. conn = [conn EXCEPT ![k] = conn[k]] /\ att = [att EXCEPT ![k] = att[k]]
        BY <1>t
  <1>m. ASSUME NEW v \in WorkerStates
        PROVE  /\ Moved(v) \in Connectors
               /\ Moved(v).worker = v /\ Moved(v).ok = att[k].ok
               /\ Moved(v).tries = att[k].tries
               /\ Moved(v).callback = att[k].callback
               /\ Moved(v).cancelled = att[k].cancelled
               /\ Moved(v).posted = att[k].posted
               /\ Moved(v).stored = att[k].stored
        BY <1>k, MovedWorker
  <1>w. {"starting", "trying", "connecting", "checking", "calling",
         "finishing", "posting", "done"} \subseteq WorkerStates
        BY DEF WorkerStates
  <1>1. CASE WorkerStarts(k)
    <2> DEFINE v == IF att[k].cancelled THEN "done" ELSE "trying"
    <2>1. w = "starting" /\ used' = used /\ att' = [att EXCEPT ![k] = Moved(v)]
          /\ conn' = [conn EXCEPT ![k] = conn[k]]
          BY <1>1, <1>c DEF WorkerStarts
    <2>2. v \in WorkerStates /\ v \in {"done", "trying"}
          /\ (v = "done" => att[k].cancelled)
          BY <1>w
    <2> HIDE DEF v
    <2> HIDE DEF Moved
    <2>3. AttemptOK(Moved(v), conn[k])
          BY <1>k, <1>m, <2>1, <2>2 DEF AttemptOK, Working
    <2> QED BY <1>k, <1>m, <2>1, <2>2, <2>3, AttemptFrame DEF Working
  <1>2. CASE WorkerTries(k)
    <2> DEFINE v == IF TriesAgain(k) /\ ~att[k].cancelled
                    THEN "connecting" ELSE "checking"
    <2>1. w = "trying" /\ used' = used /\ att' = [att EXCEPT ![k] = Moved(v)]
          /\ conn' = [conn EXCEPT ![k] = conn[k]]
          BY <1>2, <1>c DEF WorkerTries
    <2>2. v \in WorkerStates /\ v \in {"connecting", "checking"}
          /\ (v = "connecting" => att[k].tries < Tries)
          BY <1>w DEF TriesAgain
    <2> HIDE DEF v
    <2> HIDE DEF Moved
    <2>3. AttemptOK(Moved(v), conn[k])
          BY <1>k, <1>m, <2>1, <2>2 DEF AttemptOK, Working
    <2> QED BY <1>k, <1>m, <2>1, <2>2, <2>3, AttemptFrame DEF Working
  <1>3. CASE WorkerConnects(k)
    <2> DEFINE p == [conn[k] EXCEPT !.handle = "open"]
    <2>1. w = "connecting" /\ used' = used
          /\ att' = [att EXCEPT ![k] = Moved("checking")]
          /\ conn' = [conn EXCEPT ![k] = p]
          BY <1>3 DEF WorkerConnects
    <2>2. p \in Pipes /\ p.handle = "open"
          /\ p.sent = conn[k].sent /\ p.got = conn[k].got
          BY <1>k DEF Pipes
    <2> HIDE DEF p
    <2> HIDE DEF Moved
    <2>3. AttemptOK(Moved("checking"), p)
          BY <1>k, <1>m, <1>w, <2>1, <2>2 DEF AttemptOK, Working
    <2> QED BY <1>k, <1>m, <1>w, <2>1, <2>2, <2>3, AttemptFrame DEF Working
  <1>4. CASE WorkerMisses(k)
    <2> DEFINE a == [att[k] EXCEPT !.worker = "trying", !.tries = @ + 1]
    <2>1. w = "connecting" /\ used' = used
          /\ att' = [att EXCEPT ![k] = a]
          /\ conn' = [conn EXCEPT ![k] = conn[k]]
          BY <1>4, <1>c DEF WorkerMisses
    <2>2. att[k].tries + 1 \in 0 .. Tries
          BY <1>k, <2>1, AttemptAssumption DEF Connectors, AttemptOK
    <2>3. a \in Connectors
          BY <1>k, <1>w, <2>2 DEF Connectors
    <2>4. a.worker = "trying" /\ a.callback = att[k].callback
          /\ a.cancelled = att[k].cancelled /\ a.ok = att[k].ok
          /\ a.posted = att[k].posted /\ a.stored = att[k].stored
          BY <1>k DEF Connectors
    <2> HIDE DEF a
    <2>5. AttemptOK(a, conn[k])
          BY <1>k, <2>1, <2>4 DEF AttemptOK, Working
    <2> QED BY <1>k, <2>1, <2>3, <2>4, <2>5, AttemptFrame DEF Working
  <1>5. CASE WorkerGivesUp(k)
    <2> DEFINE a == [att[k] EXCEPT !.worker = "done", !.posted = Tells(k)]
               p == Closed(conn[k])
    <2>1. w = "checking" /\ used' = used
          /\ att' = [att EXCEPT ![k] = a]
          /\ conn' = [conn EXCEPT ![k] = p]
          BY <1>5 DEF WorkerGivesUp
    <2>2. a \in Connectors /\ a.worker = "done" /\ a.callback = att[k].callback
          /\ a.stored = att[k].stored
          BY <1>k, <1>w DEF Connectors, Tells
    <2>3. p \in Pipes /\ p.handle # "open"
          BY <1>k, PipeOperators
    <2> HIDE DEF a, p
    <2>4. AttemptOK(a, p)
          BY <1>k, <2>1, <2>2 DEF AttemptOK, Working
    <2> QED BY <1>k, <2>1, <2>2, <2>3, <2>4, AttemptFrame DEF Working
  <1>6. CASE WorkerCallsInit(k)
    <2> DEFINE p == Called(conn[k], 1, "init")
    <2>1. w = "checking" /\ used' = used /\ conn[k].handle = "open"
          /\ att' = [att EXCEPT ![k] = Moved("calling")]
          /\ conn' = [conn EXCEPT ![k] = p]
          BY <1>6 DEF WorkerCallsInit
    <2>2. p \in Pipes /\ p.handle = conn[k].handle
          /\ p.sent = 1 /\ p.got = conn[k].got
          BY <1>k, CalledPipe
    <2> HIDE DEF p
    <2> HIDE DEF Moved
    <2>3. AttemptOK(Moved("calling"), p)
          BY <1>k, <1>m, <1>w, <2>1, <2>2 DEF AttemptOK, Working
    <2> QED BY <1>k, <1>m, <1>w, <2>1, <2>2, <2>3, AttemptFrame DEF Working
  <1>7. CASE WorkerReads(k)
    <2> DEFINE n == Head(conn[k].replies)
               a == [att[k] EXCEPT !.worker = "finishing", !.ok = (n = 1)]
               g == IF n = 1 THEN n ELSE conn[k].got
               p == [conn[k] EXCEPT !.replies = Tail(@), !.got = g]
    <2>1. w = "calling" /\ used' = used /\ conn[k].replies # <<>>
          /\ att' = [att EXCEPT ![k] = a]
          /\ conn' = [conn EXCEPT ![k] = p]
          BY <1>7 DEF WorkerReads
    <2>2. a \in Connectors /\ a.worker = "finishing"
          /\ a.callback = att[k].callback /\ a.cancelled = att[k].cancelled
          /\ a.posted = att[k].posted /\ a.stored = att[k].stored
          BY <1>k, <1>w DEF Connectors
    <2>3. a.ok = (n = 1)
          BY <1>k DEF Connectors
    <2>4. conn[k].replies \in Seq(Nat) /\ conn[k].got \in Nat
          BY <1>k DEF Pipes
    <2>5. n \in Nat /\ Tail(conn[k].replies) \in Seq(Nat)
          BY <2>1, <2>4
    <2>6. g \in Nat
          BY <2>4, <2>5
    <2>7. p \in Pipes /\ p.handle = conn[k].handle
          /\ p.sent = conn[k].sent /\ p.got = g
      <3> HIDE DEF g, n
      <3> QED BY <1>k, <2>5, <2>6 DEF Pipes
    <2>8. g = IF a.ok THEN 1 ELSE 0
          BY <1>k, <2>1, <2>3 DEF AttemptOK
    <2> HIDE DEF a, p, g, n
    <2>9. AttemptOK(a, p)
          BY <1>k, <2>1, <2>2, <2>7, <2>8 DEF AttemptOK, Working
    <2> QED BY <1>k, <2>1, <2>2, <2>7, <2>9, AttemptFrame DEF Working
  <1>8. CASE WorkerTimesOut(k)
    <2>1. w = "calling" /\ used' = used
          /\ att' = [att EXCEPT ![k] = Moved("finishing")]
          /\ conn' = [conn EXCEPT ![k] = conn[k]]
          BY <1>8, <1>c DEF WorkerTimesOut
    <2> HIDE DEF Moved
    <2>3. AttemptOK(Moved("finishing"), conn[k])
          BY <1>k, <1>m, <1>w, <2>1 DEF AttemptOK, Working
    <2> QED BY <1>k, <1>m, <1>w, <2>1, <2>3, AttemptFrame DEF Working
  <1>9. CASE WorkerFinishes(k)
    <2> DEFINE s == ~Discards(k)
               a == [att[k] EXCEPT !.worker = "posting", !.stored = s,
                                   !.target = att[k].window]
               p == IF Discards(k) THEN Closed(conn[k]) ELSE conn[k]
    <2>1. w = "finishing" /\ used' = used
          /\ att' = [att EXCEPT ![k] = a]
          /\ conn' = [conn EXCEPT ![k] = p]
          BY <1>9 DEF WorkerFinishes
    <2>2. s \in BOOLEAN /\ (s => ~att[k].cancelled /\ att[k].ok)
          BY DEF Discards
    <2>3. a \in Connectors /\ a.worker = "posting"
          /\ a.callback = att[k].callback /\ a.posted = att[k].posted
          BY <1>k, <1>w, <2>2 DEF Connectors
    <2>4. a.stored = s
          BY <1>k DEF Connectors
    <2>5. p \in Pipes /\ (s => p = conn[k]) /\ (~s => p.handle # "open")
          BY <1>k, PipeOperators
    <2> HIDE DEF a, p, s
    <2>6. AttemptOK(a, p)
          BY <1>k, <2>1, <2>2, <2>3, <2>4, <2>5 DEF AttemptOK, Working
    <2> QED BY <1>k, <2>1, <2>3, <2>4, <2>5, <2>6, AttemptFrame DEF Working
  <1>10. CASE WorkerPosts(k)
    <2> DEFINE a == [att[k] EXCEPT !.worker = "done",
                                   !.posted = att[k].target /\ att[k].window]
    <2>1. w = "posting" /\ used' = used
          /\ att' = [att EXCEPT ![k] = a]
          /\ conn' = [conn EXCEPT ![k] = conn[k]]
          BY <1>10, <1>c DEF WorkerPosts
    <2>2. a \in Connectors /\ a.worker = "done"
          /\ a.callback = att[k].callback /\ a.stored = att[k].stored
          BY <1>k, <1>w DEF Connectors
    <2> HIDE DEF a
    <2>3. AttemptOK(a, conn[k])
          BY <1>k, <2>1, <2>2 DEF AttemptOK, Working
    <2>4. conn[k].handle = "open" => pipe = k \/ a.stored
          BY <1>k, <2>1, <2>2 DEF ClientInv, PipesHeld
    <2> QED BY <1>k, <2>1, <2>2, <2>3, <2>4, AttemptFrame
  <1> QED BY <1>1, <1>2, <1>3, <1>4, <1>5, <1>6, <1>7, <1>8, <1>9, <1>10
          DEF WorkerStep

(* ... and so does every step of the backend. *)
LEMMA BackendPreserves ==
  ASSUME ClientInv, NEW k \in Attempts,
         BackendAnswers(k) \/ BackendFallsSilent(k), UNCHANGED clientVars
  PROVE  ClientInv'
  <1>t. /\ att \in [Attempts -> Connectors] /\ conn \in [Attempts -> Pipes]
        BY DEF ClientInv, TypeOK, ConnectorTypeOK
  <1>k. /\ att[k] \in Connectors /\ conn[k] \in Pipes
        /\ AttemptOK(att[k], conn[k])
        /\ conn[k].due => k <= used
        BY AttemptMade
  <1>1. /\ conn[k].due /\ used' = used
        /\ att' = [att EXCEPT ![k] = att[k]]
        BY <1>t DEF BackendAnswers, BackendFallsSilent
  <1>2. PICK p \in Pipes : /\ conn' = [conn EXCEPT ![k] = p]
                           /\ p.handle = conn[k].handle
                           /\ p.sent = conn[k].sent /\ p.got = conn[k].got
    <2>1. CASE BackendAnswers(k)
      <3>1. PICK n \in {conn[k].sent} \cup (IF k < MaxAttempts THEN {0} ELSE {}) :
              conn' = [conn EXCEPT ![k].due = FALSE,
                            ![k].replies = IF conn[k].handle = "open"
                                           THEN Append(@, n) ELSE @]
            BY <2>1 DEF BackendAnswers
      <3>2. n \in Nat /\ conn[k].replies \in Seq(Nat)
            BY <1>k, <3>1 DEF Pipes
      <3> DEFINE r == IF conn[k].handle = "open"
                      THEN Append(conn[k].replies, n) ELSE conn[k].replies
                 p == [conn[k] EXCEPT !.due = FALSE, !.replies = r]
      <3>3. r \in Seq(Nat)  BY <3>2
      <3>4. conn' = [conn EXCEPT ![k] = p]  BY <1>t, <3>1
      <3>5. p \in Pipes /\ p.handle = conn[k].handle
            /\ p.sent = conn[k].sent /\ p.got = conn[k].got
        <4> HIDE DEF r
        <4> QED BY <1>k, <3>3 DEF Pipes
      <3> QED BY <3>4, <3>5
    <2>2. CASE BackendFallsSilent(k)
      <3> DEFINE p == [conn[k] EXCEPT !.silent = TRUE]
      <3>1. conn' = [conn EXCEPT ![k] = p]
            BY <2>2 DEF BackendFallsSilent
      <3>2. p \in Pipes /\ p.handle = conn[k].handle
            /\ p.sent = conn[k].sent /\ p.got = conn[k].got
            BY <1>k DEF Pipes
      <3> QED BY <3>1, <3>2
    <2> QED BY <2>1, <2>2
  <1>3. AttemptOK(att[k], p)
        BY <1>k, <1>2 DEF AttemptOK
  <1>4. pipe = k => att[k].worker \in {"posting", "done"}
        BY DEF ClientInv, AttemptInv, Attempts
  <1>5. p.handle = "open" =>
           \/ pipe = k \/ att[k].stored
           \/ att[k].worker \in {"checking", "calling", "finishing"}
        BY <1>2 DEF ClientInv, PipesHeld
  <1> QED BY <1>k, <1>1, <1>2, <1>3, <1>4, <1>5, AttemptFrame

-----------------------------------------------------------------------------
(* The UI thread's stack. *)

(* The elements of a stack after a frame is pushed ... *)
LEMMA StackPush ==
  ASSUME NEW s \in Seq(Frames), NEW f \in Frames
  PROVE  LET t == <<f>> \o s IN
         /\ t \in Seq(Frames) /\ t # <<>> /\ Head(t) = f
         /\ Len(t) = Len(s) + 1
         /\ t[1] = f
         /\ \A i \in 2 .. Len(t) : i - 1 \in 1 .. Len(s) /\ t[i] = s[i - 1]
  <1> DEFINE t == <<f>> \o s
  <1>1. <<f>> \in Seq(Frames) /\ Len(<<f>>) = 1  OBVIOUS
  <1>2. t \in Seq(Frames) /\ Len(t) = Len(s) + 1  BY <1>1
  <1>3. t[1] = f  BY <1>1
  <1>4. t # <<>> /\ Head(t) = f  BY <1>2, <1>3
  <1>5. ASSUME NEW i \in 2 .. Len(t)
        PROVE  i - 1 \in 1 .. Len(s) /\ t[i] = s[i - 1]
        BY <1>1, <1>2
  <1> QED BY <1>2, <1>3, <1>4, <1>5

(* ... and after one is popped. *)
LEMMA StackPop ==
  ASSUME NEW s \in Seq(Frames), s # <<>>
  PROVE  /\ Tail(s) \in Seq(Frames)
         /\ Len(Tail(s)) = Len(s) - 1 /\ Len(s) \in Nat \ {0}
         /\ Head(s) = s[1]
         /\ \A i \in 1 .. Len(Tail(s)) :
              i + 1 \in 2 .. Len(s) /\ Tail(s)[i] = s[i + 1]
         /\ Tail(s) # <<>> => Head(Tail(s)) = s[2] /\ 2 \in 2 .. Len(s)
  <1>1. Tail(s) \in Seq(Frames) /\ Len(Tail(s)) = Len(s) - 1
        /\ Len(s) \in Nat \ {0} /\ Head(s) = s[1]
        OBVIOUS
  <1>2. ASSUME NEW i \in 1 .. Len(Tail(s))
        PROVE  i + 1 \in 2 .. Len(s) /\ Tail(s)[i] = s[i + 1]
        BY <1>1
  <1>3. ASSUME Tail(s) # <<>>
        PROVE  Head(Tail(s)) = s[2] /\ 2 \in 2 .. Len(s)
    <2>1. 1 \in 1 .. Len(Tail(s))  BY <1>1, <1>3
    <2>2. Head(Tail(s)) = Tail(s)[1]  BY <1>1, <1>3
    <2> QED BY <1>2, <2>1, <2>2
  <1> QED BY <1>1, <1>2, <1>3

(* A client that is not leaving is active, and nothing below it leaves.    *)
LEMMA ActiveClient ==
  ASSUME ClientInv, alive, ~Top("leaving"), ~Top("left")
  PROVE  /\ activated
         /\ \A i \in 1 .. Len(stack) : stack[i] \notin {"leaving", "left"}
  <1>1. stack \in Seq(Frames)  BY DEF ClientInv, TypeOK
  <1>2. activated
    <2>1. SUFFICES ASSUME ~activated PROVE FALSE  OBVIOUS
    <2>2. stack = <<"leaving">> \/ stack = <<"left">>
          BY <2>1 DEF ClientInv, LifeInv
    <2>3. stack # <<>> /\ (Head(stack) = "leaving" \/ Head(stack) = "left")
          BY <2>2
    <2> QED BY <2>3 DEF Top, Innermost
  <1> QED BY <1>1, <1>2 DEF ClientInv, LifeInv

(* However an active client moves the stack, the UI thread waits in its   *)
(* innermost frame only and no frame leaves.                              *)
LEMMA StackSteps ==
  ASSUME ClientInv, alive, activated, alive' = alive, activated' = activated,
         ~Top("leaving"), ~Top("left"),
         \/ stack' = stack
         \/ stack' = <<"wait">> \o stack /\ ~Top("wait")
         \/ stack # <<>> /\ \E f \in {"wait", "handle"} :
                              stack' = <<f>> \o Tail(stack)
         \/ stack # <<>> /\ stack' = Tail(stack)
         \/ stack = <<>> /\ stack' = <<"init">>
  PROVE  /\ stack' \in Seq(Frames)
         /\ LifeInv'
         /\ \A i \in 2 .. Len(stack') : stack'[i] # "wait"
         /\ stack # <<>> /\ stack' = Tail(stack) => ~Top("wait")'
         /\ \A f \in Frames : stack' # <<>> /\ Head(stack') = f => (Top(f)' /\ \A g \in Frames \ {f} : ~Top(g)')
  <1>1. /\ stack \in Seq(Frames)
        /\ \A i \in 2 .. Len(stack) : stack[i] # "wait"
        BY DEF ClientInv, TypeOK, WaitInv
  <1>2. \A i \in 1 .. Len(stack) : stack[i] \notin {"leaving", "left"}
        BY ActiveClient
  <1>3. ~Top("wait") => \A i \in 1 .. Len(stack) : stack[i] # "wait"
    <2>1. SUFFICES ASSUME ~Top("wait"), NEW i \in 1 .. Len(stack)
                   PROVE  stack[i] # "wait"
          OBVIOUS
    <2>2. CASE i = 1
      <3>1. stack # <<>> /\ Head(stack) = stack[1]  BY <1>1, <2>2
      <3> QED BY <2>1, <2>2, <3>1 DEF Top, Innermost
    <2> QED BY <1>1, <2>2
  <1> DEFINE Good(s) == /\ s \in Seq(Frames)
                        /\ \A i \in 1 .. Len(s) : s[i] \notin {"leaving", "left"}
                        /\ \A i \in 2 .. Len(s) : s[i] # "wait"
  <1>4. Good(stack')
    <2>1. CASE stack' = stack
          BY <2>1, <1>1, <1>2
    <2>2. CASE stack' = <<"wait">> \o stack /\ ~Top("wait")
      <3>1. "wait" \in Frames  BY DEF Frames
      <3> DEFINE t == <<"wait">> \o stack
      <3>2. /\ t \in Seq(Frames) /\ t[1] = "wait" /\ Len(t) = Len(stack) + 1
            /\ \A i \in 2 .. Len(t) : i - 1 \in 1 .. Len(stack) /\ t[i] = stack[i - 1]
            BY <3>1, <1>1, StackPush
      <3>3. ASSUME NEW i \in 1 .. Len(t)
            PROVE  t[i] \notin {"leaving", "left"} /\ (i # 1 => t[i] # "wait")
        <4> HIDE DEF t
        <4>1. i = 1 \/ i \in 2 .. Len(t)  BY <1>1, <3>2
        <4> QED BY <4>1, <3>2, <1>2, <1>3, <2>2
      <3> HIDE DEF t
      <3>4. \A i \in 2 .. Len(t) : i \in 1 .. Len(t) /\ i # 1  OBVIOUS
      <3>5. stack' = t  BY <2>2 DEF t
      <3> QED BY <3>2, <3>3, <3>4, <3>5
    <2>3. CASE stack # <<>> /\ \E f \in {"wait", "handle"} :
                                 stack' = <<f>> \o Tail(stack)
      <3>1. PICK f \in {"wait", "handle"} : stack' = <<f>> \o Tail(stack)
            BY <2>3
      <3>2. f \in Frames  BY DEF Frames
      <3>3. /\ Tail(stack) \in Seq(Frames)
            /\ \A i \in 1 .. Len(Tail(stack)) :
                 i + 1 \in 2 .. Len(stack) /\ Tail(stack)[i] = stack[i + 1]
            /\ Len(stack) \in Nat
            BY <2>3, <1>1, StackPop
      <3> DEFINE s == Tail(stack)
                 t == <<f>> \o s
      <3>4. /\ t \in Seq(Frames) /\ t[1] = f /\ Len(t) = Len(s) + 1
            /\ \A i \in 2 .. Len(t) : i - 1 \in 1 .. Len(s) /\ t[i] = s[i - 1]
            BY <3>2, <3>3, StackPush
      <3>5. stack' = t  BY <3>1
      <3> HIDE DEF s, t
      <3>6. \A i \in 1 .. Len(s) : s[i] \notin {"leaving", "left", "wait"}
        <4>1. \A j \in 2 .. Len(stack) : j \in 1 .. Len(stack)  BY <3>3
        <4> QED BY <3>3, <4>1, <1>1, <1>2 DEF s
      <3>7. ASSUME NEW i \in 1 .. Len(t)
            PROVE  t[i] \notin {"leaving", "left"} /\ (i # 1 => t[i] # "wait")
        <4>0. Len(t) \in Nat  BY <3>4
        <4>1. i = 1 \/ i \in 2 .. Len(t)  BY <4>0
        <4> QED BY <4>1, <3>4, <3>6
      <3>8. \A i \in 2 .. Len(t) : i \in 1 .. Len(t) /\ i # 1  OBVIOUS
      <3> QED BY <3>4, <3>5, <3>7, <3>8
    <2>4. CASE stack # <<>> /\ stack' = Tail(stack)
      <3>1. /\ Tail(stack) \in Seq(Frames)
            /\ \A i \in 1 .. Len(Tail(stack)) :
                 i + 1 \in 2 .. Len(stack) /\ Tail(stack)[i] = stack[i + 1]
            /\ Len(stack) \in Nat
            BY <2>4, <1>1, StackPop
      <3> DEFINE s == Tail(stack)
      <3>2. \A i \in 1 .. Len(s) : s[i] \notin {"leaving", "left", "wait"}
        <4>1. \A j \in 2 .. Len(stack) : j \in 1 .. Len(stack)  BY <3>1
        <4> QED BY <3>1, <4>1, <1>1, <1>2
      <3>3. stack' = s  BY <2>4
      <3> HIDE DEF s
      <3>4. \A i \in 2 .. Len(s) : i \in 1 .. Len(s)  OBVIOUS
      <3> QED BY <3>1, <3>2, <3>3, <3>4 DEF s
    <2>5. CASE stack' = <<"init">>
      <3>1. "init" \in Frames  BY DEF Frames
      <3>2. stack' \in Seq(Frames) /\ Len(stack') = 1 /\ stack'[1] = "init"
            BY <2>5, <3>1
      <3>3. \A i \in 1 .. Len(stack') : i = 1  BY <3>2
      <3>4. \A i \in 2 .. Len(stack') : FALSE  BY <3>2
      <3> QED BY <3>2, <3>3, <3>4
    <2> QED BY <2>1, <2>2, <2>3, <2>4, <2>5
  <1>5. LifeInv'
    <2>1. DOMAIN stack' = 1 .. Len(stack')  BY <1>4
    <2> QED BY <1>4, <2>1 DEF LifeInv
  <1>6. stack # <<>> /\ stack' = Tail(stack) => ~Top("wait")'
    <2>1. SUFFICES ASSUME stack # <<>>, stack' = Tail(stack), Top("wait")'
                   PROVE  FALSE
          OBVIOUS
    <2>2. stack' # <<>> /\ Head(stack') = "wait"
          BY <2>1 DEF Top, Innermost
    <2>3. stack[2] = "wait" /\ 2 \in 2 .. Len(stack)
          BY <2>1, <2>2, <1>1, StackPop
    <2> QED BY <2>3, <1>1
  <1>7. \A f \in Frames : stack' # <<>> /\ Head(stack') = f =>
          (Top(f)' /\ \A g \in Frames \ {f} : ~Top(g)')
        BY DEF Top, Innermost
  <1> QED BY <1>4, <1>5, <1>6, <1>7

-----------------------------------------------------------------------------
(* Cancelling and starting attempts. *)

(* Cancelling keeps what the position of the worker says. *)
LEMMA CancelAttempt ==
  ASSUME NEW a \in Connectors, NEW p \in Pipes, AttemptOK(a, p)
  PROVE  /\ AttemptOK(Cancelled(a), Abandoned(a, p))
         /\ Abandoned(a, p) \in Pipes
         /\ Abandoned(a, p).handle = "open" =>
              ~a.stored /\ Abandoned(a, p) = p
         /\ ~a.stored => Abandoned(a, p) = p
  <1> DEFINE b == Cancelled(a)
             q == Abandoned(a, p)
  <1>1. /\ ~b.callback /\ ~b.stored /\ ~b.posted /\ b.cancelled
        /\ b.worker = a.worker /\ b.ok = a.ok
        BY CancelledConnector
  <1>2. b.tries = a.tries
        BY DEF Cancelled, CancelledLate, Connectors
  <1>3. q \in Pipes /\ (q.handle = "open" => ~a.stored /\ q = p)
        /\ (~a.stored => q = p)
        BY PipeOperators DEF Abandoned
  <1>4. a.stored => a.worker \in {"posting", "done"}
        BY DEF AttemptOK
  <1> HIDE DEF b, q
  <1>5. AttemptOK(b, q)
        BY <1>1, <1>2, <1>3, <1>4 DEF AttemptOK, Working
  <1> QED BY <1>3, <1>5 DEF b, q

(* What the invariant says of the connector and the pipe of the client. *)
LEMMA ConnectorAndPipe ==
  ASSUME ClientInv
  PROVE  /\ connector # 0 => cstate = "Connecting" /\ pipe = 0
         /\ cstate = "Connecting" => connector # 0
         /\ cstate = "Ready" => pipe \in Attempts
         /\ pipe # 0 => /\ pipe \in Attempts
                        /\ att[pipe].worker \in {"posting", "done"}
                        /\ pipe <= used
         /\ \A j \in Attempts : att[j].callback \/ att[j].stored =>
              connector = j /\ pipe = 0
         /\ 0 \notin Attempts /\ connector <= used
         /\ connector \in Attempts \cup {0}
  <1>1. connector \in Attempts \cup {0} /\ pipe \in Attempts \cup {0}
        /\ cstate \in {"Disconnected", "Connecting", "Ready"}
        BY DEF ClientInv, TypeOK
  <1>2. connector # 0 => cstate = "Connecting" /\ pipe = 0
        BY <1>1 DEF ClientInv, StateMatchesPipe
  <1>3. 0 \notin Attempts  BY DEF Attempts
  <1>4. ASSUME NEW j \in Attempts, att[j].callback \/ att[j].stored
        PROVE  connector = j /\ pipe = 0
    <2>1. att[j].callback
          BY <1>4 DEF ClientInv, AttemptInv, AttemptOK
    <2> QED BY <2>1, <1>2, <1>3 DEF ClientInv, NoStaleCallback
  <1>5. ASSUME pipe # 0
        PROVE  att[pipe].worker \in {"posting", "done"} /\ pipe <= used
        BY <1>1, <1>5, AttemptMade DEF ClientInv, AttemptInv
  <1> QED BY <1>1, <1>2, <1>3, <1>4, <1>5
          DEF ClientInv, StateMatchesPipe, AttemptInv

(* StartConnect, once the client has given up the pipe it had. *)
Reconnects ==
  /\ used < MaxAttempts /\ used' = used + 1
  /\ connector' = used + 1 /\ cstate' = "Connecting"
  /\ \E started \in BOOLEAN :
       att' = [j \in Attempts |->
                 IF j = used + 1 THEN Connected(started)
                 ELSE IF j = connector THEN Cancelled(att[j]) ELSE att[j]]
  /\ conn' = [j \in Attempts |->
                IF j = connector THEN Abandoned(att[j], conn[j])
                ELSE IF j = pipe THEN Closed(conn[j]) ELSE conn[j]]

(* A client that reconnects has nothing of its last attempt but a worker  *)
(* that will find itself cancelled.                                       *)
LEMMA ReconnectPreserves ==
  ASSUME ClientInv, Reconnects, pipe' = 0, alive'
  PROVE  /\ ConnectorTypeOK' /\ connector' \in Attempts
         /\ NoStaleCallback' /\ StateMatchesPipe' /\ PipesHeld'
         /\ NumberInv' /\ AttemptInv' /\ cstate' = "Connecting"
  <1> DEFINE k == used + 1
             c == [j \in Attempts |->
                     IF j = pipe THEN Closed(conn[j]) ELSE conn[j]]
  <1>1. /\ att \in [Attempts -> Connectors] /\ used \in 0 .. MaxAttempts
        BY DEF ClientInv, TypeOK, ConnectorTypeOK
  <1>2. /\ used < MaxAttempts /\ used' = k /\ connector' = k
        /\ cstate' = "Connecting"
        BY DEF Reconnects
  <1>3. k \in Attempts /\ k \in 0 .. MaxAttempts /\ ~(k <= used)
        BY <1>1, <1>2, AttemptAssumption DEF Attempts
  <1>4. PICK started \in BOOLEAN :
          att' = [j \in Attempts |->
                    IF j = k THEN Connected(started)
                    ELSE IF j = connector THEN Cancelled(att[j]) ELSE att[j]]
        BY DEF Reconnects
  <1>p. \A j \in Attempts : j = connector => j # pipe
        BY ConnectorAndPipe
  <1>5. conn' = [j \in Attempts |->
                   IF j = connector THEN Abandoned(att[j], c[j]) ELSE c[j]]
        BY <1>p DEF Reconnects
  <1>q. /\ \A j \in Attempts : j # pipe => c[j] = conn[j]
        /\ pipe \in Attempts => c[pipe] = Closed(conn[pipe])
        OBVIOUS
  <1>r. \A j \in Attempts : c[j] \in Pipes /\ (j = pipe => c[j].handle # "open")
        BY <1>q, AttemptMade, PipeOperators
  <1> HIDE DEF c
  <1>6. \A j \in Attempts :
          /\ att[j] \in Connectors /\ conn[j] \in Pipes
          /\ AttemptOK(att[j], conn[j])
          /\ att[j].worker # "none" => j <= used
        BY AttemptMade
  <1>7. /\ \A j \in Attempts : att[j].callback \/ att[j].stored =>
             connector = j /\ pipe = 0
        /\ connector # 0 => pipe = 0
        /\ pipe # 0 => /\ pipe \in Attempts /\ pipe <= used
                       /\ att[pipe].worker \in {"posting", "done"}
        BY ConnectorAndPipe
  <1>8. \A j \in Attempts : AttemptOK(att[j], c[j])
    <2>1. SUFFICES ASSUME NEW j \in Attempts, j = pipe, j # 0
                   PROVE  AttemptOK(att[j], c[j])
          BY <1>6, <1>q, ConnectorAndPipe
    <2>2. att[j].worker \in {"posting", "done"} /\ ~att[j].stored
          BY <2>1, <1>7
    <2>3. AttemptOK(att[j], conn[j])  BY <1>6
    <2> QED BY <2>2, <2>3 DEF AttemptOK, Working
  <1>9. \A j \in Attempts : c[j] = conn[j] \/ c[j].handle # "open"
        BY <1>q, <1>r
  <1>10. \A j \in Attempts :
           /\ Cancelled(att[j]) \in Connectors
           /\ ~Cancelled(att[j]).callback /\ ~Cancelled(att[j]).stored
           /\ Cancelled(att[j]).worker = att[j].worker
           /\ AttemptOK(Cancelled(att[j]), Abandoned(att[j], c[j]))
           /\ Abandoned(att[j], c[j]) \in Pipes
           /\ Abandoned(att[j], c[j]).handle = "open" =>
                ~att[j].stored /\ Abandoned(att[j], c[j]) = c[j]
           /\ ~att[j].stored => Abandoned(att[j], c[j]) = c[j]
         BY <1>6, <1>8, <1>r, CancelAttempt, CancelledConnector
  <1>n. /\ Connected(started) \in Connectors
        /\ Connected(started).callback /\ ~Connected(started).stored
        /\ ~Connected(started).posted /\ ~Connected(started).cancelled
        /\ Connected(started).worker \in {"none", "starting"}
        /\ ~Connected(started).ok
        BY NewConnector
  <1>u. att[k] = Unused /\ conn[k] = NoPipe
        BY <1>3 , <1>1 DEF ClientInv, AttemptInv, Attempts
  <1>v. c[k] = NoPipe /\ NoPipe.handle = "none" /\ NoPipe.sent = 0
        /\ NoPipe.got = 0
    <2>1. k # pipe  BY <1>3, <1>7, ConnectorAndPipe
    <2> QED BY <2>1, <1>q, <1>u, <1>3 DEF NoPipe
  <1>w. conn'[k] = NoPipe
    <2>1. k # connector  BY <1>3, ConnectorAndPipe
    <2> QED BY <2>1, <1>v, <1>3, <1>5
  <1>a. att'[k] = Connected(started)
        BY <1>3, <1>4
  <1>j. \A j \in Attempts \ {k} :
          /\ att'[j] = IF j = connector THEN Cancelled(att[j]) ELSE att[j]
          /\ conn'[j] = IF j = connector THEN Abandoned(att[j], c[j]) ELSE c[j]
        BY <1>4, <1>5
  <1> HIDE DEF k
  <1>11. ConnectorTypeOK'
    <2>1. att' \in [Attempts -> Connectors]
          BY <1>1, <1>4, <1>6, <1>10, <1>n
    <2>2. conn' \in [Attempts -> Pipes]
          BY <1>5, <1>10, <1>r
    <2> QED BY <2>1, <2>2, <1>2, <1>3 DEF ConnectorTypeOK
  <1>12. NoStaleCallback'
    <2>1. \A j \in Attempts \ {k} : ~att'[j].callback
          BY <1>j, <1>7, <1>10
    <2> QED BY <2>1, <1>2 DEF NoStaleCallback
  <1>13. StateMatchesPipe'
         BY <1>2, <1>3 DEF StateMatchesPipe, Attempts
  <1>14. PipesHeld'
    <2>1. SUFFICES ASSUME NEW j \in Attempts, conn'[j].handle = "open"
                   PROVE  att'[j].worker \in {"checking", "calling", "finishing"}
          BY DEF PipesHeld
    <2>2. j # k  BY <2>1, <1>w, <1>v
    <2>3. CASE j = connector
      <3>1. ~att[j].stored /\ conn'[j] = c[j] /\ c[j] = conn[j]
            BY <2>1, <2>2, <2>3, <1>j, <1>9, <1>10
      <3>2. pipe = 0  BY <2>3, <1>7, ConnectorAndPipe
      <3>3. att[j].worker \in {"checking", "calling", "finishing"}
            BY <3>1, <3>2, <2>1, ConnectorAndPipe DEF ClientInv, PipesHeld
      <3> QED BY <3>3, <2>2, <2>3, <1>j, <1>10
    <2>4. CASE j # connector
      <3>1. att'[j] = att[j] /\ conn'[j] = c[j] /\ c[j] = conn[j] /\ j # pipe
            BY <2>1, <2>2, <2>4, <1>j, <1>q, <1>r
      <3> QED BY <3>1, <2>1, <2>4 DEF ClientInv, PipesHeld
    <2> QED BY <2>3, <2>4
  <1>15. NumberInv'
         BY <1>2 DEF NumberInv
  <1>16. AttemptInv'
    <2>1. \A j \in Attempts : AttemptOK(att'[j], conn'[j])
      <3>1. AttemptOK(att'[k], conn'[k])
            BY <1>a, <1>w, <1>v, <1>n DEF AttemptOK, Working
      <3> QED BY <3>1, <1>j, <1>8, <1>10
    <2>2. ASSUME NEW j \in Attempts, j > used'
          PROVE  att'[j] = Unused /\ conn'[j] = NoPipe
      <3>1. j > used /\ j # k
            BY <2>2, <1>1, <1>2 DEF k, Attempts
      <3>2. att[j] = Unused /\ conn[j] = NoPipe
            BY <3>1 DEF ClientInv, AttemptInv
      <3>3. j # pipe
            BY <3>1, <1>1, <1>7 DEF Attempts
      <3>4. c[j] = NoPipe
            BY <3>2, <3>3, <1>q
      <3>5. j # connector
            BY <3>1, <1>1, ConnectorAndPipe DEF Attempts
      <3> QED BY <3>1, <3>2, <3>4, <3>5, <1>j
    <2>3. connector' <= used'  BY <1>2, <1>1 DEF k
    <2> QED BY <2>1, <2>2, <2>3, <1>2 DEF AttemptInv
  <1> QED BY <1>2, <1>3, <1>11, <1>12, <1>13, <1>14, <1>15, <1>16

-----------------------------------------------------------------------------
(* The steps of the UI thread. *)

(* A step that changes only the pipe of a Ready client. *)
LEMMA ReadyPipeFrame ==
  ASSUME ClientInv, cstate = "Ready",
         NEW p \in Pipes, conn' = [conn EXCEPT ![pipe] = p],
         p.handle = conn[pipe].handle, p.got > 0,
         UNCHANGED <<used, att, lives, alive, activated, cstate, connector,
                     pipe>>,
         nextSeq' = p.sent + 1,
         p.got = IF Top("wait")' THEN p.sent - 1 ELSE p.sent,
         stack' \in Seq(Frames), LifeInv',
         \A i \in 2 .. Len(stack') : stack'[i] # "wait"
  PROVE  ClientInv'
  <1>1. /\ conn \in [Attempts -> Pipes] /\ att \in [Attempts -> Connectors]
        BY DEF ClientInv, TypeOK, ConnectorTypeOK
  <1>2. /\ pipe \in Attempts /\ pipe <= used /\ pipe # 0 /\ connector = 0
        /\ att[pipe].worker \in {"posting", "done"} /\ ~att[pipe].stored
        /\ conn[pipe].handle = "open"
        BY ConnectorAndPipe DEF ClientInv, StateMatchesPipe
  <1>3. \A j \in Attempts : conn'[j] = IF j = pipe THEN p ELSE conn[j]
        BY <1>1
  <1>4. p.sent \in Nat  BY DEF Pipes
  <1>5. TypeOK'
    <2>1. conn' \in [Attempts -> Pipes]  BY <1>1
    <2>2. nextSeq' \in Nat  BY <1>4
    <2> QED BY <2>1, <2>2 DEF ClientInv, TypeOK, ConnectorTypeOK
  <1>6. NoStaleCallback'
        BY DEF ClientInv, NoStaleCallback
  <1>7. StateMatchesPipe'
        BY <1>2, <1>3 DEF StateMatchesPipe
  <1>8. PipesHeld'
        BY <1>2, <1>3 DEF ClientInv, PipesHeld
  <1>9. WaitInv'
        BY DEF WaitInv
  <1>10. NumberInv'
        BY <1>2, <1>3 DEF NumberInv
  <1>11. AttemptInv'
    <2>1. AttemptOK(att[pipe], p)
          BY <1>2, AttemptMade DEF AttemptOK, Working
    <2>2. \A j \in Attempts : AttemptOK(att'[j], conn'[j])
          BY <1>3, <2>1 DEF ClientInv, AttemptInv
    <2>3. \A j \in Attempts : j > used' => att'[j] = Unused /\ conn'[j] = NoPipe
      <3>1. \A j \in Attempts : j > used => j # pipe
            BY <1>2 DEF ClientInv, TypeOK, ConnectorTypeOK, Attempts
      <3> QED BY <1>3, <3>1 DEF ClientInv, AttemptInv
    <2> QED BY <2>2, <2>3 DEF ClientInv, AttemptInv
  <1> QED BY <1>5, <1>6, <1>7, <1>8, <1>9, <1>10, <1>11 DEF ClientInv

(* What UNCHANGED leaves to be shown when only the stack moves, away from  *)
(* no call.                                                                *)
LEMMA StackFrame ==
  ASSUME ClientInv, activated,
         UNCHANGED <<connectorVars, lives, alive, activated, cstate, connector,
                     pipe, nextSeq>>,
         stack' \in Seq(Frames), LifeInv',
         \A i \in 2 .. Len(stack') : stack'[i] # "wait",
         ~Top("wait"), ~Top("wait")', ~Top("leaving"), ~Top("left")
  PROVE  ClientInv'
  <1> USE DEF connectorVars
  <1>1. TypeOK'
        BY DEF ClientInv, TypeOK, ConnectorTypeOK
  <1>2. NoStaleCallback'  BY DEF ClientInv, NoStaleCallback
  <1>3. StateMatchesPipe'  BY DEF ClientInv, StateMatchesPipe
  <1>4. PipesHeld'  BY DEF ClientInv, PipesHeld
  <1>5. WaitInv'  BY DEF WaitInv
  <1>6. NumberInv'  BY DEF ClientInv, NumberInv
  <1>7. AttemptInv'  BY DEF ClientInv, AttemptInv
  <1> QED BY <1>1, <1>2, <1>3, <1>4, <1>5, <1>6, <1>7 DEF ClientInv

(* A call that is refused starts an attempt or changes nothing. *)
LEMMA NotReadyPreserves ==
  ASSUME ClientInv, alive, activated, NotReady,
         UNCHANGED <<lives, alive, activated, pipe, nextSeq>>,
         stack' \in Seq(Frames), LifeInv',
         \A i \in 2 .. Len(stack') : stack'[i] # "wait",
         ~Top("wait"), ~Top("wait")', ~Top("leaving"), ~Top("left")
  PROVE  ClientInv'
  <1>1. CASE cstate = "Disconnected"
    <2>1. StartConnect(conn)
          BY <1>1 DEF NotReady
    <2>2. pipe = 0 /\ 0 \notin Attempts
          BY <1>1, ConnectorAndPipe DEF ClientInv, StateMatchesPipe
    <2>3. Reconnects
          BY <2>1, <2>2 DEF StartConnect, Reconnects
    <2>4. /\ ConnectorTypeOK' /\ connector' \in Attempts
          /\ NoStaleCallback' /\ StateMatchesPipe' /\ PipesHeld'
          /\ NumberInv' /\ AttemptInv' /\ cstate' = "Connecting"
          BY <2>2, <2>3, ReconnectPreserves
    <2>5. TypeOK'
          BY <2>4 DEF ClientInv, TypeOK
    <2>6. WaitInv'  BY DEF WaitInv
    <2> QED BY <2>4, <2>5, <2>6 DEF ClientInv
  <1>2. CASE cstate # "Disconnected"
    <2>1. UNCHANGED <<connectorVars, cstate, connector>>
          BY <1>2 DEF NotReady
    <2> QED BY <2>1, StackFrame
  <1> QED BY <1>1, <1>2

(* A call takes the next number of a pipe whose calls are all answered. *)
LEMMA BeginCallPreserves ==
  ASSUME ClientInv, NEW m \in {"onActivate", "event"}, BeginCall(m),
         stack' \in Seq(Frames), LifeInv',
         \A i \in 2 .. Len(stack') : stack'[i] # "wait",
         ~Top("wait"), Top("wait")'
  PROVE  ClientInv'
  <1> DEFINE p == Called(conn[pipe], nextSeq, m)
  <1>1. cstate = "Ready" /\ conn' = [conn EXCEPT ![pipe] = p]
        /\ nextSeq' = nextSeq + 1
        /\ UNCHANGED <<used, att, lives, alive, activated, cstate, connector,
                       pipe>>
        BY DEF BeginCall
  <1>2. pipe \in Attempts /\ conn[pipe] \in Pipes /\ nextSeq \in Nat
        BY <1>1, ConnectorAndPipe, AttemptMade DEF ClientInv, TypeOK
  <1>3. /\ p \in Pipes /\ p.handle = conn[pipe].handle
        /\ p.sent = nextSeq /\ p.got = conn[pipe].got
    <2>1. m \in {"init", "onActivate", "event", "onDeactivate"}  OBVIOUS
    <2> QED BY <1>2, <2>1, CalledPipe
  <1>4. /\ conn[pipe].got > 0 /\ nextSeq = conn[pipe].sent + 1
        /\ conn[pipe].got = conn[pipe].sent
        BY <1>1 DEF ClientInv, StateMatchesPipe, NumberInv
  <1>5. conn[pipe].sent \in Nat  BY <1>2 DEF Pipes
  <1> HIDE DEF p
  <1>6. p.got > 0 /\ nextSeq' = p.sent + 1 /\ p.got = p.sent - 1
        BY <1>1, <1>2, <1>3, <1>4, <1>5
  <1> QED BY <1>1, <1>3, <1>6, ReadyPipeFrame

(* The answer accepted is the one to the call waited for. *)
LEMMA CallSucceedsPreserves ==
  ASSUME ClientInv, CallSucceeds
  PROVE  ClientInv'
  <1> DEFINE n == Head(conn[pipe].replies)
             p == [conn[pipe] EXCEPT !.replies = Tail(@), !.got = n]
  <1>1. /\ Top("wait") /\ conn[pipe].replies # <<>> /\ n = conn[pipe].sent
        /\ conn' = [conn EXCEPT ![pipe] = p]
        /\ stack' = <<"handle">> \o Tail(stack)
        /\ UNCHANGED <<used, att, lives, alive, activated, cstate, connector,
                       pipe, nextSeq>>
        BY DEF CallSucceeds, Matches
  <1>2. cstate = "Ready" /\ alive /\ stack # <<>>
        /\ ~Top("leaving") /\ ~Top("left")
        BY <1>1 DEF ClientInv, WaitInv, LifeInv, Top, Innermost
  <1>3. activated  BY <1>2, ActiveClient
  <1>4. /\ stack' \in Seq(Frames) /\ LifeInv'
        /\ \A i \in 2 .. Len(stack') : stack'[i] # "wait"
        /\ \A f \in Frames : stack' # <<>> /\ Head(stack') = f =>
             (Top(f)' /\ \A g \in Frames \ {f} : ~Top(g)')
        BY <1>1, <1>2, <1>3, StackSteps
  <1>5. ~Top("wait")'
    <2>1. "handle" \in Frames /\ "wait" \in Frames \ {"handle"}  BY DEF Frames
    <2>2. stack \in Seq(Frames)  BY DEF ClientInv, TypeOK
    <2>3. Tail(stack) \in Seq(Frames)  BY <1>2, <2>2, StackPop
    <2>4. stack' # <<>> /\ Head(stack') = "handle"
          BY <1>1, <2>1, <2>3, StackPush
    <2> QED BY <2>1, <2>4, <1>4
  <1>6. pipe \in Attempts /\ conn[pipe] \in Pipes
        BY <1>2, ConnectorAndPipe, AttemptMade
  <1>7. conn[pipe].replies \in Seq(Nat) /\ conn[pipe].sent \in Nat
        /\ conn[pipe].got \in Nat
        BY <1>6 DEF Pipes
  <1>8. n \in Nat /\ Tail(conn[pipe].replies) \in Seq(Nat)
        BY <1>1, <1>7
  <1>9. p \in Pipes /\ p.handle = conn[pipe].handle
        /\ p.sent = conn[pipe].sent /\ p.got = n
    <2> HIDE DEF n
    <2> QED BY <1>6, <1>8 DEF Pipes
  <1>10. /\ conn[pipe].got > 0 /\ nextSeq = conn[pipe].sent + 1
         /\ conn[pipe].got = conn[pipe].sent - 1
         BY <1>1, <1>2 DEF ClientInv, StateMatchesPipe, NumberInv
  <1> HIDE DEF p, n
  <1>11. p.got > 0 /\ nextSeq' = p.sent + 1 /\ p.got = p.sent
         BY <1>1, <1>7, <1>9, <1>10
  <1> QED BY <1>1, <1>2, <1>4, <1>5, <1>9, <1>11, ReadyPipeFrame

(* After a failed call the pipe is gone before the client reconnects. *)
LEMMA FailCallPreserves ==
  ASSUME ClientInv, FailCall
  PROVE  ClientInv'
  <1> DEFINE c == PipesAfterFailure
  <1>1. /\ Top("wait") /\ stack' = Tail(stack)
        /\ pipe' = IF c[pipe].handle = "open" THEN pipe ELSE 0
        /\ UNCHANGED <<lives, alive, activated, nextSeq>>
        BY DEF FailCall
  <1>2. cstate = "Ready" /\ alive /\ stack # <<>>
        /\ ~Top("leaving") /\ ~Top("left")
        BY <1>1 DEF ClientInv, WaitInv, LifeInv, Top, Innermost
  <1>3. activated  BY <1>2, ActiveClient
  <1>4. /\ stack' \in Seq(Frames) /\ LifeInv' /\ ~Top("wait")'
        /\ \A i \in 2 .. Len(stack') : stack'[i] # "wait"
        BY <1>1, <1>2, <1>3, StackSteps
  <1>5. pipe \in Attempts /\ conn[pipe] \in Pipes /\ conn \in [Attempts -> Pipes]
        BY <1>2, ConnectorAndPipe, AttemptMade DEF ClientInv, TypeOK, ConnectorTypeOK
  <1>6. Closed(conn[pipe]) \in Pipes /\ Closed(conn[pipe]).handle # "open"
        BY <1>5, PipeOperators
  <1>7. \A j \in Attempts :
          c[j] = IF j = pipe THEN Closed(conn[j]) ELSE conn[j]
    <2>1. c = [conn EXCEPT ![pipe] = Closed(conn[pipe])]
          BY DEF PipesAfterFailure
    <2> QED BY <1>5, <2>1
  <1>8. pipe' = 0 /\ alive' /\ StartConnect(c)
        BY <1>1, <1>2, <1>3, <1>5, <1>6, <1>7 DEF FailCall
  <1>c. connector = 0 /\ 0 \notin Attempts
        BY <1>2, ConnectorAndPipe
  <1> HIDE DEF c
  <1>r. Reconnects
        BY <1>7, <1>8, <1>c DEF StartConnect, Reconnects
  <1>9. /\ ConnectorTypeOK' /\ connector' \in Attempts
        /\ NoStaleCallback' /\ StateMatchesPipe' /\ PipesHeld'
        /\ NumberInv' /\ AttemptInv' /\ cstate' = "Connecting"
        BY <1>8, <1>r, ReconnectPreserves
  <1>10. TypeOK'
         BY <1>1, <1>4, <1>8, <1>9 DEF ClientInv, TypeOK
  <1>11. WaitInv'  BY <1>4 DEF WaitInv
  <1> QED BY <1>4, <1>9, <1>10, <1>11 DEF ClientInv

(* Returning from a handler never returns into a wait. *)
LEMMA HandleDonePreserves ==
  ASSUME ClientInv, HandleDone
  PROVE  ClientInv'
  <1>1. /\ Top("handle") /\ stack' = Tail(stack)
        /\ UNCHANGED <<connectorVars, lives, alive, activated, cstate,
                       connector, pipe, nextSeq>>
        BY DEF HandleDone
  <1>2. alive /\ stack # <<>> /\ ~Top("wait") /\ ~Top("leaving") /\ ~Top("left")
        BY <1>1 DEF ClientInv, LifeInv, Top, Innermost
  <1>3. activated  BY <1>2, ActiveClient
  <1>4. /\ stack' \in Seq(Frames) /\ LifeInv' /\ ~Top("wait")'
        /\ \A i \in 2 .. Len(stack') : stack'[i] # "wait"
        BY <1>1, <1>2, <1>3, StackSteps
  <1> QED BY <1>1, <1>2, <1>3, <1>4, StackFrame

(* Events, in the message loop or nested in a handler. *)
LEMMA EventPreserves ==
  ASSUME ClientInv, Event
  PROVE  ClientInv'
  <1>1. alive /\ ~Top("wait") /\ ~Top("leaving") /\ ~Top("left")
        BY DEF Event, Top
  <1>2. activated  BY <1>1, ActiveClient
  <1>3. CASE BeginCall("event") /\ stack' = <<"wait">> \o stack
    <2>1. alive' = alive /\ activated' = activated
          BY <1>3 DEF BeginCall
    <2>2. /\ stack' \in Seq(Frames) /\ LifeInv'
          /\ \A i \in 2 .. Len(stack') : stack'[i] # "wait"
          /\ \A f \in Frames : stack' # <<>> /\ Head(stack') = f =>
               (Top(f)' /\ \A g \in Frames \ {f} : ~Top(g)')
          BY <1>1, <1>2, <1>3, <2>1, StackSteps
    <2>3. "wait" \in Frames /\ stack \in Seq(Frames)
          BY DEF ClientInv, TypeOK, Frames
    <2>4. stack' # <<>> /\ Head(stack') = "wait"
          BY <1>3, <2>3, StackPush
    <2>5. Top("wait")'  BY <2>2, <2>3, <2>4
    <2> QED BY <1>1, <1>3, <2>2, <2>5, BeginCallPreserves
  <1>4. CASE NotReady /\ UNCHANGED <<lives, alive, activated, pipe, nextSeq,
                                     stack>>
    <2>1. /\ stack' \in Seq(Frames) /\ LifeInv'
          /\ \A i \in 2 .. Len(stack') : stack'[i] # "wait"
          BY <1>1, <1>2, <1>4, StackSteps
    <2>2. ~Top("wait")'  BY <1>1, <1>4 DEF Top, Innermost
    <2> QED BY <1>1, <1>2, <1>4, <2>1, <2>2, NotReadyPreserves
  <1> QED BY <1>3, <1>4 DEF Event

(* The rest of the connect callback. *)
LEMMA InitHandledPreserves ==
  ASSUME ClientInv, InitHandled
  PROVE  ClientInv'
  <1>1. alive /\ stack # <<>> /\ ~Top("wait") /\ ~Top("leaving") /\ ~Top("left")
        BY DEF InitHandled, Top, Innermost, ClientInv, LifeInv
  <1>2. activated  BY <1>1, ActiveClient
  <1>3. CASE BeginCall("onActivate") /\ stack' = <<"wait">> \o Tail(stack)
    <2>1. alive' = alive /\ activated' = activated
          BY <1>3 DEF BeginCall
    <2>2. /\ stack' \in Seq(Frames) /\ LifeInv'
          /\ \A i \in 2 .. Len(stack') : stack'[i] # "wait"
          /\ \A f \in Frames : stack' # <<>> /\ Head(stack') = f =>
               (Top(f)' /\ \A g \in Frames \ {f} : ~Top(g)')
          BY <1>1, <1>2, <1>3, <2>1, StackSteps
    <2>3. "wait" \in Frames /\ Tail(stack) \in Seq(Frames)
          BY <1>1, StackPop DEF ClientInv, TypeOK, Frames
    <2>4. stack' # <<>> /\ Head(stack') = "wait"
          BY <1>3, <2>3, StackPush
    <2>5. Top("wait")'  BY <2>2, <2>3, <2>4
    <2> QED BY <1>1, <1>3, <2>2, <2>5, BeginCallPreserves
  <1>4. CASE NotReady /\ stack' = Tail(stack)
             /\ UNCHANGED <<lives, alive, activated, pipe, nextSeq>>
    <2>1. /\ stack' \in Seq(Frames) /\ LifeInv' /\ ~Top("wait")'
          /\ \A i \in 2 .. Len(stack') : stack'[i] # "wait"
          BY <1>1, <1>2, <1>4, StackSteps
    <2> QED BY <1>1, <1>2, <1>4, <2>1, NotReadyPreserves
  <1> QED BY <1>3, <1>4 DEF InitHandled

(* The message of a worker finds the attempt that the client waits for,   *)
(* or one that no longer has a pipe.                                      *)
LEMMA DeliverPreserves ==
  ASSUME ClientInv, NEW k \in Attempts, Deliver(k)
  PROVE  ClientInv'
  <1> DEFINE a == att[k]
             b == [a EXCEPT !.window = FALSE, !.posted = FALSE,
                            !.callback = FALSE, !.stored = FALSE]
             runs == ~a.cancelled /\ a.callback
  <1>1. /\ stack = <<>> /\ a.posted
        /\ att' = [att EXCEPT ![k] = b]
        /\ connector' = IF runs THEN 0 ELSE connector
        /\ UNCHANGED <<used, lives, alive, activated>>
        BY DEF Deliver
  <1>2. /\ att \in [Attempts -> Connectors] /\ conn \in [Attempts -> Pipes]
        BY DEF ClientInv, TypeOK, ConnectorTypeOK
  <1>3. /\ a \in Connectors /\ conn[k] \in Pipes /\ AttemptOK(a, conn[k])
        /\ a.worker = "done" /\ k <= used
        BY <1>1, AttemptMade DEF AttemptOK
  <1>4. b \in Connectors
        BY <1>3 DEF Connectors
  <1>5. /\ ~b.posted /\ ~b.callback /\ ~b.stored
        BY <1>3 DEF Connectors
  <1>6. b.worker = a.worker
        BY <1>3 DEF Connectors
  <1>7. \A j \in Attempts : att'[j] = IF j = k THEN b ELSE att[j]
        BY <1>1, <1>2
  <1>8. /\ connector # 0 => cstate = "Connecting" /\ pipe = 0
        /\ cstate = "Connecting" => connector # 0
        /\ \A j \in Attempts : att[j].callback \/ att[j].stored =>
             connector = j /\ pipe = 0
        /\ 0 \notin Attempts /\ connector <= used
        /\ connector \in Attempts \cup {0}
        BY ConnectorAndPipe
  <1>9. ~Top("leaving") /\ ~Top("left") /\ ~Top("wait")
        BY <1>1 DEF Top, Innermost
  <1>t. /\ a.stored => conn[k].handle = "open" /\ conn[k].got = 1
                       /\ conn[k].sent = 1 /\ a.callback
        BY <1>3 DEF AttemptOK
  <1> HIDE DEF a, b
  <1>a. NoStaleCallback'
    <2>1. ASSUME NEW j \in Attempts, att'[j].callback
          PROVE  connector' = j /\ alive'
      <3>1. j # k /\ att[j].callback  BY <2>1, <1>5, <1>7
      <3>2. connector = j /\ alive  BY <3>1 DEF ClientInv, NoStaleCallback
      <3>3. ~runs  BY <3>1, <3>2, <1>8 DEF a
      <3> QED BY <3>2, <3>3, <1>1
    <2> QED BY <2>1 DEF NoStaleCallback
  <1>b. CASE runs /\ a.stored
    <2>1. /\ conn' = [j \in Attempts |->
                        IF j = pipe THEN Closed(conn[j]) ELSE conn[j]]
          /\ pipe' = k /\ nextSeq' = 2 /\ cstate' = "Ready"
          /\ stack' = <<"init">>
          BY <1>b DEF Deliver, a
    <2>2. connector = k /\ pipe = 0 /\ connector' = 0 /\ alive
          BY <1>b, <1>1, <1>8 DEF a, ClientInv, NoStaleCallback
    <2>3. conn' = conn
          BY <2>1, <2>2, <1>2, <1>8
    <2>4. activated
          BY <2>2, <1>9, ActiveClient
    <2>5. /\ stack' \in Seq(Frames) /\ LifeInv'
          /\ \A i \in 2 .. Len(stack') : stack'[i] # "wait"
          BY <2>1, <2>2, <2>4, <1>1, <1>9, StackSteps
    <2>6. ~Top("wait")'
          BY <2>1 DEF Top, Innermost
    <2>7. TypeOK'
      <3>1. att' \in [Attempts -> Connectors]  BY <1>1, <1>2, <1>4
      <3> QED BY <3>1, <2>1, <2>2, <2>3, <2>5, <1>1
              DEF ClientInv, TypeOK, ConnectorTypeOK
    <2>8. StateMatchesPipe'
          BY <2>1, <2>2, <2>3, <1>b, <1>t, <1>8 DEF StateMatchesPipe
    <2>9. PipesHeld'
      <3>1. ASSUME NEW j \in Attempts, conn'[j].handle = "open", j # k
            PROVE  att'[j].worker \in {"checking", "calling", "finishing"}
            BY <3>1, <2>2, <2>3, <1>7, <1>8 DEF ClientInv, PipesHeld
      <3> QED BY <3>1, <2>1 DEF PipesHeld
    <2>10. WaitInv'  BY <2>5, <2>6 DEF WaitInv
    <2>11. NumberInv'
           BY <2>1, <2>3, <2>6, <1>b, <1>t DEF NumberInv
    <2>12. AttemptInv'
      <3>1. AttemptOK(b, conn[k])
            BY <1>3, <1>5, <1>6 DEF AttemptOK, Working
      <3>2. \A j \in Attempts : AttemptOK(att'[j], conn'[j])
            BY <3>1, <2>3, <1>7 DEF ClientInv, AttemptInv
      <3>3. ASSUME NEW j \in Attempts, j > used'
            PROVE  att'[j] = Unused /\ conn'[j] = NoPipe
        <4>1. j # k  BY <3>3, <1>1, <1>3 DEF ClientInv, TypeOK, ConnectorTypeOK, Attempts
        <4> QED BY <4>1, <3>3, <2>3, <1>1, <1>7 DEF ClientInv, AttemptInv
      <3>4. att'[pipe'].worker \in {"posting", "done"}
            BY <2>1, <1>3, <1>6, <1>7
      <3>5. connector' <= used'
            BY <2>2, <1>1 DEF ClientInv, TypeOK, ConnectorTypeOK
      <3> QED BY <3>2, <3>3, <3>4, <3>5 DEF AttemptInv
    <2> QED BY <1>a, <2>5, <2>7, <2>8, <2>9, <2>10, <2>11, <2>12 DEF ClientInv
  <1>c. CASE ~(runs /\ a.stored)
    <2>1. /\ conn' = [conn EXCEPT ![k] = Abandoned(a, conn[k])]
          /\ cstate' = IF runs THEN "Disconnected" ELSE cstate
          /\ UNCHANGED <<pipe, nextSeq, stack>>
          BY <1>c DEF Deliver, a
    <2>2. /\ Abandoned(a, conn[k]) \in Pipes
          /\ Abandoned(a, conn[k]).handle = "open" =>
               ~a.stored /\ Abandoned(a, conn[k]) = conn[k]
          /\ ~a.stored => Abandoned(a, conn[k]) = conn[k]
          BY <1>3, CancelAttempt
    <2> DEFINE q == Abandoned(a, conn[k])
    <2>3. \A j \in Attempts : conn'[j] = IF j = k THEN q ELSE conn[j]
          BY <2>1, <1>2
    <2> HIDE DEF q
    <2>4. runs => pipe = 0 /\ connector = k
          BY <1>8 DEF a
    <2>5. pipe = k => q = conn[k]
          BY <2>2, <1>8 DEF a, q
    <2>6. ASSUME runs PROVE activated /\ alive
          BY <2>6, <1>9, ActiveClient DEF a, ClientInv, NoStaleCallback
    <2>7. TypeOK'
      <3>1. att' \in [Attempts -> Connectors]  BY <1>1, <1>2, <1>4
      <3>2. conn' \in [Attempts -> Pipes]  BY <2>1, <2>2, <1>2
      <3> QED BY <3>1, <3>2, <2>1, <1>1 DEF ClientInv, TypeOK, ConnectorTypeOK
    <2>8. StateMatchesPipe'
      <3>1. CASE runs
            BY <3>1, <2>1, <2>4, <1>1 DEF StateMatchesPipe
      <3>2. CASE ~runs
        <4>1. pipe # 0 => pipe \in Attempts  BY DEF ClientInv, TypeOK
        <4>2. pipe # 0 => conn'[pipe] = conn[pipe]  BY <4>1, <2>3, <2>5
        <4> QED BY <3>2, <4>2, <2>1, <1>1
                DEF ClientInv, StateMatchesPipe, Top, Innermost
      <3> QED BY <3>1, <3>2
    <2>9. PipesHeld'
      <3> SUFFICES ASSUME NEW j \in Attempts, conn'[j].handle = "open"
                   PROVE  \/ pipe' = j
                          \/ att'[j].stored /\ connector' = j
                          \/ att'[j].worker \in {"checking", "calling", "finishing"}
          BY DEF PipesHeld
      <3>1. CASE j = k
        <4>1. ~a.stored /\ conn[k].handle = "open"
              BY <3>1, <2>2, <2>3 DEF q
        <4>2. pipe = k
              BY <4>1, <1>3 DEF ClientInv, PipesHeld, a
        <4> QED BY <4>2, <3>1, <2>1
      <3>2. CASE j # k
        <4>1. conn[j].handle = "open" /\ att'[j] = att[j]
              BY <3>2, <2>3, <1>7
        <4>2. att[j].stored /\ connector = j => ~runs
              BY <3>2, <2>4
        <4> QED BY <4>1, <4>2, <2>1, <1>1 DEF ClientInv, PipesHeld
      <3> QED BY <3>1, <3>2
    <2>10. LifeInv'
           BY <2>1, <2>6, <1>1 DEF ClientInv, LifeInv
    <2>11. WaitInv'
           BY <2>1, <1>9 DEF ClientInv, WaitInv, Top, Innermost
    <2>12. NumberInv'
      <3>1. SUFFICES ASSUME cstate' = "Ready"
                     PROVE  /\ nextSeq' = conn'[pipe'].sent + 1
                            /\ conn'[pipe'].got = conn'[pipe'].sent
        <4>1. ~Top("wait")'  BY <2>1, <1>9 DEF Top, Innermost
        <4> QED BY <4>1 DEF NumberInv
      <3>2. cstate = "Ready" /\ ~runs  BY <3>1, <2>1
      <3>3. pipe \in Attempts  BY <3>2, ConnectorAndPipe
      <3>4. conn'[pipe] = conn[pipe]  BY <3>3, <2>3, <2>5
      <3> QED BY <3>2, <3>4, <2>1, <1>9 DEF ClientInv, NumberInv
    <2>13. AttemptInv'
      <3>1. AttemptOK(b, q)
            BY <1>3, <1>5, <1>6 DEF AttemptOK, Working
      <3>2. \A j \in Attempts : AttemptOK(att'[j], conn'[j])
            BY <3>1, <2>3, <1>7 DEF ClientInv, AttemptInv
      <3>3. ASSUME NEW j \in Attempts, j > used'
            PROVE  att'[j] = Unused /\ conn'[j] = NoPipe
        <4>1. j # k  BY <3>3, <1>1, <1>3 DEF ClientInv, TypeOK, ConnectorTypeOK, Attempts
        <4> QED BY <4>1, <3>3, <2>3, <1>1, <1>7 DEF ClientInv, AttemptInv
      <3>4. pipe' # 0 => att'[pipe'].worker \in {"posting", "done"}
        <4>1. pipe # 0 => pipe \in Attempts  BY DEF ClientInv, TypeOK
        <4> QED BY <4>1, <2>1, <1>3, <1>6, <1>7 DEF ClientInv, AttemptInv
      <3>5. connector' <= used'
            BY <1>1, <1>8 DEF ClientInv, TypeOK, ConnectorTypeOK
      <3> QED BY <3>2, <3>3, <3>4, <3>5 DEF AttemptInv
    <2> QED BY <1>a, <2>7, <2>8, <2>9, <2>10, <2>11, <2>12, <2>13 DEF ClientInv
  <1> QED BY <1>b, <1>c

(* A new client starts with nothing of the one before it. *)
LEMMA OpenClientPreserves ==
  ASSUME ClientInv, OpenClient
  PROVE  ClientInv'
  <1>1. /\ ~alive /\ stack = <<>> /\ lives < MaxLives /\ lives' = lives + 1
        /\ alive' = TRUE /\ activated' = TRUE /\ pipe' = 0 /\ nextSeq' = 0
        /\ StartConnect(conn) /\ stack' = stack
        BY DEF OpenClient
  <1>2. pipe = 0 /\ 0 \notin Attempts
        BY <1>1, ConnectorAndPipe DEF ClientInv, LifeInv
  <1>3. Reconnects
        BY <1>1, <1>2 DEF StartConnect, Reconnects
  <1>4. /\ ConnectorTypeOK' /\ connector' \in Attempts
        /\ NoStaleCallback' /\ StateMatchesPipe' /\ PipesHeld'
        /\ NumberInv' /\ AttemptInv' /\ cstate' = "Connecting"
        BY <1>1, <1>3, ReconnectPreserves
  <1>5. TypeOK'
    <2>1. lives' \in 0 .. MaxLives
          BY <1>1, ClientAssumption DEF ClientInv, TypeOK
    <2> QED BY <2>1, <1>1, <1>4 DEF ClientInv, TypeOK
  <1>6. LifeInv'
        BY <1>1 DEF LifeInv
  <1>7. WaitInv'
        BY <1>1 DEF WaitInv, Top, Innermost
  <1> QED BY <1>4, <1>5, <1>6, <1>7 DEF ClientInv

(* onDeactivate cancels the attempt before it looks at the pipe. *)
LEMMA DeactivatePreserves ==
  ASSUME ClientInv, Deactivate
  PROVE  ClientInv'
  <1>1. /\ alive /\ stack = <<>> /\ activated' = FALSE
        /\ cstate' = "Disconnected" /\ connector' = 0
        /\ stack' = <<"leaving">>
        /\ UNCHANGED <<used, lives, alive, pipe, nextSeq>>
        BY DEF Deactivate
  <1>2. \A j \in Attempts :
          /\ att[j] \in Connectors /\ conn[j] \in Pipes
          /\ AttemptOK(att[j], conn[j])
          /\ Cancelled(att[j]) \in Connectors
          /\ ~Cancelled(att[j]).callback
          /\ Cancelled(att[j]).worker = att[j].worker
          /\ AttemptOK(Cancelled(att[j]), Abandoned(att[j], conn[j]))
          /\ Abandoned(att[j], conn[j]) \in Pipes
          /\ Abandoned(att[j], conn[j]).handle = "open" =>
               ~att[j].stored /\ Abandoned(att[j], conn[j]) = conn[j]
        BY AttemptMade, CancelAttempt, CancelledConnector
  <1>3. /\ att' = [j \in Attempts |->
                     IF j = connector THEN Cancelled(att[j]) ELSE att[j]]
        /\ conn' = [j \in Attempts |->
                      IF j = connector THEN Abandoned(att[j], conn[j])
                                       ELSE conn[j]]
        BY DEF Deactivate
  <1>4. \A j \in Attempts :
          /\ att'[j] = IF j = connector THEN Cancelled(att[j]) ELSE att[j]
          /\ conn'[j] = IF j = connector THEN Abandoned(att[j], conn[j])
                                         ELSE conn[j]
        BY <1>3
  <1>5. Len(stack') = 1 /\ stack'[1] = "leaving" /\ stack' # <<>>
        /\ stack' \in Seq(Frames) /\ Head(stack') = "leaving"
        BY <1>1 DEF Frames
  <1>6. Top("leaving")' /\ ~Top("wait")'
        BY <1>5 DEF Top, Innermost
  <1>7. TypeOK'
    <2>1. att' \in [Attempts -> Connectors]  BY <1>2, <1>3
    <2>2. conn' \in [Attempts -> Pipes]  BY <1>2, <1>3
    <2> QED BY <2>1, <2>2, <1>1, <1>5 DEF ClientInv, TypeOK, ConnectorTypeOK
  <1>8. NoStaleCallback'
        BY <1>2, <1>4 DEF ClientInv, NoStaleCallback
  <1>9. StateMatchesPipe'
        BY <1>1, <1>6 DEF StateMatchesPipe
  <1>10. PipesHeld'
    <2> SUFFICES ASSUME NEW j \in Attempts, conn'[j].handle = "open"
                 PROVE  \/ pipe' = j
                        \/ att'[j].stored /\ connector' = j
                        \/ att'[j].worker \in {"checking", "calling", "finishing"}
        BY DEF PipesHeld
    <2>1. CASE j = connector
          BY <2>1, <1>1, <1>2, <1>4 DEF ClientInv, PipesHeld
    <2>2. CASE j # connector
          BY <2>2, <1>1, <1>4 DEF ClientInv, PipesHeld
    <2> QED BY <2>1, <2>2
  <1>11. LifeInv'
    <2>1. DOMAIN stack' = 1 .. 1  BY <1>5
    <2> QED BY <2>1, <1>1 DEF LifeInv
  <1>12. WaitInv'
         BY <1>5, <1>6 DEF WaitInv
  <1>13. NumberInv'
         BY <1>1 DEF NumberInv
  <1>14. AttemptInv'
    <2>1. \A j \in Attempts : AttemptOK(att'[j], conn'[j])
          BY <1>2, <1>4
    <2>2. ASSUME NEW j \in Attempts, j > used'
          PROVE  att'[j] = Unused /\ conn'[j] = NoPipe
      <3>1. j # connector
            BY <2>2, <1>1, ConnectorAndPipe
               DEF ClientInv, TypeOK, ConnectorTypeOK, Attempts
      <3> QED BY <3>1, <2>2, <1>1, <1>4 DEF ClientInv, AttemptInv
    <2>3. pipe' # 0 => att'[pipe'].worker \in {"posting", "done"}
          BY <1>1, <1>2, <1>4, ConnectorAndPipe
    <2>4. connector' <= used'
          BY <1>1 DEF ClientInv, TypeOK, ConnectorTypeOK
    <2> QED BY <2>1, <2>2, <2>3, <2>4 DEF AttemptInv
  <1> QED BY <1>7, <1>8, <1>9, <1>10, <1>11, <1>12, <1>13, <1>14 DEF ClientInv

(* In onDeactivate the client is not active, and its call is refused.      *)
LEMMA LeavingClient ==
  ASSUME ClientInv, Top("leaving") \/ Top("left")
  PROVE  /\ alive /\ ~activated /\ cstate = "Disconnected" /\ connector = 0
         /\ stack \in {<<"leaving">>, <<"left">>}
  <1>1. stack # <<>> /\ Head(stack) \in {"leaving", "left"}
        BY DEF Top, Innermost
  <1>2. stack \in Seq(Frames)  BY DEF ClientInv, TypeOK
  <1>3. 1 \in DOMAIN stack /\ stack[1] \in {"leaving", "left"}
        BY <1>1, <1>2
  <1>4. ~activated /\ alive
        BY <1>1, <1>3 DEF ClientInv, LifeInv
  <1> QED BY <1>4 DEF ClientInv, LifeInv, StateMatchesPipe

(* The call of onDeactivate is always refused. *)
LEMMA DeactivateCallsPreserves ==
  ASSUME ClientInv, DeactivateCalls
  PROVE  ClientInv'
  <1> USE DEF connectorVars
  <1>1. alive /\ ~activated /\ cstate = "Disconnected"
        BY LeavingClient DEF DeactivateCalls
  <1>2. /\ stack' = <<"left">>
        /\ UNCHANGED <<connectorVars, lives, alive, activated, cstate,
                       connector, pipe, nextSeq>>
        BY <1>1 DEF DeactivateCalls
  <1>3. Len(stack') = 1 /\ stack'[1] = "left" /\ stack' # <<>>
        /\ stack' \in Seq(Frames) /\ Head(stack') = "left"
        BY <1>2 DEF Frames
  <1>4. Top("left")' /\ ~Top("wait")'
        BY <1>3 DEF Top, Innermost
  <1>5. TypeOK'  BY <1>2, <1>3 DEF ClientInv, TypeOK, ConnectorTypeOK
  <1>6. NoStaleCallback'  BY <1>2 DEF ClientInv, NoStaleCallback
  <1>7. StateMatchesPipe'
        BY <1>1, <1>2, <1>4 DEF ClientInv, StateMatchesPipe
  <1>8. PipesHeld'  BY <1>2 DEF ClientInv, PipesHeld
  <1>9. LifeInv'
    <2>1. DOMAIN stack' = 1 .. 1  BY <1>3
    <2> QED BY <2>1, <1>1, <1>2 DEF LifeInv
  <1>10. WaitInv'  BY <1>3, <1>4 DEF WaitInv
  <1>11. NumberInv'  BY <1>1, <1>2 DEF NumberInv
  <1>12. AttemptInv'  BY <1>2 DEF ClientInv, AttemptInv
  <1> QED BY <1>5, <1>6, <1>7, <1>8, <1>9, <1>10, <1>11, <1>12 DEF ClientInv

(* The client goes with its pipe closed and no attempt of its own left. *)
LEMMA CloseClientPreserves ==
  ASSUME ClientInv, CloseClient
  PROVE  ClientInv'
  <1>1. ~activated /\ cstate = "Disconnected" /\ connector = 0
        BY LeavingClient DEF CloseClient
  <1>2. /\ conn' = [j \in Attempts |->
                      IF j = pipe THEN Closed(conn[j]) ELSE conn[j]]
        /\ pipe' = 0 /\ alive' = FALSE /\ stack' = <<>>
        /\ UNCHANGED <<used, att, lives, activated, cstate, connector, nextSeq>>
        BY DEF CloseClient
  <1>3. \A j \in Attempts :
          /\ conn[j] \in Pipes /\ AttemptOK(att[j], conn[j])
          /\ Closed(conn[j]) \in Pipes /\ Closed(conn[j]).handle # "open"
        BY AttemptMade, PipeOperators
  <1>4. \A j \in Attempts : conn'[j] = IF j = pipe THEN Closed(conn[j])
                                                   ELSE conn[j]
        BY <1>2
  <1>5. TypeOK'
    <2>1. conn' \in [Attempts -> Pipes]  BY <1>2, <1>3
    <2>2. stack' \in Seq(Frames)  BY <1>2
    <2> QED BY <2>1, <2>2, <1>2 DEF ClientInv, TypeOK, ConnectorTypeOK
  <1>6. NoStaleCallback'
        BY <1>1, <1>2, ConnectorAndPipe DEF NoStaleCallback
  <1>7. StateMatchesPipe'
        BY <1>1, <1>2 DEF StateMatchesPipe
  <1>8. PipesHeld'
        BY <1>2, <1>3, <1>4 DEF ClientInv, PipesHeld
  <1>9. LifeInv'
        BY <1>1, <1>2 DEF LifeInv
  <1>10. WaitInv'
         BY <1>2 DEF WaitInv, Top, Innermost
  <1>11. NumberInv'
         BY <1>1, <1>2 DEF NumberInv
  <1>12. AttemptInv'
    <2>1. ASSUME NEW j \in Attempts
          PROVE  AttemptOK(att'[j], conn'[j])
      <3>1. CASE j = pipe
        <4>1. j # 0 /\ att[j].worker \in {"posting", "done"} /\ ~att[j].stored
              BY <3>1, ConnectorAndPipe
        <4>2. att'[j] = att[j]  BY <1>2
        <4> QED BY <4>1, <4>2, <1>3 DEF AttemptOK, Working
      <3>2. CASE j # pipe
            BY <3>2, <1>2, <1>3, <1>4
      <3> QED BY <3>1, <3>2
    <2>2. ASSUME NEW j \in Attempts, j > used'
          PROVE  att'[j] = Unused /\ conn'[j] = NoPipe
      <3>1. j # pipe
            BY <2>2, <1>2, ConnectorAndPipe
               DEF ClientInv, TypeOK, ConnectorTypeOK, Attempts
      <3> QED BY <3>1, <2>2, <1>2, <1>4 DEF ClientInv, AttemptInv
    <2>3. connector' <= used'
          BY <1>2, ConnectorAndPipe
    <2> QED BY <2>1, <2>2, <2>3, <1>2 DEF AttemptInv
  <1> QED BY <1>5, <1>6, <1>7, <1>8, <1>9, <1>10, <1>11, <1>12 DEF ClientInv

-----------------------------------------------------------------------------
(* The invariant holds before the first profile is activated ... *)
LEMMA InitInvariant ==
  ASSUME Init
  PROVE  ClientInv
  <1> USE DEF Init, ConnectorInit
  <1>1. Unused \in Connectors
        BY AttemptAssumption DEF Unused, Connectors, WorkerStates
  <1>2. NoPipe \in Pipes
    <2>1. <<>> \in Seq(Nat)  OBVIOUS
    <2> QED BY <2>1 DEF NoPipe, Pipes
  <1>3. \A j \in Attempts : att[j] = Unused /\ conn[j] = NoPipe
        OBVIOUS
  <1>4. /\ Unused.worker = "none" /\ ~Unused.callback /\ ~Unused.stored
        /\ ~Unused.posted /\ ~Unused.cancelled
        BY DEF Unused
  <1>5. /\ NoPipe.handle = "none" /\ NoPipe.sent = 0 /\ NoPipe.got = 0
        BY DEF NoPipe
  <1>6. TypeOK
    <2>1. ConnectorTypeOK
          BY <1>1, <1>2, AttemptAssumption DEF ConnectorTypeOK
    <2>2. stack \in Seq(Frames)  OBVIOUS
    <2>3. lives \in 0 .. MaxLives  BY ClientAssumption
    <2>4. alive \in BOOLEAN /\ activated \in BOOLEAN  OBVIOUS
    <2>5. /\ cstate \in {"Disconnected", "Connecting", "Ready"}
          /\ connector \in Attempts \cup {0} /\ pipe \in Attempts \cup {0}
          /\ nextSeq \in Nat
          OBVIOUS
    <2> QED BY <2>1, <2>2, <2>3, <2>4, <2>5 DEF TypeOK
  <1>7. NoStaleCallback  BY <1>3, <1>4 DEF NoStaleCallback
  <1>8. StateMatchesPipe  BY DEF StateMatchesPipe
  <1>9. PipesHeld  BY <1>3, <1>5 DEF PipesHeld
  <1>10. LifeInv  BY DEF LifeInv
  <1>11. WaitInv  BY DEF WaitInv, Top, Innermost
  <1>12. NumberInv  BY DEF NumberInv
  <1>13. AttemptInv
    <2>1. AttemptOK(Unused, NoPipe)
          BY <1>4, <1>5 DEF AttemptOK, Working
    <2> QED BY <2>1, <1>3 DEF AttemptInv
  <1> QED BY <1>6, <1>7, <1>8, <1>9, <1>10, <1>11, <1>12, <1>13 DEF ClientInv

(* ... and every step preserves it. *)
LEMMA NextPreserves ==
  ASSUME ClientInv, [Next]_vars
  PROVE  ClientInv'
  <1>1. CASE UIStep
    <2>1. CASE CallSucceeds  BY <2>1, CallSucceedsPreserves
    <2>2. CASE CallMismatches \/ CallTimesOut
          BY <2>2, FailCallPreserves DEF CallMismatches, CallTimesOut
    <2>3. CASE HandleDone  BY <2>3, HandleDonePreserves
    <2>4. CASE \E k \in Attempts : Deliver(k)  BY <2>4, DeliverPreserves
    <2>5. CASE InitHandled  BY <2>5, InitHandledPreserves
    <2>6. CASE DeactivateCalls  BY <2>6, DeactivateCallsPreserves
    <2>7. CASE CloseClient  BY <2>7, CloseClientPreserves
    <2> QED BY <1>1, <2>1, <2>2, <2>3, <2>4, <2>5, <2>6, <2>7 DEF UIStep
  <1>2. CASE Event  BY <1>2, EventPreserves
  <1>3. CASE OpenClient  BY <1>3, OpenClientPreserves
  <1>4. CASE Deactivate  BY <1>4, DeactivatePreserves
  <1>5. ASSUME NEW k \in Attempts, WorkerRuns(k)
        PROVE  ClientInv'
        BY <1>5, WorkerPreserves DEF WorkerRuns
  <1>6. ASSUME NEW k \in Attempts,
               \/ BackendRuns(k)
               \/ BackendFallsSilent(k) /\ UNCHANGED clientVars
        PROVE  ClientInv'
        BY <1>6, BackendPreserves DEF BackendRuns
  <1>7. CASE UNCHANGED vars
    <2> USE <1>7 DEF vars, connectorVars, clientVars
    <2>1. TypeOK'  BY DEF ClientInv, TypeOK, ConnectorTypeOK
    <2>2. NoStaleCallback'  BY DEF ClientInv, NoStaleCallback
    <2>3. StateMatchesPipe'  BY DEF ClientInv, StateMatchesPipe, Top, Innermost
    <2>4. PipesHeld'  BY DEF ClientInv, PipesHeld
    <2>5. LifeInv'  BY DEF ClientInv, LifeInv
    <2>6. WaitInv'  BY DEF ClientInv, WaitInv, Top, Innermost
    <2>7. NumberInv'  BY DEF ClientInv, NumberInv, Top, Innermost
    <2>8. AttemptInv'  BY DEF ClientInv, AttemptInv
    <2> QED BY <2>1, <2>2, <2>3, <2>4, <2>5, <2>6, <2>7, <2>8 DEF ClientInv
  <1> QED BY <1>1, <1>2, <1>3, <1>4, <1>5, <1>6, <1>7 DEF Next

(* The invariant holds in every reachable state, for any number of         *)
(* attempts, tries, calls, nested handlers and profiles.                   *)
THEOREM ClientInductive == Spec => []ClientInv
  BY InitInvariant, NextPreserves, PTL DEF Spec

(* AsyncConnector.h 40-42: after cancel the callback is never called, and  *)
(* no callback outlives the client that it captures.                       *)
THEOREM CallbackSafety == Spec => []NoStaleCallback
  <1>1. ClientInv => NoStaleCallback  BY DEF ClientInv
  <1> QED BY <1>1, ClientInductive, PTL

(* Every variable of the client and its workers keeps its type. *)
THEOREM ClientTypeCorrect == Spec => []TypeOK
  <1>1. ClientInv => TypeOK  BY DEF ClientInv
  <1> QED BY <1>1, ClientInductive, PTL

(* state_, pipe_ and connector_ of the client agree in every state. *)
THEOREM StateAgrees == Spec => []StateMatchesPipe
  <1>1. ClientInv => StateMatchesPipe  BY DEF ClientInv
  <1> QED BY <1>1, ClientInductive, PTL

(* Every open pipe has somebody who closes it: the client, its connector   *)
(* or the worker that opened it.                                           *)
THEOREM PipesAreHeld == Spec => []PipesHeld
  <1>1. ClientInv => PipesHeld  BY DEF ClientInv
  <1> QED BY <1>1, ClientInductive, PTL
=============================================================================
