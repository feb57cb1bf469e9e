------------------------- MODULE TextServiceProofs -------------------------
(***************************************************************************)
(* Proofs about module TextServiceUI, for any set of texts.                *)
(***************************************************************************)
EXTENDS TextServiceUI, TLAPS

-----------------------------------------------------------------------------
(* The inductive invariant *)

(* The reply to a key may touch everything but the language bar and the    *)
(* keyboard.                                                               *)
KeyFrame(f) ==
  /\ f.session /\ f.at \in Parts
  /\ f.reply.buttons = "none" /\ f.reply.keyboard = "none"
  /\ f.reply.list => f.reply.candidates # "none"
  /\ f.reply.composition = {} \/ \E t \in Strings : f.reply.composition = {t}

(* The reply to a notification has no edit session, and so touches only    *)
(* the language bar and the keyboard; a quiet one touches nothing.         *)
Told(f) ==
  /\ ~f.session /\ f.at \in {"message", "buttons", "keyboard"}
  /\ f.reply.message = "none"

Quiet(f) == Told(f) /\ f.reply.buttons = "none" /\ f.reply.keyboard = "none"

(* The rest of a handler that ends a composition or closes the keyboard.   *)
Remains(f, where) == f.at \in where /\ ~f.session

(* What is still to be done when a composition has ended. *)
Resumes(f) ==
  \/ Remains(f, {"hiding"})
  \/ KeyFrame(f) /\ f.at \in {"composition", "buttons"}

(* The stacks of the UI thread: a reply to a key or to a notification, or  *)
(* the end of a composition on the way through one of them.                *)
Shape(s) ==
  \/ Len(s) = 0
  \/ /\ Len(s) = 1
     /\ \/ KeyFrame(s[1]) \/ Told(s[1])
        \/ Remains(s[1], {"release", "closing", "hiding"})
  \/ /\ Len(s) = 2
     /\ \/ /\ Told(s[1]) /\ s[1].reply.keyboard = "none"
           /\ Remains(s[2], {"closing"})
        \/ Quiet(s[1]) /\ Remains(s[2], {"release"})
        \/ Remains(s[1], {"release"}) /\ Resumes(s[2])
  \/ /\ Len(s) = 3
     /\ Quiet(s[1]) /\ Remains(s[2], {"release"}) /\ Resumes(s[3])

StackInv == Shape(stack)

(* What the UI thread is doing: its outermost frame is the reply to a key, *)
(* or the rest of closing the keyboard, or neither.                        *)
Outermost(s) == s[Len(s)]
Keyed   == stack # <<>> /\ Outermost(stack).session
Closing == stack # <<>> /\ Outermost(stack).at \in {"closing", "hiding"}

(* Without a connection there is no service and no button, and what is on  *)
(* screen is stale.                                                        *)
ConnectionInv ==
  ~ready => /\ svc = NewService /\ ~ui.buttons
            /\ ui.composing \/ ui.showing => stale

(* A service has language buttons as the keyboard is, unless it has        *)
(* refused to hear that it was opened; they are in the language bar, or    *)
(* its reply is about to add or remove them.                               *)
PendingButtons(change) ==
  stack # <<>> /\ stack[1].at \in {"message", "buttons"}
    /\ stack[1].reply.buttons = change

ButtonsInv ==
  /\ ui.bar = IF ui.buttons THEN 1 ELSE 0
  /\ ready => svc.hasLangButtons = (ui.open /\ "opening" \notin unheard)
  /\ PendingButtons("add") => ready /\ ~ui.buttons /\ svc.hasLangButtons
  /\ PendingButtons("remove") => ready /\ ui.buttons /\ ~svc.hasLangButtons
  /\ ready /\ ui.buttons # svc.hasLangButtons =>
       PendingButtons("add") \/ PendingButtons("remove")

(* Only a service with an engine has buttons and candidates, so that one   *)
(* that refuses a call has neither.                                        *)
EngineInv == svc.hasLangButtons \/ svc.showCandidates => svc.engine

WindowInv == ui.window = ui.showing

(* Service and screen agree on the candidates, up to the part of a reply   *)
(* that is about to show or to hide them.                                  *)
PendingCandidates(change) ==
  /\ Keyed /\ Outermost(stack).at \in {"message", "candidates"}
  /\ Outermost(stack).reply.candidates = change

CandidatesInv ==
  /\ PendingCandidates("show") => svc.showCandidates
  /\ PendingCandidates("hide") => ~svc.showCandidates
  /\ svc.showCandidates => ~Closing
  /\ svc.showCandidates => ui.showing \/ PendingCandidates("show")
  /\ ready /\ ui.showing /\ ~svc.showCandidates =>
       stale \/ Closing \/ PendingCandidates("hide")

(* The service's composition is on screen, or about to be, unless the      *)
(* service has refused to hear of its end.                                 *)
PendingComposition ==
  /\ Keyed
  /\ Outermost(stack).at \in {"message", "candidates", "commit", "composition"}
  /\ Outermost(stack).reply.composition # {}

Releasing ==
  \/ stack # <<>> /\ stack[1].at = "release"
  \/ Len(stack) > 1 /\ stack[2].at = "release"

CompositionInv ==
  svc.composition # NoText /\ "end" \notin unheard =>
    /\ ~Releasing
    /\ IF PendingComposition
       THEN Outermost(stack).reply.composition = {svc.composition}
       ELSE ui.composing /\ ui.text = svc.composition

(* A closed keyboard shows nothing, once it has finished closing, but a    *)
(* composition that it had to leave.                                       *)
Blank == (ui.composing => kept) /\ ~ui.showing /\ ~ui.window /\ ~ui.message

ClosedInv ==
  /\ ~ui.open => Blank \/ Closing
  /\ Closing => ~ui.open
  /\ Keyed => ui.open
  /\ stack # <<>> /\ stack[1].at = "hiding" => (ui.composing => kept)

UIInv == /\ TypeOK /\ StackInv /\ ConnectionInv /\ ButtonsInv /\ EngineInv
         /\ WindowInv /\ CandidatesInv /\ CompositionInv /\ ClosedInv

-----------------------------------------------------------------------------
(* Stacks *)

(* A frame is pushed on a stack. *)
LEMMA Push ==
  ASSUME NEW f \in Frames, NEW s \in Seq(Frames)
  PROVE  /\ <<f>> \o s \in Seq(Frames) /\ <<f>> \o s # <<>>
         /\ Len(<<f>> \o s) = Len(s) + 1
         /\ (<<f>> \o s)[1] = f /\ Head(<<f>> \o s) = f
         /\ Len(s) > 0 => (<<f>> \o s)[2] = s[1]
         /\ Len(s) > 1 => (<<f>> \o s)[3] = s[2]
         /\ Outermost(<<f>> \o s) = IF s = <<>> THEN f ELSE Outermost(s)
  BY DEF Outermost

(* The innermost frame is popped. *)
LEMMA Pop ==
  ASSUME NEW s \in Seq(Frames), s # <<>>
  PROVE  /\ Tail(s) \in Seq(Frames) /\ Len(Tail(s)) = Len(s) - 1
         /\ Len(s) \in Nat \ {0} /\ Head(s) = s[1] /\ s[1] \in Frames
         /\ Tail(s) = <<>> <=> Len(s) = 1
         /\ Len(s) > 1 => Tail(s)[1] = s[2]
         /\ Len(s) > 2 => Tail(s)[2] = s[3]
         /\ Outermost(s) = IF Tail(s) = <<>> THEN s[1] ELSE Outermost(Tail(s))
<1>1. /\ Tail(s) \in Seq(Frames) /\ Len(Tail(s)) = Len(s) - 1
      /\ Len(s) \in Nat \ {0} /\ Head(s) = s[1] /\ s[1] \in Frames
  OBVIOUS
<1>2. \A i \in 1 .. Len(s) - 1 : Tail(s)[i] = s[i + 1]
  OBVIOUS
<1>3. Tail(s) = <<>> <=> Len(s) = 1
  <2>1. \A t \in Seq(Frames) : Len(t) = 0 <=> t = <<>>
    OBVIOUS
  <2>2. PICK t \in Seq(Frames) : t = Tail(s)
    BY <1>1
  <2>3. t = <<>> <=> Len(t) = 0
    BY <2>1
  <2>4. Len(t) = Len(s) - 1
    BY <1>1, <2>2
  <2>5. t = <<>> <=> Len(s) = 1
    BY <1>1, <2>3, <2>4
  <2>6. QED BY <2>2, <2>5
<1>4. Outermost(s) = IF Tail(s) = <<>> THEN s[1] ELSE Outermost(Tail(s))
  BY <1>1, <1>2, <1>3 DEF Outermost
<1>5. QED BY <1>1, <1>2, <1>3, <1>4

(* The innermost frame moves to another part of its reply. *)
LEMMA Moved ==
  ASSUME NEW f \in Frames,
         NEW p \in Parts \cup {"release", "closing", "hiding"}
  PROVE  LET g == [f EXCEPT !.at = p] IN
         /\ g \in Frames /\ g.at = p /\ g.session = f.session
         /\ g.reply = f.reply /\ g.ending = f.ending
  BY DEF Frames

(* A reply is a record, and its frame starts with the messages. *)
LEMMA Applied ==
  ASSUME NEW r \in ReplyType, NEW b \in BOOLEAN
  PROVE  /\ Applying(r, b) \in Frames /\ Applying(r, b).at = "message"
         /\ Applying(r, b).session = b /\ Applying(r, b).reply = r
<1>1. Applying(r, b) \in Frames
  BY DEF Applying, Frames, Parts
<1>2. QED BY <1>1 DEF Applying

(* The rest of a handler. *)
LEMMA Rested ==
  ASSUME NEW where \in {"release", "closing", "hiding"}
  PROVE  Rest(where) \in Frames /\ Remains(Rest(where), {where})
<1>1. NoReply \in ReplyType
  BY DEF NoReply, ReplyType
<1>2. QED BY <1>1 DEF Rest, Frames, Remains

(* A reply in which nothing is set. *)
LEMMA Silent ==
  /\ NoReply \in ReplyType
  /\ NoReply.message = "none" /\ NoReply.candidates = "none"
  /\ ~NoReply.list /\ ~NoReply.commit /\ NoReply.composition = {}
  /\ NoReply.buttons = "none" /\ NoReply.keyboard = "none"
<1>1. NoReply \in ReplyType
  BY DEF NoReply, ReplyType
<1>2. QED BY <1>1 DEF NoReply

(* The innermost frame is replaced; the others stay. *)
LEMMA Replaced ==
  ASSUME NEW s \in Seq(Frames), s # <<>>, NEW g \in Frames
  PROVE  LET t == <<g>> \o Tail(s) IN
         /\ t \in Seq(Frames) /\ t # <<>> /\ Len(t) = Len(s) /\ t[1] = g
         /\ Len(s) > 1 => t[2] = s[2]
         /\ Len(s) > 2 => t[3] = s[3]
         /\ Outermost(t) = IF Len(s) = 1 THEN g ELSE Outermost(s)
<1>1. /\ Tail(s) \in Seq(Frames) /\ Len(Tail(s)) = Len(s) - 1
      /\ Len(s) \in Nat \ {0}
      /\ Tail(s) = <<>> <=> Len(s) = 1
      /\ Len(s) > 1 => Tail(s)[1] = s[2]
      /\ Len(s) > 2 => Tail(s)[2] = s[3]
      /\ Outermost(s) = IF Tail(s) = <<>> THEN s[1] ELSE Outermost(Tail(s))
  BY Pop
<1>2. PICK o \in Seq(Frames) : o = Tail(s)
  BY <1>1
<1>3. /\ <<g>> \o o \in Seq(Frames) /\ <<g>> \o o # <<>>
      /\ Len(<<g>> \o o) = Len(o) + 1
      /\ (<<g>> \o o)[1] = g
      /\ Len(o) > 0 => (<<g>> \o o)[2] = o[1]
      /\ Len(o) > 1 => (<<g>> \o o)[3] = o[2]
      /\ Outermost(<<g>> \o o) = IF o = <<>> THEN g ELSE Outermost(o)
  BY Push
<1>4. QED BY <1>1, <1>2, <1>3

-----------------------------------------------------------------------------
(* The screen *)

(* What the operations on the screen do to each part of it. *)
LEMMA Screens ==
  ASSUME NEW u \in UIType, u.bar = IF u.buttons THEN 1 ELSE 0
  PROVE  /\ LET v == Reset(u) IN
            /\ v \in UIType /\ v.bar = 0 /\ ~v.buttons
            /\ v.composing = u.composing /\ v.text = u.text
            /\ v.showing = u.showing /\ v.window = u.window
            /\ v.message = u.message /\ v.open = u.open
         /\ LET v == WithoutCandidates(u) IN
            /\ v \in UIType /\ v.bar = u.bar /\ v.buttons = u.buttons
            /\ v.composing = u.composing /\ v.text = u.text
            /\ ~v.showing /\ ~v.window
            /\ v.message = u.message /\ v.open = u.open
         /\ LET v == WithoutMessage(u) IN
            /\ v \in UIType /\ v.bar = u.bar /\ v.buttons = u.buttons
            /\ v.composing = u.composing /\ v.text = u.text
            /\ v.showing = u.showing /\ v.window = u.window
            /\ ~v.message /\ v.open = u.open
         /\ LET v == Composing(u) IN
            /\ v \in UIType /\ v.bar = u.bar /\ v.buttons = u.buttons
            /\ v.composing /\ v.text = u.text
            /\ v.showing = u.showing /\ v.window = u.window
            /\ v.message = u.message /\ v.open = u.open
<1>1. 1 - 1 \in 0 .. 2 /\ 0 \in 0 .. 2
  OBVIOUS
<1>2. LET v == Reset(u) IN
      /\ v \in UIType /\ v.bar = 0 /\ ~v.buttons
      /\ v.composing = u.composing /\ v.text = u.text
      /\ v.showing = u.showing /\ v.window = u.window
      /\ v.message = u.message /\ v.open = u.open
  <2>1. CASE u.buttons
    <3>1. Reset(u) = [u EXCEPT !.bar = 0, !.buttons = FALSE]
      BY <2>1 DEF UIType, Reset
    <3>2. QED BY <1>1, <3>1 DEF UIType
  <2>2. CASE ~u.buttons
    <3>1. Reset(u) = [u EXCEPT !.bar = 0, !.buttons = FALSE]
      BY <2>2 DEF UIType, Reset
    <3>2. QED BY <1>1, <3>1 DEF UIType
  <2>3. QED BY <2>1, <2>2
<1>3. LET v == WithoutCandidates(u) IN
      /\ v \in UIType /\ v.bar = u.bar /\ v.buttons = u.buttons
      /\ v.composing = u.composing /\ v.text = u.text
      /\ ~v.showing /\ ~v.window
      /\ v.message = u.message /\ v.open = u.open
  BY DEF UIType, WithoutCandidates
<1>4. LET v == WithoutMessage(u) IN
      /\ v \in UIType /\ v.bar = u.bar /\ v.buttons = u.buttons
      /\ v.composing = u.composing /\ v.text = u.text
      /\ v.showing = u.showing /\ v.window = u.window
      /\ ~v.message /\ v.open = u.open
  BY DEF UIType, WithoutMessage
<1>5. LET v == Composing(u) IN
      /\ v \in UIType /\ v.bar = u.bar /\ v.buttons = u.buttons
      /\ v.composing /\ v.text = u.text
      /\ v.showing = u.showing /\ v.window = u.window
      /\ v.message = u.message /\ v.open = u.open
  BY DEF UIType, Composing
<1>6. QED BY <1>2, <1>3, <1>4, <1>5

-----------------------------------------------------------------------------
(* The parts of updateStatus *)

(* The part about the message. *)
LEMMA MessagePreserves == UIInv /\ UpdateMessageWindow => UIInv'
<1> SUFFICES ASSUME UIInv, UpdateMessageWindow PROVE UIInv'
  OBVIOUS
<1> DEFINE f == stack[1]
           p == IF f.session THEN "candidates" ELSE "buttons"
           g == [f EXCEPT !.at = p,
                          !.ending = f.reply.message = "show" /\ ~ui.composing]
           u == CASE f.reply.message = "show" ->
                       [Composing(ui) EXCEPT !.message = TRUE]
                  [] f.reply.message = "hide" -> WithoutMessage(ui)
                  [] OTHER -> ui
<1>1. /\ stack \in Seq(Frames) /\ stack # <<>> /\ Len(stack) \in Nat \ {0}
      /\ f \in Frames /\ f = Head(stack) /\ f.at = "message"
      /\ Len(stack) = 1 => Outermost(stack) = f
      /\ ui \in UIType /\ ui.bar = IF ui.buttons THEN 1 ELSE 0
  BY Pop DEF UIInv, TypeOK, ButtonsInv, UpdateMessageWindow, At, Outermost
<1>2. /\ g \in Frames /\ g.at = p
      /\ g.session = f.session /\ g.reply = f.reply
  BY <1>1 DEF Frames, Parts
<1>3. /\ stack' = <<g>> \o Tail(stack) /\ ui' = u
      /\ UNCHANGED <<alive, ready, svc, unheard>> /\ Remember
  BY <1>1 DEF UpdateMessageWindow, Apply, Frame, Outer
<1> HIDE DEF g
<1>4. /\ stack' \in Seq(Frames) /\ stack' # <<>> /\ Len(stack') = Len(stack)
      /\ stack'[1] = g
      /\ Len(stack) > 1 => stack'[2] = stack[2]
      /\ Len(stack) > 2 => stack'[3] = stack[3]
      /\ Outermost(stack') = IF Len(stack) = 1 THEN g ELSE Outermost(stack)
  BY <1>1, <1>2, <1>3, Replaced
<1>5. /\ ui' \in UIType /\ ui'.bar = ui.bar /\ ui'.buttons = ui.buttons
      /\ ui'.text = ui.text /\ ui'.showing = ui.showing
      /\ ui'.window = ui.window /\ ui'.open = ui.open
      /\ IF f.reply.message = "show" THEN ui'.composing
         ELSE ui'.composing = ui.composing /\ (ui'.message => ui.message)
  <2>1. CASE f.reply.message = "show"
    <3>1. ui' = [Composing(ui) EXCEPT !.message = TRUE]
      BY <1>3, <2>1
    <3>2. QED BY <1>1, <2>1, <3>1 DEF Composing, UIType
  <2>2. CASE f.reply.message = "hide"
    <3>1. ui' = WithoutMessage(ui)
      BY <1>3, <2>2
    <3>2. QED BY <1>1, <2>2, <3>1, Screens
  <2>3. CASE f.reply.message \notin {"show", "hide"}
    BY <1>1, <1>3, <2>3
  <2>4. QED BY <2>1, <2>2, <2>3
<1> HIDE DEF u
<1>6. /\ Keyed' <=> Keyed
      /\ Closing' <=> Closing
      /\ PendingCandidates("show")' <=> PendingCandidates("show")
      /\ PendingCandidates("hide")' <=> PendingCandidates("hide")
      /\ PendingButtons("add")' <=> PendingButtons("add")
      /\ PendingButtons("remove")' <=> PendingButtons("remove")
  BY <1>1, <1>2, <1>3, <1>4, <1>5
  DEF UIInv, Keyed, Closing, PendingCandidates, PendingButtons, StackInv,
      Shape, KeyFrame, Told, Quiet, Remains
<1>7. TypeOK'
  BY <1>1, <1>2, <1>3, <1>4, <1>5, <1>6
  DEF UIInv, TypeOK, Remember
<1>8. StackInv'
  BY <1>1, <1>2, <1>3, <1>4, <1>5, <1>6
  DEF UIInv, StackInv, Shape, KeyFrame, Told, Quiet, Remains, Resumes, Parts
<1>9. ConnectionInv'
  BY <1>1, <1>2, <1>3, <1>4, <1>5, <1>6
  DEF UIInv, ConnectionInv, Remember
<1>10. ButtonsInv'
  BY <1>1, <1>2, <1>3, <1>4, <1>5, <1>6
  DEF UIInv, ButtonsInv
<1>11. EngineInv'
  BY <1>1, <1>2, <1>3, <1>4, <1>5, <1>6
  DEF UIInv, EngineInv
<1>12. WindowInv'
  BY <1>1, <1>2, <1>3, <1>4, <1>5, <1>6
  DEF UIInv, WindowInv, StackInv, Shape, KeyFrame, Told, Quiet, Remains, Resumes
<1>13. CandidatesInv'
  BY <1>1, <1>2, <1>3, <1>4, <1>5, <1>6
  DEF UIInv, CandidatesInv, Remember
<1>14. CompositionInv'
  BY <1>1, <1>2, <1>3, <1>4, <1>5, <1>6
  DEF UIInv, CompositionInv, PendingComposition, Keyed, Releasing, StackInv, Shape,
      KeyFrame, Told, Quiet, Remains, Resumes
<1>15. ClosedInv'
  BY <1>1, <1>2, <1>3, <1>4, <1>5, <1>6
  DEF UIInv, ClosedInv, Blank, Closing, Keyed, StackInv, Shape,
      KeyFrame, Told, Quiet, Remains, Resumes, WindowInv, Remember
<1> QED
  BY <1>7, <1>8, <1>9, <1>10, <1>11, <1>12, <1>13, <1>14, <1>15 DEF UIInv
(* Only the reply to a key gets to the parts with an edit session. *)
LEMMA KeyAtWork ==
  ASSUME UIInv, NEW p \in {"candidates", "commit", "composition"}, At(p)
  PROVE  /\ Len(stack) = 1 /\ Tail(stack) = <<>> /\ KeyFrame(stack[1])
         /\ Outermost(stack) = stack[1] /\ Keyed /\ ~Closing /\ ui.open
         /\ ~PendingButtons("add") /\ ~PendingButtons("remove")
<1>1. /\ stack \in Seq(Frames) /\ stack # <<>> /\ Len(stack) \in Nat \ {0}
      /\ stack[1] = Head(stack) /\ stack[1].at = p
      /\ Tail(stack) = <<>> <=> Len(stack) = 1
      /\ Outermost(stack) = IF Tail(stack) = <<>> THEN stack[1]
                            ELSE Outermost(Tail(stack))
  BY Pop DEF UIInv, TypeOK, At
<1>2. Len(stack) = 1 /\ KeyFrame(stack[1])
  <2>1. Len(stack) # 0
    BY <1>1
  <2>2. ~Told(stack[1]) /\ ~Quiet(stack[1])
    BY <1>1 DEF Told, Quiet
  <2>3. \A where \in SUBSET {"release", "closing", "hiding"} :
          ~Remains(stack[1], where)
    BY <1>1 DEF Remains
  <2>4. QED BY <2>1, <2>2, <2>3 DEF UIInv, StackInv, Shape
<1>3. QED
  BY <1>1, <1>2
  DEF UIInv, ClosedInv, Keyed, Closing, KeyFrame, PendingButtons

(* The part about the candidates. *)
LEMMA CandidatesPreserves == UIInv /\ UpdateCandidateList => UIInv'
<1> SUFFICES ASSUME UIInv, UpdateCandidateList PROVE UIInv'
  OBVIOUS
<1> DEFINE f == stack[1]
           r == f.reply
           g == [f EXCEPT !.at = "commit"]
<1>1. /\ stack \in Seq(Frames) /\ stack # <<>> /\ Len(stack) \in Nat \ {0}
      /\ f \in Frames /\ f = Head(stack) /\ f.at = "candidates"
      /\ Len(stack) = 1 => Outermost(stack) = f
      /\ ui \in UIType /\ ui.bar = IF ui.buttons THEN 1 ELSE 0
  BY Pop DEF UIInv, TypeOK, ButtonsInv, UpdateCandidateList, At, Outermost
<1>2. /\ g \in Frames /\ g.at = "commit"
      /\ g.session = f.session /\ g.reply = f.reply
      /\ r.candidates \in {"none", "show", "hide"}
  BY <1>1, Moved DEF Parts, Frames, ReplyType
<1>3. /\ stack' = <<g>> \o Tail(stack) /\ ui' = Filled(r)
      /\ UNCHANGED <<alive, ready, svc, unheard>> /\ Remember
  BY <1>1 DEF UpdateCandidateList, Apply, Then, Frame, Outer
<1> HIDE DEF g
<1>4. /\ stack' \in Seq(Frames) /\ stack' # <<>> /\ Len(stack') = Len(stack)
      /\ stack'[1] = g
      /\ Len(stack) > 1 => stack'[2] = stack[2]
      /\ Len(stack) > 2 => stack'[3] = stack[3]
      /\ Outermost(stack') = IF Len(stack) = 1 THEN g ELSE Outermost(stack)
  BY <1>1, <1>2, <1>3, Replaced
<1>5. Len(stack) = 1 /\ KeyFrame(f) /\ Keyed /\ ~Closing /\ ui.open
  BY KeyAtWork DEF UpdateCandidateList
<1>6. /\ ui' \in UIType /\ ui'.bar = ui.bar /\ ui'.buttons = ui.buttons
      /\ ui'.text = ui.text /\ ui'.message = ui.message /\ ui'.open = ui.open
      /\ ui'.window = ui'.showing
      /\ ui.composing => ui'.composing
      /\ r.candidates = "show" => ui'.showing /\ ui'.composing
      /\ r.candidates = "hide" => ~ui'.showing /\ ui'.composing = ui.composing
      /\ r.candidates = "none" => ui' = ui
  <2>1. CASE r.candidates = "show"
    <3>1. ui' = [[Composing(ui) EXCEPT !.showing = TRUE, !.window = TRUE]
                   EXCEPT !.window = @ \/ r.list]
      BY <1>3, <2>1 DEF Filled, ShownCandidates
    <3>2. QED BY <1>1, <2>1, <3>1 DEF Composing, UIType
  <2>2. CASE r.candidates = "hide"
    <3>1. ui' = WithoutCandidates(ui)
      BY <1>3, <2>2 DEF Filled
    <3>2. ~ui'.window /\ ~ui'.showing /\ ui' \in UIType
      BY <1>1, <3>1, Screens
    <3>3. ui'.window = ui'.showing
      BY <3>2 DEF UIType
    <3>4. QED BY <1>1, <2>2, <3>1, <3>2, <3>3, Screens
  <2>3. CASE r.candidates = "none"
    <3>1. ~r.list /\ r \in ReplyType /\ ui.window = ui.showing
      BY <1>1, <1>5, <2>3 DEF KeyFrame, Frames, ReplyType, UIInv, WindowInv
    <3>2. ui' = [ui EXCEPT !.window = @ \/ r.list]
      BY <1>3, <2>3 DEF Filled, ShownCandidates
    <3>3. ui' = ui
      BY <1>1, <3>1, <3>2 DEF UIType, ReplyType
    <3>4. QED BY <1>1, <2>3, <3>1, <3>3
  <2>4. QED
    BY <1>1, <2>1, <2>2, <2>3 DEF Frames, ReplyType
<1>7. /\ Keyed' /\ ~Closing'
      /\ ~PendingCandidates("show")' /\ ~PendingCandidates("hide")'
      /\ PendingCandidates("show") <=> r.candidates = "show"
      /\ PendingCandidates("hide") <=> r.candidates = "hide"
  BY <1>1, <1>2, <1>3, <1>4, <1>5, <1>6
  DEF Keyed, Closing, PendingCandidates, KeyFrame
<1>8. TypeOK'
  BY <1>1, <1>2, <1>3, <1>4, <1>5, <1>6, <1>7
  DEF UIInv, TypeOK, Remember
<1>9. StackInv'
  BY <1>1, <1>2, <1>3, <1>4, <1>5, <1>6, <1>7
  DEF UIInv, StackInv, Shape, KeyFrame, Parts
<1>10. ConnectionInv'
  BY <1>1, <1>2, <1>3, <1>4, <1>5, <1>6, <1>7
  DEF UIInv, ConnectionInv, Remember
<1>11. ButtonsInv'
  BY <1>1, <1>2, <1>3, <1>4, <1>5, <1>6, <1>7
  DEF UIInv, ButtonsInv, PendingButtons, StackInv, KeyFrame, Told, Quiet, Remains, Resumes, Parts
<1>12. EngineInv'
  BY <1>1, <1>2, <1>3, <1>4, <1>5, <1>6, <1>7
  DEF UIInv, EngineInv
<1>13. WindowInv'
  BY <1>1, <1>2, <1>3, <1>4, <1>5, <1>6, <1>7
  DEF UIInv, WindowInv, StackInv, Shape, KeyFrame, Told, Quiet, Remains, Resumes
<1>14. CandidatesInv'
  BY <1>1, <1>2, <1>3, <1>4, <1>5, <1>6, <1>7
  DEF UIInv, CandidatesInv, Remember
<1>15. CompositionInv'
  BY <1>1, <1>2, <1>3, <1>4, <1>5, <1>6, <1>7
  DEF UIInv, CompositionInv, PendingComposition, Keyed, Releasing, StackInv, Shape,
      KeyFrame, Told, Quiet, Remains, Resumes
<1>16. ClosedInv'
  BY <1>1, <1>2, <1>3, <1>4, <1>5, <1>6, <1>7
  DEF UIInv, ClosedInv, Blank, WindowInv
<1> QED
  BY <1>8, <1>9, <1>10, <1>11, <1>12, <1>13, <1>14, <1>15, <1>16 DEF UIInv
-----------------------------------------------------------------------------
(* Ending a composition *)

(* What checkConfigChange leaves alone. *)
LEMMA Checks ==
  ASSUME svc \in ServiceType, NEW s \in Checked
  PROVE  /\ s \in ServiceType /\ s.composition = svc.composition
         /\ s.showCandidates = svc.showCandidates
         /\ s.hasLangButtons = svc.hasLangButtons
         /\ svc.engine => s.engine
  BY DEF Checked, ServiceType

(* Telling the service that a composition ends: what it answers changes    *)
(* nothing on screen, and it has forgotten its strings.                    *)
LEMMA EndHeard ==
  ASSUME svc \in ServiceType, NEW o \in CompositionTerminated(FALSE)
  PROVE  /\ o.svc \in ServiceType /\ o.svc.composition = NoText
         /\ o.svc.showCandidates = svc.showCandidates
         /\ o.svc.hasLangButtons = svc.hasLangButtons
         /\ svc.engine => o.svc.engine
         /\ o.reply = NoReply
<1>1. PICK s \in Checked : o = Terminated(s, FALSE)
  BY DEF CompositionTerminated
<1>2. /\ s \in ServiceType
      /\ s.showCandidates = svc.showCandidates
      /\ s.hasLangButtons = svc.hasLangButtons
      /\ svc.engine => s.engine
  BY Checks
<1>3. o = [svc |-> [s EXCEPT !.composition = NoText,
                             !.showCandidates = @ /\ ~FALSE],
           reply |-> [NoReply EXCEPT !.candidates = "none"]]
  BY <1>1 DEF Terminated, Outcome
<1>4. [NoReply EXCEPT !.candidates = "none"] = NoReply
  BY Silent DEF ReplyType
<1>5. LET v == [s EXCEPT !.composition = NoText,
                         !.showCandidates = @ /\ ~FALSE] IN
      /\ v \in ServiceType /\ v.composition = NoText
      /\ v.showCandidates = s.showCandidates
      /\ v.hasLangButtons = s.hasLangButtons /\ v.engine = s.engine
  BY <1>2 DEF ServiceType, Strings
<1>6. QED BY <1>2, <1>3, <1>4, <1>5

(* The ways in which endComposition leaves the UI thread: the service has  *)
(* been told and its reply is next; it has refused to be told; it could    *)
(* not be told; or there was no composition to end.                        *)
ServiceTold(u, b) ==
  /\ u.composing /\ ready /\ ready' = ready /\ ui' = u
  /\ svc' \in ServiceType /\ svc'.composition = NoText
  /\ svc'.showCandidates = svc.showCandidates
  /\ svc'.hasLangButtons = svc.hasLangButtons
  /\ svc.engine => svc'.engine
  /\ unheard' = unheard \ {"end"}
  /\ Len(stack') = 3 /\ stack'[3] = b
  /\ Remains(stack'[2], {"release"}) /\ Quiet(stack'[1])
  /\ stack'[1].at = "message"

ServiceRefuses(u, b) ==
  /\ u.composing /\ ready /\ ready' = ready /\ svc' = svc /\ ui' = u
  /\ unheard' = unheard \cup {"end"}
  /\ Len(stack') = 2 /\ stack'[2] = b
  /\ Remains(stack'[1], {"release"})

ServiceLost(u, b) ==
  /\ u.composing /\ ready' = FALSE
  /\ \/ ~ready /\ svc' = svc /\ ui' = u /\ unheard' = unheard
     \/ ready /\ svc' = NewService /\ ui' = Reset(u) /\ unheard' = {}
  /\ Len(stack') = 2 /\ stack'[2] = b
  /\ Remains(stack'[1], {"release"})

NothingEnded(u, b) ==
  /\ ~u.composing /\ ui' = u /\ UNCHANGED <<ready, svc, unheard>>
  /\ Len(stack') = 1 /\ stack'[1] = b

LEMMA Ended ==
  ASSUME svc \in ServiceType, ready \in BOOLEAN,
         NEW u \in UIType, NEW below \in Seq(Frames),
         Len(below) = 1, EndComposition(u, below)
  PROVE  /\ Remember /\ alive' = alive /\ stack' \in Seq(Frames)
         /\ stack' # <<>> /\ Outermost(stack') = below[1]
         /\ \/ ServiceTold(u, below[1]) \/ ServiceRefuses(u, below[1])
            \/ ServiceLost(u, below[1]) \/ NothingEnded(u, below[1])
<1>1. /\ NoReply \in ReplyType
      /\ Applying(NoReply, FALSE) \in Frames
      /\ Quiet(Applying(NoReply, FALSE))
      /\ Applying(NoReply, FALSE).at = "message"
      /\ Rest("release") \in Frames /\ Remains(Rest("release"), {"release"})
  <2>1. /\ NoReply \in ReplyType
        /\ Applying(NoReply, FALSE) \in Frames
        /\ Applying(NoReply, FALSE).at = "message"
        /\ Applying(NoReply, FALSE).session = FALSE
        /\ Applying(NoReply, FALSE).reply = NoReply
    BY Applied, Silent
  <2>2. QED BY <2>1, Rested, Silent DEF Quiet, Told
<1>2. PICK q \in Frames : q = Applying(NoReply, FALSE)
  BY <1>1
<1>3. PICK e \in Frames : e = Rest("release")
  BY <1>1
<1>4. below # <<>> /\ Outermost(below) = below[1]
  <2>1. \A t \in Seq(Frames) : t = <<>> => Len(t) = 0
    OBVIOUS
  <2>2. QED BY <2>1 DEF Outermost
<1>5. /\ <<e>> \o below \in Seq(Frames) /\ <<e>> \o below # <<>>
      /\ Len(<<e>> \o below) = 2
      /\ (<<e>> \o below)[1] = e /\ (<<e>> \o below)[2] = below[1]
      /\ Outermost(<<e>> \o below) = below[1]
  BY <1>4, Push
<1>6. PICK rest \in Seq(Frames) : rest = <<e>> \o below
  BY <1>5
<1>7. /\ <<q>> \o rest \in Seq(Frames) /\ <<q>> \o rest # <<>>
      /\ Len(<<q>> \o rest) = 3 /\ (<<q>> \o rest)[1] = q
      /\ (<<q>> \o rest)[2] = e /\ (<<q>> \o rest)[3] = below[1]
      /\ Outermost(<<q>> \o rest) = below[1]
  <2>1. /\ <<q>> \o rest \in Seq(Frames) /\ <<q>> \o rest # <<>>
        /\ Len(<<q>> \o rest) = Len(rest) + 1 /\ (<<q>> \o rest)[1] = q
        /\ Len(rest) > 0 => (<<q>> \o rest)[2] = rest[1]
        /\ Len(rest) > 1 => (<<q>> \o rest)[3] = rest[2]
        /\ Outermost(<<q>> \o rest) =
             IF rest = <<>> THEN q ELSE Outermost(rest)
    BY Push
  <2>2. Len(rest) = 2 /\ rest # <<>> /\ rest[1] = e /\ rest[2] = below[1]
        /\ Outermost(rest) = below[1]
    BY <1>5, <1>6
  <2>3. QED BY <2>1, <2>2
<1>8. CASE ~u.composing
  BY <1>4, <1>8 DEF EndComposition, Apply, NothingEnded
<1>9. CASE u.composing
  <2>1. Call(CompositionTerminated(FALSE), {"end"}, FALSE, u, rest)
    BY <1>3, <1>6, <1>9 DEF EndComposition
  <2>2. Remember /\ alive' = alive
    BY <2>1 DEF Call
  <2>3. \/ Answered(CompositionTerminated(FALSE), {"end"}, FALSE, u, rest)
        \/ Refused({"end"}, u, rest) \/ Lost(u, rest)
        \/ NotConnected(u, rest)
    BY <2>1 DEF Call
  <2>4. CASE Answered(CompositionTerminated(FALSE), {"end"}, FALSE, u, rest)
    <3>1. PICK o \in CompositionTerminated(FALSE) :
                  /\ svc' = o.svc
                  /\ stack' = <<Applying(o.reply, FALSE)>> \o rest
      BY <2>4 DEF Answered
    <3>2. /\ o.svc \in ServiceType /\ o.svc.composition = NoText
          /\ o.svc.showCandidates = svc.showCandidates
          /\ o.svc.hasLangButtons = svc.hasLangButtons
          /\ svc.engine => o.svc.engine
          /\ o.reply = NoReply
      BY EndHeard
    <3>3. stack' = <<q>> \o rest
      BY <1>2, <3>1, <3>2
    <3>4. ready /\ ready' = ready /\ ui' = u /\ unheard' = unheard \ {"end"}
      BY <2>4 DEF Answered
    <3>5. ServiceTold(u, below[1])
      BY <1>1, <1>2, <1>3, <1>7, <1>9, <3>1, <3>2, <3>3, <3>4
      DEF ServiceTold
    <3>6. QED BY <1>7, <2>2, <3>3, <3>5
  <2>5. CASE Refused({"end"}, u, rest)
    <3>1. ServiceRefuses(u, below[1]) /\ stack' = rest
      BY <1>1, <1>3, <1>5, <1>6, <1>9, <2>5 DEF Refused, ServiceRefuses
    <3>2. QED BY <1>5, <1>6, <2>2, <3>1
  <2>6. CASE Lost(u, rest)
    <3>1. ServiceLost(u, below[1]) /\ stack' = rest
      BY <1>1, <1>3, <1>5, <1>6, <1>9, <2>6 DEF Lost, ServiceLost
    <3>2. QED BY <1>5, <1>6, <2>2, <3>1
  <2>7. CASE NotConnected(u, rest)
    <3>1. ServiceLost(u, below[1]) /\ stack' = rest
      BY <1>1, <1>3, <1>5, <1>6, <1>9, <2>7 DEF NotConnected, ServiceLost
    <3>2. QED BY <1>5, <1>6, <2>2, <3>1
  <2>8. QED BY <2>3, <2>4, <2>5, <2>6, <2>7
<1>10. QED BY <1>8, <1>9

(* Ending a composition keeps the invariant when the screen it is given    *)
(* agrees with the service as it does between two parts of a reply.        *)
LEMMA EndPreserves ==
  ASSUME TypeOK, ConnectionInv, EngineInv,
         NEW u \in UIType, NEW below \in Seq(Frames),
         EndComposition(u, below),
         Len(below) = 1, Resumes(below[1]),
         below[1].at = "hiding" <=> ~u.open,
         u.bar = IF u.buttons THEN 1 ELSE 0,
         u.window = u.showing, u.open = ui.open, u.buttons = ui.buttons,
         ready =>
           /\ svc.hasLangButtons = (u.open /\ "opening" \notin unheard)
           /\ u.buttons = svc.hasLangButtons,
         svc.showCandidates => u.showing /\ u.open,
         ready /\ u.showing /\ ~svc.showCandidates => stale \/ ~u.open,
         svc.composition # NoText /\ "end" \notin unheard => u.composing
  PROVE  UIInv'
<1>1. /\ svc \in ServiceType /\ NewService \in ServiceType
      /\ ready \in BOOLEAN /\ stale \in BOOLEAN
      /\ u.composing \in BOOLEAN /\ u.showing \in BOOLEAN
      /\ u.open \in BOOLEAN /\ u.buttons \in BOOLEAN
      /\ unheard \subseteq News
  BY DEF TypeOK, NewService, ServiceType, Strings, UIType
<1>2. LET v == Reset(u) IN
      /\ v \in UIType /\ v.bar = 0 /\ ~v.buttons
      /\ v.composing = u.composing /\ v.text = u.text
      /\ v.showing = u.showing /\ v.window = u.window
      /\ v.message = u.message /\ v.open = u.open
  BY Screens
<1>3. /\ NewService.composition = NoText /\ ~NewService.showCandidates
      /\ ~NewService.hasLangButtons /\ ~NewService.engine
  BY DEF NewService
<1>4. PICK b : b = below[1]
  OBVIOUS
<1>5. /\ Resumes(b)
      /\ b.at = "hiding" <=> ~u.open
  BY <1>4
<1>6. /\ stale' = ((stale \/ ~ready') /\ (ui'.composing \/ ui'.showing))
      /\ kept' \in BOOLEAN
      /\ alive' = alive /\ stack' \in Seq(Frames)
      /\ stack' # <<>> /\ Outermost(stack') = b
      /\ \/ ServiceTold(u, b) \/ ServiceRefuses(u, b)
         \/ ServiceLost(u, b) \/ NothingEnded(u, b)
  BY <1>1, <1>4, Ended DEF Remember
<1>7. /\ Closing' <=> ~u.open
      /\ Keyed' => u.open
      /\ ~PendingCandidates("show")' /\ ~PendingCandidates("hide")'
  BY <1>5, <1>6
  DEF Closing, Keyed, PendingCandidates, Resumes, Remains, KeyFrame
<1>8. /\ ui' \in UIType /\ svc' \in ServiceType /\ ready' \in BOOLEAN
      /\ svc'.composition = NoText \/ "end" \in unheard'
      /\ unheard' \subseteq News
      /\ ui'.composing = u.composing /\ ui'.text = u.text
      /\ ui'.showing = u.showing /\ ui'.window = u.window
      /\ ui'.message = u.message /\ ui'.open = u.open
      /\ ui'.bar = IF ui'.buttons THEN 1 ELSE 0
      /\ ready' => /\ ready /\ ui'.buttons = u.buttons
                   /\ svc'.showCandidates = svc.showCandidates
                   /\ svc'.hasLangButtons = svc.hasLangButtons
                   /\ svc.engine => svc'.engine
                   /\ "opening" \in unheard' <=> "opening" \in unheard
      /\ ~ready' => svc' = NewService /\ ~ui'.buttons
  <2>1. CASE ServiceTold(u, b)
    BY <1>1, <1>3, <2>1 DEF ServiceTold
  <2>2. CASE ServiceRefuses(u, b)
    BY <1>1, <1>3, <2>2 DEF ServiceRefuses, News
  <2>3. CASE ServiceLost(u, b)
    BY <1>1, <1>2, <1>3, <2>3 DEF ServiceLost, ConnectionInv
  <2>4. CASE NothingEnded(u, b)
    BY <1>1, <1>3, <2>4 DEF NothingEnded, ConnectionInv
  <2>5. QED BY <1>6, <2>1, <2>2, <2>3, <2>4
<1>9. /\ Shape(stack')
      /\ stack'[1].at \in {"message", "buttons"} =>
           stack'[1].reply.buttons = "none"
      /\ stack'[1].at = "hiding" => ~u.composing
  <2>1. CASE ServiceTold(u, b)
    BY <1>5, <2>1 DEF ServiceTold, Shape, Quiet
  <2>2. CASE ServiceRefuses(u, b)
    BY <1>5, <2>2 DEF ServiceRefuses, Shape, Remains
  <2>3. CASE ServiceLost(u, b)
    BY <1>5, <2>3 DEF ServiceLost, Shape, Remains
  <2>4. CASE NothingEnded(u, b)
    BY <1>5, <2>4
    DEF NothingEnded, Shape, Resumes, Remains, KeyFrame
  <2>5. QED BY <1>6, <2>1, <2>2, <2>3, <2>4
<1>10. TypeOK'
  BY <1>1, <1>6, <1>8 DEF TypeOK, UIType
<1>11. StackInv'
  BY <1>9 DEF StackInv
<1>12. ConnectionInv'
  BY <1>1, <1>6, <1>8 DEF ConnectionInv
<1>13. ButtonsInv'
  BY <1>8, <1>9 DEF ButtonsInv, PendingButtons
<1>14. EngineInv'
  BY <1>3, <1>8 DEF EngineInv
<1>15. WindowInv'
  BY <1>8 DEF WindowInv
<1>16. CandidatesInv'
  BY <1>1, <1>3, <1>6, <1>7, <1>8 DEF CandidatesInv
<1>17. CompositionInv'
  BY <1>8 DEF CompositionInv
<1>18. ClosedInv'
  BY <1>1, <1>7, <1>8, <1>9 DEF ClosedInv
<1> QED
  BY <1>10, <1>11, <1>12, <1>13, <1>14, <1>15, <1>16, <1>17, <1>18 DEF UIInv

(* Where a handler ends a composition of its own accord: nothing is        *)
(* pending but the reply's own strings.                                    *)
LEMMA Settled ==
  ASSUME UIInv, NEW p \in {"commit", "composition", "closing"}, At(p)
  PROVE  /\ Len(stack) = 1 /\ Tail(stack) = <<>> /\ stack \in Seq(Frames)
         /\ stack[1] \in Frames /\ Head(stack) = stack[1] /\ stack[1].at = p
         /\ Outermost(stack) = stack[1]
         /\ IF p = "closing" THEN ~stack[1].session /\ Closing /\ ~Keyed
            ELSE KeyFrame(stack[1]) /\ ~Closing /\ Keyed
         /\ ui.open <=> p # "closing"
         /\ ui \in UIType /\ ui.bar = IF ui.buttons THEN 1 ELSE 0
         /\ ui.window = ui.showing
         /\ ready =>
              /\ svc.hasLangButtons = (ui.open /\ "opening" \notin unheard)
              /\ ui.buttons = svc.hasLangButtons
         /\ svc.showCandidates => ui.showing /\ ui.open
         /\ ready /\ ui.showing /\ ~svc.showCandidates => stale \/ ~ui.open
         /\ ~PendingButtons("add") /\ ~PendingButtons("remove")
         /\ ~PendingCandidates("show") /\ ~PendingCandidates("hide")
<1>1. /\ stack \in Seq(Frames) /\ stack # <<>> /\ Len(stack) \in Nat \ {0}
      /\ stack[1] = Head(stack) /\ stack[1].at = p /\ stack[1] \in Frames
      /\ Tail(stack) = <<>> <=> Len(stack) = 1
      /\ Outermost(stack) = IF Tail(stack) = <<>> THEN stack[1]
                            ELSE Outermost(Tail(stack))
  BY Pop DEF UIInv, TypeOK, At
<1>2. /\ Len(stack) = 1
      /\ IF p = "closing" THEN ~stack[1].session ELSE KeyFrame(stack[1])
  <2>1. Len(stack) # 0
    BY <1>1
  <2>2. ~Told(stack[1]) /\ ~Quiet(stack[1])
    BY <1>1 DEF Told, Quiet
  <2>3. /\ ~Remains(stack[1], {"release"})
        /\ Remains(stack[1], {"release", "closing", "hiding"}) =>
             p = "closing" /\ ~stack[1].session
    BY <1>1 DEF Remains
  <2>4. KeyFrame(stack[1]) => p # "closing"
    BY <1>1 DEF KeyFrame, Parts
  <2>5. QED BY <2>1, <2>2, <2>3, <2>4 DEF UIInv, StackInv, Shape
<1>3. IF p = "closing" THEN Closing /\ ~Keyed ELSE ~Closing /\ Keyed
  BY <1>1, <1>2 DEF Closing, Keyed, KeyFrame, Parts
<1>4. ui.open <=> p # "closing"
  BY <1>3 DEF UIInv, ClosedInv
<1>5. /\ ~PendingButtons("add") /\ ~PendingButtons("remove")
      /\ ~PendingCandidates("show") /\ ~PendingCandidates("hide")
  BY <1>1, <1>2 DEF PendingButtons, PendingCandidates
<1>6. /\ ui \in UIType /\ ui.open \in BOOLEAN /\ ui.buttons \in BOOLEAN
      /\ svc.hasLangButtons \in BOOLEAN
  BY DEF UIInv, TypeOK, UIType, ServiceType
<1>7. /\ ui.bar = IF ui.buttons THEN 1 ELSE 0
      /\ ui.window = ui.showing
      /\ ready =>
           /\ svc.hasLangButtons = (ui.open /\ "opening" \notin unheard)
           /\ ui.buttons = svc.hasLangButtons
  BY <1>5, <1>6 DEF UIInv, ButtonsInv, WindowInv
<1>8. /\ svc.showCandidates => ui.showing /\ ui.open
      /\ ready /\ ui.showing /\ ~svc.showCandidates => stale \/ ~ui.open
  BY <1>3, <1>4, <1>5 DEF UIInv, CandidatesInv
<1>9. QED BY <1>1, <1>2, <1>3, <1>4, <1>5, <1>6, <1>7, <1>8

(* A frame that is pushed on the empty stack is the only one. *)
LEMMA Alone ==
  ASSUME NEW f \in Frames, NEW s, s = <<>>
  PROVE  /\ <<f>> \o s \in Seq(Frames) /\ <<f>> \o s # <<>>
         /\ Len(<<f>> \o s) = 1 /\ (<<f>> \o s)[1] = f
         /\ Outermost(<<f>> \o s) = f
<1>1. <<>> \in Seq(Frames)
  OBVIOUS
<1>2. \A t \in Seq(Frames) : t = <<>> => Len(t) = 0
  OBVIOUS
<1>3. s \in Seq(Frames) /\ Len(s) = 0
  BY <1>1, <1>2
<1>4. /\ <<f>> \o s \in Seq(Frames) /\ <<f>> \o s # <<>>
      /\ Len(<<f>> \o s) = Len(s) + 1 /\ (<<f>> \o s)[1] = f
      /\ Outermost(<<f>> \o s) = f
  BY <1>3, Push
<1>5. QED BY <1>3, <1>4

(* The reply to a key moves on past its commit string or its composition   *)
(* without ending a composition.                                           *)
LEMMA Kept ==
  ASSUME UIInv, NEW p \in {"commit", "composition"}, At(p),
         NEW f \in Frames, f = stack[1], KeyFrame(f),
         NEW g \in Frames, KeyFrame(g), g.reply = f.reply,
         g.at = IF p = "commit" THEN "composition" ELSE "buttons",
         stack' \in Seq(Frames), stack' # <<>>, Len(stack') = 1,
         stack'[1] = g, Outermost(stack') = g,
         ui' \in UIType, ui'.bar = ui.bar, ui'.buttons = ui.buttons,
         ui'.showing = ui.showing, ui'.window = ui.window,
         ui'.open = ui.open, UNCHANGED <<alive, ready, svc, unheard>>,
         Remember,
         svc.composition # NoText /\ "end" \notin unheard =>
           \/ p = "commit" /\ f.reply.composition # {}
           \/ ui'.composing /\ ui'.text = svc.composition
  PROVE  UIInv'
<1>1. /\ stale' = ((stale \/ ~ready) /\ (ui'.composing \/ ui.showing))
      /\ kept' \in BOOLEAN
      /\ ready' = ready /\ svc' = svc /\ alive' = alive
      /\ unheard' = unheard
      /\ ready \in BOOLEAN /\ stale \in BOOLEAN /\ svc \in ServiceType
      /\ ui.composing \in BOOLEAN /\ ui'.composing \in BOOLEAN
      /\ ui.showing \in BOOLEAN /\ ui.buttons \in BOOLEAN
      /\ alive \in BOOLEAN
  BY DEF Remember, UIInv, TypeOK, UIType
<1>2. /\ ui.open /\ ui.bar = IF ui.buttons THEN 1 ELSE 0
      /\ ui.window = ui.showing
      /\ ready =>
           /\ svc.hasLangButtons = (ui.open /\ "opening" \notin unheard)
           /\ ui.buttons = svc.hasLangButtons
      /\ svc.showCandidates => ui.showing
      /\ ready /\ ui.showing /\ ~svc.showCandidates => stale
      /\ Outermost(stack) = f /\ Keyed /\ f.at = p
      /\ ~PendingButtons("add") /\ ~PendingButtons("remove")
  BY Settled
<1>3. /\ ~Closing' /\ ~Releasing' /\ stack'[1].at # "hiding"
      /\ ~PendingCandidates("show")' /\ ~PendingCandidates("hide")'
      /\ ~PendingButtons("add")' /\ ~PendingButtons("remove")'
      /\ PendingComposition' <=> p = "commit" /\ f.reply.composition # {}
  BY DEF Closing, Releasing, PendingCandidates, PendingButtons, KeyFrame,
         PendingComposition, Keyed
<1>4. PendingComposition <=> f.reply.composition # {}
  BY <1>2 DEF PendingComposition
<1>5. TypeOK' /\ WindowInv' /\ EngineInv'
  BY <1>1, <1>2 DEF TypeOK, UIInv, WindowInv, EngineInv
<1>6. StackInv'
  BY DEF StackInv, Shape
<1>7. ConnectionInv'
  BY <1>1, <1>2 DEF UIInv, ConnectionInv
<1>8. ButtonsInv'
  <2>1. ui'.bar = IF ui'.buttons THEN 1 ELSE 0
    BY <1>2
  <2>2. CASE ready
    BY <1>1, <1>2, <1>3, <2>1, <2>2 DEF ButtonsInv
  <2>3. CASE ~ready
    <3>1. ~ready'
      BY <1>1, <2>3
    <3>2. QED BY <1>3, <2>1, <3>1 DEF ButtonsInv
  <2>4. QED BY <2>2, <2>3
<1>9. CandidatesInv'
  BY <1>1, <1>2, <1>3 DEF CandidatesInv
<1>10. CompositionInv'
  BY <1>1, <1>2, <1>3, <1>4 DEF UIInv, CompositionInv
<1>11. ClosedInv'
  BY <1>1, <1>2, <1>3 DEF ClosedInv, Blank
<1> QED
  BY <1>5, <1>6, <1>7, <1>8, <1>9, <1>10, <1>11 DEF UIInv

(* The part about the commit string. *)
LEMMA CommitPreserves == UIInv /\ UpdateCommitString => UIInv'
<1> SUFFICES ASSUME UIInv, UpdateCommitString PROVE UIInv'
  OBVIOUS
<1>1. At("commit")
  BY DEF UpdateCommitString
<1>2. PICK f \in Frames : f = stack[1]
  BY <1>1, Settled
<1>3. PICK g \in Frames : g = [f EXCEPT !.at = "composition"]
  BY Moved DEF Parts
<1>4. /\ g.at = "composition" /\ g.session = f.session /\ g.reply = f.reply
  BY <1>3, Moved DEF Parts
<1>5. PICK below : below = Then("composition")
  OBVIOUS
<1>6. /\ below \in Seq(Frames) /\ below # <<>> /\ Len(below) = 1
      /\ below[1] = g /\ Outermost(below) = g
  <2>1. /\ stack \in Seq(Frames) /\ Len(stack) = 1 /\ Tail(stack) = <<>>
        /\ Head(stack) = f
    BY <1>1, <1>2, Settled
  <2>2. below = <<g>> \o Tail(stack)
    BY <1>3, <1>5, <2>1 DEF Then, Frame, Outer
  <2>3. QED BY <2>1, <2>2, Alone
<1>7. KeyFrame(g) /\ KeyFrame(f)
  BY <1>1, <1>2, <1>4, Settled DEF KeyFrame, Parts
<1>8. CASE f.reply.commit
  <2>1. PICK u : u = Composing(ui)
    OBVIOUS
  <2>2. EndComposition(u, below)
    BY <1>1, <1>2, <1>5, <1>8, <2>1, Settled DEF UpdateCommitString, Frame
  <2>3. /\ u \in UIType /\ u.bar = ui.bar /\ u.buttons = ui.buttons
        /\ u.composing /\ u.showing = ui.showing /\ u.window = ui.window
        /\ u.open = ui.open
    BY <1>1, <2>1, Settled, Screens
  <2>4. Resumes(below[1]) /\ below[1].at # "hiding" /\ u.open
    BY <1>1, <1>4, <1>6, <1>7, <2>3, Settled DEF Resumes
  <2>5. /\ u.bar = IF u.buttons THEN 1 ELSE 0
        /\ u.window = u.showing
        /\ ready =>
             /\ svc.hasLangButtons = (u.open /\ "opening" \notin unheard)
             /\ u.buttons = svc.hasLangButtons
        /\ svc.showCandidates => u.showing /\ u.open
        /\ ready /\ u.showing /\ ~svc.showCandidates => stale \/ ~u.open
    BY <1>1, <2>3, Settled
  <2>6. QED
    BY <1>6, <2>2, <2>3, <2>4, <2>5, EndPreserves DEF UIInv
<1>9. CASE ~f.reply.commit
  <2>1. /\ ui' = ui /\ stack' = below
        /\ UNCHANGED <<alive, ready, svc, unheard>> /\ Remember
    BY <1>1, <1>2, <1>5, <1>9, Settled DEF UpdateCommitString, Frame, Apply
  <2>2. PendingComposition <=> f.reply.composition # {}
    BY <1>1, <1>2, Settled DEF PendingComposition
  <2>3. svc.composition # NoText /\ "end" \notin unheard =>
          \/ f.reply.composition # {}
          \/ ui.composing /\ ui.text = svc.composition
    BY <2>2 DEF UIInv, CompositionInv
  <2>4. ui' \in UIType
    BY <2>1 DEF UIInv, TypeOK
  <2>5. QED BY <1>1, <1>2, <1>4, <1>6, <1>7, <2>1, <2>3, <2>4, Kept
<1>10. QED BY <1>8, <1>9

(* The part about the composition. *)
LEMMA CompositionPreserves == UIInv /\ UpdateComposition => UIInv'
<1> SUFFICES ASSUME UIInv, UpdateComposition PROVE UIInv'
  OBVIOUS
<1>1. At("composition")
  BY DEF UpdateComposition
<1>2. PICK f \in Frames : f = stack[1]
  BY <1>1, Settled
<1>3. PICK g \in Frames : g = [f EXCEPT !.at = "buttons"]
  BY Moved DEF Parts
<1>4. /\ g.at = "buttons" /\ g.session = f.session /\ g.reply = f.reply
  BY <1>3, Moved DEF Parts
<1>5. PICK below : below = Then("buttons")
  OBVIOUS
<1>6. /\ below \in Seq(Frames) /\ below # <<>> /\ Len(below) = 1
      /\ below[1] = g /\ Outermost(below) = g
  <2>1. /\ stack \in Seq(Frames) /\ Len(stack) = 1 /\ Tail(stack) = <<>>
        /\ Head(stack) = f
    BY <1>1, <1>2, Settled
  <2>2. below = <<g>> \o Tail(stack)
    BY <1>3, <1>5, <2>1 DEF Then, Frame, Outer
  <2>3. QED BY <2>1, <2>2, Alone
<1>7. KeyFrame(g) /\ KeyFrame(f)
  BY <1>1, <1>2, <1>4, Settled DEF KeyFrame, Parts
<1> DEFINE r == f.reply
           empties == r.composition = {NoText} /\ ui.composing /\ ~ui.showing
           typed == \E t \in Texts : r.composition = {t}
           moved == r.cursor /\ r.composition # {NoText}
           v == [ui EXCEPT
                   !.composing = @ \/ typed \/ moved,
                   !.text = IF typed THEN CHOOSE t \in Texts :
                                            r.composition = {t}
                            ELSE IF empties THEN NoText ELSE @]
<1>8. IF f.ending \/ empties THEN EndComposition(v, below)
      ELSE Apply(v, below)
  BY <1>1, <1>2, <1>5, Settled DEF UpdateComposition, Frame
<1>9. PICK x \in Strings :
        x = IF typed THEN CHOOSE t \in Texts : r.composition = {t}
            ELSE IF empties THEN NoText ELSE ui.text
  BY DEF UIInv, TypeOK, UIType, Strings
<1>10. typed => r.composition = {x}
  BY <1>9
<1>11. PICK u : u = v
  OBVIOUS
<1>12. /\ u \in UIType /\ u.bar = ui.bar /\ u.buttons = ui.buttons
       /\ u.composing = (ui.composing \/ typed \/ moved) /\ u.text = x
       /\ u.showing = ui.showing /\ u.window = ui.window
       /\ u.open = ui.open
  <2>1. PICK c \in BOOLEAN : c = (ui.composing \/ typed \/ moved)
    BY DEF UIInv, TypeOK, UIType
  <2>2. u = [ui EXCEPT !.composing = c, !.text = x]
    BY <1>9, <1>11, <2>1
  <2>3. QED BY <2>1, <2>2 DEF UIInv, TypeOK, UIType
<1> HIDE DEF v
<1>13. svc.composition # NoText /\ "end" \notin unheard =>
         IF r.composition # {} THEN r.composition = {svc.composition}
         ELSE ui.composing /\ ui.text = svc.composition
  <2>1. PendingComposition <=> r.composition # {}
    BY <1>1, <1>2, Settled DEF PendingComposition
  <2>2. Outermost(stack) = f
    BY <1>1, <1>2, Settled
  <2>3. QED BY <2>1, <2>2 DEF UIInv, CompositionInv
<1>14. svc.composition # NoText /\ "end" \notin unheard =>
         ~empties /\ u.composing /\ u.text = svc.composition
  <2> SUFFICES ASSUME svc.composition # NoText, "end" \notin unheard
               PROVE  ~empties /\ u.composing /\ u.text = svc.composition
    OBVIOUS
  <2>1. CASE r.composition = {}
    BY <1>9, <1>12, <1>13, <2>1
  <2>2. CASE r.composition # {}
    <3>1. r.composition = {svc.composition}
      BY <1>13, <2>2
    <3>2. svc.composition \in Texts
      BY DEF UIInv, TypeOK, ServiceType, Strings
    <3>3. typed /\ ~empties
      BY <3>1, <3>2
    <3>4. QED BY <1>10, <1>12, <3>1, <3>3
  <2>3. QED BY <2>1, <2>2
<1>15. CASE f.ending \/ empties
  <2>1. EndComposition(u, below)
    BY <1>8, <1>11, <1>15
  <2>2. Resumes(below[1]) /\ below[1].at # "hiding" /\ u.open
    BY <1>1, <1>4, <1>6, <1>7, <1>12, Settled DEF Resumes
  <2>3. /\ u.bar = IF u.buttons THEN 1 ELSE 0
        /\ u.window = u.showing
        /\ ready =>
             /\ svc.hasLangButtons = (u.open /\ "opening" \notin unheard)
             /\ u.buttons = svc.hasLangButtons
        /\ svc.showCandidates => u.showing /\ u.open
        /\ ready /\ u.showing /\ ~svc.showCandidates => stale \/ ~u.open
    BY <1>1, <1>12, Settled
  <2>4. QED
    BY <1>6, <1>12, <1>14, <2>1, <2>2, <2>3, EndPreserves DEF UIInv
<1>16. CASE ~(f.ending \/ empties)
  <2>1. /\ ui' = u /\ stack' = below
        /\ UNCHANGED <<alive, ready, svc, unheard>> /\ Remember
    BY <1>8, <1>11, <1>16 DEF Apply
  <2>2. QED
    BY <1>1, <1>2, <1>4, <1>6, <1>7, <1>12, <1>14, <2>1, Kept
<1>17. QED BY <1>15, <1>16

(* A keyboard that closes ends the composition. *)
LEMMA ClosePreserves == UIInv /\ CloseKeyboard => UIInv'
<1> SUFFICES ASSUME UIInv, CloseKeyboard PROVE UIInv'
  OBVIOUS
<1>1. At("closing")
  BY DEF CloseKeyboard
<1>2. PICK f \in Frames : f = stack[1]
  BY <1>1, Settled
<1>3. PICK g \in Frames : g = [f EXCEPT !.at = "hiding"]
  BY Moved DEF Parts
<1>4. /\ g.at = "hiding" /\ g.session = f.session /\ g.reply = f.reply
  BY <1>3, Moved DEF Parts
<1>5. PICK below : below = Then("hiding")
  OBVIOUS
<1>6. /\ below \in Seq(Frames) /\ below # <<>> /\ Len(below) = 1
      /\ below[1] = g
  <2>1. /\ stack \in Seq(Frames) /\ Len(stack) = 1 /\ Tail(stack) = <<>>
        /\ Head(stack) = f
    BY <1>1, <1>2, Settled
  <2>2. below = <<g>> \o Tail(stack)
    BY <1>3, <1>5, <2>1 DEF Then, Frame, Outer
  <2>3. QED BY <2>1, <2>2, Alone
<1>7. PICK u \in UIType : u = ui
  BY DEF UIInv, TypeOK
<1>8. EndComposition(u, below)
  BY <1>5, <1>7 DEF CloseKeyboard
<1>9. Resumes(below[1]) /\ below[1].at = "hiding" /\ ~u.open
  BY <1>1, <1>2, <1>4, <1>6, <1>7, Settled DEF Resumes, Remains
<1>10. /\ u.bar = IF u.buttons THEN 1 ELSE 0
       /\ u.window = u.showing
       /\ ready =>
            /\ svc.hasLangButtons = (u.open /\ "opening" \notin unheard)
            /\ u.buttons = svc.hasLangButtons
       /\ svc.showCandidates => u.showing /\ u.open
       /\ ready /\ u.showing /\ ~svc.showCandidates => stale \/ ~u.open
  BY <1>1, <1>7, Settled
<1>11. svc.composition # NoText /\ "end" \notin unheard => u.composing
  BY <1>1, <1>7, Settled DEF UIInv, CompositionInv, PendingComposition
<1>12. QED
  BY <1>6, <1>7, <1>8, <1>9, <1>10, <1>11, EndPreserves DEF UIInv

(* A keyboard that closes leaves a composition that it cannot end. *)
LEMMA LeavePreserves == UIInv /\ CloseWithoutContext => UIInv'
<1> SUFFICES ASSUME UIInv, CloseWithoutContext PROVE UIInv'
  OBVIOUS
<1>1. At("closing")
  BY DEF CloseWithoutContext
<1>2. PICK f \in Frames : f = stack[1]
  BY <1>1, Settled
<1>3. PICK g \in Frames : g = [f EXCEPT !.at = "hiding"]
  BY Moved DEF Parts
<1>4. /\ g.at = "hiding" /\ g.session = f.session /\ g.reply = f.reply
  BY <1>3, Moved DEF Parts
<1>5. /\ stack' \in Seq(Frames) /\ stack' # <<>> /\ Len(stack') = 1
      /\ stack'[1] = g /\ Outermost(stack') = g
  <2>1. /\ stack \in Seq(Frames) /\ Tail(stack) = <<>> /\ Head(stack) = f
    BY <1>1, <1>2, Settled
  <2>2. stack' = <<g>> \o Tail(stack)
    BY <1>3, <2>1 DEF CloseWithoutContext, Then, Frame, Outer
  <2>3. QED BY <2>1, <2>2, Alone
<1>6. /\ Len(stack) = 1 /\ stack[1] = f /\ f.at = "closing"
      /\ ~f.session /\ Closing /\ ~Keyed /\ Outermost(stack) = f
      /\ ~ui.open
      /\ ~PendingButtons("add") /\ ~PendingButtons("remove")
      /\ ~PendingCandidates("show") /\ ~PendingCandidates("hide")
  BY <1>1, <1>2, Settled
<1>7. /\ ~Keyed' /\ Closing' /\ ~Releasing' /\ ~PendingComposition'
      /\ ~PendingCandidates("show")' /\ ~PendingCandidates("hide")'
      /\ ~PendingButtons("add")' /\ ~PendingButtons("remove")'
      /\ ~PendingComposition
  <2>1. ~Keyed' /\ Closing'
    BY <1>4, <1>5, <1>6 DEF Keyed, Closing
  <2>2. ~Releasing'
    BY <1>4, <1>5 DEF Releasing
  <2>3. QED
    BY <1>4, <1>5, <1>6, <2>1, <2>2
    DEF PendingCandidates, PendingButtons, PendingComposition
<1>8. /\ alive' = alive /\ ready' = ready /\ ui' = ui /\ svc' = svc
      /\ stale' = stale /\ unheard' = unheard /\ kept' = TRUE
  BY DEF CloseWithoutContext
<1>9. TypeOK'
  BY <1>5, <1>8 DEF UIInv, TypeOK
<1>10. StackInv'
  BY <1>4, <1>5, <1>6 DEF StackInv, Shape, Remains
<1>11. ConnectionInv' /\ EngineInv' /\ WindowInv'
  BY <1>8 DEF UIInv, ConnectionInv, EngineInv, WindowInv
<1>12. ButtonsInv' /\ CandidatesInv'
  BY <1>6, <1>7, <1>8 DEF UIInv, ButtonsInv, CandidatesInv
<1>13. CompositionInv'
  BY <1>7, <1>8 DEF UIInv, CompositionInv
<1>14. ClosedInv'
  BY <1>6, <1>7, <1>8 DEF ClosedInv
<1> QED
  BY <1>9, <1>10, <1>11, <1>12, <1>13, <1>14 DEF UIInv

-----------------------------------------------------------------------------
(* The language bar and the keyboard *)

(* The part about the language buttons. *)
LEMMA ButtonsPreserves == UIInv /\ UpdateLanguageButtons => UIInv'
<1> SUFFICES ASSUME UIInv, UpdateLanguageButtons PROVE UIInv'
  OBVIOUS
<1> DEFINE f == stack[1]
           g == [f EXCEPT !.at = "keyboard"]
           u == CASE f.reply.buttons = "add" ->
                       [ui EXCEPT !.buttons = TRUE,
                                  !.bar = IF @ < 2 THEN @ + 1 ELSE @]
                  [] f.reply.buttons = "remove" -> Reset(ui)
                  [] OTHER -> ui
<1>1. /\ stack \in Seq(Frames) /\ stack # <<>> /\ Len(stack) \in Nat \ {0}
      /\ f \in Frames /\ f = Head(stack) /\ f.at = "buttons"
      /\ Len(stack) = 1 => Outermost(stack) = f
      /\ ui \in UIType /\ ui.bar = IF ui.buttons THEN 1 ELSE 0
  BY Pop DEF UIInv, TypeOK, ButtonsInv, UpdateLanguageButtons, At, Outermost
<1>2. /\ g \in Frames /\ g.at = "keyboard"
      /\ g.session = f.session /\ g.reply = f.reply
      /\ f.reply.buttons \in {"none", "add", "remove"}
  BY <1>1, Moved DEF Parts, Frames, ReplyType
<1>3. /\ stack' = <<g>> \o Tail(stack) /\ ui' = u
      /\ UNCHANGED <<alive, ready, svc, unheard>> /\ Remember
  BY <1>1 DEF UpdateLanguageButtons, Apply, Then, Frame, Outer
<1> HIDE DEF g
<1>4. /\ stack' \in Seq(Frames) /\ stack' # <<>> /\ Len(stack') = Len(stack)
      /\ stack'[1] = g
      /\ Len(stack) > 1 => stack'[2] = stack[2]
      /\ Len(stack) > 2 => stack'[3] = stack[3]
      /\ Outermost(stack') = IF Len(stack) = 1 THEN g ELSE Outermost(stack)
  BY <1>1, <1>2, <1>3, Replaced
<1>5. /\ PendingButtons("add") <=> f.reply.buttons = "add"
      /\ PendingButtons("remove") <=> f.reply.buttons = "remove"
      /\ ui.buttons \in BOOLEAN /\ svc.hasLangButtons \in BOOLEAN
      /\ ready \in BOOLEAN
  BY <1>1 DEF PendingButtons, UIInv, TypeOK, UIType, ServiceType
<1>6. /\ ui' \in UIType /\ ui'.bar = IF ui'.buttons THEN 1 ELSE 0
      /\ ui'.text = ui.text /\ ui'.showing = ui.showing
      /\ ui'.window = ui.window /\ ui'.open = ui.open
      /\ ui'.composing = ui.composing /\ ui'.message = ui.message
      /\ ready => ui'.buttons = svc.hasLangButtons
      /\ ~ready => ~ui'.buttons
  <2>1. CASE f.reply.buttons = "add"
    <3>1. ready /\ ~ui.buttons /\ svc.hasLangButtons /\ ui.bar = 0
      BY <1>1, <1>5, <2>1 DEF UIInv, ButtonsInv
    <3>2. u = [ui EXCEPT !.buttons = TRUE, !.bar = 1]
      BY <2>1, <3>1
    <3>3. 1 \in 0 .. 2
      OBVIOUS
    <3>4. QED BY <1>1, <1>3, <1>5, <3>1, <3>2, <3>3 DEF UIType
  <2>2. CASE f.reply.buttons = "remove"
    <3>1. ready /\ ui.buttons /\ ~svc.hasLangButtons
      BY <1>1, <1>5, <2>2 DEF UIInv, ButtonsInv
    <3>2. ui' = Reset(ui)
      BY <1>3, <2>2
    <3>3. /\ ui' \in UIType /\ ui'.bar = 0 /\ ~ui'.buttons
          /\ ui'.composing = ui.composing /\ ui'.text = ui.text
          /\ ui'.showing = ui.showing /\ ui'.window = ui.window
          /\ ui'.message = ui.message /\ ui'.open = ui.open
      BY <1>1, <3>2, Screens
    <3>4. ui'.buttons = svc.hasLangButtons
      BY <1>5, <3>1, <3>3 DEF UIType
    <3>5. QED BY <3>1, <3>3, <3>4
  <2>3. CASE f.reply.buttons = "none"
    <3>1. ui' = ui
      BY <1>3, <2>3
    <3>2. ready => ui.buttons = svc.hasLangButtons
      BY <1>5, <2>3 DEF UIInv, ButtonsInv
    <3>3. ~ready => ~ui.buttons
      BY DEF UIInv, ConnectionInv
    <3>4. QED BY <1>1, <3>1, <3>2, <3>3
  <2>4. QED BY <1>2, <2>1, <2>2, <2>3
<1> HIDE DEF u
<1>7. /\ Keyed' <=> Keyed
      /\ Closing' <=> Closing
      /\ Releasing' <=> Releasing
      /\ PendingCandidates("show")' <=> PendingCandidates("show")
      /\ PendingCandidates("hide")' <=> PendingCandidates("hide")
      /\ ~PendingButtons("add")' /\ ~PendingButtons("remove")'
      /\ PendingComposition' <=> PendingComposition
      /\ PendingComposition =>
           Outermost(stack').reply = Outermost(stack).reply
  BY <1>1, <1>2, <1>3, <1>4, <1>5, <1>6
  DEF UIInv, Keyed, Closing, Releasing, PendingCandidates, PendingButtons,
      PendingComposition, StackInv, Shape, KeyFrame, Told, Quiet, Remains
<1>8. TypeOK'
  BY <1>1, <1>2, <1>3, <1>4, <1>5, <1>6, <1>7
  DEF UIInv, TypeOK, Remember
<1>9. StackInv'
  BY <1>1, <1>2, <1>3, <1>4, <1>5, <1>6, <1>7
  DEF UIInv, StackInv, Shape, KeyFrame, Told, Quiet, Remains, Resumes, Parts
<1>10. ConnectionInv'
  BY <1>1, <1>2, <1>3, <1>4, <1>5, <1>6, <1>7
  DEF UIInv, ConnectionInv, Remember
<1>11. ButtonsInv'
  BY <1>1, <1>2, <1>3, <1>4, <1>5, <1>6, <1>7
  DEF UIInv, ButtonsInv
<1>12. EngineInv'
  BY <1>1, <1>2, <1>3, <1>4, <1>5, <1>6, <1>7
  DEF UIInv, EngineInv
<1>13. WindowInv'
  BY <1>1, <1>2, <1>3, <1>4, <1>5, <1>6, <1>7
  DEF UIInv, WindowInv, StackInv, Shape, KeyFrame, Told, Quiet, Remains, Resumes
<1>14. CandidatesInv'
  BY <1>1, <1>2, <1>3, <1>4, <1>5, <1>6, <1>7
  DEF UIInv, CandidatesInv, Remember
<1>15. CompositionInv'
  BY <1>1, <1>2, <1>3, <1>4, <1>5, <1>6, <1>7
  DEF UIInv, CompositionInv
<1>16. ClosedInv'
  BY <1>1, <1>2, <1>3, <1>4, <1>5, <1>6, <1>7
  DEF UIInv, ClosedInv, Blank, Remember
<1> QED
  BY <1>8, <1>9, <1>10, <1>11, <1>12, <1>13, <1>14, <1>15, <1>16 DEF UIInv

(* The part about the keyboard, when there is nothing to change, or        *)
(* nothing more to do: the reply has been applied.                         *)
LEMMA AppliedPreserves ==
  UIInv /\ At("keyboard") /\ Apply(ui, Outer) => UIInv'
<1> SUFFICES ASSUME UIInv, At("keyboard"), Apply(ui, Outer) PROVE UIInv'
  OBVIOUS
<1> DEFINE f == stack[1]
<1>1. /\ stack \in Seq(Frames) /\ stack # <<>> /\ Len(stack) \in Nat \ {0}
      /\ f \in Frames /\ f = Head(stack) /\ f.at = "keyboard"
      /\ Len(stack) = 1 => Outermost(stack) = f
      /\ ui \in UIType /\ ui.bar = IF ui.buttons THEN 1 ELSE 0
  BY Pop DEF UIInv, TypeOK, ButtonsInv, At, Outermost
<1>2. /\ stack' = Tail(stack) /\ ui' = ui
      /\ UNCHANGED <<alive, ready, svc, unheard>> /\ Remember
  BY DEF Apply, Outer
<1>3. /\ stack' \in Seq(Frames) /\ Len(stack') = Len(stack) - 1
      /\ stack' = <<>> <=> Len(stack) = 1
      /\ Len(stack) > 1 => stack'[1] = stack[2]
      /\ Len(stack) > 2 => stack'[2] = stack[3]
      /\ Len(stack) > 1 => Outermost(stack') = Outermost(stack)
  BY <1>1, <1>2, Pop
<1>4. /\ Len(stack) \in {1, 2, 3}
      /\ Len(stack) = 2 => Remains(stack[2], {"closing", "release"})
      /\ Len(stack) = 3 =>
           Remains(stack[2], {"release"}) /\ Resumes(stack[3])
      /\ Len(stack) > 1 => f.reply.keyboard = "none"
      /\ ~PendingButtons("add") /\ ~PendingButtons("remove")
  <2>1. ~Remains(f, {"release"}) /\ ~Remains(f, {"release", "closing", "hiding"})
    BY <1>1 DEF Remains
  <2>2. \/ Len(stack) = 1
        \/ /\ Len(stack) = 2 /\ f.reply.keyboard = "none"
           /\ Remains(stack[2], {"closing"}) \/ Remains(stack[2], {"release"})
        \/ /\ Len(stack) = 3 /\ f.reply.keyboard = "none"
           /\ Remains(stack[2], {"release"}) /\ Resumes(stack[3])
    BY <1>1, <2>1 DEF UIInv, StackInv, Shape, Quiet
  <2>3. ~PendingButtons("add") /\ ~PendingButtons("remove")
    BY <1>1 DEF PendingButtons
  <2>4. Remains(stack[2], {"closing"}) \/ Remains(stack[2], {"release"})
          => Remains(stack[2], {"closing", "release"})
    BY DEF Remains
  <2>5. CASE Len(stack) = 1
    BY <2>3, <2>5
  <2>6. CASE Len(stack) = 2
    BY <2>2, <2>3, <2>4, <2>6
  <2>7. CASE Len(stack) = 3
    BY <2>2, <2>3, <2>7
  <2>8. QED BY <2>2, <2>5, <2>6, <2>7
<1>5. /\ Keyed' => Keyed
      /\ Closing' <=> Closing
      /\ Releasing' <=> Releasing
      /\ ~PendingCandidates("show") /\ ~PendingCandidates("hide")
      /\ ~PendingCandidates("show")' /\ ~PendingCandidates("hide")'
      /\ ~PendingButtons("add")' /\ ~PendingButtons("remove")'
      /\ PendingComposition' <=> PendingComposition
      /\ PendingComposition =>
           Outermost(stack').reply = Outermost(stack).reply
      /\ stack' # <<>> => stack'[1].at # "hiding"
  <2>1. CASE Len(stack) = 1
    <3>1. stack' = <<>> /\ Len(stack') = 0 /\ Outermost(stack) = f
      BY <1>1, <1>3, <2>1
    <3>2. QED
      BY <1>1, <2>1, <3>1
      DEF Keyed, Closing, Releasing, PendingCandidates, PendingButtons,
          PendingComposition
  <2>2. CASE Len(stack) = 2
    <3>1. /\ stack' # <<>> /\ Len(stack') = 1 /\ stack'[1] = stack[2]
          /\ Outermost(stack') = stack[2] /\ Outermost(stack) = stack[2]
      BY <1>1, <1>3, <2>2 DEF Outermost
    <3>2. QED
      BY <1>1, <1>4, <2>2, <3>1
      DEF Keyed, Closing, Releasing, PendingCandidates, PendingButtons,
          PendingComposition, Remains
  <2>3. CASE Len(stack) = 3
    <3>1. /\ stack' # <<>> /\ Len(stack') = 2 /\ stack'[1] = stack[2]
          /\ Outermost(stack') = stack[3] /\ Outermost(stack) = stack[3]
      BY <1>1, <1>3, <2>3 DEF Outermost
    <3>2. QED
      BY <1>1, <1>4, <2>3, <3>1
      DEF Keyed, Closing, Releasing, PendingCandidates, PendingButtons,
          PendingComposition, Remains, Resumes, KeyFrame
  <2>4. QED BY <1>4, <2>1, <2>2, <2>3
<1>6. TypeOK'
  BY <1>1, <1>2, <1>3, <1>4, <1>5
  DEF UIInv, TypeOK, Remember
<1>7. StackInv'
  BY <1>1, <1>2, <1>3, <1>4, <1>5
  DEF UIInv, StackInv, Shape, Remains
<1>8. ConnectionInv'
  BY <1>1, <1>2, <1>3, <1>4, <1>5
  DEF UIInv, ConnectionInv, Remember
<1>9. ButtonsInv'
  BY <1>1, <1>2, <1>3, <1>4, <1>5
  DEF UIInv, ButtonsInv
<1>10. EngineInv'
  BY <1>1, <1>2, <1>3, <1>4, <1>5
  DEF UIInv, EngineInv
<1>11. WindowInv'
  BY <1>1, <1>2, <1>3, <1>4, <1>5
  DEF UIInv, WindowInv, StackInv, Shape, KeyFrame, Told, Quiet, Remains, Resumes
<1>12. CandidatesInv'
  BY <1>1, <1>2, <1>3, <1>4, <1>5
  DEF UIInv, CandidatesInv, Remember
<1>13. CompositionInv'
  BY <1>1, <1>2, <1>3, <1>4, <1>5
  DEF UIInv, CompositionInv
<1>14. ClosedInv'
  BY <1>1, <1>2, <1>3, <1>4, <1>5
  DEF UIInv, ClosedInv, Blank, Remember
<1> QED
  BY <1>6, <1>7, <1>8, <1>9, <1>10, <1>11, <1>12, <1>13, <1>14 DEF UIInv

(* The rest of endComposition: the composition goes, and the reply or the  *)
(* handler that ended it goes on.                                          *)
LEMMA ReleasePreserves == UIInv /\ ReleaseComposition => UIInv'
<1> SUFFICES ASSUME UIInv, ReleaseComposition PROVE UIInv'
  OBVIOUS
<1>1. /\ stack \in Seq(Frames) /\ stack # <<>> /\ Len(stack) \in Nat \ {0}
      /\ stack[1] = Head(stack) /\ stack[1].at = "release"
      /\ ui \in UIType /\ ui.bar = IF ui.buttons THEN 1 ELSE 0
      /\ ui.open \in BOOLEAN /\ ui.showing \in BOOLEAN
      /\ ready \in BOOLEAN /\ stale \in BOOLEAN
  BY Pop
  DEF UIInv, TypeOK, ButtonsInv, ReleaseComposition, At, UIType
<1>2. /\ stack' = Tail(stack)
      /\ ui' = [ui EXCEPT !.composing = FALSE, !.text = NoText]
      /\ alive' = alive /\ ready' = ready /\ svc' = svc
      /\ unheard' = unheard
      /\ stale' = ((stale \/ ~ready') /\ (ui'.composing \/ ui'.showing))
      /\ kept' = (kept /\ ui'.composing /\ ~ui'.open)
  BY DEF ReleaseComposition, Apply, Outer, Remember
<1>3. /\ stack' \in Seq(Frames) /\ Len(stack') = Len(stack) - 1
      /\ stack' = <<>> <=> Len(stack) = 1
      /\ Len(stack) > 1 => stack'[1] = stack[2]
      /\ Len(stack) > 1 => Outermost(stack') = Outermost(stack)
  BY <1>1, <1>2, Pop
<1>4. /\ ui' \in UIType /\ ui'.bar = ui.bar /\ ui'.buttons = ui.buttons
      /\ ~ui'.composing /\ ui'.showing = ui.showing
      /\ ui'.window = ui.window /\ ui'.message = ui.message
      /\ ui'.open = ui.open
  BY <1>1, <1>2 DEF UIType, Strings
<1>5. \/ Len(stack) = 1
      \/ Len(stack) = 2 /\ Resumes(stack[2])
  <2>1. ~Told(stack[1]) /\ ~Quiet(stack[1])
    BY <1>1 DEF Told, Quiet
  <2>2. QED BY <1>1, <2>1 DEF UIInv, StackInv, Shape
<1>6. /\ svc.composition = NoText \/ "end" \in unheard
      /\ ~PendingButtons("add") /\ ~PendingButtons("remove")
  BY <1>1 DEF UIInv, CompositionInv, Releasing, PendingButtons
<1>7. /\ Keyed' => Keyed
      /\ Closing' <=> Closing
      /\ ~PendingCandidates("show") /\ ~PendingCandidates("hide")
      /\ ~PendingCandidates("show")' /\ ~PendingCandidates("hide")'
      /\ ~PendingButtons("add")' /\ ~PendingButtons("remove")'
      /\ Shape(stack')
  <2>1. CASE Len(stack) = 1
    <3>1. stack' = <<>> /\ Len(stack') = 0 /\ Outermost(stack) = stack[1]
      BY <1>1, <1>3, <2>1 DEF Outermost
    <3>2. QED
      BY <1>1, <2>1, <3>1
      DEF Keyed, Closing, PendingCandidates, PendingButtons, Shape
  <2>2. CASE Len(stack) = 2 /\ Resumes(stack[2])
    <3>1. /\ stack' # <<>> /\ Len(stack') = 1 /\ stack'[1] = stack[2]
          /\ Outermost(stack') = stack[2] /\ Outermost(stack) = stack[2]
      BY <1>1, <1>3, <2>2 DEF Outermost
    <3>2. QED
      BY <1>1, <2>2, <3>1
      DEF Keyed, Closing, PendingCandidates, PendingButtons, Shape,
          Remains, Resumes, KeyFrame
  <2>3. QED BY <1>5, <2>1, <2>2
<1>8. TypeOK'
  BY <1>1, <1>2, <1>3, <1>4 DEF UIInv, TypeOK, UIType
<1>9. StackInv'
  BY <1>7 DEF StackInv
<1>10. ConnectionInv'
  BY <1>1, <1>2, <1>4 DEF UIInv, ConnectionInv
<1>11. ButtonsInv'
  BY <1>2, <1>4, <1>6, <1>7 DEF UIInv, ButtonsInv
<1>12. EngineInv' /\ WindowInv'
  BY <1>2, <1>4 DEF UIInv, EngineInv, WindowInv
<1>13. CandidatesInv'
  BY <1>1, <1>2, <1>4, <1>7 DEF UIInv, CandidatesInv
<1>14. CompositionInv'
  BY <1>2, <1>6 DEF CompositionInv
<1>15. ClosedInv'
  BY <1>2, <1>4, <1>7 DEF UIInv, TypeOK, ClosedInv, Blank
<1> QED
  BY <1>8, <1>9, <1>10, <1>11, <1>12, <1>13, <1>14, <1>15 DEF UIInv

(* A keyboard that has closed takes the windows off the screen. *)
LEMMA HidePreserves == UIInv /\ HideAll => UIInv'
<1> SUFFICES ASSUME UIInv, HideAll PROVE UIInv'
  OBVIOUS
<1>1. /\ stack \in Seq(Frames) /\ stack # <<>> /\ Len(stack) \in Nat \ {0}
      /\ stack[1] = Head(stack) /\ stack[1].at = "hiding"
      /\ ui \in UIType /\ ui.bar = IF ui.buttons THEN 1 ELSE 0
      /\ ui.open \in BOOLEAN /\ ui.composing \in BOOLEAN
      /\ stale \in BOOLEAN /\ kept \in BOOLEAN
  BY Pop DEF UIInv, TypeOK, ButtonsInv, HideAll, At, UIType
<1>2. /\ stack' = Tail(stack)
      /\ ui' = WithoutMessage(WithoutCandidates(ui))
      /\ alive' = alive /\ ready' = ready /\ svc' = svc
      /\ unheard' = unheard
      /\ stale' = ((stale \/ ~ready') /\ (ui'.composing \/ ui'.showing))
      /\ kept' = (kept /\ ui'.composing /\ ~ui'.open)
  BY DEF HideAll, Apply, Outer, Remember
<1>3. Len(stack) = 1 /\ ~stack[1].session
  <2>1. ~Told(stack[1]) /\ ~Quiet(stack[1]) /\ ~KeyFrame(stack[1])
    BY <1>1 DEF Told, Quiet, KeyFrame, Parts
  <2>2. ~Remains(stack[1], {"release"})
    BY <1>1 DEF Remains
  <2>3. QED BY <1>1, <2>1, <2>2 DEF UIInv, StackInv, Shape, Remains
<1>4. stack' = <<>> /\ stack' \in Seq(Frames) /\ Len(stack') = 0
  BY <1>1, <1>2, <1>3, Pop
<1>5. Outermost(stack) = stack[1]
  BY <1>3 DEF Outermost
<1>6. /\ Closing /\ ~Keyed /\ ~Releasing /\ ~PendingComposition
      /\ ~PendingButtons("add") /\ ~PendingButtons("remove")
  BY <1>1, <1>3, <1>5
  DEF Closing, Keyed, Releasing, PendingComposition, PendingButtons
<1>7. /\ ~ui.open /\ (ui.composing => kept) /\ ~svc.showCandidates
      /\ svc.composition # NoText /\ "end" \notin unheard =>
           ui.composing /\ ui.text = svc.composition
  BY <1>1, <1>6 DEF UIInv, ClosedInv, CandidatesInv, CompositionInv
<1>8. /\ ui' \in UIType /\ ui'.bar = ui.bar /\ ui'.buttons = ui.buttons
      /\ ui'.composing = ui.composing /\ ui'.text = ui.text
      /\ ~ui'.showing /\ ~ui'.window /\ ~ui'.message
      /\ ui'.open = ui.open /\ ui'.showing = ui'.window
  <2>1. PICK v : v = WithoutCandidates(ui)
    OBVIOUS
  <2>2. /\ v \in UIType /\ v.bar = ui.bar /\ v.buttons = ui.buttons
        /\ v.composing = ui.composing /\ v.text = ui.text
        /\ ~v.showing /\ ~v.window /\ v.open = ui.open
    BY <1>1, <2>1, Screens
  <2>3. /\ ui' \in UIType /\ ui'.bar = v.bar /\ ui'.buttons = v.buttons
        /\ ui'.composing = v.composing /\ ui'.text = v.text
        /\ ui'.showing = v.showing /\ ui'.window = v.window
        /\ ~ui'.message /\ ui'.open = v.open
    BY <1>1, <1>2, <2>1, <2>2, Screens
  <2>4. v.showing = v.window
    BY <2>2 DEF UIType
  <2>5. QED BY <2>2, <2>3, <2>4
<1>9. /\ ~Keyed' /\ ~Closing'
      /\ ~PendingCandidates("show")' /\ ~PendingCandidates("hide")'
      /\ ~PendingButtons("add")' /\ ~PendingButtons("remove")'
      /\ Shape(stack')
  BY <1>4 DEF Keyed, Closing, PendingCandidates, PendingButtons, Shape
<1>10. TypeOK'
  BY <1>1, <1>2, <1>4, <1>8 DEF UIInv, TypeOK, UIType
<1>11. StackInv'
  BY <1>9 DEF StackInv
<1>12. ConnectionInv'
  BY <1>1, <1>2, <1>8 DEF UIInv, ConnectionInv
<1>13. ButtonsInv'
  BY <1>2, <1>6, <1>8, <1>9 DEF UIInv, ButtonsInv
<1>14. EngineInv' /\ WindowInv'
  BY <1>2, <1>8 DEF UIInv, EngineInv, WindowInv
<1>15. CandidatesInv'
  BY <1>2, <1>7, <1>8, <1>9 DEF CandidatesInv
<1>16. CompositionInv'
  BY <1>2, <1>4, <1>7, <1>8, <1>9
  DEF CompositionInv, Releasing, PendingComposition
<1>17. ClosedInv'
  BY <1>1, <1>2, <1>4, <1>7, <1>8, <1>9 DEF ClosedInv, Blank
<1> QED
  BY <1>10, <1>11, <1>12, <1>13, <1>14, <1>15, <1>16, <1>17 DEF UIInv

-----------------------------------------------------------------------------
(* Events *)

(* Between two events nothing is pending. *)
LEMMA Resting ==
  ASSUME UIInv, AtRest
  PROVE  /\ alive \in BOOLEAN /\ ready \in BOOLEAN /\ stale \in BOOLEAN
         /\ kept \in BOOLEAN /\ ui \in UIType /\ svc \in ServiceType
         /\ ui.open \in BOOLEAN /\ ui.buttons \in BOOLEAN
         /\ ui.showing \in BOOLEAN /\ ui.composing \in BOOLEAN
         /\ svc.showCandidates \in BOOLEAN /\ svc.hasLangButtons \in BOOLEAN
         /\ ~Keyed /\ ~Closing
         /\ ui.bar = IF ui.buttons THEN 1 ELSE 0
         /\ ui.window = ui.showing
         /\ ready =>
              /\ svc.hasLangButtons = (ui.open /\ "opening" \notin unheard)
              /\ ui.buttons = svc.hasLangButtons
         /\ svc.hasLangButtons \/ svc.showCandidates => svc.engine
         /\ unheard \subseteq News
         /\ ~ready => /\ svc = NewService /\ ~ui.buttons
                      /\ ui.composing \/ ui.showing => stale
         /\ svc.showCandidates => ui.showing
         /\ ready /\ ui.showing /\ ~svc.showCandidates => stale
         /\ svc.composition # NoText /\ "end" \notin unheard =>
              ui.composing /\ ui.text = svc.composition
         /\ ~ui.open => Blank
<1>1. /\ alive \in BOOLEAN /\ ready \in BOOLEAN /\ stale \in BOOLEAN
      /\ kept \in BOOLEAN /\ ui \in UIType /\ svc \in ServiceType
      /\ ui.open \in BOOLEAN /\ ui.buttons \in BOOLEAN
      /\ ui.showing \in BOOLEAN /\ ui.composing \in BOOLEAN
      /\ svc.showCandidates \in BOOLEAN /\ svc.hasLangButtons \in BOOLEAN
  BY DEF UIInv, TypeOK, UIType, ServiceType
<1>2. /\ ~Keyed /\ ~Closing
      /\ ~PendingCandidates("show") /\ ~PendingCandidates("hide")
      /\ ~PendingButtons("add") /\ ~PendingButtons("remove")
      /\ ~PendingComposition
  BY DEF AtRest, Keyed, Closing, PendingCandidates, PendingButtons,
         PendingComposition
<1>3. /\ ui.bar = IF ui.buttons THEN 1 ELSE 0
      /\ ui.window = ui.showing
      /\ ready =>
           /\ svc.hasLangButtons = (ui.open /\ "opening" \notin unheard)
           /\ ui.buttons = svc.hasLangButtons
      /\ svc.hasLangButtons \/ svc.showCandidates => svc.engine
      /\ unheard \subseteq News
  BY <1>1, <1>2 DEF UIInv, TypeOK, ButtonsInv, WindowInv, EngineInv
<1>4. /\ ~ready => /\ svc = NewService /\ ~ui.buttons
                   /\ ui.composing \/ ui.showing => stale
      /\ svc.showCandidates => ui.showing
      /\ ready /\ ui.showing /\ ~svc.showCandidates => stale
  BY <1>2 DEF UIInv, ConnectionInv, CandidatesInv
<1>5. /\ svc.composition # NoText /\ "end" \notin unheard =>
           ui.composing /\ ui.text = svc.composition
      /\ ~ui.open => Blank
  BY <1>2 DEF UIInv, CompositionInv, ClosedInv
<1>6. QED BY <1>1, <1>2, <1>3, <1>4, <1>5

(* With nothing left to do, the invariant says as much. *)
LEMMA Rests ==
  ASSUME alive' \in BOOLEAN, ready' \in BOOLEAN, stale' \in BOOLEAN,
         kept' \in BOOLEAN, ui' \in UIType, svc' \in ServiceType, stack' = <<>>,
         ui'.bar = IF ui'.buttons THEN 1 ELSE 0,
         ui'.window = ui'.showing,
         unheard' \subseteq News,
         ready' =>
           /\ svc'.hasLangButtons = (ui'.open /\ "opening" \notin unheard')
           /\ ui'.buttons = svc'.hasLangButtons,
         svc'.hasLangButtons \/ svc'.showCandidates => svc'.engine,
         ~ready' => /\ svc' = NewService /\ ~ui'.buttons
                    /\ ui'.composing \/ ui'.showing => stale',
         svc'.showCandidates => ui'.showing,
         ready' /\ ui'.showing /\ ~svc'.showCandidates => stale',
         svc'.composition # NoText /\ "end" \notin unheard' =>
           ui'.composing /\ ui'.text = svc'.composition,
         ~ui'.open => /\ ui'.composing => kept'
                      /\ ~ui'.showing /\ ~ui'.window /\ ~ui'.message
  PROVE  UIInv'
<1>1. /\ ~Keyed' /\ ~Closing' /\ ~Releasing' /\ ~PendingComposition'
      /\ ~PendingCandidates("show")' /\ ~PendingCandidates("hide")'
      /\ ~PendingButtons("add")' /\ ~PendingButtons("remove")'
  <2>1. Len(stack') = 0
    OBVIOUS
  <2>2. QED
    BY <2>1
    DEF Keyed, Closing, Releasing, PendingCandidates, PendingButtons,
        PendingComposition
<1>2. TypeOK' /\ StackInv'
  BY DEF TypeOK, StackInv, Shape
<1>3. ConnectionInv' /\ EngineInv' /\ WindowInv'
  BY DEF ConnectionInv, EngineInv, WindowInv
<1>4. ButtonsInv' /\ CandidatesInv'
  BY <1>1 DEF ButtonsInv, CandidatesInv
<1>5. CompositionInv' /\ ClosedInv'
  BY <1>1 DEF CompositionInv, ClosedInv, Blank
<1>6. QED BY <1>2, <1>3, <1>4, <1>5 DEF UIInv

(* A profile is activated, and a message times out. *)
LEMMA ActivatePreserves == UIInv /\ ActivateProfile => UIInv'
<1> SUFFICES ASSUME UIInv, ActivateProfile PROVE UIInv'
  OBVIOUS
<1>1. /\ AtRest /\ stack' = <<>> /\ alive' \in BOOLEAN
      /\ ready' = ready /\ ui' = ui /\ svc' = svc /\ stale' = stale
      /\ kept' = kept /\ unheard' = unheard
  BY DEF ActivateProfile, AtRest
<1>2. QED BY <1>1, Resting, Rests DEF Blank

LEMMA TimeoutPreserves == UIInv /\ MessageTimeout => UIInv'
<1> SUFFICES ASSUME UIInv, MessageTimeout PROVE UIInv'
  OBVIOUS
<1>1. /\ AtRest /\ stack' = <<>> /\ ui' = WithoutMessage(ui)
      /\ alive' = alive /\ ready' = ready /\ svc' = svc
      /\ unheard' = unheard
      /\ stale' = ((stale \/ ~ready') /\ (ui'.composing \/ ui'.showing))
      /\ kept' = (kept /\ ui'.composing /\ ~ui'.open)
  BY DEF MessageTimeout, AtRest, Apply, Remember
<1>2. /\ ui' \in UIType /\ ui'.bar = ui.bar /\ ui'.buttons = ui.buttons
      /\ ui'.composing = ui.composing /\ ui'.text = ui.text
      /\ ui'.showing = ui.showing /\ ui'.window = ui.window
      /\ ~ui'.message /\ ui'.open = ui.open
  BY <1>1, Resting, Screens
<1>3. QED BY <1>1, <1>2, Resting, Rests DEF Blank

(* The client goes, and takes its windows and buttons with it. *)
LEMMA ClosePreservesAll == UIInv /\ CloseClient => UIInv'
<1> SUFFICES ASSUME UIInv, CloseClient PROVE UIInv'
  OBVIOUS
<1>1. /\ AtRest /\ stack' = <<>> /\ alive' = FALSE /\ ready' = FALSE
      /\ svc' = NewService /\ unheard' = {}
      /\ ui' = WithoutMessage(WithoutCandidates(Reset(ui)))
      /\ stale' = ((stale \/ ~ready') /\ (ui'.composing \/ ui'.showing))
      /\ kept' = (kept /\ ui'.composing /\ ~ui'.open)
  BY DEF CloseClient, AtRest, Remember
<1>2. PICK u : u = Reset(ui)
  OBVIOUS
<1>3. PICK v : v = WithoutCandidates(u)
  OBVIOUS
<1>4. /\ u \in UIType /\ u.bar = 0 /\ ~u.buttons
      /\ u.composing = ui.composing /\ u.open = ui.open
  BY <1>1, <1>2, Resting, Screens
<1>5. /\ v \in UIType /\ v.bar = 0 /\ ~v.buttons
      /\ v.composing = ui.composing /\ ~v.showing /\ ~v.window
      /\ v.open = ui.open
  BY <1>3, <1>4, Screens
<1>6. /\ ui' \in UIType /\ ui'.bar = 0 /\ ~ui'.buttons
      /\ ui'.composing = ui.composing /\ ~ui'.showing /\ ~ui'.window
      /\ ~ui'.message /\ ui'.open = ui.open
  BY <1>1, <1>2, <1>3, <1>5, Screens
<1>7. /\ ui'.window = ui'.showing /\ ui'.composing \in BOOLEAN
      /\ ui'.showing = FALSE
  BY <1>6 DEF UIType
<1>8. /\ NewService \in ServiceType /\ NewService.composition = NoText
      /\ ~NewService.showCandidates /\ ~NewService.hasLangButtons
  BY DEF NewService, ServiceType, Strings
<1>9. kept' \in BOOLEAN /\ (~ui'.open /\ ui'.composing => kept')
  BY <1>1, <1>6, Resting DEF Blank
<1>10. stale' \in BOOLEAN /\ (ui'.composing \/ ui'.showing => stale')
  BY <1>1, <1>7
<1>11. QED BY <1>1, <1>6, <1>7, <1>8, <1>9, <1>10, Rests

(* A call from the message loop that is refused, that fails, or that has   *)
(* nobody to go to.                                                        *)
LEMMA FailedCall ==
  ASSUME UIInv, AtRest, UNCHANGED alive, Remember,
         Refused({}, ui, <<>>) \/ Lost(ui, <<>>) \/ NotConnected(ui, <<>>)
  PROVE  UIInv'
<1>1. /\ stack' = <<>> /\ alive' \in BOOLEAN
      /\ stale' = ((stale \/ ~ready') /\ (ui'.composing \/ ui'.showing))
      /\ kept' = (kept /\ ui'.composing /\ ~ui'.open)
  BY Resting DEF Refused, Lost, NotConnected, Remember
<1>2. CASE Refused({}, ui, <<>>)
  <2>1. ready' = ready /\ svc' = svc /\ ui' = ui /\ unheard' = unheard
    BY <1>2 DEF Refused
  <2>2. stale' \in BOOLEAN /\ (stale /\ ui.showing => stale')
    BY <1>1, <2>1, Resting
  <2>3. ready
    BY <1>2 DEF Refused
  <2>4. QED BY <1>1, <2>1, <2>2, <2>3, Resting, Rests DEF Blank
<1>3. CASE Lost(ui, <<>>) \/ NotConnected(ui, <<>>)
  <2>1. /\ ui' \in UIType /\ ui'.bar = 0 /\ ~ui'.buttons
        /\ ui'.composing = ui.composing /\ ui'.text = ui.text
        /\ ui'.showing = ui.showing /\ ui'.window = ui.window
        /\ ui'.message = ui.message /\ ui'.open = ui.open
        /\ ready' = FALSE /\ svc' = NewService /\ unheard' \subseteq News
    <3>1. CASE Lost(ui, <<>>)
      BY <3>1, Resting, Screens DEF Lost
    <3>2. CASE NotConnected(ui, <<>>)
      <4>1. ready' = FALSE /\ svc' = NewService
        BY <3>2, Resting DEF NotConnected
      <4>2. QED BY <3>2, <4>1, Resting DEF NotConnected
    <3>3. QED BY <1>3, <3>1, <3>2
  <2>2. /\ NewService \in ServiceType /\ NewService.composition = NoText
        /\ ~NewService.showCandidates /\ ~NewService.hasLangButtons
    BY DEF NewService, ServiceType, Strings
  <2>3. QED BY <1>1, <2>1, <2>2, Resting, Rests DEF Blank
<1>4. QED BY <1>2, <1>3

(* A stack with one frame. *)
LEMMA Single ==
  ASSUME NEW f \in Frames
  PROVE  /\ <<f>> \in Seq(Frames) /\ <<f>> # <<>> /\ Len(<<f>>) = 1
         /\ <<f>>[1] = f /\ Outermost(<<f>>) = f
  BY DEF Outermost

(* A connection that is made: the service's buttons are on their way. *)
LEMMA ConnectedPreserves == UIInv /\ Connected => UIInv'
<1> SUFFICES ASSUME UIInv, Connected PROVE UIInv'
  OBVIOUS
<1>1. PICK o \in Activated(ui.open) :
        svc' = o.svc /\ stack' = <<Applying(o.reply, FALSE)>>
  BY DEF Connected
<1>2. /\ AtRest /\ ~ready /\ ready' = TRUE /\ alive' = alive /\ ui' = ui
      /\ unheard' = {}
      /\ stale' = ((stale \/ ~ready') /\ (ui'.composing \/ ui'.showing))
      /\ kept' = (kept /\ ui'.composing /\ ~ui'.open)
  BY DEF Connected, Remember
<1>3. /\ svc = NewService /\ NewService \in ServiceType
      /\ NewService.composition = NoText /\ ~NewService.showCandidates
  BY <1>2, Resting DEF NewService, ServiceType, Strings
<1>4. /\ o.svc \in ServiceType /\ o.svc.engine
      /\ o.svc.hasLangButtons = ui.open
      /\ o.svc.composition = NoText /\ ~o.svc.showCandidates
      /\ o.reply \in ReplyType /\ o.reply.message = "none"
      /\ o.reply.buttons = IF ui.open THEN "add" ELSE "none"
  <2>1. PICK k \in {"none", "open", "close"} :
          o = [svc |-> [svc EXCEPT !.engine = TRUE,
                                   !.hasLangButtons = ui.open],
               reply |-> [NoReply EXCEPT
                            !.buttons = IF ui.open THEN "add" ELSE "none",
                            !.keyboard = k]]
    BY DEF Activated, Outcome
  <2>2. ui.open \in BOOLEAN
    BY <1>2, Resting
  <2>3. LET s == [svc EXCEPT !.engine = TRUE, !.hasLangButtons = ui.open] IN
        /\ s \in ServiceType /\ s.engine /\ s.hasLangButtons = ui.open
        /\ s.composition = NoText /\ ~s.showCandidates
    BY <1>3, <2>2 DEF ServiceType
  <2>4. LET r == [NoReply EXCEPT
                    !.buttons = IF ui.open THEN "add" ELSE "none",
                    !.keyboard = k] IN
        /\ r \in ReplyType /\ r.message = "none"
        /\ r.buttons = IF ui.open THEN "add" ELSE "none"
    BY Silent DEF ReplyType
  <2>5. QED BY <2>1, <2>3, <2>4
<1>5. PICK f \in Frames :
        /\ f = Applying(o.reply, FALSE) /\ f.at = "message"
        /\ f.session = FALSE /\ f.reply = o.reply
  BY <1>4, Applied
<1>6. /\ stack' \in Seq(Frames) /\ stack' # <<>> /\ Len(stack') = 1
      /\ stack'[1] = f /\ Outermost(stack') = f /\ Told(f)
  <2>1. stack' = <<f>>
    BY <1>1, <1>5
  <2>2. Told(f)
    BY <1>4, <1>5 DEF Told
  <2>3. QED BY <2>1, <2>2, Single
<1>7. /\ ~Keyed' /\ ~Closing' /\ ~Releasing' /\ ~PendingComposition'
      /\ ~PendingCandidates("show")' /\ ~PendingCandidates("hide")'
      /\ PendingButtons("add")' <=> ui.open
      /\ ~PendingButtons("remove")'
  <2>1. ~Keyed' /\ ~Closing'
    BY <1>5, <1>6 DEF Keyed, Closing
  <2> ~Releasing'
    <3>1. PICK n \in Nat : n = Len(stack')
      BY <1>6
    <3>2. n = 1 /\ ~(n > 1)
      BY <1>6, <3>1
    <3>3. stack'[1].at # "release"
      BY <1>5, <1>6
    <3>4. QED BY <3>1, <3>2, <3>3 DEF Releasing
  <2>2. /\ ~PendingComposition'
        /\ ~PendingCandidates("show")' /\ ~PendingCandidates("hide")'
    BY <2>1 DEF PendingComposition, PendingCandidates
  <2>3. /\ PendingButtons("add")' <=> f.reply.buttons = "add"
        /\ PendingButtons("remove")' <=> f.reply.buttons = "remove"
    BY <1>5, <1>6 DEF PendingButtons
  <2>4. QED BY <1>4, <1>5, <2>1, <2>2, <2>3
<1>8. TypeOK' /\ StackInv'
  BY <1>1, <1>2, <1>4, <1>6, Resting DEF TypeOK, StackInv, Shape
<1>9. ConnectionInv' /\ EngineInv' /\ WindowInv'
  BY <1>1, <1>2, <1>4, Resting DEF ConnectionInv, EngineInv, WindowInv
<1>10. ButtonsInv'
  BY <1>1, <1>2, <1>4, <1>7, Resting DEF ButtonsInv
<1>11. CandidatesInv'
  BY <1>1, <1>2, <1>4, <1>7, Resting DEF CandidatesInv
<1>12. CompositionInv'
  BY <1>1, <1>4 DEF CompositionInv
<1>13. ClosedInv'
  BY <1>2, <1>5, <1>6, <1>7, Resting DEF ClosedInv, Blank
<1> QED
  BY <1>8, <1>9, <1>10, <1>11, <1>12, <1>13 DEF UIInv

(* What a key may do: the reply tells what it has done to the candidates   *)
(* and to the composition, and nothing of the buttons or the keyboard.     *)
KeyOutcome(o) ==
  /\ o.svc \in ServiceType /\ o.reply \in ReplyType
  /\ o.svc.hasLangButtons = svc.hasLangButtons
  /\ svc.engine \/ o.svc.showCandidates => o.svc.engine
  /\ o.reply.buttons = "none" /\ o.reply.keyboard = "none"
  /\ o.reply.list => o.reply.candidates # "none"
  /\ o.reply.candidates = "show" => o.svc.showCandidates
  /\ o.reply.candidates = "hide" => ~o.svc.showCandidates
  /\ o.reply.candidates = "none" =>
       o.svc.showCandidates = svc.showCandidates
  /\ IF o.reply.composition = {} THEN o.svc.composition = svc.composition
     ELSE o.reply.composition = {o.svc.composition}

LEMMA KeyOutcomes ==
  ASSUME svc \in ServiceType, svc.showCandidates => svc.engine,
         NEW o \in KeyHandled \cup KeyUpHandled
  PROVE  KeyOutcome(o)
<1>1. PICK n \in ReplyType : n = NoReply
  BY Silent
<1>2. /\ n.message = "none" /\ n.candidates = "none" /\ n.list = FALSE
      /\ n.composition = {} /\ n.buttons = "none" /\ n.keyboard = "none"
  BY <1>1 DEF NoReply
<1>3. ASSUME NEW s \in Checked
      PROVE  /\ s \in ServiceType /\ s.composition = svc.composition
             /\ s.showCandidates = svc.showCandidates
             /\ s.hasLangButtons = svc.hasLangButtons
             /\ svc.engine => s.engine
  BY <1>3, Checks
<1>4. ASSUME NEW s \in Checked, o = Outcome(s, NoReply)
      PROVE  KeyOutcome(o)
  <2>1. o.svc = s /\ o.reply = n
    BY <1>1, <1>4 DEF Outcome
  <2>2. QED BY <1>2, <1>3, <2>1 DEF KeyOutcome
<1>5. ASSUME NEW s \in Checked,
             o = Outcome(s, [NoReply EXCEPT !.cursor = TRUE])
      PROVE  KeyOutcome(o)
  <2>1. o.svc = s /\ o.reply = [n EXCEPT !.cursor = TRUE]
    BY <1>1, <1>5 DEF Outcome
  <2>2. /\ o.reply \in ReplyType /\ o.reply.buttons = "none"
        /\ o.reply.keyboard = "none" /\ o.reply.list = FALSE
        /\ o.reply.candidates = "none" /\ o.reply.composition = {}
    BY <1>2, <2>1 DEF ReplyType
  <2>3. QED BY <1>3, <2>1, <2>2 DEF KeyOutcome
<1>6. ASSUME NEW s \in Checked, s.engine,
             NEW text \in Strings, NEW choices \in BOOLEAN,
             NEW changed \in BOOLEAN, NEW commit \in BOOLEAN,
             NEW message \in {"none", "show", "hide"},
             o = KeyReply(s, text, choices, changed, commit, message)
      PROVE  KeyOutcome(o)
  <2> s \in ServiceType
    BY <1>3
  <2>1. PICK c \in {"none", "show", "hide"} :
          c = IF choices /\ (changed \/ ~s.showCandidates)
              THEN "show"
              ELSE IF ~choices /\ s.showCandidates THEN "hide"
              ELSE "none"
    OBVIOUS
  <2>2. PICK l \in BOOLEAN : l = IF choices THEN changed ELSE s.showCandidates
    BY DEF ServiceType
  <2>3. /\ o.svc = [s EXCEPT !.composition = text, !.showCandidates = choices]
        /\ o.reply = [n EXCEPT !.candidates = c, !.list = l,
                               !.commit = commit, !.composition = {text},
                               !.cursor = TRUE, !.message = message]
    BY <1>1, <1>6, <2>1, <2>2 DEF Outcome, KeyReply
  <2>4. /\ o.svc \in ServiceType /\ o.svc.composition = text
        /\ o.svc.showCandidates = choices
        /\ o.svc.hasLangButtons = s.hasLangButtons
        /\ o.svc.engine
    BY <1>6, <2>3 DEF ServiceType
  <2>5. /\ o.reply \in ReplyType /\ o.reply.buttons = "none"
        /\ o.reply.keyboard = "none" /\ o.reply.list = l
        /\ o.reply.candidates = c /\ o.reply.composition = {text}
    <3>1. {text} \in SUBSET Strings
      OBVIOUS
    <3>2. o.reply \in ReplyType
      BY <2>3, <3>1 DEF ReplyType
    <3>3. QED BY <1>2, <2>3, <3>2 DEF ReplyType
  <2>6. /\ c = "show" => choices
        /\ c = "hide" => ~choices
        /\ c = "none" => choices = s.showCandidates
        /\ l => c # "none"
    BY <2>1, <2>2 DEF ServiceType
  <2>7. QED BY <1>3, <2>4, <2>5, <2>6 DEF KeyOutcome
<1>7. \/ \E s \in Checked : o = Outcome(s, NoReply)
      \/ \E s \in Checked : o = Outcome(s, [NoReply EXCEPT !.cursor = TRUE])
      \/ \E s \in Checked, text \in Strings, choices \in BOOLEAN,
            changed \in BOOLEAN, commit \in BOOLEAN,
            message \in {"none", "show", "hide"} :
           s.engine /\ o = KeyReply(s, text, choices, changed, commit, message)
  <2>1. CASE o \in KeyUpHandled
    BY <2>1 DEF KeyUpHandled, Nothing
  <2>2. CASE o \in KeyHandled
    BY <2>2 DEF KeyHandled, Nothing
  <2>3. QED BY <2>1, <2>2
<1>8. QED BY <1>4, <1>5, <1>6, <1>7

(* A service with an engine that is told of a forced end forgets its       *)
(* strings and its candidates.                                             *)
LEMMA ForcedEnd ==
  ASSUME svc \in ServiceType, svc.showCandidates => svc.engine,
         NEW o \in CompositionTerminated(TRUE)
  PROVE  /\ o.svc \in ServiceType /\ o.svc.composition = NoText
         /\ ~o.svc.showCandidates
         /\ o.svc.hasLangButtons = svc.hasLangButtons
         /\ svc.engine => o.svc.engine
         /\ o.reply \in ReplyType /\ o.reply.message = "none"
         /\ o.reply.buttons = "none" /\ o.reply.keyboard = "none"
<1>1. PICK s \in Checked : o = Terminated(s, TRUE)
  BY DEF CompositionTerminated
<1>2. /\ s \in ServiceType
      /\ s.showCandidates = svc.showCandidates
      /\ s.hasLangButtons = svc.hasLangButtons
      /\ svc.engine => s.engine
  BY Checks
<1>3. PICK c \in BOOLEAN : c = (TRUE /\ s.engine /\ s.showCandidates)
  BY <1>2 DEF ServiceType
<1>4. /\ o.svc = [s EXCEPT !.composition = NoText, !.showCandidates = @ /\ ~c]
      /\ o.reply = [NoReply EXCEPT
                      !.candidates = IF c THEN "hide" ELSE "none"]
  <2>1. LET closes == TRUE /\ s.engine /\ s.showCandidates IN
        o = [svc |-> [s EXCEPT !.composition = NoText,
                               !.showCandidates = @ /\ ~closes],
             reply |-> [NoReply EXCEPT
                          !.candidates = IF closes THEN "hide" ELSE "none"]]
    BY <1>1 DEF Terminated, Outcome
  <2>2. o = [svc |-> [s EXCEPT !.composition = NoText,
                               !.showCandidates = @ /\ ~c],
             reply |-> [NoReply EXCEPT
                          !.candidates = IF c THEN "hide" ELSE "none"]]
    BY <1>3, <2>1
  <2>3. QED BY <2>2
<1>5. /\ o.svc \in ServiceType /\ o.svc.composition = NoText
      /\ o.svc.showCandidates = (s.showCandidates /\ ~c)
      /\ o.svc.hasLangButtons = s.hasLangButtons
      /\ o.svc.engine = s.engine
  BY <1>2, <1>4 DEF ServiceType, Strings
<1>6. /\ o.reply \in ReplyType /\ o.reply.message = "none"
      /\ o.reply.buttons = "none" /\ o.reply.keyboard = "none"
  BY <1>4, Silent DEF ReplyType
<1>7. ~(s.showCandidates /\ ~c)
  BY <1>2, <1>3
<1>8. QED BY <1>2, <1>5, <1>6, <1>7

(* A key, pressed or released. *)
LEMMA KeyPreserves ==
  ASSUME UIInv, AtRest, ui.open,
         \/ Call(KeyHandled, {}, TRUE, ui, <<>>)
         \/ Call(KeyUpHandled, {}, TRUE, ui, <<>>)
  PROVE  UIInv'
<1>1. /\ alive' = alive
      /\ stale' = ((stale \/ ~ready') /\ (ui'.composing \/ ui'.showing))
      /\ kept' = (kept /\ ui'.composing /\ ~ui'.open)
      /\ Remember
  BY DEF Call, Remember
<1>2. \/ /\ ready /\ ready' = ready /\ ui' = ui /\ unheard' = unheard
         /\ \E o \in KeyHandled \cup KeyUpHandled :
              /\ svc' = o.svc
              /\ stack' = <<Applying(o.reply, TRUE)>> \o <<>>
      \/ Refused({}, ui, <<>>) \/ Lost(ui, <<>>) \/ NotConnected(ui, <<>>)
  BY DEF Call, Answered
<1>3. CASE Refused({}, ui, <<>>) \/ Lost(ui, <<>>) \/ NotConnected(ui, <<>>)
  BY <1>1, <1>3, FailedCall
<1>4. CASE /\ ready /\ ready' = ready /\ ui' = ui /\ unheard' = unheard
           /\ \E o \in KeyHandled \cup KeyUpHandled :
                /\ svc' = o.svc
                /\ stack' = <<Applying(o.reply, TRUE)>> \o <<>>
  <2>1. PICK o \in KeyHandled \cup KeyUpHandled :
          /\ svc' = o.svc
          /\ stack' = <<Applying(o.reply, TRUE)>> \o <<>>
    BY <1>4
  <2>2. KeyOutcome(o)
    BY Resting, KeyOutcomes
  <2>3. PICK f \in Frames :
          /\ f = Applying(o.reply, TRUE) /\ f.at = "message"
          /\ f.session = TRUE /\ f.reply = o.reply
    BY <2>2, Applied DEF KeyOutcome
  <2>4. /\ stack' \in Seq(Frames) /\ stack' # <<>> /\ Len(stack') = 1
        /\ stack'[1] = f /\ Outermost(stack') = f
    <3>1. <<f>> \o <<>> = <<f>>
      OBVIOUS
    <3>2. stack' = <<f>>
      BY <2>1, <2>3, <3>1
    <3>3. QED BY <3>2, Single
  <2>5. KeyFrame(f)
    BY <2>2, <2>3 DEF KeyFrame, KeyOutcome, Parts, ServiceType
  <2>6. /\ Keyed' /\ ~Closing' /\ ~Releasing'
        /\ PendingComposition' <=> o.reply.composition # {}
        /\ PendingCandidates("show")' <=> o.reply.candidates = "show"
        /\ PendingCandidates("hide")' <=> o.reply.candidates = "hide"
        /\ ~PendingButtons("add")' /\ ~PendingButtons("remove")'
    <3>1. Keyed' /\ ~Closing'
      BY <2>3, <2>4 DEF Keyed, Closing
    <3>2. ~Releasing'
      <4>1. PICK n \in Nat : n = Len(stack')
        BY <2>4
      <4>2. n = 1 /\ ~(n > 1)
        BY <2>4, <4>1
      <4>3. stack'[1].at # "release"
        BY <2>3, <2>4
      <4>4. QED BY <4>1, <4>2, <4>3 DEF Releasing
    <3>3. /\ PendingComposition' <=> o.reply.composition # {}
          /\ PendingCandidates("show")' <=> o.reply.candidates = "show"
          /\ PendingCandidates("hide")' <=> o.reply.candidates = "hide"
      BY <2>3, <2>4, <3>1 DEF PendingComposition, PendingCandidates
    <3>4. ~PendingButtons("add")' /\ ~PendingButtons("remove")'
      BY <2>4, <2>5 DEF PendingButtons, KeyFrame
    <3>5. QED BY <3>1, <3>2, <3>3, <3>4
  <2>7. /\ ready' = ready /\ ready /\ ui' = ui /\ svc' \in ServiceType
        /\ svc'.hasLangButtons = svc.hasLangButtons
        /\ svc.engine \/ svc'.showCandidates => svc'.engine
        /\ unheard' = unheard
        /\ stale' \in BOOLEAN
        /\ ui.showing => stale' = stale
    BY <1>1, <1>4, <2>1, <2>2, Resting DEF KeyOutcome
  <2>8. TypeOK' /\ StackInv'
    BY <1>1, <2>4, <2>5, <2>7, Resting DEF TypeOK, StackInv, Shape
  <2>9. ConnectionInv' /\ EngineInv' /\ WindowInv'
    BY <2>7, Resting DEF ConnectionInv, EngineInv, WindowInv
  <2>10. ButtonsInv'
    BY <2>6, <2>7, Resting DEF ButtonsInv
  <2>11. CandidatesInv'
    <3>1. o.reply.candidates \in {"none", "show", "hide"}
      BY <2>2 DEF KeyOutcome, ReplyType
    <3>2. /\ o.reply.candidates = "show" => svc'.showCandidates
          /\ o.reply.candidates = "hide" => ~svc'.showCandidates
          /\ o.reply.candidates = "none" =>
               svc'.showCandidates = svc.showCandidates
      BY <2>1, <2>2 DEF KeyOutcome
    <3>3. QED BY <2>6, <2>7, <3>1, <3>2, Resting DEF CandidatesInv
  <2>12. CompositionInv'
    <3>1. IF o.reply.composition = {}
          THEN svc'.composition = svc.composition
          ELSE o.reply.composition = {svc'.composition}
      BY <2>1, <2>2 DEF KeyOutcome
    <3>2. Outermost(stack').reply = o.reply
      BY <2>3, <2>4
    <3>3. QED BY <2>6, <2>7, <3>1, <3>2, Resting DEF CompositionInv
  <2>13. ClosedInv'
    BY <2>3, <2>4, <2>6, <2>7 DEF ClosedInv
  <2>14. QED
    BY <2>8, <2>9, <2>10, <2>11, <2>12, <2>13 DEF UIInv
<1>5. QED BY <1>2, <1>3, <1>4

(* A request that changes nothing but what checkConfigChange does. *)
LEMMA OtherPreserves == UIInv /\ OtherRequest => UIInv'
<1> SUFFICES ASSUME UIInv, OtherRequest PROVE UIInv'
  OBVIOUS
<1>1. AtRest /\ Call(Nothing, {}, FALSE, ui, <<>>)
  BY DEF OtherRequest
<1>2. /\ alive' = alive
      /\ stale' = ((stale \/ ~ready') /\ (ui'.composing \/ ui'.showing))
      /\ kept' = (kept /\ ui'.composing /\ ~ui'.open)
      /\ Remember
  BY <1>1 DEF Call, Remember
<1>3. \/ Answered(Nothing, {}, FALSE, ui, <<>>)
      \/ Refused({}, ui, <<>>) \/ Lost(ui, <<>>) \/ NotConnected(ui, <<>>)
  BY <1>1 DEF Call
<1>4. CASE Refused({}, ui, <<>>) \/ Lost(ui, <<>>) \/ NotConnected(ui, <<>>)
  BY <1>1, <1>2, <1>4, FailedCall
<1>5. CASE Answered(Nothing, {}, FALSE, ui, <<>>)
  <2>1. PICK o \in Nothing :
          /\ svc' = o.svc
          /\ stack' = <<Applying(o.reply, FALSE)>> \o <<>>
    BY <1>5 DEF Answered
  <2>2. ready /\ ready' = ready /\ ui' = ui /\ unheard' = unheard
    BY <1>5 DEF Answered
  <2>3. PICK s \in Checked : o.svc = s /\ o.reply = NoReply
    BY DEF Nothing, Outcome
  <2>4. /\ svc' \in ServiceType /\ svc'.composition = svc.composition
        /\ svc'.showCandidates = svc.showCandidates
        /\ svc'.hasLangButtons = svc.hasLangButtons
        /\ svc.engine => svc'.engine
    BY <1>1, <2>1, <2>3, Checks, Resting
  <2>5. PICK f \in Frames :
          /\ f = Applying(NoReply, FALSE) /\ f.at = "message"
          /\ f.session = FALSE /\ f.reply = NoReply
    BY Silent, Applied
  <2>6. /\ stack' \in Seq(Frames) /\ stack' # <<>> /\ Len(stack') = 1
        /\ stack'[1] = f /\ Outermost(stack') = f
    <3>1. <<f>> \o <<>> = <<f>>
      OBVIOUS
    <3>2. stack' = <<f>>
      BY <2>1, <2>3, <2>5, <3>1
    <3>3. QED BY <3>2, Single
  <2>7. Told(f) /\ f.reply.buttons = "none"
    BY <2>5, Silent DEF Told
  <2>8. /\ ~Keyed' /\ ~Closing' /\ ~Releasing' /\ ~PendingComposition'
        /\ ~PendingCandidates("show")' /\ ~PendingCandidates("hide")'
        /\ ~PendingButtons("add")' /\ ~PendingButtons("remove")'
    <3>1. ~Keyed' /\ ~Closing'
      BY <2>5, <2>6 DEF Keyed, Closing
    <3>2. ~Releasing'
      <4>1. PICK n \in Nat : n = Len(stack')
        BY <2>6
      <4>2. n = 1 /\ ~(n > 1)
        BY <2>6, <4>1
      <4>3. stack'[1].at # "release"
        BY <2>5, <2>6
      <4>4. QED BY <4>1, <4>2, <4>3 DEF Releasing
    <3>3. /\ ~PendingComposition'
          /\ ~PendingCandidates("show")' /\ ~PendingCandidates("hide")'
      BY <3>1 DEF PendingComposition, PendingCandidates
    <3>4. ~PendingButtons("add")' /\ ~PendingButtons("remove")'
      BY <2>6, <2>7 DEF PendingButtons
    <3>5. QED BY <3>1, <3>2, <3>3, <3>4
  <2>9. TypeOK' /\ StackInv'
    BY <1>1, <1>2, <2>2, <2>4, <2>6, <2>7, Resting
    DEF TypeOK, StackInv, Shape
  <2>10. ConnectionInv' /\ EngineInv' /\ WindowInv'
    BY <1>1, <2>2, <2>4, Resting DEF ConnectionInv, EngineInv, WindowInv
  <2>11. ButtonsInv'
    BY <1>1, <2>2, <2>4, <2>8, Resting DEF ButtonsInv
  <2>12. CandidatesInv'
    BY <1>1, <1>2, <2>2, <2>4, <2>8, Resting DEF CandidatesInv
  <2>13. CompositionInv'
    BY <1>1, <2>2, <2>4, <2>8, Resting DEF CompositionInv
  <2>14. ClosedInv'
    BY <1>1, <1>2, <2>2, <2>5, <2>6, <2>8, Resting DEF ClosedInv, Blank
  <2>15. QED
    BY <2>9, <2>10, <2>11, <2>12, <2>13, <2>14 DEF UIInv
<1>6. QED BY <1>3, <1>4, <1>5

(* Another application ends the composition. *)
LEMMA ForcePreserves == UIInv /\ ForceTermination => UIInv'
<1> SUFFICES ASSUME UIInv, ForceTermination PROVE UIInv'
  OBVIOUS
<1>1. AtRest /\ ui.composing
  BY DEF ForceTermination
<1>2. PICK u : u = WithoutMessage(IF ui.showing THEN WithoutCandidates(ui)
                                  ELSE ui)
  OBVIOUS
<1>3. /\ u \in UIType /\ u.bar = ui.bar /\ u.buttons = ui.buttons
      /\ u.composing = ui.composing /\ u.text = ui.text
      /\ ~u.showing /\ u.window = u.showing /\ u.open = ui.open
      /\ u.showing = FALSE /\ ~u.message
  <2>1. PICK v : v = IF ui.showing THEN WithoutCandidates(ui) ELSE ui
    OBVIOUS
  <2>2. /\ v \in UIType /\ v.bar = ui.bar /\ v.buttons = ui.buttons
        /\ v.composing = ui.composing /\ v.text = ui.text
        /\ ~v.showing /\ ~v.window /\ v.open = ui.open
    <3>1. CASE ui.showing
      BY <1>1, <2>1, <3>1, Resting, Screens
    <3>2. CASE ~ui.showing
      BY <1>1, <2>1, <3>2, Resting
    <3>3. QED BY <3>1, <3>2
  <2>3. v.showing = FALSE /\ v.window = FALSE
    BY <2>2 DEF UIType
  <2>4. v.bar = IF v.buttons THEN 1 ELSE 0
    BY <1>1, <2>2, Resting
  <2>5. u = WithoutMessage(v)
    BY <1>2, <2>1
  <2>6. /\ u \in UIType /\ u.bar = v.bar /\ u.buttons = v.buttons
        /\ u.composing = v.composing /\ u.text = v.text
        /\ u.showing = v.showing /\ u.window = v.window /\ u.open = v.open
        /\ ~u.message
    BY <2>2, <2>4, <2>5, Screens
  <2>7. QED BY <2>2, <2>3, <2>6
<1> u.bar = IF u.buttons THEN 1 ELSE 0
  BY <1>1, <1>3, Resting
<1>4. LET w == Reset(u) IN
      /\ w \in UIType /\ w.bar = 0 /\ ~w.buttons
      /\ w.composing = u.composing /\ w.text = u.text
      /\ w.showing = u.showing /\ w.window = u.window
      /\ w.message = u.message /\ w.open = u.open
  BY <1>3, Screens
<1>5. PICK e \in Frames : e = Rest("release") /\ Remains(e, {"release"})
  BY Rested
<1>6. Call(CompositionTerminated(TRUE), {"end"}, FALSE, u, <<e>>)
  BY <1>2, <1>5 DEF ForceTermination
<1>7. /\ alive' = alive
      /\ stale' = ((stale \/ ~ready') /\ (ui'.composing \/ ui'.showing))
      /\ kept' = (kept /\ ui'.composing /\ ~ui'.open)
  BY <1>6 DEF Call, Remember
<1>8. /\ <<e>> \in Seq(Frames) /\ <<e>> # <<>> /\ Len(<<e>>) = 1
      /\ <<e>>[1] = e /\ Outermost(<<e>>) = e
  BY Single
<1>9. NewService \in ServiceType /\ NewService.composition = NoText
        /\ ~NewService.showCandidates /\ ~NewService.hasLangButtons
  BY DEF NewService, ServiceType, Strings
<1>10. /\ ui' \in UIType /\ svc' \in ServiceType
       /\ svc'.composition = NoText \/ "end" \in unheard'
       /\ ~svc'.showCandidates /\ unheard' \subseteq News
       /\ ui'.bar = IF ui'.buttons THEN 1 ELSE 0
       /\ ui'.composing /\ ui'.showing = FALSE /\ ui'.window = ui'.showing
       /\ ui'.open = ui.open /\ ~ui'.message
       /\ \/ ready' = FALSE /\ svc' = NewService /\ ~ui'.buttons
          \/ /\ ready /\ ready' = ready /\ ui'.buttons = ui.buttons
             /\ svc'.hasLangButtons = svc.hasLangButtons
             /\ svc.engine => svc'.engine
             /\ "opening" \in unheard' <=> "opening" \in unheard
       /\ \/ stack' = <<e>>
          \/ \E q \in Frames : /\ stack' = <<q>> \o <<e>>
                               /\ Quiet(q) /\ q.at = "message"
  <2>1. \/ Answered(CompositionTerminated(TRUE), {"end"}, FALSE, u, <<e>>)
        \/ Refused({"end"}, u, <<e>>) \/ Lost(u, <<e>>)
        \/ NotConnected(u, <<e>>)
    BY <1>6 DEF Call
  <2>2. CASE Answered(CompositionTerminated(TRUE), {"end"}, FALSE, u, <<e>>)
    <3>1. PICK o \in CompositionTerminated(TRUE) :
            /\ svc' = o.svc
            /\ stack' = <<Applying(o.reply, FALSE)>> \o <<e>>
      BY <2>2 DEF Answered
    <3>2. /\ o.svc \in ServiceType /\ o.svc.composition = NoText
          /\ ~o.svc.showCandidates
          /\ o.svc.hasLangButtons = svc.hasLangButtons
          /\ svc.engine => o.svc.engine
          /\ o.reply \in ReplyType /\ o.reply.message = "none"
          /\ o.reply.buttons = "none" /\ o.reply.keyboard = "none"
      BY <1>1, Resting, ForcedEnd
    <3>3. /\ Applying(o.reply, FALSE) \in Frames
          /\ Applying(o.reply, FALSE).at = "message"
          /\ Quiet(Applying(o.reply, FALSE))
      BY <3>2, Applied DEF Quiet, Told
    <3>4. /\ ready /\ ready' = ready /\ ui' = u
          /\ unheard' = unheard \ {"end"}
      BY <2>2 DEF Answered
    <3>5. /\ unheard' \subseteq News
          /\ "opening" \in unheard' <=> "opening" \in unheard
      BY <1>1, <3>4, Resting
    <3>6. QED
      BY <1>1, <1>3, <3>1, <3>2, <3>3, <3>4, <3>5, Resting
  <2>3. CASE Refused({"end"}, u, <<e>>)
    <3>1. /\ ready /\ ready' = ready /\ ui' = u /\ svc' = svc
          /\ stack' = <<e>> /\ ~svc.engine
          /\ unheard' = unheard \cup {"end"}
      BY <2>3 DEF Refused
    <3>2. /\ unheard' \subseteq News /\ "end" \in unheard'
          /\ "opening" \in unheard' <=> "opening" \in unheard
      BY <1>1, <3>1, Resting DEF News
    <3>3. QED BY <1>1, <1>3, <3>1, <3>2, Resting
  <2>4. CASE Lost(u, <<e>>)
    BY <1>1, <1>3, <1>4, <1>9, <2>4 DEF Lost
  <2>5. CASE NotConnected(u, <<e>>)
    <3>1. ready' = FALSE /\ svc' = NewService /\ ~ui.buttons
      BY <1>1, <2>5, Resting DEF NotConnected
    <3>2. QED BY <1>1, <1>3, <1>9, <2>5, <3>1, Resting DEF NotConnected
  <2>6. QED BY <2>1, <2>2, <2>3, <2>4, <2>5
<1>11. /\ stack' \in Seq(Frames) /\ stack' # <<>> /\ Shape(stack')
       /\ Outermost(stack') = e
       /\ stack'[1].at \in {"message", "release"}
       /\ stack'[1].at = "message" => stack'[1].reply.buttons = "none"
  <2>1. CASE stack' = <<e>>
    BY <1>5, <1>8, <2>1 DEF Shape, Remains
  <2>2. CASE \E q \in Frames : /\ stack' = <<q>> \o <<e>>
                               /\ Quiet(q) /\ q.at = "message"
    <3> PICK q \in Frames : /\ stack' = <<q>> \o <<e>>
                            /\ Quiet(q) /\ q.at = "message"
      BY <2>2
    <3>1. PICK b \in Seq(Frames) : b = <<e>>
      BY <1>8
    <3>2. /\ <<q>> \o b \in Seq(Frames) /\ <<q>> \o b # <<>>
          /\ Len(<<q>> \o b) = Len(b) + 1 /\ (<<q>> \o b)[1] = q
          /\ Len(b) > 0 => (<<q>> \o b)[2] = b[1]
          /\ Outermost(<<q>> \o b) = IF b = <<>> THEN q ELSE Outermost(b)
      BY Push
    <3>3. Len(b) = 1 /\ b[1] = e /\ b # <<>> /\ Outermost(b) = e
      BY <1>8, <3>1
    <3>4. /\ stack' \in Seq(Frames) /\ stack' # <<>> /\ Len(stack') = 2
          /\ stack'[1] = q /\ stack'[2] = e /\ Outermost(stack') = e
      BY <3>1, <3>2, <3>3
    <3>5. QED BY <1>5, <3>4 DEF Shape, Quiet
  <2>3. QED BY <1>10, <2>1, <2>2
<1>12. /\ ~Keyed' /\ ~Closing'
       /\ ~PendingCandidates("show")' /\ ~PendingCandidates("hide")'
       /\ ~PendingButtons("add")' /\ ~PendingButtons("remove")'
  BY <1>5, <1>11
  DEF Keyed, Closing, PendingCandidates, PendingButtons, Remains
<1>13. TypeOK' /\ StackInv'
  BY <1>1, <1>7, <1>10, <1>11, Resting DEF TypeOK, StackInv, UIType
<1>14. ConnectionInv'
  BY <1>1, <1>7, <1>10, Resting DEF ConnectionInv
<1>15. EngineInv' /\ WindowInv'
  BY <1>1, <1>9, <1>10, Resting DEF EngineInv, WindowInv
<1>16. ButtonsInv'
  BY <1>1, <1>10, <1>12, Resting DEF ButtonsInv
<1>17. CandidatesInv' /\ CompositionInv'
  BY <1>10, <1>12 DEF CandidatesInv, CompositionInv
<1>18. ClosedInv'
  BY <1>1, <1>7, <1>10, <1>11, <1>12, Resting DEF ClosedInv, Blank
<1> QED
  BY <1>13, <1>14, <1>15, <1>16, <1>17, <1>18 DEF UIInv

(* A keyboard that changes, with the service told of it: its answer is     *)
(* about the buttons only.                                                 *)
LEMMA Changed ==
  ASSUME svc \in ServiceType, NEW opened \in BOOLEAN,
         NEW o \in KeyboardChanged(opened)
  PROVE  /\ o.svc \in ServiceType /\ o.svc.composition = svc.composition
         /\ o.svc.showCandidates = (opened /\ svc.showCandidates)
         /\ o.svc.hasLangButtons = opened
         /\ opened => o.svc.engine
         /\ o.reply \in ReplyType /\ o.reply.message = "none"
         /\ o.reply.keyboard = "none"
         /\ o.reply.buttons =
              IF opened = svc.hasLangButtons THEN "none"
              ELSE IF opened THEN "add" ELSE "remove"
<1>1. PICK s \in Checked : o = IF opened THEN Opened(s) ELSE Closed(s)
  BY DEF KeyboardChanged
<1> /\ s \in ServiceType /\ s.composition = svc.composition
    /\ s.showCandidates = svc.showCandidates
    /\ s.hasLangButtons = svc.hasLangButtons
  BY Checks
<1>2. CASE opened
  <2>1. PICK b \in {"none", "add"} :
          b = IF s.hasLangButtons THEN "none" ELSE "add"
    OBVIOUS
  <2>2. /\ o.svc = [s EXCEPT !.engine = TRUE, !.hasLangButtons = TRUE]
        /\ o.reply = [NoReply EXCEPT !.buttons = b]
    BY <1>1, <1>2, <2>1 DEF Opened, Outcome
  <2>3. /\ o.svc \in ServiceType /\ o.svc.composition = s.composition
        /\ o.svc.showCandidates = s.showCandidates
        /\ o.svc.hasLangButtons = TRUE /\ o.svc.engine
    BY <2>2 DEF ServiceType
  <2>4. /\ o.reply \in ReplyType /\ o.reply.message = "none"
        /\ o.reply.keyboard = "none" /\ o.reply.buttons = b
    BY <2>2, Silent DEF ReplyType
  <2>5. opened = TRUE /\ s.showCandidates = (opened /\ s.showCandidates)
        /\ s.hasLangButtons \in BOOLEAN
    BY <1>2 DEF ServiceType
  <2>6. QED BY <1>1, <1>2, <2>1, <2>3, <2>4, <2>5
<1>3. CASE ~opened
  <2>1. PICK b \in {"none", "remove"} :
          b = IF s.hasLangButtons THEN "remove" ELSE "none"
    OBVIOUS
  <2>2. PICK c \in {"none", "hide"} :
          c = IF s.showCandidates THEN "hide" ELSE "none"
    OBVIOUS
  <2>3. /\ o.svc = [s EXCEPT !.engine = FALSE, !.hasLangButtons = FALSE,
                             !.showCandidates = FALSE]
        /\ o.reply = [NoReply EXCEPT !.candidates = c, !.buttons = b]
    BY <1>1, <1>3, <2>1, <2>2 DEF Closed, Outcome
  <2>4. /\ o.svc \in ServiceType /\ o.svc.composition = s.composition
        /\ o.svc.showCandidates = FALSE /\ o.svc.hasLangButtons = FALSE
    BY <2>3 DEF ServiceType
  <2>5. /\ o.reply \in ReplyType /\ o.reply.message = "none"
        /\ o.reply.keyboard = "none" /\ o.reply.buttons = b
    BY <2>3, Silent DEF ReplyType
  <2>6. opened = FALSE /\ s.hasLangButtons \in BOOLEAN
    BY <1>3 DEF ServiceType
  <2>7. QED BY <1>1, <1>3, <2>1, <2>4, <2>5, <2>6
<1>4. QED BY <1>2, <1>3

(* The keyboard changes, either by hand or because a reply has asked for   *)
(* it: in both cases nothing else is going on.                             *)
LEMMA KeyboardPreserves ==
  ASSUME UIInv, ~Keyed, ~Closing,
         ~PendingButtons("add"), ~PendingButtons("remove"),
         NEW opened \in BOOLEAN, opened = ~ui.open, KeyboardIs(opened, <<>>)
  PROVE  UIInv'
<1>1. /\ alive \in BOOLEAN /\ ready \in BOOLEAN /\ stale \in BOOLEAN
      /\ kept \in BOOLEAN /\ ui \in UIType /\ svc \in ServiceType
      /\ ui.open \in BOOLEAN /\ ui.buttons \in BOOLEAN
      /\ ui.showing \in BOOLEAN /\ ui.composing \in BOOLEAN
      /\ svc.showCandidates \in BOOLEAN /\ svc.hasLangButtons \in BOOLEAN
  BY DEF UIInv, TypeOK, UIType, ServiceType
<1>2. /\ ui.bar = IF ui.buttons THEN 1 ELSE 0
      /\ ui.window = ui.showing
      /\ ready =>
           /\ svc.hasLangButtons = (ui.open /\ "opening" \notin unheard)
           /\ ui.buttons = svc.hasLangButtons
      /\ svc.hasLangButtons \/ svc.showCandidates => svc.engine
      /\ unheard \subseteq News
  BY <1>1 DEF UIInv, TypeOK, ButtonsInv, WindowInv, EngineInv
<1>3. /\ ~ready => svc = NewService /\ ~ui.buttons
      /\ svc.showCandidates => ui.showing
      /\ svc.composition # NoText /\ "end" \notin unheard =>
           ui.composing /\ ui.text = svc.composition
      /\ opened => ~ui.showing /\ ~ui.window /\ ~ui.message
  BY <1>1
  DEF UIInv, ConnectionInv, CandidatesInv, CompositionInv, ClosedInv, Blank,
      PendingCandidates, PendingComposition
<1>4. PICK u : u = [ui EXCEPT !.open = opened]
  OBVIOUS
<1>5. /\ u \in UIType /\ u.bar = ui.bar /\ u.buttons = ui.buttons
      /\ u.composing = ui.composing /\ u.text = ui.text
      /\ u.showing = ui.showing /\ u.window = ui.window
      /\ u.message = ui.message /\ u.open = opened
  BY <1>1, <1>4 DEF UIType
<1>6. LET v == Reset(u) IN
      /\ v \in UIType /\ v.bar = 0 /\ ~v.buttons
      /\ v.composing = u.composing /\ v.text = u.text
      /\ v.showing = u.showing /\ v.window = u.window
      /\ v.message = u.message /\ v.open = u.open
  <2>1. u.bar = IF u.buttons THEN 1 ELSE 0
    BY <1>2, <1>5
  <2>2. QED BY <1>5, <2>1, Screens
<1>7. PICK e \in Frames : e = Rest("closing") /\ Remains(e, {"closing"})
  BY Rested
<1>8. PICK below \in Seq(Frames) :
        below = IF opened THEN <<>> ELSE <<e>>
  <2>1. <<>> \in Seq(Frames) /\ <<e>> \in Seq(Frames)
    BY Single
  <2>2. (IF opened THEN <<>> ELSE <<e>>) \in Seq(Frames)
    BY <2>1
  <2>3. QED BY <2>2
<1>9. IF opened THEN below = <<>> /\ Len(below) = 0
      ELSE /\ below = <<e>> /\ Len(below) = 1 /\ below # <<>> /\ below[1] = e
           /\ Outermost(below) = e
  <2>1. CASE opened
    BY <1>8, <2>1
  <2>2. CASE ~opened
    BY <1>8, <2>2, Single
  <2>3. QED BY <2>1, <2>2
<1> DEFINE news == IF opened THEN {"opening"} ELSE {}
<1>10. Call(KeyboardChanged(opened), news, FALSE, u, below)
  <2>1. below = IF opened THEN <<>> ELSE <<e>> \o <<>>
    BY <1>8
  <2>2. QED BY <1>4, <1>7, <2>1 DEF KeyboardIs
<1>11. /\ alive' = alive
       /\ stale' = ((stale \/ ~ready') /\ (ui'.composing \/ ui'.showing))
       /\ kept' = (kept /\ ui'.composing /\ ~ui'.open)
  BY <1>10 DEF Call, Remember
<1>12. \/ Answered(KeyboardChanged(opened), news, FALSE, u, below)
       \/ Refused(news, u, below) \/ Lost(u, below)
       \/ NotConnected(u, below)
  BY <1>10 DEF Call
<1>13. CASE Answered(KeyboardChanged(opened), news, FALSE, u, below)
  <2>1. PICK o \in KeyboardChanged(opened) :
          /\ svc' = o.svc
          /\ stack' = <<Applying(o.reply, FALSE)>> \o below
    BY <1>13 DEF Answered
  <2> /\ ready /\ ready' = ready /\ ui' = u
      /\ unheard' = unheard \ news /\ unheard' \subseteq News
      /\ opened => "opening" \notin unheard'
      /\ "end" \in unheard' <=> "end" \in unheard
    BY <1>2, <1>13 DEF Answered
  <2>2. /\ o.svc \in ServiceType /\ o.svc.composition = svc.composition
        /\ o.svc.showCandidates = (opened /\ svc.showCandidates)
        /\ o.svc.hasLangButtons = opened
        /\ opened => o.svc.engine
        /\ o.reply \in ReplyType /\ o.reply.message = "none"
        /\ o.reply.keyboard = "none"
        /\ o.reply.buttons = IF opened = svc.hasLangButtons THEN "none"
                             ELSE IF opened THEN "add" ELSE "remove"
    <3>1. svc \in ServiceType
      BY <1>1
    <3>2. QED BY <3>1, Changed, Zenon
  <2>3. PICK q \in Frames :
          /\ q = Applying(o.reply, FALSE) /\ q.at = "message"
          /\ q.session = FALSE /\ q.reply = o.reply
    BY <2>2, Applied
  <2>4. /\ stack' \in Seq(Frames) /\ stack' # <<>>
        /\ Len(stack') = Len(below) + 1 /\ stack'[1] = q
        /\ Len(below) > 0 => stack'[2] = below[1]
        /\ Outermost(stack') = IF below = <<>> THEN q ELSE Outermost(below)
    <3>1. stack' = <<q>> \o below
      BY <2>1, <2>3
    <3>2. QED BY <3>1, Push
  <2>5. Told(q) /\ q.reply.keyboard = "none"
    BY <2>2, <2>3 DEF Told
  <2>6. /\ Shape(stack') /\ Outermost(stack') = IF opened THEN q ELSE e
        /\ ~Releasing'
    <3>1. CASE opened
      <4>1. Len(stack') = 1 /\ Outermost(stack') = q
        BY <1>9, <2>4, <3>1
      <4>2. ~(Len(stack') > 1)
        BY <4>1
      <4>3. QED BY <2>3, <2>4, <2>5, <3>1, <4>1, <4>2 DEF Shape, Releasing
    <3>2. CASE ~opened
      <4>1. Len(stack') = 2 /\ Outermost(stack') = e /\ stack'[2] = e
        <5>1. Len(below) = 1 /\ below # <<>> /\ below[1] = e
                /\ Outermost(below) = e
          BY <1>9, <3>2
        <5>2. QED BY <2>4, <5>1
      <4>2. e.at # "release"
        BY <1>7 DEF Remains
      <4>3. QED
        BY <1>7, <2>3, <2>4, <2>5, <3>2, <4>1, <4>2 DEF Shape, Releasing
    <3>3. QED BY <3>1, <3>2
  <2>7. ~Keyed' /\ (Closing' <=> ~opened)
    <3>1. CASE opened
      BY <2>3, <2>4, <2>6, <3>1 DEF Keyed, Closing
    <3>2. CASE ~opened
      BY <1>7, <2>4, <2>6, <3>2 DEF Keyed, Closing, Remains
    <3>3. QED BY <3>1, <3>2
  <2>8. /\ ~PendingCandidates("show")' /\ ~PendingCandidates("hide")'
        /\ ~PendingComposition'
        /\ PendingButtons("add")' <=> o.reply.buttons = "add"
        /\ PendingButtons("remove")' <=> o.reply.buttons = "remove"
    <3>1. /\ ~PendingCandidates("show")' /\ ~PendingCandidates("hide")'
          /\ ~PendingComposition'
      BY <2>7 DEF PendingCandidates, PendingComposition
    <3>2. /\ PendingButtons("add")' <=> o.reply.buttons = "add"
          /\ PendingButtons("remove")' <=> o.reply.buttons = "remove"
      BY <2>3, <2>4 DEF PendingButtons
    <3>3. QED BY <3>1, <3>2
  <2>9. TypeOK' /\ StackInv'
    BY <1>1, <1>5, <1>11, <2>1, <2>2, <2>4, <2>6
    DEF TypeOK, StackInv, UIType
  <2>10. ConnectionInv' /\ EngineInv' /\ WindowInv'
    BY <1>2, <1>5, <2>1, <2>2 DEF ConnectionInv, EngineInv, WindowInv
  <2>11. ButtonsInv'
    <3>1. /\ svc'.hasLangButtons = opened
          /\ ui'.open = opened /\ ui'.buttons = ui.buttons
          /\ ui'.bar = ui.bar
      BY <1>5, <2>1, <2>2
    <3>2. ui.buttons = svc.hasLangButtons /\ (opened => ~svc.hasLangButtons)
      BY <1>1, <1>2
    <3>3. CASE opened
      <4>1. o.reply.buttons = "add" /\ ~ui.buttons
        BY <1>1, <2>2, <3>2, <3>3
      <4>2. QED BY <1>2, <2>8, <3>1, <3>2, <3>3, <4>1 DEF ButtonsInv
    <3>4. CASE ~opened
      <4>1. o.reply.buttons = IF ui.buttons THEN "remove" ELSE "none"
        BY <1>1, <2>2, <3>2, <3>4
      <4>2. QED BY <1>1, <1>2, <2>8, <3>1, <3>2, <3>4, <4>1 DEF ButtonsInv
    <3>5. QED BY <3>3, <3>4
  <2>12. CandidatesInv'
    BY <1>3, <1>5, <1>11, <2>1, <2>2, <2>7, <2>8 DEF CandidatesInv
  <2>13. CompositionInv'
    BY <1>3, <1>5, <2>1, <2>2, <2>6, <2>8 DEF CompositionInv
  <2>14. ClosedInv'
    BY <1>5, <2>3, <2>4, <2>7 DEF ClosedInv
  <2>15. QED
    BY <2>9, <2>10, <2>11, <2>12, <2>13, <2>14 DEF UIInv
<1>14. ASSUME stack' = below, ui' \in UIType, svc' \in ServiceType,
              ui'.composing = ui.composing, ui'.text = ui.text,
              ui'.showing = ui.showing, ui'.window = ui.window,
              ui'.message = ui.message, ui'.open = opened,
              ui'.bar = IF ui'.buttons THEN 1 ELSE 0,
              unheard' \subseteq News, ready' \in BOOLEAN,
              ~svc'.showCandidates,
              svc'.hasLangButtons => svc'.engine,
              ready' =>
                /\ svc'.hasLangButtons =
                     (opened /\ "opening" \notin unheard')
                /\ ui'.buttons = svc'.hasLangButtons
                /\ ready /\ svc' = svc,
              ~ready' => svc' = NewService /\ ~ui'.buttons,
              svc'.composition # NoText /\ "end" \notin unheard' =>
                ui.composing /\ ui.text = svc'.composition
       PROVE  UIInv'
  <2>1. /\ ~Keyed' /\ Shape(stack') /\ ~Releasing'
        /\ ~PendingButtons("add")' /\ ~PendingButtons("remove")'
        /\ stack' = <<>> \/ stack'[1].at # "hiding"
    <3>1. CASE opened
      BY <1>9, <1>14, <3>1 DEF Keyed, Shape, PendingButtons, Releasing
    <3>2. CASE ~opened
      <4>1. stack' # <<>> /\ Len(stack') = 1 /\ stack'[1] = e
              /\ Outermost(stack') = e
        BY <1>9, <1>14, <3>2
      <4>2. ~(Len(stack') > 1)
        BY <4>1
      <4>3. QED
        BY <1>7, <4>1, <4>2
        DEF Keyed, Shape, PendingButtons, Remains, Releasing
    <3>3. QED BY <3>1, <3>2
  <2>2. Closing' <=> ~opened
    <3>1. CASE opened
      BY <1>9, <1>14, <3>1 DEF Closing
    <3>2. CASE ~opened
      BY <1>7, <1>9, <1>14, <3>2 DEF Closing, Remains
    <3>3. QED BY <3>1, <3>2
  <2>3. /\ ~PendingCandidates("show")' /\ ~PendingCandidates("hide")'
        /\ ~PendingComposition'
    BY <2>1 DEF PendingCandidates, PendingComposition
  <2>4. TypeOK' /\ StackInv'
    BY <1>1, <1>8, <1>11, <1>14, <2>1 DEF TypeOK, StackInv, UIType
  <2>5. ConnectionInv' /\ EngineInv' /\ WindowInv'
    BY <1>1, <1>2, <1>11, <1>14 DEF ConnectionInv, EngineInv, WindowInv
  <2>6. ButtonsInv'
    BY <1>14, <2>1 DEF ButtonsInv
  <2>7. CandidatesInv'
    BY <1>3, <1>11, <1>14, <2>2, <2>3 DEF CandidatesInv
  <2>8. CompositionInv'
    BY <1>14, <2>1, <2>3 DEF CompositionInv
  <2>9. ClosedInv'
    BY <1>3, <1>14, <2>1, <2>2 DEF ClosedInv, Blank
  <2>10. QED BY <2>4, <2>5, <2>6, <2>7, <2>8, <2>9 DEF UIInv
<1>15. CASE Refused(news, u, below)
  <2>1. /\ ready /\ ready' = ready /\ svc' = svc /\ ui' = u
        /\ stack' = below /\ unheard' = unheard \cup news
        /\ ~svc.engine
    BY <1>15 DEF Refused
  <2>2. /\ unheard' \subseteq News /\ (opened => "opening" \in unheard')
        /\ "end" \in unheard' <=> "end" \in unheard
    BY <1>2, <2>1 DEF News
  <2>3. QED BY <1>1, <1>2, <1>3, <1>5, <1>14, <2>1, <2>2
<1>16. CASE Lost(u, below) \/ NotConnected(u, below)
  <2>1. /\ ui' \in UIType /\ ui'.bar = 0 /\ ~ui'.buttons
        /\ ui'.composing = ui.composing /\ ui'.text = ui.text
        /\ ui'.showing = ui.showing /\ ui'.window = ui.window
        /\ ui'.message = ui.message /\ ui'.open = opened
        /\ ready' = FALSE /\ svc' = NewService /\ stack' = below
        /\ unheard' \subseteq News
    <3>1. CASE Lost(u, below)
      BY <1>5, <1>6, <3>1 DEF Lost
    <3>2. CASE NotConnected(u, below)
      BY <1>1, <1>2, <1>3, <1>5, <3>2 DEF NotConnected
    <3>3. QED BY <1>16, <3>1, <3>2
  <2>2. /\ NewService \in ServiceType /\ NewService.composition = NoText
        /\ ~NewService.showCandidates /\ ~NewService.hasLangButtons
    BY DEF NewService, ServiceType, Strings
  <2>3. QED BY <1>14, <2>1, <2>2
<1>17. QED BY <1>12, <1>13, <1>15, <1>16

(* The part about the keyboard: only the reply to onActivate asks for a    *)
(* change, and it is applied on its own.                                   *)
LEMMA KeyboardStatusPreserves == UIInv /\ UpdateKeyboardStatus => UIInv'
<1> SUFFICES ASSUME UIInv, UpdateKeyboardStatus PROVE UIInv'
  OBVIOUS
<1>1. At("keyboard")
  BY DEF UpdateKeyboardStatus
<1>2. /\ stack \in Seq(Frames) /\ stack # <<>> /\ Len(stack) \in Nat \ {0}
      /\ stack[1] = Head(stack) /\ stack[1] \in Frames
      /\ stack[1].at = "keyboard"
      /\ Tail(stack) = <<>> <=> Len(stack) = 1
      /\ Outermost(stack) = IF Tail(stack) = <<>> THEN stack[1]
                            ELSE Outermost(Tail(stack))
  BY <1>1, Pop DEF UIInv, TypeOK, At
<1>3. PICK k \in {"none", "open", "close"} : k = stack[1].reply.keyboard
  BY <1>2 DEF Frames, ReplyType
<1>4. CASE k # "none" /\ ui.open # (k = "open")
  <2>1. KeyboardIs(k = "open", Outer)
    BY <1>2, <1>3, <1>4 DEF UpdateKeyboardStatus, Frame
  <2>2. Len(stack) = 1 /\ Told(stack[1])
    <3>1. ~KeyFrame(stack[1]) /\ ~Quiet(stack[1])
      BY <1>3, <1>4 DEF KeyFrame, Quiet
    <3>2. /\ ~Remains(stack[1], {"release"})
          /\ ~Remains(stack[1], {"release", "closing", "hiding"})
      BY <1>2 DEF Remains
    <3>3. stack[1].reply.keyboard # "none" /\ Len(stack) # 0
      BY <1>2, <1>3, <1>4
    <3>4. QED BY <3>1, <3>2, <3>3 DEF UIInv, StackInv, Shape
  <2>3. Outer = <<>> /\ Outermost(stack) = stack[1]
    BY <1>2, <2>2 DEF Outer
  <2>4. /\ ~Keyed /\ ~Closing
        /\ ~PendingButtons("add") /\ ~PendingButtons("remove")
    BY <1>2, <2>2, <2>3 DEF Keyed, Closing, PendingButtons, Told
  <2>5. PICK opened \in BOOLEAN : opened = (k = "open")
    OBVIOUS
  <2>6. opened = ~ui.open
    BY <1>4, <2>5 DEF UIInv, TypeOK, UIType
  <2>7. KeyboardIs(opened, <<>>)
    BY <2>1, <2>3, <2>5
  <2>8. QED BY <2>4, <2>6, <2>7, KeyboardPreserves
<1>5. CASE ~(k # "none" /\ ui.open # (k = "open"))
  <2>1. Apply(ui, Outer)
    BY <1>2, <1>3, <1>5 DEF UpdateKeyboardStatus, Frame
  <2>2. QED BY <1>1, <2>1, AppliedPreserves
<1>6. QED BY <1>4, <1>5

LEMMA TogglePreserves == UIInv /\ ToggleKeyboard => UIInv'
<1> SUFFICES ASSUME UIInv, ToggleKeyboard PROVE UIInv'
  OBVIOUS
<1>1. AtRest
  BY DEF ToggleKeyboard
<1>2. PICK opened \in BOOLEAN : opened = ~ui.open
  BY <1>1, Resting
<1>3. KeyboardIs(opened, <<>>)
  BY <1>2 DEF ToggleKeyboard
<1>4. /\ ~Keyed /\ ~Closing
      /\ ~PendingButtons("add") /\ ~PendingButtons("remove")
  BY <1>1 DEF AtRest, Keyed, Closing, PendingButtons
<1>5. QED BY <1>2, <1>3, <1>4, KeyboardPreserves

-----------------------------------------------------------------------------
(* The invariant is inductive *)

LEMMA UIInit == Init => UIInv
<1> SUFFICES ASSUME Init PROVE UIInv
  OBVIOUS
<1>1. /\ alive = FALSE /\ ready = FALSE /\ stale = FALSE /\ kept = FALSE
      /\ stack = <<>>
      /\ unheard = {} /\ svc = NewService
      /\ ui \in UIType /\ ui.bar = 0 /\ ui.buttons = FALSE
      /\ ui.composing = FALSE /\ ui.showing = FALSE /\ ui.window = FALSE
      /\ ui.message = FALSE
  <2>1. 0 \in 0 .. 2
    OBVIOUS
  <2>2. ui \in UIType
    BY <2>1 DEF Init, UIType, Strings
  <2>3. QED BY <2>2 DEF Init
<1>2. /\ NewService \in ServiceType /\ NewService.composition = NoText
      /\ ~NewService.showCandidates /\ ~NewService.hasLangButtons
  BY DEF NewService, ServiceType, Strings
<1>3. Len(stack) = 0
  BY <1>1
<1>4. /\ ~Keyed /\ ~Closing
      /\ ~PendingCandidates("show") /\ ~PendingCandidates("hide")
      /\ ~PendingButtons("add") /\ ~PendingButtons("remove")
  BY <1>1 DEF Keyed, Closing, PendingCandidates, PendingButtons
<1>5. TypeOK /\ StackInv
  <2>1. stack \in Seq(Frames)
    BY <1>1
  <2>2. TypeOK
    BY <1>1, <1>2, <2>1 DEF TypeOK
  <2>3. StackInv
    BY <1>3 DEF StackInv, Shape
  <2>4. QED BY <2>2, <2>3
<1>6. ConnectionInv /\ EngineInv /\ WindowInv
  BY <1>1, <1>2 DEF ConnectionInv, EngineInv, WindowInv
<1>7. ButtonsInv /\ CandidatesInv /\ CompositionInv
  BY <1>1, <1>2, <1>4 DEF ButtonsInv, CandidatesInv, CompositionInv
<1>8. ClosedInv
  BY <1>1, <1>4 DEF ClosedInv, Blank
<1>9. QED BY <1>5, <1>6, <1>7, <1>8 DEF UIInv

LEMMA UIStep == UIInv /\ [Next]_vars => UIInv'
<1> SUFFICES ASSUME UIInv, [Next]_vars PROVE UIInv'
  OBVIOUS
<1>1. CASE \/ UpdateMessageWindow \/ UpdateCandidateList
           \/ UpdateCommitString \/ UpdateComposition
           \/ UpdateLanguageButtons \/ UpdateKeyboardStatus
  BY <1>1, MessagePreserves, CandidatesPreserves, CommitPreserves,
     CompositionPreserves, ButtonsPreserves, KeyboardStatusPreserves
<1>2. CASE \/ ReleaseComposition \/ CloseKeyboard \/ CloseWithoutContext
           \/ HideAll
  BY <1>2, ReleasePreserves, ClosePreserves, LeavePreserves, HidePreserves
<1>3. CASE ActivateProfile \/ Connected \/ CloseClient
  BY <1>3, ActivatePreserves, ConnectedPreserves, ClosePreservesAll
<1>4. CASE KeyDown \/ KeyUp \/ OtherRequest
  BY <1>4, KeyPreserves, OtherPreserves DEF KeyDown, KeyUp
<1>5. CASE ToggleKeyboard \/ ForceTermination \/ MessageTimeout
  BY <1>5, TogglePreserves, ForcePreserves, TimeoutPreserves
<1>6. CASE UNCHANGED vars
  <2> USE <1>6 DEF vars
  <2>1. TypeOK' /\ StackInv'
    BY DEF UIInv, TypeOK, StackInv
  <2>2. ConnectionInv' /\ EngineInv' /\ WindowInv'
    BY DEF UIInv, ConnectionInv, EngineInv, WindowInv
  <2>3. ButtonsInv'
    BY DEF UIInv, ButtonsInv, PendingButtons
  <2>4. CandidatesInv'
    BY DEF UIInv, CandidatesInv, PendingCandidates, Closing, Keyed
  <2>5. CompositionInv'
    BY DEF UIInv, CompositionInv, PendingComposition, Releasing, Keyed
  <2>6. ClosedInv'
    BY DEF UIInv, ClosedInv, Blank, Closing, Keyed
  <2>7. QED BY <2>1, <2>2, <2>3, <2>4, <2>5, <2>6 DEF UIInv
<1>7. QED BY <1>1, <1>2, <1>3, <1>4, <1>5, <1>6 DEF Next

(* The invariant holds in every reachable state, for any set of texts,     *)
(* however calls fail, nest and follow on one another.                     *)
THEOREM UIInductive == Spec => []UIInv
  BY UIInit, UIStep, PTL DEF Spec

(* Every variable of the UI thread and the service keeps its type; the     *)
(* language bar in particular never holds the buttons a third time.        *)
THEOREM UITypeCorrect == Spec => []TypeOK
  <1>1. UIInv => TypeOK  BY DEF UIInv
  <1> QED BY <1>1, UIInductive, PTL

(* No empty candidate window stays behind (PIMEClient.cpp 379-381). *)
THEOREM NoEmptyWindow == Spec => []WindowShownIffShowing
  <1>1. UIInv => WindowShownIffShowing
    BY DEF UIInv, WindowInv, WindowShownIffShowing
  <1> QED BY <1>1, UIInductive, PTL

(* Whatever ends, forces or closes a composition, in the middle of a reply *)
(* or between two, screen and service agree on the candidates.             *)
THEOREM CandidatesStayAgreed == Spec => []CandidatesAgree
  <1>1. UIInv => CandidatesAgree
    <2> SUFFICES ASSUME UIInv, AtRest, ready, ~stale
                 PROVE  ui.showing = svc.showCandidates
      BY DEF CandidatesAgree
    <2>1. QED BY Resting
  <1> QED BY <1>1, UIInductive, PTL

(* What the service takes to be composed is what the user sees, unless it  *)
(* has refused to hear of the end of a composition (server.py 141).        *)
THEOREM CompositionIsShown == Spec => []ServiceCompositionShown
  <1>1. UIInv => ServiceCompositionShown
    BY Resting DEF ServiceCompositionShown
  <1> QED BY <1>1, UIInductive, PTL

(* The buttons are in the language bar once or not at all, as connection   *)
(* and keyboard have it, and as the service has heard of the keyboard.     *)
THEOREM ButtonsStayAgreed == Spec => []ButtonsAgree
  <1>1. UIInv => ButtonsAgree
    <2> SUFFICES ASSUME UIInv, AtRest
                 PROVE  ui.bar = IF ready /\ ui.open /\ "opening" \notin unheard
                                 THEN 1 ELSE 0
      BY DEF ButtonsAgree
    <2>1. QED BY Resting
  <1> QED BY <1>1, UIInductive, PTL

(* A key handler finds chewingContext missing only if the service refused  *)
(* to hear that the keyboard was opened: no other order of keys, changes   *)
(* of the keyboard and of the configuration takes the engine away.         *)
THEOREM KeysFindEngine == Spec => []EngineReadyForKeys
  <1>1. UIInv => EngineReadyForKeys
    <2> SUFFICES ASSUME UIInv, AtRest, ready, ui.open,
                        "opening" \notin unheard
                 PROVE  svc.engine
      BY DEF EngineReadyForKeys
    <2>1. QED BY Resting
  <1> QED BY <1>1, UIInductive, PTL

(* A closed keyboard leaves nothing on screen, but a composition that      *)
(* there was no context to end in.                                         *)
THEOREM ClosedIsBlank == Spec => []ClosedShowsNothing
  <1>1. UIInv => ClosedShowsNothing
    BY Resting DEF ClosedShowsNothing, Blank
  <1> QED BY <1>1, UIInductive, PTL
=============================================================================
