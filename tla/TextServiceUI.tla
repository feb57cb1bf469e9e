--------------------------- MODULE TextServiceUI ---------------------------
(***************************************************************************)
(* What a text service shows, and what the input method behind it          *)
(* believes it shows.  On one side the UI thread applies each reply        *)
(* (Client::updateStatus and its parts, PIMEClient.cpp) to the             *)
(* composition, the candidate and message windows and the language bar     *)
(* (PIMETextService.cpp).  On the other side is the Python service of      *)
(* the chewing input method (textService.py, chewing_ime.py).              *)
(*                                                                         *)
(* Ending a composition and closing the keyboard call the service again    *)
(* from the middle of a reply, so the UI thread's position is a stack of   *)
(* frames, innermost first.  Calls are synchronous: nobody but the UI      *)
(* thread talks to the service, and a call is one step.                    *)
(***************************************************************************)
EXTENDS Naturals, Sequences

CONSTANTS
  Texts,    \* what a composition may hold
  NoText    \* an empty composition

ASSUME TextAssumption == NoText \notin Texts

VARIABLES
  alive,    \* client_ is set
  ready,    \* state_ is Ready
  ui,       \* composition, windows, keyboard and language bar
  svc,      \* the ChewingTextService the client is connected to
  stack,    \* where the UI thread is
  stale,    \* history: what is on screen was there without a connection
  kept,     \* history: closing the keyboard has left the composition
  unheard   \* history: what the service has refused to hear of

vars == <<alive, ready, ui, svc, stack, stale, kept, unheard>>

Strings == Texts \cup {NoText}

(* The language buttons are one group.  A group that is added twice is     *)
(* twice in the language bar and once in buttons_, so "bar" counts to two. *)
UIType == [composing: BOOLEAN, text: Strings, showing: BOOLEAN,
           window: BOOLEAN, message: BOOLEAN, open: BOOLEAN,
           bar: 0 .. 2, buttons: BOOLEAN]

(* The service's compositionString, showCandidates and hasLangButtons, and *)
(* whether it has an engine (chewingContext).                              *)
ServiceType == [composition: Strings, showCandidates: BOOLEAN,
                hasLangButtons: BOOLEAN, engine: BOOLEAN]

NewService == [composition |-> NoText, showCandidates |-> FALSE,
               hasLangButtons |-> FALSE, engine |-> FALSE]

isComposing == svc.composition # NoText \/ svc.showCandidates

(* A reply holds what the call has set; "none" and {} are what it has not. *)
ReplyType == [message: {"none", "show", "hide"},
              candidates: {"none", "show", "hide"}, list: BOOLEAN,
              commit: BOOLEAN, composition: SUBSET Strings, cursor: BOOLEAN,
              buttons: {"none", "add", "remove"},
              keyboard: {"none", "open", "close"}]

NoReply == [message |-> "none", candidates |-> "none", list |-> FALSE,
            commit |-> FALSE, composition |-> {}, cursor |-> FALSE,
            buttons |-> "none", keyboard |-> "none"]

(* A reply being applied, with the part of updateStatus that is next, and  *)
(* its endComposition flag; or the rest of endComposition ("release") or   *)
(* of onKeyboardStatusChanged ("closing", "hiding").                       *)
Parts == {"message", "candidates", "commit", "composition", "buttons",
          "keyboard"}

Frames == [at: Parts \cup {"release", "closing", "hiding"},
           session: BOOLEAN, reply: ReplyType, ending: BOOLEAN]

Rest(where) == [at |-> where, session |-> FALSE, reply |-> NoReply,
                ending |-> FALSE]

Applying(r, s) == [at |-> "message", session |-> s, reply |-> r,
                   ending |-> FALSE]

(* The calls that a service may miss without knowing: that the keyboard is *)
(* open, and that the composition has ended.                               *)
News == {"opening", "end"}

AtRest  == stack = <<>>
At(p)   == stack # <<>> /\ Head(stack).at = p
Frame   == Head(stack)
Outer   == Tail(stack)
Then(p) == <<[Frame EXCEPT !.at = p]>> \o Outer

Init ==
  /\ alive = FALSE
  /\ ready = FALSE
  /\ ui \in [composing: {FALSE}, text: {NoText}, showing: {FALSE},
             window: {FALSE}, message: {FALSE}, open: BOOLEAN, bar: {0},
             buttons: {FALSE}]
  /\ svc = NewService
  /\ stack = <<>>
  /\ stale = FALSE
  /\ kept = FALSE
  /\ unheard = {}

-----------------------------------------------------------------------------
(* The service's handlers: the pairs of its next state and its reply. *)

Outcome(s, r) == [svc |-> s, reply |-> r]

(* checkConfigChange, which runs before every handler but onActivate: when *)
(* the data files have changed, a new engine is built, also for a closed   *)
(* keyboard; new settings are applied to the engine, if there is one.      *)
Checked == {svc, [svc EXCEPT !.engine = TRUE]}

(* Preserved keys, commands, menus, compartments and the filtering of keys *)
(* change nothing that is modelled.                                        *)
Nothing == { Outcome(s, NoReply) : s \in Checked }

(* onActivate: the engine is created, and Windows 8 is told whether the    *)
(* keyboard starts open.                                                   *)
Activated(opened) ==
  { Outcome([svc EXCEPT !.engine = TRUE, !.hasLangButtons = opened],
            [NoReply EXCEPT !.buttons = IF opened THEN "add" ELSE "none",
                            !.keyboard = k]) :
      k \in {"none", "open", "close"} }

(* The end of a key handler: candidates, commit string, composition and    *)
(* messages as the engine has them.  A candidate list is sent when it      *)
(* differs from the last one; it stays the same over keys, and so may be   *)
(* shown again without being sent.  The key may also be ignored.           *)
KeyReply(s, text, choices, changed, commit, message) ==
  Outcome(
    [s EXCEPT !.composition = text, !.showCandidates = choices],
    [NoReply EXCEPT
       !.candidates = IF choices /\ (changed \/ ~s.showCandidates)
                      THEN "show"
                      ELSE IF ~choices /\ s.showCandidates THEN "hide"
                      ELSE "none",
       !.list = IF choices THEN changed ELSE s.showCandidates,
       !.commit = commit,
       !.composition = {text},
       !.cursor = TRUE,
       !.message = message])

KeyHandled ==
  Nothing \cup
  { KeyReply(s, text, choices, changed, commit, message) :
      s \in {c \in Checked : c.engine},
      text \in Strings, choices \in BOOLEAN, changed \in BOOLEAN,
      commit \in BOOLEAN, message \in {"none", "show", "hide"} }

(* onKeyUp: Shift moves the cursor while something is composed. *)
KeyUpHandled ==
  Nothing \cup
  { Outcome(s, [NoReply EXCEPT !.cursor = TRUE]) :
      s \in {c \in Checked : c.engine /\ isComposing} }

(* onKeyboardStatusChanged: a closed keyboard has no engine.  The first     *)
(* form leaves the engine to the next activation.                          *)
OpenedLazily(s) ==
  Outcome([s EXCEPT !.hasLangButtons = TRUE],
          [NoReply EXCEPT
             !.buttons = IF s.hasLangButtons THEN "none" ELSE "add"])

Opened(s) ==
  Outcome([s EXCEPT !.engine = TRUE, !.hasLangButtons = TRUE],
          [NoReply EXCEPT
             !.buttons = IF s.hasLangButtons THEN "none" ELSE "add"])

Closed(s) ==
  Outcome([s EXCEPT !.engine = FALSE, !.hasLangButtons = FALSE,
                    !.showCandidates = FALSE],
          [NoReply EXCEPT
             !.candidates = IF s.showCandidates THEN "hide" ELSE "none",
             !.buttons = IF s.hasLangButtons THEN "remove" ELSE "none"])

KeyboardChanged(opened) ==
  { IF opened THEN Opened(s) ELSE Closed(s) : s \in Checked }

(* onCompositionTerminated: the service forgets its strings in every case, *)
(* its candidates only when the end was forced.  The first two forms       *)
(* forget the strings only then, and never the candidates.                 *)
TerminatedIfForced(s, forced) ==
  LET closes == forced /\ s.engine /\ s.showCandidates IN
  Outcome([s EXCEPT !.composition = IF forced THEN NoText ELSE @,
                    !.showCandidates = @ /\ ~closes],
          [NoReply EXCEPT !.candidates = IF closes THEN "hide" ELSE "none"])

TerminatedStrings(s, forced) ==
  Outcome([s EXCEPT !.composition = NoText], NoReply)

Terminated(s, forced) ==
  LET closes == forced /\ s.engine /\ s.showCandidates IN
  Outcome([s EXCEPT !.composition = NoText,
                    !.showCandidates = @ /\ ~closes],
          [NoReply EXCEPT !.candidates = IF closes THEN "hide" ELSE "none"])

CompositionTerminated(forced) ==
  { Terminated(s, forced) : s \in Checked }

-----------------------------------------------------------------------------
(* The client's side *)

(* resetTextServiceState removes the buttons it knows of.  The first two   *)
(* forms forget none of them, and do not look whether there are any.       *)
KeepButtons(u) == u
RemoveButtons(u) == [u EXCEPT !.bar = @ - 1, !.buttons = FALSE]
Reset(u) == [u EXCEPT !.bar = IF u.buttons THEN @ - 1 ELSE @,
                      !.buttons = FALSE]

(* What is on screen while there is no connection is stale until it goes.  *)
(* A composition that the keyboard has left counts until it goes or the    *)
(* keyboard opens again.                                                   *)
Remember ==
  /\ stale' = ((stale \/ ~ready') /\ (ui'.composing \/ ui'.showing))
  /\ kept' = (kept /\ ui'.composing /\ ~ui'.open)

(* The reply is applied on top of the frames below. *)
Answered(outcomes, news, session, u, below) ==
  /\ ready
  /\ \E o \in outcomes :
       /\ svc' = o.svc
       /\ stack' = <<Applying(o.reply, session)>> \o below
  /\ ui' = u
  /\ unheard' = unheard \ news
  /\ UNCHANGED ready

(* A service without an engine raises when it finds new settings to apply, *)
(* and when a key needs the engine: the reply is success = false, of which *)
(* nothing is applied, and the handler has not run.                        *)
Refused(news, u, below) ==
  /\ ready /\ ~svc.engine
  /\ ui' = u
  /\ stack' = below
  /\ unheard' = unheard \cup news
  /\ UNCHANGED <<ready, svc>>

(* callRpcMethod finds the connection broken. *)
Lost(u, below) ==
  /\ ready
  /\ ready' = FALSE
  /\ svc' = NewService
  /\ ui' = Reset(u)
  /\ stack' = below
  /\ unheard' = {}

(* There is no connection, or no client, to call with. *)
NotConnected(u, below) ==
  /\ ~ready
  /\ ui' = u
  /\ stack' = below
  /\ UNCHANGED <<ready, svc, unheard>>

(* A handler of the client, with the UI at u, calls the service to tell    *)
(* what is in news, and goes on with the frames below.                     *)
Call(outcomes, news, session, u, below) ==
  /\ \/ Answered(outcomes, news, session, u, below)
     \/ Refused(news, u, below)
     \/ Lost(u, below)
     \/ NotConnected(u, below)
  /\ Remember
  /\ UNCHANGED alive

Apply(u, s) ==
  /\ ui' = u
  /\ stack' = s
  /\ UNCHANGED <<alive, ready, svc, unheard>>
  /\ Remember

(* endComposition of libIME2: the service is told "just before current     *)
(* composition is terminated"; nothing happens without a composition.  The *)
(* first form ends none while there is nobody to tell.                     *)
EndIfConnected(u, below) ==
  IF u.composing /\ ready
  THEN Call(CompositionTerminated(FALSE), {"end"}, FALSE, u,
            <<Rest("release")>> \o below)
  ELSE Apply(u, below)

EndComposition(u, below) ==
  IF u.composing
  THEN Call(CompositionTerminated(FALSE), {"end"}, FALSE, u,
            <<Rest("release")>> \o below)
  ELSE Apply(u, below)

ReleaseComposition ==
  /\ At("release")
  /\ Apply([ui EXCEPT !.composing = FALSE, !.text = NoText], Outer)

(* hideCandidates and hideMessage. *)
WithoutCandidates(u) == [u EXCEPT !.showing = FALSE, !.window = FALSE]
WithoutMessage(u)    == [u EXCEPT !.message = FALSE]

(* The start of a composition, if there is none. *)
Composing(u) == [u EXCEPT !.composing = TRUE]

-----------------------------------------------------------------------------
(* updateStatus, part by part *)

(* A message needs a composition for its place: one is started for it, and *)
(* ended with the reply.                                                   *)
UpdateMessageWindow ==
  /\ At("message")
  /\ LET r == Frame.reply
         f == [Frame EXCEPT
                 !.at = IF Frame.session THEN "candidates" ELSE "buttons",
                 !.ending = r.message = "show" /\ ~ui.composing]
     IN Apply(CASE r.message = "show" -> [Composing(ui) EXCEPT !.message = TRUE]
                [] r.message = "hide" -> WithoutMessage(ui)
                [] OTHER -> ui,
              <<f>> \o Outer)

(* updateCandidateList.  Filling the list creates the window, so a window  *)
(* that is to be hidden is hidden once more; in the first form it is not.  *)
ShownCandidates(r) ==
  CASE r.candidates = "show" ->
         [Composing(ui) EXCEPT !.showing = TRUE, !.window = TRUE]
    [] r.candidates = "hide" -> WithoutCandidates(ui)
    [] OTHER -> ui

FilledOnce(r) ==
  [ShownCandidates(r) EXCEPT !.window = @ \/ r.list]

Filled(r) ==
  IF r.candidates = "hide" THEN WithoutCandidates(ui)
  ELSE [ShownCandidates(r) EXCEPT !.window = @ \/ r.list]

UpdateCandidateList ==
  /\ At("candidates")
  /\ Apply(Filled(Frame.reply), Then("commit"))

(* A commit string becomes the composition, and the composition is ended.  *)
UpdateCommitString ==
  /\ At("commit")
  /\ IF Frame.reply.commit
     THEN EndComposition(Composing(ui), Then("composition"))
     ELSE Apply(ui, Then("composition"))

(* The composition string, the cursor, and the end of the composition if a *)
(* part has asked for it.                                                  *)
UpdateComposition ==
  /\ At("composition")
  /\ LET r == Frame.reply
         empties == r.composition = {NoText} /\ ui.composing /\ ~ui.showing
         typed == \E t \in Texts : r.composition = {t}
         moved == r.cursor /\ r.composition # {NoText}
         u == [ui EXCEPT
                 !.composing = @ \/ typed \/ moved,
                 !.text = IF typed THEN CHOOSE t \in Texts :
                                          r.composition = {t}
                          ELSE IF empties THEN NoText ELSE @]
     IN IF Frame.ending \/ empties
        THEN EndComposition(u, Then("buttons"))
        ELSE Apply(u, Then("buttons"))

(* updateLanguageButtons: a button of a known name replaces nothing in     *)
(* buttons_, and is added to the language bar all the same.                *)
UpdateLanguageButtons ==
  /\ At("buttons")
  /\ Apply(CASE Frame.reply.buttons = "add" ->
                  [ui EXCEPT !.buttons = TRUE,
                             !.bar = IF @ < 2 THEN @ + 1 ELSE @]
             [] Frame.reply.buttons = "remove" -> Reset(ui)
             [] OTHER -> ui,
           Then("keyboard"))

(* TextService::onKeyboardStatusChanged: the service is told, then a       *)
(* keyboard that closes takes everything off the screen.                   *)
KeyboardIs(opened, below) ==
  Call(KeyboardChanged(opened), IF opened THEN {"opening"} ELSE {}, FALSE,
       [ui EXCEPT !.open = opened],
       IF opened THEN below ELSE <<Rest("closing")>> \o below)

(* updateKeyboardStatus: a change of the compartment calls back. *)
UpdateKeyboardStatus ==
  /\ At("keyboard")
  /\ LET k == Frame.reply.keyboard IN
     IF k # "none" /\ ui.open # (k = "open")
     THEN KeyboardIs(k = "open", Outer)
     ELSE Apply(ui, Outer)

(* The composition can only be ended in a context, that of the focus.      *)
CloseKeyboard ==
  /\ At("closing")
  /\ EndComposition(ui, Then("hiding"))

CloseWithoutContext ==
  /\ At("closing") /\ ui.composing
  /\ stack' = Then("hiding")
  /\ kept' = TRUE
  /\ UNCHANGED <<alive, ready, ui, svc, stale, unheard>>

HideAll ==
  /\ At("hiding")
  /\ Apply(WithoutMessage(WithoutCandidates(ui)), Outer)

-----------------------------------------------------------------------------
(* Events, which the message loop delivers *)

(* onLangProfileActivated. *)
ActivateProfile ==
  /\ AtRest /\ ~alive
  /\ alive' = TRUE
  /\ UNCHANGED <<ready, ui, svc, stack, stale, kept, unheard>>

(* The callback of startAsyncConnect: a new service, and its onActivate. *)
Connected ==
  /\ AtRest /\ alive /\ ~ready
  /\ ready' = TRUE
  /\ \E o \in Activated(ui.open) :
       /\ svc' = o.svc
       /\ stack' = <<Applying(o.reply, FALSE)>>
  /\ unheard' = {}
  /\ UNCHANGED <<alive, ui>>
  /\ Remember

(* closeClient: the client goes and takes its buttons with it. *)
CloseClient ==
  /\ AtRest /\ alive
  /\ alive' = FALSE
  /\ ready' = FALSE
  /\ svc' = NewService
  /\ ui' = WithoutMessage(WithoutCandidates(Reset(ui)))
  /\ unheard' = {}
  /\ UNCHANGED stack
  /\ Remember

(* A key for the input method: filterKeyDown takes every key while the     *)
(* service is composing, and others as they are; keys it does not take     *)
(* change nothing.  libIME2 delivers no keys while the keyboard is closed. *)
KeyDown ==
  /\ AtRest /\ alive /\ ui.open
  /\ Call(KeyHandled, {}, TRUE, ui, <<>>)

KeyUp ==
  /\ AtRest /\ alive /\ ui.open
  /\ Call(KeyUpHandled, {}, TRUE, ui, <<>>)

(* A preserved key, a command or menu of the language bar, a compartment,  *)
(* or a key that the service does not take.                                *)
OtherRequest ==
  /\ AtRest /\ alive
  /\ Call(Nothing, {}, FALSE, ui, <<>>)

(* The user opens or closes the keyboard. *)
ToggleKeyboard ==
  /\ AtRest
  /\ KeyboardIs(~ui.open, <<>>)

(* Another application ends the composition. *)
ForceTermination ==
  /\ AtRest /\ ui.composing
  /\ Call(CompositionTerminated(TRUE), {"end"}, FALSE,
          WithoutMessage(IF ui.showing THEN WithoutCandidates(ui) ELSE ui),
          <<Rest("release")>>)

MessageTimeout ==
  /\ AtRest /\ ui.message
  /\ Apply(WithoutMessage(ui), stack)

-----------------------------------------------------------------------------
Next ==
  \/ UpdateMessageWindow \/ UpdateCandidateList \/ UpdateCommitString
  \/ UpdateComposition \/ UpdateLanguageButtons \/ UpdateKeyboardStatus
  \/ ReleaseComposition \/ CloseKeyboard \/ CloseWithoutContext \/ HideAll
  \/ ActivateProfile \/ Connected \/ CloseClient
  \/ KeyDown \/ KeyUp \/ OtherRequest \/ ToggleKeyboard
  \/ ForceTermination \/ MessageTimeout

Spec == Init /\ [][Next]_vars

-----------------------------------------------------------------------------
(* Invariants *)

(* Every variable keeps its type. *)
TypeOK ==
  /\ alive \in BOOLEAN
  /\ ready \in BOOLEAN
  /\ ui \in UIType
  /\ svc \in ServiceType
  /\ stack \in Seq(Frames)
  /\ stale \in BOOLEAN
  /\ kept \in BOOLEAN
  /\ unheard \subseteq News

(* Between two events the candidate window exists exactly while candidates *)
(* are shown: filling a list that is being hidden leaves no empty window   *)
(* behind (PIMEClient.cpp 379-381).                                        *)
WindowShownIffShowing == AtRest => ui.window = ui.showing

(* Between two events the service and the screen agree on whether there    *)
(* are candidates to choose from, whatever was ended, forced or closed in  *)
(* between, unless they were left over by an earlier connection.           *)
CandidatesAgree ==
  AtRest /\ ready /\ ~stale => ui.showing = svc.showCandidates

(* Between two events, what the service believes to be composing is what   *)
(* the composition on screen holds: the service hears of every end of a    *)
(* composition, also of those that its own reply has caused, unless it     *)
(* has refused to hear of one.                                             *)
ServiceCompositionShown ==
  AtRest /\ ready /\ svc.composition # NoText /\ "end" \notin unheard =>
    ui.composing /\ ui.text = svc.composition

(* The language bar has the buttons once while the keyboard is open and    *)
(* the service connected and has heard of it, and not at all otherwise,    *)
(* also when connections break in the middle of a reply or the reply       *)
(* itself closes the keyboard.                                             *)
ButtonsAgree ==
  AtRest =>
    ui.bar = IF ready /\ ui.open /\ "opening" \notin unheard THEN 1 ELSE 0

(* A key finds an engine (onKeyDown uses chewingContext unconditionally,   *)
(* chewing_ime.py 411): a service has one while the keyboard is open,      *)
(* unless it has refused to hear of the opening.                           *)
EngineReadyForKeys ==
  AtRest /\ ready /\ ui.open /\ "opening" \notin unheard => svc.engine

(* A closed keyboard leaves nothing on screen, even when the connection    *)
(* breaks while the service is being told; a composition only if there was *)
(* no context to end it in.                                                *)
ClosedShowsNothing ==
  AtRest /\ ~ui.open =>
    (ui.composing => kept) /\ ~ui.showing /\ ~ui.window /\ ~ui.message

(* "make sure that the engine has been started" (chewing_ime.py 930, on    *)
(* the opening of the keyboard): an open keyboard has an engine.           *)
OpeningStartsEngine == AtRest /\ ready /\ ui.open => svc.engine

(* "isComposing() is False: no Chinese is being edited" (chewing_ime.py    *)
(* 341): a service that is not composing has nothing on screen.            *)
CompositionKept ==
  AtRest /\ ready /\ ~stale /\ ui.composing /\ ui.text # NoText =>
    isComposing
=============================================================================
