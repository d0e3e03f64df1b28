----------------------------- MODULE TabSession -----------------------------
(***************************************************************************)
(* What drives one tab of Chrome over the DevTools protocol: the          *)
(* connection (connection.ts), the session (session.ts, targets.ts), tabs  *)
(* (tabs.ts), observations (screenshot.ts) and input gestures with their   *)
(* bookkeeping (input/*.ts), as controller.ts calls them.                  *)
(*                                                                         *)
(* An operation is its sequence of steps.  A step that awaits a command    *)
(* sends it (Send); Chrome executes the commands in order (Chrome) and     *)
(* answers on wire, where its events are; the client handles wire in order *)
(* (Handle).  Messages that arrive together are handled before the         *)
(* continuations of the awaits they answer (at = "back"), and these run,   *)
(* all of them, before the next message (turning).  Commands that follow   *)
(* each other with no decision in between are one step.                    *)
(*                                                                         *)
(* Drivers: "task" is the task in flight of the queue (ActionQueue: one at *)
(* a time); outside the queue, "rec" is a recovery and "ctl" is connect()  *)
(* or stop().  How they wait for each other is ChromeController's subject. *)
(*                                                                         *)
(* Definitions whose comment begins with "Faulty" are variants that no     *)
(* specification uses (see ActionQueue).                                   *)
(***************************************************************************)
EXTENDS Naturals, SequencesExt

CONSTANTS
    Tabs,        \* targetIds
    Programs,    \* what is submitted to the queue, in this order, and how many
                 \* timeouts, losses, pauses, changes of a page there are
    None,        \* null
    TextLength,  \* characters of a typed text
    MaxSessions  \* bound of the sessions Chrome creates

ASSUME TabAssumption ==
    /\ None \notin Tabs \cup Nat \cup {"task", "rec", "ctl"}
    /\ TextLength \in Nat /\ MaxSessions \in Nat

VARIABLES
    open,    \* Chrome: the tabs that exist
    home,    \* Chrome: home[s] is the tab of session s
    live,    \* Chrome: the sessions attached
    held,    \* Chrome: held[s], what was pressed and not released through s
    typed,   \* Chrome: characters entered by the latest "type"
    inbox,   \* commands sent and not executed
    wire,    \* replies and events not handled
    link,    \* ChromeConnection.isConnected
    state,   \* TabSession._state
    paused,  \* TabSession.isPaused
    tab,     \* TabSession._targetId
    sid,     \* TabSession._sessionId
    seen,    \* tab of the stored observations of the current visual epoch
    known,   \* InputStateManager: what it believes to be held
    aborted, \* ActionQueue.isAborted, and the signal of the task in flight
    job,     \* job[d]: what driver d is doing
    plan,    \* the operations to come
    turning, \* continuations have begun to run, and some are yet to run
    stopped, \* history: stop() was called (once is enough)
    faults,  \* faults still to come
    unfounded \* history: READY was last set when there was no session

chrome  == <<open, home, live, held, typed>>
history == <<stopped, faults, unfounded>>
session == <<state, paused, tab, sid, seen>>
vars == <<chrome, inbox, wire, link, session, known, aborted, job, plan,
          turning, history>>

Drivers  == {"task", "rec", "ctl"}
Idle == [todo |-> <<>>, at |-> "idle", last |-> "none", ok |-> TRUE, num |-> 0,
         tabs |-> {}, rest |-> {}, kind |-> "none", to |-> None, saw |-> None, calm |-> TRUE]

-----------------------------------------------------------------------------
(* The operations as sequences of steps.                                   *)

\* MouseController.move
Move  == <<"move">>
\* click: humanMove, down, up.  A "pause" awaits a timer
Click == Move \o <<"pause", "press", "pause", "release">>
\* doubleClick sends its presses itself and does not record them
DoubleClick == Move \o <<"press2", "release2", "pause", "press3", "release2">>
Scroll == Move \o <<"wheel">>
Drag   == Move \o <<"pause", "press", "pause", "drag", "pause", "release">>
\* keypress and type do not record the keys they press
Keypress == <<"rawDown", "keychar", "pause", "rawUp">>
\* type, method "auto": key down, insertText, key up, for each character, and
\* a pause after each if there are several
TypeAuto == [i \in 1..(IF TextLength = 1 THEN 4 ELSE 5 * TextLength) |->
                <<"rawDown", "char", "pause", "typeUp", "pause">>[((i - 1) % 5) + 1]]
\* type, method "key_events": the key goes down, and the character in, twice
TypeKeyEvents == [i \in 1..(IF TextLength = 1 THEN 6 ELSE 7 * TextLength) |->
                <<"rawDown", "char", "rawDown2", "char", "pause", "typeUp", "pause">>
                    [((i - 1) % 7) + 1]]
\* resetInputState: MouseController.reset, then KeyboardController.reset
ResetInput == <<"cancelDrag", "freeButton", "freeKey">>
\* TabSession.attach; when "attach" has answered, the domains are enabled
Attach  == <<"leave", "attach", "ready">>
\* TabController.switchTab
SwitchTab == <<"activate">> \o Attach
NewTab    == <<"create">> \o SwitchTab
\* The controller's close_tab; closeTab of TabController closes the tab and,
\* if it is the session's, goes to another one
CloseTab == ResetInput \o <<"forget", "depart">>
Closing(current) == <<"close">> \o IF current THEN <<"list", "pick">> \o SwitchTab ELSE <<>>
\* listWindows: the tabs, then the window of each
Windows   == <<"list", "window">>
NewWindow == <<"create">> \o SwitchTab \o <<"window">>
ActivateWindow == Windows \o <<"aim", "window">> \o SwitchTab
CloseWindow    == Windows \o <<"aimAll", "next">>
\* navigate and reload, until the page has settled; back and forward, if there
\* is such an entry
Navigate == <<"go", "pause">>
Travel   == <<"history", "mayGo">>
\* autoRecoverTarget, connect and stop of the controller
Recover == <<"drain">> \o ResetInput \o <<"clear", "list", "pick">> \o Attach \o <<"show">>
Connect == <<"drain", "open", "list", "pick">> \o Attach
Stop    == <<"cancel">> \o ResetInput \o <<"clear", "leave">>

\* executeRawCdpCoordinateAction: an action that no observation is asked for
RawKinds == {"raw_move", "raw_click", "raw_double_click", "raw_down", "raw_up", "raw_scroll"}
RawScript(k) ==
    CASE k = "raw_move"   -> Move
      [] k = "raw_click"  -> Click
      [] k = "raw_double_click" -> DoubleClick
      [] k = "raw_down"   -> <<"press">>
      [] k = "raw_up"     -> <<"release">>
      [] k = "raw_scroll" -> Scroll

\* executeComputerAction, observe and executeBrowserAction: the scripts of
\* the operations, each with its bump of the visual epoch
Script(k) ==
    CASE k = "observe"      -> <<"shot", "store">>
      [] k = "move"         -> Move
      [] k = "click"        -> Click \o <<"bump">>
      [] k = "double_click" -> DoubleClick \o <<"bump">>
      [] k = "scroll"       -> Scroll \o <<"bump">>
      [] k = "drag"         -> Drag \o <<"bump">>
      [] k = "down"         -> <<"press">>
      [] k = "up"           -> <<"release">>
      [] k = "keypress"     -> Keypress \o <<"bump">>
      [] k = "key_down"     -> <<"keyDown">>
      [] k = "key_up"       -> <<"keyUp">>
      [] k = "type"         -> TypeAuto \o <<"bump">>
      [] k = "type_keys"    -> TypeKeyEvents \o <<"bump">>
      [] k = "reset_input"  -> ResetInput
      [] k = "new_tab"      -> NewTab \o <<"bump">>
      [] k = "switch_tab"   -> ResetInput \o SwitchTab \o <<"bump">>
      [] k = "close_tab"    -> CloseTab \o <<"bump">>
      [] k = "navigate"     -> Navigate \o <<"bump">>
      [] k = "back"         -> Travel \o <<"bump">>
      [] k = "dialog"       -> <<"dialog", "bump">>
      [] k = "windows"      -> Windows
      [] k = "new_window"   -> NewWindow \o <<"bump">>
      [] k = "activate_window" -> ActivateWindow \o <<"bump">>
      [] k = "close_window" -> CloseWindow \o <<"bump">>
      [] k \in RawKinds     -> RawScript(k) \o <<"bump">>

MouseKinds   == {"move", "click", "double_click", "scroll", "drag", "down", "up"}
BrowserKinds == {"new_tab", "switch_tab", "close_tab", "navigate", "back", "dialog", "windows",
                 "new_window", "activate_window", "close_window"}
Operations == MouseKinds \cup BrowserKinds \cup RawKinds \cup
    {"observe", "keypress", "key_down", "key_up", "type", "type_keys", "reset_input"}

ASSUME ProgramsAssumption ==
    \A p \in Programs : p.does \in Seq(Operations) /\ p.faults \in Nat

Inputs  == {"move", "press", "release", "press2", "press3", "release2", "wheel",
            "drag", "rawDown", "rawDown2", "keychar", "char", "rawUp", "typeUp",
            "keyDown", "keyUp"}
Steps == Inputs \cup
    {"cancelDrag", "freeButton", "freeKey", "shot", "store", "bump", "clear", "forget",
     "ready", "activate", "create", "close", "list", "attach", "go", "history", "dialog",
     "mayGo", "pause", "window", "show", "aim", "aimAll", "next", "leave", "depart", "pick", "drain",
     "cancel", "open"}
\* Steps before which the signal of the task is tested
Checked == {"move", "press", "release", "press3", "wheel", "drag", "rawDown", "rawUp",
            "keyDown", "keyUp"}
\* Commands whose failure is caught and ignored
Lenient == {"cancelDrag", "freeButton", "freeKey", "leave", "depart", "window", "show"}
\* What inputState records, of what Chrome may hold
Recorded == {"button", "key"}

-----------------------------------------------------------------------------
(* Steps of a driver: its continuation up to the next await.               *)

\* TabSession.bumpVisualEpoch: no stored observation is of the epoch any more
Bump == seen' = None

\* ChromeConnection.send, and the steps that are to follow
SendThen(d, c, on, to, next) ==
    /\ link
    /\ inbox' = Append(inbox, [by |-> d, cmd |-> c, on |-> on, to |-> to,
                               saw |-> job[d].saw, kind |-> job[d].kind,
                               calm |-> job[d].calm])
    /\ job' = [job EXCEPT ![d].todo = next, ![d].at = "sent", ![d].last = c]

Send(d, c, on, to) == SendThen(d, c, on, to, Tail(job[d].todo))

\* The steps that follow, without an await
Then(d, next) == [job[d] EXCEPT !.todo = next, !.at = "turn", !.last = "none"]
Skip(d) == job' = [job EXCEPT ![d] = Then(d, Tail(job[d].todo))]

\* The finally of executeWithinState: ACTING becomes READY
Settled(d) == IF d = "task" /\ state = "ACTING" THEN "READY" ELSE state

\* The end of detach(), after its await
Detached == IF state = "STOPPED" THEN state ELSE "DISCONNECTED"

At(d, s) ==
    /\ job[d].at \in {"turn", "back"}
    /\ job[d].ok /\ job[d].last # "attach"
    /\ job[d].todo # <<>>
    /\ Head(job[d].todo) = s

\* The step throws.  A failed attach leaves the session disconnected; a
\* failed drag resets the input state; an operation that fails is over.
Fail(d) ==
    /\ IF job[d].last \in {"attach", "enable"} \/ At(d, "attach")
       THEN state' = "DISCONNECTED" /\ sid' = None /\ tab' = None
       ELSE /\ state' = CASE job[d].last = "depart" -> Detached
                          [] job[d].kind = "drag"   -> state
                          [] OTHER                  -> Settled(d)
            /\ UNCHANGED <<sid, tab>>
    /\ job' = [job EXCEPT ![d] = IF @.kind = "drag"
            THEN [Idle EXCEPT !.todo = ResetInput, !.at = "turn", !.kind = "dragged"]
            ELSE Idle]
    /\ seen' = IF At(d, "attach") THEN None ELSE seen
    /\ UNCHANGED <<inbox, paused>>

\* Faulty: a press is not recorded
BelievesReleased(s) ==
    CASE s = "keyDown"    -> known \cup {"key"}
      [] s \in {"release", "freeButton"} -> known \ {"button"}
      [] s \in {"keyUp", "freeKey"}      -> known \ {"key"}
      [] OTHER            -> known

\* InputStateManager as set by the step s, before the command is sent
Believes(s) ==
    CASE s = "press"      -> known \cup {"button"}
      [] s = "keyDown"    -> known \cup {"key"}
      [] s = "release"    -> known \ {"button"}
      [] s = "keyUp"      -> known \ {"key"}
      [] s = "freeButton" -> known \ {"button"}
      [] s = "freeKey"    -> known \ {"key"}
      [] OTHER            -> known

\* A mouse or keyboard event of a gesture
Input(d, s) ==
    /\ At(d, s)
    /\ IF s \in Checked /\ aborted
       THEN known' = known /\ Fail(d)
       ELSE /\ known' = Believes(s)
            /\ IF sid # None /\ link
               THEN Send(d, s, sid, None) /\ UNCHANGED session
               ELSE Fail(d)
    /\ UNCHANGED <<chrome, wire, link, aborted, plan, history>>

\* resetMouse and resetKeyboard forget what is held and release it through
\* the session there is; a failure is ignored
Releases(s) == \/ s = "cancelDrag"
               \/ s = "freeButton" /\ "button" \in known
               \/ s = "freeKey" /\ "key" \in known

Free(d, s) ==
    /\ At(d, s)
    /\ known' = Believes(s)
    /\ IF Releases(s) /\ sid # None /\ link
       THEN Send(d, s, sid, None)
       ELSE Skip(d) /\ UNCHANGED inbox
    /\ UNCHANGED <<chrome, wire, link, session, aborted, plan, history>>

\* TabSession.send of a command that is no input
Query(d, s) ==
    /\ At(d, s)
    /\ IF sid # None /\ link
       THEN Send(d, s, sid, None) /\ UNCHANGED session
       ELSE Fail(d)
    /\ UNCHANGED <<chrome, wire, link, known, aborted, plan, history>>

\* Commands of navigation, and handleDialog
OnPage(d) == \E s \in {"go", "history", "dialog"} : Query(d, s)

\* ScreenshotService.capture: the screenshot ...
Shot(d) == Query(d, "shot")

\* ... and the record, with the tab and the epoch of this moment; steps that
\* change the session and await nothing
Local(d, s) ==
    /\ At(d, s)
    /\ CASE s = "store"  -> seen' = tab /\ UNCHANGED <<state, tab>>
         [] s = "bump"   -> Bump /\ UNCHANGED <<state, tab>>
         [] s = "clear"  -> Bump /\ UNCHANGED <<state, tab>>
         [] s = "forget" -> /\ seen' = IF seen = job[d].to THEN None ELSE seen
                            /\ UNCHANGED <<state, tab>>
         [] s = "ready"  -> state' = "READY" /\ UNCHANGED <<tab, seen>>
    /\ unfounded' = IF s = "ready" THEN sid = None ELSE unfounded
    /\ Skip(d)
    /\ UNCHANGED <<chrome, inbox, wire, link, paused, sid, known, aborted, plan, stopped,
                   faults>>

\* TabSession.attach up to the detach; refused while ACTING or ATTACHING.
\* stop() comes here as well: it sets STOPPED and detaches.
MayLeave(d) == job[d].kind = "stop" \/ state \notin {"ACTING", "ATTACHING"}

Leave(d) ==
    /\ At(d, "leave")
    /\ IF MayLeave(d)
       THEN /\ IF sid # None
               THEN /\ IF link THEN Send(d, "leave", sid, None)
                               ELSE Skip(d) /\ UNCHANGED inbox
                    /\ sid' = None /\ tab' = None /\ Bump
               ELSE Skip(d) /\ UNCHANGED <<inbox, sid, tab, seen>>
            /\ state' = IF job[d].kind = "stop" THEN "STOPPED" ELSE state
            /\ UNCHANGED paused
       ELSE Fail(d)
    /\ UNCHANGED <<chrome, wire, link, known, aborted, plan, history>>

\* closeTab detaches if the tab is the session's
Depart(d) ==
    /\ At(d, "depart")
    /\ LET next == Closing(tab = job[d].to) \o Tail(job[d].todo) IN
       IF tab = job[d].to
       THEN /\ sid' = None /\ tab' = (IF sid # None THEN None ELSE tab) /\ Bump
            /\ IF sid # None /\ link
               THEN SendThen(d, "depart", sid, None, next) /\ UNCHANGED state
               ELSE /\ job' = [job EXCEPT ![d] = Then(d, next)]
                    /\ state' = Detached /\ UNCHANGED inbox
       ELSE /\ job' = [job EXCEPT ![d] = Then(d, next)]
            /\ UNCHANGED <<inbox, state, sid, tab, seen>>
    /\ UNCHANGED <<chrome, wire, link, paused, known, aborted, plan, history>>

\* The session after the detach of closeTab, or about to attach
Entering(d, s) ==
    IF s = "attach"
    THEN state' = "ATTACHING" /\ tab' = job[d].to /\ Bump
    ELSE /\ state' = IF s = "close" /\ job[d].last = "depart" THEN Detached ELSE state
         /\ UNCHANGED <<tab, seen>>

\* A command to the browser itself
Ask(d, s) ==
    /\ At(d, s)
    /\ IF link
       THEN /\ Send(d, s, None, job[d].to)
            /\ Entering(d, s)
            /\ UNCHANGED <<sid, paused>>
       ELSE Fail(d)
    /\ UNCHANGED <<chrome, wire, link, known, aborted, plan, history>>

\* Two awaits of attachToTarget that succeed go on in the order of their
\* replies, which is that of the sessions.
FirstBack(d) == \A e \in Drivers \ {d} :
    job[e].at = "back" /\ job[e].ok /\ job[e].last = "attach" => job[d].num <= job[e].num

\* attachToTarget has answered: the session is set, its domains are enabled
Enable(d) ==
    /\ job[d].at = "back" /\ job[d].ok /\ job[d].last = "attach"
    /\ FirstBack(d)
    /\ IF link
       THEN SendThen(d, "enable", job[d].num, None, job[d].todo) /\ sid' = job[d].num
            /\ UNCHANGED <<state, paused, tab, seen>>
       ELSE Fail(d)
    /\ UNCHANGED <<chrome, wire, link, known, aborted, plan, history>>

\* The first of the remaining tabs, or a new one
Pick(d) ==
    /\ At(d, "pick")
    /\ LET others == IF job[d].kind = "recover" THEN job[d].tabs \ {job[d].to}
                                                ELSE job[d].tabs
           next == Tail(job[d].todo)
       IN  IF others # {}
           THEN \E t \in others :
                job' = [job EXCEPT ![d] = [Then(d, next) EXCEPT !.to = t, !.tabs = {}]]
           ELSE job' = [job EXCEPT ![d] = [Then(d, <<"create">> \o next) EXCEPT !.tabs = {}]]
    /\ UNCHANGED <<chrome, inbox, wire, link, session, known, aborted, plan, history>>

\* There may be an entry of the history to go to
MayGo(d) ==
    /\ At(d, "mayGo")
    /\ \E entry \in {Navigate, <<>>} :
        job' = [job EXCEPT ![d] = Then(d, entry \o Tail(job[d].todo))]
    /\ UNCHANGED <<chrome, inbox, wire, link, session, known, aborted, plan, history>>

\* A timer of a gesture, or of a navigation, is set ...
Sleep(d) ==
    /\ At(d, "pause") /\ job[d].at = "back"
    /\ job' = [job EXCEPT ![d] = Then(d, job[d].todo)]
    /\ UNCHANGED <<chrome, inbox, wire, link, session, known, aborted, plan, history>>

\* A continuation is ready to run: an await is answered, or that of reset() or
\* cancelAndDrain() is over as nothing is in flight
Resumes(d) == \/ job[d].at = "back"
              \/ (At(d, "drain") \/ At(d, "cancel")) /\ job["task"].at = "idle"

\* ... and fires, when no continuation of a promise is left to run
Wake(d) ==
    /\ At(d, "pause") /\ job[d].at = "turn"
    /\ \A e \in Drivers : ~Resumes(e)
    /\ Skip(d)
    /\ UNCHANGED <<chrome, inbox, wire, link, session, known, aborted, plan, history>>

\* The window of a tab, or its bounds, and the activateTab of a recovery: a
\* failure is ignored
Window(d) ==
    /\ \E s \in {"window", "show"} :
        /\ At(d, s)
        /\ IF link THEN Send(d, s, None, job[d].to) ELSE Skip(d) /\ UNCHANGED inbox
    /\ UNCHANGED <<chrome, wire, link, session, known, aborted, plan, history>>

\* The window asked for has some of the tabs listed, or does not exist
Aim(d) ==
    /\ At(d, "aim") \/ At(d, "aimAll")
    /\ \/ \E ts \in SUBSET job[d].tabs \ {{}} : \E t \in ts :
            /\ job' = [job EXCEPT ![d] = [Then(d, Tail(job[d].todo)) EXCEPT !.tabs = {},
                                  !.to = IF At(d, "aim") THEN t ELSE @,
                                  !.rest = IF At(d, "aimAll") THEN ts ELSE @]]
            /\ UNCHANGED <<inbox, session>>
       \/ Fail(d)
    /\ UNCHANGED <<chrome, wire, link, known, aborted, plan, history>>

\* closeWindow closes the tabs of the window one after the other
CloseNext(d) ==
    /\ At(d, "next")
    /\ IF job[d].rest = {} THEN Skip(d)
       ELSE \E t \in job[d].rest :
            job' = [job EXCEPT ![d] = [Then(d, <<"depart">> \o job[d].todo) EXCEPT
                               !.to = t, !.rest = @ \ {t}]]
    /\ UNCHANGED <<chrome, inbox, wire, link, session, known, aborted, plan, history>>

\* Faulty: reset() does not wait for the task in flight
DrainedAtOnce(d) ==
    /\ At(d, "drain") \/ At(d, "cancel")
    /\ aborted' = (aborted /\ At(d, "cancel"))
    /\ Skip(d)
    /\ UNCHANGED <<chrome, inbox, wire, link, session, known, plan, history>>

\* The await of reset() or cancelAndDrain() is over: nothing is in flight.
\* reset() opens the queue again, cancelAndDrain() leaves it as it is
Drained(d) ==
    /\ At(d, "drain") \/ At(d, "cancel")
    /\ aborted' = (aborted /\ At(d, "cancel"))
    /\ job["task"].at = "idle"
    /\ Skip(d)
    /\ UNCHANGED <<chrome, inbox, wire, link, session, known, plan, history>>

\* ChromeConnection.connect
Open(d) ==
    /\ At(d, "open")
    /\ link' = TRUE
    /\ Skip(d)
    /\ UNCHANGED <<chrome, inbox, wire, session, known, aborted, plan, history>>

\* The command has failed, or the operation is over (that of stop() with the
\* end of detach())
Over(d) ==
    /\ job[d].at \in {"turn", "back"}
    /\ IF ~job[d].ok
       THEN Fail(d)
       ELSE /\ job[d].todo = <<>> /\ job[d].last # "attach"
            /\ job' = [job EXCEPT ![d] = Idle]
            /\ state' = IF job[d].kind = "stop" THEN Detached ELSE Settled(d)
            /\ UNCHANGED <<inbox, paused, tab, sid, seen>>
    /\ UNCHANGED <<chrome, wire, link, known, aborted, plan, history>>

\* A continuation that has not come to its next await runs before all else
Running(d) == job[d].at = "turn" /\ \A s \in {"drain", "cancel", "pause"} : ~At(d, s)
Calm == ~turning /\ \A d \in Drivers : ~Running(d)

Turn(d) ==
  /\ job[d].at \in {"turn", "back"}
  /\ \A e \in Drivers \ {d} : ~Running(e)
  /\ \/ \E s \in Inputs : Input(d, s)
     \/ \E s \in {"cancelDrag", "freeButton", "freeKey"} : Free(d, s)
     \/ \E s \in {"store", "bump", "clear", "forget", "ready"} : Local(d, s)
     \/ \E s \in {"activate", "create", "close", "list", "attach"} : Ask(d, s)
     \/ Shot(d) \/ OnPage(d) \/ MayGo(d) \/ Sleep(d) \/ Wake(d)
     \/ Window(d) \/ Aim(d) \/ CloseNext(d)
     \/ Leave(d) \/ Depart(d) \/ Enable(d) \/ Pick(d) \/ Drained(d)
     \/ Open(d) \/ Over(d)
  /\ turning' = (\E e \in Drivers \ {d} : Resumes(e))'

-----------------------------------------------------------------------------
(* Operations begin.                                                       *)

\* A task starts: executeWithinState and getMapperForAction refuse, changing
\* nothing, what their guards refuse.  observe() has an active session (else
\* it waits for a recovery, see ChromeController)
Accepts(k) ==
    CASE k \in BrowserKinds -> TRUE
      [] k = "observe" -> sid # None /\ state \notin {"TARGET_CLOSED", "DISCONNECTED"}
      [] OTHER -> /\ ~paused /\ state = "READY" /\ sid # None
                  /\ k \in MouseKinds => tab # None /\ seen = tab

Begin(k) ==
    /\ plan # <<>> /\ k = Head(plan) /\ plan' = Tail(plan)
    /\ job["task"].at = "idle" /\ ~aborted
    /\ Accepts(k)
    /\ \E t \in IF k \in {"switch_tab", "close_tab"} THEN Tabs ELSE {None} :
        job' = [job EXCEPT !["task"] =
            [Idle EXCEPT !.todo = Script(k), !.at = "turn", !.kind = k, !.to = t,
                         !.saw = IF k \in MouseKinds THEN seen ELSE None,
                         !.calm = \A d \in {"rec", "ctl"} : job[d].at = "idle"]]
    /\ state' = IF k \in BrowserKinds \cup {"observe"} THEN state ELSE "ACTING"
    /\ typed' = 0
    /\ UNCHANGED <<open, home, live, held, inbox, wire, link, paused, tab, sid, seen,
                   known, aborted, history>>

\* autoRecoverTarget up to its first await; a recovery that is under way is
\* shared (recoveryPromise), connect() and stop() are not looked at.  Of these,
\* calm remembers that no reset() of a recovery opens the queue beside them
Recovers(previous) ==
    IF link /\ job["rec"].at = "idle"
    THEN /\ aborted' = TRUE
         /\ job' = [job EXCEPT !["rec"] = [Idle EXCEPT !.todo = Recover, !.at = "turn",
                                           !.kind = "recover", !.to = previous],
                               !["ctl"].calm = job["ctl"].at = "idle"]
    ELSE UNCHANGED <<aborted, job>>

\* What counts as one of the faults there are (a bound, not a guard of the code)
Troubles(some) == faults >= (IF some THEN 1 ELSE 0)
                  /\ faults' = faults - (IF some THEN 1 ELSE 0)

\* ensureActiveSession of an operation that is submitted
EnsureActive ==
    /\ plan # <<>> /\ job["rec"].at = "idle" /\ link
    /\ sid = None \/ state \in {"TARGET_CLOSED", "DISCONNECTED"}
    /\ Recovers(tab)
    /\ Troubles(job["ctl"].at # "idle")
    /\ UNCHANGED <<chrome, inbox, wire, link, session, known, plan, stopped, unfounded>>

\* connect() when there is no connection, stop() when there is one
Command(k) ==
    /\ job["ctl"].at = "idle"
    /\ link = (k = "stop")
    /\ k = "stop" => ~stopped
    /\ stopped' = (stopped \/ k = "stop")
    /\ Troubles(job["rec"].at # "idle")
    /\ aborted' = TRUE
    /\ job' = [job EXCEPT !["ctl"] = [Idle EXCEPT
            !.todo = IF k = "stop" THEN Stop ELSE Connect, !.at = "turn", !.kind = k,
            !.calm = ~At("rec", "drain")]]
    /\ UNCHANGED <<chrome, inbox, wire, link, session, known, plan, unfounded>>

-----------------------------------------------------------------------------
(* Chrome, and the messages it sends.                                      *)

Pressed(c, h) ==
    CASE c = "press"   -> h \cup {"button"}
      [] c \in {"press2", "press3"} -> h \cup {"double"}
      [] c = "keyDown" -> h \cup {"key"}
      [] c \in {"rawDown", "rawDown2"} -> h \cup {"raw"}
      [] c \in {"release", "release2", "freeButton"} -> h \ {"button", "double"}
      [] c \in {"keyUp", "freeKey"}    -> h \ {"key"}
      [] c \in {"rawUp", "typeUp"}     -> h \ {"raw"}
      [] OTHER -> h

Reply(c, ok, num, ts) == [kind |-> "reply", by |-> c.by, ok |-> ok, num |-> num,
                          tabs |-> ts, on |-> None, tab |-> None]
Event(k, s) == [kind |-> k, by |-> None, ok |-> TRUE, num |-> 0, tabs |-> {},
                on |-> s, tab |-> home[s]]
SessionsOf(t) == {s \in live : home[s] = t}
Gone(S) == [i \in 1..Len(SetToSeq(S)) |-> Event("gone", SetToSeq(S)[i])]

\* A command to a session: an input, a screenshot, the enabling of a domain
OnSession(c) ==
    LET ok == c.on \in live IN
    /\ held'  = IF ok THEN [held EXCEPT ![c.on] = Pressed(c.cmd, @)] ELSE held
    /\ typed' = IF ok /\ c.cmd = "char" THEN typed + 1 ELSE typed
    /\ wire'  = wire \o (IF ok /\ c.cmd = "go" THEN <<Event("changed", c.on)>> ELSE <<>>)
                     \o <<Reply(c, ok \/ c.cmd \in Lenient, 0, {})>>
    /\ UNCHANGED <<open, home, live>>

\* Target.detachFromTarget: the event of the detach comes before the reply
Detach(c) ==
    /\ live' = live \ {c.on}
    /\ wire' = wire \o Gone(live \cap {c.on}) \o <<Reply(c, TRUE, 0, {})>>
    /\ UNCHANGED <<open, home, held, typed>>

\* Target.attachToTarget
NewSession(c) ==
    LET s == Len(home) + 1 IN
    IF c.to \in open
    THEN /\ home' = Append(home, c.to) /\ held' = Append(held, {})
         /\ live' = live \cup {s}
         /\ wire' = Append(wire, Reply(c, TRUE, s, {}))
         /\ UNCHANGED <<open, typed>>
    ELSE wire' = Append(wire, Reply(c, FALSE, 0, {})) /\ UNCHANGED chrome

\* Target.createTarget, closeTarget, getTargets, activateTarget
OnTargets(c) ==
    \/ /\ c.cmd = "create"
       /\ \E t \in Tabs \ open :
            open' = open \cup {t} /\ wire' = Append(wire, Reply(c, TRUE, 0, {t}))
       /\ UNCHANGED live
    \/ /\ c.cmd = "create" /\ open = Tabs
       /\ wire' = Append(wire, Reply(c, FALSE, 0, {}))
       /\ UNCHANGED <<open, live>>
    \/ /\ c.cmd = "close"
       /\ open' = open \ {c.to} /\ live' = live \ SessionsOf(c.to)
       /\ wire' = wire \o Gone(SessionsOf(c.to))
                       \o <<Reply(c, c.to \in open, 0, {})>>
    \/ /\ c.cmd \in {"list", "activate", "window", "show"}
       /\ wire' = Append(wire, Reply(c, c.cmd # "activate" \/ c.to \in open, 0, open))
       /\ UNCHANGED <<open, live>>

Chrome ==
    /\ inbox # <<>>
    /\ inbox' = Tail(inbox)
    /\ LET c == Head(inbox) IN
       CASE c.cmd \in {"leave", "depart"} -> Detach(c)
         [] c.cmd = "attach" -> Len(home) < MaxSessions /\ NewSession(c)
         [] c.cmd \in {"create", "close", "list", "activate", "window", "show"} ->
                OnTargets(c) /\ UNCHANGED <<home, held, typed>>
         [] OTHER -> OnSession(c)
    /\ UNCHANGED <<link, session, known, aborted, job, plan, history>>

\* handleMessage of a reply: the promise of the command settles.  createTab
\* and listPageTabs say which tabs there are
Answered(j, m) ==
    [j EXCEPT !.at = "back", !.ok = m.ok, !.num = m.num,
              !.tabs = IF j.last = "list" THEN m.tabs ELSE @,
              !.to = IF m.tabs # {} /\ j.last = "create" THEN CHOOSE t \in m.tabs : TRUE
                                                        ELSE @]

Replied(m) ==
    /\ m.kind = "reply"
    /\ IF m.by # None THEN job' = [job EXCEPT ![m.by] = Answered(@, m)] ELSE UNCHANGED job
    /\ UNCHANGED <<session, aborted>>

\* Page.frameNavigated and the like, heard by the listeners of the session
PageChanged(m) ==
    /\ m.kind = "changed"
    /\ seen' = IF m.on = sid THEN None ELSE seen
    /\ UNCHANGED <<state, paused, tab, sid, aborted, job>>

\* Faulty: the event is ignored while an action is executed
TargetGoneUnlessActing(m) ==
    /\ m.kind = "gone"
    /\ IF (m.on = sid \/ m.tab = tab) /\ state # "ACTING"
       THEN /\ sid' = None /\ tab' = None /\ state' = "TARGET_CLOSED"
            /\ Recovers(None)
            /\ UNCHANGED <<paused, seen>>
       ELSE UNCHANGED <<session, aborted, job>>

\* Target.targetDestroyed, detachedFromTarget, Inspector.detached
TargetGone(m) ==
    /\ m.kind = "gone"
    /\ IF m.on = sid \/ m.tab = tab
       THEN /\ sid' = None /\ tab' = None /\ state' = "TARGET_CLOSED"
            /\ Recovers(None)
            /\ UNCHANGED <<paused, seen>>
       ELSE UNCHANGED <<session, aborted, job>>

Handle ==
    /\ wire # <<>>
    /\ wire' = Tail(wire)
    /\ LET m == Head(wire) IN Replied(m) \/ PageChanged(m) \/ TargetGone(m)
    /\ UNCHANGED <<chrome, inbox, link, known, plan, history>>

-----------------------------------------------------------------------------
(* What goes wrong, and the user.                                          *)

Counted == faults > 0 /\ faults' = faults - 1 /\ UNCHANGED stopped

\* The reply to a command that timed out has no pending request
Forgotten(q, d) == [i \in 1..Len(q) |-> IF q[i].by = d THEN [q[i] EXCEPT !.by = None]
                                                       ELSE q[i]]
\* The timer of ChromeConnection.send: Chrome may still execute the command
Timeout(d) ==
    /\ Counted /\ UNCHANGED unfounded
    /\ job[d].at = "sent"
    /\ job' = [job EXCEPT ![d].at = "back", ![d].ok = @ /\ job[d].last \in Lenient]
    /\ inbox' = Forgotten(inbox, d) /\ wire' = Forgotten(wire, d)
    /\ UNCHANGED <<chrome, link, session, known, aborted, plan>>

\* Faulty: pending commands are not rejected
LinkLostSilently ==
    /\ Counted /\ UNCHANGED unfounded
    /\ link /\ link' = FALSE
    /\ live' = {} /\ inbox' = <<>> /\ wire' = <<>>
    /\ state' = "CONNECTION_LOST" /\ sid' = None /\ tab' = None
    /\ UNCHANGED <<open, home, held, typed, paused, seen, known, aborted, job, plan>>

\* The WebSocket closes: the session is lost, every pending command fails
LinkLost ==
    /\ Counted /\ UNCHANGED unfounded
    /\ link /\ link' = FALSE
    /\ live' = {} /\ inbox' = <<>> /\ wire' = <<>>
    /\ state' = "CONNECTION_LOST" /\ sid' = None /\ tab' = None
    /\ job' = [d \in Drivers |->
            IF job[d].at = "sent"
            THEN [job[d] EXCEPT !.at = "back", !.ok = job[d].last \in Lenient]
            ELSE job[d]]
    /\ UNCHANGED <<open, home, held, typed, paused, seen, known, aborted, plan>>

\* The user closes a tab, a page changes, the debugger is detached
Outside ==
    /\ Counted /\ UNCHANGED unfounded
    /\ \/ \E t \in open : /\ open' = open \ {t} /\ live' = live \ SessionsOf(t)
                          /\ wire' = wire \o Gone(SessionsOf(t))
       \/ \E s \in live : /\ wire' = Append(wire, Event("changed", s))
                          /\ UNCHANGED <<open, live>>
       \/ \E s \in live : /\ live' = live \ {s} /\ wire' = wire \o Gone({s})
                          /\ UNCHANGED open
    /\ UNCHANGED <<home, held, typed, inbox, link, session, known, aborted, job, plan>>

\* pause and resume: resume sets READY whatever the state was
PauseResume ==
    /\ Counted
    /\ paused' = ~paused
    /\ state' = IF paused THEN "READY" ELSE "WAITING_FOR_USER"
    /\ unfounded' = IF paused THEN sid = None ELSE unfounded
    /\ UNCHANGED <<chrome, inbox, wire, link, tab, sid, seen, known, aborted, job, plan>>

-----------------------------------------------------------------------------
Init ==
    /\ open \in (SUBSET Tabs) \ {{}, Tabs}
    /\ home = <<>> /\ held = <<>> /\ live = {} /\ typed = 0
    /\ inbox = <<>> /\ wire = <<>> /\ link = FALSE
    /\ state = "DISCONNECTED" /\ paused = FALSE
    /\ tab = None /\ sid = None /\ seen = None
    /\ known = {} /\ aborted = FALSE
    /\ job = [d \in Drivers |-> Idle]
    /\ \E p \in Programs : plan = p.does /\ faults = p.faults
    /\ turning = FALSE /\ stopped = FALSE /\ unfounded = FALSE

\* What comes from outside comes between the turns of the event loop.  Chrome
\* does not wait for these, but no turn depends on what it does meanwhile.
Other ==
  /\ Calm
  /\ \/ \E d \in Drivers : Timeout(d)
     \/ \E k \in Operations : Begin(k)
     \/ \E k \in {"connect", "stop"} : Command(k)
     \/ EnsureActive \/ Chrome \/ Handle
     \/ LinkLost \/ Outside \/ PauseResume

Next ==
    \/ \E d \in Drivers : Turn(d)
    \/ Other /\ UNCHANGED turning

Spec == Init /\ [][Next]_vars

\* The event loop runs what is ready, and Chrome answers what it was asked
Fairness == /\ \A d \in Drivers : WF_vars(Turn(d))
            /\ WF_vars(Chrome /\ UNCHANGED turning) /\ WF_vars(Handle /\ UNCHANGED turning)
FairSpec == Spec /\ Fairness

-----------------------------------------------------------------------------
(* Properties.                                                             *)

States == {"DISCONNECTED", "ATTACHING", "READY", "ACTING", "WAITING_FOR_USER",
           "STOPPED", "CONNECTION_LOST", "TARGET_CLOSED"}

\* What driver d is doing: the steps to come, the command it has sent, whether
\* that was answered well, by which session and which tabs, the tabs of a window
\* to close, the operation and its tab, the tab that was looked at.
Kinds == Operations \cup {"recover", "connect", "stop", "dragged", "none"}
Job == [todo : Seq(Steps), at : {"idle", "turn", "sent", "back"},
        last : Steps \cup {"enable", "none"}, ok : BOOLEAN, num : Nat,
        tabs : SUBSET Tabs, rest : SUBSET Tabs, kind : Kinds,
        to : Tabs \cup {None}, saw : Tabs \cup {None}, calm : BOOLEAN]
Cmd == [by : Drivers \cup {None}, cmd : Steps \cup {"enable"}, on : Nat \cup {None},
        to : Tabs \cup {None}, saw : Tabs \cup {None}, kind : Kinds, calm : BOOLEAN]
Message == [kind : {"reply", "gone", "changed"}, by : Drivers \cup {None}, ok : BOOLEAN,
            num : Nat, tabs : SUBSET Tabs, on : Nat \cup {None}, tab : Tabs \cup {None}]

\* Type correctness.
TypeOK ==
    /\ open \subseteq Tabs /\ tab \in Tabs \cup {None} /\ seen \in Tabs \cup {None}
    /\ home \in Seq(Tabs) /\ held \in Seq(SUBSET {"button", "double", "key", "raw"})
    /\ Len(held) = Len(home) /\ Len(home) <= MaxSessions /\ typed \in Nat
    /\ live \subseteq DOMAIN home /\ sid \in Nat \cup {None}
    /\ inbox \in Seq(Cmd) /\ wire \in Seq(Message) /\ job \in [Drivers -> Job]
    /\ state \in States /\ paused \in BOOLEAN /\ link \in BOOLEAN
    /\ known \subseteq Recorded /\ aborted \in BOOLEAN /\ turning \in BOOLEAN
    /\ plan \in Seq(Operations) /\ stopped \in BOOLEAN /\ faults \in Nat
    /\ unfounded \in BOOLEAN

\* The events of a mouse action go to the tab of the observation it was
\* checked against, whatever closes, recovers or reconnects meanwhile
\* (target_recovery.integration.test.ts:84: "reject stale actions on recovered
\* target").  A recovery that was under way when the action began breaks this:
\* it has drained the queue before, and does so no more when the target is lost.
MouseGoesWhereLooked ==
    \A i \in DOMAIN inbox :
        inbox[i].saw # None => home[inbox[i].on] = inbox[i].saw

\* It holds for the actions that began with no recovery under way.
CalmMouseGoesWhereLooked ==
    \A i \in DOMAIN inbox :
        inbox[i].saw # None /\ inbox[i].calm => home[inbox[i].on] = inbox[i].saw

\* The session that commands are sent on is alive in Chrome, or the event that
\* says otherwise is on its way - unless its domains are still being enabled,
\* which then fails.  While an action is executed there is a session, and in
\* READY, unless it is being detached or READY was set where there was none:
\* that only resume() does (session.ts:336), or an attach() whose target was
\* lost when its last reply had come.
SessionIsReal ==
    /\ sid # None /\ (\A d \in Drivers : job[d].last # "enable")
       => \/ sid \in live
          \/ \E i \in DOMAIN wire : wire[i].kind = "gone" /\ wire[i].on = sid
    /\ state = "ACTING" => sid # None
    /\ state = "READY" /\ (\A d \in Drivers : job[d].last \notin {"leave", "depart"})
       => sid # None \/ unfounded

\* READY promises a session (session.ts isReady): resume() breaks this.
ReadyHasSession == state = "READY" => sid # None

\* switch_tab, close_tab and stop() leave a session only when Chrome holds
\* nothing any more of what inputState records - even if the press or the
\* release was aborted or timed out (controller.ts resetInputState).  Not so a
\* stop() beside which a recovery has opened the queue again.
ReleasedBeforeLeaving ==
    inbox # <<>> =>
        LET c == Head(inbox) IN
        (/\ c.cmd \in {"leave", "depart"} /\ c.on \in live
         /\ c.kind \in {"switch_tab", "close_tab"} \/ (c.kind = "stop" /\ c.calm))
            => held[c.on] \cap Recorded = {}

\* stop() beside a recovery: the queue is open again once the recovery has
\* drained it, and an action may press something between the resets of stop()
\* and its detach().
ReleasedBeforeStopping ==
    inbox # <<>> =>
        LET c == Head(inbox) IN
        c.cmd = "leave" /\ c.on \in live /\ c.kind = "stop" => held[c.on] \cap Recorded = {}

\* ... nor anything else, as "reset for all held keys, buttons, and drag
\* state" (controller.ts:356) would have it.
NothingHeldOnLeaving ==
    inbox # <<>> =>
        LET c == Head(inbox) IN
        (/\ c.cmd \in {"leave", "depart"} /\ c.on \in live
         /\ c.kind \in {"switch_tab", "close_tab", "stop"})
            => held[c.on] = {}

\* A character of a typed text is entered once (unicode.test.ts:22: "1
\* rawKeyDown, 1 char, and 1 keyUp").
TypedOnce == typed <= TextLength

\* Every task ends, whatever is lost or times out.
EveryTaskEnds == []<>(job["task"].at = "idle")
=============================================================================
