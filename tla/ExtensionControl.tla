-------------------------- MODULE ExtensionControl --------------------------
(***************************************************************************)
(* The control session of the extension's service worker: the tab the      *)
(* debugger is attached to, the epochs, the observations and Pause, under  *)
(* commands that run beside each other and events of Chrome.               *)
(*                                                                         *)
(* An action is the code between two awaits.  cmd[r].pc names the await    *)
(* at which command r is suspended.                                        *)
(*                                                                         *)
(* Definitions whose comment begins with "Faulty" are variants that no     *)
(* specification uses (see ActionQueue).                                   *)
(***************************************************************************)
EXTENDS Naturals, Sequences

CONSTANTS
    Commands,   \* commands from a transport, and followings of the active tab
    Tabs,       \* tabs that may be controlled
    None,       \* null
    KindsOf,    \* KindsOf[r]: the kinds that command r may be
    Items,      \* number of actions of an action_queue
    MaxObservations, \* MAX_OBSERVATIONS
    MaxEvents   \* bound: on the events of the user and of pages

\* capture: observe, snapshot.  act: an action bound to an observation, such as
\* click or type.  queue: action_queue.  switch: switch_tab, new_tab.
\* close: close_tab.  follow: followActiveTabIfNeeded.
Kinds == {"capture", "act", "queue", "switch", "close", "follow"}

ASSUME ControlAssumption ==
    /\ None \notin Tabs \cup Commands
    /\ KindsOf \in [Commands -> SUBSET Kinds]
    /\ {Items, MaxObservations, MaxEvents} \subseteq Nat

VARIABLES
    kind,      \* kind[r]: the kind of command r; it never changes
    cmd,       \* cmd[r]: the async function of command r
    attached,  \* attachedTabId
    epoch,     \* visualEpoch
    context,   \* controlContextEpoch
    cosmetic,  \* lastInvalidationReason is one that assertFresh tolerates
    store,     \* observations, in the order of insertion
    paused,    \* paused
    pausing,   \* togglePause is at its first await and will detach
    leaving,   \* tabs that a detach() of the user is detaching from
    debugged,  \* Chrome: tabs the debugger is attached to
    page,      \* Chrome: page[t], the document that tab t shows
    news,      \* Chrome: tabs with a navigation event on its way
    known,     \* history: known[t], the last document of t that was reported
    shown,     \* history: shown[r], the document on the pixels of capture r
    disturbed, \* history: queues whose tab, document or window changed meanwhile
    events     \* history: number of events of the user and of pages

session == <<attached, epoch, context, cosmetic, store>>
chrome  == <<debugged, page, news, known>>
vars    == <<kind, cmd, session, paused, pausing, leaving, chrome, shown, disturbed, events>>

-----------------------------------------------------------------------------
Attaching == {"config", "get", "detach", "debug", "enable"}
Waiting == {"new", "started", "plan", "capture", "shoot", "shot", "press", "release",
            "after", "item", "remove"} \cup Attaching
Over    == {"done", "failed"}

CommandState ==
    [pc      : Waiting \cup Over,
     want    : Tabs \cup {None},     \* attach: the tab to attach to
     from    : Tabs \cup {None},     \* attach: the tab to detach from
     next    : Waiting \cup Over,    \* attach: where the caller goes on
     on      : Tabs \cup {None},     \* the tab an awaited ensureAttached gave
     tab     : Tabs \cup {None},     \* tabId of a capture, queueTabId, the tab to
                                     \* close, the tab an act was checked on
     context : Nat,                  \* queueContextEpoch
     item    : 0..Items]                  \* actions of the queue carried out

\* Where a command is in its own code; attach returns there.
PlaceOf(c) == IF c.pc \in Attaching THEN c.next ELSE c.pc

\* A command at a place, with nothing else to remember.
Blank(place) == [pc |-> place, want |-> None, from |-> None, next |-> "new",
                 on |-> None, tab |-> None, context |-> 0, item |-> 0]

Observation == [id : Commands, tab : Tabs, epoch : Nat]

TypeOK ==
    /\ kind \in [Commands -> Kinds]
    /\ cmd \in [Commands -> CommandState]
    /\ attached \in Tabs \cup {None}
    /\ epoch \in Nat /\ context \in Nat
    /\ cosmetic \in BOOLEAN
    /\ store \in Seq(Observation)
    /\ paused \in BOOLEAN /\ pausing \in BOOLEAN
    /\ leaving \subseteq Tabs /\ debugged \subseteq Tabs /\ news \subseteq Tabs
    /\ page \in [Tabs -> Nat] /\ known \in [Tabs -> Nat]
    /\ shown \in [Commands -> (Tabs \X Nat) \cup {<<>>}]
    /\ disturbed \subseteq Commands
    /\ events \in 0..MaxEvents

Init ==
    /\ kind \in [Commands -> Kinds] /\ \A r \in Commands : kind[r] \in KindsOf[r]
    /\ cmd = [r \in Commands |-> Blank("new")]
    /\ attached = None /\ epoch = 0 /\ context = 0 /\ cosmetic = FALSE /\ store = <<>>
    /\ paused = FALSE /\ pausing = FALSE /\ leaving = {}
    /\ debugged = {} /\ news = {}
    /\ page = [t \in Tabs |-> 0] /\ known = [t \in Tabs |-> 0]
    /\ shown = [r \in Commands |-> <<>>]
    /\ disturbed = {} /\ events = 0

-----------------------------------------------------------------------------
(* Observations *)

\* Faulty: the observations stay.
InvalidateKeeps(moves, harmless) ==
    /\ epoch' = epoch + 1
    /\ context' = IF moves THEN context + 1 ELSE context
    /\ cosmetic' = harmless
    /\ store' = store

\* invalidateVisualState: its reason is one that changes the control context
\* (moves), or one that assertFresh tolerates (harmless).
Invalidate(moves, harmless) ==
    /\ epoch' = epoch + 1
    /\ context' = IF moves THEN context + 1 ELSE context
    /\ cosmetic' = harmless
    /\ store' = <<>>

\* rememberObservation: the oldest goes when there are too many.
Remembered(record) ==
    LET all == Append(store, record)
    IN  IF Len(all) > MaxObservations THEN Tail(all) ELSE all

\* assertFresh: a tolerated reason must also be young, which time decides.
Fresh(id) ==
    \E i \in 1..Len(store) :
        /\ store[i].id = id
        /\ store[i].tab = attached
        /\ store[i].epoch = epoch \/ cosmetic

-----------------------------------------------------------------------------
(* Commands.  The operators that follow change one command. *)

At(r, place) == cmd[r].pc = place
Becomes(r, c) == cmd' = [cmd EXCEPT ![r] = c]
Go(r, place)  == Becomes(r, [cmd[r] EXCEPT !.pc = place, !.on = None])
Finish(r)     == Becomes(r, Blank("done"))
Fail(r)       == Becomes(r, Blank("failed"))

\* attach(t), up to its first await; `place` is where the caller goes on.
BeginAttach(r, t, place) ==
    IF attached = t
    THEN Becomes(r, [cmd[r] EXCEPT !.pc = place, !.on = t, !.next = "new"])
    ELSE Becomes(r, [cmd[r] EXCEPT !.pc = "get", !.want = t, !.next = place])

\* What ensureAttached gives at once, or gave before the last await.
Ensured(r) == IF cmd[r].on # None THEN cmd[r].on ELSE attached

\* ensureAttached has to attach first, and r comes back to the same place.
MustAttach(r) ==
    /\ Ensured(r) = None
    /\ Becomes(r, [cmd[r] EXCEPT !.pc = "config", !.next = cmd[r].pc])

\* send: a CDP command for the tab, which fails when Chrome says so.
Sent(r) == Ensured(r) \in debugged

-----------------------------------------------------------------------------
(* attach and detach *)

\* The sync part of detach: the tab is forgotten before Chrome is told.
Forget == attached' = None /\ Invalidate(TRUE, FALSE)

\* getConfig and preferredTargetTab: any tab may be the active one.
Config(r) ==
    /\ At(r, "config")
    /\ \/ \E t \in Tabs : BeginAttach(r, t, cmd[r].next)
       \/ Fail(r)
    /\ UNCHANGED <<session, paused, pausing, leaving, chrome, shown>>

\* chrome.tabs.get has answered; a tab held before is detached first.
Get(r) ==
    /\ At(r, "get")
    /\ \/ Fail(r) /\ UNCHANGED session
       \/ attached = None /\ Go(r, "debug") /\ UNCHANGED session
       \/ /\ attached # None
          /\ Becomes(r, [cmd[r] EXCEPT !.pc = "detach", !.from = attached])
          /\ Forget
    /\ UNCHANGED <<paused, pausing, leaving, chrome, shown>>

\* chrome.debugger.detach has ended, in attach or for Leave; its errors are
\* ignored.
Detached(r) ==
    /\ At(r, "detach")
    /\ debugged' = debugged \ {cmd[r].from}
    /\ IF cmd[r].want = None
       THEN Finish(r)
       ELSE Becomes(r, [cmd[r] EXCEPT !.pc = "debug", !.from = None])
    /\ UNCHANGED <<session, paused, pausing, leaving, page, news, known, shown>>

\* chrome.debugger.attach has ended; whoever comes last is attachedTabId.
Debug(r) ==
    /\ At(r, "debug")
    /\ \/ Fail(r) /\ UNCHANGED <<session, debugged>>
       \/ /\ Go(r, "enable")
          /\ debugged' = debugged \cup {cmd[r].want}
          /\ attached' = cmd[r].want
          /\ Invalidate(TRUE, FALSE)
    /\ UNCHANGED <<paused, pausing, leaving, page, news, known, shown>>

\* The domains are enabled, or one of these CDP commands fails.
Enable(r) ==
    /\ At(r, "enable")
    /\ \/ /\ cmd[r].want \in debugged
          /\ Becomes(r, [cmd[r] EXCEPT !.pc = cmd[r].next, !.on = cmd[r].want,
                                        !.want = None, !.next = "new"])
          /\ UNCHANGED <<session, debugged>>
       \/ /\ Fail(r)
          /\ debugged' = debugged \ {cmd[r].want}
          /\ Forget
    /\ UNCHANGED <<paused, pausing, leaving, page, news, known, shown>>

-----------------------------------------------------------------------------
(* handleRpc and the bodies of the commands *)

\* followTabInFlight, which is set only after followActiveTabIfNeeded has
\* looked at it and then waited for getConfig.
Following == {r \in Commands : kind[r] = "follow" /\ cmd[r].pc \notin {"new", "started"} \cup Over}

Begin(r) ==
    /\ At(r, "new")
    /\ IF kind[r] = "follow"
       THEN ~paused /\ attached # None /\ Following = {} /\ Go(r, "started")
       ELSE IF paused THEN Fail(r) ELSE Go(r, "started")
    /\ UNCHANGED <<session, paused, pausing, leaving, chrome, shown>>

\* After touchControlSession or getConfig: the command proper.
Start(r) ==
    /\ At(r, "started")
    /\ \/ kind[r] = "capture" /\ Go(r, "capture")
       \/ kind[r] = "queue" /\ Go(r, "plan")
       \/ /\ kind[r] = "act"
          /\ \E id \in Commands :
                IF Fresh(id) THEN Becomes(r, [cmd[r] EXCEPT !.pc = "press", !.tab = attached])
                             ELSE Fail(r)
       \/ /\ kind[r] = "close"
          /\ \E id \in Commands, t \in Tabs :
                IF Fresh(id) THEN Becomes(r, [cmd[r] EXCEPT !.pc = "remove", !.tab = t])
                             ELSE Fail(r)
       \/ /\ kind[r] \in {"switch", "follow"}
          /\ \E t \in Tabs : BeginAttach(r, t, "done")
       \/ kind[r] = "follow" /\ Finish(r)
    /\ UNCHANGED <<session, paused, pausing, leaving, chrome, shown>>

\* The user has gone to a tab that cannot be controlled.
Leave(r) ==
    /\ At(r, "started") /\ kind[r] = "follow"
    /\ IF attached = None
       THEN Finish(r)
       ELSE Becomes(r, [cmd[r] EXCEPT !.pc = "detach", !.from = attached])
    /\ Forget
    /\ UNCHANGED <<paused, pausing, leaving, chrome, shown>>

\* closeTab, after chrome.tabs.remove.
Close(r) ==
    /\ At(r, "remove")
    /\ debugged' = debugged \ {cmd[r].tab}
    /\ \/ /\ cmd[r].tab = attached
          /\ attached' = None
          /\ Invalidate(FALSE, FALSE)
       \/ cmd[r].tab # attached /\ UNCHANGED session
    /\ Finish(r)
    /\ UNCHANGED <<paused, pausing, leaving, page, news, known, shown>>

\* executeActionQueue: what the queue is bound to.  An observation is required
\* only if its actions are given by coordinates.
Plan(r) ==
    /\ At(r, "plan")
    /\ \/ MustAttach(r)
       \/ /\ Ensured(r) # None
          /\ \/ Becomes(r, [cmd[r] EXCEPT !.pc = "item", !.on = None,
                                           !.tab = attached, !.context = context])
             \/ (\E id \in Commands : ~Fresh(id)) /\ Fail(r)
    /\ UNCHANGED <<session, paused, pausing, leaving, chrome, shown>>

\* Faulty: looks at the tab alone.
ContinuesOnTab(r) == ~paused /\ attached = cmd[r].tab

\* The checks before each action of a queue.
Continues(r) == ~paused /\ attached = cmd[r].tab /\ context = cmd[r].context

\* The next action of the queue: one with inputs, a move, or a wait; after the
\* last one, the snapshot.
Item(r) ==
    /\ At(r, "item")
    /\ \/ cmd[r].item = Items /\ Go(r, "capture")
       \/ cmd[r].item < Items /\ ~Continues(r) /\ Fail(r)
       \/ /\ cmd[r].item < Items /\ Continues(r)
          /\ \/ Go(r, "press") \/ Go(r, "after")
             \/ Becomes(r, [cmd[r] EXCEPT !.item = @ + 1])
    /\ UNCHANGED <<session, paused, pausing, leaving, chrome, shown>>

\* The inputs of an action: a press and a release, each a send of its own.
Input(r) ==
    /\ cmd[r].pc \in {"press", "release"}
    /\ \/ MustAttach(r)
       \/ Ensured(r) # None /\ Fail(r)
       \/ Sent(r) /\ Go(r, IF At(r, "press") THEN "release" ELSE "after")
    /\ UNCHANGED <<session, paused, pausing, leaving, chrome, shown>>

\* The action ends with an invalidation, whose reason depends on the action.
After(r) ==
    /\ At(r, "after")
    /\ \E harmless \in BOOLEAN : Invalidate(FALSE, harmless)
    /\ IF kind[r] = "queue"
       THEN Becomes(r, [cmd[r] EXCEPT !.pc = "item", !.item = @ + 1])
       ELSE Finish(r)
    /\ UNCHANGED <<attached, paused, pausing, leaving, chrome, shown>>

\* observe and snapshot: the tab is read here, its pixels are taken later.
Capture(r) ==
    /\ At(r, "capture")
    /\ \/ MustAttach(r)
       \/ /\ Ensured(r) # None
          /\ Becomes(r, [cmd[r] EXCEPT !.pc = "shoot", !.on = None, !.tab = Ensured(r)])
    /\ UNCHANGED <<session, paused, pausing, leaving, chrome, shown>>

Shoot(r) ==
    /\ At(r, "shoot")
    /\ \/ MustAttach(r) /\ UNCHANGED shown
       \/ Ensured(r) # None /\ Fail(r) /\ UNCHANGED shown
       \/ /\ Sent(r)
          /\ Go(r, "shot")
          /\ shown' = [shown EXCEPT ![r] = <<Ensured(r), page[Ensured(r)]>>]
    /\ UNCHANGED <<session, paused, pausing, leaving, chrome>>

\* Faulty: with the epoch the capture began with.
RememberOlder(r) ==
    /\ At(r, "shot")
    /\ epoch > 0
    /\ store' = Remembered([id |-> r, tab |-> cmd[r].tab, epoch |-> epoch - 1])
    /\ Finish(r)
    /\ UNCHANGED <<attached, epoch, context, cosmetic, paused, pausing, leaving, chrome, shown>>

\* After the capture: the record gets the epoch of this moment.
Remember(r) ==
    /\ At(r, "shot")
    /\ store' = Remembered([id |-> r, tab |-> cmd[r].tab, epoch |-> epoch])
    /\ Finish(r)
    /\ UNCHANGED <<attached, epoch, context, cosmetic, paused, pausing, leaving, chrome, shown>>

Advance(r) ==
    \/ Begin(r) \/ Start(r) \/ Leave(r) \/ Close(r) \/ Plan(r) \/ Item(r) \/ Input(r) \/ After(r)
    \/ Capture(r) \/ Shoot(r) \/ Remember(r)
    \/ Config(r) \/ Get(r) \/ Detached(r) \/ Debug(r) \/ Enable(r)

-----------------------------------------------------------------------------
(* The user *)

TogglePause ==
    /\ paused' = ~paused
    /\ pausing' = (pausing \/ ~paused)
    /\ Invalidate(FALSE, FALSE)
    /\ UNCHANGED <<cmd, attached, leaving, chrome, shown>>

\* The rest of togglePause: detach, whatever paused is by now.
PauseDetaches ==
    /\ pausing
    /\ pausing' = FALSE
    /\ leaving' = leaving \cup ({attached} \ {None})
    /\ Forget
    /\ UNCHANGED <<cmd, paused, chrome, shown>>

\* The alarm of an idle session, disconnect, or a preference.
SessionEnds ==
    /\ leaving' = leaving \cup ({attached} \ {None})
    /\ Forget
    /\ UNCHANGED <<cmd, paused, pausing, chrome, shown>>

Left(t) ==
    /\ t \in leaving
    /\ leaving' = leaving \ {t}
    /\ debugged' = debugged \ {t}
    /\ UNCHANGED <<cmd, session, paused, pausing, page, news, known, shown>>

-----------------------------------------------------------------------------
(* Chrome *)

Navigates(t) ==
    /\ page' = [page EXCEPT ![t] = @ + 1]
    /\ news' = IF t \in debugged THEN news \cup {t} ELSE news
    /\ UNCHANGED <<cmd, session, paused, pausing, leaving, debugged, known, shown>>

\* Faulty: a navigation is not a change of context.
ToldQuietly(t) ==
    /\ t \in news
    /\ news' = news \ {t}
    /\ \/ /\ attached = t
          /\ known' = [known EXCEPT ![t] = page[t]]
          /\ Invalidate(FALSE, FALSE) /\ UNCHANGED attached
       \/ attached # t /\ UNCHANGED <<known, session>>
    /\ UNCHANGED <<cmd, paused, pausing, leaving, debugged, page, shown>>

\* Page.frameNavigated reaches the extension, which heeds its own tab only.
Told(t) ==
    /\ t \in news
    /\ news' = news \ {t}
    /\ \/ /\ attached = t
          /\ known' = [known EXCEPT ![t] = page[t]]
          /\ Invalidate(TRUE, FALSE) /\ UNCHANGED attached
       \/ attached # t /\ UNCHANGED <<known, session>>
    /\ UNCHANGED <<cmd, paused, pausing, leaving, debugged, page, shown>>

\* The user acts on the page, or it opens a dialog.
PageEvent ==
    /\ attached # None
    /\ Invalidate(FALSE, FALSE)
    /\ UNCHANGED <<cmd, attached, paused, pausing, leaving, chrome, shown>>

\* windows.onBoundsChanged; "window-resized" contains one of the reasons that
\* assertFresh tolerates.
Resized ==
    /\ attached # None
    /\ Invalidate(TRUE, TRUE)
    /\ UNCHANGED <<cmd, attached, paused, pausing, leaving, chrome, shown>>

\* debugger.onDetach: the user cancels debugging, or the tab closes.
DebuggerDetached(t) ==
    /\ t \in debugged
    /\ debugged' = debugged \ {t}
    /\ \/ attached = t /\ Forget
       \/ attached # t /\ UNCHANGED session
    /\ UNCHANGED <<cmd, paused, pausing, leaving, page, news, known, shown>>

-----------------------------------------------------------------------------
\* What goes on by itself, and what the user and the pages do.
Step ==
    \/ \E r \in Commands : Advance(r)
    \/ PauseDetaches
    \/ \E t \in Tabs : Left(t) \/ Told(t)

Event ==
    \/ TogglePause \/ SessionEnds \/ PageEvent \/ Resized
    \/ \E t \in Tabs : Navigates(t) \/ DebuggerDetached(t)

\* Where command r is in its own code.
Place(r) == PlaceOf(cmd[r])

\* Queue r has read its tab and its context and carries out its actions.
Acting     == {"item", "press", "release", "after"}
Planned(r) == kind[r] = "queue" /\ Place(r) \in Acting

\* The tab is another one, its document is, or the window has another size.
Disturb ==
    LET change == attached' # attached \/ known' # known \/ Resized
    IN  disturbed' = {r \in Commands : Planned(r) /\ (change \/ r \in disturbed)}

Next ==
    /\ \/ Step /\ UNCHANGED events
       \/ Event /\ events < MaxEvents /\ events' = events + 1
    /\ Disturb
    /\ UNCHANGED kind

Spec == Init /\ [][Next]_vars

-----------------------------------------------------------------------------
(* Properties. *)

\* Every remembered observation carries the current epoch, whatever happened
\* while it was taken, so that assertFresh never has to tolerate an older one
\* (service-worker.js:286-294, 619-628).
ObservationsAreCurrent ==
    /\ \A i \in 1..Len(store) : store[i].epoch = epoch
    /\ Len(store) <= MaxObservations

\* "A local context check stops later inputs if the tab navigates, changes, or
\* resizes" (README.md:138; service-worker.js:1514-1547): a queue begins none of
\* its actions after that, even if it is back on the tab it was planned on.
QueueStaysInContext ==
    [][\A r \in Commands : At(r, "item") /\ cmd'[r].pc = "press" => r \notin disturbed]_vars

\* "Pause immediately stops browser actions and detaches from the controlled
\* page" (README.md:296): once the pause has run, nothing is attached.
PausedIsDetached == paused /\ ~pausing => attached = None

\* "If the page changes, [...] navigation occurs, [...] old observations are
\* invalidated" (README.md:497): an observation in the store was taken of its
\* tab, and not of a document older than the last one reported.
ObservationsShowPage ==
    \A i \in 1..Len(store) :
        LET o == store[i] IN shown[o.id][1] = o.tab /\ shown[o.id][2] >= known[o.tab]

\* A step sends an input of r to Chrome.
Dispatches(r) ==
    \/ At(r, "press") /\ cmd'[r].pc = "release"
    \/ At(r, "release") /\ cmd'[r].pc = "after"

\* "Visual actions are observation-bound.  The page must still match what the
\* model saw" (README.md:680): the inputs of an action go to the tab of the
\* observation it was checked against.
InputsReachObservedTab ==
    [][\A r \in Commands : kind[r] = "act" /\ Dispatches(r) => Ensured(r) = cmd[r].tab]_vars
=============================================================================
