----------------------- MODULE ExtensionControlProofs -----------------------
(***************************************************************************)
(* Theorems about ExtensionControl, for every set of commands and of tabs, *)
(* and every bound that ControlAssumption allows.                          *)
(***************************************************************************)
EXTENDS ExtensionControl, TLAPS

\* What a command of kind k holds at the places where it is needed.
Holds(k, c) ==
    /\ c.pc \in {"get", "debug", "enable"} => c.want # None
    /\ c.next \notin Attaching
    /\ c.pc \notin Attaching => c.next = "new"
    /\ PlaceOf(c) \in {"shoot", "shot"} => c.tab # None
    /\ k = "queue" /\ PlaceOf(c) \in {"press", "release", "after"} => c.item < Items

Good(k, c) == c \in CommandState /\ Holds(k, c)

AllGood == \A s \in Commands : Good(kind[s], cmd[s])

ControlInv == TypeOK /\ AllGood

-----------------------------------------------------------------------------
LEMMA Constants ==
    /\ Items \in Nat /\ MaxObservations \in Nat /\ MaxEvents \in Nat
    /\ None \notin Tabs
BY ControlAssumption

LEMMA GoodBlank ==
    ASSUME NEW k, NEW place \in {"new", "done", "failed"}
    PROVE  Good(k, Blank(place))
BY Constants DEF Good, Holds, CommandState, Blank, PlaceOf, Waiting, Attaching, Over

\* A command that becomes a good one leaves all of them good.
LEMMA Becoming ==
    ASSUME ControlInv, NEW r \in Commands, NEW c, Becomes(r, c), Good(kind[r], c), kind' = kind
    PROVE  cmd' \in [Commands -> CommandState] /\ AllGood'
<1>1. cmd \in [Commands -> CommandState] /\ c \in CommandState
  BY DEF ControlInv, TypeOK, Good
<1>2. cmd' \in [Commands -> CommandState]
  BY <1>1 DEF Becomes
<1>3. ASSUME NEW s \in Commands
      PROVE  Good(kind'[s], cmd'[s])
  BY <1>1 DEF Becomes, ControlInv, AllGood
<1> QED BY <1>2, <1>3 DEF AllGood

-----------------------------------------------------------------------------
(* What the steps of one command do to the commands. *)

LEMMA Mine ==
    ASSUME ControlInv, NEW r \in Commands
    PROVE  cmd[r] \in CommandState /\ Holds(kind[r], cmd[r])
BY DEF ControlInv, AllGood, Good

LEMMA Ends ==
    ASSUME ControlInv, NEW r \in Commands, kind' = kind, Finish(r) \/ Fail(r)
    PROVE  cmd' \in [Commands -> CommandState] /\ AllGood'
BY GoodBlank, Becoming DEF Finish, Fail

\* To a place where a command needs nothing more than where it was.
LEMMA Goes ==
    ASSUME ControlInv, NEW r \in Commands, kind' = kind, NEW place \in Waiting \cup Over,
           Go(r, place),
           place \in Attaching <=> cmd[r].pc \in Attaching,
           place \in {"debug", "enable"} => cmd[r].want # None,
           place \notin {"config", "get", "detach", "shoot"},
           place = "shot" => cmd[r].tab # None,
           place \in {"press", "release", "after"} /\ kind[r] = "queue" => cmd[r].item < Items
    PROVE  cmd' \in [Commands -> CommandState] /\ AllGood'
<1> DEFINE c == [cmd[r] EXCEPT !.pc = place, !.on = None]
<1>1. c \in CommandState
  BY Mine DEF CommandState
<1>2. Holds(kind[r], c)
  BY Mine DEF Holds, PlaceOf, CommandState, Attaching
<1> QED BY <1>1, <1>2, Becoming DEF Go, Good

LEMMA Attaches ==
    ASSUME ControlInv, NEW r \in Commands, kind' = kind, MustAttach(r),
           cmd[r].pc \in {"plan", "press", "release", "capture", "shoot"}
    PROVE  cmd' \in [Commands -> CommandState] /\ AllGood'
<1> DEFINE c == [cmd[r] EXCEPT !.pc = "config", !.next = cmd[r].pc]
<1>1. c \in CommandState
  BY Mine DEF CommandState, Waiting, Attaching
<1>2. Holds(kind[r], c)
  BY Mine DEF Holds, PlaceOf, CommandState, Attaching
<1> QED BY <1>1, <1>2, Becoming DEF MustAttach, Good

LEMMA AdvanceKeepsCommands ==
    ASSUME ControlInv, NEW r \in Commands, Advance(r), kind' = kind
    PROVE  cmd' \in [Commands -> CommandState] /\ AllGood'
<1> USE DEF Waiting, Attaching, Over
<1>0. cmd[r] \in CommandState /\ Holds(kind[r], cmd[r])
  BY Mine
<1>1. CASE Begin(r)
  <2>1. CASE Fail(r)
    BY <2>1, Ends
  <2>2. CASE Go(r, "started")
    BY <1>1, <2>2, Goes DEF Begin, At
  <2> QED BY <1>1, <2>1, <2>2 DEF Begin
<1>2. CASE Start(r)
  <2>0. cmd[r].pc = "started" /\ cmd[r].next = "new"
    BY <1>0, <1>2 DEF Start, At, Holds
  <2>1. CASE Go(r, "capture") \/ Go(r, "plan")
    <3>1. CASE Go(r, "capture")
      BY <2>0, <3>1, Goes
    <3>2. CASE Go(r, "plan")
      BY <2>0, <3>2, Goes
    <3> QED BY <2>1, <3>1, <3>2
  <2>2. CASE Fail(r) \/ Finish(r)
    BY <2>2, Ends
  <2>3. CASE kind[r] = "act" /\ Becomes(r, [cmd[r] EXCEPT !.pc = "press", !.tab = attached])
    <3> DEFINE c == [cmd[r] EXCEPT !.pc = "press", !.tab = attached]
    <3>1. c \in CommandState
      BY <1>0 DEF CommandState, ControlInv, TypeOK
    <3>2. Holds(kind[r], c)
      BY <1>0, <2>0, <2>3 DEF Holds, PlaceOf, CommandState
    <3> QED BY <2>3, <3>1, <3>2, Becoming DEF Good
  <2>4. ASSUME NEW t \in Tabs, Becomes(r, [cmd[r] EXCEPT !.pc = "remove", !.tab = t])
        PROVE  cmd' \in [Commands -> CommandState] /\ AllGood'
    <3> DEFINE c == [cmd[r] EXCEPT !.pc = "remove", !.tab = t]
    <3>1. c \in CommandState
      BY <1>0 DEF CommandState
    <3>2. Holds(kind[r], c)
      BY <1>0, <2>0 DEF Holds, PlaceOf, CommandState
    <3> QED BY <2>4, <3>1, <3>2, Becoming DEF Good
  <2>5. ASSUME NEW t \in Tabs, BeginAttach(r, t, "done")
        PROVE  cmd' \in [Commands -> CommandState] /\ AllGood'
    <3> DEFINE b == [cmd[r] EXCEPT !.pc = "done", !.on = t, !.next = "new"]
               c == [cmd[r] EXCEPT !.pc = "get", !.want = t, !.next = "done"]
    <3>1. b \in CommandState /\ c \in CommandState
      BY <1>0 DEF CommandState
    <3>2. Holds(kind[r], b) /\ Holds(kind[r], c)
      BY <1>0, <2>0, Constants DEF Holds, PlaceOf, CommandState
    <3>3. Becomes(r, b) \/ Becomes(r, c)
      BY <2>5 DEF BeginAttach
    <3> QED BY <3>1, <3>2, <3>3, Becoming DEF Good
  <2>6. CASE kind[r] = "act"
    BY <1>2, <2>2, <2>3, <2>6 DEF Start
  <2>7. CASE kind[r] = "close"
    BY <1>2, <2>2, <2>4, <2>7 DEF Start
  <2>8. CASE kind[r] \notin {"act", "close"}
    <3>1. CASE \E t \in Tabs : BeginAttach(r, t, "done")
      BY <2>5, <3>1
    <3>2. CASE Go(r, "capture") \/ Go(r, "plan") \/ Finish(r)
      BY <2>1, <2>2, <3>2
    <3> QED BY <1>2, <2>8, <3>1, <3>2 DEF Start
  <2> QED BY <2>6, <2>7, <2>8
<1>3. CASE Leave(r)
  <2>1. CASE Finish(r)
    BY <2>1, Ends
  <2>2. CASE Becomes(r, [cmd[r] EXCEPT !.pc = "detach", !.from = attached])
    <3> DEFINE c == [cmd[r] EXCEPT !.pc = "detach", !.from = attached]
    <3>1. c \in CommandState
      BY <1>0 DEF CommandState, ControlInv, TypeOK
    <3>2. Holds(kind[r], c)
      BY <1>0, <1>3, Constants DEF Holds, PlaceOf, CommandState, Leave, At
    <3> QED BY <2>2, <3>1, <3>2, Becoming DEF Good
  <2> QED BY <1>3, <2>1, <2>2 DEF Leave
<1>4. CASE Close(r)
  BY <1>4, Ends DEF Close
<1>5. CASE Plan(r)
  <2>1. CASE MustAttach(r)
    BY <1>5, <2>1, Attaches DEF Plan, At
  <2>2. CASE Fail(r)
    BY <2>2, Ends
  <2>3. CASE Becomes(r, [cmd[r] EXCEPT !.pc = "item", !.on = None,
                                        !.tab = attached, !.context = context])
    <3> DEFINE c == [cmd[r] EXCEPT !.pc = "item", !.on = None,
                                   !.tab = attached, !.context = context]
    <3>1. c \in CommandState
      BY <1>0 DEF CommandState, ControlInv, TypeOK
    <3>2. Holds(kind[r], c)
      BY <1>0, <1>5 DEF Holds, PlaceOf, CommandState, Plan, At
    <3> QED BY <2>3, <3>1, <3>2, Becoming DEF Good
  <2> QED BY <1>5, <2>1, <2>2, <2>3 DEF Plan
<1>6. CASE Item(r)
  <2>1. CASE Fail(r)
    BY <2>1, Ends
  <2>2. CASE Go(r, "capture")
    BY <1>6, <2>2, Goes DEF Item, At
  <2>3. CASE cmd[r].item < Items /\ (Go(r, "press") \/ Go(r, "after"))
    BY <1>6, <2>3, Goes DEF Item, At
  <2>4. CASE cmd[r].item < Items /\ Becomes(r, [cmd[r] EXCEPT !.item = @ + 1])
    <3> DEFINE c == [cmd[r] EXCEPT !.item = @ + 1]
    <3>1. cmd[r].item + 1 \in 0..Items
      BY <1>0, <2>4, Constants DEF CommandState
    <3>2. c \in CommandState
      BY <1>0, <3>1 DEF CommandState
    <3>3. Holds(kind[r], c)
      BY <1>0, <1>6 DEF Holds, PlaceOf, CommandState, Item, At
    <3> QED BY <2>4, <3>2, <3>3, Becoming DEF Good
  <2> QED BY <1>6, <2>1, <2>2, <2>3, <2>4 DEF Item
<1>7. CASE Input(r)
  <2>1. CASE MustAttach(r)
    BY <1>7, <2>1, Attaches DEF Input
  <2>2. CASE Fail(r)
    BY <2>2, Ends
  <2>3. CASE Go(r, IF At(r, "press") THEN "release" ELSE "after")
    <3>1. kind[r] = "queue" => cmd[r].item < Items
      BY <1>0, <1>7 DEF Holds, PlaceOf, Input
    <3> QED BY <1>7, <2>3, <3>1, Goes DEF Input, At
  <2> QED BY <1>7, <2>1, <2>2, <2>3 DEF Input
<1>8. CASE After(r)
  <2>1. CASE Finish(r)
    BY <2>1, Ends
  <2>2. CASE kind[r] = "queue" /\ Becomes(r, [cmd[r] EXCEPT !.pc = "item", !.item = @ + 1])
    <3> DEFINE c == [cmd[r] EXCEPT !.pc = "item", !.item = @ + 1]
    <3>1. cmd[r].item + 1 \in 0..Items
      BY <1>0, <1>8, <2>2, Constants DEF CommandState, Holds, PlaceOf, After, At
    <3>2. c \in CommandState
      BY <1>0, <3>1 DEF CommandState
    <3>3. Holds(kind[r], c)
      BY <1>0, <1>8 DEF Holds, PlaceOf, CommandState, After, At
    <3> QED BY <2>2, <3>2, <3>3, Becoming DEF Good
  <2> QED BY <1>8, <2>1, <2>2 DEF After
<1>9. CASE Capture(r)
  <2>1. CASE MustAttach(r)
    BY <1>9, <2>1, Attaches DEF Capture, At
  <2>2. CASE /\ Ensured(r) # None
             /\ Becomes(r, [cmd[r] EXCEPT !.pc = "shoot", !.on = None, !.tab = Ensured(r)])
    <3> DEFINE c == [cmd[r] EXCEPT !.pc = "shoot", !.on = None, !.tab = Ensured(r)]
    <3>1. Ensured(r) \in Tabs \cup {None}
      BY <1>0 DEF Ensured, CommandState, ControlInv, TypeOK
    <3>2. c \in CommandState
      BY <1>0, <3>1 DEF CommandState
    <3>3. Holds(kind[r], c)
      BY <1>0, <1>9, <2>2 DEF Holds, PlaceOf, CommandState, Capture, At
    <3> QED BY <2>2, <3>2, <3>3, Becoming DEF Good
  <2> QED BY <1>9, <2>1, <2>2 DEF Capture
<1>10. CASE Shoot(r)
  <2>1. CASE MustAttach(r)
    BY <1>10, <2>1, Attaches DEF Shoot, At
  <2>2. CASE Fail(r)
    BY <2>2, Ends
  <2>3. CASE Go(r, "shot")
    <3>1. cmd[r].tab # None
      BY <1>0, <1>10 DEF Holds, PlaceOf, Shoot, At
    <3> QED BY <1>10, <2>3, <3>1, Goes DEF Shoot, At
  <2> QED BY <1>10, <2>1, <2>2, <2>3 DEF Shoot
<1>11. CASE Remember(r)
  BY <1>11, Ends DEF Remember
<1>12. CASE Config(r)
  <2>1. CASE Fail(r)
    BY <2>1, Ends
  <2>2. ASSUME NEW t \in Tabs, BeginAttach(r, t, cmd[r].next)
        PROVE  cmd' \in [Commands -> CommandState] /\ AllGood'
    <3> DEFINE b == [cmd[r] EXCEPT !.pc = cmd[r].next, !.on = t, !.next = "new"]
               c == [cmd[r] EXCEPT !.pc = "get", !.want = t, !.next = cmd[r].next]
    <3>1. b \in CommandState /\ c \in CommandState
      BY <1>0 DEF CommandState
    <3>2. Holds(kind[r], b) /\ Holds(kind[r], c)
      BY <1>0, <1>12, Constants DEF Holds, PlaceOf, CommandState, Config, At
    <3>3. Becomes(r, b) \/ Becomes(r, c)
      BY <2>2 DEF BeginAttach
    <3> QED BY <3>1, <3>2, <3>3, Becoming DEF Good
  <2> QED BY <1>12, <2>1, <2>2 DEF Config
<1>13. CASE Get(r)
  <2>0. cmd[r].want # None
    BY <1>0, <1>13 DEF Holds, Get, At
  <2>1. CASE Fail(r)
    BY <2>1, Ends
  <2>2. CASE Go(r, "debug")
    BY <1>13, <2>0, <2>2, Goes DEF Get, At
  <2>3. CASE Becomes(r, [cmd[r] EXCEPT !.pc = "detach", !.from = attached])
    <3> DEFINE c == [cmd[r] EXCEPT !.pc = "detach", !.from = attached]
    <3>1. c \in CommandState
      BY <1>0 DEF CommandState, ControlInv, TypeOK
    <3>2. Holds(kind[r], c)
      BY <1>0, <1>13 DEF Holds, PlaceOf, CommandState, Get, At
    <3> QED BY <2>3, <3>1, <3>2, Becoming DEF Good
  <2> QED BY <1>13, <2>1, <2>2, <2>3 DEF Get
<1>14. CASE Detached(r)
  <2>1. CASE Finish(r)
    BY <2>1, Ends
  <2>2. CASE /\ cmd[r].want # None
             /\ Becomes(r, [cmd[r] EXCEPT !.pc = "debug", !.from = None])
    <3> DEFINE c == [cmd[r] EXCEPT !.pc = "debug", !.from = None]
    <3>1. c \in CommandState
      BY <1>0 DEF CommandState
    <3>2. Holds(kind[r], c)
      BY <1>0, <1>14, <2>2 DEF Holds, PlaceOf, CommandState, Detached, At
    <3> QED BY <2>2, <3>1, <3>2, Becoming DEF Good
  <2> QED BY <1>14, <2>1, <2>2 DEF Detached
<1>15. CASE Debug(r)
  <2>1. CASE Fail(r)
    BY <2>1, Ends
  <2>2. CASE Go(r, "enable")
    BY <1>0, <1>15, <2>2, Goes DEF Debug, At, Holds
  <2> QED BY <1>15, <2>1, <2>2 DEF Debug
<1>16. CASE Enable(r)
  <2>1. CASE Fail(r)
    BY <2>1, Ends
  <2>2. CASE Becomes(r, [cmd[r] EXCEPT !.pc = cmd[r].next, !.on = cmd[r].want,
                                        !.want = None, !.next = "new"])
    <3> DEFINE c == [cmd[r] EXCEPT !.pc = cmd[r].next, !.on = cmd[r].want,
                                   !.want = None, !.next = "new"]
    <3>1. c \in CommandState
      <4>1. cmd[r].next \in Waiting \cup Over /\ cmd[r].want \in Tabs \cup {None}
        BY <1>0 DEF CommandState
      <4> QED BY <1>0, <4>1 DEF CommandState
    <3>2. Holds(kind[r], c)
      BY <1>0, <1>16 DEF Holds, PlaceOf, CommandState, Enable, At
    <3> QED BY <2>2, <3>1, <3>2, Becoming DEF Good
  <2> QED BY <1>16, <2>1, <2>2 DEF Enable
<1> QED
  BY <1>1, <1>2, <1>3, <1>4, <1>5, <1>6, <1>7, <1>8, <1>9, <1>10, <1>11, <1>12, <1>13, <1>14,
     <1>15, <1>16 DEF Advance

-----------------------------------------------------------------------------
(* Type correctness. *)

SessionOK ==
    /\ attached \in Tabs \cup {None}
    /\ epoch \in Nat /\ context \in Nat
    /\ cosmetic \in BOOLEAN
    /\ store \in Seq(Observation)

LEMMA Invalidates ==
    ASSUME SessionOK, NEW moves \in BOOLEAN, NEW harmless \in BOOLEAN, Invalidate(moves, harmless)
    PROVE  /\ epoch' \in Nat /\ context' \in Nat /\ cosmetic' \in BOOLEAN
           /\ store' \in Seq(Observation) /\ store' = << >>
           /\ context' = IF moves THEN context + 1 ELSE context
BY DEF SessionOK, Invalidate

LEMMA Forgets ==
    ASSUME SessionOK, Forget
    PROVE  SessionOK'
<1>1. attached' = None /\ Invalidate(TRUE, FALSE)
  BY DEF Forget
<1> QED BY <1>1, Invalidates DEF SessionOK

\* rememberObservation keeps to observations that are in order, and to no more
\* than it may.
LEMMA RememberedKeeps ==
    ASSUME store \in Seq(Observation), NEW o \in Observation
    PROVE  /\ Remembered(o) \in Seq(Observation)
           /\ Len(store) <= MaxObservations => Len(Remembered(o)) <= MaxObservations
           /\ o.epoch = epoch /\ (\A i \in 1..Len(store) : store[i].epoch = epoch)
                => \A i \in 1..Len(Remembered(o)) : Remembered(o)[i].epoch = epoch
<1> DEFINE all == Append(store, o)
<1>1. /\ all \in Seq(Observation) /\ Len(all) = Len(store) + 1
      /\ \A i \in 1..Len(store) : all[i] = store[i]
      /\ all[Len(store) + 1] = o
  OBVIOUS
<1>2. /\ Tail(all) \in Seq(Observation) /\ Len(Tail(all)) = Len(store)
      /\ \A i \in 1..Len(store) : Tail(all)[i] = all[i + 1]
  BY <1>1
<1>3. Len(store) \in Nat
  OBVIOUS
<1>4. ASSUME o.epoch = epoch, \A i \in 1..Len(store) : store[i].epoch = epoch
      PROVE  \A i \in 1..(Len(store) + 1) : all[i].epoch = epoch
  <2> HIDE DEF all
  <2> TAKE i \in 1..(Len(store) + 1)
  <2>1. CASE i = Len(store) + 1
    BY <1>1, <1>4, <2>1
  <2>2. CASE i # Len(store) + 1
    <3>1. i \in 1..Len(store)
      BY <1>3, <2>2
    <3> QED BY <1>1, <1>4, <3>1
  <2> QED BY <2>1, <2>2
<1>5. CASE Len(all) > MaxObservations
  <2>1. Remembered(o) = Tail(all)
    BY <1>5 DEF Remembered
  <2> HIDE DEF all
  <2>2. ASSUME o.epoch = epoch, \A i \in 1..Len(store) : store[i].epoch = epoch
        PROVE  \A i \in 1..Len(store) : Tail(all)[i].epoch = epoch
    <3>1. ASSUME NEW i \in 1..Len(store)
          PROVE  i + 1 \in 1..(Len(store) + 1)
      BY <1>3
    <3> QED BY <1>2, <1>4, <2>2, <3>1
  <2> QED BY <1>2, <1>3, <2>1, <2>2
<1>6. CASE ~(Len(all) > MaxObservations)
  <2>1. Remembered(o) = all
    BY <1>6 DEF Remembered
  <2> HIDE DEF all
  <2> QED BY <1>1, <1>3, <1>4, <1>6, <2>1, Constants
<1> QED BY <1>5, <1>6

ChromeOK ==
    /\ leaving \subseteq Tabs /\ debugged \subseteq Tabs /\ news \subseteq Tabs
    /\ page \in [Tabs -> Nat] /\ known \in [Tabs -> Nat]
    /\ shown \in [Commands -> (Tabs \X Nat) \cup {<<>>}]

PauseOK == paused \in BOOLEAN /\ pausing \in BOOLEAN

LEMMA Parts == ControlInv => SessionOK /\ ChromeOK /\ PauseOK
BY DEF ControlInv, TypeOK, SessionOK, ChromeOK, PauseOK

LEMMA AdvanceKeepsTypes ==
    ASSUME ControlInv, NEW r \in Commands, Advance(r)
    PROVE  SessionOK' /\ ChromeOK' /\ PauseOK'
<1> USE DEF session, chrome
<1>0. /\ cmd[r] \in CommandState /\ Holds(kind[r], cmd[r])
      /\ SessionOK /\ ChromeOK /\ PauseOK
  BY Mine, Parts
<1>1. CASE Begin(r) \/ Start(r) \/ Plan(r) \/ Item(r) \/ Input(r) \/ Capture(r) \/ Config(r)
  BY <1>0, <1>1 DEF Begin, Start, Plan, Item, Input, Capture, Config, SessionOK, ChromeOK, PauseOK
<1>2. CASE Leave(r)
  BY <1>0, <1>2, Forgets DEF Leave, ChromeOK, PauseOK
<1>3. CASE Close(r)
  <2>1. SessionOK'
    BY <1>0, <1>3, Invalidates DEF Close, SessionOK
  <2> QED BY <1>0, <1>3, <2>1 DEF Close, ChromeOK, PauseOK
<1>4. CASE After(r)
  <2>1. SessionOK'
    BY <1>0, <1>4, Invalidates DEF After, SessionOK
  <2> QED BY <1>0, <1>4, <2>1 DEF After, ChromeOK, PauseOK
<1>5. CASE Shoot(r)
  <2>1. shown' \in [Commands -> (Tabs \X Nat) \cup {<<>>}]
    BY <1>0, <1>5 DEF Shoot, Sent, ChromeOK
  <2> QED BY <1>0, <1>5, <2>1 DEF Shoot, SessionOK, ChromeOK, PauseOK
<1>6. CASE Remember(r)
  <2> DEFINE o == [id |-> r, tab |-> cmd[r].tab, epoch |-> epoch]
  <2>1. cmd[r].tab \in Tabs
    BY <1>0, <1>6 DEF Remember, At, Holds, PlaceOf, CommandState, Attaching
  <2>2. o \in Observation
    BY <1>0, <2>1 DEF Observation, SessionOK
  <2>3. store' \in Seq(Observation)
    BY <1>0, <1>6, <2>2, RememberedKeeps DEF Remember, SessionOK
  <2> QED BY <1>0, <1>6, <2>3 DEF Remember, SessionOK, ChromeOK, PauseOK
<1>7. CASE Get(r)
  <2>1. SessionOK'
    BY <1>0, <1>7, Forgets DEF Get, SessionOK
  <2> QED BY <1>0, <1>7, <2>1 DEF Get, ChromeOK, PauseOK
<1>8. CASE Detached(r)
  BY <1>0, <1>8 DEF Detached, SessionOK, ChromeOK, PauseOK
<1>9. CASE Debug(r)
  <2>1. cmd[r].want \in Tabs
    BY <1>0, <1>9 DEF Debug, At, Holds, CommandState
  <2>2. SessionOK'
    BY <1>0, <1>9, <2>1, Invalidates DEF Debug, SessionOK
  <2> QED BY <1>0, <1>9, <2>1, <2>2 DEF Debug, ChromeOK, PauseOK
<1>10. CASE Enable(r)
  <2>1. SessionOK'
    BY <1>0, <1>10, Forgets DEF Enable, SessionOK
  <2> QED BY <1>0, <1>10, <2>1 DEF Enable, ChromeOK, PauseOK
<1> QED
  BY <1>1, <1>2, <1>3, <1>4, <1>5, <1>6, <1>7, <1>8, <1>9, <1>10 DEF Advance

LEMMA OthersKeepTypes ==
    ASSUME ControlInv,
           \/ TogglePause \/ PauseDetaches \/ SessionEnds \/ PageEvent \/ Resized
           \/ \E t \in Tabs : Left(t) \/ Navigates(t) \/ Told(t) \/ DebuggerDetached(t)
    PROVE  SessionOK' /\ ChromeOK' /\ PauseOK' /\ cmd' = cmd
<1> USE DEF session, chrome
<1>0. SessionOK /\ ChromeOK /\ PauseOK
  BY Parts
<1>1. CASE TogglePause
  BY <1>0, <1>1, Invalidates DEF TogglePause, SessionOK, ChromeOK, PauseOK
<1>2. CASE PauseDetaches
  <2>1. SessionOK'
    BY <1>0, <1>2, Forgets DEF PauseDetaches
  <2> QED BY <1>0, <1>2, <2>1 DEF PauseDetaches, SessionOK, ChromeOK, PauseOK
<1>3. CASE SessionEnds
  <2>1. SessionOK'
    BY <1>0, <1>3, Forgets DEF SessionEnds
  <2> QED BY <1>0, <1>3, <2>1 DEF SessionEnds, SessionOK, ChromeOK, PauseOK
<1>4. CASE PageEvent
  BY <1>0, <1>4, Invalidates DEF PageEvent, SessionOK, ChromeOK, PauseOK
<1>5. CASE Resized
  BY <1>0, <1>5, Invalidates DEF Resized, SessionOK, ChromeOK, PauseOK
<1>6. ASSUME NEW t \in Tabs, Left(t)
      PROVE  SessionOK' /\ ChromeOK' /\ PauseOK' /\ cmd' = cmd
  BY <1>0, <1>6 DEF Left, SessionOK, ChromeOK, PauseOK
<1>7. ASSUME NEW t \in Tabs, Navigates(t)
      PROVE  SessionOK' /\ ChromeOK' /\ PauseOK' /\ cmd' = cmd
  BY <1>0, <1>7 DEF Navigates, SessionOK, ChromeOK, PauseOK
<1>8. ASSUME NEW t \in Tabs, Told(t)
      PROVE  SessionOK' /\ ChromeOK' /\ PauseOK' /\ cmd' = cmd
  <2>1. SessionOK'
    BY <1>0, <1>8, Invalidates DEF Told, SessionOK
  <2> QED BY <1>0, <1>8, <2>1 DEF Told, ChromeOK, PauseOK
<1>9. ASSUME NEW t \in Tabs, DebuggerDetached(t)
      PROVE  SessionOK' /\ ChromeOK' /\ PauseOK' /\ cmd' = cmd
  <2>1. SessionOK'
    BY <1>0, <1>9, Forgets DEF DebuggerDetached, SessionOK
  <2> QED BY <1>0, <1>9, <2>1 DEF DebuggerDetached, ChromeOK, PauseOK
<1> QED BY <1>1, <1>2, <1>3, <1>4, <1>5, <1>6, <1>7, <1>8, <1>9

\* Every step is of one command, or of none.
LEMMA StepsAreOfOne ==
    ASSUME Next
    PROVE  /\ kind' = kind
           /\ disturbed' \subseteq Commands
           /\ events' # events => events < MaxEvents /\ events' = events + 1
           /\ \/ \E r \in Commands : Advance(r)
              \/ TogglePause \/ PauseDetaches \/ SessionEnds \/ PageEvent \/ Resized
              \/ \E t \in Tabs : Left(t) \/ Navigates(t) \/ Told(t) \/ DebuggerDetached(t)
BY DEF Next, Step, Event, Disturb

LEMMA InitIsGood == Init => ControlInv
<1> SUFFICES ASSUME Init PROVE ControlInv
  OBVIOUS
<1>1. \A s \in Commands : cmd[s] = Blank("new")
  BY DEF Init
<1>2. AllGood
  BY <1>1, GoodBlank DEF AllGood
<1>3. cmd \in [Commands -> CommandState]
  BY GoodBlank DEF Init, Good
<1>4. SessionOK
  <2>1. store \in Seq(Observation)
    BY DEF Init
  <2> QED BY <2>1 DEF Init, SessionOK
<1>5. ChromeOK /\ PauseOK
  BY DEF Init, ChromeOK, PauseOK
<1>6. kind \in [Commands -> Kinds] /\ disturbed \subseteq Commands /\ events \in 0..MaxEvents
  BY Constants DEF Init
<1> QED
  BY <1>2, <1>3, <1>4, <1>5, <1>6 DEF ControlInv, TypeOK, SessionOK, ChromeOK, PauseOK

LEMMA NextKeepsControlInv == ControlInv /\ [Next]_vars => ControlInv'
<1> SUFFICES ASSUME ControlInv, [Next]_vars PROVE ControlInv'
  OBVIOUS
<1>1. CASE UNCHANGED vars
  BY <1>1 DEF vars, session, chrome, ControlInv, TypeOK, AllGood
<1>2. CASE Next
  <2>1. kind' \in [Commands -> Kinds] /\ disturbed' \subseteq Commands /\ events' \in 0..MaxEvents
    BY <1>2, StepsAreOfOne, Constants DEF ControlInv, TypeOK
  <2>2. SessionOK' /\ ChromeOK' /\ PauseOK' /\ cmd' \in [Commands -> CommandState] /\ AllGood'
    <3>1. CASE \E r \in Commands : Advance(r)
      BY <1>2, <3>1, StepsAreOfOne, AdvanceKeepsCommands, AdvanceKeepsTypes
    <3>2. CASE \/ TogglePause \/ PauseDetaches \/ SessionEnds \/ PageEvent \/ Resized
               \/ \E t \in Tabs : Left(t) \/ Navigates(t) \/ Told(t) \/ DebuggerDetached(t)
      <4>1. SessionOK' /\ ChromeOK' /\ PauseOK' /\ cmd' = cmd
        BY <3>2, OthersKeepTypes
      <4> QED BY <1>2, <4>1, StepsAreOfOne DEF ControlInv, TypeOK, AllGood
    <3> QED BY <1>2, <3>1, <3>2, StepsAreOfOne
  <2> QED BY <2>1, <2>2 DEF ControlInv, TypeOK, SessionOK, ChromeOK, PauseOK
<1> QED BY <1>1, <1>2

\* The control session keeps its types, and no queue counts beyond its actions.
THEOREM ControlTypeCorrect == Spec => []TypeOK
<1>1. ControlInv => TypeOK
  BY DEF ControlInv
<1> QED BY <1>1, InitIsGood, NextKeepsControlInv, PTL DEF Spec

-----------------------------------------------------------------------------
(* Observations. *)

\* What a step of one command does to the observations and their epoch.
LEMMA AdvanceKeepsCurrent ==
    ASSUME ControlInv, ObservationsAreCurrent, NEW r \in Commands, Advance(r)
    PROVE  ObservationsAreCurrent'
<1> USE DEF session, ObservationsAreCurrent
<1>0. SessionOK /\ cmd[r] \in CommandState /\ Holds(kind[r], cmd[r])
  BY Mine, Parts
<1>1. CASE UNCHANGED <<epoch, store>>
  BY <1>1
<1>2. CASE store' = << >>
  BY <1>2, Constants
<1>3. CASE Remember(r)
  <2> DEFINE o == [id |-> r, tab |-> cmd[r].tab, epoch |-> epoch]
  <2>1. cmd[r].tab \in Tabs
    BY <1>0, <1>3 DEF Remember, At, Holds, PlaceOf, CommandState, Attaching
  <2>2. o \in Observation
    BY <1>0, <2>1 DEF Observation, SessionOK
  <2>3. store' = Remembered(o) /\ epoch' = epoch /\ o.epoch = epoch
    BY <1>3 DEF Remember
  <2> HIDE DEF o
  <2>4. /\ Len(Remembered(o)) <= MaxObservations
        /\ \A i \in 1..Len(Remembered(o)) : Remembered(o)[i].epoch = epoch
    BY <1>0, <2>2, <2>3, RememberedKeeps DEF SessionOK
  <2> QED BY <2>3, <2>4
<1>4. UNCHANGED <<epoch, store>> \/ store' = << >> \/ Remember(r)
  BY DEF Advance, Begin, Start, Leave, Close, Plan, Item, Input, After, Capture, Shoot, Config, Get,
         Detached, Debug, Enable, Forget, Invalidate
<1> QED BY <1>1, <1>2, <1>3, <1>4

LEMMA NextKeepsCurrent ==
    ControlInv /\ ObservationsAreCurrent /\ [Next]_vars => ObservationsAreCurrent'
<1> SUFFICES ASSUME ControlInv, ObservationsAreCurrent, [Next]_vars
             PROVE  ObservationsAreCurrent'
  OBVIOUS
<1> USE DEF session
<1>1. CASE UNCHANGED <<epoch, store>>
  BY <1>1 DEF ObservationsAreCurrent
<1>2. CASE store' = << >>
  BY <1>2, Constants DEF ObservationsAreCurrent
<1>3. CASE \E r \in Commands : Advance(r)
  BY <1>3, AdvanceKeepsCurrent
<1>4. CASE \/ TogglePause \/ PauseDetaches \/ SessionEnds \/ PageEvent \/ Resized
           \/ \E t \in Tabs : Left(t) \/ Navigates(t) \/ Told(t) \/ DebuggerDetached(t)
  BY <1>1, <1>2, <1>4 DEF TogglePause, PauseDetaches, SessionEnds, PageEvent, Resized, Left,
         Navigates, Told, DebuggerDetached, Forget, Invalidate
<1>5. CASE UNCHANGED vars
  BY <1>1, <1>5 DEF vars
<1> QED BY <1>3, <1>4, <1>5, StepsAreOfOne

\* Every remembered observation carries the current epoch, and there are no
\* more of them than there may be (service-worker.js:286-294, 594-600).
THEOREM ObservationsStayCurrent == Spec => []ObservationsAreCurrent
<1>1. Init => ObservationsAreCurrent
  BY Constants DEF Init, ObservationsAreCurrent
<1> QED BY <1>1, InitIsGood, NextKeepsControlInv, NextKeepsCurrent, PTL DEF Spec

-----------------------------------------------------------------------------
(* Queues.  As long as the context is the one a queue was planned in, its    *)
(* tab has not been exchanged for another: it is still attached, or the last *)
(* thing that happened to it is that close_tab forgot it.                    *)

QueueInv ==
    /\ \A s \in Commands : Planned(s) =>
        /\ cmd[s].context <= context
        /\ cmd[s].context = context =>
            /\ attached \in {cmd[s].tab, None}
            /\ s \in disturbed => attached # cmd[s].tab
    /\ \A s \in disturbed : kind[s] = "queue"

Steady == attached' = attached /\ known' = known /\ ~Resized

\* The context only grows; and it grows unless the tab and its document stay,
\* or the tab is given up.
LEMMA ContextMoves ==
    ASSUME ControlInv, Next
    PROVE  /\ context' \in Nat /\ context' >= context
           /\ context' = context => Steady \/ (attached # None /\ attached' = None)
<1> USE DEF session, chrome
<1>0. context \in Nat
  BY DEF ControlInv, TypeOK
<1>1. Resized => context' = context + 1
  BY DEF Resized, Invalidate
<1>2. CASE \E r \in Commands : Advance(r)
  <2> PICK r \in Commands : Advance(r)
    BY <1>2
  <2>1. known' = known
    BY DEF Advance, Begin, Start, Leave, Close, Plan, Item, Input, After, Capture, Shoot, Remember,
           Config, Get, Detached, Debug, Enable
  <2>2. CASE UNCHANGED <<attached, context, epoch>>
    BY <1>0, <1>1, <2>1, <2>2 DEF Steady
  <2>3. CASE context' = context + 1
    BY <1>0, <2>3
  <2>4. CASE After(r)
    BY <1>0, <2>1, <2>4, <1>1 DEF After, Invalidate, Steady
  <2>5. CASE Close(r) /\ cmd[r].tab = attached /\ context' = context /\ attached' = None
    BY <1>0, <2>1, <2>5, <1>1 DEF Steady
  <2>6. \/ UNCHANGED <<attached, context, epoch>>
        \/ context' = context + 1
        \/ After(r)
        \/ Close(r) /\ cmd[r].tab = attached /\ context' = context /\ attached' = None
    BY DEF Advance, Begin, Start, Leave, Close, Plan, Item, Input, Capture, Shoot, Remember,
           Config, Get, Detached, Debug, Enable, Forget, Invalidate
  <2> QED BY <2>2, <2>3, <2>4, <2>5, <2>6
<1>3. CASE TogglePause
  BY <1>0, <1>3, <1>1 DEF TogglePause, Invalidate, Steady
<1>4. CASE PageEvent
  BY <1>0, <1>4, <1>1 DEF PageEvent, Invalidate, Steady
<1>5. CASE PauseDetaches \/ SessionEnds \/ Resized
  BY <1>0, <1>5 DEF PauseDetaches, SessionEnds, Resized, Forget, Invalidate
<1>6. ASSUME NEW t \in Tabs, Left(t) \/ Navigates(t) \/ Told(t) \/ DebuggerDetached(t)
      PROVE  \/ context' = context + 1
             \/ UNCHANGED <<attached, context, known, epoch>>
  BY <1>6 DEF Left, Navigates, Told, DebuggerDetached, Forget, Invalidate
<1>7. CASE UNCHANGED <<attached, context, known, epoch>>
  BY <1>0, <1>7, <1>1 DEF Steady
<1>8. CASE context' = context + 1
  BY <1>0, <1>8
<1> QED BY <1>2, <1>3, <1>4, <1>5, <1>6, <1>7, <1>8, StepsAreOfOne

\* Where command r is when it has become c.
LEMMA MovesWithin ==
    ASSUME ControlInv, NEW r \in Commands, kind' = kind, Planned(r)', NEW c, Becomes(r, c),
           c.tab = cmd[r].tab, c.context = cmd[r].context,
           kind[r] = "queue" /\ PlaceOf(c) \in Acting => PlaceOf(cmd[r]) \in Acting
    PROVE  Planned(r) /\ cmd'[r].tab = cmd[r].tab /\ cmd'[r].context = cmd[r].context
<1>1. cmd'[r] = c
  BY DEF Becomes, ControlInv, TypeOK
<1> QED BY <1>1 DEF Planned, Place

\* What a step does to a queue that carries out its actions after it: it did so
\* before and is bound to the same, or it is bound to the present here and now.
LEMMA PlannedMoves ==
    ASSUME ControlInv, NEW r \in Commands, Advance(r), kind' = kind, NEW s \in Commands, Planned(s)'
    PROVE  \/ Planned(s) /\ cmd'[s].tab = cmd[s].tab /\ cmd'[s].context = cmd[s].context
           \/ /\ ~Planned(s)
              /\ cmd'[s].tab = attached /\ cmd'[s].context = context
              /\ UNCHANGED <<session, chrome>>
<1> DEFINE Stays == Planned(r) /\ cmd'[r].tab = cmd[r].tab /\ cmd'[r].context = cmd[r].context
<1>0. /\ cmd[r] \in CommandState /\ Holds(kind[r], cmd[r])
      /\ cmd \in [Commands -> CommandState]
  BY Mine DEF ControlInv, TypeOK
<1>1. \E c : Becomes(r, c)
  BY DEF Advance, Begin, Start, Leave, Close, Plan, Item, Input, After, Capture, Shoot, Remember,
         Config, Get, Detached, Debug, Enable, Go, Finish, Fail, BeginAttach, MustAttach
<1>2. CASE s # r
  BY <1>0, <1>1, <1>2 DEF Becomes, Planned, Place
<1>3. CASE s = r
  <2>1. ~Finish(r) /\ ~Fail(r)
    BY <1>0, <1>3 DEF Finish, Fail, Becomes, Blank, Planned, Place, PlaceOf, Acting, Attaching
  <2>2. ASSUME NEW place, Go(r, place), kind[r] = "queue",
               place \in Acting => cmd[r].pc \in Acting,
               place \in Attaching => cmd[r].pc \in Attaching
        PROVE  Stays
    <3> DEFINE c == [cmd[r] EXCEPT !.pc = place, !.on = None]
    <3>1. /\ c.tab = cmd[r].tab /\ c.context = cmd[r].context
          /\ c.pc = place /\ c.next = cmd[r].next
      BY <1>0 DEF CommandState
    <3>2. PlaceOf(c) \in Acting => PlaceOf(cmd[r]) \in Acting
      BY <2>2, <3>1 DEF PlaceOf, Acting, Attaching
    <3> QED BY <1>3, <2>2, <3>1, <3>2, MovesWithin DEF Go
  <2>3. ASSUME MustAttach(r), cmd[r].pc \notin Attaching
        PROVE  Stays
    <3> DEFINE c == [cmd[r] EXCEPT !.pc = "config", !.next = cmd[r].pc]
    <3>1. /\ c.tab = cmd[r].tab /\ c.context = cmd[r].context
          /\ c.pc = "config" /\ c.next = cmd[r].pc
      BY <1>0 DEF CommandState
    <3>2. PlaceOf(c) \in Acting => PlaceOf(cmd[r]) \in Acting
      BY <2>3, <3>1 DEF PlaceOf, Attaching
    <3> QED BY <1>3, <2>3, <3>1, <3>2, MovesWithin DEF MustAttach
  <2>4. kind[r] = "queue"
    BY <1>3 DEF Planned
  <2> USE DEF At, Acting, Attaching
  <2>5. CASE Begin(r)
    <3>1. Go(r, "started")
      BY <2>1, <2>4, <2>5 DEF Begin
    <3> QED BY <1>3, <2>2, <2>4, <3>1
  <2>6. CASE Start(r)
    <3>1. Go(r, "plan")
      BY <2>1, <2>4, <2>6 DEF Start
    <3> QED BY <1>3, <2>2, <2>4, <3>1
  <2>7. CASE Leave(r) \/ Close(r) \/ Remember(r)
    BY <2>1, <2>4, <2>7 DEF Leave, Close, Remember
  <2>8. CASE Plan(r)
    <3>1. CASE MustAttach(r)
      BY <2>3, <2>8, <3>1, <1>3 DEF Plan
    <3>2. CASE Becomes(r, [cmd[r] EXCEPT !.pc = "item", !.on = None,
                                         !.tab = attached, !.context = context])
      <4>1. cmd'[r].tab = attached /\ cmd'[r].context = context
        BY <1>0, <3>2 DEF Becomes, CommandState
      <4>2. ~Planned(r)
        BY <2>8 DEF Plan, Planned, Place, PlaceOf
      <4> QED BY <1>3, <2>8, <4>1, <4>2 DEF Plan
    <3> QED BY <2>1, <2>8, <3>1, <3>2 DEF Plan
  <2>9. CASE Item(r)
    <3>1. CASE Becomes(r, [cmd[r] EXCEPT !.item = @ + 1])
      <4> DEFINE c == [cmd[r] EXCEPT !.item = @ + 1]
      <4>1. c.tab = cmd[r].tab /\ c.context = cmd[r].context
        BY <1>0 DEF CommandState
      <4>2. PlaceOf(cmd[r]) \in Acting
        BY <2>9 DEF Item, PlaceOf
      <4> QED BY <1>3, <3>1, <4>1, <4>2, MovesWithin
    <3> QED BY <1>3, <2>1, <2>2, <2>4, <2>9, <3>1 DEF Item
  <2>10. CASE Input(r)
    <3>1. CASE MustAttach(r)
      BY <1>3, <2>3, <2>10, <3>1 DEF Input
    <3>2. CASE Go(r, IF At(r, "press") THEN "release" ELSE "after")
      BY <1>3, <2>2, <2>4, <2>10, <3>2 DEF Input
    <3> QED BY <2>1, <2>10, <3>1, <3>2 DEF Input
  <2>11. CASE After(r)
    <3> DEFINE c == [cmd[r] EXCEPT !.pc = "item", !.item = @ + 1]
    <3>1. c.tab = cmd[r].tab /\ c.context = cmd[r].context
      BY <1>0 DEF CommandState
    <3>2. PlaceOf(cmd[r]) \in Acting
      BY <2>11 DEF After, PlaceOf
    <3> QED BY <1>3, <2>4, <2>11, <3>1, <3>2, MovesWithin DEF After
  <2>12. CASE Capture(r) \/ Shoot(r)
    <3>1. CASE MustAttach(r)
      BY <1>3, <2>3, <2>12, <3>1 DEF Capture, Shoot
    <3>2. CASE Becomes(r, [cmd[r] EXCEPT !.pc = "shoot", !.on = None, !.tab = Ensured(r)])
      BY <1>0, <1>3, <3>2 DEF Becomes, CommandState, Planned, Place, PlaceOf
    <3>3. CASE Go(r, "shot")
      BY <1>3, <2>2, <2>4, <3>3
    <3> QED BY <2>1, <2>12, <3>1, <3>2, <3>3 DEF Capture, Shoot
  <2>13. CASE Config(r)
    <3>1. PICK t \in Tabs : BeginAttach(r, t, cmd[r].next)
      BY <2>1, <2>13 DEF Config
    <3> DEFINE b == [cmd[r] EXCEPT !.pc = cmd[r].next, !.on = t, !.next = "new"]
               c == [cmd[r] EXCEPT !.pc = "get", !.want = t, !.next = cmd[r].next]
    <3>2. /\ b.tab = cmd[r].tab /\ b.context = cmd[r].context /\ b.pc = cmd[r].next
          /\ c.tab = cmd[r].tab /\ c.context = cmd[r].context /\ c.next = cmd[r].next
          /\ b.next = "new" /\ c.pc = "get"
      BY <1>0 DEF CommandState
    <3>3. PlaceOf(cmd[r]) = cmd[r].next /\ PlaceOf(c) = cmd[r].next /\ PlaceOf(b) = cmd[r].next
      BY <1>0, <2>13, <3>2 DEF Config, PlaceOf, Holds
    <3>4. Becomes(r, b) \/ Becomes(r, c)
      BY <3>1 DEF BeginAttach
    <3> HIDE DEF b, c
    <3> QED BY <1>3, <3>2, <3>3, <3>4, MovesWithin
  <2>14. CASE Get(r) \/ Detached(r)
    <3>1. ASSUME NEW c, Becomes(r, c), c.pc \in Attaching, c.next = cmd[r].next,
                 c.tab = cmd[r].tab, c.context = cmd[r].context
          PROVE  Stays
      BY <1>3, <2>14, <3>1, MovesWithin DEF Get, Detached, PlaceOf
    <3>2. CASE Go(r, "debug")
      BY <1>3, <2>2, <2>4, <2>14, <3>2 DEF Get, Detached
    <3>3. CASE Becomes(r, [cmd[r] EXCEPT !.pc = "detach", !.from = attached])
      <4> DEFINE c == [cmd[r] EXCEPT !.pc = "detach", !.from = attached]
      <4>1. /\ c.pc \in Attaching /\ c.next = cmd[r].next
            /\ c.tab = cmd[r].tab /\ c.context = cmd[r].context
        BY <1>0 DEF CommandState
      <4> QED BY <1>3, <3>1, <3>3, <4>1
    <3>4. CASE Becomes(r, [cmd[r] EXCEPT !.pc = "debug", !.from = None])
      <4> DEFINE c == [cmd[r] EXCEPT !.pc = "debug", !.from = None]
      <4>1. /\ c.pc \in Attaching /\ c.next = cmd[r].next
            /\ c.tab = cmd[r].tab /\ c.context = cmd[r].context
        BY <1>0 DEF CommandState
      <4> QED BY <1>3, <3>1, <3>4, <4>1
    <3> QED BY <1>3, <2>1, <2>14, <3>2, <3>3, <3>4 DEF Get, Detached
  <2>15. CASE Debug(r)
    BY <1>3, <2>1, <2>2, <2>4, <2>15 DEF Debug
  <2>16. CASE Enable(r)
    <3> DEFINE c == [cmd[r] EXCEPT !.pc = cmd[r].next, !.on = cmd[r].want,
                                   !.want = None, !.next = "new"]
    <3>1. c.tab = cmd[r].tab /\ c.context = cmd[r].context /\ c.pc = cmd[r].next
      BY <1>0 DEF CommandState
    <3>2. PlaceOf(cmd[r]) = cmd[r].next /\ PlaceOf(c) = cmd[r].next
      BY <1>0, <2>16, <3>1 DEF Enable, PlaceOf, Holds
    <3>3. Becomes(r, c)
      BY <2>1, <2>16 DEF Enable
    <3> HIDE DEF c
    <3> QED BY <1>3, <3>1, <3>2, <3>3, MovesWithin
  <2> QED
    BY <1>3, <2>5, <2>6, <2>7, <2>8, <2>9, <2>10, <2>11, <2>12, <2>13, <2>14, <2>15, <2>16
    DEF Advance
<1> QED BY <1>2, <1>3

LEMMA InitIsQueueInv == Init => QueueInv
<1> SUFFICES ASSUME Init PROVE QueueInv
  OBVIOUS
<1>1. \A s \in Commands : ~Planned(s)
  BY DEF Init, Planned, Place, PlaceOf, Blank, Acting, Attaching
<1> QED BY <1>1 DEF Init, QueueInv

LEMMA NextKeepsQueueInv == ControlInv /\ QueueInv /\ [Next]_vars => QueueInv'
<1> SUFFICES ASSUME ControlInv, QueueInv, [Next]_vars PROVE QueueInv'
  OBVIOUS
<1>1. CASE UNCHANGED vars
  BY <1>1 DEF vars, session, chrome, QueueInv, Planned, Place
<1>2. CASE Next
  <2>0. /\ kind' = kind /\ context \in Nat /\ context' \in Nat /\ context' >= context
        /\ \A s \in Commands : cmd[s].context \in Nat /\ cmd[s].tab \in Tabs \cup {None}
    BY <1>2, StepsAreOfOne, ContextMoves DEF ControlInv, TypeOK, CommandState
  <2>1. \A s \in disturbed' : s \in Commands /\ Planned(s) /\ (~Steady \/ s \in disturbed)
    BY <1>2 DEF Next, Disturb, Steady
  <2>2. \A s \in disturbed' : kind'[s] = "queue"
    BY <2>0, <2>1 DEF Planned
  <2>3. ASSUME NEW s \in Commands, Planned(s)'
        PROVE  \/ Planned(s) /\ cmd'[s].tab = cmd[s].tab /\ cmd'[s].context = cmd[s].context
               \/ /\ ~Planned(s)
                  /\ cmd'[s].tab = attached /\ cmd'[s].context = context
                  /\ UNCHANGED <<session, chrome>>
    <3>1. CASE \E r \in Commands : Advance(r)
      BY <2>0, <2>3, <3>1, PlannedMoves
    <3>2. CASE cmd' = cmd
      BY <2>0, <2>3, <3>2 DEF Planned, Place
    <3> QED BY <1>2, <3>1, <3>2, StepsAreOfOne, OthersKeepTypes
  <2>4. ASSUME NEW s \in Commands, Planned(s)'
        PROVE  /\ cmd'[s].context <= context'
               /\ cmd'[s].context = context' =>
                    /\ attached' \in {cmd'[s].tab, None}
                    /\ s \in disturbed' => attached' # cmd'[s].tab
    <3>1. CASE Planned(s) /\ cmd'[s].tab = cmd[s].tab /\ cmd'[s].context = cmd[s].context
      <4>1. /\ cmd[s].context <= context
            /\ cmd[s].context = context =>
                 attached \in {cmd[s].tab, None} /\ (s \in disturbed => attached # cmd[s].tab)
        BY <3>1 DEF QueueInv
      <4>2. CASE cmd[s].context # context'
        BY <2>0, <3>1, <4>1, <4>2
      <4>3. CASE cmd[s].context = context' /\ Steady
        BY <2>0, <2>1, <3>1, <4>1, <4>3 DEF Steady
      <4>4. CASE cmd[s].context = context' /\ attached # None /\ attached' = None
        BY <2>0, <3>1, <4>1, <4>4
      <4>5. cmd[s].context = context' => context' = context
        BY <2>0, <4>1
      <4> QED BY <1>2, <4>2, <4>3, <4>4, <4>5, ContextMoves
    <3>2. CASE /\ ~Planned(s)
               /\ cmd'[s].tab = attached /\ cmd'[s].context = context
               /\ UNCHANGED <<session, chrome>>
      BY <2>0, <2>1, <3>2 DEF session
    <3> QED BY <2>3, <2>4, <3>1, <3>2
  <2> QED BY <2>2, <2>4 DEF QueueInv
<1> QED BY <1>1, <1>2

\* A queue begins none of its actions after it has been detached, attached
\* again, navigated or resized since it was planned, even if it is back on the
\* same tab (service-worker.js:1514-1547).
THEOREM QueuesStayInContext == Spec => QueueStaysInContext
<1>1. ASSUME ControlInv, QueueInv, Next, NEW r \in Commands, At(r, "item"), cmd'[r].pc = "press"
      PROVE  r \notin disturbed
  <2>1. cmd[r] \in CommandState /\ cmd \in [Commands -> CommandState]
    BY <1>1, Mine DEF ControlInv, TypeOK
  <2>2. PICK s \in Commands : Advance(s)
    BY <1>1, StepsAreOfOne, OthersKeepTypes DEF At
  <2>3. \E c : Becomes(s, c)
    BY <2>2 DEF Advance, Begin, Start, Leave, Close, Plan, Item, Input, After, Capture, Shoot,
           Remember, Config, Get, Detached, Debug, Enable, Go, Finish, Fail, BeginAttach, MustAttach
  <2>4. s = r
    BY <1>1, <2>1, <2>3 DEF Becomes, At
  <2>5. Item(r)
    BY <1>1, <2>2, <2>4 DEF Advance, At, Begin, Start, Leave, Close, Plan, Input, After, Capture,
           Shoot, Remember, Config, Get, Detached, Debug, Enable
  <2>6. Continues(r)
    <3>1. ~Fail(r)
      BY <1>1, <2>1 DEF Fail, Becomes, Blank
    <3>2. ~Go(r, "capture")
      BY <1>1, <2>1 DEF Go, Becomes, CommandState
    <3> QED BY <2>5, <3>1, <3>2 DEF Item
  <2>7. kind[r] = "queue" => Planned(r)
    BY <1>1 DEF At, Planned, Place, PlaceOf, Acting, Attaching
  <2> QED BY <1>1, <2>6, <2>7 DEF QueueInv, Continues
<1>2. ControlInv /\ QueueInv /\ [Next]_vars
        => [\A r \in Commands : At(r, "item") /\ cmd'[r].pc = "press" => r \notin disturbed]_vars
  BY <1>1
<1> QED
  BY <1>2, InitIsGood, NextKeepsControlInv, InitIsQueueInv, NextKeepsQueueInv, PTL
  DEF Spec, QueueStaysInContext
=============================================================================
