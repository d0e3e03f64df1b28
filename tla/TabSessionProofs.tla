--------------------------- MODULE TabSessionProofs ---------------------------
(***************************************************************************)
(* Proofs about TabSession: its types, and that a calm mouse action goes   *)
(* to the tab that was looked at, that the session commands are sent on is *)
(* alive or its end is on the way and the state promises none that is not  *)
(* there, and that nothing is held of what inputState records when a       *)
(* session is left.                                                        *)
(*                                                                         *)
(* None of them is inductive.  The inductive invariant IInv also says      *)
(* which steps a driver may still take (Scripts) and in which order        *)
(* (Orders), where its command is (Posted), which sessions there are       *)
(* (Linked, Known) and which of them nobody uses yet (Fresh), which attach *)
(* a tab belongs to (TabFollows), that an action that is executed, and     *)
(* READY, have their session (Settledness), whom stop() has waited for     *)
(* (Stopping), and what will be held when the commands on the way have     *)
(* been executed (Holds).                                                  *)
(*                                                                         *)
(* The many actions of a turn are three (TurnDoes): a driver sends a       *)
(* command, goes on without one, or ends.  Those of Chrome and the user    *)
(* are one (Answers): a command is taken, events and a reply are added.    *)
(* So a step is quiet (Quiet: nothing is sent, Chrome does nothing), a     *)
(* reply, a timeout, the loss of the connection, an answer of Chrome, or a *)
(* command sent; each is shown to keep every conjunct of the invariant.    *)
(***************************************************************************)
EXTENDS TabSession, TLAPS, FiniteSetTheorems, SequenceTheorems

-----------------------------------------------------------------------------
(* Sequences                                                               *)

\* SetToSeq of a finite set is a sequence in which every element occurs.
LEMMA SetToSeqCovers ==
    ASSUME NEW S, IsFiniteSet(S)
    PROVE  /\ SetToSeq(S) \in Seq(S)
           /\ \A s \in S : \E i \in DOMAIN SetToSeq(S) : SetToSeq(S)[i] = s
<1> DEFINE n == Cardinality(S)
<1>1. n \in Nat /\ ExistsBijection(1..n, S)
  BY FS_CardinalityType
<1>2. \E f \in [1..n -> S] : IsInjective(f)
  BY <1>1 DEF ExistsBijection, Bijection, Injection
<1>3. SetToSeq(S) \in [1..n -> S] /\ IsInjective(SetToSeq(S))
  BY <1>2 DEF SetToSeq
<1>4. SetToSeq(S) \in Injection(1..n, S)
  BY <1>3 DEF Injection
<1>5. IsFiniteSet(1..n) /\ Cardinality(1..n) = n
  BY <1>1, FS_Interval
<1>6. SetToSeq(S) \in Surjection(1..n, S)
  BY <1>4, <1>5, FS_Injection, IsFiniteSet(S)
<1> QED  BY <1>1, <1>3, <1>6, IsASeq DEF Surjection

\* The events of detached sessions.
LEMMA GoneIs ==
    ASSUME TypeOK, NEW S \in SUBSET (DOMAIN home)
    PROVE  /\ Gone(S) \in Seq(Message)
           /\ \A i \in DOMAIN Gone(S) : Gone(S)[i].kind = "gone" /\ Gone(S)[i].by = None
           /\ \A s \in S : \E i \in DOMAIN Gone(S) : Gone(S)[i].on = s
<1> DEFINE q == SetToSeq(S)
<1>1. IsFiniteSet(S)
  <2>1. IsFiniteSet(1..Len(home))
    BY FS_Interval DEF TypeOK
  <2>2. S \subseteq 1..Len(home)
    BY DEF TypeOK
  <2> QED  BY <2>1, <2>2, FS_Subset
<1>2. q \in Seq(S) /\ \A s \in S : \E i \in DOMAIN q : q[i] = s
  BY <1>1, SetToSeqCovers
<1>3. DOMAIN q = 1..Len(q) /\ Len(q) \in Nat /\ \A i \in 1..Len(q) : q[i] \in S
  BY <1>2
<1> HIDE DEF q
<1>4. Gone(S) = [i \in 1..Len(q) |-> Event("gone", q[i])]
  BY DEF Gone, q
<1>5. ASSUME NEW s \in S
      PROVE  Event("gone", s) \in Message /\ Event("gone", s).on = s
             /\ Event("gone", s).by = None /\ Event("gone", s).kind = "gone"
  BY DEF Event, Message, TypeOK
<1>6. Gone(S) \in Seq(Message)
  BY <1>3, <1>4, <1>5, IsASeq
<1> QED  BY <1>2, <1>3, <1>4, <1>5, <1>6

\* The steps of typing a text are steps, whatever its length.
LEMMA TypedTexts ==
    /\ TypeAuto \in Seq(Steps) /\ TypeKeyEvents \in Seq(Steps)
    /\ \A i \in DOMAIN TypeAuto : TypeAuto[i] \in Inputs \cup {"pause"}
    /\ \A i \in DOMAIN TypeKeyEvents : TypeKeyEvents[i] \in Inputs \cup {"pause"}
<1> DEFINE a(i) == <<"rawDown", "char", "pause", "typeUp", "pause">>[((i - 1) % 5) + 1]
           e(i) == <<"rawDown", "char", "rawDown2", "char", "pause", "typeUp", "pause">>[((i - 1) % 7) + 1]
           n == IF TextLength = 1 THEN 4 ELSE 5 * TextLength
           m == IF TextLength = 1 THEN 6 ELSE 7 * TextLength
<1>1. n \in Nat /\ m \in Nat
  BY TabAssumption
<1>2. TypeAuto = [i \in 1..n |-> a(i)] /\ TypeKeyEvents = [i \in 1..m |-> e(i)]
  BY DEF TypeAuto, TypeKeyEvents
<1> HIDE DEF n, m
<1>3. \A i \in 1..n : a(i) \in Inputs \cup {"pause"}
  <2>1. \A i \in Nat : i \in 1..n => ((i - 1) % 5) + 1 \in 1..5
    BY <1>1
  <2>2. \A j \in 1..5 : <<"rawDown", "char", "pause", "typeUp", "pause">>[j] \in Inputs \cup {"pause"}
    BY DEF Inputs
  <2> QED  BY <1>1, <2>1, <2>2
<1>4. \A i \in 1..m : e(i) \in Inputs \cup {"pause"}
  <2>1. \A i \in Nat : i \in 1..m => ((i - 1) % 7) + 1 \in 1..7
    BY <1>1
  <2>2. \A j \in 1..7 :
            <<"rawDown", "char", "rawDown2", "char", "pause", "typeUp", "pause">>[j] \in Inputs \cup {"pause"}
    BY DEF Inputs
  <2> QED  BY <1>1, <2>1, <2>2
<1> HIDE DEF a, e
<1>5. /\ TypeAuto \in [1..n -> Inputs \cup {"pause"}]
      /\ TypeKeyEvents \in [1..m -> Inputs \cup {"pause"}]
  BY <1>2, <1>3, <1>4
<1>6. Inputs \cup {"pause"} \subseteq Steps
  BY DEF Steps
<1>7. TypeAuto \in [1..n -> Steps] /\ TypeKeyEvents \in [1..m -> Steps]
  BY <1>5, <1>6
<1> QED  BY <1>1, <1>5, <1>7

\* The operations are sequences of steps.
LEMMA ScriptTyped ==
    ASSUME NEW k \in Operations
    PROVE  Script(k) \in Seq(Steps)
<1> USE DEF Steps, Inputs, Script, RawKinds
<1>1. /\ Script("move") \in Seq(Steps) /\ Script("click") \in Seq(Steps)
      /\ Script("double_click") \in Seq(Steps) /\ Script("scroll") \in Seq(Steps)
      /\ Script("drag") \in Seq(Steps) /\ Script("down") \in Seq(Steps)
      /\ Script("up") \in Seq(Steps)
  BY DEF Move, Click, DoubleClick, Scroll, Drag
<1>2. /\ Script("new_tab") \in Seq(Steps) /\ Script("switch_tab") \in Seq(Steps)
      /\ Script("close_tab") \in Seq(Steps) /\ Script("close_window") \in Seq(Steps)
  BY DEF NewTab, SwitchTab, Attach, CloseTab, ResetInput, Windows, CloseWindow
<1>3. /\ Script("navigate") \in Seq(Steps) /\ Script("back") \in Seq(Steps)
      /\ Script("dialog") \in Seq(Steps) /\ Script("windows") \in Seq(Steps)
  BY DEF Navigate, Travel, Windows
<1>4. /\ Script("new_window") \in Seq(Steps) /\ Script("activate_window") \in Seq(Steps)
  BY DEF Windows, NewWindow, ActivateWindow, SwitchTab, Attach
<1>5. \A r \in Operations : r \in RawKinds => Script(r) \in Seq(Steps)
  <2>1. /\ Script("raw_move") = RawScript("raw_move") \o <<"bump">>
        /\ Script("raw_click") = RawScript("raw_click") \o <<"bump">>
        /\ Script("raw_double_click") = RawScript("raw_double_click") \o <<"bump">>
        /\ Script("raw_down") = RawScript("raw_down") \o <<"bump">>
        /\ Script("raw_up") = RawScript("raw_up") \o <<"bump">>
        /\ Script("raw_scroll") = RawScript("raw_scroll") \o <<"bump">>
    OBVIOUS
  <2>2. /\ RawScript("raw_move") = Move /\ RawScript("raw_click") = Click
        /\ RawScript("raw_double_click") = DoubleClick /\ RawScript("raw_down") = <<"press">>
        /\ RawScript("raw_up") = <<"release">> /\ RawScript("raw_scroll") = Scroll
    BY DEF RawScript
  <2> HIDE DEF Script
  <2>3. /\ Move \in Seq(Steps) /\ Click \in Seq(Steps) /\ DoubleClick \in Seq(Steps)
        /\ Scroll \in Seq(Steps) /\ <<"press">> \in Seq(Steps) /\ <<"release">> \in Seq(Steps)
        /\ <<"bump">> \in Seq(Steps)
    BY DEF Move, Click, DoubleClick, Scroll
  <2> HIDE DEF Steps, Inputs
  <2>4. \A s \in Seq(Steps) : s \o <<"bump">> \in Seq(Steps)
    BY <2>3
  <2>5. /\ Script("raw_move") \in Seq(Steps) /\ Script("raw_click") \in Seq(Steps)
        /\ Script("raw_double_click") \in Seq(Steps) /\ Script("raw_down") \in Seq(Steps)
        /\ Script("raw_up") \in Seq(Steps) /\ Script("raw_scroll") \in Seq(Steps)
    BY <2>1, <2>2, <2>3, <2>4
  <2> QED  BY <2>5
<1>8. /\ Script("type") = TypeAuto \o <<"bump">>
      /\ Script("type_keys") = TypeKeyEvents \o <<"bump">>
  OBVIOUS
<1>9. Script("type") \in Seq(Steps) /\ Script("type_keys") \in Seq(Steps)
  BY <1>8, TypedTexts
<1>10. /\ Script("observe") \in Seq(Steps) /\ Script("keypress") \in Seq(Steps)
       /\ Script("key_down") \in Seq(Steps) /\ Script("key_up") \in Seq(Steps)
       /\ Script("reset_input") \in Seq(Steps)
  BY DEF Keypress, ResetInput
<1> HIDE DEF Script, RawKinds, Steps, Inputs
<1> QED  BY <1>1, <1>2, <1>3, <1>4, <1>5, <1>9, <1>10 DEF Operations, MouseKinds, BrowserKinds

-----------------------------------------------------------------------------
(* The inductive invariant.                                                *)

\* What the steps of each kind of operation may be.
MouseSteps == {"move", "press", "release", "press2", "press3", "release2", "wheel", "drag",
               "pause", "bump"}
ResetSteps == {"cancel", "cancelDrag", "freeButton", "freeKey"}
RecSteps   == ResetSteps \cup {"drain", "open", "clear", "list", "pick", "create",
                               "leave", "attach", "ready", "show"}
LeavingSteps == ResetSteps \cup {"forget", "clear", "depart", "close", "list", "pick",
                               "create", "activate", "leave", "attach", "ready", "bump"}
LeavingKinds == {"switch_tab", "close_tab", "stop"}
\* The operations in which the state is ACTING.
ActingKinds  == (Operations \ (BrowserKinds \cup {"observe"})) \cup {"dragged"}

In(s, q) == \E i \in DOMAIN q : q[i] = s
Within(q, S) == \A i \in DOMAIN q : q[i] \in S
\* What is held is released before anything else is done.
ResetsFirst(q) == \A i, j \in DOMAIN q :
    j <= i /\ q[i] \in {"freeButton", "freeKey"} => q[j] \in ResetSteps

\* A session is left, or has been, and the driver has not gone on.
Detaching(d) == job[d].last \in {"leave", "depart"}
\* A session that is left is followed by another one,
Chained(q) == \A i \in DOMAIN q : q[i] = "leave" => i + 1 \in DOMAIN q /\ q[i + 1] = "attach"
\* except by stop(), which leaves it last.
LeavesLast(q) == \A i \in DOMAIN q : q[i] = "leave" => i = Len(q)
StopSteps == ResetSteps \cup {"clear", "leave"}

\* Where a driver is, and what it has sent.
Placed(d) ==
    /\ job[d].at = "idle" => job[d] = Idle
    /\ job[d].at = "turn" => job[d].ok /\ job[d].last = "none"
    /\ job[d].at = "sent" => job[d].ok
    /\ job[d].num # 0 =>
         \/ job[d].at = "sent" /\ job[d].last = "enable"
         \/ job[d].at = "back" /\ (job[d].last = "attach" \/ ~job[d].ok)
    /\ Detaching(d) => job[d].ok

\* The operation a driver is in, and the steps it still takes.
Scripted(d) ==
    /\ job[d].kind \in MouseKinds =>
         d = "task" /\ Within(job[d].todo, MouseSteps) /\ job[d].last \in MouseSteps \cup {"none"}
    /\ job[d].saw # None => job[d].kind \in MouseKinds
    /\ job[d].kind \in LeavingKinds =>
         Within(job[d].todo, LeavingSteps) /\ ResetsFirst(job[d].todo)
    /\ d # "task" => job[d].kind \notin Operations \cup {"dragged"} /\ Within(job[d].todo, RecSteps)
    /\ job[d].kind = "stop" => d = "ctl"
\* The order of its steps: the queue is waited for first, a session that is left
\* is followed by another one, and only a browser action closes a tab.
Ordered(d) ==
    /\ In("drain", job[d].todo) => job[d].at = "turn" /\ job[d].todo \in {Recover, Connect}
    /\ IF job[d].kind = "stop" THEN Within(job[d].todo, StopSteps) /\ LeavesLast(job[d].todo)
                              ELSE Chained(job[d].todo)
    /\ job[d].last = "leave" => IF job[d].kind = "stop" THEN job[d].todo = <<>>
                                 ELSE job[d].todo # <<>> /\ Head(job[d].todo) = "attach"
    /\ job[d].last = "depart" => job[d].todo # <<>> /\ Head(job[d].todo) = "close"
    /\ In("depart", job[d].todo) \/ In("next", job[d].todo) => job[d].kind \in BrowserKinds
Scripts == \A d \in Drivers : Placed(d) /\ Scripted(d)
Orders  == \A d \in Drivers : Ordered(d)

\* A driver's command is in one place: with Chrome, on the wire, or answered.
Posted ==
    \A d \in Drivers :
      /\ \A i \in DOMAIN inbox : inbox[i].by = d =>
            /\ job[d].at = "sent" /\ inbox[i].cmd = job[d].last
            /\ inbox[i].cmd = "attach" => inbox[i].to = job[d].to
            /\ \A j \in DOMAIN inbox : inbox[j].by = d => i = j
            /\ \A j \in DOMAIN wire : wire[j].by # d
      /\ \A i \in DOMAIN wire : wire[i].by = d =>
            /\ job[d].at = "sent" /\ wire[i].kind = "reply"
            /\ \A j \in DOMAIN wire : wire[j].by = d => i = j
            /\ wire[i].num # 0 => wire[i].ok /\ job[d].last = "attach"
            /\ Detaching(d) => wire[i].ok
      /\ job[d].at = "sent" => \/ \E i \in DOMAIN inbox : inbox[i].by = d
                               \/ \E i \in DOMAIN wire : wire[i].by = d

Linked == sid # None => link

\* An action that is executed has its session; so has READY, unless it is being
\* detached or READY was set where there was none.
Settledness ==
    /\ state = "ACTING" => sid # None /\ job["task"].kind \in ActingKinds
    /\ state = "READY" /\ (\A d \in Drivers : ~Detaching(d)) => sid # None \/ unfounded

\* Sessions are those that Chrome gave.
Known ==
    /\ \A i \in DOMAIN inbox : inbox[i].on # None => inbox[i].on \in DOMAIN home
    /\ \A i \in DOMAIN wire : wire[i].num <= Len(home)
    /\ \A d \in Drivers : job[d].num <= Len(home)
    /\ sid # None => sid \in DOMAIN home

\* Session n is the answer to d's attach, and d does not know it yet.
Offered(d, n) ==
    /\ job[d].last = "attach"
    /\ \/ job[d].at = "back" /\ job[d].ok /\ job[d].num = n
       \/ \E i \in DOMAIN wire : wire[i].by = d /\ wire[i].ok /\ wire[i].num = n
Fresh ==
    \A d \in Drivers : \A n \in Nat : Offered(d, n) =>
        /\ n \in DOMAIN home /\ home[n] = job[d].to /\ held[n] = {} /\ n # sid
        /\ \A i \in DOMAIN inbox : inbox[i].on # n
        /\ \A e \in Drivers \ {d} : ~Offered(e, n)

\* The attach of d goes on after that of e, if both succeed.
Later(d, e) ==
    /\ job[d].at = "back" /\ job[d].ok => job[e].at = "back" /\ job[e].num < job[d].num
    /\ \A i \in DOMAIN wire : wire[i].by = d /\ wire[i].ok =>
         \/ job[e].at = "back" /\ job[e].num < wire[i].num
         \/ \E j \in DOMAIN wire : j < i /\ wire[j].by = e /\ wire[j].num < wire[i].num
    /\ \A i, j \in DOMAIN inbox : inbox[i].by = d /\ inbox[j].by = e => j < i
\* The tab of the session is the one it says, or will be when the attach under
\* way, the last one sent, goes on.
Attaching(d) == job[d].last = "attach"
TabFollows ==
    /\ sid # None /\ tab # None => \/ home[sid] = tab
                                   \/ \E d \in Drivers : Attaching(d) /\ job[d].to = tab
    /\ \A e \in Drivers : Attaching(e) /\ (job[e].at = "back" => job[e].ok) =>
         \/ tab \in {None, job[e].to}
         \/ \E d \in Drivers \ {e} : Attaching(d) /\ job[d].to = tab /\ Later(d, e)

\* A calm mouse action.
CalmMouse(d) == job[d].saw # None /\ job[d].calm
Waits(e) == job[e].at = "turn" /\ job[e].todo # <<>>
            /\ Head(job[e].todo) \in {"drain", "cancel"}
Looked ==
    /\ CalmMouse("task") => /\ \A e \in Drivers \ {"task"} : job[e].at = "idle" \/ Waits(e)
                            /\ sid # None => home[sid] = job["task"].saw
    /\ \A i \in DOMAIN inbox : inbox[i].saw # None /\ inbox[i].calm =>
         inbox[i].on # None /\ home[inbox[i].on] = inbox[i].saw

\* The enabling of a session that is dead is known to fail.
Doomed(d) ==
    /\ job[d].last = "enable"
    /\ \/ job[d].at = "sent" /\ \E i \in DOMAIN inbox : inbox[i].by = d /\ inbox[i].on \notin live
       \/ job[d].at = "sent" /\ \E i \in DOMAIN wire : wire[i].by = d /\ ~wire[i].ok
       \/ job[d].at = "back" /\ ~job[d].ok
Alive ==
    sid # None =>
      \/ sid \in live
      \/ \E i \in DOMAIN wire : wire[i].kind = "gone" /\ wire[i].on = sid
      \/ \E d \in Drivers : Doomed(d)

\* x is held in session s, of what the sessions hold in h, when the first k - 1
\* commands of q have been executed.
Presses(c, x) == <<c, x>> \in {<<"press", "button">>, <<"keyDown", "key">>}
Lifts(c, x)   == <<c, x>> \in {<<"release", "button">>, <<"release2", "button">>,
                     <<"freeButton", "button">>, <<"keyUp", "key">>, <<"freeKey", "key">>}
Lifted(q, x, s, i, k) == \E j \in DOMAIN q :
    i < j /\ j < k /\ q[j].on = s /\ Lifts(q[j].cmd, x)
Holds(h, q, x, s, k) ==
    \/ x \in h[s] /\ ~Lifted(q, x, s, 0, k)
    \/ \E i \in DOMAIN q : /\ i < k /\ q[i].on = s /\ Presses(q[i].cmd, x)
                           /\ ~Lifted(q, x, s, i, k)
\* What is held is known, and free when a session is left.
StepThatFrees(x) == IF x = "button" THEN "freeButton" ELSE "freeKey"
Stopping == job["ctl"].kind = "stop" /\ job["ctl"].calm =>
    /\ aborted /\ ~In("drain", job["rec"].todo)
    /\ \/ job["ctl"].at = "turn" /\ job["ctl"].todo = Stop
       \/ job["task"].at = "idle"
\* A driver, or a command, that leaves a session in which nothing is held.
Releasing(r) == r.kind \in {"switch_tab", "close_tab"} \/ (r.kind = "stop" /\ r.calm)
HeldIsKnown ==
    /\ sid \in live => \A x \in Recorded : Holds(held, inbox, x, sid, Len(inbox) + 1) => x \in known
    /\ \A d \in Drivers : Releasing(job[d]) =>
         \A x \in known : In(StepThatFrees(x), job[d].todo)
    /\ \A k \in DOMAIN inbox :
         inbox[k].cmd \in {"leave", "depart"} /\ inbox[k].on \in live /\ Releasing(inbox[k])
         => \A x \in Recorded : ~Holds(held, inbox, x, inbox[k].on, k)

IInv == /\ TypeOK /\ Scripts /\ Orders /\ Posted /\ Linked /\ Known /\ Fresh /\ TabFollows
        /\ Looked /\ Alive /\ Stopping /\ HeldIsKnown /\ Settledness

-----------------------------------------------------------------------------
(* Types                                                                   *)

\* A driver that is idle, or begins, has a job.
LEMMA IdleTyped == Idle \in Job /\ \A q \in Seq(Steps), k \in Kinds, at \in {"turn"} :
    [Idle EXCEPT !.todo = q, !.at = at, !.kind = k] \in Job
<1>1. <<>> \in Seq(Steps)
  OBVIOUS
<1>2. "none" \in Kinds
  BY DEF Kinds
<1> QED  BY <1>1, <1>2 DEF Idle, Job

\* The job of a driver, and what a step makes of it.
LEMMA JobTyped ==
    ASSUME TypeOK, NEW d \in Drivers
    PROVE  /\ job[d] \in Job
           /\ \A r \in Job : [job EXCEPT ![d] = r] \in [Drivers -> Job]
  BY DEF TypeOK

\* The first of the steps of a driver, and the others.
LEMMA TailTyped ==
    ASSUME TypeOK, NEW d \in Drivers, job[d].todo # <<>>
    PROVE  Tail(job[d].todo) \in Seq(Steps) /\ Head(job[d].todo) \in Steps
  BY DEF TypeOK, Job

\* A driver that goes on has a job.
LEMMA ThenTyped ==
    ASSUME TypeOK, NEW d \in Drivers, NEW next \in Seq(Steps)
    PROVE  Then(d, next) \in Job
<1>1. job[d] \in Job
  BY JobTyped
<1> QED  BY <1>1 DEF Then, Job

\* A command that is sent is well-formed, and so is the job of its driver.
LEMMA SendTyped ==
    ASSUME TypeOK, NEW d \in Drivers, NEW c \in Steps \cup {"enable"}, NEW on \in Nat \cup {None},
           NEW to \in Tabs \cup {None}, NEW next \in Seq(Steps), SendThen(d, c, on, to, next)
    PROVE  inbox' \in Seq(Cmd) /\ job' \in [Drivers -> Job]
<1>1. job[d] \in Job
  BY JobTyped
<1> DEFINE m == [by |-> d, cmd |-> c, on |-> on, to |-> to, saw |-> job[d].saw,
                 kind |-> job[d].kind, calm |-> job[d].calm]
<1>2. m \in Cmd
  BY <1>1 DEF Cmd, Job
<1> HIDE DEF m
<1>3. inbox' \in Seq(Cmd)
  BY <1>2 DEF SendThen, TypeOK, m
<1>4. job' = [job EXCEPT ![d] = [job[d] EXCEPT !.todo = next, !.at = "sent", !.last = c]]
  BY JobTyped DEF SendThen, TypeOK
<1>5. [job[d] EXCEPT !.todo = next, !.at = "sent", !.last = c] \in Job
  BY <1>1 DEF Job
<1> QED  BY <1>3, <1>4, <1>5, JobTyped

\* A step that throws is type-correct.
LEMMA FailTyped ==
    ASSUME TypeOK, NEW d \in Drivers, Fail(d)
    PROVE  /\ job' \in [Drivers -> Job] /\ state' \in States
           /\ tab' \in Tabs \cup {None} /\ sid' \in Nat \cup {None}
           /\ inbox' = inbox /\ paused' = paused /\ seen' \in Tabs \cup {None}
<1>1. ResetInput \in Seq(Steps) /\ "dragged" \in Kinds
  BY DEF ResetInput, Steps, Kinds
<1>2. [Idle EXCEPT !.todo = ResetInput, !.at = "turn", !.kind = "dragged"] \in Job
  BY <1>1, IdleTyped
<1>3. job' \in [Drivers -> Job]
  BY <1>2, IdleTyped, JobTyped DEF Fail
<1> QED  BY <1>3 DEF Fail, TypeOK, Settled, Detached, States

\* A step without an await is type-correct.
LEMMA SkipTyped ==
    ASSUME TypeOK, NEW d \in Drivers, job[d].todo # <<>>, Skip(d)
    PROVE  job' \in [Drivers -> Job]
  BY TailTyped, ThenTyped, JobTyped DEF Skip

\* Every turn is type-correct.
LEMMA TurnTyped ==
    ASSUME TypeOK, NEW d \in Drivers, Turn(d)
    PROVE  TypeOK'
<1> USE DEF TypeOK, chrome, history, session
<1>0. turning' \in BOOLEAN
  BY DEF Turn
<1>0a. job[d] \in Job /\ \A s \in Steps : At(d, s) => job[d].todo # <<>> /\ Tail(job[d].todo) \in Seq(Steps)
  BY JobTyped, TailTyped DEF At
<1>0b. sid \in Nat \cup {None} /\ job[d].to \in Tabs \cup {None} /\ None \in Tabs \cup {None}
      /\ job[d].num \in Nat
  BY <1>0a DEF Job
<1>1. ASSUME NEW s \in Inputs, Input(d, s)  PROVE TypeOK'
  <2>1. s \in Steps /\ Believes(s) \subseteq Recorded
    BY DEF Steps, Believes, Recorded
  <2>2. CASE Fail(d)
    BY <1>0, <1>1, <2>1, <2>2, FailTyped DEF Input
  <2>3. CASE Send(d, s, sid, None) /\ UNCHANGED session /\ known' = Believes(s)
    <3>1. inbox' \in Seq(Cmd) /\ job' \in [Drivers -> Job]
      BY <1>0a, <1>0b, <1>1, <2>1, <2>3, SendTyped DEF Input, Send
    <3> QED  BY <1>0, <1>1, <2>1, <2>3, <3>1 DEF Input
  <2> QED  BY <1>1, <2>2, <2>3 DEF Input
<1>2. ASSUME NEW s \in {"cancelDrag", "freeButton", "freeKey"}, Free(d, s)  PROVE TypeOK'
  <2>1. s \in Steps /\ Believes(s) \subseteq Recorded
    BY DEF Steps, Believes, Recorded
  <2>2. inbox' \in Seq(Cmd) /\ job' \in [Drivers -> Job]
    BY <1>0a, <1>0b, <1>2, <2>1, SendTyped, SkipTyped DEF Free, Send
  <2> QED  BY <1>0, <1>2, <2>1, <2>2 DEF Free
<1>3. ASSUME NEW s \in {"shot", "go", "history", "dialog"}, Query(d, s)  PROVE TypeOK'
  <2>1. s \in Steps
    BY DEF Steps
  <2>2. CASE Fail(d)
    BY <1>0, <1>3, <2>1, <2>2, FailTyped DEF Query
  <2>3. CASE Send(d, s, sid, None) /\ UNCHANGED session
    <3>1. inbox' \in Seq(Cmd) /\ job' \in [Drivers -> Job]
      BY <1>0a, <1>0b, <1>3, <2>1, <2>3, SendTyped DEF Query, Send
    <3> QED  BY <1>0, <1>3, <2>1, <2>3, <3>1 DEF Query
  <2> QED  BY <1>3, <2>2, <2>3 DEF Query
<1>4. ASSUME NEW s \in {"store", "bump", "clear", "forget", "ready"}, Local(d, s)  PROVE TypeOK'
  <2>1. s \in Steps
    BY DEF Steps
  <2>2. job' \in [Drivers -> Job]
    BY <1>0a, <1>4, <2>1, SkipTyped DEF Local
  <2>3. state' \in States /\ seen' \in Tabs \cup {None} /\ tab' = tab
    BY <1>4 DEF Local, Bump, States
  <2> QED  BY <1>0, <1>4, <2>2, <2>3 DEF Local
<1>5. ASSUME NEW s \in {"activate", "create", "close", "list", "attach"}, Ask(d, s)  PROVE TypeOK'
  <2>1. s \in Steps
    BY DEF Steps
  <2>2. CASE Fail(d)
    BY <1>0, <1>5, <2>1, <2>2, FailTyped DEF Ask
  <2>3. CASE Send(d, s, None, job[d].to) /\ Entering(d, s) /\ UNCHANGED <<sid, paused>>
    <3>1. inbox' \in Seq(Cmd) /\ job' \in [Drivers -> Job]
      BY <1>0a, <1>0b, <1>5, <2>1, <2>3, SendTyped DEF Ask, Send
    <3>2. state' \in States /\ seen' \in Tabs \cup {None} /\ tab' \in Tabs \cup {None}
      BY <1>0b, <2>3 DEF Entering, Bump, Detached, States
    <3> QED  BY <1>0, <1>5, <2>3, <3>1, <3>2 DEF Ask
  <2> QED  BY <1>5, <2>2, <2>3 DEF Ask
<1>6. CASE MayGo(d)
  <2>1. "mayGo" \in Steps /\ Navigate \in Seq(Steps) /\ <<>> \in Seq(Steps)
    BY DEF Steps, Navigate
  <2>2. PICK entry \in {Navigate, <<>>} : job' = [job EXCEPT ![d] = Then(d, entry \o Tail(job[d].todo))]
    BY <1>6 DEF MayGo
  <2>3. Tail(job[d].todo) \in Seq(Steps) /\ entry \in Seq(Steps)
    BY <1>0a, <1>6, <2>1 DEF MayGo
  <2>4. entry \o Tail(job[d].todo) \in Seq(Steps)
    BY <2>3
  <2>5. job' \in [Drivers -> Job]
    BY <2>2, <2>4, ThenTyped, JobTyped
  <2> QED  BY <1>0, <1>6, <2>5 DEF MayGo
<1>7. CASE Window(d)
  <2>1. "window" \in Steps /\ "show" \in Steps
    BY DEF Steps
  <2>2. PICK s \in {"window", "show"} : /\ At(d, s)
                                         /\ \/ Send(d, s, None, job[d].to)
                                            \/ Skip(d) /\ inbox' = inbox
    BY <1>7 DEF Window
  <2>2a. inbox' \in Seq(Cmd) /\ job' \in [Drivers -> Job]
    BY <1>0a, <1>0b, <2>1, <2>2, SendTyped, SkipTyped DEF Send
  <2> QED  BY <1>0, <1>7, <2>2a DEF Window
<1>8. CASE Aim(d)
  <2>1. CASE Fail(d)
    BY <1>0, <1>8, <2>1, FailTyped DEF Aim
  <2>2. CASE ~Fail(d)
    <3>1. "aim" \in Steps /\ "aimAll" \in Steps
      BY DEF Steps
    <3>2. Tail(job[d].todo) \in Seq(Steps)
      BY <1>0a, <1>8, <3>1 DEF Aim
    <3>3. PICK ts \in SUBSET job[d].tabs \ {{}} : \E t \in ts :
            job' = [job EXCEPT ![d] = [Then(d, Tail(job[d].todo)) EXCEPT !.tabs = {},
                                  !.to = IF At(d, "aim") THEN t ELSE @,
                                  !.rest = IF At(d, "aimAll") THEN ts ELSE @]]
      BY <1>8, <2>2 DEF Aim
    <3>4. PICK t \in ts :
            job' = [job EXCEPT ![d] = [Then(d, Tail(job[d].todo)) EXCEPT !.tabs = {},
                                  !.to = IF At(d, "aim") THEN t ELSE @,
                                  !.rest = IF At(d, "aimAll") THEN ts ELSE @]]
      BY <3>3
    <3>5. Then(d, Tail(job[d].todo)) \in Job
      BY <3>2, ThenTyped
    <3>6. ts \subseteq Tabs /\ t \in Tabs
      BY <1>0a DEF Job
    <3>7. [Then(d, Tail(job[d].todo)) EXCEPT !.tabs = {},
                                  !.to = IF At(d, "aim") THEN t ELSE @,
                                  !.rest = IF At(d, "aimAll") THEN ts ELSE @] \in Job
      BY <3>5, <3>6 DEF Job
    <3>8. job' \in [Drivers -> Job]
      BY <3>4, <3>7, JobTyped
    <3> QED  BY <1>0, <1>8, <2>2, <3>8 DEF Aim
  <2> QED  BY <2>1, <2>2
<1>9. CASE CloseNext(d)
  <2>1. "next" \in Steps /\ "depart" \in Steps
    BY DEF Steps
  <2>2. CASE job[d].rest = {}
    BY <1>0, <1>0a, <1>9, <2>1, <2>2, SkipTyped DEF CloseNext
  <2>3. CASE job[d].rest # {}
    <3>1. PICK t \in job[d].rest :
            job' = [job EXCEPT ![d] = [Then(d, <<"depart">> \o job[d].todo) EXCEPT
                               !.to = t, !.rest = @ \ {t}]]
      BY <1>9, <2>3 DEF CloseNext
    <3>2. <<"depart">> \o job[d].todo \in Seq(Steps)
      BY <1>0a, <2>1 DEF Job
    <3>3. Then(d, <<"depart">> \o job[d].todo) \in Job /\ t \in Tabs
      BY <1>0a, <3>2, ThenTyped DEF Job
    <3>4. [Then(d, <<"depart">> \o job[d].todo) EXCEPT !.to = t, !.rest = @ \ {t}] \in Job
      BY <3>3 DEF Job
    <3>5. job' \in [Drivers -> Job]
      BY <3>1, <3>4, JobTyped
    <3> QED  BY <1>0, <1>9, <3>5 DEF CloseNext
  <2> QED  BY <2>2, <2>3
<1>10. CASE Leave(d)
  <2>1. "leave" \in Steps
    BY DEF Steps
  <2>2. CASE MayLeave(d)
    <3>1. inbox' \in Seq(Cmd) /\ job' \in [Drivers -> Job]
      BY <1>0a, <1>0b, <1>10, <2>1, <2>2, SendTyped, SkipTyped DEF Leave, Send
    <3>2. /\ state' \in States /\ seen' \in Tabs \cup {None} /\ tab' \in Tabs \cup {None}
          /\ sid' \in Nat \cup {None} /\ paused' = paused
      BY <1>10, <2>2 DEF Leave, Bump, States
    <3> QED  BY <1>0, <1>10, <3>1, <3>2 DEF Leave
  <2>3. CASE ~MayLeave(d)
    BY <1>0, <1>10, <2>3, FailTyped DEF Leave
  <2> QED  BY <2>2, <2>3
<1>11. CASE Depart(d)
  <2> DEFINE next == Closing(tab = job[d].to) \o Tail(job[d].todo)
  <2>1. "depart" \in Steps
    BY DEF Steps
  <2>2. Closing(TRUE) \in Seq(Steps) /\ Closing(FALSE) \in Seq(Steps)
    BY DEF Closing, SwitchTab, Attach, Steps
  <2>3. next \in Seq(Steps)
    <3>1. Closing(tab = job[d].to) \in Seq(Steps)
      BY <2>2
    <3> QED  BY <1>0a, <1>11, <2>1, <3>1 DEF Depart
  <2> HIDE DEF next
  <2>4. inbox' \in Seq(Cmd) /\ job' \in [Drivers -> Job]
    <3>1. CASE SendThen(d, "depart", sid, None, next)
      BY <1>0b, <2>1, <2>3, <3>1, SendTyped
    <3>2. CASE job' = [job EXCEPT ![d] = Then(d, next)] /\ inbox' = inbox
      BY <2>3, <3>2, ThenTyped, JobTyped
    <3> QED  BY <1>11, <3>1, <3>2 DEF Depart, next
  <2>5. /\ state' \in States /\ seen' \in Tabs \cup {None} /\ tab' \in Tabs \cup {None}
        /\ sid' \in Nat \cup {None}
    BY <1>11 DEF Depart, Bump, Detached, States
  <2> QED  BY <1>0, <1>11, <2>4, <2>5 DEF Depart
<1>12. CASE Enable(d)
  <2>1. CASE link
    <3>1. inbox' \in Seq(Cmd) /\ job' \in [Drivers -> Job]
      BY <1>0a, <1>0b, <1>12, <2>1, SendTyped DEF Enable, Job
    <3> QED  BY <1>0, <1>0b, <1>12, <2>1, <3>1 DEF Enable
  <2>2. CASE ~link
    BY <1>0, <1>12, <2>2, FailTyped DEF Enable
  <2> QED  BY <2>1, <2>2
<1>13. CASE Pick(d)
  <2>1. "pick" \in Steps /\ <<"create">> \in Seq(Steps)
    BY DEF Steps
  <2>2. Tail(job[d].todo) \in Seq(Steps)
    BY <1>0a, <1>13, <2>1 DEF Pick
  <2>3. <<"create">> \o Tail(job[d].todo) \in Seq(Steps)
    BY <2>1, <2>2
  <2>4. \A r \in Job : /\ [r EXCEPT !.tabs = {}] \in Job
                       /\ \A t \in Tabs : [r EXCEPT !.to = t, !.tabs = {}] \in Job
    BY DEF Job
  <2>5. job[d].tabs \subseteq Tabs
    BY <1>0a DEF Job
  <2>6. Then(d, Tail(job[d].todo)) \in Job /\ Then(d, <<"create">> \o Tail(job[d].todo)) \in Job
    BY <2>2, <2>3, ThenTyped
  <2> DEFINE a == Then(d, Tail(job[d].todo))
             b == Then(d, <<"create">> \o Tail(job[d].todo))
  <2>7. job' \in [Drivers -> Job]
    <3>1. \/ \E t \in job[d].tabs : job' = [job EXCEPT ![d] = [a EXCEPT !.to = t, !.tabs = {}]]
          \/ \E t \in job[d].tabs \ {job[d].to} :
                job' = [job EXCEPT ![d] = [a EXCEPT !.to = t, !.tabs = {}]]
          \/ job' = [job EXCEPT ![d] = [b EXCEPT !.tabs = {}]]
      BY <1>13 DEF Pick
    <3> HIDE DEF a, b
    <3>2. \A t \in Tabs : [a EXCEPT !.to = t, !.tabs = {}] \in Job
      BY <2>4, <2>6 DEF a
    <3>3. [b EXCEPT !.tabs = {}] \in Job
      BY <2>4, <2>6 DEF b
    <3>4. \E r \in Job : job' = [job EXCEPT ![d] = r]
      <4> HIDE DEF TypeOK
      <4> QED  BY <2>5, <3>1, <3>2, <3>3
    <3> QED  BY <3>4, JobTyped
  <2> QED  BY <1>0, <1>13, <2>7 DEF Pick
<1>14. CASE Drained(d)
  <2>1. "drain" \in Steps /\ "cancel" \in Steps
    BY DEF Steps
  <2>2. job' \in [Drivers -> Job] /\ aborted' \in BOOLEAN
    BY <1>0a, <1>14, <2>1, SkipTyped DEF Drained
  <2> QED  BY <1>0, <1>14, <2>2 DEF Drained
<1>15. CASE Open(d)
  <2>1. "open" \in Steps
    BY DEF Steps
  <2>2. job' \in [Drivers -> Job]
    BY <1>0a, <1>15, <2>1, SkipTyped DEF Open
  <2> QED  BY <1>0, <1>15, <2>2 DEF Open
<1>16. CASE Over(d)
  <2>1. CASE Fail(d)
    BY <1>0, <1>16, <2>1, FailTyped DEF Over
  <2>2. CASE ~Fail(d)
    <3>1. job' \in [Drivers -> Job] /\ state' \in States
      BY <1>16, <2>2, IdleTyped, JobTyped DEF Over, Settled, Detached, States
    <3> QED  BY <1>0, <1>16, <2>2, <3>1 DEF Over
  <2> QED  BY <2>1, <2>2
<1>17. CASE Sleep(d)
  <2>1. job[d].todo \in Seq(Steps)
    BY <1>0a DEF Job
  <2>2. job' \in [Drivers -> Job]
    BY <1>17, <2>1, ThenTyped, JobTyped DEF Sleep
  <2> QED  BY <1>0, <1>17, <2>2 DEF Sleep
<1>18. CASE Wake(d)
  <2>1. "pause" \in Steps
    BY DEF Steps
  <2>2. job' \in [Drivers -> Job]
    BY <1>0a, <1>18, <2>1, SkipTyped DEF Wake
  <2> QED  BY <1>0, <1>18, <2>2 DEF Wake
<1> QED  BY <1>1, <1>2, <1>3, <1>4, <1>5, <1>6, <1>7, <1>8, <1>9, <1>10, <1>11, <1>12, <1>13,
            <1>14, <1>15, <1>16, <1>17, <1>18 DEF Turn, Shot, OnPage

\* A reply is a message.
LEMMA ReplyTyped ==
    ASSUME TypeOK, NEW c \in Cmd, NEW ok \in BOOLEAN, NEW num \in Nat, NEW ts \in SUBSET Tabs
    PROVE  Reply(c, ok, num, ts) \in Message
  BY DEF Reply, Message, Cmd

\* An event is a message.
LEMMA EventTyped ==
    ASSUME TypeOK, NEW s \in DOMAIN home
    PROVE  Event("changed", s) \in Message
  BY DEF TypeOK, Event, Message

\* Forgetting who waits keeps commands commands and messages messages.
LEMMA ForgottenTyped ==
    ASSUME NEW d \in Drivers
    PROVE  /\ \A q \in Seq(Cmd) : Forgotten(q, d) \in Seq(Cmd)
           /\ \A q \in Seq(Message) : Forgotten(q, d) \in Seq(Message)
<1>1. ASSUME NEW q \in Seq(Cmd)  PROVE Forgotten(q, d) \in Seq(Cmd)
  <2>1. \A c \in Cmd : [c EXCEPT !.by = None] \in Cmd
    BY DEF Cmd
  <2>2. Len(q) \in Nat /\ \A i \in 1..Len(q) : q[i] \in Cmd
    OBVIOUS
  <2>3. Forgotten(q, d) \in [1..Len(q) -> Cmd]
    BY <2>1, <2>2 DEF Forgotten
  <2> QED  BY <2>2, <2>3
<1>2. ASSUME NEW q \in Seq(Message)  PROVE Forgotten(q, d) \in Seq(Message)
  <2>1. \A c \in Message : [c EXCEPT !.by = None] \in Message
    BY DEF Message
  <2>2. Len(q) \in Nat /\ \A i \in 1..Len(q) : q[i] \in Message
    OBVIOUS
  <2>3. Forgotten(q, d) \in [1..Len(q) -> Message]
    BY <2>1, <2>2 DEF Forgotten
  <2> QED  BY <2>2, <2>3
<1> QED  BY <1>1, <1>2

\* A recovery that begins is type-correct.
LEMMA RecoversTyped ==
    ASSUME TypeOK, NEW t \in Tabs \cup {None}, Recovers(t)
    PROVE  job' \in [Drivers -> Job] /\ aborted' \in BOOLEAN
<1>1. Recover \in Seq(Steps)
  BY DEF Recover, ResetInput, Attach, Steps
<1>2. [Idle EXCEPT !.todo = Recover, !.at = "turn", !.kind = "recover", !.to = t] \in Job
  BY <1>1 DEF Idle, Job, Kinds
<1> DEFINE r == [Idle EXCEPT !.todo = Recover, !.at = "turn", !.kind = "recover", !.to = t]
           c == [job["ctl"] EXCEPT !.calm = job["ctl"].at = "idle"]
<1>3. c \in Job
  <2>1. job["ctl"] \in Job
    BY JobTyped DEF Drivers
  <2>2. \A r0 \in Job, b \in BOOLEAN : [r0 EXCEPT !.calm = b] \in Job
    BY DEF Job
  <2> QED  BY <2>1, <2>2
<1> HIDE DEF r, c
<1>4. CASE link /\ job["rec"].at = "idle"
  <2>1. /\ job' = [job EXCEPT !["rec"] = r, !["ctl"].calm = job["ctl"].at = "idle"]
        /\ aborted' = TRUE
    BY <1>4 DEF Recovers, r
  <2>2. job' = [[job EXCEPT !["rec"] = r] EXCEPT !["ctl"] = c]
    BY <2>1, JobTyped DEF c, Drivers
  <2> QED  BY <1>2, <1>3, <2>1, <2>2 DEF TypeOK, Drivers, r
<1> QED  BY <1>4 DEF Recovers, TypeOK

\* What a session holds after a command is a set of what can be held.
LEMMA PressedTyped ==
    ASSUME NEW c, NEW h \in SUBSET {"button", "double", "key", "raw"}
    PROVE  Pressed(c, h) \in SUBSET {"button", "double", "key", "raw"}
  BY DEF Pressed

\* What Chrome does with the first command of inbox.
LEMMA ChromeIs ==
    ASSUME TypeOK, Chrome, NEW c, c = Head(inbox)
    PROVE  /\ c \in Cmd /\ inbox # <<>> /\ inbox' = Tail(inbox) /\ inbox' \in Seq(Cmd)
           /\ UNCHANGED <<link, state, paused, tab, sid, seen, known, aborted, job, plan, stopped, faults, unfounded>>
           /\ \/ c.cmd \in {"leave", "depart"} /\ Detach(c)
              \/ c.cmd = "attach" /\ Len(home) < MaxSessions /\ NewSession(c)
              \/ /\ c.cmd \in {"create", "close", "list", "activate", "window", "show"}
                 /\ OnTargets(c) /\ UNCHANGED <<home, held, typed>>
              \/ /\ c.cmd \notin {"leave", "depart", "attach", "create", "close", "list",
                                  "activate", "window", "show"}
                 /\ OnSession(c)
<1>1. c \in Cmd /\ inbox # <<>> /\ inbox' = Tail(inbox) /\ inbox' \in Seq(Cmd)
  BY DEF Chrome, TypeOK
<1>2. UNCHANGED <<link, state, paused, tab, sid, seen, known, aborted, job, plan, stopped, faults, unfounded>>
  BY DEF Chrome, session, history
<1> QED  BY <1>1, <1>2 DEF Chrome

\* Chrome's answers are type-correct.
LEMMA ChromeTyped ==
    ASSUME TypeOK, Chrome, UNCHANGED turning
    PROVE  TypeOK'
<1>1. PICK c : c = Head(inbox)
  OBVIOUS
<1>2. /\ c \in Cmd /\ inbox' \in Seq(Cmd)
      /\ UNCHANGED <<link, state, paused, tab, sid, seen, known, aborted, job, plan, stopped, faults, unfounded>>
  BY <1>1, ChromeIs
<1> SUFFICES /\ open' \subseteq Tabs /\ home' \in Seq(Tabs) /\ typed' \in Nat
             /\ held' \in Seq(SUBSET {"button", "double", "key", "raw"})
             /\ Len(held') = Len(home') /\ Len(home') <= MaxSessions
             /\ live' \subseteq DOMAIN (home') /\ wire' \in Seq(Message)
  BY <1>2 DEF TypeOK
<1> USE DEF TypeOK
<1>3. ASSUME NEW ok \in BOOLEAN, NEW num \in Nat, NEW ts \in SUBSET Tabs
      PROVE  /\ <<Reply(c, ok, num, ts)>> \in Seq(Message)
             /\ Append(wire, Reply(c, ok, num, ts)) \in Seq(Message)
  <2>1. Reply(c, ok, num, ts) \in Message
    BY <1>2, ReplyTyped
  <2> QED  BY <2>1
<1>4. CASE Detach(c)
  <2>1. Gone(live \cap {c.on}) \in Seq(Message)
    BY GoneIs
  <2>2. <<Reply(c, TRUE, 0, {})>> \in Seq(Message)
    BY <1>3
  <2>3. wire' \in Seq(Message)
    <3>1. wire \o Gone(live \cap {c.on}) \in Seq(Message)
      BY <2>1
    <3>2. wire' = (wire \o Gone(live \cap {c.on})) \o <<Reply(c, TRUE, 0, {})>>
      BY <1>4 DEF Detach
    <3> QED  BY <2>2, <3>1, <3>2, ConcatProperties
  <2> QED  BY <1>4, <2>3 DEF Detach
<1>5. CASE Len(home) < MaxSessions /\ NewSession(c)
  <2>1. CASE c.to \in open
    <3>1. Append(wire, Reply(c, TRUE, Len(home) + 1, {})) \in Seq(Message)
      <4>1. Len(home) + 1 \in Nat
        OBVIOUS
      <4> QED  BY <1>3, <4>1
    <3>2. wire' \in Seq(Message)
      BY <1>5, <2>1, <3>1 DEF NewSession
    <3>a. home' = Append(home, c.to) /\ c.to \in Tabs /\ held' = Append(held, {})
      BY <1>5, <2>1 DEF NewSession
    <3>3. home' \in Seq(Tabs) /\ Len(home') = Len(home) + 1
      BY <3>a
    <3>4. held' \in Seq(SUBSET {"button", "double", "key", "raw"}) /\ Len(held') = Len(home) + 1
      BY <3>a
    <3>5. open' = open /\ typed' = typed /\ live' = live \cup {Len(home) + 1}
      BY <1>5, <2>1 DEF NewSession
    <3>6. Len(home) + 1 <= MaxSessions
      BY <1>5, TabAssumption
    <3> QED  BY <3>2, <3>3, <3>4, <3>5, <3>6
  <2>2. CASE c.to \notin open
    <3>1. Append(wire, Reply(c, FALSE, 0, {})) \in Seq(Message)
      BY <1>3
    <3> QED  BY <1>5, <2>2, <3>1 DEF NewSession, chrome
  <2> QED  BY <2>1, <2>2
<1>6. CASE OnTargets(c) /\ UNCHANGED <<home, held, typed>>
  <2>1. open' \subseteq Tabs /\ live' \subseteq DOMAIN home
    BY <1>6 DEF OnTargets
  <2>2. wire' \in Seq(Message)
    <3>1. SessionsOf(c.to) \subseteq DOMAIN home
      BY DEF SessionsOf
    <3>2. Gone(SessionsOf(c.to)) \in Seq(Message)
      BY <3>1, GoneIs
    <3>3. CASE wire' = wire \o Gone(SessionsOf(c.to)) \o <<Reply(c, c.to \in open, 0, {})>>
      <4>1. <<Reply(c, c.to \in open, 0, {})>> \in Seq(Message)
        <5>1. (c.to \in open) \in BOOLEAN
          OBVIOUS
        <5> QED  BY <1>3, <5>1
      <4> QED  BY <3>2, <3>3, <4>1
    <3>4. CASE \E ok \in BOOLEAN, ts \in SUBSET Tabs : wire' = Append(wire, Reply(c, ok, 0, ts))
      BY <1>3, <3>4
    <3> QED  BY <1>6, <3>3, <3>4 DEF OnTargets
  <2> QED  BY <1>6, <2>1, <2>2
<1>7. CASE OnSession(c)
  <2>1. held' \in Seq(SUBSET {"button", "double", "key", "raw"}) /\ Len(held') = Len(held)
    <3>1. CASE c.on \in live
      <4>1. c.on \in DOMAIN held
        BY <3>1
      <4>2. Pressed(c.cmd, held[c.on]) \in SUBSET {"button", "double", "key", "raw"}
        <5>1. held[c.on] \in SUBSET {"button", "double", "key", "raw"}
          BY <4>1
        <5> QED  BY <5>1, PressedTyped
      <4>3. held' = [held EXCEPT ![c.on] = Pressed(c.cmd, held[c.on])]
        BY <1>7, <3>1 DEF OnSession
      <4> QED  BY <4>1, <4>2, <4>3
    <3>2. CASE c.on \notin live
      BY <1>7, <3>2 DEF OnSession
    <3> QED  BY <3>1, <3>2
  <2>2. wire' \in Seq(Message)
    <3>1. <<Reply(c, c.on \in live \/ c.cmd \in Lenient, 0, {})>> \in Seq(Message)
      <4>1. (c.on \in live \/ c.cmd \in Lenient) \in BOOLEAN
        OBVIOUS
      <4> QED  BY <1>3, <4>1
    <3>2. CASE c.on \in live /\ c.cmd = "go"
      <4>1. <<Event("changed", c.on)>> \in Seq(Message)
        BY <3>2, EventTyped
      <4> QED  BY <1>7, <3>1, <3>2, <4>1 DEF OnSession
    <3>3. CASE ~(c.on \in live /\ c.cmd = "go")
      BY <1>7, <3>1, <3>3 DEF OnSession
    <3> QED  BY <3>2, <3>3
  <2>3. typed' \in Nat
    BY <1>7 DEF OnSession
  <2> QED  BY <1>7, <2>1, <2>2, <2>3 DEF OnSession
<1> QED  BY <1>1, <1>4, <1>5, <1>6, <1>7, ChromeIs

\* Handling a message is type-correct.
LEMMA HandleTyped ==
    ASSUME TypeOK, Handle, UNCHANGED turning
    PROVE  TypeOK'
<1> DEFINE m == Head(wire)
<1> USE DEF TypeOK, chrome, history, session
<1>1. m \in Message /\ wire' \in Seq(Message)
  BY DEF Handle
<1>2. CASE Replied(m)
  <2>1. job' \in [Drivers -> Job]
    <3>1. CASE m.by = None
      BY <1>2, <3>1 DEF Replied
    <3>2. CASE m.by # None
      <4>1. m.by \in Drivers /\ job[m.by] \in Job
        BY <1>1, <3>2 DEF Message
      <4>2. \A ts \in SUBSET Tabs : ts # {} => (CHOOSE t \in ts : TRUE) \in Tabs
        OBVIOUS
      <4>3. m.tabs \subseteq Tabs /\ m.ok \in BOOLEAN /\ m.num \in Nat
        BY <1>1 DEF Message
      <4>4. ASSUME NEW j \in Job  PROVE Answered(j, m) \in Job
        <5> DEFINE ts == IF j.last = "list" THEN m.tabs ELSE j.tabs
                   to == IF m.tabs # {} /\ j.last = "create" THEN CHOOSE t \in m.tabs : TRUE
                                                             ELSE j.to
        <5>1. ts \in SUBSET Tabs /\ to \in Tabs \cup {None}
          BY <4>2, <4>3 DEF Job
        <5>2. Answered(j, m) = [j EXCEPT !.at = "back", !.ok = m.ok, !.num = m.num,
                                         !.tabs = ts, !.to = to]
          BY DEF Answered
        <5> HIDE DEF ts, to
        <5> QED  BY <4>3, <5>1, <5>2 DEF Job
      <4>5. job' = [job EXCEPT ![m.by] = Answered(job[m.by], m)]
        BY <1>2, <3>2, <4>1 DEF Replied
      <4> QED  BY <4>1, <4>4, <4>5, JobTyped
    <3> QED  BY <3>1, <3>2
  <2> QED  BY <1>1, <1>2, <2>1 DEF Handle, Replied
<1>3. CASE PageChanged(m)
  BY <1>1, <1>3 DEF Handle, PageChanged
<1>4. CASE TargetGone(m)
  <2>1. job' \in [Drivers -> Job] /\ aborted' \in BOOLEAN
    BY <1>4, RecoversTyped DEF TargetGone
  <2> QED  BY <1>1, <1>4, <2>1 DEF Handle, TargetGone, States
<1> QED  BY <1>2, <1>3, <1>4 DEF Handle

\* The job of a task that begins.
LEMMA BegunTyped ==
    ASSUME TypeOK, NEW k \in Operations, NEW t \in Tabs \cup {None}, NEW cm \in BOOLEAN
    PROVE  [Idle EXCEPT !.todo = Script(k), !.at = "turn", !.kind = k, !.to = t,
                        !.saw = IF k \in MouseKinds THEN seen ELSE None,
                        !.calm = cm] \in Job
<1>1. (IF k \in MouseKinds THEN seen ELSE None) \in Tabs \cup {None} /\ k \in Kinds
  BY DEF TypeOK, Kinds
<1>2. Script(k) \in Seq(Steps)
  BY ScriptTyped
<1>3. Idle \in Job
  BY IdleTyped
<1>4. ASSUME NEW q \in Seq(Steps), NEW kd \in Kinds, NEW saw \in Tabs \cup {None}
      PROVE  [Idle EXCEPT !.todo = q, !.at = "turn", !.kind = kd, !.to = t, !.saw = saw, !.calm = cm] \in Job
  BY <1>3 DEF Job
<1> QED  BY <1>1, <1>2, <1>4

\* A task that begins is type-correct.
LEMMA BeginTyped ==
    ASSUME TypeOK, NEW k \in Operations, Begin(k), UNCHANGED turning
    PROVE  TypeOK'
<1> DEFINE cm == \A d \in {"rec", "ctl"} : job[d].at = "idle"
<1>1. PICK t \in Tabs \cup {None} :
        job' = [job EXCEPT !["task"] =
            [Idle EXCEPT !.todo = Script(k), !.at = "turn", !.kind = k, !.to = t,
                         !.saw = IF k \in MouseKinds THEN seen ELSE None,
                         !.calm = cm]]
  BY DEF Begin
<1>2. cm \in BOOLEAN
  OBVIOUS
<1> HIDE DEF cm
<1>3. [Idle EXCEPT !.todo = Script(k), !.at = "turn", !.kind = k, !.to = t,
                   !.saw = IF k \in MouseKinds THEN seen ELSE None,
                   !.calm = cm] \in Job
  BY <1>2, BegunTyped
<1> USE DEF TypeOK
<1>4. job' \in [Drivers -> Job]
  BY <1>1, <1>3, JobTyped DEF Drivers
<1>5. plan' \in Seq(Operations) /\ state' \in States
  BY DEF Begin, States
<1>6. typed' \in Nat /\ UNCHANGED <<open, home, live, held, inbox, wire, link, paused, tab, sid, seen,
                   known, aborted, stopped, faults, unfounded>>
  BY DEF Begin, history
<1> QED  BY <1>4, <1>5, <1>6

\* Every step but a turn is type-correct.
LEMMA OtherTyped ==
    ASSUME TypeOK, Other, UNCHANGED turning
    PROVE  TypeOK'
<1> USE DEF TypeOK, chrome, history, session
<1>1. ASSUME NEW d \in Drivers, Timeout(d)  PROVE TypeOK'
  <2>1. job' = [job EXCEPT ![d] = [job[d] EXCEPT !.at = "back", !.ok = job[d].ok /\ job[d].last \in Lenient]]
    BY <1>1 DEF Timeout
  <2>2. [job[d] EXCEPT !.at = "back", !.ok = job[d].ok /\ job[d].last \in Lenient] \in Job
    <3>1. job[d] \in Job /\ (job[d].ok /\ job[d].last \in Lenient) \in BOOLEAN
      BY JobTyped DEF Job
    <3> HIDE DEF TypeOK
    <3> QED  BY <3>1 DEF Job
  <2>3. job' \in [Drivers -> Job]
    BY <2>1, <2>2, JobTyped
  <2>4. inbox' \in Seq(Cmd) /\ wire' \in Seq(Message) /\ faults' \in Nat
    BY <1>1, ForgottenTyped DEF Timeout, Counted
  <2> QED  BY <1>1, <2>3, <2>4 DEF Timeout, Counted
<1>2. ASSUME NEW k \in {"connect", "stop"}, Command(k)  PROVE TypeOK'
  <2>1. Stop \in Seq(Steps) /\ Connect \in Seq(Steps) /\ k \in Kinds
    BY DEF Stop, Connect, ResetInput, Attach, Steps, Kinds
  <2>2. ASSUME NEW b \in BOOLEAN
        PROVE  [Idle EXCEPT !.todo = IF k = "stop" THEN Stop ELSE Connect, !.at = "turn",
                            !.kind = k, !.calm = b] \in Job
    <3>1. \A r \in Job : [r EXCEPT !.calm = b] \in Job
      BY DEF Job
    <3> QED  BY <2>1, <3>1, IdleTyped
  <2>3. job' \in [Drivers -> Job]
    BY <1>2, <2>2, JobTyped DEF Command, Drivers
  <2>4. faults' \in Nat /\ stopped' \in BOOLEAN
    BY <1>2 DEF Command, Troubles
  <2> QED  BY <1>2, <2>3, <2>4 DEF Command
<1>3. CASE EnsureActive
  <2>1. faults' \in Nat
    BY <1>3 DEF EnsureActive, Troubles
  <2> QED  BY <1>3, <2>1, RecoversTyped DEF EnsureActive
<1>4. CASE LinkLost
  <2>1. ASSUME NEW d \in Drivers
        PROVE  [job[d] EXCEPT !.at = "back", !.ok = job[d].last \in Lenient] \in Job
    <3>1. job[d] \in Job /\ (job[d].last \in Lenient) \in BOOLEAN
      BY JobTyped DEF Job
    <3> HIDE DEF TypeOK
    <3> QED  BY <3>1 DEF Job
  <2>2. job' \in [Drivers -> Job]
    BY <1>4, <2>1, JobTyped DEF LinkLost
  <2>3. inbox' \in Seq(Cmd) /\ wire' \in Seq(Message) /\ faults' \in Nat /\ state' \in States
    <3>1. faults' \in Nat /\ inbox' = <<>> /\ wire' = <<>> /\ state' \in States
      <4>0. faults \in Nat /\ faults > 0
        BY <1>4 DEF LinkLost, Counted
      <4>1. faults - 1 \in Nat
        BY <4>0
      <4> QED  BY <1>4, <4>1 DEF LinkLost, Counted, States
    <3> QED  BY <3>1
  <2> QED  BY <1>4, <2>2, <2>3 DEF LinkLost, Counted
<1>5. CASE Outside
  <2>1. ASSUME NEW S \in SUBSET (DOMAIN home)  PROVE wire \o Gone(S) \in Seq(Message)
    BY <2>1, GoneIs
  <2>2. \A t \in Tabs : SessionsOf(t) \in SUBSET (DOMAIN home)
    BY DEF SessionsOf
  <2>3. \A s \in live : {s} \in SUBSET (DOMAIN home)
    OBVIOUS
  <2>4. \A s \in live : Append(wire, Event("changed", s)) \in Seq(Message)
    BY EventTyped
  <2>5. wire' \in Seq(Message)
    BY <1>5, <2>1, <2>2, <2>3, <2>4 DEF Outside
  <2>6. open' \subseteq Tabs /\ live' \subseteq DOMAIN home
    BY <1>5 DEF Outside
  <2>8. faults' \in Nat
    BY <1>5 DEF Outside, Counted
  <2>7. UNCHANGED <<home, held, typed, inbox, link, state, paused, tab, sid, seen, known, aborted, job, plan, stopped, unfounded>>
    BY <1>5 DEF Outside, Counted
  <2> QED  BY <2>5, <2>6, <2>7, <2>8
<1>6. CASE PauseResume
  <2>1. state' \in States /\ faults' \in Nat /\ paused' \in BOOLEAN
    BY <1>6 DEF PauseResume, Counted, States
  <2>2. unfounded' \in BOOLEAN
    BY <1>6 DEF PauseResume
  <2>3. UNCHANGED <<open, home, live, held, typed, inbox, wire, link, tab, sid, seen, known, aborted,
                    job, plan, stopped>>
    BY <1>6 DEF PauseResume, Counted
  <2> QED  BY <2>1, <2>2, <2>3
<1> QED  BY <1>1, <1>2, <1>3, <1>4, <1>5, <1>6, BeginTyped, ChromeTyped, HandleTyped DEF Other

\* Every step is type-correct.
LEMMA NextTyped ==
    ASSUME TypeOK, [Next]_vars
    PROVE  TypeOK'
<1>1. CASE UNCHANGED vars
  BY <1>1 DEF TypeOK, vars, chrome, session, history
<1> QED  BY <1>1, TurnTyped, OtherTyped DEF Next

\* The initial states are type-correct.
LEMMA InitTyped == Init => TypeOK
<1> SUFFICES ASSUME Init PROVE TypeOK
  OBVIOUS
<1>1. plan \in Seq(Operations) /\ faults \in Nat
  BY ProgramsAssumption DEF Init
<1>2. job \in [Drivers -> Job]
  BY IdleTyped DEF Init
<1>3. state \in States
  BY DEF Init, States
<1>4. Init => /\ open \subseteq Tabs /\ tab \in Tabs \cup {None} /\ seen \in Tabs \cup {None}
              /\ home = <<>> /\ held = <<>> /\ live = {} /\ typed \in Nat
              /\ inbox = <<>> /\ wire = <<>> /\ sid \in Nat \cup {None}
              /\ paused \in BOOLEAN /\ link \in BOOLEAN /\ aborted \in BOOLEAN /\ turning \in BOOLEAN
              /\ known = {} /\ stopped \in BOOLEAN /\ unfounded \in BOOLEAN
  BY DEF Init
<1> QED  BY <1>1, <1>2, <1>3, <1>4, TabAssumption DEF TypeOK

-----------------------------------------------------------------------------
(* What a turn does                                                         *)

\* The steps that follow the first one of d.
Follows(d, next) ==
    /\ job[d].todo # <<>>
    /\ LET s == Head(job[d].todo)
           rest == Tail(job[d].todo) IN
       \/ next = rest
       \/ s = "mayGo" /\ next = Navigate \o rest
       \/ s = "depart" /\ \E b \in BOOLEAN : next = Closing(b) \o rest
       \/ s = "pick" /\ next = <<"create">> \o rest
       \/ s = "next" /\ next = <<"depart">> \o job[d].todo
       \/ s = "pause" /\ next = job[d].todo
Same == UNCHANGED <<sid, tab>>
Lost == sid' = None /\ tab' = None

\* A turn sends a command: to the session there is, to leave that session, to
\* the browser, or to the session it has attached,
TurnSends(d, c, on, to, next) ==
    /\ SendThen(d, c, on, to, next)
    /\ c \in Steps \cup {"enable"} /\ on \in Nat \cup {None} /\ to \in Tabs \cup {None}
    /\ next \in Seq(Steps) /\ job[d].ok
    /\ c # "enable" => /\ Follows(d, next) /\ Head(job[d].todo) = c /\ job[d].last # "attach"
                       /\ known' = Believes(c) /\ c \notin {"drain", "cancel", "pause"}
    /\ \/ on = sid /\ sid # None /\ Same /\ c \notin {"enable", "attach", "leave", "depart"}
       \/ /\ on = sid /\ sid # None /\ Lost /\ c \in {"leave", "depart"}
          /\ c = "depart" => \E b \in BOOLEAN : next = Closing(b) \o Tail(job[d].todo)
       \/ /\ on = None /\ to = job[d].to /\ sid' = sid
          /\ c \in {"activate", "create", "close", "list", "attach", "window", "show"}
          /\ tab' = IF c = "attach" THEN to ELSE tab
       \/ /\ on = job[d].num /\ to = None /\ sid' = on /\ tab' = tab /\ c = "enable"
          /\ job[d].last = "attach" /\ job[d].at = "back" /\ FirstBack(d)
          /\ next = job[d].todo /\ known' = known
    /\ aborted' = aborted /\ link' = link

\* or goes on without one,
KnownAfter(d) ==
    \/ known' = known
    \/ job[d].todo # <<>> /\ known' = Believes(Head(job[d].todo)) /\ (sid = None \/ ~link)

TurnGoes(d, r) ==
    /\ inbox' = inbox /\ job' = [job EXCEPT ![d] = r]
    /\ r \in Job /\ r.at = "turn" /\ r.ok /\ r.last = "none"
    /\ r.num = job[d].num /\ r.kind = job[d].kind /\ r.saw = job[d].saw /\ r.calm = job[d].calm
    /\ Follows(d, r.todo)
    /\ job[d].ok /\ job[d].last # "attach"
    /\ Same \/ Lost
    /\ IF Head(job[d].todo) \in {"drain", "cancel"}
       THEN job["task"].at = "idle" /\ aborted' = (aborted /\ Head(job[d].todo) = "cancel")
       ELSE aborted' = aborted
    /\ KnownAfter(d) /\ known' = Believes(Head(job[d].todo))
    /\ link' = link \/ link' = TRUE

\* or ends the operation.
TurnEnds(d) ==
    /\ inbox' = inbox
    /\ \/ job' = [job EXCEPT ![d] = Idle]
       \/ /\ job[d].kind = "drag"
          /\ job' = [job EXCEPT ![d] = [Idle EXCEPT !.todo = ResetInput, !.at = "turn", !.kind = "dragged"]]
    /\ Same \/ Lost
    /\ job[d].last = "attach" \/ (job[d].last = "enable" /\ ~job[d].ok) => Lost
    /\ \/ ~job[d].ok \/ job[d].last = "attach" \/ job[d].todo = <<>>
       \/ Head(job[d].todo) \notin {"drain", "cancel"}
    /\ KnownAfter(d)
    /\ aborted' = aborted /\ link' = link

TurnDoes(d) == \/ \E c, on, to, next : link /\ TurnSends(d, c, on, to, next)
               \/ \E r : TurnGoes(d, r)
               \/ TurnEnds(d)

\* A driver that is at the step s.
LEMMA AtIs ==
    ASSUME TypeOK, NEW d \in Drivers, NEW s, At(d, s)
    PROVE  /\ job[d].at \in {"turn", "back"} /\ job[d].ok /\ job[d].last # "attach"
           /\ Tail(job[d].todo) \in Seq(Steps) /\ s \in Steps /\ job[d].todo # <<>>
           /\ Head(job[d].todo) = s
  BY TailTyped DEF At

\* A step that throws ends the operation.
LEMMA FailEnds ==
    ASSUME TypeOK, NEW d \in Drivers, Fail(d), KnownAfter(d), aborted' = aborted, link' = link,
           \/ ~job[d].ok \/ job[d].last = "attach" \/ job[d].todo = <<>>
           \/ Head(job[d].todo) \notin {"drain", "cancel"}
    PROVE  TurnEnds(d)
<1> DEFINE r == [Idle EXCEPT !.todo = ResetInput, !.at = "turn", !.kind = "dragged"]
<1>1. (job[d].kind = "drag" /\ job' = [job EXCEPT ![d] = r]) \/ job' = [job EXCEPT ![d] = Idle]
  BY DEF Fail
<1> HIDE DEF r
<1> QED  BY <1>1 DEF Fail, TurnEnds, Same, Lost, r

\* What a driver has kept when it goes on.
LEMMA ThenIs ==
    ASSUME TypeOK, NEW d \in Drivers, NEW next \in Seq(Steps), job[d].ok
    PROVE  Then(d, next) \in Job /\ Then(d, next).at = "turn" /\ Then(d, next).ok
           /\ Then(d, next).last = "none" /\ Then(d, next).num = job[d].num
           /\ Then(d, next).todo = next /\ Then(d, next).kind = job[d].kind
           /\ Then(d, next).saw = job[d].saw /\ Then(d, next).calm = job[d].calm
<1>1. job[d] \in Job
  BY JobTyped
<1>2. Then(d, next) \in Job
  BY ThenTyped
<1> QED  BY <1>1, <1>2 DEF Then, Job

\* A step without an await goes on.
LEMMA SkipGoes ==
    ASSUME TypeOK, NEW d \in Drivers, NEW s, At(d, s), Skip(d), inbox' = inbox, Same \/ Lost,
           IF s \in {"drain", "cancel"}
           THEN job["task"].at = "idle" /\ aborted' = (aborted /\ s = "cancel")
           ELSE aborted' = aborted,
           KnownAfter(d), known' = Believes(s), link' = link \/ link' = TRUE
    PROVE  \E r : TurnGoes(d, r)
<1>1. /\ Tail(job[d].todo) \in Seq(Steps) /\ job[d].ok /\ job[d].last # "attach"
      /\ job[d].todo # <<>> /\ Head(job[d].todo) = s
  BY AtIs
<1> DEFINE r == Then(d, Tail(job[d].todo))
<1>2. /\ r \in Job /\ r.at = "turn" /\ r.ok /\ r.last = "none" /\ r.num = job[d].num
      /\ r.kind = job[d].kind /\ r.saw = job[d].saw /\ r.calm = job[d].calm
      /\ r.todo = Tail(job[d].todo)
  BY <1>1, ThenIs, ZenonT(30)
<1>3. job' = [job EXCEPT ![d] = r]
  BY DEF Skip
<1> HIDE DEF r
<1>4. Follows(d, r.todo)
  BY <1>1, <1>2 DEF Follows
<1>5. TurnGoes(d, r)
  BY <1>1, <1>2, <1>3, <1>4 DEF TurnGoes
<1> QED  BY <1>5

\* The steps that inputState does not record.
LEMMA BelievesIs ==
    \A s : s \notin {"press", "release", "keyDown", "keyUp", "freeButton", "freeKey"} => Believes(s) = known
  BY DEF Believes

\* A turn sends a command, goes on or ends, and leaves Chrome, the messages and
\* the plan alone.
LEMMA TurnIs ==
    ASSUME TypeOK, NEW d \in Drivers, Turn(d)
    PROVE  /\ UNCHANGED <<open, home, live, held, typed, wire, plan, stopped, faults>>
           /\ job[d].at \in {"turn", "back"}
           /\ TurnDoes(d)
<1> USE DEF chrome, history, session
<1>0. sid \in Nat \cup {None} /\ job[d].to \in Tabs \cup {None} /\ None \in Tabs \cup {None}
      /\ job[d].num \in Nat /\ job[d].todo \in Seq(Steps)
  BY JobTyped DEF Job, TypeOK
<1> DEFINE G == /\ UNCHANGED <<open, home, live, held, typed, wire, plan, stopped, faults>>
                /\ job[d].at \in {"turn", "back"} /\ TurnDoes(d)
<1>1. ASSUME NEW s \in Inputs, Input(d, s)  PROVE G
  <2>0. s \notin {"enable", "attach", "leave", "depart", "drain", "cancel", "pause"} /\ s \in Steps
    BY DEF Inputs, Steps
  <2>1. CASE Fail(d) /\ (known' = known \/ (known' = Believes(s) /\ (sid = None \/ ~link)))
    <3>1. KnownAfter(d) /\ aborted' = aborted /\ link' = link
      BY <1>1, <2>1, AtIs DEF Input, KnownAfter
    <3>2. TurnEnds(d)
      BY <1>1, <2>0, <2>1, <3>1, FailEnds, AtIs DEF Input
    <3> QED  BY <1>1, <3>2, AtIs DEF Input, TurnDoes
  <2>2. CASE Send(d, s, sid, None) /\ Same /\ sid # None /\ link /\ known' = Believes(s)
    <3>1. TurnSends(d, s, sid, None, Tail(job[d].todo))
      BY <1>0, <1>1, <2>0, <2>2, AtIs DEF Input, Send, TurnSends, Follows
    <3> QED  BY <1>1, <2>2, <3>1, AtIs DEF Input, TurnDoes
  <2> QED  BY <1>1, <2>1, <2>2 DEF Input, Same
<1>2. ASSUME NEW s \in {"cancelDrag", "freeButton", "freeKey"}, Free(d, s)  PROVE G
  <2>1. CASE Send(d, s, sid, None) /\ sid # None /\ link
    <3>1. TurnSends(d, s, sid, None, Tail(job[d].todo))
      BY <1>0, <1>2, <2>1, AtIs DEF Free, Send, TurnSends, Follows, Same
    <3> QED  BY <1>2, <2>1, <3>1, AtIs DEF Free, TurnDoes
  <2>2. CASE Skip(d) /\ inbox' = inbox /\ (~Releases(s) \/ sid = None \/ ~link)
    <3>1. known' = known \/ (known' = Believes(s) /\ (sid = None \/ ~link))
      BY <1>2, <2>2 DEF Free, Releases, Believes
    <3>2. KnownAfter(d)
      BY <1>2, <3>1, AtIs DEF Free, KnownAfter
    <3>3. At(d, s) /\ aborted' = aborted /\ link' = link /\ Same /\ known' = Believes(s)
      BY <1>2 DEF Free, Same
    <3>4. \E r : TurnGoes(d, r)
      BY <2>2, <3>2, <3>3, SkipGoes
    <3> QED  BY <1>2, <3>4, AtIs DEF Free, TurnDoes
  <2> QED  BY <1>2, <2>1, <2>2 DEF Free
<1>3. ASSUME NEW s \in {"shot", "go", "history", "dialog"}, Query(d, s)  PROVE G
  <2>1. CASE Fail(d)
    <3>1. TurnEnds(d)
      BY <1>3, <2>1, FailEnds, AtIs DEF Query, KnownAfter
    <3> QED  BY <1>3, <3>1, AtIs DEF Query, TurnDoes
  <2>2. CASE Send(d, s, sid, None) /\ UNCHANGED <<sid, tab>> /\ sid # None /\ link
    <3>1. TurnSends(d, s, sid, None, Tail(job[d].todo))
      BY <1>0, <1>3, <2>2, AtIs, BelievesIs DEF Query, Send, TurnSends, Follows, Same
    <3> QED  BY <1>3, <2>2, <3>1, AtIs DEF Query, TurnDoes
  <2> QED  BY <1>3, <2>1, <2>2 DEF Query
<1>4. ASSUME NEW s \in {"store", "bump", "clear", "forget", "ready"}, Local(d, s)  PROVE G
  <2>1. /\ Same /\ inbox' = inbox /\ Skip(d) /\ At(d, s) /\ KnownAfter(d) /\ known' = known /\ aborted' = aborted
        /\ link' = link
    BY <1>4 DEF Local, Same, KnownAfter
  <2>2. \E r : TurnGoes(d, r)
    BY <2>1, SkipGoes, BelievesIs
  <2> QED  BY <1>4, <2>1, <2>2, AtIs DEF Local, TurnDoes
<1>5. ASSUME NEW s \in {"activate", "create", "close", "list", "attach"}, Ask(d, s)  PROVE G
  <2>1. CASE Fail(d)
    <3>1. TurnEnds(d)
      BY <1>5, <2>1, FailEnds, AtIs DEF Ask, KnownAfter
    <3> QED  BY <1>5, <3>1, AtIs DEF Ask, TurnDoes
  <2>2. CASE Send(d, s, None, job[d].to) /\ Entering(d, s) /\ sid' = sid /\ link
    <3>1. TurnSends(d, s, None, job[d].to, Tail(job[d].todo))
      BY <1>0, <1>5, <2>2, AtIs, BelievesIs DEF Ask, Send, TurnSends, Entering, Follows, Same
    <3> QED  BY <1>5, <2>2, <3>1, AtIs DEF Ask, TurnDoes
  <2> QED  BY <1>5, <2>1, <2>2 DEF Ask
<1>6. CASE MayGo(d)
  <2>1. PICK entry \in {Navigate, <<>>} : job' = [job EXCEPT ![d] = Then(d, entry \o Tail(job[d].todo))]
    BY <1>6 DEF MayGo
  <2>2. entry \in Seq(Steps)
    <3>1. Navigate \in Seq(Steps) /\ <<>> \in Seq(Steps)
      BY DEF Navigate, Steps
    <3> QED  BY <3>1
  <2>3. At(d, "mayGo") /\ Same /\ inbox' = inbox /\ aborted' = aborted /\ link' = link /\ KnownAfter(d) /\ known' = known
    BY <1>6 DEF MayGo, Same, KnownAfter
  <2>4. /\ Tail(job[d].todo) \in Seq(Steps) /\ job[d].ok /\ job[d].last # "attach"
        /\ job[d].todo # <<>> /\ Head(job[d].todo) = "mayGo"
    BY <2>3, AtIs
  <2> DEFINE next == entry \o Tail(job[d].todo)
  <2>5. next \in Seq(Steps)
    BY <2>2, <2>4
  <2>6. Follows(d, next)
    BY <2>4, ConcatEmptySeq DEF Follows
  <2>7. job' = [job EXCEPT ![d] = Then(d, next)]
    BY <2>1
  <2> HIDE DEF next
  <2>8. TurnGoes(d, Then(d, next))
    BY <2>3, <2>4, <2>5, <2>6, <2>7, ThenIs, BelievesIs DEF TurnGoes
  <2> QED  BY <1>6, <2>3, <2>8, AtIs DEF MayGo, TurnDoes
<1>7. CASE Window(d)
  <2>0. PICK s \in {"window", "show"} : /\ At(d, s)
                                         /\ IF link THEN Send(d, s, None, job[d].to)
                                            ELSE Skip(d) /\ UNCHANGED inbox
    BY <1>7 DEF Window
  <2>1. CASE link /\ Send(d, s, None, job[d].to)
    <3>1. TurnSends(d, s, None, job[d].to, Tail(job[d].todo))
      BY <1>0, <1>7, <2>0, <2>1, AtIs, BelievesIs DEF Window, Send, TurnSends, Follows, Same
    <3> QED  BY <1>7, <2>0, <2>1, <3>1, AtIs DEF Window, TurnDoes
  <2>2. CASE Skip(d) /\ inbox' = inbox
    <3>1. At(d, s) /\ Same /\ aborted' = aborted /\ link' = link /\ KnownAfter(d) /\ known' = known
      BY <1>7, <2>0 DEF Window, Same, KnownAfter
    <3>2. \E r : TurnGoes(d, r)
      BY <2>2, <3>1, SkipGoes, BelievesIs
    <3> QED  BY <1>7, <2>0, <3>2, AtIs DEF Window, TurnDoes
  <2> QED  BY <2>0, <2>1, <2>2
<1>8. CASE Aim(d)
  <2>1. CASE Fail(d)
    <3>1. TurnEnds(d)
      BY <1>8, <2>1, FailEnds, AtIs DEF Aim, KnownAfter
    <3> QED  BY <1>8, <3>1, AtIs DEF Aim, TurnDoes
  <2>2. CASE ~Fail(d)
    <3>1. PICK s \in {"aim", "aimAll"} : At(d, s)
      BY <1>8 DEF Aim
    <3>2. Tail(job[d].todo) \in Seq(Steps) /\ job[d].ok /\ job[d].last # "attach" /\ job[d].tabs \subseteq Tabs
      BY <3>1, AtIs, JobTyped DEF Job
    <3>3. PICK ts \in SUBSET job[d].tabs \ {{}} : \E t \in ts :
            job' = [job EXCEPT ![d] = [Then(d, Tail(job[d].todo)) EXCEPT !.tabs = {},
                                  !.to = IF At(d, "aim") THEN t ELSE @,
                                  !.rest = IF At(d, "aimAll") THEN ts ELSE @]]
      BY <1>8, <2>2 DEF Aim
    <3>4. PICK t \in ts :
            job' = [job EXCEPT ![d] = [Then(d, Tail(job[d].todo)) EXCEPT !.tabs = {},
                                  !.to = IF At(d, "aim") THEN t ELSE @,
                                  !.rest = IF At(d, "aimAll") THEN ts ELSE @]]
      BY <3>3
    <3> DEFINE r == [Then(d, Tail(job[d].todo)) EXCEPT !.tabs = {},
                                  !.to = IF At(d, "aim") THEN t ELSE @,
                                  !.rest = IF At(d, "aimAll") THEN ts ELSE @]
    <3> DEFINE a == Then(d, Tail(job[d].todo))
    <3>5. /\ a \in Job /\ a.at = "turn" /\ a.ok /\ a.last = "none" /\ a.num = job[d].num
          /\ a.kind = job[d].kind /\ a.saw = job[d].saw /\ a.calm = job[d].calm
          /\ a.todo = Tail(job[d].todo)
      BY <3>2, ThenIs, ZenonT(30)
    <3>6. r = [a EXCEPT !.tabs = {}, !.to = IF At(d, "aim") THEN t ELSE a.to,
                        !.rest = IF At(d, "aimAll") THEN ts ELSE a.rest]
      OBVIOUS
    <3> HIDE DEF a, r
    <3>7. /\ r \in Job /\ r.at = "turn" /\ r.ok /\ r.last = "none" /\ r.num = job[d].num
          /\ r.kind = job[d].kind /\ r.saw = job[d].saw /\ r.calm = job[d].calm
          /\ r.todo = Tail(job[d].todo)
      BY <3>2, <3>5, <3>6 DEF Job
    <3>8. Same /\ inbox' = inbox /\ aborted' = aborted /\ link' = link /\ KnownAfter(d) /\ known' = known
      BY <1>8, <2>2 DEF Aim, Same, KnownAfter
    <3>9. Follows(d, r.todo) /\ Head(job[d].todo) = s
      BY <3>1, <3>7, AtIs DEF Follows
    <3>10. TurnGoes(d, r)
      BY <3>2, <3>4, <3>7, <3>8, <3>9, BelievesIs DEF TurnGoes, r
    <3> QED  BY <1>8, <3>1, <3>10, AtIs DEF Aim, TurnDoes
  <2> QED  BY <2>1, <2>2
<1>9. CASE CloseNext(d)
  <2>1. At(d, "next") /\ Same /\ inbox' = inbox /\ aborted' = aborted /\ link' = link /\ KnownAfter(d) /\ known' = known
    BY <1>9 DEF CloseNext, Same, KnownAfter
  <2>2. CASE Skip(d)
    <3>1. \E r : TurnGoes(d, r)
      BY <2>1, <2>2, SkipGoes, BelievesIs
    <3> QED  BY <1>9, <2>1, <3>1, AtIs DEF CloseNext, TurnDoes
  <2>3. CASE ~Skip(d)
    <3>1. PICK t \in job[d].rest :
            job' = [job EXCEPT ![d] = [Then(d, <<"depart">> \o job[d].todo) EXCEPT
                               !.to = t, !.rest = @ \ {t}]]
      BY <1>9, <2>3 DEF CloseNext
    <3> DEFINE next == <<"depart">> \o job[d].todo
               a == Then(d, next)
               r == [Then(d, <<"depart">> \o job[d].todo) EXCEPT !.to = t, !.rest = @ \ {t}]
    <3>2. next \in Seq(Steps)
      BY <1>0 DEF Steps
    <3>3. t \in Tabs
      BY JobTyped DEF Job
    <3>4. job[d].ok /\ job[d].last # "attach" /\ job[d].todo # <<>> /\ Head(job[d].todo) = "next"
      BY <2>1, AtIs
    <3>5. /\ a \in Job /\ a.at = "turn" /\ a.ok /\ a.last = "none" /\ a.num = job[d].num
          /\ a.kind = job[d].kind /\ a.saw = job[d].saw /\ a.calm = job[d].calm
          /\ a.todo = next
      BY <3>2, <3>4, ThenIs, ZenonT(30)
    <3>6. r = [a EXCEPT !.to = t, !.rest = a.rest \ {t}]
      OBVIOUS
    <3>7. Follows(d, next)
      BY <3>4 DEF Follows
    <3> HIDE DEF next, a, r
    <3>8. /\ r \in Job /\ r.at = "turn" /\ r.ok /\ r.last = "none" /\ r.num = job[d].num
          /\ r.kind = job[d].kind /\ r.saw = job[d].saw /\ r.calm = job[d].calm
          /\ r.todo = next
      BY <3>3, <3>5, <3>6 DEF Job
    <3>9. TurnGoes(d, r)
      BY <2>1, <3>1, <3>4, <3>7, <3>8, BelievesIs DEF TurnGoes, r
    <3> QED  BY <1>9, <2>1, <3>9, AtIs DEF CloseNext, TurnDoes
  <2> QED  BY <2>2, <2>3
<1>10. CASE Leave(d)
  <2>0. /\ UNCHANGED <<open, home, live, held, typed, wire, plan, stopped, faults>>
        /\ At(d, "leave") /\ aborted' = aborted /\ link' = link /\ known' = known
    BY <1>10 DEF Leave
  <2>1. CASE Fail(d)
    <3>1. TurnEnds(d)
      BY <2>0, <2>1, FailEnds, AtIs DEF KnownAfter
    <3> QED  BY <2>0, <3>1, AtIs DEF TurnDoes
  <2>2. CASE link /\ Send(d, "leave", sid, None) /\ sid # None /\ Lost
    <3>1. TurnSends(d, "leave", sid, None, Tail(job[d].todo))
      BY <1>0, <2>0, <2>2, AtIs, BelievesIs DEF Send, TurnSends, Follows
    <3> QED  BY <2>0, <2>2, <3>1, AtIs DEF TurnDoes
  <2>3. CASE Skip(d) /\ inbox' = inbox /\ (Same \/ Lost)
    <3>1. \E r : TurnGoes(d, r)
      BY <2>0, <2>3, SkipGoes, BelievesIs DEF KnownAfter
    <3> QED  BY <2>0, <3>1, AtIs DEF TurnDoes
  <2> QED  BY <1>10, <2>1, <2>2, <2>3 DEF Leave, Same, Lost
<1>11. CASE Depart(d)
  <2> DEFINE next == Closing(tab = job[d].to) \o Tail(job[d].todo)
  <2>0. /\ UNCHANGED <<open, home, live, held, typed, wire, plan, stopped, faults>>
        /\ At(d, "depart") /\ aborted' = aborted /\ link' = link /\ known' = known
    BY <1>11 DEF Depart
  <2>1. /\ Tail(job[d].todo) \in Seq(Steps) /\ job[d].ok /\ job[d].last # "attach"
        /\ job[d].todo # <<>> /\ Head(job[d].todo) = "depart"
    BY <2>0, AtIs
  <2>2. Closing(TRUE) \in Seq(Steps) /\ Closing(FALSE) \in Seq(Steps)
    BY DEF Closing, SwitchTab, Attach, Steps
  <2>3. next \in Seq(Steps)
    <3>1. Closing(tab = job[d].to) \in Seq(Steps)
      BY <2>2
    <3> QED  BY <2>1, <3>1
  <2>4. Follows(d, next) /\ \E b \in BOOLEAN : next = Closing(b) \o Tail(job[d].todo)
    <3>1. \E b \in BOOLEAN : b = (tab = job[d].to)
      OBVIOUS
    <3>2. \E b \in BOOLEAN : next = Closing(b) \o Tail(job[d].todo)
      BY <3>1
    <3> HIDE DEF next
    <3> QED  BY <2>1, <3>2 DEF Follows
  <2> HIDE DEF next
  <2>5. CASE SendThen(d, "depart", sid, None, next) /\ sid # None /\ link /\ Lost
    <3>1. TurnSends(d, "depart", sid, None, next)
      BY <1>0, <2>0, <2>1, <2>3, <2>4, <2>5, AtIs, BelievesIs DEF TurnSends
    <3> QED  BY <2>0, <2>5, <3>1, AtIs DEF TurnDoes
  <2>6. CASE job' = [job EXCEPT ![d] = Then(d, next)] /\ inbox' = inbox /\ (Same \/ Lost)
    <3> DEFINE a == Then(d, next)
    <3>0. /\ a \in Job /\ a.at = "turn" /\ a.ok /\ a.last = "none" /\ a.num = job[d].num
          /\ a.kind = job[d].kind /\ a.saw = job[d].saw /\ a.calm = job[d].calm
          /\ a.todo = next
      BY <2>0, <2>1, <2>3, AtIs, ThenIs
    <3> HIDE DEF a
    <3>00. job' = [job EXCEPT ![d] = a]
      BY <2>6 DEF a
    <3>1. TurnGoes(d, a)
      BY <2>0, <2>1, <2>3, <2>4, <2>6, <3>0, <3>00, AtIs, BelievesIs DEF TurnGoes, KnownAfter
    <3> QED  BY <2>0, <3>1, AtIs DEF TurnDoes
  <2> QED  BY <1>11, <2>5, <2>6 DEF Depart, next, Same, Lost
<1>12. CASE Enable(d)
  <2>0. /\ UNCHANGED <<open, home, live, held, typed, wire, plan, stopped, faults>>
        /\ job[d].at = "back" /\ job[d].ok /\ job[d].last = "attach" /\ FirstBack(d)
        /\ aborted' = aborted /\ link' = link /\ known' = known
    BY <1>12 DEF Enable
  <2>1. CASE link
    <3>1. TurnSends(d, "enable", job[d].num, None, job[d].todo)
      BY <1>0, <1>12, <2>0, <2>1 DEF Enable, TurnSends
    <3> QED  BY <2>0, <2>1, <3>1 DEF TurnDoes
  <2>2. CASE ~link
    <3>1. TurnEnds(d)
      BY <1>12, <2>0, <2>2, FailEnds DEF Enable, KnownAfter
    <3> QED  BY <2>0, <3>1 DEF TurnDoes
  <2> QED  BY <2>1, <2>2
<1>13. CASE Pick(d)
  <2>0. /\ UNCHANGED <<open, home, live, held, typed, wire, plan, stopped, faults>>
        /\ Same /\ inbox' = inbox /\ At(d, "pick")
        /\ aborted' = aborted /\ link' = link /\ known' = known
    BY <1>13 DEF Pick, Same
  <2>1. /\ Tail(job[d].todo) \in Seq(Steps) /\ job[d].ok /\ job[d].last # "attach"
        /\ job[d].tabs \subseteq Tabs /\ job[d].todo # <<>> /\ Head(job[d].todo) = "pick"
    BY <2>0, AtIs, JobTyped DEF Job
  <2> DEFINE tl == Tail(job[d].todo)
             more == <<"create">> \o tl
             a == Then(d, tl)
             b == Then(d, more)
  <2>2. more \in Seq(Steps) /\ tl \in Seq(Steps)
    BY <2>1 DEF Steps
  <2>3. \/ \E t \in job[d].tabs : job' = [job EXCEPT ![d] = [a EXCEPT !.to = t, !.tabs = {}]]
        \/ \E t \in job[d].tabs \ {job[d].to} :
              job' = [job EXCEPT ![d] = [a EXCEPT !.to = t, !.tabs = {}]]
        \/ job' = [job EXCEPT ![d] = [b EXCEPT !.tabs = {}]]
    BY <1>13 DEF Pick
  <2>4. Follows(d, tl) /\ Follows(d, more)
    BY <2>1 DEF Follows
  <2> HIDE DEF tl, more
  <2>5. /\ a \in Job /\ a.at = "turn" /\ a.ok /\ a.last = "none" /\ a.num = job[d].num
        /\ a.kind = job[d].kind /\ a.saw = job[d].saw /\ a.calm = job[d].calm
        /\ a.todo = tl
    BY <2>1, <2>2, ThenIs
  <2>6. /\ b \in Job /\ b.at = "turn" /\ b.ok /\ b.last = "none" /\ b.num = job[d].num
        /\ b.kind = job[d].kind /\ b.saw = job[d].saw /\ b.calm = job[d].calm
        /\ b.todo = more
    BY <2>1, <2>2, ThenIs
  <2> HIDE DEF a, b
  <2>7. ASSUME NEW t \in Tabs, job' = [job EXCEPT ![d] = [a EXCEPT !.to = t, !.tabs = {}]]
        PROVE  \E r : TurnGoes(d, r)
    <3> DEFINE r == [a EXCEPT !.to = t, !.tabs = {}]
    <3>1. /\ r \in Job /\ r.at = "turn" /\ r.ok /\ r.last = "none" /\ r.num = job[d].num
          /\ r.kind = job[d].kind /\ r.saw = job[d].saw /\ r.calm = job[d].calm
          /\ r.todo = tl
      BY <2>5 DEF Job
    <3> HIDE DEF r
    <3>2. TurnGoes(d, r)
      BY <2>0, <2>1, <2>4, <2>7, <3>1, BelievesIs DEF TurnGoes, KnownAfter, r
    <3> QED  BY <3>2
  <2>8. ASSUME job' = [job EXCEPT ![d] = [b EXCEPT !.tabs = {}]]
        PROVE  \E r : TurnGoes(d, r)
    <3> DEFINE r == [b EXCEPT !.tabs = {}]
    <3>1. /\ r \in Job /\ r.at = "turn" /\ r.ok /\ r.last = "none" /\ r.num = job[d].num
          /\ r.kind = job[d].kind /\ r.saw = job[d].saw /\ r.calm = job[d].calm
          /\ r.todo = more
      BY <2>6 DEF Job
    <3> HIDE DEF r
    <3>2. TurnGoes(d, r)
      BY <2>0, <2>1, <2>4, <2>8, <3>1, BelievesIs DEF TurnGoes, KnownAfter, r
    <3> QED  BY <3>2
  <2>9. \E r : TurnGoes(d, r)
    BY <2>1, <2>3, <2>7, <2>8
  <2> QED  BY <2>0, <2>9, AtIs DEF TurnDoes
<1>14. CASE Drained(d)
  <2>1. PICK s \in {"drain", "cancel"} : At(d, s) /\ aborted' = (aborted /\ s = "cancel")
    <3>1. aborted' = (aborted /\ At(d, "cancel"))
      BY <1>14 DEF Drained
    <3>2. CASE At(d, "cancel")
      BY <3>1, <3>2
    <3>3. CASE At(d, "drain") /\ ~At(d, "cancel")
      BY <3>1, <3>3
    <3> QED  BY <1>14, <3>2, <3>3 DEF Drained
  <2>2. /\ Skip(d) /\ Same /\ inbox' = inbox /\ link' = link /\ KnownAfter(d) /\ known' = known
        /\ job["task"].at = "idle"
    BY <1>14 DEF Drained, Same, KnownAfter
  <2>3. \E r : TurnGoes(d, r)
    BY <2>1, <2>2, SkipGoes, BelievesIs
  <2> QED  BY <1>14, <2>1, <2>3, AtIs DEF Drained, TurnDoes
<1>15. CASE Open(d)
  <2>1. /\ At(d, "open") /\ Skip(d) /\ Same /\ inbox' = inbox /\ aborted' = aborted /\ KnownAfter(d) /\ known' = known
        /\ link' = TRUE
    BY <1>15 DEF Open, Same, KnownAfter
  <2>2. \E r : TurnGoes(d, r)
    BY <2>1, SkipGoes, BelievesIs
  <2> QED  BY <1>15, <2>1, <2>2, AtIs DEF Open, TurnDoes
<1>16. CASE Over(d)
  <2>0. /\ UNCHANGED <<open, home, live, held, typed, wire, plan, stopped, faults>>
        /\ job[d].at \in {"turn", "back"} /\ aborted' = aborted /\ link' = link /\ known' = known
    BY <1>16 DEF Over
  <2>1. CASE ~job[d].ok
    <3>1. TurnEnds(d)
      BY <1>16, <2>0, <2>1, FailEnds DEF Over, KnownAfter
    <3> QED  BY <2>0, <3>1 DEF TurnDoes
  <2>2. CASE job[d].ok
    <3>1. /\ job[d].last # "attach" /\ job' = [job EXCEPT ![d] = Idle] /\ inbox' = inbox
          /\ Same /\ job[d].todo = <<>>
      BY <1>16, <2>2 DEF Over, Same
    <3>2. TurnEnds(d)
      BY <2>0, <2>2, <3>1 DEF TurnEnds, KnownAfter
    <3> QED  BY <2>0, <3>2 DEF TurnDoes
  <2> QED  BY <2>1, <2>2
<1>17. CASE Sleep(d)
  <2>1. At(d, "pause") /\ Same /\ inbox' = inbox /\ aborted' = aborted /\ link' = link /\ known' = known
        /\ UNCHANGED <<open, home, live, held, typed, wire, plan, stopped, faults>>
    BY <1>17 DEF Sleep, Same
  <2>2. /\ job[d].at \in {"turn", "back"} /\ job[d].ok /\ job[d].last # "attach"
        /\ job[d].todo # <<>> /\ Head(job[d].todo) = "pause"
    BY <2>1, AtIs
  <2> DEFINE a == Then(d, job[d].todo)
  <2>3. /\ a \in Job /\ a.at = "turn" /\ a.ok /\ a.last = "none" /\ a.num = job[d].num
        /\ a.kind = job[d].kind /\ a.saw = job[d].saw /\ a.calm = job[d].calm
        /\ a.todo = job[d].todo
    BY <1>0, <2>2, ThenIs, ZenonT(30)
  <2>4. job' = [job EXCEPT ![d] = a]
    BY <1>17 DEF Sleep
  <2> HIDE DEF a
  <2>5. Follows(d, a.todo)
    BY <2>2, <2>3 DEF Follows
  <2>6. TurnGoes(d, a)
    BY <2>1, <2>2, <2>3, <2>4, <2>5, BelievesIs DEF TurnGoes, KnownAfter
  <2> QED  BY <2>1, <2>2, <2>6 DEF TurnDoes
<1>18. CASE Wake(d)
  <2>1. At(d, "pause") /\ Skip(d) /\ Same /\ inbox' = inbox /\ aborted' = aborted /\ link' = link
        /\ KnownAfter(d) /\ known' = known
    BY <1>18 DEF Wake, Same, KnownAfter
  <2>2. \E r : TurnGoes(d, r)
    BY <2>1, SkipGoes, BelievesIs
  <2> QED  BY <1>18, <2>1, <2>2, AtIs DEF Wake, TurnDoes
<1> QED  BY <1>1, <1>2, <1>3, <1>4, <1>5, <1>6, <1>7, <1>8, <1>9, <1>10, <1>11, <1>12, <1>13,
            <1>14, <1>15, <1>16, <1>17, <1>18 DEF Turn, Shot, OnPage

-----------------------------------------------------------------------------
(* The scripts of the operations                                            *)

\* The steps that free what inputState records.
FreeSteps == {"freeButton", "freeKey"}

\* What occurs in a concatenation occurs in one of its parts.
LEMMA WithinParts ==
    ASSUME NEW p \in Seq(Steps), NEW q \in Seq(Steps), NEW S
    PROVE  /\ Within(p \o q, S) <=> Within(p, S) /\ Within(q, S)
           /\ \A s : In(s, p \o q) <=> In(s, p) \/ In(s, q)
<1> DEFINE r == p \o q
<1>1. /\ r \in Seq(Steps) /\ Len(r) = Len(p) + Len(q) /\ DOMAIN r = 1..Len(r)
      /\ DOMAIN p = 1..Len(p) /\ DOMAIN q = 1..Len(q) /\ Len(p) \in Nat /\ Len(q) \in Nat
      /\ \A i \in 1..Len(p) : r[i] = p[i]
      /\ \A i \in 1..Len(q) : r[Len(p) + i] = q[i]
  BY ConcatProperties
<1> HIDE DEF r
<1>2. \A i \in DOMAIN r : (i \in DOMAIN p /\ r[i] = p[i]) \/ (i - Len(p) \in DOMAIN q /\ r[i] = q[i - Len(p)])
  <2> SUFFICES ASSUME NEW i \in 1..Len(r), ~(i <= Len(p))
               PROVE  i - Len(p) \in 1..Len(q) /\ r[i] = q[i - Len(p)]
    BY <1>1
  <2>1. i - Len(p) \in 1..Len(q) /\ i = Len(p) + (i - Len(p))
    BY <1>1
  <2> QED  BY <1>1, <2>1
<1>3. \A i \in DOMAIN p : i \in DOMAIN r /\ r[i] = p[i]
  BY <1>1
<1>4. \A i \in DOMAIN q : Len(p) + i \in DOMAIN r /\ r[Len(p) + i] = q[i]
  BY <1>1
<1>5. Within(r, S) <=> Within(p, S) /\ Within(q, S)
  BY <1>2, <1>3, <1>4 DEF Within
<1>6. \A s : In(s, r) <=> In(s, p) \/ In(s, q)
  BY <1>2, <1>3, <1>4 DEF In
<1> QED  BY <1>5, <1>6 DEF r

\* What holds of a sequence of steps holds of those that remain, and once one of
\* them is no reset none is left.
LEMMA TailParts ==
    ASSUME NEW q \in Seq(Steps), q # <<>>
    PROVE  /\ Tail(q) \in Seq(Steps) /\ Head(q) \in Steps
           /\ \A S : Within(q, S) => Within(Tail(q), S) /\ Head(q) \in S
           /\ \A s : In(s, q) => s = Head(q) \/ In(s, Tail(q))
           /\ ResetsFirst(q) => ResetsFirst(Tail(q))
           /\ ResetsFirst(q) /\ Head(q) \notin ResetSteps => Within(Tail(q), Steps \ FreeSteps)
<1>1. /\ Tail(q) \in Seq(Steps) /\ Head(q) = q[1] /\ 1 \in DOMAIN q /\ DOMAIN q = 1..Len(q)
      /\ Len(q) \in Nat /\ DOMAIN Tail(q) = 1..(Len(q) - 1)
      /\ \A i \in 1..(Len(q) - 1) : Tail(q)[i] = q[i + 1]
  OBVIOUS
<1>2. \A i \in DOMAIN Tail(q) : i + 1 \in DOMAIN q /\ Tail(q)[i] = q[i + 1]
  BY <1>1
<1>3. \A S : Within(q, S) => Within(Tail(q), S) /\ Head(q) \in S
  BY <1>1, <1>2 DEF Within
<1>4. ASSUME NEW s, In(s, q)  PROVE s = Head(q) \/ In(s, Tail(q))
  <2>1. PICK i \in DOMAIN q : q[i] = s
    BY <1>4 DEF In
  <2>2. CASE i = 1
    BY <1>1, <2>1, <2>2
  <2>3. CASE i # 1
    <3>1. i - 1 \in 1..(Len(q) - 1) /\ i = (i - 1) + 1
      BY <1>1, <2>1, <2>3
    <3>2. Tail(q)[i - 1] = s
      BY <1>1, <2>1, <3>1
    <3> QED  BY <1>1, <3>1, <3>2 DEF In
  <2> QED  BY <2>2, <2>3
<1>5. ASSUME ResetsFirst(q)  PROVE ResetsFirst(Tail(q))
  <2> SUFFICES ASSUME NEW i \in DOMAIN Tail(q), NEW j \in DOMAIN Tail(q), j <= i,
                      Tail(q)[i] \in {"freeButton", "freeKey"}
               PROVE  Tail(q)[j] \in ResetSteps
    BY DEF ResetsFirst
  <2>1. /\ i + 1 \in DOMAIN q /\ j + 1 \in DOMAIN q /\ Tail(q)[i] = q[i + 1] /\ Tail(q)[j] = q[j + 1]
        /\ j + 1 <= i + 1
    BY <1>1, <1>2
  <2> QED  BY <1>5, <2>1 DEF ResetsFirst
<1>6. ASSUME ResetsFirst(q), Head(q) \notin ResetSteps  PROVE Within(Tail(q), Steps \ FreeSteps)
  <2> SUFFICES ASSUME NEW i \in DOMAIN Tail(q)
               PROVE  Tail(q)[i] \in Steps \ FreeSteps
    BY DEF Within
  <2>1. i + 1 \in DOMAIN q /\ Tail(q)[i] = q[i + 1] /\ q[i + 1] \in Steps /\ 1 <= i + 1
    BY <1>1, <1>2
  <2> QED  BY <1>1, <1>6, <2>1 DEF ResetsFirst, FreeSteps
<1> QED  BY <1>1, <1>3, <1>4, <1>5, <1>6

\* A sequence that frees nothing resets first, trivially.
LEMMA NoFreeSteps ==
    ASSUME NEW q \in Seq(Steps), Within(q, Steps \ FreeSteps)
    PROVE  ResetsFirst(q)
  BY DEF Within, ResetsFirst, FreeSteps

\* Resets, and then steps that free nothing.
LEMMA ResetsThenOthers ==
    ASSUME NEW p \in Seq(Steps), NEW q \in Seq(Steps), Within(p, ResetSteps),
           Within(q, Steps \ FreeSteps)
    PROVE  ResetsFirst(p \o q)
<1> DEFINE r == p \o q
<1>1. /\ r \in Seq(Steps) /\ Len(r) = Len(p) + Len(q) /\ DOMAIN r = 1..Len(r)
      /\ DOMAIN p = 1..Len(p) /\ DOMAIN q = 1..Len(q) /\ Len(p) \in Nat /\ Len(q) \in Nat
      /\ \A i \in 1..Len(p) : r[i] = p[i]
      /\ \A i \in 1..Len(q) : r[Len(p) + i] = q[i]
  BY ConcatProperties
<1> HIDE DEF r
<1> SUFFICES ASSUME NEW i \in 1..Len(r), NEW j \in 1..Len(r), j <= i, r[i] \in FreeSteps
             PROVE  r[j] \in ResetSteps
  BY <1>1 DEF ResetsFirst, FreeSteps, r
<1>2. CASE i <= Len(p)
  <2>1. j \in 1..Len(p) /\ r[j] = p[j]
    BY <1>1, <1>2
  <2> QED  BY <1>1, <2>1 DEF Within
<1>3. CASE ~(i <= Len(p))
  <2>1. i - Len(p) \in 1..Len(q) /\ i = Len(p) + (i - Len(p))
    BY <1>1, <1>3
  <2>2. r[i] = q[i - Len(p)]
    BY <1>1, <2>1
  <2> QED  BY <1>1, <2>1, <2>2 DEF Within
<1> QED  BY <1>2, <1>3

\* What is chained stays so when it is put together,
LEMMA ChainedParts ==
    ASSUME NEW p \in Seq(Steps), NEW q \in Seq(Steps), Chained(p), Chained(q)
    PROVE  Chained(p \o q)
<1> DEFINE r == p \o q
<1>1. /\ r \in Seq(Steps) /\ Len(r) = Len(p) + Len(q) /\ DOMAIN r = 1..Len(r)
      /\ DOMAIN p = 1..Len(p) /\ DOMAIN q = 1..Len(q) /\ Len(p) \in Nat /\ Len(q) \in Nat
      /\ \A i \in 1..Len(p) : r[i] = p[i]
      /\ \A i \in 1..Len(q) : r[Len(p) + i] = q[i]
  BY ConcatProperties
<1> HIDE DEF r
<1> SUFFICES ASSUME NEW i \in 1..Len(r), r[i] = "leave"
             PROVE  i + 1 \in 1..Len(r) /\ r[i + 1] = "attach"
  BY <1>1 DEF Chained, r
<1>2. CASE i <= Len(p)
  <2>1. i \in 1..Len(p) /\ p[i] = "leave"
    BY <1>1, <1>2
  <2>2. i + 1 \in 1..Len(p) /\ p[i + 1] = "attach"
    BY <1>1, <2>1 DEF Chained
  <2> QED  BY <1>1, <2>2
<1>3. CASE ~(i <= Len(p))
  <2> DEFINE j == i - Len(p)
  <2>1. j \in 1..Len(q) /\ i = Len(p) + j
    BY <1>1, <1>3
  <2> HIDE DEF j
  <2>2. q[j] = "leave"
    BY <1>1, <2>1
  <2>3. j + 1 \in 1..Len(q) /\ q[j + 1] = "attach"
    BY <1>1, <2>1, <2>2 DEF Chained
  <2>4. Len(p) + (j + 1) = i + 1
    BY <1>1, <2>1
  <2>5. r[Len(p) + (j + 1)] = q[j + 1]
    BY <1>1, <2>3
  <2> QED  BY <1>1, <2>1, <2>3, <2>4, <2>5
<1> QED  BY <1>2, <1>3

\* and when its first step is taken.
LEMMA ChainedTail ==
    ASSUME NEW q \in Seq(Steps), q # <<>>
    PROVE  /\ Chained(q) => Chained(Tail(q))
           /\ Chained(q) /\ Head(q) = "leave" => Tail(q) # <<>> /\ Head(Tail(q)) = "attach"
           /\ LeavesLast(q) => LeavesLast(Tail(q))
           /\ LeavesLast(q) /\ Head(q) = "leave" => Tail(q) = <<>>
           /\ \A s : In(s, Tail(q)) => In(s, q)
<1>1. /\ Tail(q) \in Seq(Steps) /\ Head(q) = q[1] /\ 1 \in DOMAIN q /\ DOMAIN q = 1..Len(q)
      /\ Len(q) \in Nat /\ DOMAIN Tail(q) = 1..(Len(q) - 1) /\ Len(Tail(q)) = Len(q) - 1
      /\ \A i \in 1..(Len(q) - 1) : Tail(q)[i] = q[i + 1]
  OBVIOUS
<1>2. \A i \in DOMAIN Tail(q) : i + 1 \in DOMAIN q /\ Tail(q)[i] = q[i + 1]
  BY <1>1
<1>3. ASSUME Chained(q)  PROVE Chained(Tail(q))
  <2> SUFFICES ASSUME NEW i \in 1..(Len(q) - 1), Tail(q)[i] = "leave"
               PROVE  i + 1 \in 1..(Len(q) - 1) /\ Tail(q)[i + 1] = "attach"
    BY <1>1 DEF Chained
  <2>0. i + 1 \in DOMAIN q /\ q[i + 1] = "leave"
    BY <1>1
  <2>1. (i + 1) + 1 \in DOMAIN q /\ q[(i + 1) + 1] = "attach"
    BY <1>3, <2>0 DEF Chained
  <2> QED  BY <1>1, <2>1
<1>4. ASSUME Chained(q), Head(q) = "leave"  PROVE Tail(q) # <<>> /\ Head(Tail(q)) = "attach"
  <2>1. 1 + 1 \in DOMAIN q /\ q[1 + 1] = "attach"
    BY <1>1, <1>4 DEF Chained
  <2>2. 1 \in 1..(Len(q) - 1)
    BY <1>1, <2>1
  <2> QED  BY <1>1, <2>1, <2>2
<1>5. ASSUME LeavesLast(q)  PROVE LeavesLast(Tail(q))
  BY <1>1, <1>5 DEF LeavesLast
<1>6. ASSUME LeavesLast(q), Head(q) = "leave"  PROVE Tail(q) = <<>>
  <2>1. Len(q) = 1
    BY <1>1, <1>6 DEF LeavesLast
  <2> QED  BY <1>1, <2>1
<1>7. \A s : In(s, Tail(q)) => In(s, q)
  BY <1>2 DEF In
<1> QED  BY <1>3, <1>4, <1>5, <1>6, <1>7

\* Steps that neither leave a session nor wait for the queue.
PlainSteps == Steps \ {"leave", "drain", "depart", "next"}

\* They may stand anywhere.
LEMMA PlainIs ==
    ASSUME NEW q \in Seq(Steps), Within(q, PlainSteps)
    PROVE  Chained(q) /\ ~In("drain", q) /\ ~In("depart", q) /\ ~In("next", q)
  BY DEF Within, PlainSteps, Chained, In

\* The sequences that the scripts are built from.
LEMMA Literals ==
    /\ Within(ResetInput, ResetSteps) /\ ResetInput \in Seq(Steps)
    /\ In("freeButton", ResetInput) /\ In("freeKey", ResetInput)
    /\ Within(SwitchTab, LeavingSteps \ FreeSteps) /\ SwitchTab \in Seq(Steps)
    /\ Within(<<"bump">>, (LeavingSteps \cap MouseSteps) \ FreeSteps) /\ <<"bump">> \in Seq(Steps)
    /\ Within(<<"create">>, (RecSteps \cap LeavingSteps) \ FreeSteps) /\ <<"create">> \in Seq(Steps)
    /\ Within(<<"forget", "depart">>, LeavingSteps \ FreeSteps) /\ <<"forget", "depart">> \in Seq(Steps)
    /\ \A b \in BOOLEAN : Within(Closing(b), LeavingSteps \ FreeSteps) /\ Closing(b) \in Seq(Steps)
    /\ Within(Attach, RecSteps) /\ Attach \in Seq(Steps)
    /\ Within(<<"cancel">>, ResetSteps) /\ <<"cancel">> \in Seq(Steps)
    /\ Within(<<"clear", "leave">>, (LeavingSteps \cap RecSteps) \ FreeSteps) /\ <<"clear", "leave">> \in Seq(Steps)
    /\ ResetSteps \subseteq LeavingSteps /\ ResetSteps \subseteq RecSteps /\ LeavingSteps \subseteq Steps
    /\ RecSteps \subseteq Steps
<1>1. /\ ResetSteps \subseteq LeavingSteps /\ ResetSteps \subseteq RecSteps /\ LeavingSteps \subseteq Steps
      /\ RecSteps \subseteq Steps
  BY DEF ResetSteps, LeavingSteps, RecSteps, Steps
<1> USE DEF Within, ResetSteps, LeavingSteps, RecSteps, FreeSteps, MouseSteps
<1>2. Within(ResetInput, ResetSteps) /\ Within(<<"cancel">>, ResetSteps)
  BY DEF ResetInput
<1>3. In("freeButton", ResetInput) /\ In("freeKey", ResetInput)
  BY DEF In, ResetInput
<1>4. /\ Within(<<"bump">>, (LeavingSteps \cap MouseSteps) \ FreeSteps)
      /\ Within(<<"create">>, (RecSteps \cap LeavingSteps) \ FreeSteps)
      /\ Within(<<"forget", "depart">>, LeavingSteps \ FreeSteps)
      /\ Within(<<"clear", "leave">>, (LeavingSteps \cap RecSteps) \ FreeSteps)
      /\ Within(Attach, RecSteps)
  BY DEF Attach
<1>5. /\ Within(Attach, LeavingSteps \ FreeSteps) /\ Within(<<"activate">>, LeavingSteps \ FreeSteps)
      /\ Within(<<"close">>, LeavingSteps \ FreeSteps)
      /\ Within(<<"list", "pick">>, LeavingSteps \ FreeSteps)
      /\ Within(<<>>, LeavingSteps \ FreeSteps)
  BY DEF Attach
<1>6. /\ ResetInput \in Seq(Steps) /\ <<"bump">> \in Seq(Steps) /\ <<"activate">> \in Seq(Steps)
      /\ <<"create">> \in Seq(Steps) /\ <<"forget", "depart">> \in Seq(Steps) /\ Attach \in Seq(Steps)
      /\ <<"cancel">> \in Seq(Steps) /\ <<"clear", "leave">> \in Seq(Steps) /\ <<"close">> \in Seq(Steps)
      /\ <<"list", "pick">> \in Seq(Steps) /\ <<>> \in Seq(Steps)
  BY DEF ResetInput, Attach, Steps
<1> HIDE DEF Within, ResetSteps, LeavingSteps, RecSteps, FreeSteps, MouseSteps
<1>7. ASSUME NEW p \in Seq(Steps), NEW q \in Seq(Steps), Within(p, LeavingSteps \ FreeSteps),
             Within(q, LeavingSteps \ FreeSteps)
      PROVE  p \o q \in Seq(Steps) /\ Within(p \o q, LeavingSteps \ FreeSteps)
  <2>1. p \o q \in Seq(Steps)
    OBVIOUS
  <2>2. Within(p \o q, LeavingSteps \ FreeSteps)
    BY <1>7, WithinParts
  <2> QED  BY <2>1, <2>2
<1>8. SwitchTab \in Seq(Steps) /\ Within(SwitchTab, LeavingSteps \ FreeSteps)
  BY <1>5, <1>6, <1>7 DEF SwitchTab
<1>9. <<"list", "pick">> \o SwitchTab \in Seq(Steps) /\ Within(<<"list", "pick">> \o SwitchTab, LeavingSteps \ FreeSteps)
  BY <1>5, <1>6, <1>7, <1>8
<1>10. /\ Closing(TRUE) = <<"close">> \o (<<"list", "pick">> \o SwitchTab)
       /\ Closing(FALSE) = <<"close">> \o <<>>
  BY DEF Closing
<1>11. \A b \in BOOLEAN : Within(Closing(b), LeavingSteps \ FreeSteps) /\ Closing(b) \in Seq(Steps)
  BY <1>5, <1>6, <1>7, <1>9, <1>10
<1> QED  BY <1>1, <1>2, <1>3, <1>4, <1>6, <1>8, <1>11

\* The steps of a mouse action are mouse steps.
LEMMA MouseScripts ==
    ASSUME NEW k \in MouseKinds
    PROVE  Within(Script(k), MouseSteps)
<1> DEFINE OK(q) == q \in Seq(Steps) /\ Within(q, MouseSteps)
<1>1. ASSUME NEW p, NEW q, OK(p), OK(q)  PROVE OK(p \o q)
  BY <1>1, WithinParts
<1>2. /\ OK(Move) /\ OK(<<"pause", "press", "pause", "release">>)
      /\ OK(<<"press2", "release2", "pause", "press3", "release2">>) /\ OK(<<"wheel">>)
      /\ OK(<<"pause", "press", "pause", "drag", "pause", "release">>) /\ OK(<<"press">>) /\ OK(<<"release">>)
      /\ OK(<<"bump">>)
  BY DEF Move, Steps, Inputs, Within, MouseSteps
<1> HIDE DEF OK
<1>3. OK(Click) /\ OK(DoubleClick) /\ OK(Scroll) /\ OK(Drag)
  BY <1>1, <1>2 DEF Click, DoubleClick, Scroll, Drag
<1>4. OK(Click \o <<"bump">>) /\ OK(DoubleClick \o <<"bump">>) /\ OK(Scroll \o <<"bump">>) /\ OK(Drag \o <<"bump">>)
  BY <1>1, <1>2, <1>3
<1>5. /\ Script("move") = Move /\ Script("click") = Click \o <<"bump">>
      /\ Script("double_click") = DoubleClick \o <<"bump">> /\ Script("scroll") = Scroll \o <<"bump">>
      /\ Script("drag") = Drag \o <<"bump">> /\ Script("down") = <<"press">> /\ Script("up") = <<"release">>
  BY DEF Script, RawKinds
<1>6. OK(Script(k))
  BY <1>2, <1>4, <1>5 DEF MouseKinds
<1> QED  BY <1>6 DEF OK

\* switch_tab, close_tab and stop() release what is held before all else.
LEMMA LeavingScripts ==
    /\ \A k \in {"switch_tab", "close_tab"} : /\ Within(Script(k), LeavingSteps) /\ ResetsFirst(Script(k))
                                              /\ In("freeButton", Script(k)) /\ In("freeKey", Script(k))
    /\ Within(Stop, LeavingSteps) /\ ResetsFirst(Stop) /\ In("freeButton", Stop) /\ In("freeKey", Stop)
    /\ Stop \in Seq(Steps) /\ Stop # <<>> /\ Head(Stop) = "cancel" /\ Within(Stop, RecSteps)
<1> DEFINE L == LeavingSteps \ FreeSteps
<1>1. ASSUME NEW p \in Seq(Steps), NEW q \in Seq(Steps), Within(p, ResetSteps), Within(q, L),
             In("freeButton", p), In("freeKey", p)
      PROVE  /\ p \o q \in Seq(Steps) /\ Within(p \o q, LeavingSteps) /\ ResetsFirst(p \o q)
             /\ In("freeButton", p \o q) /\ In("freeKey", p \o q)
  <2>1. Within(p, LeavingSteps) /\ Within(q, LeavingSteps) /\ Within(q, Steps \ FreeSteps)
    BY <1>1, Literals DEF Within
  <2>2. p \o q \in Seq(Steps)
    OBVIOUS
  <2>3. Within(p \o q, LeavingSteps)
    BY <2>1, WithinParts
  <2>4. In("freeButton", p \o q) /\ In("freeKey", p \o q)
    BY <1>1, WithinParts
  <2>5. ResetsFirst(p \o q)
    BY <1>1, <2>1, ResetsThenOthers
  <2> QED  BY <2>2, <2>3, <2>4, <2>5
<1>2. /\ SwitchTab \o <<"bump">> \in Seq(Steps) /\ Within(SwitchTab \o <<"bump">>, L)
      /\ <<"forget", "depart">> \o <<"bump">> \in Seq(Steps) /\ Within(<<"forget", "depart">> \o <<"bump">>, L)
  <2>1. Within(<<"bump">>, L) /\ <<"bump">> \in Seq(Steps)
    BY Literals DEF Within
  <2>2. SwitchTab \in Seq(Steps) /\ Within(SwitchTab, L) /\ <<"forget", "depart">> \in Seq(Steps)
        /\ Within(<<"forget", "depart">>, L)
    BY Literals
  <2> HIDE DEF L
  <2>3. Within(SwitchTab \o <<"bump">>, L)
    BY <2>1, <2>2, WithinParts
  <2>4. Within(<<"forget", "depart">> \o <<"bump">>, L)
    BY <2>1, <2>2, WithinParts
  <2> QED  BY <2>1, <2>2, <2>3, <2>4
<1>3. Script("switch_tab") = ResetInput \o (SwitchTab \o <<"bump">>)
  <2>1. Script("switch_tab") = (ResetInput \o SwitchTab) \o <<"bump">>
    BY DEF Script, RawKinds
  <2>2. ResetInput \in Seq(Steps) /\ SwitchTab \in Seq(Steps) /\ <<"bump">> \in Seq(Steps)
    BY Literals
  <2>3. (ResetInput \o SwitchTab) \o <<"bump">> = ResetInput \o (SwitchTab \o <<"bump">>)
    BY <2>2, ConcatAssociative
  <2> QED  BY <2>1, <2>3
<1>4. Script("close_tab") = ResetInput \o (<<"forget", "depart">> \o <<"bump">>)
  <2>1. Script("close_tab") = (ResetInput \o <<"forget", "depart">>) \o <<"bump">>
    BY DEF Script, RawKinds, CloseTab
  <2>2. ResetInput \in Seq(Steps) /\ <<"forget", "depart">> \in Seq(Steps) /\ <<"bump">> \in Seq(Steps)
    BY Literals
  <2>3. (ResetInput \o <<"forget", "depart">>) \o <<"bump">> = ResetInput \o (<<"forget", "depart">> \o <<"bump">>)
    BY <2>2, ConcatAssociative
  <2> QED  BY <2>1, <2>3
<1>5. /\ ResetInput \in Seq(Steps) /\ Within(ResetInput, ResetSteps)
      /\ In("freeButton", ResetInput) /\ In("freeKey", ResetInput)
  BY Literals
<1> DEFINE c == <<"cancel">> \o ResetInput
<1>6. /\ c \in Seq(Steps) /\ Within(c, ResetSteps) /\ In("freeButton", c) /\ In("freeKey", c)
      /\ Within(c, RecSteps) /\ c # <<>> /\ Head(c) = "cancel"
  <2>1. <<"cancel">> \in Seq(Steps) /\ Within(<<"cancel">>, ResetSteps)
    BY Literals
  <2>2. Within(c, ResetSteps)
    BY <1>5, <2>1, WithinParts
  <2>3. In("freeButton", c) /\ In("freeKey", c)
    BY <1>5, <2>1, WithinParts
  <2>4. c \in Seq(Steps) /\ c # <<>> /\ Head(c) = "cancel"
    BY <1>5, <2>1
  <2> QED  BY <2>2, <2>3, <2>4, Literals DEF Within
<1>7. /\ <<"clear", "leave">> \in Seq(Steps) /\ Within(<<"clear", "leave">>, L)
      /\ Within(<<"clear", "leave">>, RecSteps)
  BY Literals DEF Within
<1>8. Stop = c \o <<"clear", "leave">>
  BY DEF Stop
<1> HIDE DEF L, c
<1>9. /\ Within(Stop, LeavingSteps) /\ ResetsFirst(Stop) /\ In("freeButton", Stop) /\ In("freeKey", Stop)
      /\ Stop \in Seq(Steps)
  BY <1>1, <1>6, <1>7, <1>8
<1>10. Within(Stop, RecSteps)
  BY <1>6, <1>7, <1>8, WithinParts
<1>11. Stop # <<>> /\ Head(Stop) = "cancel"
  BY <1>6, <1>7, <1>8
<1>12. \A k \in {"switch_tab", "close_tab"} : /\ Within(Script(k), LeavingSteps) /\ ResetsFirst(Script(k))
                                              /\ In("freeButton", Script(k)) /\ In("freeKey", Script(k))
  BY <1>1, <1>2, <1>3, <1>4, <1>5
<1> QED  BY <1>9, <1>10, <1>11, <1>12

\* The steps of a recovery, of connect() and of stop().
LEMMA RecScripts ==
    Within(Recover, RecSteps) /\ Within(Connect, RecSteps)
<1> DEFINE OK(q) == q \in Seq(Steps) /\ Within(q, RecSteps)
<1>1. ASSUME NEW p, NEW q, OK(p), OK(q)  PROVE OK(p \o q)
  BY <1>1, WithinParts
<1>2. OK(<<"drain">>) /\ OK(<<"clear", "list", "pick">>) /\ OK(<<"drain", "open", "list", "pick">>) /\ OK(Attach)
  BY DEF Attach, Steps, Within, RecSteps
<1>2a. OK(<<"show">>)
  BY DEF Steps, Within, RecSteps
<1>3. OK(ResetInput)
  BY Literals DEF Within
<1> HIDE DEF OK
<1>4. OK(<<"drain">> \o ResetInput)
  BY <1>1, <1>2, <1>3
<1>5. OK((<<"drain">> \o ResetInput) \o <<"clear", "list", "pick">>)
  BY <1>1, <1>2, <1>4
<1>6. OK(((<<"drain">> \o ResetInput) \o <<"clear", "list", "pick">>) \o Attach)
  BY <1>1, <1>2, <1>5
<1>7. OK(Recover) /\ OK(Connect)
  BY <1>1, <1>2, <1>2a, <1>6 DEF Recover, Connect
<1> QED  BY <1>7 DEF OK

\* The operations that are no browser actions neither leave a session nor wait
\* for the queue;
LEMMA PlainScripts ==
    ASSUME NEW k \in Operations \ BrowserKinds
    PROVE  Within(Script(k), PlainSteps)
<1> DEFINE OK(q) == q \in Seq(Steps) /\ Within(q, PlainSteps)
<1>1. ASSUME NEW p, NEW q, OK(p), OK(q)  PROVE OK(p \o q)
  BY <1>1, WithinParts
<1>2. /\ OK(Move) /\ OK(<<"pause", "press", "pause", "release">>)
      /\ OK(<<"press2", "release2", "pause", "press3", "release2">>) /\ OK(<<"wheel">>)
      /\ OK(<<"pause", "press", "pause", "drag", "pause", "release">>) /\ OK(<<"press">>) /\ OK(<<"release">>)
      /\ OK(<<"bump">>)
  BY DEF Move, Steps, Inputs, Within, PlainSteps
<1>3. /\ OK(<<"shot", "store">>) /\ OK(Keypress) /\ OK(<<"keyDown">>) /\ OK(<<"keyUp">>) /\ OK(ResetInput)
  BY DEF Keypress, ResetInput, Steps, Inputs, Within, PlainSteps
<1>4. OK(TypeAuto) /\ OK(TypeKeyEvents)
  <2>1. Inputs \cup {"pause"} \subseteq PlainSteps
    BY DEF Inputs, Steps, PlainSteps
  <2> QED  BY <2>1, TypedTexts DEF Within
<1> HIDE DEF OK
<1>5. OK(Click) /\ OK(DoubleClick) /\ OK(Scroll) /\ OK(Drag)
  BY <1>1, <1>2 DEF Click, DoubleClick, Scroll, Drag
<1>6. /\ OK(Click \o <<"bump">>) /\ OK(DoubleClick \o <<"bump">>) /\ OK(Scroll \o <<"bump">>) /\ OK(Drag \o <<"bump">>)
      /\ OK(Move \o <<"bump">>) /\ OK(<<"press">> \o <<"bump">>) /\ OK(<<"release">> \o <<"bump">>)
      /\ OK(TypeAuto \o <<"bump">>) /\ OK(TypeKeyEvents \o <<"bump">>) /\ OK(Keypress \o <<"bump">>)
  BY <1>1, <1>2, <1>3, <1>4, <1>5
<1>7. /\ Script("move") = Move /\ Script("click") = Click \o <<"bump">>
      /\ Script("double_click") = DoubleClick \o <<"bump">> /\ Script("scroll") = Scroll \o <<"bump">>
      /\ Script("drag") = Drag \o <<"bump">> /\ Script("down") = <<"press">> /\ Script("up") = <<"release">>
  BY DEF Script, RawKinds
<1>8. /\ Script("observe") = <<"shot", "store">> /\ Script("keypress") = Keypress \o <<"bump">>
      /\ Script("key_down") = <<"keyDown">> /\ Script("key_up") = <<"keyUp">>
      /\ Script("type") = TypeAuto \o <<"bump">> /\ Script("type_keys") = TypeKeyEvents \o <<"bump">>
      /\ Script("reset_input") = ResetInput
  BY DEF Script, RawKinds
<1>9. /\ Script("raw_move") = RawScript("raw_move") \o <<"bump">>
      /\ Script("raw_click") = RawScript("raw_click") \o <<"bump">>
      /\ Script("raw_double_click") = RawScript("raw_double_click") \o <<"bump">>
      /\ Script("raw_down") = RawScript("raw_down") \o <<"bump">>
      /\ Script("raw_up") = RawScript("raw_up") \o <<"bump">>
      /\ Script("raw_scroll") = RawScript("raw_scroll") \o <<"bump">>
  BY DEF Script, RawKinds
<1>10. /\ RawScript("raw_move") = Move /\ RawScript("raw_click") = Click
       /\ RawScript("raw_double_click") = DoubleClick /\ RawScript("raw_down") = <<"press">>
       /\ RawScript("raw_up") = <<"release">> /\ RawScript("raw_scroll") = Scroll
  BY DEF RawScript
<1>11. k \in MouseKinds \cup RawKinds \cup
          {"observe", "keypress", "key_down", "key_up", "type", "type_keys", "reset_input"}
  BY DEF Operations
<1> SUFFICES OK(Script(k))
  BY DEF OK
<1>12. CASE k \in MouseKinds
  BY <1>2, <1>6, <1>7, <1>12 DEF MouseKinds
<1>13. CASE k \in RawKinds
  BY <1>6, <1>9, <1>10, <1>13 DEF RawKinds
<1>14. CASE k \in {"observe", "keypress", "key_down", "key_up", "type", "type_keys", "reset_input"}
  BY <1>3, <1>6, <1>8, <1>14
<1> QED  BY <1>11, <1>12, <1>13, <1>14

\* those that are leave one only for another.
LEMMA BrowserScripts ==
    /\ \A k \in BrowserKinds : Chained(Script(k)) /\ ~In("drain", Script(k))
    /\ \A b \in BOOLEAN : Chained(Closing(b)) /\ ~In("drain", Closing(b))
                          /\ ~In("depart", Closing(b)) /\ ~In("next", Closing(b))
    /\ Within(Navigate, PlainSteps) /\ Navigate \in Seq(Steps)
    /\ Chained(<<"depart">>) /\ ~In("drain", <<"depart">>)
<1> DEFINE OK(q) == q \in Seq(Steps) /\ Chained(q) /\ ~In("drain", q)
           NoClose(q) == ~In("depart", q) /\ ~In("next", q)
<1>1. ASSUME NEW p, NEW q, OK(p), OK(q)
      PROVE  OK(p \o q) /\ (NoClose(p) /\ NoClose(q) => NoClose(p \o q))
  BY <1>1, WithinParts, ChainedParts
<1>2. ASSUME NEW q \in Seq(Steps), Within(q, PlainSteps)  PROVE OK(q) /\ NoClose(q)
  BY <1>2, PlainIs
<1>3. /\ <<"bump">> \in Seq(Steps) /\ Within(<<"bump">>, PlainSteps)
      /\ <<"create">> \in Seq(Steps) /\ Within(<<"create">>, PlainSteps)
      /\ <<"close">> \in Seq(Steps) /\ Within(<<"close">>, PlainSteps)
      /\ <<"activate">> \in Seq(Steps) /\ Within(<<"activate">>, PlainSteps)
      /\ <<"list", "pick">> \in Seq(Steps) /\ Within(<<"list", "pick">>, PlainSteps)
      /\ <<"window">> \in Seq(Steps) /\ Within(<<"window">>, PlainSteps)
      /\ <<"aim", "window">> \in Seq(Steps) /\ Within(<<"aim", "window">>, PlainSteps)
  BY DEF Within, PlainSteps, Steps
<1>4. /\ Navigate \in Seq(Steps) /\ Within(Navigate, PlainSteps)
      /\ Travel \in Seq(Steps) /\ Within(Travel, PlainSteps)
      /\ Windows \in Seq(Steps) /\ Within(Windows, PlainSteps)
      /\ ResetInput \in Seq(Steps) /\ Within(ResetInput, PlainSteps)
      /\ <<"dialog", "bump">> \in Seq(Steps) /\ Within(<<"dialog", "bump">>, PlainSteps)
  BY DEF Within, PlainSteps, Steps, Navigate, Travel, Windows, ResetInput
<1>5. OK(<<"forget", "depart">>) /\ OK(<<"aimAll", "next">>) /\ OK(<<"depart">>)
  BY DEF Chained, In, Steps
<1>6. OK(Attach) /\ NoClose(Attach)
  BY DEF Attach, Chained, In, Steps
<1>7. OK(<<>>) /\ NoClose(<<>>)
  BY DEF Chained, In
<1>8. /\ OK(<<"bump">>) /\ OK(<<"create">>) /\ OK(<<"close">>) /\ OK(<<"activate">>)
      /\ OK(<<"list", "pick">>) /\ OK(<<"window">>) /\ OK(<<"aim", "window">>)
      /\ OK(Navigate) /\ OK(Travel) /\ OK(Windows) /\ OK(ResetInput) /\ OK(<<"dialog", "bump">>)
      /\ NoClose(<<"close">>) /\ NoClose(<<"list", "pick">>) /\ NoClose(<<"activate">>)
  BY <1>2, <1>3, <1>4
<1> HIDE DEF OK, NoClose
<1>9. OK(SwitchTab) /\ NoClose(SwitchTab)
  BY <1>1, <1>6, <1>8 DEF SwitchTab
<1>10. OK(NewTab) /\ OK(CloseTab) /\ OK(CloseWindow)
  BY <1>1, <1>5, <1>8, <1>9 DEF NewTab, CloseTab, CloseWindow
<1>11. OK(NewWindow)
  BY <1>1, <1>8, <1>9 DEF NewWindow
<1>12. OK(ActivateWindow)
  BY <1>1, <1>8, <1>9 DEF ActivateWindow
<1>13. OK(ResetInput \o SwitchTab)
  BY <1>1, <1>8, <1>9
<1>14. /\ Script("new_tab") = NewTab \o <<"bump">>
       /\ Script("switch_tab") = ResetInput \o SwitchTab \o <<"bump">>
       /\ Script("close_tab") = CloseTab \o <<"bump">> /\ Script("navigate") = Navigate \o <<"bump">>
       /\ Script("back") = Travel \o <<"bump">> /\ Script("dialog") = <<"dialog", "bump">>
       /\ Script("windows") = Windows /\ Script("new_window") = NewWindow \o <<"bump">>
       /\ Script("activate_window") = ActivateWindow \o <<"bump">>
       /\ Script("close_window") = CloseWindow \o <<"bump">>
  BY DEF Script, RawKinds
<1>15. /\ OK(NewTab \o <<"bump">>) /\ OK(ResetInput \o SwitchTab \o <<"bump">>)
       /\ OK(CloseTab \o <<"bump">>) /\ OK(Navigate \o <<"bump">>) /\ OK(Travel \o <<"bump">>)
       /\ OK(NewWindow \o <<"bump">>) /\ OK(ActivateWindow \o <<"bump">>)
       /\ OK(CloseWindow \o <<"bump">>)
  BY <1>1, <1>8, <1>10, <1>11, <1>12, <1>13
<1>16. \A k \in BrowserKinds : OK(Script(k))
  BY <1>8, <1>14, <1>15 DEF BrowserKinds
<1>17. /\ OK(<<"list", "pick">> \o SwitchTab) /\ NoClose(<<"list", "pick">> \o SwitchTab)
  BY <1>1, <1>8, <1>9
<1>18. /\ Closing(TRUE) = <<"close">> \o (<<"list", "pick">> \o SwitchTab)
       /\ Closing(FALSE) = <<"close">> \o <<>>
  BY DEF Closing
<1>19. \A b \in BOOLEAN : OK(Closing(b)) /\ NoClose(Closing(b))
  BY <1>1, <1>7, <1>8, <1>17, <1>18
<1> QED  BY <1>4, <1>5, <1>16, <1>19 DEF OK, NoClose

\* The first step of a sequence, and the others.
LEMMA FirstAndRest ==
    ASSUME NEW s \in Steps, NEW q \in Seq(Steps)
    PROVE  /\ <<s>> \o q \in Seq(Steps) /\ <<s>> \o q # <<>>
           /\ Head(<<s>> \o q) = s /\ Tail(<<s>> \o q) = q
<1> DEFINE r == <<s>> \o q
<1>1. <<s>> \in Seq(Steps) /\ Len(<<s>>) = 1 /\ <<s>>[1] = s
  OBVIOUS
<1>2. /\ r \in Seq(Steps) /\ Len(r) = 1 + Len(q) /\ r[1] = s
      /\ \A i \in 1..Len(q) : r[1 + i] = q[i]
  BY <1>1, ConcatProperties
<1> HIDE DEF r
<1>3. r # <<>> /\ Head(r) = s /\ Tail(r) \in Seq(Steps) /\ Len(Tail(r)) = Len(q)
  BY <1>2
<1>4. \A i \in 1..Len(q) : Tail(r)[i] = q[i]
  BY <1>2
<1>5. Tail(r) = q
  BY <1>3, <1>4
<1> QED  BY <1>2, <1>3, <1>5 DEF r

\* A session is still left last when steps that leave none come before.
LEMMA LeavesAtTheEnd ==
    ASSUME NEW p \in Seq(Steps), NEW q \in Seq(Steps), ~In("leave", p), LeavesLast(q)
    PROVE  LeavesLast(p \o q)
<1> DEFINE r == p \o q
<1>1. /\ r \in Seq(Steps) /\ Len(r) = Len(p) + Len(q) /\ DOMAIN r = 1..Len(r)
      /\ DOMAIN p = 1..Len(p) /\ DOMAIN q = 1..Len(q) /\ Len(p) \in Nat /\ Len(q) \in Nat
      /\ \A i \in 1..Len(p) : r[i] = p[i]
      /\ \A i \in 1..Len(q) : r[Len(p) + i] = q[i]
  BY ConcatProperties
<1> HIDE DEF r
<1> SUFFICES ASSUME NEW i \in 1..Len(r), r[i] = "leave"  PROVE i = Len(r)
  BY <1>1 DEF LeavesLast, r
<1>2. ~(i <= Len(p))
  <2> SUFFICES ASSUME i <= Len(p)  PROVE FALSE
    OBVIOUS
  <2>1. i \in DOMAIN p
    BY <1>1
  <2>2. p[i] = "leave"
    BY <1>1, <2>1
  <2> QED  BY <2>1, <2>2 DEF In
<1> DEFINE j == i - Len(p)
<1>3. j \in 1..Len(q) /\ i = Len(p) + j
  BY <1>1, <1>2
<1> HIDE DEF j
<1>4. j = Len(q)
  BY <1>1, <1>3 DEF LeavesLast
<1> QED  BY <1>1, <1>3, <1>4

\* How the parts of a script are put together does not matter.
Cat(x, y) == x \o y
LEMMA FiveParts ==
  ASSUME NEW S, NEW d \in Seq(S), NEW r \in Seq(S), NEW q \in Seq(S),
         NEW a \in Seq(S), NEW s \in Seq(S)
  PROVE  Cat(Cat(Cat(Cat(d, r), q), a), s) = Cat(d, Cat(r, Cat(q, Cat(a, s))))
<1>1. ASSUME NEW x \in Seq(S), NEW y \in Seq(S), NEW z \in Seq(S)
      PROVE  Cat(x, y) \in Seq(S) /\ Cat(Cat(x, y), z) = Cat(x, Cat(y, z))
  <2>1. x \in Seq(S) /\ y \in Seq(S) /\ z \in Seq(S)
    OBVIOUS
  <2>2. (x \o y) \o z = x \o (y \o z)
    BY ONLY <2>1, SMTT(20)
  <2> QED  BY <2>1, <2>2 DEF Cat
<1>2. d \in Seq(S) /\ r \in Seq(S) /\ q \in Seq(S) /\ a \in Seq(S) /\ s \in Seq(S)
  OBVIOUS
<1>3. Cat(d, r) \in Seq(S) /\ Cat(a, s) \in Seq(S)
  BY <1>1, <1>2
<1>4. Cat(Cat(d, r), q) \in Seq(S) /\ Cat(q, Cat(a, s)) \in Seq(S)
  BY <1>1, <1>2, <1>3
<1> QED  BY <1>1, <1>2, <1>3, <1>4

\* A recovery and connect() wait for the queue first; stop() does not.
LEMMA DrainsFirst ==
    /\ Chained(Recover) /\ Chained(Connect) /\ LeavesLast(Stop) /\ Within(Stop, StopSteps)
    /\ Recover \in Seq(Steps) /\ Connect \in Seq(Steps) /\ Stop \in Seq(Steps)
    /\ \A q \in {Recover, Connect} : /\ q # <<>> /\ Head(q) = "drain" /\ ~In("drain", Tail(q))
                                       /\ ~In("depart", q) /\ ~In("next", q)
    /\ ~In("drain", Stop) /\ ~In("depart", Stop) /\ ~In("next", Stop)
<1> DEFINE OK(q) == /\ q \in Seq(Steps) /\ Chained(q)
                    /\ ~In("drain", q) /\ ~In("depart", q) /\ ~In("next", q)
           c == <<"clear", "list", "pick">>
           o == <<"open", "list", "pick">>
           l == <<"clear", "leave">>
<1>1. ASSUME NEW p, NEW q, OK(p), OK(q)  PROVE OK(p \o q)
  BY <1>1, WithinParts, ChainedParts
<1>2. OK(Attach)
  BY DEF Attach, Chained, In, Steps
<1>3. OK(ResetInput)
  BY DEF ResetInput, Chained, In, Steps
<1>4. OK(c) /\ OK(o) /\ OK(<<"show">>)
  BY DEF Chained, In, Steps
<1>5. /\ l \in Seq(Steps) /\ ~In("drain", l) /\ ~In("depart", l) /\ ~In("next", l) /\ LeavesLast(l)
      /\ Within(l, StopSteps)
  BY DEF LeavesLast, In, Steps, Within, StopSteps
<1>6. /\ <<"cancel">> \in Seq(Steps) /\ ~In("drain", <<"cancel">>) /\ ~In("depart", <<"cancel">>)
      /\ ~In("next", <<"cancel">>) /\ ~In("leave", <<"cancel">>) /\ Within(<<"cancel">>, StopSteps)
  BY DEF In, Steps, Within, StopSteps, ResetSteps
<1>7. /\ ~In("leave", ResetInput) /\ Within(ResetInput, StopSteps)
  BY DEF In, ResetInput, Within, StopSteps, ResetSteps
<1>8. /\ "drain" \in Steps /\ <<"drain">> \in Seq(Steps) /\ Chained(<<"drain">>)
      /\ ~In("depart", <<"drain">>) /\ ~In("next", <<"drain">>)
  BY DEF Steps, Chained, In
<1>9. <<"drain", "open", "list", "pick">> = <<"drain">> \o o
  OBVIOUS
<1> HIDE DEF c, o, l
<1>10. ASSUME NEW q, OK(q)
       PROVE  /\ <<"drain">> \o q \in Seq(Steps) /\ Chained(<<"drain">> \o q)
              /\ <<"drain">> \o q # <<>> /\ Head(<<"drain">> \o q) = "drain"
              /\ ~In("drain", Tail(<<"drain">> \o q))
              /\ ~In("depart", <<"drain">> \o q) /\ ~In("next", <<"drain">> \o q)
  <2>1. Chained(<<"drain">> \o q)
    BY <1>8, <1>10, ChainedParts
  <2>2. ~In("depart", <<"drain">> \o q) /\ ~In("next", <<"drain">> \o q)
    BY <1>8, <1>10, WithinParts
  <2>3. /\ <<"drain">> \o q \in Seq(Steps) /\ <<"drain">> \o q # <<>>
        /\ Head(<<"drain">> \o q) = "drain" /\ Tail(<<"drain">> \o q) = q
    BY <1>8, <1>10, FirstAndRest
  <2> QED  BY <1>10, <2>1, <2>2, <2>3
<1>11. /\ c \in Seq(Steps) /\ o \in Seq(Steps) /\ Attach \in Seq(Steps) /\ <<"show">> \in Seq(Steps)
       /\ ResetInput \in Seq(Steps) /\ <<"drain">> \in Seq(Steps)
  BY <1>2, <1>3, <1>4, <1>8
<1>12. Recover = <<"drain">> \o (ResetInput \o (c \o (Attach \o <<"show">>)))
  <2> DEFINE d == <<"drain">>
             s == <<"show">>
  <2>1. d \in Seq(Steps) /\ s \in Seq(Steps) /\ c \in Seq(Steps)
    BY <1>11
  <2>2. Recover = (((d \o ResetInput) \o c) \o Attach) \o s
    BY DEF Recover, c
  <2>3. Recover = d \o (ResetInput \o (c \o (Attach \o s)))
    <3> HIDE DEF d, s, c
    <3>1. Cat(Cat(Cat(Cat(d, ResetInput), c), Attach), s)
              = Cat(d, Cat(ResetInput, Cat(c, Cat(Attach, s))))
      BY <1>11, <2>1, FiveParts
    <3> QED  BY <2>2, <3>1, Zenon DEF Cat
  <2> QED  BY <2>3
<1>13. Connect = <<"drain">> \o (o \o Attach)
  <2>1. Connect = (<<"drain">> \o o) \o Attach
    BY <1>9 DEF Connect
  <2> QED  BY <1>11, <2>1, ConcatAssociative
<1>14. OK(ResetInput \o (c \o (Attach \o <<"show">>))) /\ OK(o \o Attach)
  BY <1>1, <1>2, <1>3, <1>4
<1>15. Stop = <<"cancel">> \o (ResetInput \o l)
  <2>1. Stop = (<<"cancel">> \o ResetInput) \o l
    BY DEF Stop, l
  <2> QED  BY <1>3, <1>5, <1>6, <2>1, ConcatAssociative
<1>16. /\ ResetInput \o l \in Seq(Steps) /\ LeavesLast(ResetInput \o l)
       /\ ~In("drain", ResetInput \o l) /\ ~In("depart", ResetInput \o l)
       /\ ~In("next", ResetInput \o l) /\ Within(ResetInput \o l, StopSteps)
  BY <1>3, <1>5, <1>7, LeavesAtTheEnd, WithinParts
<1>17. /\ Stop \in Seq(Steps) /\ LeavesLast(Stop) /\ ~In("drain", Stop) /\ ~In("depart", Stop)
       /\ ~In("next", Stop) /\ Within(Stop, StopSteps)
  <2> DEFINE x == <<"cancel">>
             y == ResetInput \o l
  <2>1. /\ x \in Seq(Steps) /\ y \in Seq(Steps) /\ Stop = x \o y
        /\ ~In("leave", x) /\ LeavesLast(y) /\ Within(x, StopSteps) /\ Within(y, StopSteps)
    BY <1>6, <1>15, <1>16
  <2>2. /\ ~In("drain", x) /\ ~In("depart", x) /\ ~In("next", x)
        /\ ~In("drain", y) /\ ~In("depart", y) /\ ~In("next", y)
    BY <1>6, <1>16
  <2> HIDE DEF x, y
  <2>3. Stop \in Seq(Steps) /\ LeavesLast(Stop)
    BY <2>1, LeavesAtTheEnd
  <2>4. /\ ~In("drain", Stop) /\ ~In("depart", Stop) /\ ~In("next", Stop)
    BY <2>1, <2>2, WithinParts
  <2>5. Within(Stop, StopSteps)
    BY <2>1, WithinParts
  <2> QED  BY <2>3, <2>4, <2>5
<1> HIDE DEF OK
<1>18. \A q \in {Recover, Connect} :
            /\ q \in Seq(Steps) /\ Chained(q) /\ q # <<>> /\ Head(q) = "drain"
            /\ ~In("drain", Tail(q)) /\ ~In("depart", q) /\ ~In("next", q)
  BY <1>10, <1>12, <1>13, <1>14
<1> QED  BY <1>17, <1>18

\* The steps that remain are of the kind that the operation takes.
LEMMA FollowsKeeps ==
    ASSUME TypeOK, NEW d \in Drivers, Scripted(d), NEW next \in Seq(Steps), Follows(d, next)
    PROVE  /\ job[d].kind \in MouseKinds => Within(next, MouseSteps)
           /\ job[d].kind \in LeavingKinds => Within(next, LeavingSteps) /\ ResetsFirst(next)
           /\ d # "task" => Within(next, RecSteps)
<1> DEFINE q == job[d].todo
<1>1. q \in Seq(Steps) /\ q # <<>>
  BY JobTyped DEF Job, Follows
<1>2. /\ Tail(q) \in Seq(Steps) /\ Head(q) \in Steps
      /\ \A S : Within(q, S) => Within(Tail(q), S) /\ Head(q) \in S
      /\ ResetsFirst(q) => ResetsFirst(Tail(q))
      /\ ResetsFirst(q) /\ Head(q) \notin ResetSteps => Within(Tail(q), Steps \ FreeSteps)
  BY <1>1, TailParts
<1>3. CASE next = Tail(q)
  BY <1>2, <1>3 DEF Scripted
<1>4. ASSUME next # Tail(q)
      PROVE  \/ Head(q) \in {"mayGo", "depart", "pick", "next"} /\ Head(q) \notin MouseSteps
             \/ Head(q) = "pause" /\ next = q
  BY <1>4 DEF Follows, MouseSteps
<1>5. ASSUME next # Tail(q), job[d].kind \in LeavingKinds
      PROVE  Within(next, LeavingSteps) /\ ResetsFirst(next)
  <2>1. /\ Within(q, LeavingSteps) /\ ResetsFirst(q) /\ Head(q) \in LeavingSteps /\ Within(Tail(q), LeavingSteps)
    BY <1>2, <1>5 DEF Scripted
  <2>2. Head(q) \in {"depart", "pick"}
    BY <1>4, <1>5, <2>1 DEF LeavingSteps, ResetSteps
  <2>3. Within(Tail(q), Steps \ FreeSteps)
    BY <1>2, <2>1, <2>2 DEF ResetSteps
  <2>4. \E p \in Seq(Steps) : next = p \o Tail(q) /\ Within(p, LeavingSteps \ FreeSteps)
    <3>1. Within(<<"create">>, LeavingSteps \ FreeSteps) /\ <<"create">> \in Seq(Steps)
      BY Literals DEF Within
    <3>2. \A b \in BOOLEAN : Within(Closing(b), LeavingSteps \ FreeSteps) /\ Closing(b) \in Seq(Steps)
      BY Literals
    <3> QED  BY <1>5, <2>2, <3>1, <3>2 DEF Follows
  <2>5. PICK p \in Seq(Steps) : next = p \o Tail(q) /\ Within(p, LeavingSteps \ FreeSteps)
    BY <2>4
  <2>6. Within(p, LeavingSteps) /\ Within(p, Steps \ FreeSteps)
    BY <2>5, Literals DEF Within
  <2>7. Within(next, LeavingSteps)
    BY <1>2, <2>1, <2>5, <2>6, WithinParts
  <2>8. Within(next, Steps \ FreeSteps)
    BY <1>2, <2>3, <2>5, <2>6, WithinParts
  <2> QED  BY <2>7, <2>8, NoFreeSteps
<1>6. ASSUME next # Tail(q), d # "task"
      PROVE  Within(next, RecSteps)
  <2>1. Within(q, RecSteps) /\ Head(q) \in RecSteps /\ Within(Tail(q), RecSteps)
    BY <1>2, <1>6 DEF Scripted
  <2>2. Head(q) = "pick"
    BY <1>4, <1>6, <2>1 DEF RecSteps, ResetSteps
  <2>3. next = <<"create">> \o Tail(q)
    BY <1>6, <2>2 DEF Follows
  <2>4. <<"create">> \in Seq(Steps) /\ Within(<<"create">>, RecSteps)
    BY Literals DEF Within
  <2> QED  BY <1>2, <2>1, <2>3, <2>4, WithinParts
<1>7. ASSUME next # Tail(q), job[d].kind \in MouseKinds
      PROVE  Within(next, MouseSteps)
  BY <1>2, <1>4, <1>7 DEF Scripted
<1> QED  BY <1>3, <1>5, <1>6, <1>7

\* A driver whose steps, kind and command do not change is scripted as before.
LEMMA ScriptedKept ==
    ASSUME NEW d \in Drivers, Scripted(d), job'[d].todo = job[d].todo, job'[d].kind = job[d].kind,
           job'[d].saw = job[d].saw, job'[d].last = job[d].last
    PROVE  Scripted(d)'
  BY DEF Scripted

\* The names of the recoveries are none of an operation.
LEMMA NoOperation ==
    {"none", "dragged", "recover", "connect", "stop"} \cap Operations = {}
  BY DEF Operations, MouseKinds, BrowserKinds, RawKinds

\* A driver that ends is scripted.
LEMMA IdleScripts ==
    ASSUME NEW d \in Drivers, job'[d] = Idle
    PROVE  Scripted(d)' /\ Placed(d)'
<1>1. /\ Idle.kind = "none" /\ Idle.saw = None /\ Idle.todo = <<>> /\ Idle.at = "idle" /\ Idle.num = 0
  BY DEF Idle
<1>2. Within(<<>>, RecSteps)
  BY DEF Within
<1>3. "none" \notin MouseKinds /\ "none" \notin LeavingKinds /\ "none" # "stop" /\ "none" \notin Operations
  BY NoOperation DEF LeavingKinds, Operations
<1> QED  BY <1>1, <1>2, <1>3 DEF Scripted, Placed, Detaching, Idle

\* A turn leaves every driver with steps of its script.
LEMMA TurnScripts ==
    ASSUME TypeOK, Scripts, NEW d \in Drivers, Turn(d)
    PROVE  Scripts'
<1>1. TurnDoes(d) /\ job[d].at \in {"turn", "back"}
  BY TurnIs
<1>2. job \in [Drivers -> Job] /\ job[d] \in Job
  BY JobTyped DEF TypeOK
<1>3. ASSUME NEW e \in Drivers \ {d}, job'[e] = job[e]
      PROVE  Placed(e)' /\ Scripted(e)'
  BY <1>3 DEF Scripts, Placed, Scripted, Detaching
<1>4. Placed(d) /\ Scripted(d)
  BY DEF Scripts
<1>5. ASSUME NEW c, NEW on, NEW to, NEW next, TurnSends(d, c, on, to, next)
      PROVE  Scripts'
  <2>1. job' = [job EXCEPT ![d] = [job[d] EXCEPT !.todo = next, !.at = "sent", !.last = c]]
    BY <1>2, <1>5 DEF TurnSends, SendThen
  <2>2. /\ job'[d].todo = next /\ job'[d].at = "sent" /\ job'[d].last = c /\ job'[d].num = job[d].num
        /\ job'[d].ok = job[d].ok /\ job'[d].kind = job[d].kind /\ job'[d].saw = job[d].saw
    BY <1>2, <2>1 DEF Job
  <2>3. \A e \in Drivers \ {d} : job'[e] = job[e]
    BY <1>2, <2>1
  <2>4. CASE c = "enable"
    <3>1. next = job[d].todo /\ job[d].ok /\ job[d].last = "attach"
      BY <1>5, <2>4 DEF TurnSends, Steps, Inputs
    <3>2. Scripted(d)'
      BY <1>4, <2>2, <3>1 DEF Scripted, MouseSteps
    <3>3. Placed(d)'
      BY <2>2, <2>4, <3>1 DEF Placed, Detaching
    <3> QED  BY <1>3, <2>3, <3>2, <3>3 DEF Scripts
  <2>5. CASE c # "enable"
    <3>1. Follows(d, next) /\ next \in Seq(Steps) /\ job[d].ok /\ job[d].last # "attach"
      BY <1>5, <2>5 DEF TurnSends
    <3>2. job[d].kind \in MouseKinds => c \in MouseSteps
      <4>1. job[d].todo # <<>> /\ job[d].todo \in Seq(Steps) /\ Head(job[d].todo) = c
        BY <1>2, <1>5, <2>5, <3>1 DEF TurnSends, Follows, Job
      <4> QED  BY <1>4, <4>1, TailParts DEF Scripted
    <3>5. Scripted(d)'
      BY <1>4, <2>2, <3>1, <3>2, FollowsKeeps DEF Scripted
    <3>3. job[d].num = 0
      BY <1>1, <1>4, <3>1 DEF Placed
    <3>4. Placed(d)'
      BY <2>2, <3>1, <3>3 DEF Placed, Detaching
    <3> QED  BY <1>3, <2>3, <3>4, <3>5 DEF Scripts
  <2> QED  BY <2>4, <2>5
<1>6. ASSUME NEW r, TurnGoes(d, r)
      PROVE  Scripts'
  <2>1. job'[d] = r /\ \A e \in Drivers \ {d} : job'[e] = job[e]
    BY <1>2, <1>6 DEF TurnGoes
  <2>2. /\ r.at = "turn" /\ r.ok /\ r.last = "none" /\ r.num = job[d].num /\ r.kind = job[d].kind
        /\ r.saw = job[d].saw /\ Follows(d, r.todo) /\ job[d].ok /\ job[d].last # "attach"
        /\ r.todo \in Seq(Steps)
    BY <1>6 DEF TurnGoes, Job
  <2>3. job[d].num = 0
    BY <1>1, <1>4, <2>2 DEF Placed
  <2>4. Placed(d)'
    BY <2>1, <2>2, <2>3 DEF Placed, Detaching
  <2>5. Scripted(d)'
    BY <1>4, <2>1, <2>2, FollowsKeeps DEF Scripted
  <2> QED  BY <1>3, <2>1, <2>4, <2>5 DEF Scripts
<1>7. CASE TurnEnds(d)
  <2>1. CASE job' = [job EXCEPT ![d] = Idle]
    <3>1. job'[d] = Idle /\ \A e \in Drivers \ {d} : job'[e] = job[e]
      BY <1>2, <2>1
    <3> QED  BY <1>3, <3>1, IdleScripts DEF Scripts
  <2>2. CASE /\ job[d].kind = "drag"
             /\ job' = [job EXCEPT ![d] = [Idle EXCEPT !.todo = ResetInput, !.at = "turn", !.kind = "dragged"]]
    <3>1. /\ job'[d] = [Idle EXCEPT !.todo = ResetInput, !.at = "turn", !.kind = "dragged"]
          /\ \A e \in Drivers \ {d} : job'[e] = job[e]
      BY <1>2, <2>2
    <3>2. /\ job'[d].todo = ResetInput /\ job'[d].at = "turn" /\ job'[d].kind = "dragged"
          /\ job'[d].saw = None /\ job'[d].ok /\ job'[d].last = "none" /\ job'[d].num = 0
      BY <3>1 DEF Idle
    <3>3. /\ "dragged" \notin MouseKinds /\ "dragged" \notin LeavingKinds /\ "dragged" # "stop"
          /\ "dragged" \notin Operations
      BY NoOperation DEF LeavingKinds, Operations
    <3>4. Within(ResetInput, RecSteps)
      BY Literals DEF Within
    <3>4a. d = "task"
      BY <1>4, <2>2 DEF Scripted, MouseKinds
    <3>5. Scripted(d)' /\ Placed(d)'
      BY <3>2, <3>3, <3>4, <3>4a DEF Scripted, Placed, Detaching
    <3> QED  BY <1>3, <3>1, <3>5 DEF Scripts
  <2> QED  BY <1>7, <2>1, <2>2 DEF TurnEnds
<1> QED  BY <1>1, <1>5, <1>6, <1>7 DEF TurnDoes

\* Two jobs that differ in calm at most.
CalmApart(r, j) ==
    /\ r.todo = j.todo /\ r.at = j.at /\ r.last = j.last /\ r.ok = j.ok /\ r.num = j.num
    /\ r.tabs = j.tabs /\ r.rest = j.rest /\ r.kind = j.kind /\ r.to = j.to /\ r.saw = j.saw

\* A driver of which only the calm changes.
LEMMA CalmAside ==
    ASSUME NEW j \in Job, NEW b \in BOOLEAN
    PROVE  /\ CalmApart([j EXCEPT !.calm = b], j) /\ [j EXCEPT !.calm = b].calm = b
           /\ j = Idle /\ b => [j EXCEPT !.calm = b] = j
  BY DEF Job, CalmApart, Idle

\* The jobs when a recovery begins.
LEMMA RecBegun ==
    ASSUME job \in [Drivers -> Job], NEW t, Recovers(t), link, job["rec"].at = "idle"
    PROVE  /\ job'["task"] = job["task"] /\ aborted' = TRUE
           /\ job'["rec"] = [Idle EXCEPT !.todo = Recover, !.at = "turn", !.kind = "recover", !.to = t]
           /\ CalmApart(job'["ctl"], job["ctl"])
           /\ job'["ctl"].calm = (job["ctl"].at = "idle")
           /\ job["ctl"] = Idle => job'["ctl"] = Idle
<1> DEFINE b == job["ctl"].at = "idle"
<1>1. /\ job'["task"] = job["task"] /\ aborted' = TRUE
      /\ job'["rec"] = [Idle EXCEPT !.todo = Recover, !.at = "turn", !.kind = "recover", !.to = t]
      /\ job'["ctl"] = [job["ctl"] EXCEPT !.calm = b]
  BY DEF Recovers, Drivers
<1>2. b \in BOOLEAN /\ job["ctl"] \in Job /\ (job["ctl"] = Idle => b)
  BY DEF Drivers, Idle
<1> HIDE DEF b
<1>3. CalmApart(job'["ctl"], job["ctl"]) /\ job'["ctl"].calm = b /\ (job["ctl"] = Idle => job'["ctl"] = Idle)
  BY <1>1, <1>2, CalmAside
<1> QED  BY <1>1, <1>3 DEF b

\* So does a recovery that begins,
LEMMA RecoversScripts ==
    ASSUME TypeOK, Scripts, NEW t, Recovers(t)
    PROVE  Scripts'
<1>1. job \in [Drivers -> Job]
  BY DEF TypeOK
<1>2. CASE UNCHANGED job
  BY <1>2 DEF Scripts, Placed, Scripted, Detaching
<1>3. CASE link /\ job["rec"].at = "idle"
  <2>1. /\ job'["task"] = job["task"]
        /\ job'["rec"] = [Idle EXCEPT !.todo = Recover, !.at = "turn", !.kind = "recover", !.to = t]
        /\ CalmApart(job'["ctl"], job["ctl"]) /\ (job["ctl"] = Idle => job'["ctl"] = Idle)
    BY <1>1, <1>3, RecBegun
  <2>2. /\ job'["rec"].todo = Recover /\ job'["rec"].at = "turn" /\ job'["rec"].kind = "recover"
        /\ job'["rec"].saw = None /\ job'["rec"].ok /\ job'["rec"].last = "none" /\ job'["rec"].num = 0
    BY <2>1 DEF Idle
  <2>3. "recover" \notin MouseKinds /\ "recover" \notin LeavingKinds /\ "recover" \notin Operations \cup {"dragged"}
    BY NoOperation DEF LeavingKinds, Operations
  <2>4. Scripted("rec")' /\ Placed("rec")'
    BY <2>2, <2>3, RecScripts DEF Scripted, Placed, Detaching
  <2>5. Scripted("task")' /\ Placed("task")'
    BY <2>1 DEF Scripts, Drivers, Scripted, Placed, Detaching
  <2>8. Scripted("ctl")' /\ Placed("ctl")'
    BY <2>1 DEF Scripts, Drivers, Scripted, Placed, Detaching, CalmApart
  <2> QED  BY <2>4, <2>5, <2>8 DEF Scripts, Drivers
<1> QED  BY <1>2, <1>3 DEF Recovers

\* and every other step.
LEMMA OtherScripts ==
    ASSUME TypeOK, Scripts, Posted, Other
    PROVE  Scripts'
<1>1. job \in [Drivers -> Job] /\ \A d \in Drivers : job[d] \in Job
  BY DEF TypeOK
<1>2. CASE UNCHANGED job
  BY <1>2 DEF Scripts, Placed, Scripted, Detaching
<1>3. ASSUME NEW d \in Drivers, Timeout(d)  PROVE Scripts'
  <2>1. /\ job'[d] = [job[d] EXCEPT !.at = "back", !.ok = job[d].ok /\ job[d].last \in Lenient]
        /\ \A e \in Drivers \ {d} : job'[e] = job[e]
    BY <1>1, <1>3 DEF Timeout
  <2>2. /\ job'[d].todo = job[d].todo /\ job'[d].kind = job[d].kind /\ job'[d].saw = job[d].saw
        /\ job'[d].at = "back" /\ job'[d].last = job[d].last /\ job'[d].num = job[d].num
        /\ job'[d].ok = (job[d].ok /\ job[d].last \in Lenient)
    BY <1>1, <2>1 DEF Job
  <2>3. Scripted(d)'
    BY <2>2, ScriptedKept DEF Scripts
  <2>4. Placed(d)'
    BY <1>3, <2>2 DEF Timeout, Scripts, Placed, Lenient, Detaching
  <2>5. \A e \in Drivers \ {d} : Scripted(e)' /\ Placed(e)'
    BY <2>1 DEF Scripts, Scripted, Placed, Detaching
  <2> QED  BY <2>3, <2>4, <2>5 DEF Scripts
<1>4. ASSUME NEW k \in Operations, Begin(k)  PROVE Scripts'
  <2>1. PICK t : job' = [job EXCEPT !["task"] =
            [Idle EXCEPT !.todo = Script(k), !.at = "turn", !.kind = k, !.to = t,
                         !.saw = IF k \in MouseKinds THEN seen ELSE None,
                         !.calm = \A d \in {"rec", "ctl"} : job[d].at = "idle"]]
    BY <1>4 DEF Begin
  <2>2. /\ job'["rec"] = job["rec"] /\ job'["ctl"] = job["ctl"]
        /\ job'["task"].todo = Script(k) /\ job'["task"].at = "turn"
        /\ job'["task"].kind = k /\ (k \notin MouseKinds => job'["task"].saw = None)
        /\ job'["task"].ok /\ job'["task"].last = "none" /\ job'["task"].num = 0
    BY <1>1, <2>1 DEF Drivers, Idle
  <2>3. Placed("task")'
    BY <2>2 DEF Placed, Detaching
  <2>4. k # "stop"
    BY DEF Operations, MouseKinds, BrowserKinds, RawKinds
  <2>5. Scripted("task")'
    <3>1. k \in LeavingKinds => k \in {"switch_tab", "close_tab"}
      BY <2>4 DEF LeavingKinds
    <3>2. k \in LeavingKinds => Within(Script(k), LeavingSteps) /\ ResetsFirst(Script(k))
      BY <3>1, LeavingScripts
    <3> QED  BY <2>2, <2>4, <3>2, MouseScripts DEF Scripted
  <2>6. \A e \in Drivers \ {"task"} : Scripted(e)' /\ Placed(e)'
    BY <2>2 DEF Scripts, Drivers, Scripted, Placed, Detaching
  <2> QED  BY <2>3, <2>5, <2>6 DEF Scripts, Drivers
<1>5. ASSUME NEW k \in {"connect", "stop"}, Command(k)  PROVE Scripts'
  <2>1. job' = [job EXCEPT !["ctl"] = [Idle EXCEPT
            !.todo = IF k = "stop" THEN Stop ELSE Connect, !.at = "turn", !.kind = k,
            !.calm = ~At("rec", "drain")]]
    BY <1>5 DEF Command
  <2>2. /\ job'["task"] = job["task"] /\ job'["rec"] = job["rec"]
        /\ job'["ctl"].todo = (IF k = "stop" THEN Stop ELSE Connect)
        /\ job'["ctl"].at = "turn" /\ job'["ctl"].kind = k /\ job'["ctl"].saw = None
        /\ job'["ctl"].ok /\ job'["ctl"].last = "none" /\ job'["ctl"].num = 0
    BY <1>1, <2>1 DEF Drivers, Idle
  <2>3. k \notin MouseKinds /\ (k \in LeavingKinds => k = "stop") /\ k \notin Operations \cup {"dragged"}
    BY NoOperation DEF LeavingKinds, Operations
  <2>4. Scripted("ctl")' /\ Placed("ctl")'
    BY <2>2, <2>3, RecScripts, LeavingScripts DEF Scripted, Placed, Detaching
  <2>5. \A e \in Drivers \ {"ctl"} : Scripted(e)' /\ Placed(e)'
    BY <2>2 DEF Scripts, Drivers, Scripted, Placed, Detaching
  <2> QED  BY <2>4, <2>5 DEF Scripts, Drivers
<1>6. CASE Handle
  <2> DEFINE m == Head(wire)
  <2>1. CASE Replied(m) /\ m.by # None
    <3>1. m \in Message /\ wire # <<>> /\ 1 \in DOMAIN wire /\ m = wire[1]
      BY <1>6 DEF Handle, TypeOK
    <3>2. m.by \in Drivers
      BY <2>1, <3>1 DEF Message
    <3>3. PICK d \in Drivers : d = m.by
      BY <3>2
    <3>4. job[d].at = "sent" /\ (m.num # 0 => m.ok /\ job[d].last = "attach") /\ (Detaching(d) => m.ok)
      BY <3>1, <3>3 DEF Posted
    <3>5. job'[d] = Answered(job[d], m) /\ \A e \in Drivers \ {d} : job'[e] = job[e]
      BY <1>1, <2>1, <3>3 DEF Replied
    <3>6. /\ job'[d].todo = job[d].todo /\ job'[d].kind = job[d].kind /\ job'[d].saw = job[d].saw
          /\ job'[d].at = "back" /\ job'[d].last = job[d].last /\ job'[d].num = m.num
          /\ job'[d].ok = m.ok
      BY <1>1, <3>5 DEF Answered, Job
    <3> HIDE DEF m
    <3>7. Scripted(d)'
      BY <3>6, ScriptedKept DEF Scripts
    <3>8. Placed(d)'
      BY <3>4, <3>6 DEF Placed, Detaching
    <3>9. \A e \in Drivers \ {d} : Scripted(e)' /\ Placed(e)'
      BY <3>5 DEF Scripts, Scripted, Placed, Detaching
    <3> QED  BY <3>7, <3>8, <3>9 DEF Scripts
  <2>2. CASE UNCHANGED job
    BY <1>2, <2>2
  <2>3. CASE Recovers(None)
    BY <2>3, RecoversScripts
  <2> QED  BY <1>6, <2>1, <2>2, <2>3 DEF Handle, Replied, PageChanged, TargetGone
<1>7. CASE LinkLost
  <2>1. ASSUME NEW d \in Drivers  PROVE Scripted(d)' /\ Placed(d)'
    <3>1. CASE job[d].at = "sent"
      <4>1. job'[d] = [job[d] EXCEPT !.at = "back", !.ok = job[d].last \in Lenient]
        BY <1>7, <3>1 DEF LinkLost
      <4>2. /\ job'[d].todo = job[d].todo /\ job'[d].kind = job[d].kind /\ job'[d].saw = job[d].saw
            /\ job'[d].at = "back" /\ job'[d].last = job[d].last /\ job'[d].num = job[d].num
            /\ job'[d].ok = (job[d].last \in Lenient)
        BY <1>1, <4>1 DEF Job
      <4>3. Placed(d)'
        BY <3>1, <4>2 DEF Scripts, Placed, Lenient, Detaching
      <4> QED  BY <4>2, <4>3, ScriptedKept DEF Scripts
    <3>2. CASE job[d].at # "sent"
      <4>1. job'[d] = job[d]
        BY <1>7, <3>2 DEF LinkLost
      <4> QED  BY <4>1 DEF Scripts, Scripted, Placed, Detaching
    <3> QED  BY <3>1, <3>2
  <2> QED  BY <2>1 DEF Scripts
<1>8. CASE EnsureActive
  BY <1>8, RecoversScripts DEF EnsureActive
<1>9. CASE Chrome \/ Outside \/ PauseResume
  BY <1>2, <1>9 DEF Chrome, Outside, PauseResume
<1> QED  BY <1>3, <1>4, <1>5, <1>6, <1>7, <1>8, <1>9 DEF Other

-----------------------------------------------------------------------------
(* Steps that send no command                                               *)

\* A driver begins, goes on or ends.
Rests(d) ==
    /\ job[d].at # "sent" /\ job'[d].at \in {"turn", "idle"}
    /\ job'[d].last = "none" /\ job'[d].num = 0
    /\ job[d].last = "attach" \/ (job[d].last = "enable" /\ ~job[d].ok) => Lost
\* A message that is nobody's reply is handled.
Drops ==
    \/ wire' = wire
    \/ /\ wire # <<>> /\ wire' = Tail(wire) /\ Head(wire).by = None
       /\ Head(wire).kind = "gone" /\ Head(wire).on = sid => Lost
\* A step that sends nothing and in which Chrome does nothing.
Quiet ==
    /\ UNCHANGED <<inbox, home, live, held>> /\ (link' = link \/ link' = TRUE)
    /\ Drops /\ (Same \/ Lost)
    /\ \A d \in Drivers : CalmApart(job'[d], job[d]) \/ Rests(d)

\* q is p without its first k elements.
Shifted(p, q, k) ==
    /\ \A i \in DOMAIN q : i \in Nat \ {0} /\ i + k \in DOMAIN p /\ q[i] = p[i + k]
    /\ \A i \in DOMAIN p : i \in Nat /\ (i > k => i - k \in DOMAIN q /\ q[i - k] = p[i])

\* The tail of a sequence is the sequence without its first element.
LEMMA TailShifts ==
    ASSUME NEW S, NEW p \in Seq(S), p # <<>>
    PROVE  Shifted(p, Tail(p), 1) /\ Tail(p) \in Seq(S) /\ p[1] = Head(p) /\ 1 \in DOMAIN p
<1>1. /\ DOMAIN p = 1..Len(p) /\ Len(p) \in Nat /\ DOMAIN Tail(p) = 1..(Len(p) - 1)
      /\ \A i \in 1..(Len(p) - 1) : Tail(p)[i] = p[i + 1]
  OBVIOUS
<1>2. \A i \in DOMAIN p : i > 1 => i - 1 \in DOMAIN Tail(p) /\ (i - 1) + 1 = i
  BY <1>1
<1>3. Tail(p) \in Seq(S) /\ p[1] = Head(p) /\ 1 \in DOMAIN p
  OBVIOUS
<1> QED  BY <1>1, <1>2, <1>3 DEF Shifted

\* The messages that remain: all of them, or all but the first, nobody's reply.
LEMMA DropsIs ==
    ASSUME TypeOK, Drops
    PROVE  \E k \in {0, 1} :
              /\ Shifted(wire, wire', k)
              /\ \A i \in DOMAIN wire : i <= k =>
                    /\ wire[i].by = None
                    /\ wire[i].kind = "gone" /\ wire[i].on = sid => Lost
<1>0. wire \in Seq(Message) /\ DOMAIN wire = 1..Len(wire) /\ Len(wire) \in Nat
  BY DEF TypeOK
<1>1. CASE wire' = wire
  <2>1. Shifted(wire, wire', 0)
    BY <1>0, <1>1 DEF Shifted
  <2>2. \A i \in DOMAIN wire : ~(i <= 0)
    BY <1>0
  <2> QED  BY <2>1, <2>2
<1>2. CASE wire' # wire
  <2>1. Shifted(wire, wire', 1) /\ wire[1] = Head(wire)
    BY <1>0, <1>2, TailShifts DEF Drops
  <2>2. \A i \in DOMAIN wire : i <= 1 => i = 1
    BY <1>0
  <2> QED  BY <1>2, <2>1, <2>2 DEF Drops
<1> QED  BY <1>1, <1>2

\* A quiet step loses no command of a driver that waits,
LEMMA QuietPosted ==
    ASSUME TypeOK, Posted, Quiet
    PROVE  Posted'
<1>1. PICK k \in {0, 1} :
        /\ Shifted(wire, wire', k)
        /\ \A i \in DOMAIN wire : i <= k => wire[i].by = None
  BY DropsIs DEF Quiet
<1>2. \A e \in Drivers : e # None
  BY TabAssumption DEF Drivers
<1>3. inbox' = inbox
  BY DEF Quiet
<1> SUFFICES ASSUME NEW e \in Drivers
    PROVE /\ \A i \in DOMAIN inbox' : inbox'[i].by = e =>
              /\ job'[e].at = "sent" /\ inbox'[i].cmd = job'[e].last
              /\ inbox'[i].cmd = "attach" => inbox'[i].to = job'[e].to
              /\ \A j \in DOMAIN inbox' : inbox'[j].by = e => i = j
              /\ \A j \in DOMAIN wire' : wire'[j].by # e
          /\ \A i \in DOMAIN wire' : wire'[i].by = e =>
              /\ job'[e].at = "sent" /\ wire'[i].kind = "reply"
              /\ \A j \in DOMAIN wire' : wire'[j].by = e => i = j
              /\ wire'[i].num # 0 => wire'[i].ok /\ job'[e].last = "attach"
              /\ Detaching(e)' => wire'[i].ok
          /\ job'[e].at = "sent" => \/ \E i \in DOMAIN inbox' : inbox'[i].by = e
                                    \/ \E i \in DOMAIN wire' : wire'[i].by = e
  BY DEF Posted
<1>4. CASE CalmApart(job'[e], job[e])
  <2>1. \A i \in DOMAIN inbox : inbox[i].by = e =>
            /\ job[e].at = "sent" /\ inbox[i].cmd = job[e].last
            /\ inbox[i].cmd = "attach" => inbox[i].to = job[e].to
            /\ \A j \in DOMAIN inbox : inbox[j].by = e => i = j
            /\ \A j \in DOMAIN wire : wire[j].by # e
    BY DEF Posted
  <2>2. \A i \in DOMAIN wire : wire[i].by = e =>
            /\ job[e].at = "sent" /\ wire[i].kind = "reply"
            /\ \A j \in DOMAIN wire : wire[j].by = e => i = j
            /\ wire[i].num # 0 => wire[i].ok /\ job[e].last = "attach"
            /\ Detaching(e) => wire[i].ok
    BY DEF Posted
  <2>3. job[e].at = "sent" => \/ \E i \in DOMAIN inbox : inbox[i].by = e
                              \/ \E i \in DOMAIN wire : wire[i].by = e /\ i > k
    BY <1>1, <1>2 DEF Posted, Shifted
  <2>4. \A i \in DOMAIN wire' : i + k \in DOMAIN wire /\ wire'[i] = wire[i + k]
    BY <1>1 DEF Shifted
  <2>5. \A i, j \in DOMAIN wire' : i + k = j + k => i = j
    BY <1>1 DEF Shifted
  <2>6. job'[e].at = "sent" => \/ \E i \in DOMAIN inbox' : inbox'[i].by = e
                               \/ \E i \in DOMAIN wire' : wire'[i].by = e
    BY <1>1, <1>3, <1>4, <2>3 DEF Shifted, CalmApart
  <2> QED  BY <1>3, <1>4, <2>1, <2>2, <2>4, <2>5, <2>6 DEF CalmApart, Detaching
<1>5. CASE job[e].at # "sent" /\ job'[e].at \in {"turn", "idle"}
  <2>1. \A i \in DOMAIN inbox : inbox[i].by # e
    BY <1>5 DEF Posted
  <2>2. \A i \in DOMAIN wire : wire[i].by # e
    BY <1>5 DEF Posted
  <2> QED  BY <1>1, <1>3, <1>5, <2>1, <2>2 DEF Shifted
<1> QED  BY <1>4, <1>5 DEF Quiet, Rests

\* makes up no session,
LEMMA QuietKnown ==
    ASSUME TypeOK, Known, Linked, Quiet
    PROVE  Known' /\ Linked'
<1>1. PICK k \in {0, 1} : Shifted(wire, wire', k)
  BY DropsIs DEF Quiet
<1>2. inbox' = inbox /\ home' = home /\ (sid' = sid \/ sid' = None) /\ (link' = link \/ link' = TRUE)
  BY DEF Quiet, Same, Lost
<1>3. \A d \in Drivers : job'[d].num = job[d].num \/ job'[d].num = 0
  BY DEF Quiet, Rests, CalmApart
<1>4. \A i \in DOMAIN wire' : wire'[i].num <= Len(home)
  BY <1>1 DEF Known, Shifted
<1>5. Len(home) \in Nat
  BY DEF TypeOK
<1>6. \A d \in Drivers : job'[d].num <= Len(home')
  BY <1>2, <1>3, <1>5 DEF Known
<1> QED  BY <1>2, <1>4, <1>6 DEF Known, Linked

\* gives no session away that an attach was answered with,
LEMMA QuietFresh ==
    ASSUME TypeOK, Fresh, Quiet
    PROVE  Fresh'
<1>1. PICK k \in {0, 1} : Shifted(wire, wire', k)
  BY DropsIs DEF Quiet
<1>2. inbox' = inbox /\ home' = home /\ held' = held /\ (sid' = sid \/ sid' = None)
  BY DEF Quiet, Same, Lost
<1>3. ASSUME NEW d \in Drivers, NEW n \in Nat, Offered(d, n)'
      PROVE  Offered(d, n) /\ job'[d].to = job[d].to
  <2>1. CalmApart(job'[d], job[d])
    BY <1>3 DEF Offered, Quiet, Rests
  <2> QED  BY <1>1, <1>3, <2>1 DEF Offered, Shifted, CalmApart
<1>4. \A n \in Nat : n # None
  BY TabAssumption
<1>5. \A d \in Drivers : \A n \in Nat : Offered(d, n)' =>
        \A e \in Drivers \ {d} : ~Offered(e, n)'
  BY <1>3 DEF Fresh
<1> QED  BY <1>2, <1>3, <1>4, <1>5 DEF Fresh

\* leaves the tab of the session as it was, or none,
LEMMA QuietFollows ==
    ASSUME TypeOK, TabFollows, Posted, Quiet
    PROVE  TabFollows'
<1>1. PICK k \in {0, 1} :
        /\ Shifted(wire, wire', k)
        /\ \A i \in DOMAIN wire : i <= k => wire[i].by = None
  BY DropsIs DEF Quiet
<1>2. inbox' = inbox /\ home' = home
  BY DEF Quiet
<1>3. CASE Lost
  BY <1>3 DEF TabFollows, Lost
<1>4. CASE Same /\ ~Lost
  <2>1. \A d \in Drivers : \/ CalmApart(job'[d], job[d])
                           \/ ~Attaching(d) /\ ~Attaching(d)'
    BY <1>4 DEF Attaching, Quiet, Rests
  <2>2. ASSUME NEW d \in Drivers, NEW e \in Drivers, Later(d, e),
               CalmApart(job'[d], job[d]), CalmApart(job'[e], job[e])
        PROVE  Later(d, e)'
    <3>1. d # None /\ e # None
      BY TabAssumption DEF Drivers
    <3>2. ASSUME NEW i \in DOMAIN wire', wire'[i].by = d, wire'[i].ok,
                 ~(job[e].at = "back" /\ job[e].num < wire'[i].num)
          PROVE  \E j \in DOMAIN wire' : j < i /\ wire'[j].by = e /\ wire'[j].num < wire'[i].num
      <4>1. i \in Nat /\ i + k \in DOMAIN wire /\ wire'[i] = wire[i + k]
        BY <1>1 DEF Shifted
      <4>2. PICK j \in DOMAIN wire : j < i + k /\ wire[j].by = e /\ wire[j].num < wire[i + k].num
        BY <2>2, <3>2, <4>1 DEF Later
      <4>3. j > k /\ j \in Nat
        BY <1>1, <3>1, <4>2 DEF Shifted
      <4>4. j - k \in DOMAIN wire' /\ wire'[j - k] = wire[j] /\ j - k < i
        BY <1>1, <4>1, <4>2, <4>3 DEF Shifted
      <4> QED  BY <4>1, <4>2, <4>4
    <3> QED  BY <1>2, <2>2, <3>2 DEF Later, CalmApart
  <2>3. sid' = sid /\ tab' = tab
    BY <1>4 DEF Same
  <2>4. sid' # None /\ tab' # None => \/ home'[sid'] = tab'
                                      \/ \E d \in Drivers : Attaching(d)' /\ job'[d].to = tab'
    BY <1>2, <2>1, <2>3 DEF TabFollows, Attaching, CalmApart
  <2>5. ASSUME NEW e \in Drivers, Attaching(e)', job'[e].at = "back" => job'[e].ok
        PROVE  \/ tab' \in {None, job'[e].to}
               \/ \E d \in Drivers \ {e} : Attaching(d)' /\ job'[d].to = tab' /\ Later(d, e)'
    <3>1. CalmApart(job'[e], job[e])
      BY <2>1, <2>5
    <3>2. \/ tab \in {None, job[e].to}
          \/ \E d \in Drivers \ {e} : Attaching(d) /\ job[d].to = tab /\ Later(d, e)
      BY <2>5, <3>1 DEF TabFollows, Attaching, CalmApart
    <3> QED  BY <2>1, <2>2, <2>3, <3>1, <3>2 DEF Attaching, CalmApart
  <2> QED  BY <2>4, <2>5 DEF TabFollows
<1> QED  BY <1>3, <1>4 DEF Quiet

\* and kills no session unseen.
LEMMA QuietAlive ==
    ASSUME TypeOK, Alive, Quiet
    PROVE  Alive'
<1>1. PICK k \in {0, 1} :
        /\ Shifted(wire, wire', k)
        /\ \A i \in DOMAIN wire : i <= k =>
              /\ wire[i].by = None
              /\ wire[i].kind = "gone" /\ wire[i].on = sid => Lost
  BY DropsIs DEF Quiet
<1>2. inbox' = inbox /\ live' = live
  BY DEF Quiet
<1>3. CASE Lost
  BY <1>3 DEF Alive, Lost
<1>4. CASE Same /\ ~Lost
  <2>1. sid' = sid
    BY <1>4 DEF Same
  <2>2. ASSUME NEW d \in Drivers, Doomed(d)  PROVE Doomed(d)'
    <3>1. CalmApart(job'[d], job[d])
      BY <1>4, <2>2 DEF Doomed, Quiet, Rests
    <3>2. d # None
      BY TabAssumption DEF Drivers
    <3>3. \A i \in DOMAIN wire : wire[i].by = d => i - k \in DOMAIN wire' /\ wire'[i - k] = wire[i]
      BY <1>1, <3>2 DEF Shifted
    <3> QED  BY <1>2, <2>2, <3>1, <3>3 DEF Doomed, CalmApart
  <2>3. \A i \in DOMAIN wire : wire[i].kind = "gone" /\ wire[i].on = sid =>
            i - k \in DOMAIN wire' /\ wire'[i - k] = wire[i]
    BY <1>1, <1>4 DEF Shifted
  <2>4. sid # None => \/ sid \in live'
                      \/ \E i \in DOMAIN wire' : wire'[i].kind = "gone" /\ wire'[i].on = sid
                      \/ \E d \in Drivers : Doomed(d)'
    BY <1>2, <2>2, <2>3 DEF Alive
  <2> QED  BY <2>1, <2>4 DEF Alive
<1> QED  BY <1>3, <1>4 DEF Quiet

\* A turn that sends nothing is quiet.
LEMMA TurnQuiet ==
    ASSUME TypeOK, Scripts, NEW d \in Drivers, Turn(d), (\E r : TurnGoes(d, r)) \/ TurnEnds(d)
    PROVE  Quiet
<1>1. UNCHANGED <<home, live, held, wire>> /\ job[d].at \in {"turn", "back"}
  BY TurnIs
<1>0. job \in [Drivers -> Job]
  BY DEF TypeOK
<1>2. ASSUME NEW r, TurnGoes(d, r)  PROVE Quiet
  <2>1. job[d].num = 0
    BY <1>1, <1>2 DEF TurnGoes, Scripts, Placed
  <2>2. job'[d] = r
    BY <1>0, <1>2 DEF TurnGoes
  <2>3. Rests(d)
    BY <1>1, <1>2, <2>1, <2>2 DEF TurnGoes, Rests
  <2>4. \A e \in Drivers \ {d} : CalmApart(job'[e], job[e])
    BY <1>0, <1>2 DEF TurnGoes, CalmApart
  <2> QED  BY <1>1, <1>2, <2>3, <2>4 DEF TurnGoes, Quiet, Drops
<1>3. CASE TurnEnds(d)
  <2>1. PICK r \in {Idle, [Idle EXCEPT !.todo = ResetInput, !.at = "turn", !.kind = "dragged"]} :
            job' = [job EXCEPT ![d] = r]
    BY <1>3 DEF TurnEnds
  <2>2. r \in Job /\ r.at \in {"turn", "idle"} /\ r.last = "none" /\ r.num = 0
    <3>1. [Idle EXCEPT !.todo = ResetInput, !.at = "turn", !.kind = "dragged"] \in Job
      BY IdleTyped, Literals DEF Kinds
    <3>2. Idle \in Job
      BY IdleTyped
    <3>3. CASE r = Idle
      BY <3>2, <3>3 DEF Idle
    <3>4. CASE r = [Idle EXCEPT !.todo = ResetInput, !.at = "turn", !.kind = "dragged"]
      BY <3>1, <3>4 DEF Idle
    <3> QED  BY <3>3, <3>4
  <2>3. job'[d] = r
    BY <1>0, <2>1
  <2>4. Rests(d)
    BY <1>1, <1>3, <2>2, <2>3 DEF TurnEnds, Rests
  <2>5. \A e \in Drivers \ {d} : CalmApart(job'[e], job[e])
    BY <1>0, <2>1 DEF CalmApart
  <2> QED  BY <1>1, <1>3, <2>4, <2>5 DEF TurnEnds, Quiet, Drops
<1> QED  BY <1>2, <1>3

-----------------------------------------------------------------------------
(* What is held and what is known                                           *)

\* The two things that inputState records, and what frees them.
LEMMA RecordedIs ==
    /\ Recorded = {"button", "key"} /\ StepThatFrees("button") = "freeButton"
    /\ StepThatFrees("key") = "freeKey"
  BY DEF Recorded, StepThatFrees

\* Nothing changes in what is held.
LEMMA HeldKept ==
    ASSUME TypeOK, HeldIsKnown, inbox' = inbox, held' = held, live' \subseteq live,
           sid' = sid \/ sid' = None, known' = known \/ sid = None,
           \A d \in Drivers : Releasing(job'[d]) =>
                \A x \in known' : In(StepThatFrees(x), job'[d].todo)
    PROVE  HeldIsKnown'
<1>1. None \notin live
  BY TabAssumption DEF TypeOK
<1> QED  BY <1>1 DEF HeldIsKnown

\* A step of one driver leaves the other, that is about to leave a session, what
\* frees it: recoveries press nothing, and stop() waits for the task.
LEMMA FreesOfOther ==
    ASSUME TypeOK, Scripts, Stopping, HeldIsKnown, NEW d \in Drivers, NEW e \in Drivers \ {d},
           job[d].at \in {"turn", "back"},
           known' = known \/ (job[d].todo # <<>> /\ known' = Believes(Head(job[d].todo))),
           Releasing(job[e]), NEW x \in known'
    PROVE  In(StepThatFrees(x), job[e].todo)
<1>1. known \subseteq Recorded /\ job[d] \in Job /\ job[e] \in Job
  BY JobTyped DEF TypeOK
<1>2. CASE x \in known
  BY <1>2 DEF HeldIsKnown
<1>3. CASE x \notin known
  <2>1. /\ job[d].todo # <<>> /\ Head(job[d].todo) \in {"press", "keyDown"} /\ x \in Recorded
    BY <1>1, <1>3 DEF Believes, Recorded
  <2>2. d = "task"
    <3>1. CASE d # "task"
      <4>1. Head(job[d].todo) \in RecSteps
        BY <1>1, <2>1, <3>1, TailParts DEF Scripts, Scripted, Job
      <4> QED  BY <2>1, <4>1 DEF RecSteps, ResetSteps
    <3> QED  BY <3>1
  <2>3. job[e].kind = "stop" /\ job[e].calm /\ e = "ctl"
    BY <2>2 DEF Scripts, Scripted, Releasing, Operations, BrowserKinds
  <2>4. job["ctl"].todo = Stop
    BY <2>2, <2>3 DEF Stopping
  <2> QED  BY <2>1, <2>3, <2>4, LeavingScripts, RecordedIs
<1> QED  BY <1>2, <1>3

\* ... and the driver itself, when it takes its next step.
LEMMA FreesOfSelf ==
    ASSUME TypeOK, Scripts, HeldIsKnown, NEW d \in Drivers, Releasing(job[d]),
           NEW next \in Seq(Steps), Follows(d, next), known' = Believes(Head(job[d].todo)),
           NEW x \in known'
    PROVE  In(StepThatFrees(x), next)
<1> DEFINE q == job[d].todo
           s == Head(q)
<1>1. known \subseteq Recorded /\ q \in Seq(Steps) /\ q # <<>>
  BY JobTyped DEF TypeOK, Job, Follows
<1>0. job[d].kind \in LeavingKinds
  BY DEF Releasing, LeavingKinds
<1>2. s \in LeavingSteps /\ Tail(q) \in Seq(Steps) /\ (\A f : In(f, q) => f = s \/ In(f, Tail(q)))
  BY <1>0, <1>1, TailParts DEF Scripts, Scripted
<1>3. x \in known /\ x \in Recorded
  BY <1>1, <1>2 DEF LeavingSteps, ResetSteps, Believes
<1>4. s # StepThatFrees(x)
  BY <1>3, RecordedIs DEF Believes
<1>5. In(StepThatFrees(x), q) /\ In(StepThatFrees(x), Tail(q))
  BY <1>2, <1>3, <1>4 DEF HeldIsKnown
<1>6. /\ <<"create">> \in Seq(Steps) /\ <<"depart">> \in Seq(Steps) /\ Navigate \in Seq(Steps)
      /\ \A b \in BOOLEAN : Closing(b) \in Seq(Steps)
  BY Literals DEF Navigate, Steps
<1> HIDE DEF q, s
<1>7. \A p \in Seq(Steps) : In(StepThatFrees(x), p \o Tail(q)) /\ In(StepThatFrees(x), p \o q)
  BY <1>1, <1>2, <1>5, WithinParts
<1> QED  BY <1>5, <1>6, <1>7 DEF Follows, q, s

\* A turn that sends nothing forgets nothing that is held: what it sets free in
\* inputState without a command has no session to be held in.
LEMMA TurnRestsHeld ==
    ASSUME TypeOK, Scripts, Linked, Stopping, HeldIsKnown, NEW d \in Drivers, Turn(d),
           (\E r : TurnGoes(d, r)) \/ TurnEnds(d)
    PROVE  HeldIsKnown'
<1>1. UNCHANGED <<home, live, held, wire>> /\ job[d].at \in {"turn", "back"} /\ job \in [Drivers -> Job]
  BY TurnIs DEF TypeOK
<1>2. inbox' = inbox /\ (sid' = sid \/ sid' = None) /\ KnownAfter(d)
  BY DEF TurnGoes, TurnEnds, Same, Lost
<1>3. known' = known \/ sid = None
  BY <1>2 DEF KnownAfter, Linked
<1>4. \A e \in Drivers \ {d} : job'[e] = job[e]
  BY <1>1 DEF TurnGoes, TurnEnds
<1>5. ASSUME NEW e \in Drivers \ {d}, Releasing(job'[e]), NEW x \in known'
      PROVE  In(StepThatFrees(x), job'[e].todo)
  BY <1>1, <1>2, <1>4, <1>5, FreesOfOther DEF KnownAfter
<1>6. ASSUME Releasing(job'[d]), NEW x \in known'
      PROVE  In(StepThatFrees(x), job'[d].todo)
  <2>1. ASSUME NEW r, TurnGoes(d, r)  PROVE In(StepThatFrees(x), job'[d].todo)
    <3>1. /\ job'[d] = r /\ r.kind = job[d].kind /\ r.calm = job[d].calm
          /\ r.todo \in Seq(Steps) /\ Follows(d, r.todo)
          /\ known' = Believes(Head(job[d].todo))
      BY <1>1, <2>1 DEF TurnGoes, Job
    <3>2. Releasing(job[d])
      BY <1>6, <3>1 DEF Releasing
    <3> QED  BY <3>1, <3>2, FreesOfSelf
  <2>2. CASE TurnEnds(d)
    <3>1. job'[d].kind \in {"none", "dragged"}
      <4>1. CASE job' = [job EXCEPT ![d] = Idle]
        BY <1>1, <4>1 DEF Idle
      <4>2. CASE job' = [job EXCEPT ![d] = [Idle EXCEPT !.todo = ResetInput, !.at = "turn",
                                                        !.kind = "dragged"]]
        BY <1>1, <4>2 DEF Idle
      <4> QED  BY <2>2, <4>1, <4>2 DEF TurnEnds
    <3> QED  BY <1>6, <3>1 DEF Releasing
  <2> QED  BY <2>1, <2>2
<1> QED  BY <1>1, <1>2, <1>3, <1>5, <1>6, HeldKept

\* What TypeOK and Scripts leave of the invariant.
Rest == /\ Posted /\ Linked /\ Known /\ Fresh /\ TabFollows
        /\ Looked /\ Alive /\ Stopping /\ HeldIsKnown

\* A calm mouse action and the other drivers: they have not begun to do anything.
LEMMA CalmIs ==
    ASSUME TypeOK, Scripts, Looked, CalmMouse("task")
    PROVE  /\ job["task"].at # "idle"
           /\ job["task"].kind \in MouseKinds /\ Within(job["task"].todo, MouseSteps)
           /\ job["task"].last \in MouseSteps \cup {"none"}
           /\ \A e \in Drivers \ {"task"} : job[e].at # "idle" =>
                 /\ job[e].at = "turn" /\ job[e].ok /\ job[e].last = "none" /\ job[e].todo # <<>>
                 /\ Head(job[e].todo) \in {"drain", "cancel"}
<1>1. job["task"].saw # None
  BY DEF CalmMouse
<1>2. job["task"] # Idle
  BY <1>1 DEF Idle
<1>3. "task" \in Drivers
  BY DEF Drivers
<1> QED  BY <1>1, <1>2, <1>3 DEF Looked, Scripts, Scripted, Placed, Waits

\* A turn that sends nothing does not move a calm mouse action to another tab: a
\* recovery goes on only when the task is over.
LEMMA TurnRestsLooked ==
    ASSUME TypeOK, Scripts, Looked, NEW d \in Drivers, Turn(d),
           (\E r : TurnGoes(d, r)) \/ TurnEnds(d)
    PROVE  Looked'
<1>1. UNCHANGED <<home, live, held, wire>> /\ job[d].at \in {"turn", "back"} /\ job \in [Drivers -> Job]
  BY TurnIs DEF TypeOK
<1>2. inbox' = inbox /\ (sid' = sid \/ sid' = None)
  BY DEF TurnGoes, TurnEnds, Same, Lost
<1>3. \A e \in Drivers \ {d} : job'[e] = job[e]
  BY <1>1 DEF TurnGoes, TurnEnds
<1>4. \/ job'[d].saw = None
      \/ job'[d].saw = job[d].saw /\ job'[d].calm = job[d].calm /\ \E r : TurnGoes(d, r)
  <2>1. ASSUME NEW r, TurnGoes(d, r)  PROVE job'[d].saw = job[d].saw /\ job'[d].calm = job[d].calm
    BY <1>1, <2>1 DEF TurnGoes
  <2>2. CASE job' = [job EXCEPT ![d] = Idle]
    BY <1>1, <2>2 DEF Idle
  <2>3. CASE job' = [job EXCEPT ![d] = [Idle EXCEPT !.todo = ResetInput, !.at = "turn", !.kind = "dragged"]]
    BY <1>1, <2>3 DEF Idle
  <2> QED  BY <2>1, <2>2, <2>3 DEF TurnEnds
<1>5. ASSUME CalmMouse("task")'
      PROVE  /\ CalmMouse("task") /\ job'["task"].saw = job["task"].saw
             /\ \A e \in Drivers \ {"task"} : job'[e] = job[e]
  <2>1. CalmMouse("task") /\ job'["task"].saw = job["task"].saw
    BY <1>3, <1>4, <1>5 DEF CalmMouse, Drivers
  <2>2. d = "task"
    <3>1. CASE d # "task" /\ TurnEnds(d)
      BY <1>1, <2>1, <3>1, CalmIs DEF TurnEnds
    <3>2. ASSUME d # "task", NEW r, TurnGoes(d, r)  PROVE FALSE
      BY <1>1, <2>1, <3>2, CalmIs DEF TurnGoes
    <3> QED  BY <3>1, <3>2
  <2> QED  BY <1>3, <2>1, <2>2
<1>6. CalmMouse("task")' => /\ \A e \in Drivers \ {"task"} : job'[e].at = "idle" \/ Waits(e)'
                            /\ sid' # None => home'[sid'] = job'["task"].saw
  BY <1>1, <1>2, <1>5 DEF Looked, Waits
<1> QED  BY <1>1, <1>2, <1>6 DEF Looked

\* No step adds a wait for the queue.
LEMMA NoDrainFollows ==
    ASSUME TypeOK, NEW d \in Drivers, NEW next \in Seq(Steps), Follows(d, next),
           ~In("drain", job[d].todo)
    PROVE  ~In("drain", next) /\ Head(job[d].todo) # "drain"
<1> DEFINE q == job[d].todo
<1>1. q \in Seq(Steps) /\ q # <<>>
  BY JobTyped DEF Job, Follows
<1>2. Tail(q) \in Seq(Steps) /\ ~In("drain", Tail(q)) /\ Head(q) # "drain"
  <2>1. Head(q) # "drain"
    BY <1>1 DEF In
  <2> QED  BY <1>1, <2>1, ChainedTail, TailParts
<1>3. /\ Navigate \in Seq(Steps) /\ ~In("drain", Navigate)
      /\ \A b \in BOOLEAN : Closing(b) \in Seq(Steps) /\ ~In("drain", Closing(b))
      /\ <<"create">> \in Seq(Steps) /\ <<"depart">> \in Seq(Steps)
      /\ ~In("drain", <<"create">>) /\ ~In("drain", <<"depart">>)
  <2>1. <<"create">> \in Seq(Steps) /\ <<"depart">> \in Seq(Steps)
    BY DEF Steps
  <2>2. ~In("drain", <<"create">>) /\ ~In("drain", <<"depart">>)
    BY DEF In
  <2> QED  BY <2>1, <2>2, BrowserScripts, PlainIs, Literals
<1> HIDE DEF q
<1>4. \A p \in Seq(Steps) : ~In("drain", p) => ~In("drain", p \o Tail(q)) /\ ~In("drain", p \o q)
  BY <1>1, <1>2, WithinParts DEF q
<1>5. ~In("drain", next)
  BY <1>2, <1>3, <1>4 DEF Follows, q
<1> QED  BY <1>2, <1>5 DEF q

\* A turn that sends nothing keeps what a calm stop() relies on.
LEMMA TurnRestsStopping ==
    ASSUME TypeOK, Scripts, Orders, Stopping, NEW d \in Drivers, Turn(d),
           (\E r : TurnGoes(d, r)) \/ TurnEnds(d)
    PROVE  Stopping'
<1>1. job[d].at \in {"turn", "back"} /\ job \in [Drivers -> Job]
  BY TurnIs DEF TypeOK
<1>2. \A e \in Drivers \ {d} : job'[e] = job[e]
  BY <1>1 DEF TurnGoes, TurnEnds
<1>3. ASSUME NEW r, TurnGoes(d, r)
      PROVE  /\ job'[d] = r /\ r.kind = job[d].kind /\ r.calm = job[d].calm
             /\ r.todo \in Seq(Steps) /\ Follows(d, r.todo)
  BY <1>1, <1>3 DEF TurnGoes, Job
<1>4. ASSUME TurnEnds(d)
      PROVE  job'[d].kind # "stop" /\ ~In("drain", job'[d].todo)
  <2>1. ~In("drain", ResetInput) /\ ~In("drain", <<>>)
    BY DEF In, ResetInput
  <2>2. CASE job' = [job EXCEPT ![d] = Idle]
    BY <1>1, <2>1, <2>2 DEF Idle
  <2>3. CASE job' = [job EXCEPT ![d] = [Idle EXCEPT !.todo = ResetInput, !.at = "turn", !.kind = "dragged"]]
    BY <1>1, <2>1, <2>3 DEF Idle
  <2> QED  BY <1>4, <2>2, <2>3 DEF TurnEnds
<1> SUFFICES ASSUME job'["ctl"].kind = "stop", job'["ctl"].calm
             PROVE  /\ aborted' /\ ~In("drain", job'["rec"].todo)
                    /\ \/ job'["ctl"].at = "turn" /\ job'["ctl"].todo = Stop
                       \/ job'["task"].at = "idle"
  BY DEF Stopping
<1>5. job["ctl"].kind = "stop" /\ job["ctl"].calm
  BY <1>2, <1>3, <1>4 DEF Drivers
<1>6. /\ aborted /\ ~In("drain", job["rec"].todo)
      /\ \/ job["ctl"].at = "turn" /\ job["ctl"].todo = Stop
         \/ job["task"].at = "idle"
  BY <1>5 DEF Stopping
<1>7. CASE d = "task"
  <2>1. job'["rec"] = job["rec"] /\ job'["ctl"] = job["ctl"] /\ job["task"].at # "idle"
    BY <1>1, <1>2, <1>7 DEF Drivers
  <2>2. aborted'
    <3>1. ASSUME NEW r, TurnGoes(d, r)  PROVE aborted' = aborted
      BY <1>7, <2>1, <3>1 DEF TurnGoes
    <3> QED  BY <1>6, <3>1 DEF TurnEnds
  <2> QED  BY <1>6, <2>1, <2>2
<1>8. CASE d = "rec"
  <2>1. job'["task"] = job["task"] /\ job'["ctl"] = job["ctl"]
    BY <1>2, <1>8 DEF Drivers
  <2>2. aborted' /\ ~In("drain", job'["rec"].todo)
    <3>1. ASSUME NEW r, TurnGoes(d, r)  PROVE aborted' /\ ~In("drain", job'["rec"].todo)
      <4>1. ~In("drain", r.todo) /\ Head(job["rec"].todo) # "drain"
        BY <1>3, <1>6, <1>8, <3>1, NoDrainFollows
      <4>2. aborted'
        BY <1>6, <1>8, <3>1, <4>1 DEF TurnGoes
      <4> QED  BY <1>3, <1>8, <3>1, <4>1, <4>2
    <3> QED  BY <1>4, <1>6, <1>8, <3>1 DEF TurnEnds
  <2> QED  BY <1>6, <2>1, <2>2
<1>9. CASE d = "ctl"
  <2>1. job'["task"] = job["task"] /\ job'["rec"] = job["rec"]
    BY <1>2, <1>9 DEF Drivers
  <2>2. PICK r : TurnGoes(d, r)
    BY <1>4, <1>9
  <2>3. Head(job["ctl"].todo) # "drain" /\ job["ctl"].todo # <<>>
    <3>1. Within(job["ctl"].todo, StopSteps)
      BY <1>5 DEF Orders, Ordered, Drivers
    <3>2. job["ctl"].todo \in Seq(Steps) /\ job["ctl"].todo # <<>>
      BY <1>1, <1>9, <2>2 DEF TurnGoes, Follows, Job
    <3>3. Head(job["ctl"].todo) \in StopSteps
      BY <3>1, <3>2, TailParts
    <3> QED  BY <3>2, <3>3 DEF StopSteps, ResetSteps
  <2>4. aborted'
    BY <1>6, <1>9, <2>2, <2>3 DEF TurnGoes
  <2>5. job["task"].at = "idle"
    <3>1. CASE job["ctl"].todo = Stop
      BY <1>9, <2>2, <3>1, LeavingScripts DEF TurnGoes
    <3> QED  BY <1>6, <3>1
  <2> QED  BY <1>6, <2>1, <2>4, <2>5
<1> QED  BY <1>7, <1>8, <1>9 DEF Drivers

-----------------------------------------------------------------------------
(* What begins outside the queue                                            *)

\* autoRecoverTarget, connect() or stop() begins.
Starts(b) ==
    /\ Rests(b) /\ job[b].at = "idle" /\ aborted' = TRUE /\ job'["task"] = job["task"]
    /\ job'[b].at = "turn" /\ job'[b].kind \in {"recover", "connect", "stop"}
    /\ job'[b].todo # <<>> /\ Head(job'[b].todo) \in {"drain", "cancel"}
    /\ IF b = "ctl"
       THEN /\ job'["rec"] = job["rec"]
            /\ job'["ctl"].kind = "stop" => /\ job'["ctl"].todo = Stop
                                            /\ job'["ctl"].calm => ~In("drain", job["rec"].todo)
       ELSE /\ job'["rec"].kind # "stop" /\ CalmApart(job'["ctl"], job["ctl"])
            /\ job'["ctl"].calm => job["ctl"].at = "idle"
MayStart == \/ \E b \in {"rec", "ctl"} : Starts(b)
            \/ job' = job /\ aborted' = aborted

\* A quiet step in which a driver outside the queue may begin keeps the rest of
\* the invariant.
LEMMA StartKeeps ==
    ASSUME TypeOK, Scripts, Rest, Quiet, known' = known, MayStart
    PROVE  Rest'
<1>1. Posted' /\ Known' /\ Linked' /\ Fresh' /\ TabFollows' /\ Alive'
  BY QuietPosted, QuietKnown, QuietFresh, QuietFollows, QuietAlive DEF Rest
<1>2. job \in [Drivers -> Job] /\ Looked /\ Stopping /\ HeldIsKnown
  BY DEF TypeOK, Rest
<1>3. UNCHANGED <<inbox, home, live, held>> /\ (sid' = sid \/ sid' = None)
  BY DEF Quiet, Same, Lost
<1>4. ASSUME NEW b \in {"rec", "ctl"}, Starts(b)
      PROVE  Looked' /\ Stopping' /\ \A d \in Drivers : Releasing(job'[d]) =>
                                        \A x \in known' : In(StepThatFrees(x), job'[d].todo)
  <2>1. \A e \in Drivers \ {b} : job'[e].at = job[e].at /\ job'[e].todo = job[e].todo
                                 /\ job'[e].kind = job[e].kind
    BY <1>4 DEF Starts, Drivers, CalmApart
  <2>2. Waits(b)' /\ job'["task"] = job["task"]
    BY <1>4 DEF Starts, Waits
  <2>3. Looked'
    BY <1>2, <1>3, <2>1, <2>2 DEF Looked, CalmMouse, Waits
  <2>4. ASSUME b = "rec"  PROVE ~(job'["ctl"].kind = "stop" /\ job'["ctl"].calm)
    <3>1. job["ctl"].at = "idle" => job["ctl"].kind # "stop"
      BY DEF Scripts, Placed, Drivers, Idle
    <3> QED  BY <1>4, <2>4, <3>1 DEF Starts, CalmApart
  <2>5. Stopping'
    BY <1>4, <2>4 DEF Stopping, Starts
  <2>6. ASSUME NEW d \in Drivers, Releasing(job'[d]), NEW x \in known'
        PROVE  In(StepThatFrees(x), job'[d].todo)
    <3>1. x \in known /\ x \in Recorded
      BY <2>6 DEF TypeOK
    <3>2. CASE d = b
      <4>1. d = "ctl" /\ job'["ctl"].todo = Stop
        BY <1>4, <2>4, <2>6, <3>2 DEF Starts, Releasing
      <4> QED  BY <3>1, <4>1, LeavingScripts, RecordedIs
    <3>3. CASE d # b
      <4>1. Releasing(job[d])
        BY <1>4, <2>1, <2>4, <2>6, <3>3 DEF Releasing, Starts, Drivers
      <4> QED  BY <1>2, <2>1, <3>1, <3>3, <4>1 DEF HeldIsKnown
    <3> QED  BY <3>2, <3>3
  <2> QED  BY <2>3, <2>5, <2>6
<1>5. ASSUME job' = job, aborted' = aborted
      PROVE  Looked' /\ Stopping' /\ \A d \in Drivers : Releasing(job'[d]) =>
                                        \A x \in known' : In(StepThatFrees(x), job'[d].todo)
  BY <1>2, <1>3, <1>5 DEF Looked, CalmMouse, Waits, Stopping, HeldIsKnown, Releasing
<1>6. Looked' /\ Stopping' /\ HeldIsKnown'
  BY <1>2, <1>3, <1>4, <1>5, HeldKept DEF MayStart
<1> QED  BY <1>1, <1>6 DEF Rest

\* autoRecoverTarget, connect() and stop() are sequences of steps.
LEMMA RecScriptsTyped ==
    Recover \in Seq(Steps) /\ Connect \in Seq(Steps) /\ Stop \in Seq(Steps)
  BY DrainsFirst

\* A driver that is idle begins.
LEMMA StartRests ==
    ASSUME TypeOK, Scripts, NEW b \in {"rec", "ctl"}, job[b].at = "idle",
           NEW k \in {"recover", "connect", "stop"}, NEW q \in {Recover, Connect, Stop},
           job'[b].at = "turn", job'[b].last = "none", job'[b].num = 0, job'[b].kind = k,
           job'[b].todo = q
    PROVE  /\ Rests(b) /\ job'[b].kind \in {"recover", "connect", "stop"}
           /\ job'[b].todo # <<>> /\ Head(job'[b].todo) \in {"drain", "cancel"}
<1>1. q # <<>> /\ Head(q) \in {"drain", "cancel"}
  BY DrainsFirst, LeavingScripts
<1>2. job[b].last = "none"
  BY DEF Scripts, Placed, Drivers, Idle
<1> QED  BY <1>1, <1>2 DEF Rests

\* A stop() that is calm begins when no recovery waits for the queue.
LEMMA CalmStop ==
    ASSUME TypeOK, Scripts, Orders, ~At("rec", "drain")
    PROVE  ~In("drain", job["rec"].todo)
<1> SUFFICES ASSUME In("drain", job["rec"].todo)  PROVE At("rec", "drain")
  OBVIOUS
<1>1. job["rec"].at = "turn" /\ job["rec"].todo \in {Recover, Connect}
  BY DEF Orders, Ordered, Drivers
<1>2. job["rec"].ok /\ job["rec"].last = "none"
  BY <1>1 DEF Scripts, Placed, Drivers
<1>3. job["rec"].todo # <<>> /\ Head(job["rec"].todo) = "drain"
  BY <1>1, DrainsFirst
<1> QED  BY <1>1, <1>2, <1>3 DEF At

\* connect() or stop() begins.
LEMMA CommandStarts ==
    ASSUME TypeOK, Scripts, Orders, NEW k \in {"connect", "stop"}, Command(k)
    PROVE  Starts("ctl")
<1> DEFINE q == IF k = "stop" THEN Stop ELSE Connect
           b == ~At("rec", "drain")
<1>1. /\ job["ctl"].at = "idle" /\ aborted' = TRUE
      /\ job' = [job EXCEPT !["ctl"] = [Idle EXCEPT !.todo = q, !.at = "turn", !.kind = k, !.calm = b]]
  BY DEF Command
<1>2. q \in {Recover, Connect, Stop} /\ (k = "stop" => q = Stop)
  OBVIOUS
<1>3. b => ~In("drain", job["rec"].todo)
  BY CalmStop
<1> HIDE DEF q, b
<1>4. /\ job'["task"] = job["task"] /\ job'["rec"] = job["rec"]
      /\ job'["ctl"].at = "turn" /\ job'["ctl"].last = "none" /\ job'["ctl"].num = 0
      /\ job'["ctl"].kind = k /\ job'["ctl"].todo = q /\ job'["ctl"].calm = b
  BY <1>1 DEF Idle, TypeOK, Drivers
<1>5. /\ Rests("ctl") /\ job'["ctl"].kind \in {"recover", "connect", "stop"}
      /\ job'["ctl"].todo # <<>> /\ Head(job'["ctl"].todo) \in {"drain", "cancel"}
  BY <1>1, <1>2, <1>4, StartRests
<1> QED  BY <1>1, <1>2, <1>3, <1>4, <1>5 DEF Starts

\* A recovery begins, unless one is under way.
LEMMA RecoversStarts ==
    ASSUME TypeOK, Scripts, NEW t \in Tabs \cup {None}, Recovers(t)
    PROVE  MayStart /\ \A d \in Drivers : CalmApart(job'[d], job[d]) \/ Rests(d)
<1>1. CASE link /\ job["rec"].at = "idle"
  <2>1. /\ job'["task"] = job["task"] /\ aborted' = TRUE
        /\ job'["rec"] = [Idle EXCEPT !.todo = Recover, !.at = "turn", !.kind = "recover", !.to = t]
        /\ CalmApart(job'["ctl"], job["ctl"])
        /\ job'["ctl"].calm = (job["ctl"].at = "idle")
    BY <1>1, RecBegun DEF TypeOK
  <2>2. /\ job'["rec"].at = "turn" /\ job'["rec"].last = "none" /\ job'["rec"].num = 0
        /\ job'["rec"].kind = "recover" /\ job'["rec"].todo = Recover
    BY <2>1 DEF Idle
  <2>3. /\ Rests("rec") /\ job'["rec"].kind \in {"recover", "connect", "stop"}
        /\ job'["rec"].todo # <<>> /\ Head(job'["rec"].todo) \in {"drain", "cancel"}
    BY <1>1, <2>2, StartRests
  <2>4. Starts("rec")
    BY <1>1, <2>1, <2>2, <2>3 DEF Starts
  <2> QED  BY <2>1, <2>3, <2>4 DEF MayStart, Drivers, CalmApart
<1>2. CASE ~(link /\ job["rec"].at = "idle")
  BY <1>2 DEF Recovers, MayStart, CalmApart
<1> QED  BY <1>1, <1>2

\* An operation that finds no session starts a recovery.
LEMMA EnsureActiveRest ==
    ASSUME TypeOK, Scripts, Rest, EnsureActive
    PROVE  Rest'
<1>1. Recovers(tab) /\ tab \in Tabs \cup {None}
      /\ UNCHANGED <<inbox, home, live, held, link, wire, sid, tab, known>>
  BY DEF EnsureActive, TypeOK, chrome, session
<1>2. MayStart /\ Quiet
  BY <1>1, RecoversStarts DEF Quiet, Drops, Same
<1> QED  BY <1>1, <1>2, StartKeeps

\* connect() or stop() is called.
LEMMA CommandRest ==
    ASSUME TypeOK, Scripts, Orders, Rest, NEW k \in {"connect", "stop"}, Command(k)
    PROVE  Rest'
<1>1. UNCHANGED <<inbox, home, live, held, link, wire, sid, tab, known>>
  BY DEF Command, chrome, session
<1>2. Starts("ctl")
  BY CommandStarts
<1>3. Quiet
  BY <1>1, <1>2 DEF Quiet, Drops, Same, Starts, Drivers, CalmApart
<1> QED  BY <1>1, <1>2, <1>3, StartKeeps DEF MayStart

\* A step that changes nothing the invariant speaks of.
LEMMA StutterRest ==
    ASSUME TypeOK, Scripts, Rest,
           UNCHANGED <<inbox, home, live, held, link, wire, sid, tab, known, job, aborted>>
    PROVE  Rest'
<1>1. Quiet /\ MayStart
  BY DEF Quiet, Drops, Same, MayStart, CalmApart
<1> QED  BY <1>1, StartKeeps

\* A task begins.
LEMMA BeginRest ==
    ASSUME TypeOK, Scripts, Rest, NEW k \in Operations, Begin(k)
    PROVE  Rest'
<1>1. PICK t \in Tabs \cup {None} : job' = [job EXCEPT !["task"] =
            [Idle EXCEPT !.todo = Script(k), !.at = "turn", !.kind = k, !.to = t,
                         !.saw = IF k \in MouseKinds THEN seen ELSE None,
                         !.calm = \A d \in {"rec", "ctl"} : job[d].at = "idle"]]
  BY DEF Begin
<1>2. /\ UNCHANGED <<inbox, home, live, held, link, wire, sid, tab, known, aborted>>
      /\ job["task"].at = "idle" /\ ~aborted /\ Accepts(k)
  BY DEF Begin
<1> DEFINE r == [Idle EXCEPT !.todo = Script(k), !.at = "turn", !.kind = k, !.to = t,
                         !.saw = IF k \in MouseKinds THEN seen ELSE None,
                         !.calm = \A d \in {"rec", "ctl"} : job[d].at = "idle"]
<1>3. r \in Job
  BY BegunTyped
<1>4. /\ r.at = "turn" /\ r.last = "none" /\ r.num = 0 /\ r.kind = k /\ r.todo = Script(k)
      /\ r.saw = (IF k \in MouseKinds THEN seen ELSE None) 
      /\ r.calm = (\A d \in {"rec", "ctl"} : job[d].at = "idle")
  BY DEF Idle
<1> HIDE DEF r
<1>5. job' = [job EXCEPT !["task"] = r]
  BY <1>1 DEF r
<1>6. job'["task"] = r /\ \A e \in Drivers \ {"task"} : job'[e] = job[e]
  BY <1>5 DEF TypeOK, Drivers
<1>7. job["task"].last = "none"
  BY <1>2 DEF Scripts, Placed, Drivers, Idle
<1>8. Rests("task")
  BY <1>2, <1>4, <1>6, <1>7 DEF Rests
<1>9. Quiet
  BY <1>2, <1>6, <1>8 DEF Quiet, Drops, Same, CalmApart
<1>10. Posted' /\ Known' /\ Linked' /\ Fresh' /\ TabFollows' /\ Alive'
  BY <1>9, QuietPosted, QuietKnown, QuietFresh, QuietFollows, QuietAlive DEF Rest
<1>11. Looked'
  <2>1. ASSUME CalmMouse("task")'
        PROVE  /\ \A e \in Drivers \ {"task"} : job'[e].at = "idle"
               /\ sid' # None => home'[sid'] = job'["task"].saw
    <3>1. k \in MouseKinds /\ job["rec"].at = "idle" /\ job["ctl"].at = "idle"
      BY <1>4, <1>6, <2>1 DEF CalmMouse
    <3>2. sid # None /\ tab # None /\ seen = tab
      BY <1>2, <3>1 DEF Accepts, MouseKinds, BrowserKinds
    <3>3. \A d \in Drivers : ~Attaching(d)
      BY <1>7, <3>1 DEF Scripts, Placed, Drivers, Idle, Attaching
    <3>4. home[sid] = tab
      BY <3>2, <3>3 DEF Rest, TabFollows
    <3>5. \A e \in Drivers \ {"task"} : job'[e].at = "idle"
      BY <1>6, <3>1 DEF Drivers
    <3> QED  BY <1>2, <1>4, <1>6, <3>1, <3>2, <3>4, <3>5
  <2> QED  BY <1>2, <2>1 DEF Rest, Looked
<1>12. Stopping'
  BY <1>2, <1>6 DEF Rest, Stopping, Drivers
<1>13. ASSUME NEW d \in Drivers, Releasing(job'[d]), NEW x \in known'
       PROVE  In(StepThatFrees(x), job'[d].todo)
  <2>1. CASE d # "task"
    BY <1>2, <1>6, <1>13, <2>1 DEF Rest, HeldIsKnown
  <2>2. CASE d = "task"
    <3>1. k \in {"switch_tab", "close_tab"}
      <4>1. k # "stop"
        BY NoOperation
      <4> QED  BY <1>4, <1>6, <1>13, <2>2, <4>1 DEF Releasing
    <3>2. x \in Recorded
      BY <1>2, <1>13 DEF TypeOK
    <3> QED  BY <1>4, <1>6, <2>2, <3>1, <3>2, LeavingScripts, RecordedIs
  <2> QED  BY <2>1, <2>2
<1>14. HeldIsKnown'
  BY <1>2, <1>13, HeldKept DEF Rest
<1> QED  BY <1>10, <1>11, <1>12, <1>14 DEF Rest

\* A message that is nobody's reply.
LEMMA HandleRest ==
    ASSUME TypeOK, Scripts, Rest, Handle, Head(wire).by = None
    PROVE  Rest'
<1> DEFINE m == Head(wire)
<1>1. /\ UNCHANGED <<inbox, home, live, held, link, known>> /\ wire # <<>> /\ wire' = Tail(wire)
      /\ Replied(m) \/ PageChanged(m) \/ TargetGone(m)
  BY DEF Handle, chrome
<1>2. CASE Replied(m) \/ PageChanged(m)
  <2>1. job' = job /\ aborted' = aborted /\ Same /\ m.kind # "gone"
    BY <1>2 DEF Replied, PageChanged, Same, session
  <2>2. Quiet /\ MayStart
    BY <1>1, <2>1 DEF Quiet, Drops, MayStart, CalmApart
  <2> QED  BY <1>1, <2>2, StartKeeps
<1>3. CASE TargetGone(m)
  <2>1. CASE m.on = sid \/ m.tab = tab
    <3>1. Lost /\ Recovers(None)
      BY <1>3, <2>1 DEF TargetGone, Lost
    <3>2. Quiet /\ MayStart
      BY <1>1, <3>1, RecoversStarts DEF Quiet, Drops
    <3> QED  BY <1>1, <3>2, StartKeeps
  <2>2. CASE ~(m.on = sid \/ m.tab = tab)
    <3>1. job' = job /\ aborted' = aborted /\ Same
      BY <1>3, <2>2 DEF TargetGone, Same, session
    <3>2. Quiet /\ MayStart
      BY <1>1, <2>2, <3>1 DEF Quiet, Drops, MayStart, CalmApart
    <3> QED  BY <1>1, <3>2, StartKeeps
  <2> QED  BY <2>1, <2>2
<1> QED  BY <1>1, <1>2, <1>3

-----------------------------------------------------------------------------
(* Replies                                                                  *)

\* A reply is handled: it is the first message, and its driver waits for it.
LEMMA ReplyIs ==
    ASSUME TypeOK, Posted, Handle, Head(wire).by # None
    PROVE  \E d \in Drivers :
             /\ 1 \in DOMAIN wire /\ wire[1].by = d /\ wire[1].kind = "reply"
             /\ Shifted(wire, wire', 1)
             /\ UNCHANGED <<inbox, home, live, held, link, known, sid, tab, aborted>>
             /\ job[d].at = "sent" /\ (wire[1].num # 0 => wire[1].ok /\ job[d].last = "attach")
             /\ \A e \in Drivers \ {d} : job'[e] = job[e]
             /\ job'[d].at = "back" /\ job'[d].ok = wire[1].ok /\ job'[d].num = wire[1].num
             /\ job'[d].todo = job[d].todo /\ job'[d].last = job[d].last
             /\ job'[d].kind = job[d].kind /\ job'[d].saw = job[d].saw /\ job'[d].calm = job[d].calm
             /\ job[d].last = "attach" => job'[d].to = job[d].to
<1> DEFINE m == Head(wire)
<1>1. /\ UNCHANGED <<inbox, home, live, held, link, known>> /\ wire # <<>> /\ wire' = Tail(wire)
      /\ Replied(m) \/ PageChanged(m) \/ TargetGone(m)
  BY DEF Handle, chrome
<1>2. wire \in Seq(Message) /\ job \in [Drivers -> Job]
  BY DEF TypeOK
<1>3. 1 \in DOMAIN wire /\ wire[1] = m /\ Shifted(wire, wire', 1) /\ m \in Message
  BY <1>1, <1>2, TailShifts
<1>4. m.by \in Drivers
  BY <1>3 DEF Message
<1>5. PICK d \in Drivers : d = m.by
  BY <1>4
<1>6. /\ job[d].at = "sent" /\ m.kind = "reply"
      /\ wire[1].num # 0 => wire[1].ok /\ job[d].last = "attach"
  BY <1>3, <1>5 DEF Posted
<1>7. job' = [job EXCEPT ![d] = Answered(job[d], m)] /\ UNCHANGED <<sid, tab, aborted>>
  BY <1>1, <1>2, <1>5, <1>6 DEF Replied, PageChanged, TargetGone, session
<1>8. job'[d] = Answered(job[d], m) /\ \A e \in Drivers \ {d} : job'[e] = job[e]
  BY <1>2, <1>7
<1> HIDE DEF m
<1>9. /\ job'[d].at = "back" /\ job'[d].ok = m.ok /\ job'[d].num = m.num
      /\ job'[d].todo = job[d].todo /\ job'[d].last = job[d].last
      /\ job'[d].kind = job[d].kind /\ job'[d].saw = job[d].saw /\ job'[d].calm = job[d].calm
      /\ job[d].last = "attach" => job'[d].to = job[d].to
  BY <1>2, <1>8 DEF Answered, Job
<1> QED  BY <1>1, <1>3, <1>5, <1>6, <1>7, <1>8, <1>9

\* A reply keeps the invariant: what its driver waited for is where it was, now
\* with the driver.
LEMMA ReplyRest ==
    ASSUME TypeOK, Scripts, Rest, Handle, Head(wire).by # None
    PROVE  Rest'
<1>0. /\ Posted /\ Linked /\ Known /\ Fresh /\ TabFollows
      /\ Looked /\ Alive /\ Stopping /\ HeldIsKnown
  BY DEF Rest
<1>1. PICK d \in Drivers :
             /\ 1 \in DOMAIN wire /\ wire[1].by = d /\ wire[1].kind = "reply"
             /\ Shifted(wire, wire', 1)
             /\ UNCHANGED <<inbox, home, live, held, link, known, sid, tab, aborted>>
             /\ job[d].at = "sent" /\ (wire[1].num # 0 => wire[1].ok /\ job[d].last = "attach")
             /\ \A e \in Drivers \ {d} : job'[e] = job[e]
             /\ job'[d].at = "back" /\ job'[d].ok = wire[1].ok /\ job'[d].num = wire[1].num
             /\ job'[d].todo = job[d].todo /\ job'[d].last = job[d].last
             /\ job'[d].kind = job[d].kind /\ job'[d].saw = job[d].saw /\ job'[d].calm = job[d].calm
             /\ job[d].last = "attach" => job'[d].to = job[d].to
  BY <1>0, ReplyIs
<1>2. /\ \A i \in DOMAIN inbox : inbox[i].by # d
      /\ \A i \in DOMAIN wire : wire[i].by = d => i = 1
  BY <1>0, <1>1 DEF Posted
<1>3. /\ \A i \in DOMAIN wire' : i \in Nat /\ i + 1 \in DOMAIN wire /\ wire'[i] = wire[i + 1] /\ wire'[i].by # d
      /\ \A i \in DOMAIN wire : i \in Nat /\ (i > 1 => i - 1 \in DOMAIN wire' /\ wire'[i - 1] = wire[i])
      /\ \A i \in DOMAIN wire : wire[i].by # d => i > 1
  <2>1. \A i \in DOMAIN wire' : i \in Nat /\ i + 1 \in DOMAIN wire /\ wire'[i] = wire[i + 1] /\ i + 1 # 1
    BY <1>1 DEF Shifted
  <2>0. wire \in Seq(Message) /\ DOMAIN wire = 1..Len(wire) /\ Len(wire) \in Nat
    BY DEF TypeOK
  <2>2. \A i \in DOMAIN wire : i \in Nat /\ (i > 1 \/ i = 1)
    BY <2>0
  <2>3. \A i \in DOMAIN wire' : wire'[i].by # d
    BY <1>2, <2>1
  <2>4. \A i \in DOMAIN wire : i \in Nat /\ (i > 1 => i - 1 \in DOMAIN wire' /\ wire'[i - 1] = wire[i])
    BY <1>1 DEF Shifted
  <2>5. \A i \in DOMAIN wire : wire[i].by # d => i > 1
    BY <1>1, <2>2
  <2> QED  BY <2>1, <2>3, <2>4, <2>5
<1>4. ASSUME NEW e \in Drivers
      PROVE  /\ job'[e].last = job[e].last /\ job'[e].kind = job[e].kind /\ job'[e].todo = job[e].todo
             /\ job'[e].saw = job[e].saw /\ job'[e].calm = job[e].calm
             /\ job[e].last = "attach" => job'[e].to = job[e].to
             /\ e # d => job'[e] = job[e]
  BY <1>1
<1>5. Posted'
  <2> SUFFICES ASSUME NEW e \in Drivers
      PROVE /\ \A i \in DOMAIN inbox' : inbox'[i].by = e =>
                /\ job'[e].at = "sent" /\ inbox'[i].cmd = job'[e].last
                /\ inbox'[i].cmd = "attach" => inbox'[i].to = job'[e].to
                /\ \A j \in DOMAIN inbox' : inbox'[j].by = e => i = j
                /\ \A j \in DOMAIN wire' : wire'[j].by # e
            /\ \A i \in DOMAIN wire' : wire'[i].by = e =>
                /\ job'[e].at = "sent" /\ wire'[i].kind = "reply"
                /\ \A j \in DOMAIN wire' : wire'[j].by = e => i = j
                /\ wire'[i].num # 0 => wire'[i].ok /\ job'[e].last = "attach"
                /\ Detaching(e)' => wire'[i].ok
            /\ job'[e].at = "sent" => \/ \E i \in DOMAIN inbox' : inbox'[i].by = e
                                      \/ \E i \in DOMAIN wire' : wire'[i].by = e
    BY DEF Posted
  <2>1. CASE e = d
    BY <1>1, <1>2, <1>3, <2>1
  <2>2. CASE e # d
    <3>1. job'[e] = job[e] /\ inbox' = inbox
      BY <1>1, <2>2
    <3>2. \A i \in DOMAIN inbox : inbox[i].by = e =>
                /\ job[e].at = "sent" /\ inbox[i].cmd = job[e].last
                /\ inbox[i].cmd = "attach" => inbox[i].to = job[e].to
                /\ \A j \in DOMAIN inbox : inbox[j].by = e => i = j
                /\ \A j \in DOMAIN wire : wire[j].by # e
      BY <1>0 DEF Posted
    <3>3. \A i \in DOMAIN wire : wire[i].by = e =>
                /\ job[e].at = "sent" /\ wire[i].kind = "reply"
                /\ \A j \in DOMAIN wire : wire[j].by = e => i = j
                /\ wire[i].num # 0 => wire[i].ok /\ job[e].last = "attach"
                /\ Detaching(e) => wire[i].ok
      BY <1>0 DEF Posted
    <3>4. job[e].at = "sent" => \/ \E i \in DOMAIN inbox : inbox[i].by = e
                                \/ \E i \in DOMAIN wire : wire[i].by = e
      BY <1>0 DEF Posted
    <3>5. \A i, j \in DOMAIN wire' : i + 1 = j + 1 => i = j
      BY <1>3
    <3>6. job[e].at = "sent" => \/ \E i \in DOMAIN inbox : inbox[i].by = e
                                \/ \E i \in DOMAIN wire' : wire'[i].by = e
      BY <1>1, <1>3, <2>2, <3>4
    <3>7. Detaching(e)' <=> Detaching(e)
      BY <3>1 DEF Detaching
    <3> QED  BY <1>3, <3>1, <3>2, <3>3, <3>5, <3>6, <3>7
  <2> QED  BY <2>1, <2>2
<1>6. Known' /\ Linked'
  BY <1>0, <1>1, <1>3, <1>4 DEF Known, Linked
<1>7. Fresh'
  <2>1. ASSUME NEW e \in Drivers, NEW n \in Nat, Offered(e, n)'
        PROVE  Offered(e, n) /\ job'[e].to = job[e].to
    <3>1. CASE e = d
      BY <1>1, <1>3, <2>1, <3>1 DEF Offered
    <3>2. CASE e # d
      BY <1>3, <1>4, <2>1, <3>2 DEF Offered
    <3> QED  BY <3>1, <3>2
  <2> QED  BY <1>0, <1>1, <2>1 DEF Fresh
<1>8. TabFollows'
  <2>1. \A e \in Drivers : (Attaching(e)' <=> Attaching(e)) /\ (Attaching(e) => job'[e].to = job[e].to)
    BY <1>4 DEF Attaching
  <2>2. ASSUME NEW a \in Drivers, NEW b \in Drivers, a # b, Later(a, b)  PROVE Later(a, b)'
    <3>1. job'[a].at = "back" /\ job'[a].ok => job'[b].at = "back" /\ job'[b].num < job'[a].num
      <4>1. CASE a = d
        <5>1. job'[b] = job[b]
          BY <1>1, <2>2, <4>1
        <5>2. wire[1].ok => job[b].at = "back" /\ job[b].num < wire[1].num
          <6>1. \A j \in DOMAIN wire : ~(j < 1)
            BY DEF TypeOK
          <6> QED  BY <1>1, <2>2, <4>1, <6>1 DEF Later
        <5> QED  BY <1>1, <4>1, <5>1, <5>2
      <4>2. CASE a # d
        BY <1>1, <2>2, <4>2 DEF Later
      <4> QED  BY <4>1, <4>2
    <3>2. ASSUME NEW i \in DOMAIN wire', wire'[i].by = a, wire'[i].ok
          PROVE  \/ job'[b].at = "back" /\ job'[b].num < wire'[i].num
                 \/ \E j \in DOMAIN wire' : j < i /\ wire'[j].by = b /\ wire'[j].num < wire'[i].num
      <4>1. i \in Nat /\ i + 1 \in DOMAIN wire /\ wire'[i] = wire[i + 1] /\ a # d
        BY <1>3, <3>2
      <4>2. \/ job[b].at = "back" /\ job[b].num < wire[i + 1].num
            \/ \E j \in DOMAIN wire : j < i + 1 /\ wire[j].by = b /\ wire[j].num < wire[i + 1].num
        BY <2>2, <3>2, <4>1 DEF Later
      <4>3. CASE b # d
        <5>1. job'[b] = job[b]
          BY <1>1, <4>3
        <5>2. ASSUME NEW j \in DOMAIN wire, j < i + 1, wire[j].by = b, wire[j].num < wire[i + 1].num
              PROVE  j - 1 \in DOMAIN wire' /\ wire'[j - 1] = wire[j] /\ j - 1 < i
          BY <1>3, <4>1, <4>3, <5>2
        <5> QED  BY <4>1, <4>2, <5>1, <5>2
      <4>4. CASE b = d
        BY <1>1, <1>2, <4>1, <4>2, <4>4
      <4> QED  BY <4>3, <4>4
    <3> QED  BY <1>1, <2>2, <3>1, <3>2 DEF Later
  <2>3. sid' = sid /\ tab' = tab /\ home' = home
    BY <1>1
  <2>4. sid' # None /\ tab' # None => \/ home'[sid'] = tab'
                                      \/ \E e \in Drivers : Attaching(e)' /\ job'[e].to = tab'
    BY <1>0, <2>1, <2>3 DEF TabFollows
  <2>5. ASSUME NEW b \in Drivers, Attaching(b)', job'[b].at = "back" => job'[b].ok
        PROVE  \/ tab' \in {None, job'[b].to}
               \/ \E a \in Drivers \ {b} : Attaching(a)' /\ job'[a].to = tab' /\ Later(a, b)'
    <3>1. job[b].at = "back" => job[b].ok
      BY <1>1, <2>5
    <3>2. \/ tab \in {None, job[b].to}
          \/ \E a \in Drivers \ {b} : Attaching(a) /\ job[a].to = tab /\ Later(a, b)
      BY <1>0, <2>1, <2>5, <3>1 DEF TabFollows
    <3> QED  BY <2>1, <2>2, <2>3, <2>5, <3>2
  <2> QED  BY <2>4, <2>5 DEF TabFollows
<1>9. Looked'
  <2>1. ASSUME CalmMouse("task")'
        PROVE  CalmMouse("task") /\ \A e \in Drivers \ {"task"} : job'[e] = job[e]
    <3>1. CalmMouse("task")
      BY <1>4, <2>1 DEF CalmMouse, Drivers
    <3>2. d = "task"
      BY <1>0, <1>1, <3>1 DEF Looked, Waits
    <3> QED  BY <1>4, <3>1, <3>2
  <2>2. job'["task"].saw = job["task"].saw
    BY <1>4 DEF Drivers
  <2> QED  BY <1>0, <1>1, <2>1, <2>2 DEF Looked, Waits
<1>10. Alive'
  <2>1. ASSUME NEW e \in Drivers, Doomed(e)  PROVE Doomed(e)'
    <3>1. CASE e = d
      BY <1>1, <1>2, <2>1, <3>1 DEF Doomed
    <3>2. CASE e # d
      <4>1. \A i \in DOMAIN wire : wire[i].by = e => i - 1 \in DOMAIN wire' /\ wire'[i - 1] = wire[i]
        BY <1>3, <3>2
      <4> QED  BY <1>1, <1>4, <2>1, <3>2, <4>1 DEF Doomed
    <3> QED  BY <3>1, <3>2
  <2>2. \A i \in DOMAIN wire : wire[i].kind = "gone" => i - 1 \in DOMAIN wire' /\ wire'[i - 1] = wire[i]
    BY <1>1, <1>2, <1>3
  <2> QED  BY <1>0, <1>1, <2>1, <2>2 DEF Alive
<1>11. Stopping'
  <2>1. /\ job'["rec"].todo = job["rec"].todo /\ job'["ctl"].todo = job["ctl"].todo
        /\ job'["ctl"].kind = job["ctl"].kind /\ job'["ctl"].calm = job["ctl"].calm
    BY <1>4 DEF Drivers
  <2>2. job["ctl"].at = "turn" => job'["ctl"] = job["ctl"]
    BY <1>1, <1>4 DEF Drivers
  <2>3. job["task"].at = "idle" => job'["task"] = job["task"]
    BY <1>1, <1>4 DEF Drivers
  <2> QED  BY <1>0, <1>1, <2>1, <2>2, <2>3 DEF Stopping
<1>12. HeldIsKnown'
  <2>1. \A e \in Drivers : Releasing(job'[e]) =>
           \A x \in known' : In(StepThatFrees(x), job'[e].todo)
    BY <1>0, <1>1, <1>4 DEF HeldIsKnown, Releasing
  <2> QED  BY <1>0, <1>1, <2>1, HeldKept
<1> QED  BY <1>5, <1>6, <1>7, <1>8, <1>9, <1>10, <1>11, <1>12 DEF Rest

-----------------------------------------------------------------------------
(* What goes wrong                                                          *)

\* Who waits for the messages of a driver: nobody any more.  The rest is the same,
LEMMA ForgottenIs ==
    ASSUME NEW S, NEW d, NEW q \in Seq(S), NEW r, r = Forgotten(q, d)
    PROVE  /\ DOMAIN r = DOMAIN q /\ Len(r) = Len(q) /\ \A i \in DOMAIN q : q[i] \in S
           /\ \A i \in DOMAIN q : r[i] = IF q[i].by = d THEN [q[i] EXCEPT !.by = None] ELSE q[i]
  BY DEF Forgotten

\* in a command
LEMMA ForgottenCommands ==
    ASSUME NEW d, NEW q \in Seq(Cmd), NEW r, r = Forgotten(q, d)
    PROVE  /\ DOMAIN r = DOMAIN q /\ Len(r) = Len(q)
           /\ \A i \in DOMAIN q : /\ r[i].by = IF q[i].by = d THEN None ELSE q[i].by
                                  /\ r[i].cmd = q[i].cmd /\ r[i].on = q[i].on /\ r[i].to = q[i].to
                                  /\ r[i].saw = q[i].saw /\ r[i].kind = q[i].kind
                                  /\ r[i].calm = q[i].calm
<1>1. /\ DOMAIN r = DOMAIN q /\ Len(r) = Len(q) /\ \A i \in DOMAIN q : q[i] \in Cmd
      /\ \A i \in DOMAIN q : r[i] = IF q[i].by = d THEN [q[i] EXCEPT !.by = None] ELSE q[i]
  BY ForgottenIs
<1> QED  BY <1>1 DEF Cmd

\* as in a message.
LEMMA ForgottenMessages ==
    ASSUME NEW d, NEW q \in Seq(Message), NEW r, r = Forgotten(q, d)
    PROVE  /\ DOMAIN r = DOMAIN q
           /\ \A i \in DOMAIN q : /\ r[i].by = IF q[i].by = d THEN None ELSE q[i].by
                                  /\ r[i].kind = q[i].kind /\ r[i].on = q[i].on
                                  /\ r[i].ok = q[i].ok /\ r[i].num = q[i].num
<1>1. /\ DOMAIN r = DOMAIN q /\ \A i \in DOMAIN q : q[i] \in Message
      /\ \A i \in DOMAIN q : r[i] = IF q[i].by = d THEN [q[i] EXCEPT !.by = None] ELSE q[i]
  BY ForgottenIs
<1> QED  BY <1>1 DEF Message

\* A command times out.
LEMMA TimeoutRest ==
    ASSUME TypeOK, Scripts, Rest, NEW d \in Drivers, Timeout(d)
    PROVE  Rest'
<1>0. /\ Posted /\ Linked /\ Known /\ Fresh /\ TabFollows
      /\ Looked /\ Alive /\ Stopping /\ HeldIsKnown
      /\ inbox \in Seq(Cmd) /\ wire \in Seq(Message) /\ job \in [Drivers -> Job]
  BY DEF Rest, TypeOK
<1>1. /\ UNCHANGED <<home, live, held, link, known, sid, tab, aborted>>
      /\ job[d].at = "sent"
      /\ job' = [job EXCEPT ![d] = [job[d] EXCEPT !.at = "back", !.ok = job[d].ok /\ job[d].last \in Lenient]]
      /\ inbox' = Forgotten(inbox, d) /\ wire' = Forgotten(wire, d)
  BY <1>0 DEF Timeout, chrome, session
<1>2. /\ \A e \in Drivers \ {d} : job'[e] = job[e]
      /\ job'[d].at = "back" /\ job'[d].ok = (job[d].ok /\ job[d].last \in Lenient)
      /\ job'[d].num = job[d].num /\ job'[d].todo = job[d].todo /\ job'[d].last = job[d].last
      /\ job'[d].kind = job[d].kind /\ job'[d].saw = job[d].saw /\ job'[d].calm = job[d].calm
      /\ job'[d].to = job[d].to
  BY <1>0, <1>1 DEF Job
<1>3. /\ DOMAIN inbox' = DOMAIN inbox /\ Len(inbox') = Len(inbox)
      /\ \A i \in DOMAIN inbox :
            /\ inbox'[i].by = (IF inbox[i].by = d THEN None ELSE inbox[i].by)
            /\ inbox'[i].cmd = inbox[i].cmd /\ inbox'[i].on = inbox[i].on /\ inbox'[i].to = inbox[i].to
            /\ inbox'[i].saw = inbox[i].saw /\ inbox'[i].kind = inbox[i].kind
            /\ inbox'[i].calm = inbox[i].calm
  BY <1>0, <1>1, ForgottenCommands
<1>4. /\ DOMAIN wire' = DOMAIN wire
      /\ \A i \in DOMAIN wire :
            /\ wire'[i].by = (IF wire[i].by = d THEN None ELSE wire[i].by)
            /\ wire'[i].kind = wire[i].kind /\ wire'[i].on = wire[i].on
            /\ wire'[i].ok = wire[i].ok /\ wire'[i].num = wire[i].num
  BY <1>0, <1>1, ForgottenMessages
<1>5. \A e \in Drivers : e # None
  BY TabAssumption DEF Drivers
<1>6. job[d].last \in {"attach", "enable"} => ~job'[d].ok
  BY <1>2 DEF Lenient
<1>7. ASSUME NEW e \in Drivers
      PROVE  /\ job'[e].last = job[e].last /\ job'[e].kind = job[e].kind /\ job'[e].todo = job[e].todo
             /\ job'[e].saw = job[e].saw /\ job'[e].calm = job[e].calm /\ job'[e].to = job[e].to
             /\ job'[e].num = job[e].num
  BY <1>2
<1>8. Posted'
  <2> SUFFICES ASSUME NEW e \in Drivers
      PROVE /\ \A i \in DOMAIN inbox' : inbox'[i].by = e =>
                /\ job'[e].at = "sent" /\ inbox'[i].cmd = job'[e].last
                /\ inbox'[i].cmd = "attach" => inbox'[i].to = job'[e].to
                /\ \A j \in DOMAIN inbox' : inbox'[j].by = e => i = j
                /\ \A j \in DOMAIN wire' : wire'[j].by # e
            /\ \A i \in DOMAIN wire' : wire'[i].by = e =>
                /\ job'[e].at = "sent" /\ wire'[i].kind = "reply"
                /\ \A j \in DOMAIN wire' : wire'[j].by = e => i = j
                /\ wire'[i].num # 0 => wire'[i].ok /\ job'[e].last = "attach"
                /\ Detaching(e)' => wire'[i].ok
            /\ job'[e].at = "sent" => \/ \E i \in DOMAIN inbox' : inbox'[i].by = e
                                      \/ \E i \in DOMAIN wire' : wire'[i].by = e
    BY DEF Posted
  <2>1. CASE e = d
    <3>1. \A i \in DOMAIN inbox : inbox'[i].by # d
      BY <1>3, <1>5
    <3>2. \A i \in DOMAIN wire : wire'[i].by # d
      BY <1>4, <1>5
    <3>3. job'[d].at = "back"
      BY <1>2
    <3> QED  BY <1>3, <1>4, <2>1, <3>1, <3>2, <3>3
  <2>2. CASE e # d
    <3>1. job'[e] = job[e]
      BY <1>2, <2>2
    <3>2. \A i \in DOMAIN inbox : inbox'[i].by = e <=> inbox[i].by = e
      BY <1>3, <1>5, <2>2
    <3>3. \A i \in DOMAIN wire : wire'[i].by = e <=> wire[i].by = e
      BY <1>4, <1>5, <2>2
    <3>4. /\ DOMAIN inbox' = DOMAIN inbox /\ DOMAIN wire' = DOMAIN wire
          /\ \A i \in DOMAIN inbox : inbox'[i].cmd = inbox[i].cmd /\ inbox'[i].to = inbox[i].to
          /\ \A i \in DOMAIN wire : /\ wire'[i].kind = wire[i].kind
                                    /\ wire'[i].ok = wire[i].ok /\ wire'[i].num = wire[i].num
      BY <1>3, <1>4
    <3>5. ASSUME NEW i \in DOMAIN inbox, inbox[i].by = e
          PROVE  /\ job[e].at = "sent" /\ inbox[i].cmd = job[e].last
                 /\ inbox[i].cmd = "attach" => inbox[i].to = job[e].to
                 /\ \A j \in DOMAIN inbox : inbox[j].by = e => i = j
                 /\ \A j \in DOMAIN wire : wire[j].by # e
      BY <1>0, <3>5 DEF Posted
    <3>6. ASSUME NEW i \in DOMAIN wire, wire[i].by = e
          PROVE  /\ job[e].at = "sent" /\ wire[i].kind = "reply"
                 /\ \A j \in DOMAIN wire : wire[j].by = e => i = j
                 /\ wire[i].num # 0 => wire[i].ok /\ job[e].last = "attach"
                 /\ Detaching(e) => wire[i].ok
      BY <1>0, <3>6 DEF Posted
    <3>7. job[e].at = "sent" => \/ \E i \in DOMAIN inbox : inbox[i].by = e
                               \/ \E i \in DOMAIN wire : wire[i].by = e
      BY <1>0 DEF Posted
    <3>8. Detaching(e)' <=> Detaching(e)
      BY <3>1 DEF Detaching
    <3> QED  BY <3>1, <3>2, <3>3, <3>4, <3>5, <3>6, <3>7, <3>8
  <2> QED  BY <2>1, <2>2
<1>9. Known' /\ Linked'
  BY <1>0, <1>1, <1>3, <1>4, <1>7 DEF Known, Linked
<1>10. ASSUME NEW e \in Drivers, NEW i \in DOMAIN wire', wire'[i].by = e
       PROVE  i \in DOMAIN wire /\ wire[i].by = e /\ e # d
  BY <1>4, <1>5, <1>10
<1>11. Fresh'
  <2>1. ASSUME NEW e \in Drivers, NEW n \in Nat, Offered(e, n)'
        PROVE  Offered(e, n)
    <3>1. CASE job'[e].at = "back" /\ job'[e].ok /\ job'[e].num = n
      BY <1>2, <1>6, <2>1, <3>1 DEF Offered
    <3>2. ASSUME NEW i \in DOMAIN wire', wire'[i].by = e, wire'[i].ok, wire'[i].num = n
          PROVE  Offered(e, n)
      BY <1>4, <1>7, <1>10, <2>1, <3>2 DEF Offered
    <3> QED  BY <2>1, <3>1, <3>2 DEF Offered
  <2> QED  BY <1>0, <1>1, <1>3, <1>7, <2>1 DEF Fresh
<1>12. TabFollows'
  <2>1. \A e \in Drivers : (Attaching(e)' <=> Attaching(e)) /\ job'[e].to = job[e].to
    BY <1>7 DEF Attaching
  <2>2. ASSUME NEW a \in Drivers, NEW b \in Drivers \ {d}, Attaching(a), Later(a, b)  PROVE Later(a, b)'
    <3>1. job'[b] = job[b]
      BY <1>2
    <3>2. CASE a = d
      <4>1. ~job'[a].ok
        BY <1>6, <2>2, <3>2 DEF Attaching
      <4>2. \A i \in DOMAIN wire' : wire'[i].by # a
        BY <1>10, <3>2
      <4>3. \A i \in DOMAIN inbox' : inbox'[i].by # a
        BY <1>3, <1>5, <3>2
      <4> QED  BY <4>1, <4>2, <4>3 DEF Later
    <3>3. CASE a # d
      <4>1. job'[a] = job[a]
        BY <1>2, <3>3
      <4>2. \A i \in DOMAIN wire : /\ wire'[i].by = b <=> wire[i].by = b
                                   /\ wire'[i].by = a <=> wire[i].by = a
        BY <1>4, <1>5, <3>3
      <4>3. \A i \in DOMAIN inbox : /\ inbox'[i].by = b <=> inbox[i].by = b
                                    /\ inbox'[i].by = a <=> inbox[i].by = a
        BY <1>3, <1>5, <3>3
      <4> QED  BY <1>3, <1>4, <2>2, <3>1, <4>1, <4>2, <4>3 DEF Later
    <3> QED  BY <3>2, <3>3
  <2>3. sid' = sid /\ tab' = tab /\ home' = home
    BY <1>1
  <2>4. sid' # None /\ tab' # None => \/ home'[sid'] = tab'
                                      \/ \E e \in Drivers : Attaching(e)' /\ job'[e].to = tab'
    BY <1>0, <2>1, <2>3 DEF TabFollows
  <2>5. ASSUME NEW b \in Drivers, Attaching(b)', job'[b].at = "back" => job'[b].ok
        PROVE  \/ tab' \in {None, job'[b].to}
               \/ \E a \in Drivers \ {b} : Attaching(a)' /\ job'[a].to = tab' /\ Later(a, b)'
    <3>1. b # d
      BY <1>2, <1>6, <2>5 DEF Attaching
    <3>2. job[b].at = "back" => job[b].ok
      BY <1>2, <2>5, <3>1
    <3>3. \/ tab \in {None, job[b].to}
          \/ \E a \in Drivers \ {b} : Attaching(a) /\ job[a].to = tab /\ Later(a, b)
      BY <1>0, <2>1, <2>5, <3>2 DEF TabFollows
    <3> QED  BY <2>1, <2>2, <2>3, <3>1, <3>3
  <2> QED  BY <2>4, <2>5 DEF TabFollows
<1>13. Looked'
  <2>1. ASSUME CalmMouse("task")'
        PROVE  CalmMouse("task") /\ \A e \in Drivers \ {"task"} : job'[e] = job[e]
    <3>1. CalmMouse("task")
      BY <1>7, <2>1 DEF CalmMouse, Drivers
    <3>2. d = "task"
      BY <1>0, <1>1, <3>1 DEF Looked, Waits
    <3> QED  BY <1>2, <3>1, <3>2
  <2>2. job'["task"].saw = job["task"].saw
    BY <1>7 DEF Drivers
  <2>3. \A i \in DOMAIN inbox' : inbox'[i].saw # None /\ inbox'[i].calm =>
          inbox'[i].on # None /\ home'[inbox'[i].on] = inbox'[i].saw
    BY <1>0, <1>1, <1>3 DEF Looked
  <2>4. ASSUME CalmMouse("task")'
        PROVE  /\ \A e \in Drivers \ {"task"} : job'[e].at = "idle" \/ Waits(e)'
               /\ sid' # None => home'[sid'] = job'["task"].saw
    <3>1. /\ \A e \in Drivers \ {"task"} : job[e].at = "idle" \/ Waits(e)
          /\ sid # None => home[sid] = job["task"].saw
      BY <1>0, <2>1, <2>4 DEF Looked
    <3>2. UNCHANGED <<sid, home>> /\ \A e \in Drivers \ {"task"} : job'[e] = job[e]
      BY <1>1, <2>1, <2>4
    <3> QED  BY <2>2, <3>1, <3>2 DEF Waits
  <2> QED  BY <2>3, <2>4 DEF Looked
<1>14. Alive'
  <2>1. ASSUME NEW e \in Drivers, Doomed(e)  PROVE Doomed(e)'
    <3>1. CASE e = d
      BY <1>1, <1>2, <1>6, <2>1, <3>1 DEF Doomed
    <3>2. CASE e # d
      <4>1. job'[e] = job[e] /\ live' = live
        BY <1>1, <1>2, <3>2
      <4>2. /\ \A i \in DOMAIN wire : wire[i].by = e => wire'[i].by = e
            /\ \A i \in DOMAIN inbox : inbox[i].by = e => inbox'[i].by = e
        BY <1>3, <1>4, <3>2
      <4> QED  BY <1>3, <1>4, <2>1, <4>1, <4>2 DEF Doomed
    <3> QED  BY <3>1, <3>2
  <2> QED  BY <1>0, <1>1, <1>4, <2>1 DEF Alive
<1>15. Stopping'
  <2>1. /\ job'["rec"].todo = job["rec"].todo /\ job'["ctl"].todo = job["ctl"].todo
        /\ job'["ctl"].kind = job["ctl"].kind /\ job'["ctl"].calm = job["ctl"].calm
    BY <1>7 DEF Drivers
  <2>2. job["ctl"].at = "turn" => job'["ctl"] = job["ctl"]
    BY <1>1, <1>2 DEF Drivers
  <2>3. job["task"].at = "idle" => job'["task"] = job["task"]
    BY <1>1, <1>2 DEF Drivers
  <2> QED  BY <1>0, <1>1, <2>1, <2>2, <2>3 DEF Stopping
<1>16. HeldIsKnown'
  <2>1. \A x, s, i, k : Lifted(inbox', x, s, i, k) <=> Lifted(inbox, x, s, i, k)
    BY <1>3 DEF Lifted
  <2>2. \A x, s, k : Holds(held', inbox', x, s, k) <=> Holds(held, inbox, x, s, k)
    BY <1>1, <1>3, <2>1 DEF Holds
  <2>3. \A e \in Drivers : Releasing(job'[e]) =>
           \A x \in known' : In(StepThatFrees(x), job'[e].todo)
    BY <1>0, <1>1, <1>7 DEF HeldIsKnown, Releasing
  <2>4. \A i \in DOMAIN inbox : Releasing(inbox'[i]) <=> Releasing(inbox[i])
    BY <1>3 DEF Releasing
  <2> QED  BY <1>0, <1>1, <1>3, <2>2, <2>3, <2>4 DEF HeldIsKnown
<1> QED  BY <1>8, <1>9, <1>11, <1>12, <1>13, <1>14, <1>15, <1>16 DEF Rest

\* The connection is lost.
LEMMA LinkLostRest ==
    ASSUME TypeOK, Scripts, Rest, LinkLost
    PROVE  Rest'
<1>0. /\ Posted /\ Linked /\ Known /\ Fresh /\ TabFollows
      /\ Looked /\ Alive /\ Stopping /\ HeldIsKnown
      /\ job \in [Drivers -> Job] /\ Len(home) \in Nat
  BY DEF Rest, TypeOK
<1>1. /\ UNCHANGED <<home, held, known, aborted>> /\ live' = {} /\ inbox' = <<>> /\ wire' = <<>>
      /\ sid' = None /\ tab' = None
      /\ \A d \in Drivers : job'[d] = IF job[d].at = "sent"
                                      THEN [job[d] EXCEPT !.at = "back", !.ok = job[d].last \in Lenient]
                                      ELSE job[d]
  BY DEF LinkLost
<1>2. ASSUME NEW d \in Drivers
      PROVE  /\ job'[d].last = job[d].last /\ job'[d].kind = job[d].kind /\ job'[d].todo = job[d].todo
             /\ job'[d].saw = job[d].saw /\ job'[d].calm = job[d].calm /\ job'[d].to = job[d].to
             /\ job'[d].num = job[d].num
             /\ job[d].at = "sent" => job'[d].at = "back" /\ job'[d].ok = (job[d].last \in Lenient)
             /\ job[d].at # "sent" => job'[d] = job[d]
  BY <1>0, <1>1 DEF Job
<1>3. (\A i \in DOMAIN inbox' : FALSE) /\ (\A i \in DOMAIN wire' : FALSE)
  <2>1. \A i \in DOMAIN <<>> : FALSE
    OBVIOUS
  <2> QED  BY <1>1, <2>1
<1>4. Posted' /\ Linked'
  BY <1>1, <1>2, <1>3 DEF Posted, Linked
<1>5. Known'
  BY <1>0, <1>1, <1>2, <1>3 DEF Known
<1>6. Fresh'
  <2>1. ASSUME NEW d \in Drivers, NEW n \in Nat, Offered(d, n)'
        PROVE  Offered(d, n)
    BY <1>2, <1>3, <2>1 DEF Offered, Lenient
  <2>2. \A n \in Nat : n # None
    BY TabAssumption
  <2> QED  BY <1>0, <1>1, <1>2, <1>3, <2>1, <2>2 DEF Fresh
<1>7. TabFollows' /\ Alive'
  BY <1>1 DEF TabFollows, Alive
<1>8. Looked'
  <2>1. job'["task"].saw = job["task"].saw /\ job'["task"].calm = job["task"].calm
    BY <1>2 DEF Drivers
  <2>2. \A e \in Drivers \ {"task"} : job[e].at = "idle" \/ Waits(e) => job'[e] = job[e]
    BY <1>2 DEF Waits
  <2> QED  BY <1>0, <1>1, <1>3, <2>1, <2>2 DEF Looked, CalmMouse, Waits
<1>9. Stopping'
  <2>1. /\ job'["rec"].todo = job["rec"].todo /\ job'["ctl"].todo = job["ctl"].todo
        /\ job'["ctl"].kind = job["ctl"].kind /\ job'["ctl"].calm = job["ctl"].calm
    BY <1>2 DEF Drivers
  <2>2. job["ctl"].at = "turn" => job'["ctl"] = job["ctl"]
    BY <1>2 DEF Drivers
  <2>3. job["task"].at = "idle" => job'["task"] = job["task"]
    BY <1>2 DEF Drivers
  <2> QED  BY <1>0, <1>1, <2>1, <2>2, <2>3 DEF Stopping
<1>10. HeldIsKnown'
  BY <1>0, <1>1, <1>2, <1>3 DEF HeldIsKnown, Releasing
<1> QED  BY <1>4, <1>5, <1>6, <1>7, <1>8, <1>9, <1>10 DEF Rest

-----------------------------------------------------------------------------
(* Messages from Chrome                                                     *)

\* Chrome executes the first k commands, k = 0 or 1, and sends events and, if
\* k = 1, the reply m.
Answers(k, m) ==
    /\ UNCHANGED <<link, tab, sid, known, aborted, job>>
    /\ k \in {0, 1} /\ Shifted(inbox, inbox', k) /\ Len(inbox') = Len(inbox) - k
    \* wire is extended
    /\ \A i \in DOMAIN wire : i \in DOMAIN wire' /\ wire'[i] = wire[i] /\ i < Len(wire) + 1
    /\ \A i \in DOMAIN wire' : \/ i \in DOMAIN wire
                               \/ wire'[i].by = None /\ wire'[i].num = 0
                               \/ k = 1 /\ i = Len(wire') /\ wire'[i] = m
    \* by the reply
    /\ k = 1 =>
         /\ 1 \in DOMAIN inbox
         /\ Len(wire') \in DOMAIN wire' \ DOMAIN wire /\ wire'[Len(wire')] = m
         /\ \A i \in DOMAIN wire : i < Len(wire')
         /\ m.kind = "reply" /\ m.by = inbox[1].by
         /\ m.num # 0 => m.ok /\ inbox[1].cmd = "attach"
         /\ m.ok /\ inbox[1].cmd = "attach" =>
              /\ m.num = Len(home) + 1 /\ m.num \in DOMAIN home'
              /\ home'[m.num] = inbox[1].to /\ held'[m.num] = {}
         /\ m.num \in Nat /\ m.num <= Len(home')
         /\ inbox[1].cmd = "enable" /\ inbox[1].on \notin live => ~m.ok
         /\ inbox[1].cmd \in {"leave", "depart"} => m.ok
    \* Sessions are created and closed
    /\ Len(home') \in Nat /\ Len(home) <= Len(home')
    /\ \A s \in DOMAIN home : s \in DOMAIN home' /\ home'[s] = home[s]
    /\ live' \cap DOMAIN home \subseteq live
    /\ \A s \in live \ live' : \E i \in DOMAIN wire' : wire'[i].kind = "gone" /\ wire'[i].on = s
    \* and hold what is pressed.
    /\ \A s \in DOMAIN home : held'[s] = held[s] \/ (k = 1 /\ inbox[1].on = s)
    /\ \A s \in live' \cap DOMAIN home : \A x \in Recorded : x \in held'[s] =>
         \/ k = 1 /\ inbox[1].on = s /\ Presses(inbox[1].cmd, x)
         \/ x \in held[s] /\ ~(k = 1 /\ inbox[1].on = s /\ Lifts(inbox[1].cmd, x))

\* A command that Chrome answers is on the wire instead of with Chrome,
LEMMA AnswersPosted ==
    ASSUME TypeOK, Posted, NEW k, NEW m, Answers(k, m)
    PROVE  Posted'
<1>1. /\ k \in {0, 1} /\ job' = job
      /\ \A i \in DOMAIN inbox' : i \in Nat \ {0} /\ i + k \in DOMAIN inbox /\ inbox'[i] = inbox[i + k]
      /\ \A i \in DOMAIN inbox : i > k => i - k \in DOMAIN inbox' /\ inbox'[i - k] = inbox[i]
      /\ \A i \in DOMAIN inbox : i > k \/ (i = 1 /\ k = 1)
  <2>1. inbox \in Seq(Cmd) /\ DOMAIN inbox = 1..Len(inbox) /\ Len(inbox) \in Nat
    BY DEF TypeOK
  <2> QED  BY <2>1 DEF Answers, Shifted
<1>2. /\ \A i \in DOMAIN wire : i \in DOMAIN wire' /\ wire'[i] = wire[i]
      /\ \A i \in DOMAIN wire' : \/ i \in DOMAIN wire
                                 \/ wire'[i].by = None /\ wire'[i].num = 0
                                 \/ k = 1 /\ i = Len(wire') /\ wire'[i] = m
      /\ k = 1 => /\ 1 \in DOMAIN inbox
                  /\ Len(wire') \in DOMAIN wire' \ DOMAIN wire /\ wire'[Len(wire')] = m
                  /\ m.kind = "reply" /\ m.by = inbox[1].by
                  /\ m.num # 0 => m.ok /\ inbox[1].cmd = "attach"
                  /\ inbox[1].cmd \in {"leave", "depart"} => m.ok
  BY DEF Answers
<1> SUFFICES ASSUME NEW e \in Drivers
    PROVE /\ \A i \in DOMAIN inbox' : inbox'[i].by = e =>
              /\ job'[e].at = "sent" /\ inbox'[i].cmd = job'[e].last
              /\ inbox'[i].cmd = "attach" => inbox'[i].to = job'[e].to
              /\ \A j \in DOMAIN inbox' : inbox'[j].by = e => i = j
              /\ \A j \in DOMAIN wire' : wire'[j].by # e
          /\ \A i \in DOMAIN wire' : wire'[i].by = e =>
              /\ job'[e].at = "sent" /\ wire'[i].kind = "reply"
              /\ \A j \in DOMAIN wire' : wire'[j].by = e => i = j
              /\ wire'[i].num # 0 => wire'[i].ok /\ job'[e].last = "attach"
              /\ Detaching(e)' => wire'[i].ok
          /\ job'[e].at = "sent" => \/ \E i \in DOMAIN inbox' : inbox'[i].by = e
                                    \/ \E i \in DOMAIN wire' : wire'[i].by = e
  BY DEF Posted
<1>3. e # None
  BY TabAssumption DEF Drivers
<1>4. /\ \A i \in DOMAIN inbox : inbox[i].by = e =>
              /\ job[e].at = "sent" /\ inbox[i].cmd = job[e].last
              /\ inbox[i].cmd = "attach" => inbox[i].to = job[e].to
              /\ \A j \in DOMAIN inbox : inbox[j].by = e => i = j
              /\ \A j \in DOMAIN wire : wire[j].by # e
      /\ \A i \in DOMAIN wire : wire[i].by = e =>
              /\ job[e].at = "sent" /\ wire[i].kind = "reply"
              /\ \A j \in DOMAIN wire : wire[j].by = e => i = j
              /\ wire[i].num # 0 => wire[i].ok /\ job[e].last = "attach"
              /\ Detaching(e) => wire[i].ok
      /\ job[e].at = "sent" => \/ \E i \in DOMAIN inbox : inbox[i].by = e
                               \/ \E i \in DOMAIN wire : wire[i].by = e
  BY DEF Posted
<1>5. ASSUME NEW i \in DOMAIN inbox', inbox'[i].by = e
      PROVE  /\ job'[e].at = "sent" /\ inbox'[i].cmd = job'[e].last
             /\ inbox'[i].cmd = "attach" => inbox'[i].to = job'[e].to
             /\ \A j \in DOMAIN inbox' : inbox'[j].by = e => i = j
             /\ \A j \in DOMAIN wire' : wire'[j].by # e
  <2>1. i \in Nat \ {0} /\ i + k \in DOMAIN inbox /\ inbox'[i] = inbox[i + k]
    BY <1>1
  <2>2. \A j \in DOMAIN inbox' : inbox'[j].by = e => i = j
    <3>1. ASSUME NEW j \in DOMAIN inbox', inbox'[j].by = e  PROVE i = j
      <4>1. j \in Nat /\ j + k \in DOMAIN inbox /\ inbox'[j] = inbox[j + k]
        BY <1>1
      <4>2. i + k = j + k
        BY <1>4, <1>5, <2>1, <3>1, <4>1
      <4> QED  BY <1>1, <2>1, <4>1, <4>2
    <3> QED  BY <3>1
  <2>3. \A j \in DOMAIN wire' : wire'[j].by # e
    <3>1. ASSUME NEW j \in DOMAIN wire', wire'[j].by = e  PROVE FALSE
      <4>1. k = 1 /\ inbox[1].by = e /\ 1 \in DOMAIN inbox
        BY <1>2, <1>3, <1>4, <1>5, <2>1, <3>1
      <4>2. i + 1 = 1
        BY <1>4, <1>5, <2>1, <4>1
      <4> QED  BY <2>1, <4>2
    <3> QED  BY <3>1
  <2> QED  BY <1>1, <1>4, <1>5, <2>1, <2>2, <2>3
<1>6. ASSUME NEW i \in DOMAIN wire', wire'[i].by = e
      PROVE  /\ job'[e].at = "sent" /\ wire'[i].kind = "reply"
             /\ \A j \in DOMAIN wire' : wire'[j].by = e => i = j
             /\ wire'[i].num # 0 => wire'[i].ok /\ job'[e].last = "attach"
             /\ Detaching(e)' => wire'[i].ok
  <2>0. Detaching(e)' <=> job[e].last \in {"leave", "depart"}
    BY <1>1 DEF Detaching
  <2>1. CASE i \in DOMAIN wire
    BY <1>1, <1>2, <1>3, <1>4, <1>6, <2>0, <2>1 DEF Detaching
  <2>2. CASE k = 1 /\ i = Len(wire') /\ wire'[i] = m
    BY <1>1, <1>2, <1>3, <1>4, <1>6, <2>0, <2>2
  <2> QED  BY <1>2, <1>3, <1>6, <2>1, <2>2
<1>7. ASSUME job'[e].at = "sent"
      PROVE  \/ \E i \in DOMAIN inbox' : inbox'[i].by = e
             \/ \E i \in DOMAIN wire' : wire'[i].by = e
  BY <1>1, <1>2, <1>4, <1>7
<1> QED  BY <1>5, <1>6, <1>7

\* the sessions are those there were, and at most the one just created,
LEMMA AnswersKnown ==
    ASSUME TypeOK, Known, Linked, NEW k, NEW m, Answers(k, m)
    PROVE  Known' /\ Linked'
<1>1. /\ \A i \in DOMAIN inbox' : i + k \in DOMAIN inbox /\ inbox'[i] = inbox[i + k]
      /\ UNCHANGED <<job, sid, link>> /\ \A s \in DOMAIN home : s \in DOMAIN home'
      /\ Len(home) \in Nat /\ Len(home') \in Nat /\ Len(home) <= Len(home')
  BY DEF Answers, Shifted, TypeOK
<1>2. \A d \in Drivers : job[d].num \in Nat
  BY JobTyped DEF Job
<1>3. \A i \in DOMAIN wire : wire[i].num \in Nat
  <2>1. wire \in Seq(Message)
    BY DEF TypeOK
  <2>2. \A i \in DOMAIN wire : wire[i] \in Message
    BY <2>1
  <2> QED  BY <2>2 DEF Message
<1>4. \A i \in DOMAIN wire' : wire'[i].num <= Len(home')
  <2>1. \A i \in DOMAIN wire : wire'[i].num <= Len(home')
    BY <1>1, <1>3 DEF Answers, Known
  <2>2. \A i \in DOMAIN wire' : i \in DOMAIN wire \/ wire'[i].num = 0
                                \/ (wire'[i].num \in Nat /\ wire'[i].num <= Len(home'))
    <3>1. \A i \in DOMAIN wire' : i \in DOMAIN wire \/ wire'[i].num = 0 \/ (k = 1 /\ wire'[i] = m)
      BY DEF Answers
    <3>2. k = 1 => m.num \in Nat /\ m.num <= Len(home')
      BY DEF Answers
    <3> QED  BY <3>1, <3>2
  <2> QED  BY <1>1, <2>1, <2>2
<1>5. \A d \in Drivers : job'[d].num <= Len(home')
  BY <1>1, <1>2 DEF Known
<1> QED  BY <1>1, <1>4, <1>5 DEF Known, Linked

\* which nobody uses yet,
LEMMA AnswersFresh ==
    ASSUME TypeOK, Known, Fresh, Posted, NEW k, NEW m, Answers(k, m)
    PROVE  Fresh'
<1>1. /\ k \in {0, 1} /\ UNCHANGED <<job, sid>>
      /\ \A i \in DOMAIN inbox' : i + k \in DOMAIN inbox /\ inbox'[i] = inbox[i + k]
      /\ \A s \in DOMAIN home : s \in DOMAIN home' /\ home'[s] = home[s]
      /\ \A s \in DOMAIN home : held'[s] = held[s] \/ (k = 1 /\ inbox[1].on = s)
      /\ \A i \in DOMAIN wire' : \/ i \in DOMAIN wire /\ wire'[i] = wire[i]
                                 \/ wire'[i].by = None /\ wire'[i].num = 0
                                 \/ k = 1 /\ i = Len(wire') /\ wire'[i] = m
      /\ k = 1 => 1 \in DOMAIN inbox /\ m.by = inbox[1].by
  BY DEF Answers, Shifted
<1>2. \A d \in Drivers : d # None
  BY TabAssumption DEF Drivers
<1>3. Len(home) \in Nat /\ DOMAIN home = 1..Len(home) /\ None \notin Nat
  BY TabAssumption DEF TypeOK
<1>4. ASSUME NEW d \in Drivers, NEW n \in Nat, Offered(d, n)', ~Offered(d, n)
      PROVE  /\ k = 1 /\ inbox[1].by = d /\ inbox[1].cmd = "attach" /\ m.ok /\ m.num = n
             /\ n = Len(home) + 1 /\ n \in DOMAIN home' /\ home'[n] = job[d].to /\ held'[n] = {}
  <2>1. job[d].last = "attach"
    BY <1>1, <1>4 DEF Offered
  <2>2. PICK i \in DOMAIN wire' : wire'[i].by = d /\ wire'[i].ok /\ wire'[i].num = n
    BY <1>1, <1>4 DEF Offered
  <2>3. i \notin DOMAIN wire
    BY <1>1, <1>4, <2>1, <2>2 DEF Offered, Answers
  <2>4. k = 1 /\ wire'[i] = m /\ inbox[1].by = d /\ 1 \in DOMAIN inbox
    BY <1>1, <1>2, <2>2, <2>3
  <2>5. inbox[1].cmd = "attach" /\ inbox[1].to = job[d].to
    BY <2>1, <2>4 DEF Posted
  <2> QED  BY <2>2, <2>4, <2>5 DEF Answers
<1>5. ASSUME NEW d \in Drivers, NEW n \in Nat, Offered(d, n)
      PROVE  /\ n \in DOMAIN home' /\ home'[n] = job[d].to /\ held'[n] = {} /\ n # sid
             /\ \A i \in DOMAIN inbox : inbox[i].on # n
  BY <1>1, <1>5 DEF Fresh
<1>6. ASSUME NEW d \in Drivers, NEW n \in Nat, Offered(d, n)', ~Offered(d, n)
      PROVE  n # sid /\ (\A i \in DOMAIN inbox : inbox[i].on # n)
             /\ \A e \in Drivers : ~Offered(e, n)
  <2>1. n = Len(home) + 1 /\ n \notin DOMAIN home /\ n # None
    BY <1>3, <1>4, <1>6
  <2>2. n # sid /\ (\A i \in DOMAIN inbox : inbox[i].on # n)
    BY <2>1 DEF Known
  <2>3. \A e \in Drivers : ~Offered(e, n)
    BY <2>1 DEF Fresh
  <2> QED  BY <2>2, <2>3
<1>7. ASSUME NEW d \in Drivers, NEW n \in Nat, Offered(d, n)'
      PROVE  /\ n \in DOMAIN home' /\ home'[n] = job[d].to /\ held'[n] = {} /\ n # sid
             /\ \A i \in DOMAIN inbox : inbox[i].on # n
  BY <1>4, <1>5, <1>6, <1>7
<1>8. ASSUME NEW d \in Drivers, NEW n \in Nat, Offered(d, n)', NEW e \in Drivers \ {d}
      PROVE  ~Offered(e, n)'
  <2>1. CASE Offered(d, n) /\ Offered(e, n)
    BY <2>1 DEF Fresh
  <2>2. CASE ~Offered(d, n) /\ ~Offered(e, n)
    BY <1>4, <1>8, <2>2
  <2>3. CASE Offered(d, n) /\ ~Offered(e, n)
    BY <1>6, <2>3
  <2>4. CASE ~Offered(d, n) /\ Offered(e, n)
    BY <1>6, <1>8, <2>4
  <2> QED  BY <2>1, <2>2, <2>3, <2>4
<1> QED  BY <1>1, <1>7, <1>8 DEF Fresh

\* What the commands and the messages are after an answer.
LEMMA AnswersIs ==
    ASSUME TypeOK, NEW k, NEW m, Answers(k, m)
    PROVE  /\ k \in {0, 1} /\ UNCHANGED <<link, tab, sid, known, aborted, job>>
           /\ \A i \in DOMAIN inbox' : i \in Nat \ {0} /\ i + k \in DOMAIN inbox /\ inbox'[i] = inbox[i + k]
           /\ \A i \in DOMAIN inbox : i \in Nat \ {0} /\ (i > k \/ (i = 1 /\ k = 1))
           /\ \A i \in DOMAIN inbox : i > k => i - k \in DOMAIN inbox' /\ inbox'[i - k] = inbox[i]
           /\ Len(inbox) \in Nat /\ Len(inbox') = Len(inbox) - k /\ Len(inbox') \in Nat
           /\ Len(home) \in Nat /\ DOMAIN home = 1..Len(home)
           /\ \A s \in DOMAIN home : s \in Nat /\ s # None
<1>1. inbox \in Seq(Cmd) /\ DOMAIN inbox = 1..Len(inbox) /\ Len(inbox) \in Nat
  BY DEF TypeOK
<1>2. Len(home) \in Nat /\ DOMAIN home = 1..Len(home)
  BY DEF TypeOK
<1>3. k = 1 => Len(inbox) # 0
  BY <1>1 DEF Answers
<1>4. /\ k \in {0, 1} /\ UNCHANGED <<link, tab, sid, known, aborted, job>>
      /\ Shifted(inbox, inbox', k) /\ Len(inbox') = Len(inbox) - k
  BY DEF Answers
<1>5. Len(inbox) - k \in Nat
  BY <1>1, <1>3, <1>4
<1>6. \A i \in DOMAIN inbox : i \in Nat \ {0} /\ (i > k \/ (i = 1 /\ k = 1))
  BY <1>1, <1>4
<1>7. \A s \in DOMAIN home : s \in Nat /\ s # None
  BY <1>2, TabAssumption
<1> QED  BY <1>1, <1>2, <1>4, <1>5, <1>6, <1>7 DEF Shifted

\* and which comes after those created before it;
LEMMA AnswersFollows ==
    ASSUME TypeOK, Scripts, Posted, Known, TabFollows, NEW k, NEW m, Answers(k, m)
    PROVE  TabFollows'
<1>1. /\ k \in {0, 1} /\ UNCHANGED <<tab, sid, job>>
      /\ \A i \in DOMAIN inbox' : i \in Nat \ {0} /\ i + k \in DOMAIN inbox /\ inbox'[i] = inbox[i + k]
      /\ \A i \in DOMAIN inbox : i \in Nat \ {0}
      /\ Len(home) \in Nat
  BY AnswersIs
<1>2. /\ \A s \in DOMAIN home : s \in DOMAIN home' /\ home'[s] = home[s]
      /\ \A i \in DOMAIN wire : i \in DOMAIN wire' /\ wire'[i] = wire[i] /\ i < Len(wire) + 1
      /\ \A i \in DOMAIN wire' : \/ i \in DOMAIN wire
                                 \/ wire'[i].by = None /\ wire'[i].num = 0
                                 \/ k = 1 /\ i = Len(wire') /\ wire'[i] = m
      /\ k = 1 => /\ 1 \in DOMAIN inbox /\ m.by = inbox[1].by
                  /\ \A i \in DOMAIN wire : i < Len(wire')
                  /\ m.ok /\ inbox[1].cmd = "attach" => m.num = Len(home) + 1
  BY DEF Answers
<1>3. ASSUME NEW d \in Drivers, NEW e \in Drivers, Attaching(d), Attaching(e), Later(d, e)
      PROVE  Later(d, e)'
  <2>1. job'[d].at = "back" /\ job'[d].ok => job'[e].at = "back" /\ job'[e].num < job'[d].num
    BY <1>1, <1>3 DEF Later
  <2>2. ASSUME NEW i \in DOMAIN inbox', NEW j \in DOMAIN inbox', inbox'[i].by = d, inbox'[j].by = e
        PROVE  j < i
    <3>1. j + k < i + k
      BY <1>1, <1>3, <2>2 DEF Later
    <3> QED  BY <1>1, <3>1
  <2>3. ASSUME NEW i \in DOMAIN wire', wire'[i].by = d, wire'[i].ok
        PROVE  \/ job'[e].at = "back" /\ job'[e].num < wire'[i].num
               \/ \E j \in DOMAIN wire' : j < i /\ wire'[j].by = e /\ wire'[j].num < wire'[i].num
    <3>1. CASE i \in DOMAIN wire
      <4>1. \/ job[e].at = "back" /\ job[e].num < wire[i].num
            \/ \E j \in DOMAIN wire : j < i /\ wire[j].by = e /\ wire[j].num < wire[i].num
        BY <1>2, <1>3, <2>3, <3>1 DEF Later
      <4> QED  BY <1>1, <1>2, <3>1, <4>1
    <3>2. CASE i \notin DOMAIN wire
      <4>1. d # None
        BY TabAssumption DEF Drivers
      <4>2. k = 1 /\ i = Len(wire') /\ wire'[i] = m /\ 1 \in DOMAIN inbox /\ inbox[1].by = d
        BY <1>2, <2>3, <3>2, <4>1
      <4>3. inbox[1].cmd = "attach"
        BY <1>3, <4>2 DEF Posted, Attaching
      <4>4. m.num = Len(home) + 1
        BY <1>2, <2>3, <4>2, <4>3
      <4>5. job[e].at \in {"sent", "back"}
        <5>1. job[e] \in Job
          BY JobTyped
        <5> QED  BY <1>3, <5>1 DEF Attaching, Scripts, Placed, Idle, Job
      <4>6. CASE job[e].at = "back"
        <5>1. job[e].num <= Len(home) /\ job[e].num \in Nat
          BY JobTyped DEF Known, Job
        <5>2. job[e].num < m.num
          BY <1>1, <4>4, <5>1
        <5> QED  BY <1>1, <4>2, <4>6, <5>2
      <4>7. CASE job[e].at = "sent"
        <5>1. ~\E j \in DOMAIN inbox : inbox[j].by = e
          <6>1. ASSUME NEW j \in DOMAIN inbox, inbox[j].by = e  PROVE j < 1
            BY <1>3, <4>2, <6>1 DEF Later
          <6> QED  BY <1>1, <6>1
        <5>2. PICK j \in DOMAIN wire : wire[j].by = e
          BY <4>7, <5>1 DEF Posted
        <5>3. wire[j].num <= Len(home) /\ wire[j].num \in Nat
          <6>1. wire \in Seq(Message)
            BY DEF TypeOK
          <6>2. wire[j] \in Message
            BY <6>1
          <6> QED  BY <6>2 DEF Known, Message
        <5>4. wire[j].num < m.num
          BY <1>1, <4>4, <5>3
        <5> QED  BY <1>2, <4>2, <5>2, <5>4
      <4> QED  BY <4>5, <4>6, <4>7
    <3> QED  BY <3>1, <3>2
  <2> QED  BY <2>1, <2>2, <2>3 DEF Later
<1>4. sid' # None /\ tab' # None => \/ home'[sid'] = tab'
                                    \/ \E d \in Drivers : Attaching(d)' /\ job'[d].to = tab'
  BY <1>1, <1>2 DEF TabFollows, Attaching, Known
<1>5. ASSUME NEW e \in Drivers, Attaching(e)', job'[e].at = "back" => job'[e].ok
      PROVE  \/ tab' \in {None, job'[e].to}
             \/ \E d \in Drivers \ {e} : Attaching(d)' /\ job'[d].to = tab' /\ Later(d, e)'
  <2>1. Attaching(e) /\ (\A d \in Drivers : Attaching(d)' <=> Attaching(d))
    BY <1>1, <1>5 DEF Attaching
  <2>2. \/ tab \in {None, job[e].to}
        \/ \E d \in Drivers \ {e} : Attaching(d) /\ job[d].to = tab /\ Later(d, e)
    BY <1>1, <1>5, <2>1 DEF TabFollows
  <2> QED  BY <1>1, <1>3, <2>1, <2>2
<1> QED  BY <1>4, <1>5 DEF TabFollows

\* the commands that remain go where they went;
LEMMA AnswersLooked ==
    ASSUME TypeOK, Known, Looked, NEW k, NEW m, Answers(k, m)
    PROVE  Looked'
<1>1. /\ UNCHANGED <<sid, job>>
      /\ \A i \in DOMAIN inbox' : i + k \in DOMAIN inbox /\ inbox'[i] = inbox[i + k]
      /\ \A s \in DOMAIN home : home'[s] = home[s]
  <2>1. \A s \in DOMAIN home : home'[s] = home[s]
    BY DEF Answers
  <2> QED  BY <2>1, AnswersIs
<1>2. CalmMouse("task")' => /\ \A e \in Drivers \ {"task"} : job'[e].at = "idle" \/ Waits(e)'
                            /\ sid' # None => home'[sid'] = job'["task"].saw
  <2>1. CalmMouse("task")' => /\ \A e \in Drivers \ {"task"} : job[e].at = "idle" \/ Waits(e)
                              /\ sid # None => home[sid] = job["task"].saw
    BY <1>1 DEF Looked, CalmMouse
  <2>2. \A e \in Drivers : Waits(e)' <=> Waits(e)
    BY <1>1 DEF Waits
  <2>3. sid # None => home'[sid'] = home[sid]
    BY <1>1 DEF Known
  <2> QED  BY <1>1, <2>1, <2>2, <2>3
<1>3. \A i \in DOMAIN inbox' : inbox'[i].saw # None /\ inbox'[i].calm =>
         inbox'[i].on # None /\ home'[inbox'[i].on] = inbox'[i].saw
  BY <1>1 DEF Looked, Known
<1> QED  BY <1>2, <1>3 DEF Looked

\* a session that is closed is followed by its event;
LEMMA AnswersAlive ==
    ASSUME TypeOK, TypeOK', Known, Posted, Alive, NEW k, NEW m, Answers(k, m)
    PROVE  Alive'
<1>1. /\ k \in {0, 1} /\ UNCHANGED <<sid, job>>
      /\ \A i \in DOMAIN inbox : i > k \/ (i = 1 /\ k = 1)
      /\ \A i \in DOMAIN inbox : i > k => i - k \in DOMAIN inbox' /\ inbox'[i - k] = inbox[i]
  BY AnswersIs
<1>2. /\ \A i \in DOMAIN wire : i \in DOMAIN wire' /\ wire'[i] = wire[i]
      /\ k = 1 => /\ 1 \in DOMAIN inbox /\ m.by = inbox[1].by
                  /\ Len(wire') \in DOMAIN wire' /\ wire'[Len(wire')] = m
                  /\ inbox[1].cmd = "enable" /\ inbox[1].on \notin live => ~m.ok
      /\ live' \cap DOMAIN home \subseteq live
      /\ \A s \in live \ live' : \E i \in DOMAIN wire' : wire'[i].kind = "gone" /\ wire'[i].on = s
  BY DEF Answers
<1>3. None \notin live'
  BY TabAssumption DEF TypeOK
<1>4. \A i \in DOMAIN inbox : inbox[i].on \notin live => inbox[i].on \notin live'
  BY <1>2, <1>3 DEF Known
<1>5. ASSUME NEW d \in Drivers, Doomed(d)  PROVE Doomed(d)'
  <2>1. CASE job[d].at = "sent" /\ \E i \in DOMAIN inbox : inbox[i].by = d /\ inbox[i].on \notin live
    <3>1. PICK i \in DOMAIN inbox : inbox[i].by = d /\ inbox[i].on \notin live
      BY <2>1
    <3>2. CASE i > k
      BY <1>1, <1>4, <1>5, <2>1, <3>1, <3>2 DEF Doomed
    <3>3. CASE i = 1 /\ k = 1
      <4>1. inbox[1].cmd = "enable"
        BY <1>5, <3>1, <3>3 DEF Posted, Doomed
      <4> QED  BY <1>1, <1>2, <1>5, <2>1, <3>1, <3>3, <4>1 DEF Doomed
    <3> QED  BY <1>1, <3>2, <3>3
  <2>2. CASE job[d].at = "sent" /\ \E i \in DOMAIN wire : wire[i].by = d /\ ~wire[i].ok
    BY <1>1, <1>2, <1>5, <2>2 DEF Doomed
  <2>3. CASE job[d].at = "back" /\ ~job[d].ok
    BY <1>1, <1>5, <2>3 DEF Doomed
  <2> QED  BY <1>5, <2>1, <2>2, <2>3 DEF Doomed
<1> QED  BY <1>1, <1>2, <1>5 DEF Alive

\* What is held after an answer was held, or to be held, before.
LEMMA HoldsShifts ==
    ASSUME TypeOK, NEW k, NEW m, Answers(k, m), NEW s \in live' \cap DOMAIN home,
           NEW x \in Recorded, NEW n \in Nat \ {0}, Holds(held', inbox', x, s, n)
    PROVE  Holds(held, inbox, x, s, n + k)
<1>1. /\ k \in {0, 1}
      /\ \A i \in DOMAIN inbox' : i \in Nat \ {0} /\ i + k \in DOMAIN inbox /\ inbox'[i] = inbox[i + k]
      /\ \A i \in DOMAIN inbox : i \in Nat \ {0} /\ (i > k \/ (i = 1 /\ k = 1))
      /\ \A i \in DOMAIN inbox : i > k => i - k \in DOMAIN inbox' /\ inbox'[i - k] = inbox[i]
  BY AnswersIs
<1>2. ASSUME NEW i \in Nat, ~Lifted(inbox', x, s, i, n), NEW j \in DOMAIN inbox, i + k < j, j < n + k
      PROVE  ~(inbox[j].on = s /\ Lifts(inbox[j].cmd, x))
  <2>1. j - k \in DOMAIN inbox' /\ inbox'[j - k] = inbox[j] /\ i < j - k /\ j - k < n
    BY <1>1, <1>2
  <2> QED  BY <1>2, <2>1 DEF Lifted
<1>3. CASE x \in held'[s] /\ ~Lifted(inbox', x, s, 0, n)
  <2>0. \/ k = 1 /\ inbox[1].on = s /\ Presses(inbox[1].cmd, x)
        \/ x \in held[s] /\ ~(k = 1 /\ inbox[1].on = s /\ Lifts(inbox[1].cmd, x))
    BY <1>3 DEF Answers
  <2>1. CASE k = 1 /\ inbox[1].on = s /\ Presses(inbox[1].cmd, x)
    <3>1. 1 \in DOMAIN inbox
      BY <2>1 DEF Answers
    <3>2. 1 < n + k
      BY <2>1
    <3>3. ~Lifted(inbox, x, s, 1, n + k)
      BY <1>2, <1>3, <2>1 DEF Lifted
    <3> QED  BY <2>1, <3>1, <3>2, <3>3 DEF Holds
  <2>2. CASE x \in held[s] /\ ~(k = 1 /\ inbox[1].on = s /\ Lifts(inbox[1].cmd, x))
    <3>1. ASSUME NEW j \in DOMAIN inbox, 0 < j, j < n + k, inbox[j].on = s, Lifts(inbox[j].cmd, x)
          PROVE  FALSE
      <4>1. j > k
        BY <1>1, <2>2, <3>1
      <4> QED  BY <1>1, <1>2, <1>3, <3>1, <4>1
    <3>2. ~Lifted(inbox, x, s, 0, n + k)
      BY <3>1 DEF Lifted
    <3> QED  BY <2>2, <3>2 DEF Holds
  <2> QED  BY <2>0, <2>1, <2>2
<1>4. CASE \E i \in DOMAIN inbox' : /\ i < n /\ inbox'[i].on = s /\ Presses(inbox'[i].cmd, x)
                                    /\ ~Lifted(inbox', x, s, i, n)
  <2>1. PICK i \in DOMAIN inbox' : /\ i < n /\ inbox'[i].on = s /\ Presses(inbox'[i].cmd, x)
                                   /\ ~Lifted(inbox', x, s, i, n)
    BY <1>4
  <2>2. i \in Nat /\ i + k \in DOMAIN inbox /\ inbox[i + k] = inbox'[i] /\ i + k < n + k
    BY <1>1, <2>1
  <2>3. ~Lifted(inbox, x, s, i + k, n + k)
    BY <1>2, <2>1, <2>2 DEF Lifted
  <2> QED  BY <2>1, <2>2, <2>3 DEF Holds
<1> QED  BY <1>3, <1>4 DEF Holds

\* and what is held is what was held, or was about to be.
LEMMA AnswersHeld ==
    ASSUME TypeOK, TypeOK', Known, HeldIsKnown, NEW k, NEW m, Answers(k, m)
    PROVE  HeldIsKnown'
<1>1. /\ k \in {0, 1} /\ UNCHANGED <<sid, known, job>>
      /\ \A i \in DOMAIN inbox' : i \in Nat \ {0} /\ i + k \in DOMAIN inbox /\ inbox'[i] = inbox[i + k]
      /\ Len(inbox) \in Nat /\ Len(inbox') = Len(inbox) - k /\ Len(inbox') \in Nat
  BY AnswersIs
<1>2. None \notin live' /\ live' \cap DOMAIN home \subseteq live
  BY TabAssumption DEF TypeOK, Answers
<1>3. ASSUME sid' \in live', NEW x \in Recorded, Holds(held', inbox', x, sid', Len(inbox') + 1)
      PROVE  x \in known'
  <2>1. sid \in live' \cap DOMAIN home /\ sid \in live
    BY <1>1, <1>2, <1>3 DEF Known
  <2>2. Holds(held, inbox, x, sid, (Len(inbox') + 1) + k)
    BY <1>1, <1>3, <2>1, HoldsShifts
  <2>3. (Len(inbox') + 1) + k = Len(inbox) + 1
    BY <1>1
  <2> QED  BY <1>1, <2>1, <2>2, <2>3 DEF HeldIsKnown
<1>4. ASSUME NEW i \in DOMAIN inbox', inbox'[i].cmd \in {"leave", "depart"}, inbox'[i].on \in live',
             Releasing(inbox'[i]), NEW x \in Recorded
      PROVE  ~Holds(held', inbox', x, inbox'[i].on, i)
  <2>1. i + k \in DOMAIN inbox /\ inbox[i + k] = inbox'[i] /\ i \in Nat \ {0}
    BY <1>1
  <2>2. inbox'[i].on \in live' \cap DOMAIN home /\ inbox'[i].on \in live
    BY <1>2, <1>4, <2>1 DEF Known
  <2>3. ~Holds(held, inbox, x, inbox'[i].on, i + k)
    BY <1>4, <2>1, <2>2 DEF HeldIsKnown
  <2> QED  BY <2>1, <2>2, <2>3, HoldsShifts
<1>5. \A d \in Drivers : Releasing(job'[d]) =>
         \A x \in known' : In(StepThatFrees(x), job'[d].todo)
  BY <1>1 DEF HeldIsKnown
<1> QED  BY <1>3, <1>4, <1>5 DEF HeldIsKnown

\* A message from Chrome keeps the invariant.
LEMMA AnswersRest ==
    ASSUME TypeOK, TypeOK', Scripts, Rest, NEW k, NEW m, Answers(k, m)
    PROVE  Rest'
<1>1. /\ Posted /\ Linked /\ Known /\ Fresh /\ TabFollows
      /\ Looked /\ Alive /\ Stopping /\ HeldIsKnown
  BY DEF Rest
<1>2. Stopping'
  <2>1. UNCHANGED <<job, aborted>>
    BY DEF Answers
  <2> QED  BY <1>1, <2>1 DEF Stopping
<1> QED  BY <1>1, <1>2, AnswersPosted, AnswersKnown, AnswersFresh, AnswersFollows, AnswersLooked,
            AnswersAlive, AnswersHeld DEF Rest

\* What a sequence of messages is when others are added to it.
LEMMA GrowsIs ==
    ASSUME NEW p \in Seq(Message), NEW g \in Seq(Message)
    PROVE  /\ p \o g \in Seq(Message) /\ Len(p \o g) = Len(p) + Len(g)
           /\ \A i \in DOMAIN p : i \in DOMAIN (p \o g) /\ (p \o g)[i] = p[i] /\ i < Len(p) + 1
           /\ \A i \in DOMAIN (p \o g) : i \in DOMAIN p \/ \E j \in DOMAIN g : (p \o g)[i] = g[j]
           /\ \A j \in DOMAIN g : \E i \in DOMAIN (p \o g) : (p \o g)[i] = g[j]
<1> DEFINE q == p \o g
<1>1. /\ q \in Seq(Message) /\ Len(q) = Len(p) + Len(g) /\ DOMAIN q = 1..Len(q)
      /\ DOMAIN p = 1..Len(p) /\ DOMAIN g = 1..Len(g) /\ Len(p) \in Nat /\ Len(g) \in Nat
      /\ \A i \in 1..Len(p) : q[i] = p[i]
      /\ \A i \in 1..Len(g) : q[Len(p) + i] = g[i]
  BY ConcatProperties
<1> HIDE DEF q
<1>2. \A i \in DOMAIN q : ~(i <= Len(p)) => i - Len(p) \in DOMAIN g /\ q[i] = g[i - Len(p)]
  <2> SUFFICES ASSUME NEW i \in 1..Len(q), ~(i <= Len(p))
               PROVE  i - Len(p) \in 1..Len(g) /\ q[i] = g[i - Len(p)]
    BY <1>1
  <2>1. i - Len(p) \in 1..Len(g) /\ i = Len(p) + (i - Len(p))
    BY <1>1
  <2> QED  BY <1>1, <2>1
<1>3. \A j \in DOMAIN g : Len(p) + j \in DOMAIN q /\ q[Len(p) + j] = g[j]
  BY <1>1
<1>4. \A i \in DOMAIN q : i \in DOMAIN p \/ \E j \in DOMAIN g : q[i] = g[j]
  BY <1>1, <1>2
<1>5. \A i \in DOMAIN p : i \in DOMAIN q /\ q[i] = p[i] /\ i < Len(p) + 1
  BY <1>1
<1>6. \A j \in DOMAIN g : \E i \in DOMAIN q : q[i] = g[j]
  BY <1>3
<1> QED  BY <1>1, <1>4, <1>5, <1>6 DEF q

\* What the messages are when events and a reply are added.
LEMMA RepliesIs ==
    ASSUME NEW p \in Seq(Message), NEW g \in Seq(Message), NEW m \in Message,
           NEW q, q = Append(p \o g, m)
    PROVE  /\ Len(q) \in DOMAIN q \ DOMAIN p /\ q[Len(q)] = m
           /\ \A i \in DOMAIN p : i \in DOMAIN q /\ q[i] = p[i] /\ i < Len(p) + 1 /\ i < Len(q)
           /\ \A i \in DOMAIN q : \/ i \in DOMAIN p
                                  \/ \E j \in DOMAIN g : q[i] = g[j]
                                  \/ i = Len(q) /\ q[i] = m
           /\ \A j \in DOMAIN g : \E i \in DOMAIN q : q[i] = g[j]
<1> DEFINE r == p \o g
<1>1. /\ r \in Seq(Message) /\ Len(r) = Len(p) + Len(g)
      /\ \A i \in DOMAIN p : i \in DOMAIN r /\ r[i] = p[i] /\ i < Len(p) + 1
      /\ \A i \in DOMAIN r : i \in DOMAIN p \/ \E j \in DOMAIN g : r[i] = g[j]
      /\ \A j \in DOMAIN g : \E i \in DOMAIN r : r[i] = g[j]
  BY GrowsIs
<1>2. q = Append(r, m)
  OBVIOUS
<1> HIDE DEF r
<1>3. /\ DOMAIN q = 1..Len(q) /\ Len(q) = Len(r) + 1 /\ Len(r) \in Nat /\ DOMAIN r = 1..Len(r)
      /\ \A i \in 1..Len(r) : q[i] = r[i]
      /\ q[Len(q)] = m
  <2>1. /\ q \in Seq(Message) /\ Len(q) = Len(r) + 1 /\ q[Len(r) + 1] = m
        /\ \A i \in 1..Len(r) : q[i] = r[i]
    BY <1>1, <1>2
  <2> QED  BY <1>1, <2>1
<1>4. Len(p) \in Nat /\ Len(g) \in Nat /\ DOMAIN p = 1..Len(p)
  OBVIOUS
<1>5. \A i \in DOMAIN q : (i \in DOMAIN r /\ q[i] = r[i]) \/ (i = Len(q) /\ q[i] = m)
  BY <1>3
<1>6. \A i \in DOMAIN r : i \in DOMAIN q /\ q[i] = r[i] /\ i < Len(q)
  BY <1>3
<1>7. Len(q) \in DOMAIN q \ DOMAIN p
  BY <1>1, <1>3, <1>4
<1>8. \A i \in DOMAIN p : i \in DOMAIN q /\ q[i] = p[i] /\ i < Len(p) + 1 /\ i < Len(q)
  BY <1>1, <1>6
<1>9. \A i \in DOMAIN q : \/ i \in DOMAIN p
                          \/ \E j \in DOMAIN g : q[i] = g[j]
                          \/ i = Len(q) /\ q[i] = m
  BY <1>1, <1>5
<1>10. ASSUME NEW j \in DOMAIN g  PROVE \E i \in DOMAIN q : q[i] = g[j]
  <2>1. PICK i \in DOMAIN r : r[i] = g[j]
    BY <1>1
  <2> QED  BY <1>6, <2>1
<1> QED  BY <1>3, <1>7, <1>8, <1>9, <1>10

\* Events answer no one.
Silent(g) == \A i \in DOMAIN g : g[i].by = None /\ g[i].num = 0

\* An event answers no one;
LEMMA EventSilent ==
    ASSUME TypeOK, NEW s \in DOMAIN home
    PROVE  /\ <<Event("changed", s)>> \in Seq(Message) /\ Silent(<<Event("changed", s)>>)
           /\ Append(wire, Event("changed", s)) = wire \o <<Event("changed", s)>>
<1>1. Event("changed", s) \in Message
  BY EventTyped
<1>2. Event("changed", s).by = None /\ Event("changed", s).num = 0
  BY DEF Event
<1> DEFINE e == Event("changed", s)
<1> HIDE DEF e
<1>3. e \in Message /\ e.by = None /\ e.num = 0
  BY <1>1, <1>2 DEF e
<1>4. <<e>> \in Seq(Message) /\ \A i \in DOMAIN <<e>> : <<e>>[i] = e
  BY <1>3
<1>5. Append(wire, e) = wire \o <<e>>
  BY <1>3, AppendIsConcat DEF TypeOK
<1> QED  BY <1>3, <1>4, <1>5 DEF Silent, e

\* nor do the events of the sessions that are closed.
LEMMA GoneSilent ==
    ASSUME TypeOK, NEW S \in SUBSET (DOMAIN home)
    PROVE  /\ Gone(S) \in Seq(Message) /\ Silent(Gone(S))
           /\ \A s \in S : \E i \in DOMAIN Gone(S) : Gone(S)[i].kind = "gone" /\ Gone(S)[i].on = s
<1>1. /\ Gone(S) \in Seq(Message)
      /\ \A i \in DOMAIN Gone(S) : Gone(S)[i].kind = "gone" /\ Gone(S)[i].by = None
      /\ \A s \in S : \E i \in DOMAIN Gone(S) : Gone(S)[i].on = s
  BY GoneIs
<1>2. \A i \in DOMAIN Gone(S) : Gone(S)[i].num = 0
  BY DEF Gone, Event
<1> QED  BY <1>1, <1>2 DEF Silent

\* What a session holds after a command: what the command presses, and what was
\* held and it does not lift.
LEMMA PressedIs ==
    ASSUME NEW c, NEW h, NEW x \in Recorded, x \in Pressed(c, h)
    PROVE  Presses(c, x) \/ (x \in h /\ ~Lifts(c, x))
<1>1. CASE x = "button"
  BY <1>1 DEF Pressed, Presses, Lifts
<1>2. CASE x = "key"
  BY <1>2 DEF Pressed, Presses, Lifts
<1> QED  BY <1>1, <1>2 DEF Recorded

\* The user, or a page.
LEMMA OutsideAnswers ==
    ASSUME TypeOK, Outside
    PROVE  \E m : Answers(0, m)
<1>1. /\ UNCHANGED <<home, held, inbox, link, tab, sid, known, aborted, job>>
      /\ \/ \E t \in open : live' = live \ SessionsOf(t) /\ wire' = wire \o Gone(SessionsOf(t))
         \/ \E s \in live : live' = live /\ wire' = Append(wire, Event("changed", s))
         \/ \E s \in live : live' = live \ {s} /\ wire' = wire \o Gone({s})
  BY DEF Outside, session
<1>2. /\ Shifted(inbox, inbox', 0) /\ Len(inbox') = Len(inbox) - 0
      /\ Len(home) \in Nat /\ live \subseteq DOMAIN home /\ wire \in Seq(Message)
  <2>1. inbox \in Seq(Cmd) /\ DOMAIN inbox = 1..Len(inbox) /\ Len(inbox) \in Nat
    BY DEF TypeOK
  <2>2. Shifted(inbox, inbox', 0)
    BY <1>1, <2>1 DEF Shifted
  <2> QED  BY <1>1, <2>1, <2>2 DEF TypeOK
<1>3. \E g \in Seq(Message) :
        /\ Silent(g) /\ wire' = wire \o g /\ live' \subseteq live
        /\ \A s \in live \ live' : \E i \in DOMAIN g : g[i].kind = "gone" /\ g[i].on = s
  <2>1. \A S \in SUBSET live :
          /\ Gone(S) \in Seq(Message) /\ Silent(Gone(S))
          /\ \A s \in S : \E i \in DOMAIN Gone(S) : Gone(S)[i].kind = "gone" /\ Gone(S)[i].on = s
    BY <1>2, GoneSilent
  <2>2. CASE \E S \in SUBSET live : live' = live \ S /\ wire' = wire \o Gone(S)
    BY <2>1, <2>2
  <2>3. ASSUME NEW s \in live, live' = live, wire' = Append(wire, Event("changed", s))
        PROVE  \E g \in Seq(Message) :
                 /\ Silent(g) /\ wire' = wire \o g /\ live' \subseteq live
                 /\ \A z \in live \ live' : \E i \in DOMAIN g : g[i].kind = "gone" /\ g[i].on = z
    BY <1>2, <2>3, EventSilent
  <2> QED  BY <1>1, <2>2, <2>3 DEF SessionsOf
<1>4. PICK g \in Seq(Message) :
        /\ Silent(g) /\ wire' = wire \o g /\ live' \subseteq live
        /\ \A s \in live \ live' : \E i \in DOMAIN g : g[i].kind = "gone" /\ g[i].on = s
  BY <1>3
<1> DEFINE q == wire \o g
<1>5. /\ \A i \in DOMAIN wire : i \in DOMAIN q /\ q[i] = wire[i] /\ i < Len(wire) + 1
      /\ \A i \in DOMAIN q : i \in DOMAIN wire \/ \E j \in DOMAIN g : q[i] = g[j]
      /\ \A j \in DOMAIN g : \E i \in DOMAIN q : q[i] = g[j]
  BY <1>2, GrowsIs
<1>6. wire' = q
  BY <1>4
<1> HIDE DEF q
<1>7. /\ Silent(g) /\ live' \subseteq live
      /\ \A s \in live \ live' : \E i \in DOMAIN g : g[i].kind = "gone" /\ g[i].on = s
      /\ \A i \in DOMAIN wire : i \in DOMAIN q /\ q[i] = wire[i] /\ i < Len(wire) + 1
      /\ \A i \in DOMAIN q : i \in DOMAIN wire \/ \E j \in DOMAIN g : q[i] = g[j]
      /\ \A j \in DOMAIN g : \E i \in DOMAIN q : q[i] = g[j]
  BY <1>4, <1>5
<1>8. \A i \in DOMAIN q : i \in DOMAIN wire \/ (q[i].by = None /\ q[i].num = 0)
  BY <1>7 DEF Silent
<1>9. \A s \in live \ live' : \E i \in DOMAIN q : q[i].kind = "gone" /\ q[i].on = s
  BY <1>7
<1> QED  BY <1>1, <1>2, <1>6, <1>7, <1>8, <1>9 DEF Answers

\* Chrome executes the command c: it sends the events g, then the reply m.
Executes(c, g, m) ==
    /\ g \in Seq(Message) /\ Silent(g) /\ m \in Message /\ wire' = Append(wire \o g, m)
    /\ m.kind = "reply" /\ m.by = c.by
    /\ m.num # 0 => m.ok /\ c.cmd = "attach"
    /\ m.ok /\ c.cmd = "attach" =>
         /\ m.num = Len(home) + 1 /\ m.num \in DOMAIN home'
         /\ home'[m.num] = c.to /\ held'[m.num] = {}
    /\ m.num \in Nat /\ m.num <= Len(home')
    /\ c.cmd = "enable" /\ c.on \notin live => ~m.ok
    /\ c.cmd \in {"leave", "depart"} => m.ok
    /\ Len(home') \in Nat /\ Len(home) <= Len(home')
    /\ \A s \in DOMAIN home : s \in DOMAIN home' /\ home'[s] = home[s]
    /\ live' \cap DOMAIN home \subseteq live
    /\ \A s \in live \ live' : \E i \in DOMAIN g : g[i].kind = "gone" /\ g[i].on = s
    /\ \A s \in DOMAIN home : held'[s] = held[s] \/ c.on = s
    /\ \A s \in live' \cap DOMAIN home : \A x \in Recorded : x \in held'[s] =>
         \/ c.on = s /\ Presses(c.cmd, x)
         \/ x \in held[s] /\ ~(c.on = s /\ Lifts(c.cmd, x))

\* What Chrome executes, it answers.
LEMMA ExecutesAnswers ==
    ASSUME TypeOK, inbox # <<>>, inbox' = Tail(inbox),
           UNCHANGED <<link, tab, sid, known, aborted, job>>,
           NEW g, NEW m, Executes(Head(inbox), g, m)
    PROVE  Answers(1, m)
<1>1. /\ Shifted(inbox, inbox', 1) /\ inbox[1] = Head(inbox) /\ 1 \in DOMAIN inbox
      /\ Len(inbox') = Len(inbox) - 1
  <2>1. inbox \in Seq(Cmd) /\ inbox # <<>>
    BY DEF TypeOK
  <2>2. Len(Tail(inbox)) = Len(inbox) - 1
    BY <2>1
  <2> QED  BY <2>1, <2>2, TailShifts
<1> DEFINE q == Append(wire \o g, m)
<1>2. wire \in Seq(Message) /\ g \in Seq(Message) /\ m \in Message /\ wire' = q
  BY DEF TypeOK, Executes
<1> HIDE DEF q
<1>3. /\ Len(q) \in DOMAIN q \ DOMAIN wire /\ q[Len(q)] = m
      /\ \A i \in DOMAIN wire : i \in DOMAIN q /\ q[i] = wire[i] /\ i < Len(wire) + 1 /\ i < Len(q)
      /\ \A i \in DOMAIN q : \/ i \in DOMAIN wire
                             \/ \E j \in DOMAIN g : q[i] = g[j]
                             \/ i = Len(q) /\ q[i] = m
      /\ \A j \in DOMAIN g : \E i \in DOMAIN q : q[i] = g[j]
  BY <1>2, RepliesIs DEF q
<1>4. \A i \in DOMAIN q : \/ i \in DOMAIN wire
                          \/ q[i].by = None /\ q[i].num = 0
                          \/ 1 = 1 /\ i = Len(q) /\ q[i] = m
  <2>1. Silent(g)
    BY DEF Executes
  <2> QED  BY <1>3, <2>1 DEF Silent
<1>5. \A s \in live \ live' : \E i \in DOMAIN q : q[i].kind = "gone" /\ q[i].on = s
  <2>1. \A s \in live \ live' : \E i \in DOMAIN g : g[i].kind = "gone" /\ g[i].on = s
    BY DEF Executes
  <2> QED  BY <1>3, <2>1
<1>6. /\ m.kind = "reply" /\ m.by = inbox[1].by
      /\ m.num # 0 => m.ok /\ inbox[1].cmd = "attach"
      /\ m.ok /\ inbox[1].cmd = "attach" =>
           /\ m.num = Len(home) + 1 /\ m.num \in DOMAIN home'
           /\ home'[m.num] = inbox[1].to /\ held'[m.num] = {}
      /\ m.num \in Nat /\ m.num <= Len(home')
      /\ inbox[1].cmd = "enable" /\ inbox[1].on \notin live => ~m.ok
      /\ inbox[1].cmd \in {"leave", "depart"} => m.ok
  BY <1>1 DEF Executes
<1>7. /\ Len(home') \in Nat /\ Len(home) <= Len(home')
      /\ \A s \in DOMAIN home : s \in DOMAIN home' /\ home'[s] = home[s]
      /\ live' \cap DOMAIN home \subseteq live
      /\ \A s \in DOMAIN home : held'[s] = held[s] \/ (1 = 1 /\ inbox[1].on = s)
      /\ \A s \in live' \cap DOMAIN home : \A x \in Recorded : x \in held'[s] =>
           \/ 1 = 1 /\ inbox[1].on = s /\ Presses(inbox[1].cmd, x)
           \/ x \in held[s] /\ ~(1 = 1 /\ inbox[1].on = s /\ Lifts(inbox[1].cmd, x))
  BY <1>1 DEF Executes
<1> QED  BY <1>1, <1>2, <1>3, <1>4, <1>5, <1>6, <1>7 DEF Answers

\* A reply alone, and one after events.
LEMMA Appended ==
    ASSUME TypeOK, NEW m \in Message
    PROVE  /\ Append(wire, m) = Append(wire \o <<>>, m)
           /\ <<>> \in Seq(Message) /\ Silent(<<>>)
           /\ \A g \in Seq(Message) : (wire \o g) \o <<m>> = Append(wire \o g, m)
<1>1. wire \in Seq(Message)
  BY DEF TypeOK
<1>2. wire \o <<>> = wire
  BY <1>1, ConcatEmptySeq
<1>3. ASSUME NEW g \in Seq(Message)  PROVE (wire \o g) \o <<m>> = Append(wire \o g, m)
  <2>1. wire \o g \in Seq(Message)
    BY <1>1, ConcatProperties
  <2> QED  BY <2>1, AppendIsConcat
<1>4. <<>> \in Seq(Message) /\ \A i \in DOMAIN <<>> : FALSE
  OBVIOUS
<1> QED  BY <1>2, <1>3, <1>4 DEF Silent

\* Nothing changes in the sessions but that some are closed.
LEMMA NothingPressed ==
    ASSUME TypeOK, NEW c \in Cmd, UNCHANGED <<home, held>>, live' \subseteq live,
           NEW g \in Seq(Message), Silent(g), NEW m \in Message, wire' = Append(wire \o g, m),
           m.kind = "reply", m.by = c.by, m.num = 0,
           c.cmd \notin {"attach", "enable"}, c.cmd \in {"leave", "depart"} => m.ok, \A x \in Recorded : ~Lifts(c.cmd, x),
           \A s \in live \ live' : \E i \in DOMAIN g : g[i].kind = "gone" /\ g[i].on = s
    PROVE  Executes(c, g, m)
<1>1. Len(home) \in Nat
  BY DEF TypeOK
<1> QED  BY <1>1 DEF Executes

\* Every command is executed so.
LEMMA CommandExecutes ==
    ASSUME TypeOK, NEW c \in Cmd,
           \/ c.cmd \in {"leave", "depart"} /\ Detach(c)
           \/ c.cmd = "attach" /\ NewSession(c)
           \/ /\ c.cmd \in {"create", "close", "list", "activate", "window", "show"}
              /\ OnTargets(c) /\ UNCHANGED <<home, held, typed>>
           \/ /\ c.cmd \notin {"leave", "depart", "attach", "create", "close", "list",
                               "activate", "window", "show"}
              /\ OnSession(c)
    PROVE  \E g, m : Executes(c, g, m)
<1>2. /\ live \subseteq DOMAIN home /\ Len(home) \in Nat /\ DOMAIN home = 1..Len(home)
      /\ DOMAIN held = DOMAIN home /\ open \subseteq Tabs
  BY DEF TypeOK
<1>3. \A ok \in BOOLEAN, num \in Nat, ts \in SUBSET Tabs : Reply(c, ok, num, ts) \in Message
  BY ReplyTyped
<1>4. \A x \in Recorded : c.cmd \in {"leave", "depart", "create", "close", "list", "activate", "window", "show"} =>
          ~Lifts(c.cmd, x)
  BY DEF Lifts
<1>5. CASE c.cmd \in {"leave", "depart"} /\ Detach(c)
  <2> DEFINE g == Gone(live \cap {c.on})
             m == Reply(c, TRUE, 0, {})
  <2>0. m \in Message
    BY <1>3
  <2>1. m \in Message /\ m.kind = "reply" /\ m.by = c.by /\ m.num = 0 /\ m.ok
    BY <2>0 DEF Reply
  <2>2. /\ g \in Seq(Message) /\ Silent(g)
        /\ \A s \in live \cap {c.on} : \E i \in DOMAIN g : g[i].kind = "gone" /\ g[i].on = s
    <3>1. live \cap {c.on} \in SUBSET (DOMAIN home)
      BY <1>2
    <3> HIDE DEF m
    <3> QED  BY <3>1, GoneSilent
  <2>3. wire' = (wire \o g) \o <<m>> /\ live' = live \ {c.on} /\ UNCHANGED <<home, held>>
    BY <1>5 DEF Detach
  <2> HIDE DEF g, m
  <2>4. wire' = Append(wire \o g, m)
    BY <2>1, <2>2, <2>3, Appended
  <2>5. \A s \in live \ live' : \E i \in DOMAIN g : g[i].kind = "gone" /\ g[i].on = s
    BY <2>2, <2>3
  <2>6. Executes(c, g, m)
    BY <1>4, <1>5, <2>1, <2>2, <2>3, <2>4, <2>5, NothingPressed
  <2> QED  BY <2>6
<1>6. CASE c.cmd = "attach" /\ NewSession(c)
  <2>1. CASE c.to \in open
    <3> DEFINE n == Len(home) + 1
               m == Reply(c, TRUE, n, {})
               h == Append(home, c.to)
               p == Append(held, {})
    <3>0. n \in Nat /\ n \notin DOMAIN home /\ Len(home) <= n
      BY <1>2
    <3>1. wire' = Append(wire, m) /\ live' = live \cup {n} /\ home' = h /\ held' = p
      BY <1>6, <2>1 DEF NewSession
    <3>2. Len(h) = n /\ n \in DOMAIN h /\ h[n] = c.to /\ \A s \in DOMAIN home : s \in DOMAIN h /\ h[s] = home[s]
      <4>1. home \in Seq(Tabs) /\ c.to \in Tabs
        BY <2>1 DEF TypeOK
      <4>2. h \in Seq(Tabs) /\ Len(h) = n /\ h[n] = c.to /\ \A s \in 1..Len(home) : h[s] = home[s]
        BY <4>1, AppendProperties
      <4> HIDE DEF h
      <4>3. DOMAIN h = 1..n
        BY <4>2
      <4> QED  BY <1>2, <3>0, <4>2, <4>3
    <3>3. p[n] = {} /\ \A s \in DOMAIN home : p[s] = held[s]
      <4> DEFINE H == SUBSET {"button", "double", "key", "raw"}
      <4>1. held \in Seq(H) /\ Len(held) = Len(home) /\ {} \in H
        BY DEF TypeOK
      <4> HIDE DEF H
      <4>2. p[Len(held) + 1] = {} /\ \A s \in 1..Len(held) : p[s] = held[s]
        BY <4>1, AppendProperties
      <4> QED  BY <1>2, <4>1, <4>2
    <3>4. m \in Message /\ m.kind = "reply" /\ m.by = c.by /\ m.num = n
      <4>1. m \in Message
        BY <1>3, <3>0
      <4> QED  BY <4>1 DEF Reply
    <3> HIDE DEF m, h, p
    <3>5. wire' = Append(wire \o <<>>, m) /\ <<>> \in Seq(Message) /\ Silent(<<>>)
      BY <3>1, <3>4, Appended
    <3> HIDE DEF n
    <3>6. live' \cap DOMAIN home \subseteq live /\ live \subseteq live'
      BY <1>2, <3>0, <3>1
    <3>7. m.ok => m.num = Len(home) + 1 /\ m.num \in DOMAIN home' /\ home'[m.num] = c.to /\ held'[m.num] = {}
      BY <3>1, <3>2, <3>3, <3>4 DEF n
    <3>8. /\ m.num \in Nat /\ m.num <= Len(home') /\ Len(home') \in Nat /\ Len(home) <= Len(home')
          /\ \A s \in DOMAIN home : s \in DOMAIN home' /\ home'[s] = home[s] /\ held'[s] = held[s]
      BY <1>2, <3>0, <3>1, <3>2, <3>3, <3>4
    <3>9. m.ok
      BY DEF m, Reply
    <3>10. \A x \in Recorded : ~Lifts(c.cmd, x)
      BY <1>6 DEF Lifts
    <3>11. Executes(c, <<>>, m)
      BY <1>2, <1>6, <3>4, <3>5, <3>6, <3>7, <3>8, <3>9, <3>10 DEF Executes
    <3> QED  BY <3>11
  <2>2. CASE c.to \notin open
    <3> DEFINE m == Reply(c, FALSE, 0, {})
    <3>0. m \in Message
      BY <1>3
    <3>1. m \in Message /\ m.kind = "reply" /\ m.by = c.by /\ m.num = 0 /\ ~m.ok
      BY <3>0 DEF Reply
    <3>2. wire' = Append(wire, m) /\ UNCHANGED <<home, held, live>>
      BY <1>6, <2>2 DEF NewSession, chrome
    <3> HIDE DEF m
    <3>3. wire' = Append(wire \o <<>>, m) /\ <<>> \in Seq(Message) /\ Silent(<<>>)
      BY <3>1, <3>2, Appended
    <3>4. \A x \in Recorded : ~Lifts(c.cmd, x)
      BY <1>6 DEF Lifts
    <3>5. Executes(c, <<>>, m)
      BY <1>2, <1>6, <3>1, <3>2, <3>3, <3>4 DEF Executes
    <3> QED  BY <3>5
  <2> QED  BY <2>1, <2>2
<1>7. CASE /\ c.cmd \in {"create", "close", "list", "activate", "window", "show"}
           /\ OnTargets(c) /\ UNCHANGED <<home, held, typed>>
  <2>1. \/ \E ok \in BOOLEAN, ts \in SUBSET Tabs : wire' = Append(wire, Reply(c, ok, 0, ts)) /\ live' = live
        \/ /\ wire' = wire \o Gone(SessionsOf(c.to)) \o <<Reply(c, c.to \in open, 0, {})>>
           /\ live' = live \ SessionsOf(c.to)
    <3>1. CASE c.cmd = "create"
      <4>1. TRUE \in BOOLEAN /\ FALSE \in BOOLEAN /\ {} \in SUBSET Tabs /\ \A t \in Tabs : {t} \in SUBSET Tabs
        OBVIOUS
      <4> QED  BY <1>7, <3>1, <4>1 DEF OnTargets
    <3>2. CASE c.cmd \in {"list", "activate", "window", "show"}
      <4> DEFINE ok == c.cmd # "activate" \/ c.to \in open
      <4>1. ok \in BOOLEAN /\ open \in SUBSET Tabs
        BY <1>2
      <4>2. wire' = Append(wire, Reply(c, ok, 0, open)) /\ live' = live
        BY <1>7, <3>2 DEF OnTargets
      <4> HIDE DEF ok
      <4> QED  BY <4>1, <4>2
    <3> QED  BY <1>7, <3>1, <3>2 DEF OnTargets
  <2>2. ASSUME NEW ok \in BOOLEAN, NEW ts \in SUBSET Tabs, wire' = Append(wire, Reply(c, ok, 0, ts)), live' = live
        PROVE  \E g, m : Executes(c, g, m)
    <3> DEFINE m == Reply(c, ok, 0, ts)
    <3>0. m \in Message
      BY <1>3
    <3>1. m \in Message /\ m.kind = "reply" /\ m.by = c.by /\ m.num = 0
      BY <3>0 DEF Reply
    <3>2. wire' = Append(wire, m)
      BY <2>2
    <3> HIDE DEF m
    <3>3. wire' = Append(wire \o <<>>, m) /\ <<>> \in Seq(Message) /\ Silent(<<>>)
      BY <3>1, <3>2, Appended
    <3>4. Executes(c, <<>>, m)
      BY <1>4, <1>7, <2>2, <3>1, <3>3, NothingPressed
    <3> QED  BY <3>4
  <2>3. CASE /\ wire' = wire \o Gone(SessionsOf(c.to)) \o <<Reply(c, c.to \in open, 0, {})>>
             /\ live' = live \ SessionsOf(c.to)
    <3> DEFINE g == Gone(SessionsOf(c.to))
               m == Reply(c, c.to \in open, 0, {})
    <3>0. m \in Message
      <4>1. (c.to \in open) \in BOOLEAN
        OBVIOUS
      <4> QED  BY <1>3, <4>1
    <3>1. m \in Message /\ m.kind = "reply" /\ m.by = c.by /\ m.num = 0
      BY <3>0 DEF Reply
    <3>2. /\ g \in Seq(Message) /\ Silent(g)
          /\ \A s \in SessionsOf(c.to) : \E i \in DOMAIN g : g[i].kind = "gone" /\ g[i].on = s
      <4>1. SessionsOf(c.to) \in SUBSET (DOMAIN home)
        BY <1>2 DEF SessionsOf
      <4> QED  BY <4>1, GoneSilent
    <3>3. wire' = (wire \o g) \o <<m>>
      BY <2>3
    <3> HIDE DEF g, m
    <3>4. wire' = Append(wire \o g, m)
      BY <3>1, <3>2, <3>3, Appended
    <3>5. \A s \in live \ live' : \E i \in DOMAIN g : g[i].kind = "gone" /\ g[i].on = s
      BY <2>3, <3>2
    <3>6. Executes(c, g, m)
      BY <1>4, <1>7, <2>3, <3>1, <3>2, <3>4, <3>5, NothingPressed
    <3> QED  BY <3>6
  <2> QED  BY <2>1, <2>2, <2>3
<1>8. CASE /\ c.cmd \notin {"leave", "depart", "attach", "create", "close", "list",
                            "activate", "window", "show"}
           /\ OnSession(c)
  <2> DEFINE ok == c.on \in live
             m == Reply(c, ok \/ c.cmd \in Lenient, 0, {})
  <2>0. m \in Message
    <3>1. (ok \/ c.cmd \in Lenient) \in BOOLEAN
      OBVIOUS
    <3> QED  BY <1>3, <3>1
  <2>1. m \in Message /\ m.kind = "reply" /\ m.by = c.by /\ m.num = 0 /\ (m.ok => ok \/ c.cmd \in Lenient)
    BY <2>0 DEF Reply
  <2>2. /\ UNCHANGED <<home, live>> /\ held' = IF ok THEN [held EXCEPT ![c.on] = Pressed(c.cmd, @)] ELSE held
        /\ \/ wire' = (wire \o <<>>) \o <<m>>
           \/ ok /\ wire' = (wire \o <<Event("changed", c.on)>>) \o <<m>>
    BY <1>8 DEF OnSession
  <2> HIDE DEF m
  <2>3. \E g \in Seq(Message) : Silent(g) /\ wire' = Append(wire \o g, m)
    <3>1. CASE wire' = (wire \o <<>>) \o <<m>>
      BY <2>1, <3>1, Appended
    <3>2. CASE ok /\ wire' = (wire \o <<Event("changed", c.on)>>) \o <<m>>
      <4>1. c.on \in DOMAIN home
        BY <1>2, <3>2
      <4>2. <<Event("changed", c.on)>> \in Seq(Message) /\ Silent(<<Event("changed", c.on)>>)
        BY <4>1, EventSilent
      <4> QED  BY <2>1, <3>2, <4>2, Appended
    <3> QED  BY <2>2, <3>1, <3>2
  <2>4. PICK g \in Seq(Message) : Silent(g) /\ wire' = Append(wire \o g, m)
    BY <2>3
  <2>5. \A s \in DOMAIN home : held'[s] = held[s] \/ c.on = s
    BY <1>2, <2>2
  <2>6. ASSUME NEW s \in live' \cap DOMAIN home, NEW x \in Recorded, x \in held'[s]
        PROVE  \/ c.on = s /\ Presses(c.cmd, x)
               \/ x \in held[s] /\ ~(c.on = s /\ Lifts(c.cmd, x))
    <3>1. CASE c.on = s
      <4>1. held'[s] = Pressed(c.cmd, held[s])
        BY <1>2, <2>2, <3>1
      <4> QED  BY <2>6, <3>1, <4>1, PressedIs
    <3>2. CASE c.on # s
      BY <2>5, <2>6, <3>2
    <3> QED  BY <3>1, <3>2
  <2>7. c.cmd = "enable" /\ c.on \notin live => ~m.ok
    BY <2>1 DEF Lenient
  <2>8. Executes(c, g, m)
    <3>1. live' \cap DOMAIN home \subseteq live /\ live \ live' = {}
      BY <2>2
    <3> QED  BY <1>2, <1>8, <2>1, <2>2, <2>4, <2>5, <2>6, <2>7, <3>1 DEF Executes
  <2> QED  BY <2>8
<1> QED  BY <1>5, <1>6, <1>7, <1>8

\* Chrome executes a command.
LEMMA ChromeRest ==
    ASSUME TypeOK, TypeOK', Scripts, Rest, Chrome
    PROVE  Rest'
<1>1. PICK g, m : Executes(Head(inbox), g, m)
  BY ChromeIs, CommandExecutes
<1>2. /\ inbox # <<>> /\ inbox' = Tail(inbox)
      /\ UNCHANGED <<link, tab, sid, known, aborted, job>>
  BY DEF Chrome, session
<1>3. Answers(1, m)
  BY <1>1, <1>2, ExecutesAnswers
<1> QED  BY <1>3, AnswersRest

\* The user, or a page, does something.
LEMMA OutsideRest ==
    ASSUME TypeOK, TypeOK', Scripts, Rest, Outside
    PROVE  Rest'
  BY OutsideAnswers, AnswersRest

-----------------------------------------------------------------------------
(* A command is sent                                                        *)

\* The command is the nth, and its driver waits for the reply.
Sent(d, c, on, to, n) ==
    /\ UNCHANGED <<home, live, held, wire, aborted, link>> /\ link
    /\ n \in Nat \ {0} /\ n = Len(inbox) + 1 /\ n = Len(inbox') /\ n \in DOMAIN inbox' \ DOMAIN inbox
    /\ \A i \in DOMAIN inbox : i \in Nat \ {0} /\ i < n /\ i \in DOMAIN inbox' /\ inbox'[i] = inbox[i]
    /\ \A i \in DOMAIN inbox' : i \in DOMAIN inbox \/ i = n
    /\ inbox'[n].by = d /\ inbox'[n].cmd = c /\ inbox'[n].on = on /\ inbox'[n].to = to
    /\ inbox'[n].saw = job[d].saw /\ inbox'[n].kind = job[d].kind /\ inbox'[n].calm = job[d].calm
    /\ \A e \in Drivers \ {d} : job'[e] = job[e]
    /\ job'[d].at = "sent" /\ job'[d].last = c /\ job'[d].num = job[d].num /\ job'[d].to = job[d].to
    /\ job'[d].kind = job[d].kind /\ job'[d].saw = job[d].saw /\ job'[d].calm = job[d].calm
    /\ job[d].at \in {"turn", "back"} /\ job[d].ok
    /\ \A i \in DOMAIN inbox : inbox[i].by # d
    /\ \A i \in DOMAIN wire : wire[i].by # d

\* What the command is, and what becomes of the session and of the steps.
Sending(d, c, on, to, next) ==
    /\ next \in Seq(Steps) /\ job'[d].todo = next
    /\ c # "enable" => /\ Follows(d, next) /\ Head(job[d].todo) = c /\ job[d].last # "attach"
                       /\ known' = Believes(c) /\ c \notin {"drain", "cancel", "pause"}
    /\ \/ on = sid /\ sid # None /\ Same /\ c \notin {"enable", "attach", "leave", "depart"}
       \/ on = sid /\ sid # None /\ Lost /\ c \in {"leave", "depart"}
       \/ /\ on = None /\ to = job[d].to /\ sid' = sid
          /\ c \in {"activate", "create", "close", "list", "attach", "window", "show"}
          /\ tab' = IF c = "attach" THEN to ELSE tab
       \/ /\ on = job[d].num /\ to = None /\ sid' = on /\ tab' = tab /\ c = "enable"
          /\ job[d].last = "attach" /\ job[d].at = "back" /\ FirstBack(d)
          /\ next = job[d].todo /\ known' = known

\* A turn that sends a command.
LEMMA SendsIs ==
    ASSUME TypeOK, Posted, NEW d \in Drivers, NEW c, NEW on, NEW to, NEW next,
           UNCHANGED <<home, live, held, wire>>, job[d].at \in {"turn", "back"},
           link, TurnSends(d, c, on, to, next)
    PROVE  \E n : Sent(d, c, on, to, n) /\ Sending(d, c, on, to, next)
<1> DEFINE m == [by |-> d, cmd |-> c, on |-> on, to |-> to, saw |-> job[d].saw,
                 kind |-> job[d].kind, calm |-> job[d].calm]
           q == Append(inbox, m)
           n == Len(inbox) + 1
<1>1. inbox' = q /\ job' = [job EXCEPT ![d].todo = next, ![d].at = "sent", ![d].last = c]
  BY DEF TurnSends, SendThen
<1>2. /\ DOMAIN q = 1..n /\ Len(q) = n /\ n \in Nat \ {0} /\ DOMAIN inbox = 1..Len(inbox)
      /\ Len(inbox) \in Nat /\ q[n] = m /\ \A i \in 1..Len(inbox) : q[i] = inbox[i]
  <2> HIDE DEF m
  <2>1. inbox \in Seq(Cmd)
    BY DEF TypeOK
  <2> QED  BY <2>1
<1> HIDE DEF q
<1>3. /\ m.by = d /\ m.cmd = c /\ m.on = on /\ m.to = to /\ m.saw = job[d].saw
      /\ m.kind = job[d].kind /\ m.calm = job[d].calm
  OBVIOUS
<1> HIDE DEF m
<1>4. /\ n \in Nat \ {0} /\ n = Len(inbox') /\ n \in DOMAIN inbox' \ DOMAIN inbox
      /\ \A i \in DOMAIN inbox : i \in Nat \ {0} /\ i < n /\ i \in DOMAIN inbox' /\ inbox'[i] = inbox[i]
      /\ \A i \in DOMAIN inbox' : i \in DOMAIN inbox \/ i = n
      /\ inbox'[n] = m
  BY <1>1, <1>2
<1>5. job \in [Drivers -> Job]
  BY DEF TypeOK
<1>6. /\ \A e \in Drivers \ {d} : job'[e] = job[e]
      /\ job'[d] = [job[d] EXCEPT !.todo = next, !.at = "sent", !.last = c]
  BY <1>1, <1>5
<1>7. /\ job'[d].at = "sent" /\ job'[d].last = c /\ job'[d].num = job[d].num /\ job'[d].to = job[d].to
      /\ job'[d].kind = job[d].kind /\ job'[d].saw = job[d].saw /\ job'[d].calm = job[d].calm
      /\ job'[d].todo = next
  BY <1>5, <1>6 DEF Job
<1>8. (\A i \in DOMAIN inbox : inbox[i].by # d) /\ (\A i \in DOMAIN wire : wire[i].by # d)
  BY DEF Posted
<1> HIDE DEF n
<1>9. Sent(d, c, on, to, n)
  <2>1. n = Len(inbox) + 1
    BY DEF n
  <2> QED  BY <1>3, <1>4, <1>6, <1>7, <1>8, <2>1 DEF Sent, TurnSends
<1>10. Sending(d, c, on, to, next)
  BY <1>7 DEF Sending, TurnSends
<1> QED  BY <1>9, <1>10

\* The command is with Chrome, and is the driver's only one.
LEMMA SendsPosted ==
    ASSUME TypeOK, Posted, NEW d \in Drivers, NEW c, NEW on, NEW to, NEW next, NEW n,
           Sent(d, c, on, to, n), Sending(d, c, on, to, next)
    PROVE  Posted'
<1> SUFFICES ASSUME NEW e \in Drivers
    PROVE /\ \A i \in DOMAIN inbox' : inbox'[i].by = e =>
              /\ job'[e].at = "sent" /\ inbox'[i].cmd = job'[e].last
              /\ inbox'[i].cmd = "attach" => inbox'[i].to = job'[e].to
              /\ \A j \in DOMAIN inbox' : inbox'[j].by = e => i = j
              /\ \A j \in DOMAIN wire' : wire'[j].by # e
          /\ \A i \in DOMAIN wire' : wire'[i].by = e =>
              /\ job'[e].at = "sent" /\ wire'[i].kind = "reply"
              /\ \A j \in DOMAIN wire' : wire'[j].by = e => i = j
              /\ wire'[i].num # 0 => wire'[i].ok /\ job'[e].last = "attach"
              /\ job'[e].last \in {"leave", "depart"} => wire'[i].ok
          /\ job'[e].at = "sent" => \/ \E i \in DOMAIN inbox' : inbox'[i].by = e
                                    \/ \E i \in DOMAIN wire' : wire'[i].by = e
  BY DEF Posted, Detaching
<1>1. CASE e = d
  <2>1. c = "attach" => to = job[d].to
    BY DEF Sending
  <2> QED  BY <1>1, <2>1 DEF Sent
<1>2. CASE e # d
  <2>1. \A i \in DOMAIN inbox : inbox[i].by = e =>
            /\ job[e].at = "sent" /\ inbox[i].cmd = job[e].last
            /\ inbox[i].cmd = "attach" => inbox[i].to = job[e].to
            /\ \A j \in DOMAIN inbox : inbox[j].by = e => i = j
            /\ \A j \in DOMAIN wire : wire[j].by # e
    BY DEF Posted
  <2>2. \A i \in DOMAIN wire : wire[i].by = e =>
            /\ job[e].at = "sent" /\ wire[i].kind = "reply"
            /\ \A j \in DOMAIN wire : wire[j].by = e => i = j
            /\ wire[i].num # 0 => wire[i].ok /\ job[e].last = "attach"
            /\ job[e].last \in {"leave", "depart"} => wire[i].ok
    BY DEF Posted, Detaching
  <2>3. job[e].at = "sent" => \/ \E i \in DOMAIN inbox : inbox[i].by = e
                              \/ \E i \in DOMAIN wire : wire[i].by = e
    BY DEF Posted
  <2> QED  BY <1>2, <2>1, <2>2, <2>3 DEF Sent
<1> QED  BY <1>1, <1>2

\* The answer to an attach: no one else uses the session.
LEMMA EnablesFresh ==
    ASSUME TypeOK, Fresh, NEW d \in Drivers, job[d].last = "attach", job[d].at = "back", job[d].ok
    PROVE  /\ job[d].num \in Nat /\ job[d].num \in DOMAIN home /\ home[job[d].num] = job[d].to
           /\ held[job[d].num] = {} /\ job[d].num # sid
           /\ \A i \in DOMAIN inbox : inbox[i].on # job[d].num
           /\ \A e \in Drivers \ {d} : ~Offered(e, job[d].num)
<1>1. job[d].num \in Nat
  BY JobTyped DEF Job
<1>2. Offered(d, job[d].num)
  BY DEF Offered
<1> QED  BY <1>1, <1>2 DEF Fresh

\* It goes to a session there is.
LEMMA SendsKnown ==
    ASSUME TypeOK, Known, Fresh, NEW d \in Drivers, NEW c, NEW on, NEW to, NEW next, NEW n,
           Sent(d, c, on, to, n), Sending(d, c, on, to, next)
    PROVE  Known' /\ Linked'
<1>1. on # None => on \in DOMAIN home
  BY EnablesFresh DEF Sending, Sent, Known
<1>2. sid' # None => sid' \in DOMAIN home
  BY EnablesFresh DEF Sending, Sent, Known, Same, Lost
<1>3. \A i \in DOMAIN inbox' : inbox'[i].on # None => inbox'[i].on \in DOMAIN home
  BY <1>1 DEF Sent, Known
<1>4. \A e \in Drivers : job'[e].num = job[e].num
  BY DEF Sent
<1>5. UNCHANGED <<home, wire, link>> /\ link
  BY DEF Sent
<1> QED  BY <1>2, <1>3, <1>4, <1>5 DEF Known, Linked

\* It does not go to the session of an attach that has yet to go on.
LEMMA SendsFresh ==
    ASSUME TypeOK, Fresh, NEW d \in Drivers, NEW c, NEW on, NEW to, NEW next, NEW n,
           Sent(d, c, on, to, n), Sending(d, c, on, to, next)
    PROVE  Fresh'
<1>1. ASSUME NEW e \in Drivers, NEW m \in Nat, Offered(e, m)'
      PROVE  e # d /\ Offered(e, m) /\ job'[e] = job[e]
  BY <1>1 DEF Offered, Sent
<1>2. ASSUME NEW e \in Drivers \ {d}, NEW m \in Nat, Offered(e, m)
      PROVE  m # on /\ m # sid'
  <2>1. m # sid /\ m # None
    BY <1>2, TabAssumption DEF Fresh
  <2>2. c = "enable" => m # job[d].num
    BY <1>2, EnablesFresh DEF Sending, Sent
  <2> QED  BY <2>1, <2>2 DEF Sending, Same, Lost
<1>3. \A i \in DOMAIN inbox' : inbox'[i].on = on \/ (i \in DOMAIN inbox /\ inbox'[i] = inbox[i])
  BY DEF Sent
<1>4. UNCHANGED <<home, held>>
  BY DEF Sent
<1> QED  BY <1>1, <1>2, <1>3, <1>4 DEF Fresh

\* The attaches of two other drivers keep their order.
LEMMA SendsLater ==
    ASSUME TypeOK, NEW d \in Drivers, NEW c, NEW on, NEW to, NEW n, Sent(d, c, on, to, n),
           NEW a \in Drivers \ {d}, NEW e \in Drivers \ {d}, Later(a, e)
    PROVE  Later(a, e)'
<1>1. job'[a] = job[a] /\ job'[e] = job[e] /\ wire' = wire
  BY DEF Sent
<1>2. ASSUME NEW i \in DOMAIN inbox', NEW j \in DOMAIN inbox', inbox'[i].by = a, inbox'[j].by = e
      PROVE  j < i
  <2>1. i \in DOMAIN inbox /\ j \in DOMAIN inbox /\ inbox[i].by = a /\ inbox[j].by = e
    BY <1>2 DEF Sent
  <2> QED  BY <2>1 DEF Later
<1> QED  BY <1>1, <1>2 DEF Later

\* The tab of the session is that of the attach sent last, when that goes on,
\* whichever of the drivers sent it.
LEMMA SendsFollows ==
    ASSUME TypeOK, Fresh, TabFollows, NEW d \in Drivers, NEW c, NEW on, NEW to, NEW next, NEW n,
           Sent(d, c, on, to, n), Sending(d, c, on, to, next)
    PROVE  TabFollows'
<1>1. /\ \A e \in Drivers \ {d} : job'[e] = job[e]
      /\ job'[d].at = "sent" /\ job'[d].last = c /\ job'[d].to = job[d].to
      /\ UNCHANGED <<home, wire>>
  BY DEF Sent
<1>2. CASE Lost
  BY <1>2 DEF Lost, TabFollows
<1>3. CASE c # "attach" /\ c # "enable" /\ ~Lost
  <2>1. sid' = sid /\ tab' = tab /\ ~Attaching(d) /\ ~Attaching(d)'
    BY <1>1, <1>3 DEF Sending, Same, Attaching
  <2>2. \A e \in Drivers \ {d} : Attaching(e)' <=> Attaching(e)
    BY <1>1 DEF Attaching
  <2>3. sid' # None /\ tab' # None => \/ home'[sid'] = tab'
                                      \/ \E e \in Drivers : Attaching(e)' /\ job'[e].to = tab'
    BY <1>1, <2>1, <2>2 DEF TabFollows
  <2>4. ASSUME NEW e \in Drivers, Attaching(e)', job'[e].at = "back" => job'[e].ok
        PROVE  \/ tab' \in {None, job'[e].to}
               \/ \E a \in Drivers \ {e} : Attaching(a)' /\ job'[a].to = tab' /\ Later(a, e)'
    <3>1. e # d /\ Attaching(e) /\ job'[e] = job[e]
      BY <1>1, <2>1, <2>4 DEF Attaching
    <3>2. \/ tab \in {None, job[e].to}
          \/ \E a \in Drivers \ {e} : Attaching(a) /\ job[a].to = tab /\ Later(a, e)
      BY <2>4, <3>1 DEF TabFollows
    <3>3. ASSUME NEW a \in Drivers \ {e}, Attaching(a), job[a].to = tab, Later(a, e)
          PROVE  Attaching(a)' /\ job'[a].to = tab' /\ Later(a, e)'
      <4>1. a # d
        BY <2>1, <3>3
      <4>2. Attaching(a)' /\ job'[a] = job[a]
        BY <1>1, <3>3, <4>1 DEF Attaching
      <4> QED  BY <2>1, <3>1, <3>3, <4>1, <4>2, SendsLater
    <3> QED  BY <2>1, <3>1, <3>2, <3>3
  <2> QED  BY <2>3, <2>4 DEF TabFollows
<1>4. CASE c = "attach"
  <2>1. sid' = sid /\ tab' = job'[d].to /\ Attaching(d)'
    BY <1>1, <1>4 DEF Sending, Attaching
  <2>2. ASSUME NEW e \in Drivers \ {d}  PROVE Later(d, e)'
    <3>1. \A i \in DOMAIN wire' : wire'[i].by # d
      BY DEF Sent
    <3>2. ASSUME NEW i \in DOMAIN inbox', NEW j \in DOMAIN inbox', inbox'[i].by = d, inbox'[j].by = e
          PROVE  j < i
      BY <2>2, <3>2 DEF Sent
    <3> QED  BY <1>1, <3>1, <3>2 DEF Later
  <2> QED  BY <2>1, <2>2 DEF TabFollows
<1>5. CASE c = "enable"
  <2>1. /\ sid' = job[d].num /\ tab' = tab /\ Attaching(d) /\ job[d].at = "back" /\ job[d].ok
        /\ FirstBack(d) /\ ~Attaching(d)'
    BY <1>1, <1>5 DEF Sending, Sent, Attaching
  <2>2. home[sid'] = job[d].to
    BY <2>1, EnablesFresh DEF Attaching
  <2>3. sid' # None /\ tab' # None => \/ home'[sid'] = tab'
                                      \/ \E e \in Drivers : Attaching(e)' /\ job'[e].to = tab'
    <3>1. \/ tab \in {None, job[d].to}
          \/ \E e \in Drivers \ {d} : Attaching(e) /\ job[e].to = tab
      BY <2>1 DEF TabFollows
    <3> QED  BY <1>1, <2>1, <2>2, <3>1 DEF Attaching
  <2>4. ASSUME NEW e \in Drivers, Attaching(e)', job'[e].at = "back" => job'[e].ok
        PROVE  \/ tab' \in {None, job'[e].to}
               \/ \E a \in Drivers \ {e} : Attaching(a)' /\ job'[a].to = tab' /\ Later(a, e)'
    <3>1. e # d /\ Attaching(e) /\ job'[e] = job[e]
      BY <1>1, <2>1, <2>4 DEF Attaching
    <3>2. \/ tab \in {None, job[e].to}
          \/ \E a \in Drivers \ {e} : Attaching(a) /\ job[a].to = tab /\ Later(a, e)
      BY <2>4, <3>1 DEF TabFollows
    <3>3. ~Later(d, e)
      <4>1. SUFFICES ASSUME Later(d, e)  PROVE FALSE
        OBVIOUS
      <4>2. job[e].at = "back" /\ job[e].num < job[d].num
        BY <2>1, <4>1 DEF Later
      <4>3. job[d].num <= job[e].num
        BY <2>1, <2>4, <3>1, <4>2 DEF FirstBack, Attaching
      <4>4. job[d].num \in Nat /\ job[e].num \in Nat
        BY JobTyped DEF Job
      <4> QED  BY <4>2, <4>3, <4>4
    <3>4. ASSUME NEW a \in Drivers \ {e}, Attaching(a), job[a].to = tab, Later(a, e)
          PROVE  Attaching(a)' /\ job'[a].to = tab' /\ Later(a, e)'
      <4>1. a # d
        BY <3>3, <3>4
      <4>2. Attaching(a)' /\ job'[a] = job[a]
        BY <1>1, <3>4, <4>1 DEF Attaching
      <4> QED  BY <2>1, <3>1, <3>4, <4>1, <4>2, SendsLater
    <3> QED  BY <2>1, <3>1, <3>2, <3>4
  <2> QED  BY <2>3, <2>4 DEF TabFollows
<1> QED  BY <1>2, <1>3, <1>4, <1>5

\* The command of a calm mouse action goes to the tab that was looked at: no
\* recovery has begun to do anything.
LEMMA SendsLooked ==
    ASSUME TypeOK, Scripts, Looked, NEW d \in Drivers, NEW c, NEW on, NEW to, NEW next, NEW n,
           Sent(d, c, on, to, n), Sending(d, c, on, to, next)
    PROVE  Looked'
<1>1. ASSUME CalmMouse("task")
      PROVE  /\ d = "task" /\ on = sid /\ sid # None /\ sid' = sid /\ home[sid] = job["task"].saw
             /\ \A e \in Drivers \ {"task"} : job[e].at = "idle" \/ Waits(e)
  <2>1. d = "task"
    <3>1. SUFFICES ASSUME d # "task"  PROVE FALSE
      OBVIOUS
    <3>2. job[d].last = "none" /\ Head(job[d].todo) \in {"drain", "cancel"}
      BY <1>1, <3>1, CalmIs DEF Sent
    <3> QED  BY <3>2 DEF Sending
  <2>2. c # "enable"
    <3>1. job["task"].last # "attach"
      BY <1>1, CalmIs DEF MouseSteps
    <3> QED  BY <2>1, <3>1 DEF Sending
  <2>3. c \in MouseSteps
    <3>1. job["task"].todo \in Seq(Steps)
      BY JobTyped DEF Job, Drivers
    <3>2. job["task"].todo # <<>> /\ Head(job["task"].todo) = c
      BY <2>1, <2>2 DEF Sending, Follows
    <3> QED  BY <1>1, <3>1, <3>2, CalmIs, TailParts
  <2>4. on = sid /\ sid # None /\ sid' = sid
    BY <2>3 DEF MouseSteps, Sending, Same
  <2> QED  BY <1>1, <2>1, <2>4 DEF Looked
<1>2. CalmMouse("task")' => CalmMouse("task") /\ job'["task"].saw = job["task"].saw
  BY DEF CalmMouse, Sent, Drivers
<1>3. UNCHANGED home /\ \A e \in Drivers \ {d} : job'[e] = job[e]
  BY DEF Sent
<1>4. CalmMouse("task")' => /\ \A e \in Drivers \ {"task"} : job'[e].at = "idle" \/ Waits(e)'
                            /\ sid' # None => home'[sid'] = job'["task"].saw
  <2>1. \A e \in Drivers \ {d} : Waits(e)' <=> Waits(e)
    BY <1>3 DEF Waits
  <2> QED  BY <1>1, <1>2, <1>3, <2>1
<1>5. job[d].saw # None /\ job[d].calm => on # None /\ home[on] = job[d].saw
  <2>1. job[d].saw # None => d = "task"
    BY DEF Scripts, Scripted
  <2> QED  BY <1>1, <2>1 DEF CalmMouse
<1>6. \A i \in DOMAIN inbox' : inbox'[i].saw # None /\ inbox'[i].calm =>
         inbox'[i].on # None /\ home'[inbox'[i].on] = inbox'[i].saw
  BY <1>3, <1>5 DEF Looked, Sent
<1> QED  BY <1>4, <1>6 DEF Looked

\* A session is dead when it is set only if the enabling of its domains fails.
LEMMA SendsAlive ==
    ASSUME TypeOK, Alive, NEW d \in Drivers, NEW c, NEW on, NEW to, NEW next, NEW n,
           Sent(d, c, on, to, n), Sending(d, c, on, to, next)
    PROVE  Alive'
<1>1. UNCHANGED <<live, wire>>
  BY DEF Sent
<1>2. CASE sid' = sid
  <2>1. ASSUME NEW e \in Drivers, Doomed(e)  PROVE Doomed(e)'
    <3>1. e # d
      BY <2>1 DEF Doomed, Sent
    <3> QED  BY <2>1, <3>1 DEF Doomed, Sent
  <2> QED  BY <1>1, <1>2, <2>1 DEF Alive
<1>3. CASE sid' = None
  BY <1>3 DEF Alive
<1>4. CASE c = "enable" /\ sid' = on
  <2>1. sid' \notin live' => Doomed(d)'
    BY <1>1, <1>4 DEF Doomed, Sent
  <2> QED  BY <2>1 DEF Alive
<1> QED  BY <1>2, <1>3, <1>4 DEF Sending, Same, Lost

\* stop() goes on as before, and no task begins, unless a recovery opens the
\* queue again.
LEMMA SendsStopping ==
    ASSUME TypeOK, Stopping, NEW d \in Drivers, NEW c, NEW on, NEW to, NEW next, NEW n,
           Sent(d, c, on, to, n), Sending(d, c, on, to, next)
    PROVE  Stopping'
<1>1. /\ \A e \in Drivers \ {d} : job'[e] = job[e]
      /\ aborted' = aborted /\ job[d].at # "idle"
      /\ job'[d].kind = job[d].kind /\ job'[d].calm = job[d].calm
  BY DEF Sent
<1> SUFFICES ASSUME job["ctl"].kind = "stop", job["ctl"].calm
             PROVE  /\ aborted /\ ~In("drain", job'["rec"].todo)
                    /\ \/ job'["ctl"].at = "turn" /\ job'["ctl"].todo = Stop
                       \/ job'["task"].at = "idle"
  <2>1. job'["ctl"].kind = job["ctl"].kind /\ job'["ctl"].calm = job["ctl"].calm
    BY <1>1 DEF Drivers
  <2> QED  BY <1>1, <2>1 DEF Stopping
<1>2. /\ aborted /\ ~In("drain", job["rec"].todo)
      /\ \/ job["ctl"].at = "turn" /\ job["ctl"].todo = Stop
         \/ job["task"].at = "idle"
  BY DEF Stopping
<1>3. CASE d = "task"
  <2>1. job'["rec"] = job["rec"] /\ job'["ctl"] = job["ctl"]
    BY <1>1, <1>3 DEF Drivers
  <2> QED  BY <1>1, <1>2, <1>3, <2>1
<1>4. CASE d = "rec"
  <2>1. job'["task"] = job["task"] /\ job'["ctl"] = job["ctl"]
    BY <1>1, <1>4 DEF Drivers
  <2>2. job'["rec"].todo = next /\ next \in Seq(Steps)
    BY <1>4 DEF Sending
  <2>3. ~In("drain", next)
    <3>1. CASE c = "enable"
      BY <1>2, <1>4, <3>1 DEF Sending
    <3>2. CASE c # "enable"
      BY <1>2, <1>4, <2>2, <3>2, NoDrainFollows DEF Sending
    <3> QED  BY <3>1, <3>2
  <2> QED  BY <1>2, <2>1, <2>2, <2>3
<1>5. CASE d = "ctl"
  <2>1. job'["task"] = job["task"] /\ job'["rec"] = job["rec"]
    BY <1>1, <1>5 DEF Drivers
  <2>2. ~(job["ctl"].at = "turn" /\ job["ctl"].todo = Stop)
    <3>1. SUFFICES ASSUME job["ctl"].todo = Stop, job["ctl"].at = "turn"  PROVE FALSE
      OBVIOUS
    <3>2. Head(job["ctl"].todo) = "cancel"
      BY <3>1, LeavingScripts
    <3> QED  BY <1>5, <3>1, <3>2 DEF Sending
  <2> QED  BY <1>2, <2>1, <2>2
<1> QED  BY <1>3, <1>4, <1>5 DEF Drivers

\* What is held when the first commands have been executed, and the last too.
LEMMA HoldsBefore ==
    ASSUME TypeOK, NEW d, NEW c, NEW on, NEW to, NEW n, Sent(d, c, on, to, n), NEW x, NEW s,
           NEW k \in Nat, k <= n, Holds(held', inbox', x, s, k)
    PROVE  Holds(held, inbox, x, s, k)
<1>1. /\ held' = held /\ n \in Nat
      /\ \A i \in DOMAIN inbox : i \in Nat /\ i \in DOMAIN inbox' /\ inbox'[i] = inbox[i]
      /\ \A i \in DOMAIN inbox' : i < k => i \in DOMAIN inbox /\ inbox'[i] = inbox[i]
  BY DEF Sent
<1>2. \A i : Lifted(inbox, x, s, i, k) => Lifted(inbox', x, s, i, k)
  BY <1>1 DEF Lifted
<1>3. CASE x \in held'[s] /\ ~Lifted(inbox', x, s, 0, k)
  BY <1>1, <1>2, <1>3 DEF Holds
<1>4. CASE \E i \in DOMAIN inbox' : /\ i < k /\ inbox'[i].on = s /\ Presses(inbox'[i].cmd, x)
                                    /\ ~Lifted(inbox', x, s, i, k)
  BY <1>1, <1>2, <1>4 DEF Holds
<1> QED  BY <1>3, <1>4 DEF Holds

\* The last command presses x, or x was to be held and it does not lift it.
LEMMA HoldsAfter ==
    ASSUME TypeOK, NEW d, NEW c, NEW on, NEW to, NEW n, Sent(d, c, on, to, n), NEW x, NEW s,
           Holds(held', inbox', x, s, n + 1)
    PROVE  \/ on = s /\ Presses(c, x)
           \/ Holds(held, inbox, x, s, n) /\ ~(on = s /\ Lifts(c, x))
<1>1. /\ held' = held /\ n \in Nat \ {0} /\ n \in DOMAIN inbox' /\ inbox'[n].on = on /\ inbox'[n].cmd = c
      /\ \A i \in DOMAIN inbox : i \in Nat /\ i < n /\ i \in DOMAIN inbox' /\ inbox'[i] = inbox[i]
      /\ \A i \in DOMAIN inbox' : i \in DOMAIN inbox \/ i = n
  BY DEF Sent
<1>2. \A i \in Nat : Lifted(inbox, x, s, i, n) => Lifted(inbox', x, s, i, n + 1)
  BY <1>1 DEF Lifted
<1>3. \A i \in Nat : i < n /\ on = s /\ Lifts(c, x) => Lifted(inbox', x, s, i, n + 1)
  BY <1>1 DEF Lifted
<1>4. CASE x \in held'[s] /\ ~Lifted(inbox', x, s, 0, n + 1)
  BY <1>1, <1>2, <1>3, <1>4 DEF Holds
<1>5. CASE \E i \in DOMAIN inbox' : /\ i < n + 1 /\ inbox'[i].on = s /\ Presses(inbox'[i].cmd, x)
                                    /\ ~Lifted(inbox', x, s, i, n + 1)
  <2>1. PICK i \in DOMAIN inbox' : /\ i < n + 1 /\ inbox'[i].on = s /\ Presses(inbox'[i].cmd, x)
                                   /\ ~Lifted(inbox', x, s, i, n + 1)
    BY <1>5
  <2>2. CASE i = n
    BY <1>1, <2>1, <2>2
  <2>3. CASE i \in DOMAIN inbox
    BY <1>1, <1>2, <1>3, <2>1, <2>3 DEF Holds
  <2> QED  BY <1>1, <2>2, <2>3
<1> QED  BY <1>4, <1>5 DEF Holds

\* What is held is known, after every command: it is recorded before the command
\* is sent, and forgotten before, too, but the command comes after what it undoes.
LEMMA SendsHeld ==
    ASSUME TypeOK, Scripts, Stopping, Fresh, HeldIsKnown, NEW d \in Drivers, NEW c, NEW on, NEW to,
           NEW next, NEW n, Sent(d, c, on, to, n), Sending(d, c, on, to, next)
    PROVE  HeldIsKnown'
<1>1. /\ UNCHANGED <<home, live, held>> /\ n \in Nat /\ Len(inbox') + 1 = n + 1
      /\ job[d].at \in {"turn", "back"} /\ job[d].ok /\ n = Len(inbox) + 1
  BY DEF Sent
<1>2. None \notin live
  BY TabAssumption DEF TypeOK
<1>3. c # "enable" => known' = Believes(c) /\ Follows(d, next) /\ Head(job[d].todo) = c
  BY DEF Sending
<1>4. ASSUME NEW x \in Recorded, sid' \in live', Holds(held', inbox', x, sid', Len(inbox') + 1)
      PROVE  x \in known'
  <2>1. \/ on = sid' /\ Presses(c, x)
        \/ Holds(held, inbox, x, sid', n) /\ ~(on = sid' /\ Lifts(c, x))
    BY <1>1, <1>4, HoldsAfter
  <2>2. CASE c = "enable"
    <3>1. sid' = job[d].num /\ job[d].last = "attach" /\ job[d].at = "back"
      BY <2>2 DEF Sending
    <3>2. held[sid'] = {} /\ \A i \in DOMAIN inbox : inbox[i].on # sid'
      BY <1>1, <3>1, EnablesFresh
    <3>3. ~Presses(c, x)
      BY <2>2 DEF Presses
    <3> QED  BY <2>1, <3>2, <3>3 DEF Holds
  <2>3. CASE c # "enable"
    <3>1. sid' = sid /\ (on = sid \/ c \in {"activate", "create", "close", "list", "attach", "window", "show"})
      BY <1>1, <1>2, <1>4, <2>3 DEF Sending, Same, Lost
    <3>2. CASE Presses(c, x)
      BY <1>3, <2>3, <3>2 DEF Presses, Believes
    <3>3. CASE Holds(held, inbox, x, sid, n) /\ ~(on = sid /\ Lifts(c, x))
      <4>1. x \in known
        BY <1>1, <1>4, <3>1, <3>3 DEF HeldIsKnown
      <4>2. ~Lifts(c, x)
        BY <3>1, <3>3 DEF Lifts
      <4>3. CASE x = "button"
        BY <1>3, <2>3, <4>1, <4>2, <4>3 DEF Lifts, Believes
      <4>4. CASE x = "key"
        BY <1>3, <2>3, <4>1, <4>2, <4>4 DEF Lifts, Believes
      <4> QED  BY <4>3, <4>4 DEF Recorded
    <3> QED  BY <2>1, <3>1, <3>2, <3>3
  <2> QED  BY <2>2, <2>3
<1>5. ASSUME NEW e \in Drivers, Releasing(job'[e]), NEW x \in known'
      PROVE  In(StepThatFrees(x), job'[e].todo)
  <2>1. CASE e # d
    <3>1. job'[e] = job[e]
      BY <2>1 DEF Sent
    <3>2. known' = known \/ (job[d].todo # <<>> /\ known' = Believes(Head(job[d].todo)))
      BY <1>3 DEF Sending, Follows
    <3> QED  BY <1>1, <1>5, <2>1, <3>1, <3>2, FreesOfOther
  <2>2. CASE e = d
    <3>1. job'[d].todo = next /\ next \in Seq(Steps) /\ Releasing(job[d])
      BY <1>5, <2>2 DEF Sent, Sending, Releasing
    <3>2. CASE c = "enable"
      BY <1>5, <2>2, <3>1, <3>2 DEF Sending, HeldIsKnown
    <3>3. CASE c # "enable"
      BY <1>3, <1>5, <2>2, <3>1, <3>3, FreesOfSelf
    <3> QED  BY <3>2, <3>3
  <2> QED  BY <2>1, <2>2
<1>6. ASSUME NEW k \in DOMAIN inbox', inbox'[k].cmd \in {"leave", "depart"}, inbox'[k].on \in live',
             Releasing(inbox'[k]), NEW x \in Recorded,
             Holds(held', inbox', x, inbox'[k].on, k)
      PROVE  FALSE
  <2>1. CASE k \in DOMAIN inbox
    <3>1. k \in Nat /\ k <= n /\ inbox'[k] = inbox[k]
      BY <1>1, <2>1 DEF Sent
    <3>2. Holds(held, inbox, x, inbox[k].on, k)
      BY <1>6, <3>1, HoldsBefore
    <3> QED  BY <1>1, <1>6, <2>1, <3>1, <3>2 DEF HeldIsKnown
  <2>2. CASE k = n
    <3>1. c \in {"leave", "depart"} /\ on \in live /\ Releasing(job[d]) /\ inbox'[k].on = on
      BY <1>1, <1>6, <2>2 DEF Sent, Releasing
    <3>2. on = sid
      BY <3>1 DEF Sending
    <3>3. Holds(held, inbox, x, sid, n)
      BY <1>1, <1>6, <2>2, <3>1, <3>2, HoldsBefore
    <3>4. x \in known
      BY <1>1, <3>1, <3>2, <3>3 DEF HeldIsKnown
    <3>5. In(StepThatFrees(x), job[d].todo)
      BY <3>1, <3>4 DEF HeldIsKnown
    <3>6. /\ job[d].todo \in Seq(Steps) /\ job[d].todo # <<>> /\ Head(job[d].todo) = c
      BY <1>3, <3>1, JobTyped DEF Job, Follows
    <3>7. ResetsFirst(job[d].todo) /\ c \notin ResetSteps
      BY <3>1 DEF Scripts, Scripted, ResetSteps, Releasing, LeavingKinds
    <3>8. Within(Tail(job[d].todo), Steps \ FreeSteps)
      BY <3>6, <3>7, TailParts
    <3>9. StepThatFrees(x) \in FreeSteps
      BY DEF StepThatFrees, FreeSteps
    <3>10. StepThatFrees(x) = c \/ In(StepThatFrees(x), Tail(job[d].todo))
      BY <3>5, <3>6, TailParts
    <3> QED  BY <3>1, <3>8, <3>9, <3>10 DEF Within, In, FreeSteps
  <2> QED  BY <2>1, <2>2 DEF Sent
<1> QED  BY <1>4, <1>5, <1>6 DEF HeldIsKnown

\* A command keeps the rest of the invariant.
LEMMA SendsRest ==
    ASSUME TypeOK, Scripts, Rest, NEW d \in Drivers, NEW c, NEW on, NEW to, NEW next,
           UNCHANGED <<home, live, held, wire>>, job[d].at \in {"turn", "back"},
           link, TurnSends(d, c, on, to, next)
    PROVE  Rest'
<1>1. /\ Posted /\ Linked /\ Known /\ Fresh /\ TabFollows
      /\ Looked /\ Alive /\ Stopping /\ HeldIsKnown
  BY DEF Rest
<1>2. PICK n : Sent(d, c, on, to, n) /\ Sending(d, c, on, to, next)
  BY <1>1, SendsIs
<1>3. Posted' /\ Known' /\ Linked' /\ Fresh'
  BY <1>1, <1>2, SendsPosted, SendsKnown, SendsFresh
<1>4. TabFollows' /\ Looked' /\ Alive'
  BY <1>1, <1>2, SendsFollows, SendsLooked, SendsAlive
<1>5. Stopping' /\ HeldIsKnown'
  BY <1>1, <1>2, SendsStopping, SendsHeld
<1> QED  BY <1>3, <1>4, <1>5 DEF Rest

\* A turn keeps the invariant.
LEMMA TurnRest ==
    ASSUME TypeOK, Scripts, Orders, Rest, NEW d \in Drivers, Turn(d)
    PROVE  Rest'
<1>1. /\ UNCHANGED <<home, live, held, wire>> /\ job[d].at \in {"turn", "back"} /\ TurnDoes(d)
  BY TurnIs
<1>2. ASSUME NEW c, NEW on, NEW to, NEW next, link, TurnSends(d, c, on, to, next)  PROVE Rest'
  BY <1>1, <1>2, SendsRest
<1>3. CASE (\E r : TurnGoes(d, r)) \/ TurnEnds(d)
  <2>0. /\ Posted /\ Linked /\ Known /\ Fresh /\ TabFollows
        /\ Looked /\ Alive /\ Stopping /\ HeldIsKnown
    BY DEF Rest
  <2>1. Quiet
    BY <1>3, TurnQuiet
  <2>2. Posted' /\ Known' /\ Linked' /\ Fresh' /\ TabFollows' /\ Alive'
    BY <2>0, <2>1, QuietPosted, QuietKnown, QuietFresh, QuietFollows, QuietAlive
  <2>3. Looked' /\ Stopping' /\ HeldIsKnown'
    BY <1>3, <2>0, TurnRestsLooked, TurnRestsStopping, TurnRestsHeld
  <2> QED  BY <2>2, <2>3 DEF Rest
<1> QED  BY <1>1, <1>2, <1>3 DEF TurnDoes

\* The user pauses or resumes.
LEMMA PauseRest ==
    ASSUME TypeOK, Scripts, Rest, PauseResume
    PROVE  Rest'
<1>1. UNCHANGED <<inbox, home, live, held, link, wire, sid, tab, known, job, aborted>>
  BY DEF PauseResume, chrome
<1> QED  BY <1>1, StutterRest

\* Every step but a turn keeps the rest of the invariant.
LEMMA OtherRest ==
    ASSUME TypeOK, TypeOK', Scripts, Orders, Rest, Other
    PROVE  Rest'
<1>1. ASSUME NEW k \in {"connect", "stop"}, Command(k)  PROVE Rest'
  BY <1>1, CommandRest
<1>2. ASSUME NEW k \in Operations, Begin(k)  PROVE Rest'
  BY <1>2, BeginRest
<1>3. ASSUME NEW d \in Drivers, Timeout(d)  PROVE Rest'
  BY <1>3, TimeoutRest
<1>4. CASE Handle
  BY <1>4, HandleRest, ReplyRest
<1> QED  BY <1>1, <1>2, <1>3, <1>4, EnsureActiveRest, ChromeRest, LinkLostRest, OutsideRest, PauseRest
         DEF Other

\* The initial states satisfy it.
LEMMA InitRest ==
    ASSUME Init
    PROVE  Rest
<1>1. /\ inbox = <<>> /\ wire = <<>> /\ sid = None /\ tab = None /\ live = {} /\ known = {}
      /\ \A d \in Drivers : job[d] = Idle
  BY DEF Init
<1>2. (\A i \in DOMAIN inbox : FALSE) /\ (\A i \in DOMAIN wire : FALSE)
  BY <1>1
<1>3. /\ Idle.at = "idle" /\ Idle.last = "none" /\ Idle.num = 0 /\ Idle.saw = None
      /\ Idle.kind = "none"
  BY DEF Idle
<1>4. Posted /\ Linked /\ TabFollows /\ Alive
  BY <1>1, <1>2, <1>3 DEF Posted, Linked, TabFollows, Attaching, Alive
<1>5. Known /\ Fresh
  <2>1. Len(home) = 0
    BY DEF Init
  <2> QED  BY <1>1, <1>2, <1>3, <2>1 DEF Known, Fresh, Offered
<1>6. Looked /\ Stopping /\ HeldIsKnown
  BY <1>1, <1>2, <1>3 DEF Looked, CalmMouse, Stopping, HeldIsKnown, Drivers
<1> QED  BY <1>4, <1>5, <1>6 DEF Rest

-----------------------------------------------------------------------------
(* The order of the steps                                                   *)

\* A wait for the queue is the first step, and is not repeated.
LEMMA FollowsDrained ==
    ASSUME TypeOK, NEW d \in Drivers, Ordered(d), NEW next \in Seq(Steps), Follows(d, next)
    PROVE  ~In("drain", next)
<1>1. CASE In("drain", job[d].todo)
  <2>1. job[d].todo \in {Recover, Connect}
    BY <1>1 DEF Ordered
  <2>2. Head(job[d].todo) = "drain" /\ ~In("drain", Tail(job[d].todo))
    BY <2>1, DrainsFirst
  <2>3. next = Tail(job[d].todo)
    BY <2>2 DEF Follows
  <2> QED  BY <2>2, <2>3
<1>2. CASE ~In("drain", job[d].todo)
  BY <1>2, NoDrainFollows
<1> QED  BY <1>1, <1>2

\* stop() leaves the session last, the others go on to another one, and only a
\* browser action closes a tab.
LEMMA FollowsOrders ==
    ASSUME TypeOK, NEW d \in Drivers, Ordered(d), NEW next \in Seq(Steps), Follows(d, next)
    PROVE  /\ IF job[d].kind = "stop" THEN Within(next, StopSteps) /\ LeavesLast(next)
                                      ELSE Chained(next)
           /\ In("depart", next) \/ In("next", next) => job[d].kind \in BrowserKinds
<1> DEFINE q == job[d].todo
           B == job[d].kind \in BrowserKinds
           C(p) == In("depart", p) \/ In("next", p)
<1>1. q \in Seq(Steps) /\ q # <<>>
  BY JobTyped DEF Job, Follows
<1>2. /\ Tail(q) \in Seq(Steps) /\ \A s : In(s, Tail(q)) => In(s, q)
      /\ Chained(q) => Chained(Tail(q))
      /\ LeavesLast(q) => LeavesLast(Tail(q))
      /\ \A S : Within(q, S) => Within(Tail(q), S) /\ Head(q) \in S
      /\ In(Head(q), q)
  BY <1>1, ChainedTail, TailParts DEF In
<1>3. (C(q) => B) /\ (C(Tail(q)) => B)
  BY <1>2 DEF Ordered
<1>4. CASE job[d].kind = "stop"
  <2>1. Within(q, StopSteps) /\ LeavesLast(q)
    BY <1>4 DEF Ordered
  <2>2. Head(q) \notin {"mayGo", "depart", "pick", "next", "pause"}
    BY <1>2, <2>1 DEF StopSteps, ResetSteps
  <2>3. next = Tail(q)
    BY <2>2 DEF Follows
  <2> QED  BY <1>2, <1>3, <1>4, <2>1, <2>3
<1>5. CASE job[d].kind # "stop"
  <2>1. Chained(q) /\ Chained(Tail(q))
    BY <1>2, <1>5 DEF Ordered
  <2>2. ASSUME NEW p \in Seq(Steps), Chained(p), ~C(p)
        PROVE  Chained(p \o Tail(q)) /\ (C(p \o Tail(q)) => B)
    <3>1. Chained(p \o Tail(q))
      BY <1>2, <2>1, <2>2, ChainedParts
    <3>2. \A s : In(s, p \o Tail(q)) => In(s, p) \/ In(s, Tail(q))
      BY <1>2, WithinParts
    <3> QED  BY <1>3, <2>2, <3>1, <3>2
  <2>3. /\ Navigate \in Seq(Steps) /\ Chained(Navigate) /\ ~C(Navigate)
        /\ <<"create">> \in Seq(Steps) /\ Chained(<<"create">>) /\ ~C(<<"create">>)
    <3>1. <<"create">> \in Seq(Steps) /\ Within(<<"create">>, PlainSteps)
      BY DEF Within, PlainSteps, Steps
    <3> QED  BY <3>1, BrowserScripts, PlainIs
  <2>4. \A b \in BOOLEAN : Closing(b) \in Seq(Steps) /\ Chained(Closing(b)) /\ ~C(Closing(b))
    BY BrowserScripts, Literals
  <2>5. ASSUME Head(q) = "next" /\ next = <<"depart">> \o q
        PROVE  Chained(next) /\ B
    <3>1. B
      BY <1>2, <1>3, <2>5
    <3>2. <<"depart">> \in Seq(Steps) /\ Chained(<<"depart">>)
      BY BrowserScripts DEF Steps
    <3>3. Chained(<<"depart">> \o q)
      BY <1>1, <2>1, <3>2, ChainedParts
    <3> QED  BY <1>5, <2>5, <3>1, <3>3
  <2> HIDE DEF C, B, q
  <2>6. Chained(next) /\ (C(next) => B)
    <3>1. \/ next = Tail(q) \/ next = q \/ next = Navigate \o Tail(q) \/ next = <<"create">> \o Tail(q)
          \/ \E b \in BOOLEAN : next = Closing(b) \o Tail(q)
          \/ Head(q) = "next" /\ next = <<"depart">> \o q
      BY DEF Follows, q
    <3>2. CASE next = Tail(q) \/ next = q
      BY <1>3, <2>1, <3>2
    <3>3. CASE next = Navigate \o Tail(q)
      BY <2>2, <2>3, <3>3
    <3>4. CASE next = <<"create">> \o Tail(q)
      <4> DEFINE p == <<"create">>
      <4>1. p \in Seq(Steps) /\ Chained(p) /\ ~C(p) /\ next = p \o Tail(q)
        BY <2>3, <3>4
      <4> HIDE DEF p
      <4> QED  BY <2>2, <4>1
    <3>5. CASE \E b \in BOOLEAN : next = Closing(b) \o Tail(q)
      BY <2>2, <2>4, <3>5
    <3> QED  BY <2>5, <3>1, <3>2, <3>3, <3>4, <3>5
  <2> QED  BY <1>5, <2>6 DEF C, B
<1> QED  BY <1>4, <1>5

\* A driver whose steps stay is where it was, or back from an await.
LEMMA OrderedKept ==
    ASSUME NEW d \in Drivers, Ordered(d), job'[d].todo = job[d].todo, job'[d].kind = job[d].kind,
           job'[d].last = job[d].last, job'[d].at = job[d].at \/ job[d].at # "turn"
    PROVE  Ordered(d)'
  BY DEF Ordered

\* A driver that is idle has no steps.
LEMMA IdleOrdered ==
    ASSUME NEW d \in Drivers, job'[d] = Idle
    PROVE  Ordered(d)'
<1>1. job'[d].todo = <<>> /\ job'[d].last = "none" /\ job'[d].kind = "none"
  BY DEF Idle
<1>2. (\A s : ~In(s, <<>>)) /\ Chained(<<>>)
  BY DEF In, Chained
<1> QED  BY <1>1, <1>2 DEF Ordered

\* closeTab goes on with the close.
LEMMA ClosesFirst ==
    ASSUME NEW b \in BOOLEAN, NEW q \in Seq(Steps)
    PROVE  Closing(b) \o q # <<>> /\ Head(Closing(b) \o q) = "close"
<1> DEFINE c == <<"close">>
           x == IF b THEN <<"list", "pick">> \o SwitchTab ELSE <<>>
<1>1. Closing(b) = c \o x
  BY DEF Closing
<1>2. c \in Seq(Steps) /\ x \in Seq(Steps)
  <2>1. <<"list", "pick">> \in Seq(Steps) /\ <<>> \in Seq(Steps) /\ SwitchTab \in Seq(Steps)
    BY Literals DEF Steps
  <2>2. <<"list", "pick">> \o SwitchTab \in Seq(Steps)
    BY <2>1
  <2>3. c \in Seq(Steps)
    BY DEF Steps
  <2> HIDE DEF c
  <2> QED  BY <2>1, <2>2, <2>3
<1>3. "close" \in Steps
  BY DEF Steps
<1> HIDE DEF x
<1>4. Closing(b) \o q = c \o (x \o q) /\ x \o q \in Seq(Steps)
  <2> HIDE DEF c
  <2> QED  BY <1>1, <1>2, ConcatAssociative
<1> QED  BY <1>3, <1>4, FirstAndRest

\* A driver that sends a command is still in order,
LEMMA SendsOrders ==
    ASSUME TypeOK, Orders, NEW d \in Drivers, NEW c, NEW on, NEW to, NEW next,
           TurnSends(d, c, on, to, next), job[d].at \in {"turn", "back"}
    PROVE  Ordered(d)'
<1>1. job[d] \in Job /\ job \in [Drivers -> Job] /\ Ordered(d)
  BY JobTyped DEF TypeOK, Orders
<1>2. job'[d].todo = next /\ job'[d].at = "sent" /\ job'[d].last = c /\ job'[d].kind = job[d].kind
  <2>1. job' = [job EXCEPT ![d] = [job[d] EXCEPT !.todo = next, !.at = "sent", !.last = c]]
    BY <1>1 DEF TurnSends, SendThen
  <2> QED  BY <1>1, <2>1 DEF Job
<1>3. CASE c = "enable"
  <2>1. next = job[d].todo /\ job[d].at = "back"
    BY <1>3 DEF TurnSends, Steps, Inputs
  <2> QED  BY <1>1, <1>2, <1>3, <2>1 DEF Ordered
<1>4. CASE c # "enable"
  <2>1. Follows(d, next) /\ Head(job[d].todo) = c /\ next \in Seq(Steps)
    BY <1>4 DEF TurnSends
  <2>2. /\ ~In("drain", next)
        /\ IF job[d].kind = "stop" THEN Within(next, StopSteps) /\ LeavesLast(next)
                                   ELSE Chained(next)
        /\ In("depart", next) \/ In("next", next) => job[d].kind \in BrowserKinds
    BY <1>1, <2>1, FollowsDrained, FollowsOrders
  <2>3. c = "leave" => IF job[d].kind = "stop" THEN next = <<>>
                       ELSE next # <<>> /\ Head(next) = "attach"
    <3>1. c = "leave" => next = Tail(job[d].todo)
      BY <2>1 DEF Follows
    <3>2. job[d].todo \in Seq(Steps) /\ job[d].todo # <<>>
      BY <1>1, <2>1 DEF Job, Follows
    <3>3. IF job[d].kind = "stop" THEN LeavesLast(job[d].todo) ELSE Chained(job[d].todo)
      BY <1>1 DEF Ordered
    <3> QED  BY <2>1, <3>1, <3>2, <3>3, ChainedTail
  <2>4. c = "depart" => next # <<>> /\ Head(next) = "close"
    <3>1. SUFFICES ASSUME c = "depart"  PROVE next # <<>> /\ Head(next) = "close"
      OBVIOUS
    <3>2. PICK b \in BOOLEAN : next = Closing(b) \o Tail(job[d].todo)
      BY <3>1 DEF TurnSends, Steps, Inputs
    <3>3. Tail(job[d].todo) \in Seq(Steps)
      BY <1>1, <2>1 DEF Job, Follows
    <3> QED  BY <3>2, <3>3, ClosesFirst
  <2> QED  BY <1>2, <2>2, <2>3, <2>4 DEF Ordered
<1> QED  BY <1>3, <1>4

\* In a turn of a driver the others stay where they are.
LEMMA OthersWait ==
    ASSUME TypeOK, NEW d \in Drivers, Turn(d), NEW e \in Drivers \ {d}
    PROVE  job'[e] = job[e]
<1>1. TurnDoes(d) /\ job \in [Drivers -> Job]
  BY TurnIs DEF TypeOK
<1>2. ASSUME NEW c, NEW on, NEW to, NEW next, TurnSends(d, c, on, to, next)  PROVE job'[e] = job[e]
  BY <1>1, <1>2 DEF TurnSends, SendThen
<1>3. ASSUME NEW r, TurnGoes(d, r)  PROVE job'[e] = job[e]
  BY <1>1, <1>3 DEF TurnGoes
<1>4. ASSUME TurnEnds(d)  PROVE job'[e] = job[e]
  BY <1>1, <1>4 DEF TurnEnds
<1> QED  BY <1>1, <1>2, <1>3, <1>4 DEF TurnDoes

\* and so is every driver after a turn,
LEMMA TurnOrders ==
    ASSUME TypeOK, Orders, NEW d \in Drivers, Turn(d)
    PROVE  Orders'
<1>1. TurnDoes(d) /\ job[d].at \in {"turn", "back"}
  BY TurnIs
<1>2. job \in [Drivers -> Job] /\ Ordered(d) /\ \A e \in Drivers \ {d} : Ordered(e)
  BY DEF TypeOK, Orders
<1>3. \A e \in Drivers \ {d} : job'[e] = job[e]
  BY OthersWait
<1>4. \A e \in Drivers \ {d} : Ordered(e)'
  BY <1>2, <1>3, OrderedKept
<1>5. ASSUME NEW r, TurnGoes(d, r)  PROVE Ordered(d)'
  <2>1. /\ job'[d] = r /\ r.last = "none" /\ r.kind = job[d].kind /\ r.todo \in Seq(Steps)
        /\ Follows(d, r.todo)
    BY <1>2, <1>5 DEF TurnGoes, Job
  <2> QED  BY <1>2, <2>1, FollowsDrained, FollowsOrders DEF Ordered
<1>6. ASSUME TurnEnds(d)  PROVE Ordered(d)'
  <2>1. CASE job' = [job EXCEPT ![d] = Idle]
    <3>1. job'[d] = Idle
      BY <1>2, <2>1
    <3> QED  BY <3>1, IdleOrdered
  <2>2. CASE job' = [job EXCEPT ![d] = [Idle EXCEPT !.todo = ResetInput, !.at = "turn", !.kind = "dragged"]]
    <3>1. job'[d].todo = ResetInput /\ job'[d].last = "none" /\ job'[d].kind = "dragged"
      BY <1>2, <2>2 DEF Idle
    <3>2. Chained(ResetInput) /\ ~In("drain", ResetInput) /\ ~In("depart", ResetInput) /\ ~In("next", ResetInput)
      BY DEF ResetInput, Chained, In
    <3> QED  BY <3>1, <3>2 DEF Ordered
  <2> QED  BY <1>6, <2>1, <2>2 DEF TurnEnds
<1>7. Ordered(d)'
  BY <1>1, <1>5, <1>6, SendsOrders DEF TurnDoes
<1> QED  BY <1>4, <1>7 DEF Orders

\* or when a recovery begins,
LEMMA RecoversOrders ==
    ASSUME TypeOK, Orders, NEW t, Recovers(t)
    PROVE  Orders'
<1>1. job \in [Drivers -> Job]
  BY DEF TypeOK
<1>2. CASE UNCHANGED job
  BY <1>2, OrderedKept DEF Orders
<1>3. CASE link /\ job["rec"].at = "idle"
  <2>1. /\ job'["task"] = job["task"] /\ CalmApart(job'["ctl"], job["ctl"])
        /\ job'["rec"] = [Idle EXCEPT !.todo = Recover, !.at = "turn", !.kind = "recover", !.to = t]
    BY <1>1, <1>3, RecBegun
  <2>2. /\ job'["rec"].todo = Recover /\ job'["rec"].at = "turn" /\ job'["rec"].kind = "recover"
        /\ job'["rec"].last = "none"
    BY <2>1 DEF Idle
  <2>3. Ordered("rec")'
    BY <2>2, DrainsFirst DEF Ordered
  <2>4. Ordered("task")' /\ Ordered("ctl")'
    BY <2>1 DEF Orders, Drivers, Ordered, CalmApart
  <2> QED  BY <2>3, <2>4 DEF Orders, Drivers
<1> QED  BY <1>2, <1>3 DEF Recovers

\* A task begins.
LEMMA BeginOrders ==
    ASSUME TypeOK, Orders, NEW k \in Operations, Begin(k)
    PROVE  Orders'
<1>1. job \in [Drivers -> Job]
  BY DEF TypeOK
<1>2. PICK t : job' = [job EXCEPT !["task"] =
            [Idle EXCEPT !.todo = Script(k), !.at = "turn", !.kind = k, !.to = t,
                         !.saw = IF k \in MouseKinds THEN seen ELSE None,
                         !.calm = \A d \in {"rec", "ctl"} : job[d].at = "idle"]]
  BY DEF Begin
<1>3. /\ job'["rec"] = job["rec"] /\ job'["ctl"] = job["ctl"]
      /\ job'["task"].todo = Script(k) /\ job'["task"].kind = k /\ job'["task"].last = "none"
  BY <1>1, <1>2 DEF Drivers, Idle
<1>4. k # "stop"
  BY NoOperation
<1>5. /\ Chained(Script(k)) /\ ~In("drain", Script(k))
      /\ In("depart", Script(k)) \/ In("next", Script(k)) => k \in BrowserKinds
  <2>1. CASE k \in BrowserKinds
    BY <2>1, BrowserScripts
  <2>2. CASE k \notin BrowserKinds
    <3>1. Script(k) \in Seq(Steps) /\ Within(Script(k), PlainSteps)
      BY <2>2, ScriptTyped, PlainScripts
    <3> QED  BY <3>1, PlainIs
  <2> QED  BY <2>1, <2>2
<1>6. Ordered("task")'
  BY <1>3, <1>4, <1>5 DEF Ordered
<1>7. Ordered("rec")' /\ Ordered("ctl")'
  BY <1>3 DEF Orders, Drivers, Ordered
<1> QED  BY <1>6, <1>7 DEF Orders, Drivers

\* connect() or stop() begins,
LEMMA CommandOrders ==
    ASSUME TypeOK, Orders, NEW k \in {"connect", "stop"}, Command(k)
    PROVE  Orders'
<1>1. job \in [Drivers -> Job]
  BY DEF TypeOK
<1>2. job' = [job EXCEPT !["ctl"] = [Idle EXCEPT
            !.todo = IF k = "stop" THEN Stop ELSE Connect, !.at = "turn", !.kind = k,
            !.calm = ~At("rec", "drain")]]
  BY DEF Command
<1>3. /\ job'["task"] = job["task"] /\ job'["rec"] = job["rec"]
      /\ job'["ctl"].todo = (IF k = "stop" THEN Stop ELSE Connect)
      /\ job'["ctl"].at = "turn" /\ job'["ctl"].kind = k /\ job'["ctl"].last = "none"
  BY <1>1, <1>2 DEF Drivers, Idle
<1>4. Ordered("ctl")'
  BY <1>3, DrainsFirst DEF Ordered
<1>5. Ordered("task")' /\ Ordered("rec")'
  BY <1>3 DEF Orders, Drivers, Ordered
<1> QED  BY <1>4, <1>5 DEF Orders, Drivers

\* Every step but a turn leaves the drivers in order.
LEMMA OtherOrders ==
    ASSUME TypeOK, Orders, Posted, Other
    PROVE  Orders'
<1>1. job \in [Drivers -> Job] /\ \A d \in Drivers : job[d] \in Job
  BY DEF TypeOK
<1>2. CASE UNCHANGED job
  BY <1>2, OrderedKept DEF Orders
<1>3. ASSUME NEW d \in Drivers, Timeout(d)  PROVE Orders'
  <2>1. /\ job'[d] = [job[d] EXCEPT !.at = "back", !.ok = job[d].ok /\ job[d].last \in Lenient]
        /\ \A e \in Drivers \ {d} : job'[e] = job[e]
    BY <1>1, <1>3 DEF Timeout
  <2>2. job'[d].todo = job[d].todo /\ job'[d].kind = job[d].kind /\ job'[d].last = job[d].last
    BY <1>1, <2>1 DEF Job
  <2>3. job[d].at # "turn"
    BY <1>3 DEF Timeout
  <2> QED  BY <2>1, <2>2, <2>3, OrderedKept DEF Orders
<1>4. CASE Handle
  <2> DEFINE m == Head(wire)
  <2>1. CASE Replied(m) /\ m.by # None
    <3>1. m \in Message /\ wire # <<>> /\ 1 \in DOMAIN wire /\ m = wire[1]
      BY <1>4 DEF Handle, TypeOK
    <3>2. m.by \in Drivers
      BY <2>1, <3>1 DEF Message
    <3>3. PICK d \in Drivers : d = m.by
      BY <3>2
    <3>4. job[d].at = "sent"
      BY <3>1, <3>3 DEF Posted
    <3>5. job'[d] = Answered(job[d], m) /\ \A e \in Drivers \ {d} : job'[e] = job[e]
      BY <1>1, <2>1, <3>3 DEF Replied
    <3>6. job'[d].todo = job[d].todo /\ job'[d].kind = job[d].kind /\ job'[d].last = job[d].last
      BY <1>1, <3>5 DEF Answered, Job
    <3> QED  BY <3>4, <3>5, <3>6, OrderedKept DEF Orders
  <2>2. CASE UNCHANGED job
    BY <1>2, <2>2
  <2>3. CASE Recovers(None)
    BY <2>3, RecoversOrders
  <2> QED  BY <1>4, <2>1, <2>2, <2>3 DEF Handle, Replied, PageChanged, TargetGone
<1>5. CASE LinkLost
  <2>1. ASSUME NEW d \in Drivers  PROVE Ordered(d)'
    <3>1. CASE job[d].at = "sent"
      <4>1. job'[d] = [job[d] EXCEPT !.at = "back", !.ok = job[d].last \in Lenient]
        BY <1>5, <3>1 DEF LinkLost
      <4>2. job'[d].todo = job[d].todo /\ job'[d].kind = job[d].kind /\ job'[d].last = job[d].last
        BY <1>1, <4>1 DEF Job
      <4> QED  BY <3>1, <4>2, OrderedKept DEF Orders
    <3>2. CASE job[d].at # "sent"
      <4>1. job'[d] = job[d]
        BY <1>5, <3>2 DEF LinkLost
      <4> QED  BY <4>1, OrderedKept DEF Orders
    <3> QED  BY <3>1, <3>2
  <2> QED  BY <2>1 DEF Orders
<1>6. CASE EnsureActive
  BY <1>6, RecoversOrders DEF EnsureActive
<1>7. CASE Chrome \/ Outside \/ PauseResume
  BY <1>2, <1>7 DEF Chrome, Outside, PauseResume
<1> QED  BY <1>3, <1>4, <1>5, <1>6, <1>7, BeginOrders, CommandOrders DEF Other

-----------------------------------------------------------------------------
(* The state of the session                                                 *)

\* A driver that goes on after it has left a session attaches or closes the
\* tab next, or stop() is over.
LEMMA DetachingIs ==
    ASSUME Scripts, Orders, NEW d \in Drivers, Detaching(d), job[d].at \in {"turn", "back"}
    PROVE  /\ job[d].ok /\ job[d].at = "back" /\ job[d].last \in {"leave", "depart"}
           /\ \/ job[d].last = "leave" /\ job[d].kind = "stop" /\ job[d].todo = <<>>
              \/ job[d].last = "leave" /\ job[d].todo # <<>> /\ Head(job[d].todo) = "attach"
              \/ job[d].last = "depart" /\ job[d].todo # <<>> /\ Head(job[d].todo) = "close"
  BY DEF Scripts, Placed, Orders, Ordered, Detaching

\* What a turn of d makes of the state: an action is still executed in its
\* session, and READY without one was there before.
Settles(d) ==
    /\ state' = "ACTING" => /\ state = "ACTING" /\ sid' # None
                            /\ d = "task" => job'[d].kind \in {job[d].kind, "dragged"}
    /\ state' = "READY" /\ sid' = None /\ ~unfounded' /\ ~Detaching(d)' =>
         state = "READY" /\ sid = None /\ ~unfounded /\ ~Detaching(d)

\* That keeps the state and the session in accord.
LEMMA SettlesKeeps ==
    ASSUME TypeOK, Settledness, NEW d \in Drivers, Settles(d), \A e \in Drivers \ {d} : job'[e] = job[e]
    PROVE  Settledness'
<1>1. ASSUME state' = "ACTING"  PROVE sid' # None /\ job'["task"].kind \in ActingKinds
  <2>1. sid' # None /\ job["task"].kind \in ActingKinds
    BY <1>1 DEF Settles, Settledness
  <2>2. job'["task"].kind \in {job["task"].kind, "dragged"}
    BY <1>1 DEF Settles, Drivers
  <2> QED  BY <2>1, <2>2 DEF ActingKinds
<1>2. ASSUME state' = "READY", \A e \in Drivers : ~Detaching(e)', sid' = None, ~unfounded'
      PROVE  FALSE
  <2>1. state = "READY" /\ sid = None /\ ~unfounded /\ ~Detaching(d)
    BY <1>2 DEF Settles
  <2>2. PICK e \in Drivers : Detaching(e)
    BY <2>1 DEF Settledness
  <2>3. job'[e] = job[e]
    BY <2>1, <2>2
  <2> QED  BY <1>2, <2>2, <2>3 DEF Detaching
<1> QED  BY <1>1, <1>2 DEF Settledness

\* The kind of a driver that goes on, or sends a command.
LEMMA ThenKind ==
    ASSUME TypeOK, NEW d \in Drivers, NEW next
    PROVE  /\ Then(d, next).kind = job[d].kind
           /\ \A c, on, to : SendThen(d, c, on, to, next) => job'[d].kind = job[d].kind /\ job'[d].last = c
<1>1. job \in [Drivers -> Job] /\ job[d] \in Job
  BY JobTyped DEF TypeOK
<1>2. Then(d, next).kind = job[d].kind
  BY <1>1 DEF Then, Job
<1>3. ASSUME NEW c, NEW on, NEW to, SendThen(d, c, on, to, next)
      PROVE  job'[d].kind = job[d].kind /\ job'[d].last = c
  <2>1. job' = [job EXCEPT ![d] = [job[d] EXCEPT !.todo = next, !.at = "sent", !.last = c]]
    BY <1>1, <1>3 DEF SendThen
  <2> QED  BY <1>1, <2>1 DEF Job
<1> QED  BY <1>2, <1>3

\* A step in which the session stays, and after which the driver goes on.
LEMMA StaysSettles ==
    ASSUME TypeOK, Scripts, Orders, Settledness, NEW d \in Drivers, NEW s, At(d, s),
           s \notin {"attach", "close"}, UNCHANGED <<state, sid, unfounded>>,
           job'[d].kind = job[d].kind
    PROVE  Settles(d)
<1>1. ~Detaching(d)
  BY AtIs, DetachingIs
<1> QED  BY <1>1 DEF Settles, Settledness

\* A step that throws keeps them in accord:
LEMMA FailSettles ==
    ASSUME TypeOK, Scripts, Orders, Settledness, NEW d \in Drivers, Fail(d),
           job[d].at \in {"turn", "back"}, unfounded' = unfounded,
           ~job[d].ok \/ job[d].last = "attach" \/ job[d].todo # <<>>
    PROVE  Settles(d)
<1>1. CASE job[d].last \in {"attach", "enable"} \/ At(d, "attach")
  <2>1. state' = "DISCONNECTED"
    BY <1>1 DEF Fail
  <2> QED  BY <2>1 DEF Settles
<1>2. CASE ~(job[d].last \in {"attach", "enable"} \/ At(d, "attach"))
  <2>1. /\ state' = CASE job[d].last = "depart" -> Detached
                      [] job[d].kind = "drag"   -> state
                      [] OTHER                  -> Settled(d)
        /\ sid' = sid
    BY <1>2 DEF Fail
  <2>2. CASE job[d].last = "depart"
    <3>0. job[d].kind # "drag"
      <4>1. "drag" \in MouseKinds /\ "depart" \notin MouseSteps \cup {"none"}
        BY DEF MouseKinds, MouseSteps
      <4> QED  BY <2>2, <4>1 DEF Scripts, Scripted
    <3>1. state' = Detached
      BY <2>1, <2>2, <3>0
    <3> QED  BY <3>1 DEF Settles, Detached
  <2>3. CASE job[d].last # "depart" /\ job[d].kind = "drag"
    <3>1. state' = state
      BY <2>1, <2>3
    <3>2. d = "task" /\ ~Detaching(d)
      <4>1. "drag" \in MouseKinds /\ {"leave", "depart"} \cap (MouseSteps \cup {"none"}) = {}
        BY DEF MouseKinds, MouseSteps
      <4> QED  BY <2>3, <4>1 DEF Scripts, Scripted, Detaching
    <3>3. job'[d].kind = "dragged"
      <4>1. job' = [job EXCEPT ![d] = [Idle EXCEPT !.todo = ResetInput, !.at = "turn", !.kind = "dragged"]]
        BY <2>3 DEF Fail
      <4> QED  BY <4>1 DEF TypeOK, Idle
    <3> QED  BY <2>1, <3>1, <3>2, <3>3 DEF Settles, Settledness
  <2>4. CASE job[d].last # "depart" /\ job[d].kind # "drag"
    <3>1. state' = Settled(d)
      BY <2>1, <2>4
    <3>2. ~Detaching(d)
      BY <1>2, <2>4, DetachingIs DEF At
    <3> QED  BY <2>1, <3>1, <3>2 DEF Settles, Settledness, Settled
  <2> QED  BY <2>2, <2>3, <2>4
<1> QED  BY <1>1, <1>2

\* every turn does,
LEMMA TurnSettles ==
    ASSUME TypeOK, Scripts, Orders, Linked, Settledness, NEW d \in Drivers, Turn(d)
    PROVE  Settles(d)
<1> USE DEF session, history
<1>1. job[d].at \in {"turn", "back"} /\ job \in [Drivers -> Job] /\ job[d] \in Job
  BY TurnIs, JobTyped DEF TypeOK
<1>2. ASSUME NEW s, At(d, s), Fail(d), unfounded' = unfounded  PROVE Settles(d)
  BY <1>1, <1>2, AtIs, FailSettles
<1>3. ASSUME NEW s, At(d, s), s \notin {"attach", "close"}, UNCHANGED <<state, sid, unfounded>>,
             Skip(d) \/ \E c, on, to : Send(d, c, on, to)
      PROVE  Settles(d)
  <2>1. CASE Skip(d)
    <3>1. job'[d] = Then(d, Tail(job[d].todo))
      BY <1>1, <2>1 DEF Skip
    <3>2. job'[d].kind = job[d].kind
      BY <3>1, ThenKind
    <3> QED  BY <1>3, <3>2, StaysSettles
  <2>2. CASE \E c, on, to : Send(d, c, on, to)
    <3>1. job'[d].kind = job[d].kind
      BY <2>2, ThenKind DEF Send
    <3> QED  BY <1>3, <3>1, StaysSettles
  <2> QED  BY <1>3, <2>1, <2>2
<1>4. ASSUME NEW s \in Inputs, Input(d, s)  PROVE Settles(d)
  <2>1. s \notin {"attach", "close"} /\ At(d, s) /\ unfounded' = unfounded
    BY <1>4 DEF Input, Inputs
  <2>2. Fail(d) \/ (Send(d, s, sid, None) /\ UNCHANGED <<state, sid>>)
    BY <1>4 DEF Input
  <2> QED  BY <1>2, <1>3, <2>1, <2>2
<1>5. ASSUME NEW s \in {"cancelDrag", "freeButton", "freeKey"}, Free(d, s)  PROVE Settles(d)
  <2>1. /\ At(d, s) /\ UNCHANGED <<state, sid, unfounded>> /\ s \notin {"attach", "close"}
        /\ Skip(d) \/ Send(d, s, sid, None)
    BY <1>5 DEF Free
  <2> QED  BY <1>3, <2>1
<1>6. ASSUME NEW s \in {"shot", "go", "history", "dialog"}, Query(d, s)  PROVE Settles(d)
  <2>1. s \notin {"attach", "close"} /\ At(d, s) /\ unfounded' = unfounded
    BY <1>6 DEF Query
  <2>2. Fail(d) \/ (Send(d, s, sid, None) /\ UNCHANGED <<state, sid>>)
    BY <1>6 DEF Query
  <2> QED  BY <1>2, <1>3, <2>1, <2>2
<1>7. ASSUME NEW s \in {"store", "bump", "clear", "forget", "ready"}, Local(d, s)  PROVE Settles(d)
  <2>1. At(d, s) /\ Skip(d) /\ sid' = sid /\ s \notin {"attach", "close"}
    BY <1>7 DEF Local
  <2>2. CASE s = "ready"
    <3>1. state' = "READY" /\ unfounded' = (sid = None)
      BY <1>7, <2>2 DEF Local
    <3> QED  BY <2>1, <3>1 DEF Settles
  <2>3. CASE s # "ready"
    <3>1. state' = state /\ unfounded' = unfounded
      BY <1>7, <2>3 DEF Local
    <3> QED  BY <1>3, <2>1, <3>1
  <2> QED  BY <2>2, <2>3
<1>8. ASSUME NEW s \in {"activate", "create", "close", "list", "attach"}, Ask(d, s)  PROVE Settles(d)
  <2>1. At(d, s) /\ unfounded' = unfounded
    BY <1>8 DEF Ask
  <2>2. CASE Fail(d)
    BY <1>2, <2>1, <2>2
  <2>3. CASE Send(d, s, None, job[d].to) /\ Entering(d, s) /\ sid' = sid
    <3>1. job'[d].kind = job[d].kind
      BY <2>3, ThenKind DEF Send
    <3>2. CASE s = "attach"
      <4>1. state' = "ATTACHING"
        BY <2>3, <3>2 DEF Entering
      <4> QED  BY <4>1 DEF Settles
    <3>3. CASE s = "close"
      <4>1. state' = IF job[d].last = "depart" THEN Detached ELSE state
        BY <2>3, <3>3 DEF Entering
      <4>2. CASE job[d].last = "depart"
        BY <4>1, <4>2 DEF Settles, Detached
      <4>3. CASE job[d].last # "depart"
        <5>1. ~Detaching(d)
          BY <1>1, <2>1, <3>3, <4>3, AtIs, DetachingIs
        <5> QED  BY <2>1, <2>3, <3>1, <4>1, <4>3, <5>1 DEF Settles, Settledness
      <4> QED  BY <4>2, <4>3
    <3>4. CASE s \notin {"attach", "close"}
      <4>1. state' = state
        BY <2>3, <3>4 DEF Entering
      <4> QED  BY <1>3, <2>1, <2>3, <3>4, <4>1
    <3> QED  BY <3>2, <3>3, <3>4
  <2> QED  BY <1>8, <2>2, <2>3 DEF Ask
<1>9. ASSUME MayGo(d) \/ Sleep(d) \/ Wake(d) \/ CloseNext(d) \/ Pick(d)  PROVE Settles(d)
  <2>1. UNCHANGED <<state, sid, unfounded>>
    BY <1>9 DEF MayGo, Sleep, Wake, CloseNext, Pick
  <2>2. PICK s \in {"mayGo", "pause", "next", "pick"} : At(d, s)
    BY <1>9 DEF MayGo, Sleep, Wake, CloseNext, Pick
  <2>3. \E r : job' = [job EXCEPT ![d] = r] /\ r.kind = job[d].kind
    <3>1. CASE MayGo(d)
      <4>1. PICK entry : job' = [job EXCEPT ![d] = Then(d, entry \o Tail(job[d].todo))]
        BY <3>1 DEF MayGo
      <4>2. Then(d, entry \o Tail(job[d].todo)).kind = job[d].kind
        BY ThenKind
      <4> QED  BY <4>1, <4>2
    <3>2. CASE Sleep(d) \/ Wake(d)
      <4>1. \E next : job' = [job EXCEPT ![d] = Then(d, next)]
        BY <3>2 DEF Sleep, Wake, Skip
      <4>2. \A next : Then(d, next).kind = job[d].kind
        BY ThenKind
      <4> QED  BY <4>1, <4>2
    <3>3. CASE CloseNext(d)
      <4>1. CASE Skip(d)
        <5>1. job' = [job EXCEPT ![d] = Then(d, Tail(job[d].todo))]
          BY <4>1 DEF Skip
        <5>2. Then(d, Tail(job[d].todo)).kind = job[d].kind
          BY ThenKind
        <5> QED  BY <5>1, <5>2
      <4>2. CASE ~Skip(d)
        <5> DEFINE a == Then(d, <<"depart">> \o job[d].todo)
        <5>1. PICK t \in job[d].rest : job' = [job EXCEPT ![d] = [a EXCEPT !.to = t, !.rest = @ \ {t}]]
          BY <3>3, <4>2 DEF CloseNext
        <5>2. [a EXCEPT !.to = t, !.rest = @ \ {t}].kind = job[d].kind
          BY <1>1 DEF Then, Job
        <5> QED  BY <5>1, <5>2
      <4> QED  BY <4>1, <4>2
    <3>4. CASE Pick(d)
      <4> DEFINE a == Then(d, Tail(job[d].todo))
                 b == Then(d, <<"create">> \o Tail(job[d].todo))
      <4>1. \/ \E t : job' = [job EXCEPT ![d] = [a EXCEPT !.to = t, !.tabs = {}]]
            \/ job' = [job EXCEPT ![d] = [b EXCEPT !.tabs = {}]]
        BY <3>4 DEF Pick
      <4>2. /\ \A t : [a EXCEPT !.to = t, !.tabs = {}].kind = job[d].kind
            /\ [b EXCEPT !.tabs = {}].kind = job[d].kind
        BY <1>1 DEF Then, Job
      <4> HIDE DEF a, b
      <4> QED  BY <4>1, <4>2
    <3> QED  BY <1>9, <3>1, <3>2, <3>3, <3>4
  <2>4. job'[d].kind = job[d].kind
    BY <1>1, <2>3
  <2> QED  BY <2>1, <2>2, <2>4, StaysSettles
<1>10. CASE Window(d)
  <2>1. PICK s \in {"window", "show"} : At(d, s) /\ (Send(d, s, None, job[d].to) \/ Skip(d))
    BY <1>10 DEF Window
  <2>2. UNCHANGED <<state, sid, unfounded>>
    BY <1>10 DEF Window
  <2> QED  BY <1>3, <2>1, <2>2
<1>11. CASE Aim(d)
  <2>1. unfounded' = unfounded /\ \E s \in {"aim", "aimAll"} : At(d, s)
    BY <1>11 DEF Aim
  <2>2. CASE Fail(d)
    BY <1>2, <2>1, <2>2
  <2>3. CASE ~Fail(d)
    <3> DEFINE a == Then(d, Tail(job[d].todo))
               r(t, ts) == [a EXCEPT !.tabs = {}, !.to = IF At(d, "aim") THEN t ELSE @,
                                     !.rest = IF At(d, "aimAll") THEN ts ELSE @]
    <3>1. PICK t, ts : job' = [job EXCEPT ![d] = r(t, ts)] /\ UNCHANGED <<state, sid>>
      BY <1>11, <2>3 DEF Aim
    <3>2. r(t, ts).kind = job[d].kind
      BY <1>1 DEF Then, Job
    <3>3. job'[d].kind = job[d].kind
      BY <1>1, <3>1, <3>2
    <3> HIDE DEF r, a
    <3> QED  BY <2>1, <3>1, <3>3, StaysSettles
  <2> QED  BY <2>2, <2>3
<1>12. CASE Leave(d)
  <2>1. At(d, "leave") /\ unfounded' = unfounded
    BY <1>12 DEF Leave
  <2>2. CASE ~MayLeave(d)
    BY <1>2, <1>12, <2>1, <2>2 DEF Leave
  <2>3. CASE MayLeave(d) /\ job[d].kind = "stop"
    <3>1. state' = "STOPPED"
      BY <1>12, <2>3 DEF Leave
    <3> QED  BY <3>1 DEF Settles
  <2>4. CASE MayLeave(d) /\ job[d].kind # "stop"
    <3>1. state' = state /\ state # "ACTING"
      BY <1>12, <2>4 DEF Leave, MayLeave
    <3>2. CASE sid # None
      <4>1. Send(d, "leave", sid, None)
        BY <1>12, <2>4, <3>2 DEF Leave, Linked
      <4>2. Detaching(d)'
        BY <4>1, ThenKind DEF Send, Detaching
      <4> QED  BY <3>1, <4>2 DEF Settles
    <3>3. CASE sid = None
      <4>1. Skip(d) /\ sid' = sid
        BY <1>12, <2>4, <3>3 DEF Leave
      <4> QED  BY <1>3, <2>1, <3>1, <4>1
    <3> QED  BY <3>2, <3>3
  <2> QED  BY <2>2, <2>3, <2>4
<1>13. CASE Depart(d)
  <2> DEFINE next == Closing(tab = job[d].to) \o Tail(job[d].todo)
  <2>1. At(d, "depart") /\ unfounded' = unfounded
    BY <1>13 DEF Depart
  <2>2. state # "ACTING"
    <3>1. In("depart", job[d].todo)
      BY <1>1, <2>1, AtIs DEF In, Job
    <3>2. job[d].kind \in BrowserKinds
      BY <3>1 DEF Orders, Ordered
    <3>3. d = "task"
      BY <3>2 DEF Scripts, Scripted, Operations
    <3>4. job["task"].kind \notin ActingKinds
      BY <3>2, <3>3 DEF ActingKinds, BrowserKinds
    <3> QED  BY <3>4 DEF Settledness
  <2> HIDE DEF next
  <2>3. CASE tab = job[d].to /\ sid # None /\ link
    <3>1. SendThen(d, "depart", sid, None, next) /\ state' = state
      BY <1>13, <2>3 DEF Depart, next
    <3>2. Detaching(d)'
      BY <3>1, ThenKind DEF Detaching
    <3> QED  BY <2>2, <3>1, <3>2 DEF Settles
  <2>4. CASE tab = job[d].to /\ ~(sid # None /\ link)
    <3>1. state' = Detached
      BY <1>13, <2>4 DEF Depart
    <3> QED  BY <3>1 DEF Settles, Detached
  <2>5. CASE tab # job[d].to
    <3>1. job' = [job EXCEPT ![d] = Then(d, next)] /\ UNCHANGED <<state, sid>>
      BY <1>13, <2>5 DEF Depart, next
    <3>2. job'[d].kind = job[d].kind
      <4>1. job'[d] = Then(d, next)
        BY <1>1, <3>1
      <4> QED  BY <4>1, ThenKind
    <3> QED  BY <2>1, <3>1, <3>2, StaysSettles
  <2> QED  BY <2>3, <2>4, <2>5
<1>14. CASE Enable(d)
  <2>1. unfounded' = unfounded /\ job[d].last = "attach"
    BY <1>14 DEF Enable
  <2>2. CASE ~link
    BY <1>1, <1>14, <2>1, <2>2, FailSettles DEF Enable
  <2>3. CASE link
    <3>1. sid' = job[d].num /\ state' = state /\ SendThen(d, "enable", job[d].num, None, job[d].todo)
      BY <1>14, <2>3 DEF Enable
    <3>2. sid' # None
      BY <1>1, <3>1, TabAssumption DEF Job
    <3>3. job'[d].kind = job[d].kind
      BY <3>1, ThenKind
    <3> QED  BY <3>1, <3>2, <3>3 DEF Settles
  <2> QED  BY <2>2, <2>3
<1>15. CASE Drained(d)
  <2>1. PICK s \in {"drain", "cancel"} : At(d, s)
    BY <1>15 DEF Drained
  <2>2. Skip(d) /\ UNCHANGED <<state, sid, unfounded>>
    BY <1>15 DEF Drained
  <2> QED  BY <1>3, <2>1, <2>2
<1>16. CASE Open(d)
  <2>1. At(d, "open") /\ Skip(d) /\ UNCHANGED <<state, sid, unfounded>>
    BY <1>16 DEF Open
  <2> QED  BY <1>3, <2>1
<1>17. CASE Over(d)
  <2>1. unfounded' = unfounded
    BY <1>17 DEF Over
  <2>2. CASE ~job[d].ok
    BY <1>1, <1>17, <2>1, <2>2, FailSettles DEF Over
  <2>3. CASE job[d].ok
    <3>1. /\ job[d].todo = <<>> /\ sid' = sid
          /\ state' = IF job[d].kind = "stop" THEN Detached ELSE Settled(d)
      BY <1>17, <2>3 DEF Over
    <3>2. CASE job[d].kind = "stop"
      BY <3>1, <3>2 DEF Settles, Detached
    <3>3. CASE job[d].kind # "stop"
      <4>1. ~Detaching(d)
        BY <1>1, <3>1, <3>3, DetachingIs
      <4> QED  BY <2>1, <3>1, <3>3, <4>1 DEF Settles, Settledness, Settled
    <3> QED  BY <3>2, <3>3
  <2> QED  BY <2>2, <2>3
<1> QED  BY <1>4, <1>5, <1>6, <1>7, <1>8, <1>9, <1>10, <1>11, <1>12, <1>13, <1>14, <1>15, <1>16, <1>17
         DEF Turn, Shot, OnPage

\* Nothing changes in the session, and no one leaves it or has gone on.
LEMMA SettledKept ==
    ASSUME Settledness, UNCHANGED <<state, sid, unfounded>>,
           job'["task"].kind = job["task"].kind \/ state # "ACTING",
           \A d \in Drivers : Detaching(d)' <=> Detaching(d)
    PROVE  Settledness'
  BY DEF Settledness

\* A recovery that begins leaves no session.
LEMMA RecoversDetaching ==
    ASSUME TypeOK, Scripts, NEW t, Recovers(t)
    PROVE  /\ job'["task"].kind = job["task"].kind
           /\ \A d \in Drivers : Detaching(d)' <=> Detaching(d)
<1>1. job \in [Drivers -> Job]
  BY DEF TypeOK
<1>2. CASE UNCHANGED job
  BY <1>2 DEF Detaching
<1>3. CASE link /\ job["rec"].at = "idle"
  <2>1. /\ job'["task"] = job["task"] /\ CalmApart(job'["ctl"], job["ctl"])
        /\ job'["rec"] = [Idle EXCEPT !.todo = Recover, !.at = "turn", !.kind = "recover", !.to = t]
    BY <1>1, <1>3, RecBegun
  <2>2. job'["rec"].last = "none" /\ job["rec"].last = "none"
    BY <1>3, <2>1 DEF Idle, Scripts, Placed, Drivers
  <2> QED  BY <2>1, <2>2 DEF Drivers, Detaching, CalmApart
<1> QED  BY <1>2, <1>3 DEF Recovers

\* Every step but a turn keeps the state and the session in accord.
LEMMA OtherSettled ==
    ASSUME TypeOK, Scripts, Settledness, Other
    PROVE  Settledness'
<1> USE DEF session, history
<1>1. job \in [Drivers -> Job] /\ \A d \in Drivers : job[d] \in Job
  BY DEF TypeOK
<1>2. ASSUME NEW d \in Drivers, job[d].at = "idle"  PROVE job[d].last = "none" /\ job[d].kind = "none"
  BY <1>2 DEF Scripts, Placed, Idle
<1>3. ASSUME NEW d \in Drivers, Timeout(d)  PROVE Settledness'
  <2>1. /\ job'[d] = [job[d] EXCEPT !.at = "back", !.ok = job[d].ok /\ job[d].last \in Lenient]
        /\ \A e \in Drivers \ {d} : job'[e] = job[e]
    BY <1>1, <1>3 DEF Timeout
  <2>2. job'[d].kind = job[d].kind /\ job'[d].last = job[d].last
    BY <1>1, <2>1 DEF Job
  <2>3. \A e \in Drivers : job'[e].kind = job[e].kind /\ (Detaching(e)' <=> Detaching(e))
    BY <2>1, <2>2 DEF Detaching
  <2>4. UNCHANGED <<state, sid, unfounded>>
    BY <1>3 DEF Timeout
  <2> QED  BY <2>3, <2>4, SettledKept DEF Drivers
<1>4. ASSUME NEW k \in Operations, Begin(k)  PROVE Settledness'
  <2>1. PICK t : job' = [job EXCEPT !["task"] =
            [Idle EXCEPT !.todo = Script(k), !.at = "turn", !.kind = k, !.to = t,
                         !.saw = IF k \in MouseKinds THEN seen ELSE None,
                         !.calm = \A d \in {"rec", "ctl"} : job[d].at = "idle"]]
    BY <1>4 DEF Begin
  <2>2. /\ job'["rec"] = job["rec"] /\ job'["ctl"] = job["ctl"]
        /\ job'["task"].kind = k /\ job'["task"].last = "none"
    BY <1>1, <2>1 DEF Drivers, Idle
  <2>3. job["task"].last = "none" /\ job["task"].kind = "none"
    BY <1>2, <1>4 DEF Begin, Drivers
  <2>4. \A d \in Drivers : Detaching(d)' <=> Detaching(d)
    BY <2>2, <2>3 DEF Drivers, Detaching
  <2>5. state # "ACTING"
    <3>1. "none" \notin ActingKinds
      BY NoOperation DEF ActingKinds
    <3> QED  BY <2>3, <3>1 DEF Settledness
  <2>6. UNCHANGED <<sid, unfounded>>
    BY <1>4 DEF Begin
  <2>7. CASE k \in BrowserKinds \cup {"observe"}
    <3>1. state' = state
      BY <1>4, <2>7 DEF Begin
    <3> QED  BY <2>4, <2>5, <2>6, <3>1, SettledKept
  <2>8. CASE k \notin BrowserKinds \cup {"observe"}
    <3>1. state' = "ACTING" /\ k \in ActingKinds
      BY <1>4, <2>8 DEF Begin, ActingKinds
    <3>2. sid # None
      BY <1>4, <2>8 DEF Begin, Accepts
    <3> QED  BY <2>2, <2>6, <3>1, <3>2 DEF Settledness
  <2> QED  BY <2>7, <2>8
<1>5. ASSUME NEW k \in {"connect", "stop"}, Command(k)  PROVE Settledness'
  <2>1. job' = [job EXCEPT !["ctl"] = [Idle EXCEPT
            !.todo = IF k = "stop" THEN Stop ELSE Connect, !.at = "turn", !.kind = k,
            !.calm = ~At("rec", "drain")]]
    BY <1>5 DEF Command
  <2>2. job'["task"] = job["task"] /\ job'["rec"] = job["rec"] /\ job'["ctl"].last = "none"
    BY <1>1, <2>1 DEF Drivers, Idle
  <2>3. job["ctl"].last = "none"
    BY <1>2, <1>5 DEF Command, Drivers
  <2>4. \A d \in Drivers : Detaching(d)' <=> Detaching(d)
    BY <2>2, <2>3 DEF Drivers, Detaching
  <2>5. UNCHANGED <<state, sid, unfounded>>
    BY <1>5 DEF Command
  <2> QED  BY <2>2, <2>4, <2>5, SettledKept
<1>6. CASE EnsureActive
  <2>1. UNCHANGED <<state, sid, unfounded>> /\ Recovers(tab)
    BY <1>6 DEF EnsureActive
  <2> QED  BY <2>1, RecoversDetaching, SettledKept
<1>7. CASE Chrome \/ Outside
  <2>1. UNCHANGED <<state, sid, unfounded, job>>
    BY <1>7 DEF Chrome, Outside
  <2> QED  BY <2>1, SettledKept DEF Detaching
<1>8. CASE Handle
  <2> DEFINE m == Head(wire)
  <2>0. unfounded' = unfounded /\ m \in Message
    BY <1>8 DEF Handle, TypeOK
  <2>1. CASE Replied(m)
    <3>1. UNCHANGED <<state, sid>>
      BY <2>1 DEF Replied
    <3>2. \A d \in Drivers : job'[d].kind = job[d].kind /\ job'[d].last = job[d].last
      <4>1. CASE m.by = None
        BY <2>1, <4>1 DEF Replied
      <4>2. CASE m.by # None
        <5>1. m.by \in Drivers
          BY <2>0, <4>2 DEF Message
        <5>2. PICK e \in Drivers : e = m.by
          BY <5>1
        <5>3. job'[e] = Answered(job[e], m) /\ \A d \in Drivers \ {e} : job'[d] = job[d]
          BY <1>1, <2>1, <4>2, <5>2 DEF Replied
        <5>4. job'[e].kind = job[e].kind /\ job'[e].last = job[e].last
          BY <1>1, <5>3 DEF Answered, Job
        <5> QED  BY <5>3, <5>4
      <4> QED  BY <4>1, <4>2
    <3>3. \A d \in Drivers : Detaching(d)' <=> Detaching(d)
      BY <3>2 DEF Detaching
    <3> QED  BY <2>0, <3>1, <3>2, <3>3, SettledKept DEF Drivers
  <2>2. CASE PageChanged(m)
    <3>1. UNCHANGED <<state, sid, job>>
      BY <2>2 DEF PageChanged
    <3> QED  BY <2>0, <3>1, SettledKept DEF Detaching
  <2>3. CASE TargetGone(m)
    <3>1. CASE state' = "TARGET_CLOSED"
      BY <3>1 DEF Settledness
    <3>2. CASE UNCHANGED <<state, sid, job>>
      BY <2>0, <3>2, SettledKept DEF Detaching
    <3> QED  BY <2>3, <3>1, <3>2 DEF TargetGone
  <2> QED  BY <1>8, <2>1, <2>2, <2>3 DEF Handle
<1>9. CASE LinkLost
  <2>1. state' = "CONNECTION_LOST"
    BY <1>9 DEF LinkLost
  <2> QED  BY <2>1 DEF Settledness
<1>10. CASE PauseResume
  <2>1. sid' = sid /\ IF paused THEN state' = "READY" /\ unfounded' = (sid = None)
                                ELSE state' = "WAITING_FOR_USER"
    BY <1>10 DEF PauseResume
  <2> QED  BY <2>1 DEF Settledness
<1> QED  BY <1>3, <1>4, <1>5, <1>6, <1>7, <1>8, <1>9, <1>10 DEF Other

\* Every step keeps the inductive invariant.
LEMMA NextKeeps ==
    ASSUME IInv, [Next]_vars
    PROVE  IInv'
<1>1. /\ TypeOK /\ Scripts /\ Orders /\ Posted /\ Linked /\ Settledness /\ Rest
  BY DEF IInv, Rest
<1>2. TypeOK'
  BY <1>1, NextTyped
<1> SUFFICES Scripts' /\ Orders' /\ Settledness' /\ Rest'
  BY <1>2 DEF IInv, Rest
<1>3. CASE \E d \in Drivers : Turn(d)
  <2>1. PICK d \in Drivers : Turn(d)
    BY <1>3
  <2>2. Settledness'
    BY <1>1, <2>1, TurnSettles, OthersWait, SettlesKeeps
  <2> QED  BY <1>1, <2>1, <2>2, TurnScripts, TurnOrders, TurnRest
<1>4. CASE Other
  BY <1>1, <1>2, <1>4, OtherScripts, OtherOrders, OtherSettled, OtherRest
<1>5. CASE UNCHANGED vars
  <2>1. /\ UNCHANGED <<inbox, home, live, held, link, wire, sid, tab, known, job, aborted>>
        /\ UNCHANGED <<state, unfounded>>
    BY <1>5 DEF vars, chrome, session, history
  <2>2. Scripts'
    BY <1>1, <2>1 DEF Scripts, Placed, Scripted, Detaching
  <2>3. Orders'
    BY <1>1, <2>1, OrderedKept DEF Orders
  <2>4. Settledness'
    BY <1>1, <2>1, SettledKept DEF Detaching
  <2> QED  BY <1>1, <2>1, <2>2, <2>3, <2>4, StutterRest
<1> QED  BY <1>3, <1>4, <1>5 DEF Next

\* The inductive invariant holds in every state.
THEOREM Inductive == Spec => []IInv
<1>1. ASSUME Init  PROVE IInv
  <2>1. TypeOK /\ Rest
    BY <1>1, InitTyped, InitRest
  <2>2. Scripts
    BY <1>1 DEF Init, Scripts, Placed, Scripted, Idle, Drivers, MouseKinds, LeavingKinds,
                Within, Operations, BrowserKinds, RawKinds, Detaching
  <2>3. Orders
    <3>1. \A d \in Drivers : job[d].todo = <<>> /\ job[d].last = "none" /\ job[d].kind = "none"
      BY <1>1 DEF Init, Idle
    <3>2. (\A s : ~In(s, <<>>)) /\ Chained(<<>>)
      BY DEF In, Chained
    <3> QED  BY <3>1, <3>2 DEF Orders, Ordered
  <2>4. Settledness
    BY <1>1 DEF Init, Settledness
  <2> QED  BY <2>1, <2>2, <2>3, <2>4 DEF IInv, Rest
<1> QED  BY <1>1, NextKeeps, PTL DEF Spec

\* Type correctness of TabSession, for any tabs, programs and texts.
THEOREM TabTypeCorrect == Spec => []TypeOK
<1>1. IInv => TypeOK
  BY DEF IInv
<1> QED  BY <1>1, Inductive, PTL

\* A mouse action that began with no recovery under way goes to the tab of the
\* observation it was checked against, whatever closes, reconnects or recovers
\* meanwhile: a recovery waits for the queue, and a lost target fails the task.
THEOREM CalmMouseCorrect == Spec => []CalmMouseGoesWhereLooked
<1>1. IInv => CalmMouseGoesWhereLooked
  BY DEF IInv, Looked, CalmMouseGoesWhereLooked
<1> QED  BY <1>1, Inductive, PTL

\* The session that commands are sent on is alive in Chrome, or the event that
\* says otherwise is on its way; an action is executed in a session, and READY
\* has one unless it was set where there was none, or while it is detached.
THEOREM SessionIsRealCorrect == Spec => []SessionIsReal
<1>1. ASSUME IInv  PROVE SessionIsReal
  <2>1. sid # None /\ (\A d \in Drivers : job[d].last # "enable")
        => sid \in live \/ \E i \in DOMAIN wire : wire[i].kind = "gone" /\ wire[i].on = sid
    BY <1>1 DEF IInv, Alive, Doomed
  <2>2. state = "ACTING" => sid # None
    BY <1>1 DEF IInv, Settledness
  <2>3. state = "READY" /\ (\A d \in Drivers : job[d].last \notin {"leave", "depart"})
        => sid # None \/ unfounded
    BY <1>1 DEF IInv, Settledness, Detaching
  <2> QED  BY <2>1, <2>2, <2>3 DEF SessionIsReal
<1> QED  BY <1>1, Inductive, PTL

\* switch_tab, close_tab, and stop() with no recovery that opens the queue again,
\* leave a session in which nothing is held of what inputState records.
THEOREM ReleasedBeforeLeavingCorrect == Spec => []ReleasedBeforeLeaving
<1>1. ASSUME IInv  PROVE ReleasedBeforeLeaving
  <2>1. SUFFICES ASSUME inbox # <<>>, inbox[1].cmd \in {"leave", "depart"}, inbox[1].on \in live,
                        Releasing(inbox[1]), NEW x \in Recorded, x \in held[inbox[1].on]
                 PROVE  FALSE
    BY DEF ReleasedBeforeLeaving, Releasing
  <2>2. 1 \in DOMAIN inbox
    BY <1>1, <2>1 DEF IInv, TypeOK
  <2>3. Holds(held, inbox, x, inbox[1].on, 1)
    BY <1>1, <2>1 DEF Holds, Lifted, IInv, TypeOK
  <2> QED  BY <1>1, <2>1, <2>2, <2>3 DEF IInv, HeldIsKnown
<1> QED  BY <1>1, Inductive, PTL
=============================================================================
