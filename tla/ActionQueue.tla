---------------------------- MODULE ActionQueue ----------------------------
(***************************************************************************)
(* The ActionQueue class of src/controller.ts: the serial queue that every *)
(* operation of ChromeController goes through.                             *)
(*                                                                         *)
(* JavaScript runs one continuation at a time, so each action below is the *)
(* code between two awaits.  A step of the environment (a caller of run,   *)
(* drain, cancelAndDrain or reset) is a macrotask: it is taken only when   *)
(* no continuation of the queue itself is waiting in the microtask queue   *)
(* (Quiet).  A task's own promise may settle at any moment.                *)
(*                                                                         *)
(* Definitions whose comment begins with "Faulty" are variants that no     *)
(* specification uses: with one of them in the place of the definition     *)
(* that follows it, a property named in PROJECT.json must fail.            *)
(***************************************************************************)
EXTENDS Naturals, Sequences, Functions

CONSTANTS
    Tasks,       \* the calls of run(): one task each
    Cancellers,  \* the calls of cancelAndDrain() and reset() in progress
    Resetters,   \* those of them that are calls of reset()
    Drainers,    \* the calls of drain()
    None,        \* null
    MaxGeneration \* bound: no abort begins once the counter has reached it

ASSUME ConstantsAssumption ==
    /\ Resetters \subseteq Cancellers
    /\ None \notin Tasks
    /\ MaxGeneration \in Nat

VARIABLES
    q,        \* the fields of the object
    call,     \* call[t]: the promise that run() returned for task t
    exec,     \* exec[t]: the async function that executes task t
    genOf,    \* genOf[t]: QueueEntry.generation
    pc,       \* pc[c]: where a cancelAndDrain() or reset() is suspended
    flightOf, \* flightOf[c]: currentFlight, the execution c awaits
    drain     \* drain[d]: the promise that drain() returned

vars == <<q, call, exec, genOf, pc, flightOf, drain>>

-----------------------------------------------------------------------------
(* The object and the promises. *)

QueueState == [queue        : Seq(Tasks),
               currentEntry : Tasks \cup {None},
               inFlight     : Tasks \cup {None},
               isProcessing : BOOLEAN,
               isAborted    : BOOLEAN,
               generation   : Nat]

CallState  == {"new", "pending", "resolved", "rejected"}
\* running: the task's promise is pending; fulfilled and threw: it has settled
\* and the continuation after the await has not run; over: finally has run.
ExecState  == {"none", "running", "fulfilled", "threw", "over"}
\* flight: awaiting currentFlight; cancelled: that await is over and the rest
\* of cancelAndDrain has not run; resetting: the rest of reset has not run.
PcState    == {"idle", "flight", "cancelled", "resetting", "done"}
DrainState == {"new", "waiting", "done"}

TypeOK ==
    /\ q \in QueueState
    /\ call \in [Tasks -> CallState]
    /\ exec \in [Tasks -> ExecState]
    /\ genOf \in [Tasks -> Nat]
    /\ pc \in [Cancellers -> PcState]
    /\ flightOf \in [Cancellers -> Tasks \cup {None}]
    /\ drain \in [Drainers -> DrainState]

Settled(t) == call[t] \in {"resolved", "rejected"}

\* The body of task t has begun and its finally block has not run.
Live(t) == exec[t] \in {"running", "fulfilled", "threw"}

\* No continuation of the queue waits in the microtask queue.
Quiet ==
    /\ \A t \in Tasks : exec[t] \notin {"fulfilled", "threw"}
    /\ \A c \in Cancellers : pc[c] \notin {"cancelled", "resetting"}

IsRunning(s) == s.isProcessing \/ s.currentEntry # None \/ s.inFlight # None
Idle(s)      == ~IsRunning(s) /\ s.queue = <<>>

\* Faulty: an abort forgets the listeners.
CheckDrainUnlessAborted(s) ==
    [d \in Drainers |->
        IF Idle(s) /\ ~s.isAborted /\ drain[d] = "waiting" THEN "done" ELSE drain[d]]

\* checkDrain: every listener fires when the queue is found idle.
CheckDrain(s) ==
    [d \in Drainers |->
        IF Idle(s) /\ drain[d] = "waiting" THEN "done" ELSE drain[d]]

\* reject, guarded by entry.settled as everywhere in the class.
Reject(c, S) ==
    [t \in Tasks |-> IF t \in S /\ c[t] = "pending" THEN "rejected" ELSE c[t]]

-----------------------------------------------------------------------------
(* processNext.  Entries of an older generation at the head of the queue   *)
(* are rejected one after the other; the first current one starts.         *)

IsStale(s, gen, i) == gen[s.queue[i]] # s.generation

StalePrefix(s, gen) ==
    {i \in 1..Len(s.queue) : \A j \in 1..i : IsStale(s, gen, j)}

\* Faulty: does not look at isProcessing.
MayProcessWhenBusy(s) == ~s.isAborted

MayProcess(s) == ~s.isProcessing /\ ~s.isAborted

\* Faulty: pop() for shift().
StartsAtLast(s, gen) ==
    {i \in 1..Len(s.queue) : MayProcess(s) /\ i = Len(s.queue) /\ ~IsStale(s, gen, i)}

\* The place in the queue of the entry that starts; none when processNext
\* returns early or finds only stale entries.
StartsAt(s, gen) ==
    {i \in 1..Len(s.queue) :
        /\ MayProcess(s)
        /\ ~IsStale(s, gen, i)
        /\ \A j \in 1..(i - 1) : IsStale(s, gen, j)}

ProcessNext(s, gen) ==
    IF ~MayProcess(s) THEN s
    ELSE IF StartsAt(s, gen) = {} THEN [s EXCEPT !.queue = <<>>]
    ELSE LET i == CHOOSE i \in StartsAt(s, gen) : TRUE
             t == s.queue[i]
         IN  [s EXCEPT !.queue = SubSeq(@, i + 1, Len(@)),
                       !.isProcessing = TRUE,
                       !.currentEntry = t,
                       !.inFlight = t]

\* The stale entries that processNext rejects on its way.
Dropped(s, gen) ==
    IF MayProcess(s) THEN {s.queue[i] : i \in StalePrefix(s, gen)} ELSE {}

\* The execution that processNext starts.
Launch(e, s, gen) ==
    [t \in Tasks |->
        IF \E i \in StartsAt(s, gen) : s.queue[i] = t THEN "running" ELSE e[t]]

-----------------------------------------------------------------------------
Init ==
    /\ q = [queue |-> <<>>, currentEntry |-> None, inFlight |-> None,
            isProcessing |-> FALSE, isAborted |-> FALSE, generation |-> 0]
    /\ call = [t \in Tasks |-> "new"]
    /\ exec = [t \in Tasks |-> "none"]
    /\ genOf = [t \in Tasks |-> 0]
    /\ pc = [c \in Cancellers |-> "idle"]
    /\ flightOf = [c \in Cancellers |-> None]
    /\ drain = [d \in Drainers |-> "new"]

\* run() on an aborted queue throws at once.
RunRefused(t) ==
    /\ Quiet
    /\ call[t] = "new"
    /\ q.isAborted
    /\ call' = [call EXCEPT ![t] = "rejected"]
    /\ UNCHANGED <<q, exec, genOf, pc, flightOf, drain>>

\* run() pushes the entry and calls processNext.
Run(t) ==
    /\ Quiet
    /\ call[t] = "new"
    /\ ~q.isAborted
    /\ genOf' = [genOf EXCEPT ![t] = q.generation]
    /\ LET pushed == [q EXCEPT !.queue = Append(@, t)]
       IN  /\ q' = ProcessNext(pushed, genOf')
           /\ call' = Reject([call EXCEPT ![t] = "pending"], Dropped(pushed, genOf'))
           /\ exec' = Launch(exec, pushed, genOf')
    /\ drain' = CheckDrain(q')
    /\ UNCHANGED <<pc, flightOf>>

\* The promise of the running task settles.
TaskSettles(t) ==
    /\ exec[t] = "running"
    /\ \E how \in {"fulfilled", "threw"} : exec' = [exec EXCEPT ![t] = how]
    /\ UNCHANGED <<q, call, genOf, pc, flightOf, drain>>

\* What the caller of run() gets when the execution of t ends.
Outcome(t) ==
    IF exec[t] = "fulfilled" /\ genOf[t] = q.generation /\ ~q.isAborted
    THEN "resolved" ELSE "rejected"

\* Faulty: no look at entry.settled, at the generation or at isAborted.
ToldResult(t) == IF exec[t] = "fulfilled" THEN "resolved" ELSE "rejected"

\* entry.settled: who has been told of a cancellation is not told again.
Told(t) == IF call[t] = "pending" THEN Outcome(t) ELSE call[t]

\* Faulty: forgets isProcessing.
AfterTaskStaysBusy(t) ==
    IF genOf[t] = q.generation
    THEN [q EXCEPT !.currentEntry = None, !.inFlight = None]
    ELSE [q EXCEPT !.inFlight = None]

\* The finally block: the current generation goes on with the next entry, an
\* execution of an older one only gives up the in-flight promise.
AfterTask(t) ==
    IF genOf[t] = q.generation
    THEN [q EXCEPT !.currentEntry = None, !.isProcessing = FALSE, !.inFlight = None]
    ELSE [q EXCEPT !.inFlight = None]

\* Faulty: the promise of an aborted execution never resolves.
WokenIfCurrent(t) ==
    [c \in Cancellers |->
        IF pc[c] = "flight" /\ flightOf[c] = t /\ genOf[t] = q.generation
        THEN "cancelled" ELSE pc[c]]

\* Those who await the promise of the execution of t.
Woken(t) ==
    [c \in Cancellers |->
        IF pc[c] = "flight" /\ flightOf[c] = t THEN "cancelled" ELSE pc[c]]

\* The continuation after `await entry.task(...)`, with its finally block.
ExecutionEnds(t) ==
    /\ exec[t] \in {"fulfilled", "threw"}
    /\ LET s    == AfterTask(t)
           next == IF genOf[t] = q.generation THEN ProcessNext(s, genOf) ELSE s
           gone == IF genOf[t] = q.generation THEN Dropped(s, genOf) ELSE {}
           over == [exec EXCEPT ![t] = "over"]
       IN  /\ q' = next
           /\ call' = Reject([call EXCEPT ![t] = Told(t)], gone)
           /\ exec' = IF genOf[t] = q.generation THEN Launch(over, s, genOf) ELSE over
    /\ drain' = CheckDrain(q')
    /\ pc' = Woken(t)
    /\ UNCHANGED <<genOf, flightOf>>

\* abort(): what it leaves of the object, and whom it rejects.
Abort(s) ==
    [s EXCEPT !.isAborted = TRUE, !.generation = @ + 1, !.currentEntry = None,
              !.queue = <<>>, !.isProcessing = FALSE]

Aborted(s) == Range(s.queue) \cup {s.currentEntry}

Returned(c) == IF c \in Resetters THEN "resetting" ELSE "done"

\* Faulty: waits only for an execution that is still the current entry.
AwaitsCurrent(c) == IF q.currentEntry # None THEN "flight" ELSE Returned(c)

\* `if (currentFlight) await currentFlight`
Awaits(c) == IF q.inFlight # None THEN "flight" ELSE Returned(c)

\* abort() called by itself: nobody waits for the task in flight.
AbortOnly ==
    /\ Quiet
    /\ q.generation < MaxGeneration
    /\ call' = Reject(call, Aborted(q))
    /\ q' = Abort(q)
    /\ drain' = CheckDrain(q')
    /\ UNCHANGED <<exec, genOf, pc, flightOf>>

\* cancelAndDrain() or reset() is called, up to its first await.
Cancel(c) ==
    /\ Quiet
    /\ q.generation < MaxGeneration
    /\ pc[c] \in {"idle", "done"}
    /\ call' = Reject(call, Aborted(q))
    /\ q' = Abort(q)
    /\ flightOf' = [flightOf EXCEPT ![c] = q.inFlight]
    /\ pc' = [pc EXCEPT ![c] = Awaits(c)]
    /\ drain' = CheckDrain(q')
    /\ UNCHANGED <<exec, genOf>>

\* The rest of cancelAndDrain(), after `await currentFlight`.
CancelDrained(c) ==
    /\ pc[c] = "cancelled"
    /\ q' = [q EXCEPT !.inFlight = None]
    /\ pc' = [pc EXCEPT ![c] = Returned(c)]
    /\ drain' = CheckDrain(q')
    /\ UNCHANGED <<call, exec, genOf, flightOf>>

\* The rest of reset(), after `await this.cancelAndDrain()`.
Reset(c) ==
    /\ pc[c] = "resetting"
    /\ q' = [queue |-> <<>>, currentEntry |-> None, inFlight |-> None,
             isProcessing |-> FALSE, isAborted |-> FALSE,
             generation |-> q.generation + 1]
    /\ pc' = [pc EXCEPT ![c] = "done"]
    /\ drain' = CheckDrain(q')
    /\ UNCHANGED <<call, exec, genOf, flightOf>>

\* drain() returns at once on an idle queue and otherwise registers.
Drain(d) ==
    /\ Quiet
    /\ drain[d] = "new"
    /\ drain' = [drain EXCEPT ![d] = IF Idle(q) THEN "done" ELSE "waiting"]
    /\ UNCHANGED <<q, call, exec, genOf, pc, flightOf>>

\* The continuations the JavaScript engine must run, and the tasks, which are
\* bounded by the timeouts of the CDP commands they await.
Progress(t) == TaskSettles(t) \/ ExecutionEnds(t)
Resume(c)   == CancelDrained(c) \/ Reset(c)

Next ==
    \/ \E t \in Tasks : RunRefused(t) \/ Run(t) \/ Progress(t)
    \/ \E c \in Cancellers : Cancel(c) \/ Resume(c)
    \/ \E d \in Drainers : Drain(d)
    \/ AbortOnly

Fairness ==
    /\ \A t \in Tasks : WF_vars(Progress(t))
    /\ \A c \in Cancellers : WF_vars(Resume(c))

Spec     == Init /\ [][Next]_vars
FairSpec == Spec /\ Fairness

-----------------------------------------------------------------------------
(* Properties. *)

\* Mutual exclusion: at most one task body is between its first step and its
\* finally block, across aborts and resets too (controller.ts:86-142).
OneTaskAtATime == \A t, u \in Tasks : Live(t) /\ Live(u) => t = u

\* A promise that run() handed out and that is still pending is reachable: its
\* entry waits in the queue or is the current one, so nothing strands a caller.
NoStrandedCall ==
    \A t \in Tasks : call[t] = "pending" => t \in Range(q.queue) \cup {q.currentEntry}

\* Entries left in the queue are of the current generation: the stale branch
\* of processNext (controller.ts:94-105) has nothing to reject.
QueueIsCurrent == \A i \in 1..Len(q.queue) : genOf[q.queue[i]] = q.generation

\* A queue with entries has a task in flight that will take the next one: work
\* never waits behind a cleared isProcessing flag.
NoLostWakeup ==
    q.queue # <<>> => \E t \in Tasks : Live(t) /\ q.currentEntry = t /\ q.isProcessing

\* A registered drain() listener never sleeps on an idle queue.
NoForgottenDrain == \A d \in Drainers : drain[d] = "waiting" => ~Idle(q)

\* Once the promise of a call has settled it never changes (entry.settled).
SettledOnce == [][\A t \in Tasks : Settled(t) => call'[t] = call[t]]_vars

\* When cancelAndDrain() or reset() returns, no task is still executing: "waits
\* for in-flight asynchronous operations to fully settle" (controller.ts:204).
CancelReturnsDrained ==
    [][\A c \in Cancellers : pc[c] # "done" /\ pc'[c] = "done"
            => \A t \in Tasks : ~Live(t)']_vars

\* Bodies run one at a time in the order of the calls of run(), and a
\* cancellation rejects every pending call: the class implements SerialQueue.
Serial == INSTANCE SerialQueue WITH line <- q.queue, body <- q.inFlight, verdict <- call
ServesSerially == Serial!Spec

\* A pending call settles, whatever is cancelled meanwhile.
EveryCallSettles == \A t \in Tasks : call[t] = "pending" ~> Settled(t)

\* cancelAndDrain() and reset() return: nobody waits on himself.
EveryCancelReturns == \A c \in Cancellers : pc[c] = "flight" ~> pc[c] = "done"
=============================================================================
