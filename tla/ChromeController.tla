-------------------------- MODULE ChromeController --------------------------
(***************************************************************************)
(* ChromeController of src/controller.ts around its ActionQueue: how an    *)
(* operation waits for a live CDP session, how a lost session is recovered *)
(* (autoRecoverTarget) and how stop() and disconnect() cancel.             *)
(*                                                                         *)
(* The first, synchronous, part of a task runs inside processNext.  It is  *)
(* a step of its own here, taken before any other step (Starting = {}).    *)
(***************************************************************************)
EXTENDS ActionQueue

CONSTANTS
    Recoverer,  \* the reset() of autoRecoverTarget, one of Resetters
    Switching,  \* tasks that detach and attach (switch_tab, new_tab, close_tab)
    Observing   \* tasks that call ensureActiveSession themselves (observe)

ASSUME ControllerAssumption ==
    /\ Recoverer \in Resetters
    /\ Switching \subseteq Tasks
    /\ Observing \subseteq Tasks

VARIABLES
    hasSession, \* session.sessionId # null
    recovery,   \* recoveryPromise, by what it is waiting for
    api,        \* api[t]: the public operation that submits task t
    begun,      \* begun[t]: the synchronous part of an observing task has run
    ensuring    \* ensuring[t]: task t awaits the recovery promise

ctl     == <<hasSession, recovery, api, begun, ensuring>>
allVars == <<vars, ctl>>

ControllerTypeOK ==
    /\ TypeOK
    /\ hasSession \in BOOLEAN
    /\ recovery \in {"none", "resetting", "attaching"}
    /\ api \in [Tasks -> {"new", "recovering", "ready", "submitted", "failed"}]
    /\ begun \in [Tasks -> BOOLEAN]
    /\ ensuring \in [Tasks -> BOOLEAN]

Starting == {t \in Observing : exec[t] = "running" /\ ~begun[t]}

\* No continuation of the queue, of a task or of an operation is waiting.
Calm == Quiet /\ Starting = {} /\ \A t \in Tasks : api[t] # "ready"

ControllerInit ==
    /\ Init
    /\ hasSession = TRUE
    /\ recovery = "none"
    /\ api = [t \in Tasks |-> "new"]
    /\ begun = [t \in Tasks |-> FALSE]
    /\ ensuring = [t \in Tasks |-> FALSE]

-----------------------------------------------------------------------------
(* autoRecoverTarget: one at a time, shared through recoveryPromise. *)

BeginRecovery == Cancel(Recoverer) /\ recovery' = "resetting"

\* The session is reported closed or detached; the listener recovers it.
SessionCloses ==
    /\ Calm
    /\ hasSession
    /\ hasSession' = FALSE
    /\ \/ recovery = "none" /\ BeginRecovery
       \/ recovery # "none" /\ UNCHANGED <<vars, recovery>>
    /\ UNCHANGED <<api, begun, ensuring>>

RecoveryQueueReset ==
    /\ Starting = {}
    /\ Reset(Recoverer)
    /\ recovery' = "attaching"
    /\ UNCHANGED <<hasSession, api, begun, ensuring>>

\* Faulty: a failure does not reject the shared promise.
RecoveryFailsSilently(ok) ==
    /\ Calm
    /\ recovery = "attaching"
    /\ recovery' = "none"
    /\ hasSession' = ok
    /\ api' = [t \in Tasks |-> IF ok /\ api[t] = "recovering" THEN "ready" ELSE api[t]]
    /\ ensuring' = [t \in Tasks |-> ensuring[t] /\ ~ok]
    /\ UNCHANGED <<vars, begun>>

\* The tabs are listed and the first other one attached, or one of these CDP
\* calls fails; the waiters of the promise go on or fail.
RecoveryEnds(ok) ==
    /\ Calm
    /\ recovery = "attaching"
    /\ recovery' = "none"
    /\ hasSession' = ok
    /\ api' = [t \in Tasks |->
                 IF api[t] # "recovering" THEN api[t]
                 ELSE IF ok THEN "ready" ELSE "failed"]
    /\ ensuring' = [t \in Tasks |-> FALSE]
    /\ UNCHANGED <<vars, begun>>

-----------------------------------------------------------------------------
(* The operations: ensureActiveSession, then the queue. *)

ApiCall(t) ==
    /\ Calm
    /\ api[t] = "new"
    /\ \/ /\ hasSession
          /\ api' = [api EXCEPT ![t] = "ready"]
          /\ UNCHANGED <<vars, recovery>>
       \/ /\ ~hasSession
          /\ api' = [api EXCEPT ![t] = "recovering"]
          /\ \/ recovery = "none" /\ BeginRecovery
             \/ recovery # "none" /\ UNCHANGED <<vars, recovery>>
    /\ UNCHANGED <<hasSession, begun, ensuring>>

Submit(t) ==
    /\ Starting = {}
    /\ api[t] = "ready"
    /\ api' = [api EXCEPT ![t] = "submitted"]
    /\ Run(t) \/ RunRefused(t)
    /\ UNCHANGED <<hasSession, recovery, begun, ensuring>>

\* Faulty: as if inFlightPromise were assigned before the task begins, so that
\* the task's own recovery awaits the task.
EnsureInTaskInFlight(t) ==
    /\ t \in Starting
    /\ begun' = [begun EXCEPT ![t] = TRUE]
    /\ \/ hasSession /\ UNCHANGED <<vars, recovery, ensuring>>
       \/ /\ ~hasSession
          /\ ensuring' = [ensuring EXCEPT ![t] = TRUE]
          /\ \/ recovery # "none" /\ UNCHANGED <<vars, recovery>>
             \/ recovery = "none" /\ BeginRecovery
    /\ UNCHANGED <<hasSession, api>>

\* The synchronous part of an observing task, still inside processNext, where
\* inFlightPromise is not yet assigned: a reset() called here finds nothing in
\* flight, so that it neither waits for this task nor knows of it.
EnsureInTask(t) ==
    /\ t \in Starting
    /\ begun' = [begun EXCEPT ![t] = TRUE]
    /\ \/ hasSession /\ UNCHANGED <<vars, recovery, ensuring>>
       \/ /\ ~hasSession
          /\ ensuring' = [ensuring EXCEPT ![t] = TRUE]
          /\ \/ recovery # "none" /\ UNCHANGED <<vars, recovery>>
             \/ /\ recovery = "none"
                /\ recovery' = "resetting"
                /\ call' = Reject(call, Aborted(q))
                /\ q' = Abort(q)
                /\ flightOf' = [flightOf EXCEPT ![Recoverer] = None]
                /\ pc' = [pc EXCEPT ![Recoverer] = "resetting"]
                /\ drain' = CheckDrain([Abort(q) EXCEPT !.inFlight = None])
                /\ UNCHANGED <<exec, genOf>>
    /\ UNCHANGED <<hasSession, api>>

\* A switching task detaches from its tab, and attaches to another one.  It may
\* also end in between, when the attachment fails.
TaskDetaches(t) ==
    /\ Calm
    /\ t \in Switching /\ exec[t] = "running"
    /\ hasSession
    /\ hasSession' = FALSE
    /\ UNCHANGED <<vars, recovery, api, begun, ensuring>>

TaskAttaches(t) ==
    /\ Calm
    /\ t \in Switching /\ exec[t] = "running"
    /\ ~hasSession /\ recovery # "attaching"
    /\ hasSession' = TRUE
    /\ UNCHANGED <<vars, recovery, api, begun, ensuring>>

TaskProgress(t) ==
    /\ Starting = {}
    /\ ~ensuring[t]
    /\ Progress(t)
    /\ UNCHANGED ctl

-----------------------------------------------------------------------------
(* stop() and disconnect(): cancelAndDrain, then the session is detached. *)

Stoppers == Cancellers \ Resetters

Stop(c) == Calm /\ Cancel(c) /\ UNCHANGED ctl

CancelContinues(c) == Starting = {} /\ CancelDrained(c) /\ UNCHANGED ctl

StopDetaches(c) ==
    /\ Calm
    /\ pc[c] = "done"
    /\ pc' = [pc EXCEPT ![c] = "idle"]
    /\ hasSession' = FALSE
    /\ UNCHANGED <<q, call, exec, genOf, flightOf, drain, recovery, api, begun, ensuring>>

ControllerNext ==
    \/ SessionCloses
    \/ RecoveryQueueReset
    \/ \E ok \in BOOLEAN : RecoveryEnds(ok)
    \/ \E t \in Tasks : \/ ApiCall(t) \/ Submit(t) \/ EnsureInTask(t)
                        \/ TaskDetaches(t) \/ TaskAttaches(t) \/ TaskProgress(t)
    \/ \E c \in Stoppers : Stop(c) \/ StopDetaches(c)
    \/ \E c \in Cancellers : CancelContinues(c)

\* Continuations run, tasks settle (CDP commands time out) and so do the CDP
\* calls of a recovery.  Nothing obliges a caller to call.
ControllerFairness ==
    /\ \A t \in Tasks : /\ WF_allVars(Submit(t))
                        /\ WF_allVars(EnsureInTask(t))
                        /\ WF_allVars(TaskProgress(t))
    /\ \A c \in Cancellers : WF_allVars(CancelContinues(c))
    /\ WF_allVars(RecoveryQueueReset)
    /\ WF_allVars(\E ok \in BOOLEAN : RecoveryEnds(ok))

ControllerSpec == ControllerInit /\ [][ControllerNext]_allVars /\ ControllerFairness

-----------------------------------------------------------------------------
(* Properties. *)

\* Every public operation is answered, although a recovery waits for the task
\* in flight and tasks wait for the recovery (controller.ts:284-337, 401-404).
EveryOperationAnswered ==
    \A t \in Tasks : api[t] # "new" ~> (Settled(t) \/ api[t] = "failed")

\* A recovery ends, although it first waits for the task in flight and that task
\* may itself be waiting for a recovery (controller.ts:298, 401-404).
EveryRecoveryEnds == recovery # "none" ~> recovery = "none"

\* stop() and disconnect() touch input and session only when no task executes
\* any more: cancelAndDrain "waits for in-flight asynchronous operations to
\* fully settle" (controller.ts:204, 955-960).  This is said of runs in which no
\* task has asked for a recovery itself (see OneTaskAtATime in the README).
StopReturnsDrained ==
    [][\A c \in Stoppers : pc[c] # "done" /\ pc'[c] = "done"
            => \A t \in Tasks : ~Live(t)' \/ \E o \in Observing : begun[o]]_allVars

\* Whoever waits for a recovery waits for one that is in progress: a recovery
\* that ends leaves neither an operation nor a task behind.
NobodyWaitsInVain ==
    \A t \in Tasks : api[t] = "recovering" \/ ensuring[t] => recovery # "none"
=============================================================================
