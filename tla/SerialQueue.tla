---------------------------- MODULE SerialQueue ----------------------------
(***************************************************************************)
(* What an action queue promises to those who submit tasks: bodies run one *)
(* at a time and in the order of submission, a promise settles at most     *)
(* once, and a cancellation rejects everything that is pending, while the  *)
(* body that runs is left to wind down before another one may start.       *)
(***************************************************************************)
EXTENDS Naturals, Sequences, Functions

CONSTANTS Tasks, None

VARIABLES
    line,    \* tasks submitted and not started, in order of submission
    body,    \* the task whose body is executing, or None
    verdict  \* verdict[t]: what the submitter of t has been told

svars == <<line, body, verdict>>

Init ==
    /\ line = <<>>
    /\ body = None
    /\ verdict = [t \in Tasks |-> "new"]

Refuse(t) ==
    /\ verdict[t] = "new"
    /\ verdict' = [verdict EXCEPT ![t] = "rejected"]
    /\ UNCHANGED <<line, body>>

\* A task joins the line, or starts at once if nothing is before it.
Submit(t) ==
    /\ verdict[t] = "new"
    /\ verdict' = [verdict EXCEPT ![t] = "pending"]
    /\ \/ line' = Append(line, t) /\ body' = body
       \/ line = <<>> /\ body = None /\ line' = line /\ body' = t

\* The body ends.  Its submitter is told so, unless he has been told before;
\* the first task of the line may start.
Finish ==
    /\ body # None
    /\ \/ verdict[body] = "pending"
          /\ \E v \in {"resolved", "rejected"} : verdict' = [verdict EXCEPT ![body] = v]
       \/ verdict[body] # "pending" /\ verdict' = verdict
    /\ \/ line # <<>> /\ body' = Head(line) /\ line' = Tail(line)
       \/ body' = None /\ line' = line

\* Every pending submitter is told that his task is cancelled.
CancelAll ==
    /\ line' = <<>>
    /\ body' = body
    /\ verdict' = [t \in Tasks |-> IF verdict[t] = "pending" THEN "rejected" ELSE verdict[t]]

Next == Finish \/ CancelAll \/ \E t \in Tasks : Refuse(t) \/ Submit(t)

Spec == Init /\ [][Next]_svars
=============================================================================
