----------------------------- MODULE RedisClient -----------------------------
(***************************************************************************)
(* The client through which the relay's replicas share their state          *)
(* (src/src/remote/redis-client.ts): one socket at a time, opened when a     *)
(* command needs it, and one queue of the commands without a reply.  A reply *)
(* carries no name: it answers the first command of the queue.              *)
(*                                                                         *)
(* An action runs to the next await.  After destroy(error) the error event   *)
(* comes before any continuation, and the close event of a socket before     *)
(* another can connect (it has its phase of the event loop).                 *)
(***************************************************************************)
EXTENDS Naturals, FiniteSets, SequencesExt

CONSTANTS
    Cmds,      \* calls of command()
    Socks,     \* the sockets that may be opened, in this order: 1, 2, ...
    Hellos,    \* what URLs ask of open(): sequences of AUTH and SELECT
    None

ASSUME RedisAssumption ==
    /\ IsFiniteSet(Socks) /\ Socks = 1..Cardinality(Socks) /\ None \notin Socks
    /\ Hellos \subseteq {<<>>, <<"auth">>, <<"select">>, <<"auth", "select">>}
    /\ Cmds \cap {"auth", "select", "error", "none"} = {}

VARIABLES
    hello,     \* what the client's URL asks of open()
    calls,     \* each call: where it is, whose reply it got, whether its
               \* command ran in the database of the URL
    waiters,   \* calls that await connecting, in their order
    opening,   \* connecting: its socket, and what of hello has no reply yet
    socket,    \* this.socket
    pending,   \* commands without a reply: a call, or one of open()
    closed,    \* close() was called
    sock,      \* each socket: its state
    flight,    \* each socket: what was written and not answered
    chosen     \* each socket: its database is the one of the URL

vars == <<hello, calls, waiters, opening, socket, pending, closed, sock, flight, chosen>>

\* "ended": the server has closed its half; "ending": close() has.
SockStates == {"none", "connecting", "open", "ended", "ending", "closing", "dead"}
Hello      == {"auth", "select"}
NotOpening == [on |-> None, todo |-> <<>>]

\* A passing net.Socket: not destroyed.
Usable == socket # None /\ sock[socket] \in {"open", "ended"}

-----------------------------------------------------------------------------
(* Parts of turns.                                                         *)

Settles(c, got) == [calls[c] EXCEPT !.at = "done", !.got = got]
Rejects(cs) == calls' = [c \in Cmds |-> IF c \in cs THEN Settles(c, "error") ELSE calls[c]]
Calls(q) == ToSet(q) \ Hello

\* Faulty: what is pending stays in the queue.
FailureKeepsQueue(q) ==
    /\ socket' = None /\ pending' = q
    /\ IF ToSet(q) \cap Hello = {}
       THEN Rejects(Calls(q)) /\ UNCHANGED <<waiters, opening>>
       ELSE Rejects(Calls(q \o waiters)) /\ waiters' = <<>> /\ opening' = NotOpening

\* onSocketFailure(), of whatever socket: what is pending is rejected; if open()
\* awaits one of them, it fails, and those who await it.
Failure(q) ==
    /\ socket' = None /\ pending' = <<>>
    /\ IF ToSet(q) \cap Hello = {}
       THEN Rejects(Calls(q)) /\ UNCHANGED <<waiters, opening>>
       ELSE Rejects(Calls(q \o waiters)) /\ waiters' = <<>> /\ opening' = NotOpening

Sends(q) == calls' = [c \in Cmds |-> IF c \in ToSet(q) THEN [calls[c] EXCEPT !.at = "sent"]
                                                        ELSE calls[c]]
\* writeCommand() of a sequence on s, behind the queue p and what is in flight, f.
Written(s, q, p, f) ==
    /\ pending' = p \o q
    /\ flight' = [f EXCEPT ![s] = @ \o q]

\* open() goes on with p and f: it writes the next of its commands, or it is over
\* and those who await it write theirs.
GoesOn(s, rest, p, f) ==
    IF rest # <<>>
    THEN /\ Written(s, <<Head(rest)>>, p, f)
         /\ opening' = [on |-> s, todo |-> rest] /\ UNCHANGED <<calls, waiters>>
    ELSE /\ Written(s, waiters, p, f) /\ Sends(waiters)
         /\ opening' = NotOpening /\ waiters' = <<>>

\* connecting is rejected, and with it those who await it.
NoConnection == Rejects(ToSet(waiters)) /\ waiters' = <<>> /\ opening' = NotOpening

-----------------------------------------------------------------------------
(* command() and close().                                                  *)

\* Faulty: a connection under way is not shared.
OpensAnew(s) ==
    /\ sock[s] = "none" /\ \A t \in Socks : sock[t] = "none" => s <= t
    /\ sock' = [sock EXCEPT ![s] = "connecting"]
    /\ opening' = [on |-> s, todo |-> hello]

\* ensureConnected() without a usable socket: one connection for all.
Opens(s) ==
    IF opening = NotOpening
    THEN /\ sock[s] = "none" /\ \A t \in Socks : sock[t] = "none" => s <= t
         /\ sock' = [sock EXCEPT ![s] = "connecting"]
         /\ opening' = [on |-> s, todo |-> hello]
    ELSE s = opening.on /\ UNCHANGED <<sock, opening>>

Command(c) ==
    /\ calls[c].at = "new"
    /\ \/ /\ closed
          /\ Rejects({c}) /\ UNCHANGED <<waiters, opening, socket, pending, sock, flight>>
       \/ /\ ~closed /\ Usable /\ sock[socket] = "open"
          /\ Written(socket, <<c>>, pending, flight) /\ Sends(<<c>>)
          /\ UNCHANGED <<waiters, opening, socket, sock>>
       \* The write to a socket that the server has ended is an error.
       \/ /\ ~closed /\ Usable /\ sock[socket] = "ended"
          /\ Failure(Append(pending, c))
          /\ sock' = [sock EXCEPT ![socket] = "closing"] /\ UNCHANGED flight
       \/ /\ ~closed /\ ~Usable
          /\ \E s \in Socks : Opens(s)
          /\ waiters' = Append(waiters, c)
          /\ calls' = [calls EXCEPT ![c].at = "wait"]
          /\ UNCHANGED <<socket, pending, flight>>
    /\ UNCHANGED <<hello, closed, chosen>>

\* end() of the socket there is; one that is being connected is forgotten.
Close ==
    /\ ~closed /\ closed' = TRUE
    /\ socket' = None
    /\ sock' = IF socket # None THEN [sock EXCEPT ![socket] = "ending"] ELSE sock
    /\ UNCHANGED <<hello, calls, waiters, opening, pending, flight, chosen>>

-----------------------------------------------------------------------------
(* The socket's events and the timers.                                     *)

\* connect or secureConnect: the socket is in use before AUTH and SELECT.
Connected(s) ==
    /\ sock[s] = "connecting" /\ \A t \in Socks : sock[t] # "closing"
    /\ sock' = [sock EXCEPT ![s] = "open"] /\ socket' = s
    /\ chosen' = [chosen EXCEPT ![s] = ~Contains(hello, "select")]
    /\ GoesOn(s, hello, pending, flight)
    /\ UNCHANGED <<hello, closed>>

\* Faulty: the timer destroys the socket, and does not reject.
ConnectHangs(s) ==
    /\ sock[s] = "connecting"
    /\ sock' = [sock EXCEPT ![s] = "dead"]
    /\ UNCHANGED <<hello, calls, waiters, opening, socket, pending, closed, flight, chosen>>

\* error before that, or connectTimeoutMs.
ConnectFails(s) ==
    /\ sock[s] = "connecting"
    /\ sock' = [sock EXCEPT ![s] = "dead"]
    /\ NoConnection
    /\ UNCHANGED <<hello, socket, pending, closed, flight, chosen>>

\* The server runs the first command of a socket and answers; onData() gives the
\* reply to the first of the queue.
Answers(s) == sock[s] \in {"open", "ending"} /\ flight[s] # <<>> /\ pending # <<>>
Ran(s, ok) == chosen' = IF Head(flight[s]) = "select" /\ ok THEN [chosen EXCEPT ![s] = TRUE] ELSE chosen
Answered(s) == [flight EXCEPT ![s] = Tail(@)]

\* It settles a call,
Reply(s, ok) ==
    /\ Answers(s) /\ Ran(s, ok) /\ Head(pending) \in Cmds
    /\ pending' = Tail(pending) /\ flight' = Answered(s)
    /\ calls' = [calls EXCEPT ![Head(pending)] =
                    [at |-> "done", got |-> IF ok THEN Head(flight[s]) ELSE "error", here |-> chosen[s]]]
    /\ UNCHANGED <<hello, waiters, opening, socket, closed, sock>>

\* or open() continues, which throws if it is refused or if close() has taken
\* the socket away from the command it would write next.
Opened(s, ok) ==
    LET rest == Tail(opening.todo) IN
    /\ Answers(s) /\ Ran(s, ok) /\ Head(pending) \in Hello
    /\ \/ /\ ok /\ socket = s
          /\ GoesOn(s, rest, Tail(pending), Answered(s))
          /\ UNCHANGED <<socket, sock>>
       \/ /\ ~ok \/ socket # s
          /\ NoConnection
          /\ pending' = Tail(pending) /\ flight' = Answered(s)
          /\ socket' = None
          /\ sock' = IF ok /\ rest = <<>> THEN sock ELSE [sock EXCEPT ![s] = "closing"]
    /\ UNCHANGED <<hello, closed>>

\* A connection is lost: error, and the close event to come.
Fails(s) ==
    /\ sock[s] \in {"open", "ended", "ending"}
    /\ sock' = [sock EXCEPT ![s] = "closing"]
    /\ Failure(pending)
    /\ UNCHANGED <<hello, closed, flight, chosen>>

\* commandTimeoutMs of one of the queue: it is rejected and destroys the socket.
TimesOut(s) == pending # <<>> /\ Fails(s)

\* The server closes its half.
ServerEnds(s) ==
    /\ sock[s] = "open"
    /\ sock' = [sock EXCEPT ![s] = "ended"]
    /\ UNCHANGED <<hello, calls, waiters, opening, socket, pending, closed, flight, chosen>>

\* The close event.
Closes(s) ==
    /\ sock[s] \in {"ended", "ending", "closing"}
    /\ sock' = [sock EXCEPT ![s] = "dead"]
    /\ Failure(pending)
    /\ UNCHANGED <<hello, closed, flight, chosen>>

-----------------------------------------------------------------------------
Init ==
    /\ hello \in Hellos
    /\ calls = [c \in Cmds |-> [at |-> "new", got |-> "none", here |-> TRUE]]
    /\ waiters = <<>> /\ opening = NotOpening /\ socket = None /\ pending = <<>>
    /\ closed = FALSE
    /\ sock = [s \in Socks |-> "none"]
    /\ flight = [s \in Socks |-> <<>>] /\ chosen = [s \in Socks |-> FALSE]

Next ==
    \/ \E c \in Cmds : Command(c)
    \/ Close
    \/ \E s \in Socks :
          \/ Connected(s) \/ ConnectFails(s) \/ \E ok \in BOOLEAN : Reply(s, ok) \/ Opened(s, ok)
          \/ Fails(s) \/ TimesOut(s) \/ ServerEnds(s) \/ Closes(s)

\* Timers fire, and sockets that are closing close; a server need not answer.
Fairness == \A s \in Socks : WF_vars(Connected(s) \/ ConnectFails(s)) /\ WF_vars(TimesOut(s))
                             /\ WF_vars(Closes(s))
Spec == Init /\ [][Next]_vars /\ Fairness

-----------------------------------------------------------------------------
(* Properties                                                              *)

TypeOK ==
    /\ hello \in Hellos /\ closed \in BOOLEAN
    /\ calls \in [Cmds -> [at: {"new", "wait", "sent", "done"},
                           got: Cmds \cup Hello \cup {"none", "error"}, here: BOOLEAN]]
    /\ waiters \in Seq(Cmds) /\ pending \in Seq(Cmds \cup Hello)
    /\ opening \in [on: Socks \cup {None}, todo: Seq(Hello)]
    /\ socket \in Socks \cup {None}
    /\ sock \in [Socks -> SockStates]
    /\ flight \in [Socks -> Seq(Cmds \cup Hello)] /\ chosen \in [Socks -> BOOLEAN]

\* A call gets the reply of its own command, whatever timed out, was lost or was
\* reconnected before: replies are matched by their order alone.
RepliesMatch == \A c \in Cmds : calls[c].got \in {"none", "error", c}

\* Replicas do not pile up connections: while the client is in use there is one
\* at a time, being connected or connected.
OneConnection == Cardinality({s \in Socks : sock[s] \in {"connecting", "open", "ended"}}) <= 1

\* Commands run in the database that the URL names, and not in the default one
\* ("Redis SELECT failed" closes the connection, redis-client.ts:167).  With AUTH
\* and SELECT a command that finds the socket in use comes before SELECT.
RunsInDatabase == \A c \in Cmds : calls[c].got = c => calls[c].here

\* It holds when the URL does not ask for both.
CalmRunsInDatabase == hello # <<"auth", "select">> => RunsInDatabase

\* Every call is settled, whether the server connects, answers, dies or is
\* silent, and whoever else fails.
EveryCallSettles == \A c \in Cmds : calls[c].at \in {"wait", "sent"} ~> calls[c].at = "done"
=============================================================================
