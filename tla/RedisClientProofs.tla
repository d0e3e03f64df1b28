------------------------- MODULE RedisClientProofs -------------------------
(***************************************************************************)
(* For any calls, sockets and URLs: a call gets the reply of its own        *)
(* command, there is one connection at a time, and commands run in the      *)
(* database of the URL unless it asks for AUTH and SELECT.                  *)
(*                                                                         *)
(* A reply has no name, so what must be kept is that the queue mirrors what *)
(* is in flight on the one socket that can still answer (Mirror), and that  *)
(* no socket answers while another's failure is still to come.              *)
(***************************************************************************)
EXTENDS RedisClient, FiniteSetTheorems, TLAPS

\* The server may still answer on s.
Live(s) == sock[s] \in {"open", "ended", "ending"}

\* The connection there is.
Current(s) == sock[s] = "connecting" \/ Live(s)

\* The socket in use is connected, and until close() a connected one is in use.
SocketInUse ==
  /\ socket # None => sock[socket] \in {"open", "ended"}
  /\ \A s \in Socks : sock[s] \in {"open", "ended"} => socket = s \/ closed
  /\ \A s \in Socks : sock[s] = "ending" => closed

OneCurrent ==
  /\ \A s, t \in Socks : Current(s) /\ Current(t) => s = t
  /\ \A s, t \in Socks : sock[s] = "closing" => ~Live(t)
  /\ \A s \in Socks : sock[s] = "connecting" => opening.on = s

Mirror ==
  /\ \A s \in Socks : Live(s) => flight[s] = pending
  /\ \A s \in Socks : sock[s] \in {"none", "connecting"} => flight[s] = <<>>
  /\ pending # <<>> => \E s \in Socks : Live(s) \/ sock[s] = "closing"

\* Commands of open() are written one at a time, and while it is under way.
OneHello ==
  /\ \A i \in 1..Len(pending) : pending[i] \in Hello =>
        opening.on \in Socks /\ Live(opening.on) /\ opening.todo # <<>>
  /\ \A i, j \in 1..Len(pending) : pending[i] \in Hello /\ pending[j] \in Hello => i = j

Inv == SocketInUse /\ OneCurrent /\ Mirror /\ OneHello /\ RepliesMatch

-----------------------------------------------------------------------------
(* Types                                                                   *)

CallState == [at: {"new", "wait", "sent", "done"},
              got: Cmds \cup Hello \cup {"none", "error"}, here: BOOLEAN]

\* Rejecting calls keeps their type, and gives none of them a reply.
LEMMA RejectsType ==
  ASSUME calls \in [Cmds -> CallState], NEW cs, Rejects(cs)
  PROVE  /\ calls' \in [Cmds -> CallState]
         /\ \A c \in Cmds : calls'[c].got \in {calls[c].got, "error"}
  BY DEF Rejects, Settles, CallState

LEMMA SendsType ==
  ASSUME calls \in [Cmds -> CallState], NEW q, Sends(q)
  PROVE  /\ calls' \in [Cmds -> CallState]
         /\ \A c \in Cmds : calls'[c].got = calls[c].got
  BY DEF Sends, CallState

\* What onSocketFailure does.
LEMMA FailureType ==
  ASSUME TypeOK, NEW q \in Seq(Cmds \cup Hello), Failure(q)
  PROVE  /\ calls' \in [Cmds -> CallState] /\ waiters' \in Seq(Cmds)
         /\ opening' \in [on: Socks \cup {None}, todo: Seq(Hello)]
         /\ \A c \in Cmds : calls'[c].got \in {calls[c].got, "error"}
         /\ socket' = None /\ pending' = <<>> /\ pending' \in Seq(Cmds \cup Hello)
         /\ \/ opening' = opening
            \/ \E i \in 1..Len(q) : q[i] \in Hello
<1>1. calls \in [Cmds -> CallState] /\ waiters \in Seq(Cmds)
      /\ opening \in [on: Socks \cup {None}, todo: Seq(Hello)]
  BY DEF TypeOK, CallState
<1>2. socket' = None /\ pending' = <<>> /\ pending' \in Seq(Cmds \cup Hello)
  BY DEF Failure
<1>3. CASE ToSet(q) \cap Hello = {} /\ Rejects(Calls(q)) /\ UNCHANGED <<waiters, opening>>
  BY <1>1, <1>2, <1>3, RejectsType
<1>4. CASE /\ ToSet(q) \cap Hello # {}
           /\ Rejects(Calls(q \o waiters)) /\ waiters' = <<>> /\ opening' = NotOpening
  <2>1. \E i \in 1..Len(q) : q[i] \in Hello
    BY <1>4 DEF ToSet
  <2>2. NotOpening \in [on: Socks \cup {None}, todo: Seq(Hello)]
    BY DEF NotOpening
  <2>. QED BY <1>1, <1>2, <1>4, <2>1, <2>2, RejectsType
<1>. QED BY <1>3, <1>4 DEF Failure

LEMMA NoConnectionType ==
  ASSUME TypeOK, NoConnection
  PROVE  /\ calls' \in [Cmds -> CallState] /\ waiters' \in Seq(Cmds)
         /\ opening' \in [on: Socks \cup {None}, todo: Seq(Hello)] /\ opening' = NotOpening
         /\ \A c \in Cmds : calls'[c].got \in {calls[c].got, "error"}
<1>1. calls \in [Cmds -> CallState]
  BY DEF TypeOK, CallState
<1>. QED BY <1>1, RejectsType DEF NoConnection, NotOpening

\* What open() writes next: it goes behind the queue and what is in flight.
LEMMA GoesOnType ==
  ASSUME TypeOK, NEW s \in Socks, NEW rest \in Seq(Hello),
         NEW p \in Seq(Cmds \cup Hello), NEW f \in [Socks -> Seq(Cmds \cup Hello)],
         GoesOn(s, rest, p, f)
  PROVE  /\ calls' \in [Cmds -> CallState] /\ waiters' \in Seq(Cmds)
         /\ opening' \in [on: Socks \cup {None}, todo: Seq(Hello)]
         /\ \A c \in Cmds : calls'[c].got = calls[c].got
         /\ pending' \in Seq(Cmds \cup Hello) /\ flight' \in [Socks -> Seq(Cmds \cup Hello)]
         /\ \E q \in Seq(Cmds \cup Hello) :
               /\ pending' = p \o q /\ flight' = [f EXCEPT ![s] = @ \o q]
               /\ \/ q \in Seq(Cmds) /\ opening' = NotOpening
                  \/ Len(q) = 1 /\ opening' = [on |-> s, todo |-> rest] /\ rest # <<>>
<1>1. calls \in [Cmds -> CallState] /\ waiters \in Seq(Cmds)
  BY DEF TypeOK, CallState
<1>2. CASE rest # <<>>
  <2>1. <<Head(rest)>> \in Seq(Cmds \cup Hello) /\ Len(<<Head(rest)>>) = 1
    BY <1>2
  <2>2. /\ pending' = p \o <<Head(rest)>> /\ flight' = [f EXCEPT ![s] = @ \o <<Head(rest)>>]
        /\ opening' = [on |-> s, todo |-> rest] /\ calls' = calls /\ waiters' = waiters
    BY <1>2 DEF GoesOn, Written
  <2>3. opening' \in [on: Socks \cup {None}, todo: Seq(Hello)]
    BY <2>2
  <2>4. calls' \in [Cmds -> CallState] /\ waiters' \in Seq(Cmds) /\ calls' = calls
    BY <1>1, <2>2
  <2>5. \E q \in Seq(Cmds \cup Hello) :
           /\ pending' = p \o q /\ flight' = [f EXCEPT ![s] = @ \o q]
           /\ Len(q) = 1 /\ opening' = [on |-> s, todo |-> rest] /\ rest # <<>>
    BY <1>2, <2>1, <2>2, Zenon
  <2>6. pending' \in Seq(Cmds \cup Hello) /\ flight' \in [Socks -> Seq(Cmds \cup Hello)]
    BY <2>1, <2>2
  <2>7. \A c \in Cmds : calls'[c].got = calls[c].got
    BY <2>4
  <2>. QED BY <2>3, <2>4, <2>5, <2>6, <2>7, Zenon
<1>3. CASE rest = <<>>
  <2>1. /\ pending' = p \o waiters /\ flight' = [f EXCEPT ![s] = @ \o waiters]
        /\ Sends(waiters) /\ opening' = NotOpening /\ waiters' = <<>>
    BY <1>3 DEF GoesOn, Written
  <2>2. waiters \in Seq(Cmds \cup Hello)
    BY <1>1
  <2>3. opening' \in [on: Socks \cup {None}, todo: Seq(Hello)] /\ waiters' \in Seq(Cmds)
    BY <2>1 DEF NotOpening
  <2>4. /\ calls' \in [Cmds -> CallState]
        /\ \A c \in Cmds : calls'[c].got = calls[c].got
    BY <1>1, <2>1, SendsType
  <2>5. \E q \in Seq(Cmds \cup Hello) :
           /\ pending' = p \o q /\ flight' = [f EXCEPT ![s] = @ \o q]
           /\ q \in Seq(Cmds) /\ opening' = NotOpening
    BY <1>1, <2>1, <2>2, Zenon
  <2>6. pending' \in Seq(Cmds \cup Hello) /\ flight' \in [Socks -> Seq(Cmds \cup Hello)]
    BY <2>1, <2>2
  <2>. QED BY <2>3, <2>4, <2>5, <2>6, Zenon
<1>. QED BY <1>2, <1>3

LEMMA HelloType == hello \in Hellos => hello \in Seq(Hello)
<1>1. <<>> \in Seq(Hello) /\ <<"auth">> \in Seq(Hello) /\ <<"select">> \in Seq(Hello)
  BY DEF Hello
<1>2. <<"auth", "select">> \in Seq(Hello)
  BY DEF Hello
<1>. QED BY <1>1, <1>2, RedisAssumption

LEMMA InitType == Init => TypeOK
<1>. SUFFICES ASSUME Init PROVE TypeOK
  OBVIOUS
<1>1. hello \in Hellos /\ closed = FALSE /\ socket \in Socks \cup {None}
  BY DEF Init
<1>2. calls \in [Cmds -> CallState]
  BY DEF Init, CallState
<1>3. /\ waiters \in Seq(Cmds) /\ pending \in Seq(Cmds \cup Hello)
      /\ opening \in [on: Socks \cup {None}, todo: Seq(Hello)]
  BY DEF Init, NotOpening
<1>4. sock \in [Socks -> SockStates] /\ flight \in [Socks -> Seq(Cmds \cup Hello)]
  BY DEF Init, SockStates
<1>5. chosen \in [Socks -> BOOLEAN]
  BY DEF Init
<1>. QED BY <1>1, <1>2, <1>3, <1>4, <1>5 DEF TypeOK, CallState

LEMMA CommandType == ASSUME TypeOK, NEW c \in Cmds, Command(c) PROVE TypeOK'
<1>. USE DEF TypeOK
<1>0. UNCHANGED <<hello, closed, chosen>> /\ calls \in [Cmds -> CallState]
  BY DEF Command, CallState
<1>1. CASE closed
  BY <1>0, <1>1, RejectsType DEF Command, CallState
<1>2. CASE ~closed /\ Usable /\ sock[socket] = "open"
  <2>1. Written(socket, <<c>>, pending, flight) /\ Sends(<<c>>)
        /\ UNCHANGED <<waiters, opening, socket, sock>>
    BY <1>2 DEF Command
  <2>2. calls' \in [Cmds -> CallState]
    BY <1>0, <2>1, SendsType
  <2>3. pending' \in Seq(Cmds \cup Hello) /\ flight' \in [Socks -> Seq(Cmds \cup Hello)]
    BY <1>2, <2>1 DEF Written, Usable
  <2>. QED BY <1>0, <2>1, <2>2, <2>3 DEF CallState
<1>3. CASE ~closed /\ Usable /\ sock[socket] = "ended"
  <2>1. /\ Failure(Append(pending, c)) /\ Append(pending, c) \in Seq(Cmds \cup Hello)
        /\ sock' = [sock EXCEPT ![socket] = "closing"] /\ UNCHANGED flight
    BY <1>3 DEF Command
  <2>2. /\ calls' \in [Cmds -> CallState] /\ waiters' \in Seq(Cmds)
        /\ opening' \in [on: Socks \cup {None}, todo: Seq(Hello)]
        /\ socket' = None /\ pending' \in Seq(Cmds \cup Hello)
    <3>. HIDE DEF TypeOK
    <3>. QED BY <2>1, FailureType
  <2>. QED BY <1>0, <2>1, <2>2 DEF CallState, SockStates
<1>4. CASE ~closed /\ ~Usable
  <2>1. PICK s \in Socks : Opens(s)
    BY <1>4 DEF Command
  <2>2. /\ opening' \in [on: Socks \cup {None}, todo: Seq(Hello)]
        /\ sock' \in [Socks -> SockStates]
    <3>1. CASE /\ sock' = [sock EXCEPT ![s] = "connecting"]
               /\ opening' = [on |-> s, todo |-> hello]
      BY <3>1, HelloType DEF SockStates
    <3>. QED BY <2>1, <3>1 DEF Opens
  <2>3. /\ waiters' = Append(waiters, c) /\ calls' = [calls EXCEPT ![c].at = "wait"]
        /\ UNCHANGED <<socket, pending, flight>>
    BY <1>4 DEF Command
  <2>4. calls' \in [Cmds -> CallState]
    BY <1>0, <2>3 DEF CallState
  <2>. QED BY <1>0, <2>2, <2>3, <2>4 DEF CallState
<1>. QED BY <1>1, <1>2, <1>3, <1>4 DEF Command

LEMMA OpenedType ==
  ASSUME TypeOK, OneHello, NEW s \in Socks, NEW ok \in BOOLEAN, Opened(s, ok) PROVE TypeOK'
<1>. USE DEF TypeOK
<1>1. /\ Tail(pending) \in Seq(Cmds \cup Hello) /\ opening.todo # <<>>
      /\ Answered(s) \in [Socks -> Seq(Cmds \cup Hello)]
      /\ UNCHANGED <<hello, closed>>
  <2>1. /\ pending # <<>> /\ flight[s] # <<>> /\ Head(pending) = pending[1] /\ pending[1] \in Hello
        /\ 1 \in 1..Len(pending)
    BY DEF Opened, Answers
  <2>2. opening.todo # <<>>
    BY <2>1 DEF OneHello
  <2>3. Answered(s) \in [Socks -> Seq(Cmds \cup Hello)]
    BY <2>1 DEF Answered
  <2>. QED BY <2>1, <2>2, <2>3 DEF Opened
<1>2. Tail(opening.todo) \in Seq(Hello)
  BY <1>1
<1>3. chosen' \in [Socks -> BOOLEAN]
  BY DEF Opened, Ran
<1>4. CASE GoesOn(s, Tail(opening.todo), Tail(pending), Answered(s)) /\ UNCHANGED <<socket, sock>>
  <2>1. /\ calls' \in [Cmds -> CallState] /\ waiters' \in Seq(Cmds)
        /\ opening' \in [on: Socks \cup {None}, todo: Seq(Hello)]
        /\ pending' \in Seq(Cmds \cup Hello) /\ flight' \in [Socks -> Seq(Cmds \cup Hello)]
    <3>. HIDE DEF TypeOK
    <3>. QED BY <1>1, <1>2, <1>4, GoesOnType
  <2>. QED BY <1>1, <1>3, <1>4, <2>1 DEF CallState
<1>5. CASE /\ NoConnection /\ pending' = Tail(pending) /\ flight' = Answered(s) /\ socket' = None
           /\ sock' \in {sock, [sock EXCEPT ![s] = "closing"]}
  BY <1>1, <1>3, <1>5, NoConnectionType DEF CallState, SockStates
<1>. QED BY <1>4, <1>5 DEF Opened

LEMMA ConnectedType == ASSUME TypeOK, NEW s \in Socks, Connected(s) PROVE TypeOK'
<1>. USE DEF TypeOK
<1>1. /\ sock' \in [Socks -> SockStates] /\ socket' = s /\ UNCHANGED <<hello, closed>>
      /\ GoesOn(s, hello, pending, flight)
  BY DEF Connected, SockStates
<1>2. chosen' \in [Socks -> BOOLEAN]
  BY DEF Connected
<1>3. /\ calls' \in [Cmds -> CallState] /\ waiters' \in Seq(Cmds)
      /\ opening' \in [on: Socks \cup {None}, todo: Seq(Hello)]
      /\ pending' \in Seq(Cmds \cup Hello) /\ flight' \in [Socks -> Seq(Cmds \cup Hello)]
  <2>1. hello \in Seq(Hello) /\ pending \in Seq(Cmds \cup Hello)
        /\ flight \in [Socks -> Seq(Cmds \cup Hello)]
    BY HelloType
  <2>. HIDE DEF TypeOK
  <2>. QED BY <1>1, <2>1, GoesOnType
<1>. QED BY <1>1, <1>2, <1>3 DEF CallState

LEMMA ReplyType ==
  ASSUME TypeOK, NEW s \in Socks, NEW ok \in BOOLEAN, Reply(s, ok) PROVE TypeOK'
<1>. USE DEF TypeOK
<1>1. /\ pending # <<>> /\ flight[s] # <<>> /\ Head(pending) \in Cmds
      /\ pending' = Tail(pending) /\ flight' = Answered(s)
      /\ UNCHANGED <<hello, waiters, opening, socket, closed, sock>>
  BY DEF Reply, Answers
<1>2. flight' \in [Socks -> Seq(Cmds \cup Hello)]
  BY <1>1 DEF Answered
<1>3. chosen' \in [Socks -> BOOLEAN]
  BY DEF Reply, Ran
<1>4. [at |-> "done", got |-> IF ok THEN Head(flight[s]) ELSE "error", here |-> chosen[s]] \in CallState
  BY <1>1 DEF CallState
<1>5. calls' \in [Cmds -> CallState]
  BY <1>1, <1>4 DEF Reply, CallState
<1>. QED BY <1>1, <1>2, <1>3, <1>5 DEF CallState

LEMMA StepType == TypeOK /\ OneHello /\ [Next]_vars => TypeOK'
<1>. SUFFICES ASSUME TypeOK, OneHello, [Next]_vars PROVE TypeOK'
  OBVIOUS
<1>1. ASSUME NEW s \in Socks, ConnectFails(s) PROVE TypeOK'
  BY <1>1, NoConnectionType DEF ConnectFails, TypeOK, CallState, SockStates
<1>2. ASSUME NEW s \in Socks, Fails(s) \/ Closes(s) PROVE TypeOK'
  <2>1. /\ Failure(pending) /\ pending \in Seq(Cmds \cup Hello)
        /\ sock' \in [Socks -> SockStates] /\ UNCHANGED <<hello, closed, flight, chosen>>
    BY <1>2 DEF Fails, Closes, TypeOK, SockStates
  <2>. QED BY <2>1, FailureType DEF TypeOK, CallState
<1>3. ASSUME NEW s \in Socks, ServerEnds(s) PROVE TypeOK'
  BY <1>3 DEF ServerEnds, TypeOK, SockStates
<1>4. CASE Close
  <2>1. /\ closed' = TRUE /\ socket' = None /\ sock' \in [Socks -> SockStates]
        /\ UNCHANGED <<hello, calls, waiters, opening, pending, flight, chosen>>
    BY <1>4 DEF Close, TypeOK, SockStates
  <2>. QED BY <2>1 DEF TypeOK
<1>5. CASE UNCHANGED vars
  BY <1>5 DEF vars, TypeOK
<1>. QED
  BY <1>1, <1>2, <1>3, <1>4, <1>5, CommandType, OpenedType, ConnectedType, ReplyType
     DEF Next, TimesOut

-----------------------------------------------------------------------------
(* One socket answers, and the queue mirrors it                            *)

LEMMA InitInv == Init => Inv
<1>. SUFFICES ASSUME Init PROVE Inv
  OBVIOUS
<1>1. /\ socket = None /\ pending = <<>> /\ sock = [s \in Socks |-> "none"]
      /\ flight = [s \in Socks |-> <<>>] /\ \A c \in Cmds : calls[c].got = "none"
  BY DEF Init
<1>. QED BY <1>1 DEF Inv, SocketInUse, OneCurrent, Mirror, OneHello, RepliesMatch, Current, Live

\* Rejecting calls does not disturb what was answered.
LEMMA KeepsReplies ==
  ASSUME RepliesMatch, \A c \in Cmds : calls'[c].got \in {calls[c].got, "error"}
  PROVE  RepliesMatch'
  BY DEF RepliesMatch

\* A call has no name of open()'s commands.
LEMMA NotHello == \A c \in Cmds : c \notin Hello
  BY RedisAssumption DEF Hello

\* The failure of a socket, s, and of what is pending with it.
LEMMA FailureInv ==
  ASSUME TypeOK, Inv, NEW q \in Seq(Cmds \cup Hello), Failure(q), NEW s \in Socks,
         Live(s) \/ sock[s] = "closing",
         NEW to \in {"closing", "dead"}, sock' = [sock EXCEPT ![s] = to],
         flight' = flight, closed' = closed,
         \A i \in 1..Len(q) : q[i] \in Hello => i \in 1..Len(pending) /\ pending[i] = q[i]
  PROVE  Inv'
<1>1. /\ socket' = None /\ pending' = <<>>
      /\ \A c \in Cmds : calls'[c].got \in {calls[c].got, "error"}
      /\ opening' = opening \/ \E i \in 1..Len(q) : q[i] \in Hello
  BY FailureType
<1>2. RepliesMatch'
  BY <1>1, KeepsReplies DEF Inv
<1>3. /\ sock'[s] = to /\ ~Live(s)'
      /\ \A t \in Socks : t # s => sock'[t] = sock[t] /\ (Live(t)' <=> Live(t)) /\ ~Live(t)
  BY DEF TypeOK, Inv, OneCurrent, Current, Live
<1>4. \A t \in Socks : ~Live(t)'
  BY <1>3
<1>5. SocketInUse'
  BY <1>1, <1>4 DEF SocketInUse, Live
<1>6. ASSUME NEW t \in Socks, sock'[t] = "connecting" PROVE opening'.on = t
  <2>1. sock[t] = "connecting" /\ opening.on = t /\ ~Live(t)
    BY <1>3, <1>6 DEF Inv, OneCurrent, Live
  <2>2. \A i \in 1..Len(q) : q[i] \notin Hello
    BY <2>1 DEF Inv, OneHello
  <2>. QED BY <1>1, <2>1, <2>2
<1>7. OneCurrent'
  BY <1>3, <1>4, <1>6 DEF Inv, OneCurrent, Current
<1>8. Mirror'
  BY <1>1, <1>3, <1>4 DEF Inv, Mirror
<1>9. OneHello'
  BY <1>1 DEF OneHello
<1>. QED BY <1>2, <1>5, <1>7, <1>8, <1>9 DEF Inv

LEMMA CommandInv == ASSUME TypeOK, Inv, NEW c \in Cmds, Command(c) PROVE Inv'
<1>0. closed' = closed /\ calls \in [Cmds -> CallState]
  BY DEF Command, TypeOK, CallState
<1>1. CASE closed
  <2>1. UNCHANGED <<opening, socket, pending, sock, flight>> /\ Rejects({c})
    BY <1>1 DEF Command
  <2>2. RepliesMatch'
    BY <1>0, <2>1, RejectsType, KeepsReplies DEF Inv
  <2>. QED BY <1>0, <2>1, <2>2
           DEF Inv, SocketInUse, OneCurrent, Mirror, OneHello, Current, Live
<1>2. CASE ~closed /\ Usable /\ sock[socket] = "open"
  <2>1. /\ pending' = pending \o <<c>> /\ flight' = [flight EXCEPT ![socket] = @ \o <<c>>]
        /\ Sends(<<c>>) /\ UNCHANGED <<opening, socket, sock>>
    BY <1>2 DEF Command, Written
  <2>2. RepliesMatch'
    BY <1>0, <2>1, SendsType, KeepsReplies DEF Inv
  <2>3. socket \in Socks /\ Live(socket) /\ \A t \in Socks : Current(t) => t = socket
    BY <1>2 DEF Usable, TypeOK, Live, Inv, OneCurrent, Current
  <2>4. SocketInUse' /\ OneCurrent'
    BY <1>0, <2>1 DEF Inv, SocketInUse, OneCurrent, Current, Live
  <2>5. Mirror'
    BY <2>1, <2>3 DEF Inv, Mirror, Current, Live, TypeOK
  <2>6. \A i \in 1..Len(pending') : pending'[i] \in Hello =>
            i \in 1..Len(pending) /\ pending'[i] = pending[i]
    <3>1. pending \in Seq(Cmds \cup Hello) /\ c \notin Hello
      BY NotHello DEF TypeOK
    <3>2. ASSUME NEW i \in 1..Len(pending'), i \notin 1..Len(pending) PROVE pending'[i] = c
      BY <2>1, <3>1, <3>2
    <3>3. ASSUME NEW i \in 1..Len(pending) PROVE pending'[i] = pending[i]
      BY <2>1, <3>1, <3>3
    <3>. QED BY <3>1, <3>2, <3>3
  <2>7. OneHello'
    BY <2>1, <2>6 DEF Inv, OneHello, Live
  <2>. QED BY <2>2, <2>4, <2>5, <2>7 DEF Inv
<1>3. CASE ~closed /\ Usable /\ sock[socket] = "ended"
  <2>1. /\ Failure(Append(pending, c)) /\ Append(pending, c) \in Seq(Cmds \cup Hello)
        /\ sock' = [sock EXCEPT ![socket] = "closing"] /\ flight' = flight
        /\ socket \in Socks /\ Live(socket)
    BY <1>3 DEF Command, TypeOK, Usable, Live
  <2>2. ASSUME NEW i \in 1..Len(Append(pending, c)), Append(pending, c)[i] \in Hello
        PROVE  i \in 1..Len(pending) /\ pending[i] = Append(pending, c)[i]
    BY <2>2, NotHello DEF TypeOK
  <2>. QED BY <1>0, <2>1, <2>2, FailureInv
<1>4. CASE ~closed /\ ~Usable
  <2>1. /\ \E s \in Socks : Opens(s)
        /\ calls' = [calls EXCEPT ![c].at = "wait"] /\ UNCHANGED <<socket, pending, flight>>
    BY <1>4 DEF Command
  <2>2. RepliesMatch'
    BY <1>0, <2>1, KeepsReplies DEF Inv, CallState
  <2>3. \A t \in Socks : ~Live(t)
    BY <1>4, RedisAssumption DEF Usable, Inv, SocketInUse, Live
  <2>4. CASE UNCHANGED <<sock, opening>>
    BY <1>0, <2>1, <2>2, <2>4
       DEF Inv, SocketInUse, OneCurrent, Mirror, OneHello, Current, Live
  <2>5. ASSUME NEW s \in Socks, sock[s] = "none", opening = NotOpening,
               sock' = [sock EXCEPT ![s] = "connecting"], opening' = [on |-> s, todo |-> hello]
        PROVE  Inv'
    <3>1. \A t \in Socks : ~Current(t)
      BY <2>3, <2>5, RedisAssumption DEF Inv, OneCurrent, Current, NotOpening
    <3>2. /\ sock'[s] = "connecting" /\ \A t \in Socks : ~Live(t)'
          /\ \A t \in Socks : t # s => sock'[t] = sock[t]
      BY <2>3, <2>5 DEF TypeOK, Live
    <3>3. SocketInUse'
      BY <1>4, <2>1, <3>2 DEF Inv, SocketInUse, Usable, Live
    <3>4. OneCurrent'
      BY <2>5, <3>1, <3>2 DEF OneCurrent, Current
    <3>5. Mirror'
      BY <2>1, <2>3, <2>5, <3>2 DEF Inv, Mirror
    <3>6. OneHello'
      BY <2>1, <2>3 DEF Inv, OneHello
    <3>. QED BY <2>2, <3>3, <3>4, <3>5, <3>6 DEF Inv
  <2>. QED BY <2>1, <2>4, <2>5 DEF Opens
<1>. QED BY <1>1, <1>2, <1>3, <1>4 DEF Command

LEMMA CloseInv == ASSUME TypeOK, Inv, Close PROVE Inv'
<1>1. /\ closed' = TRUE /\ socket' = None /\ UNCHANGED <<calls, opening, pending, flight>>
      /\ \/ sock' = sock
         \/ socket \in Socks /\ Live(socket) /\ sock' = [sock EXCEPT ![socket] = "ending"]
  BY DEF Close, TypeOK, Inv, SocketInUse, Live
<1>2. \A s \in Socks : /\ (Live(s)' <=> Live(s)) /\ (Current(s)' <=> Current(s))
                       /\ sock'[s] # sock[s] => Live(s) /\ Live(s)'
  BY <1>1 DEF TypeOK, Live, Current
<1>3. SocketInUse'
  BY <1>1 DEF SocketInUse
<1>4. OneCurrent'
  BY <1>1, <1>2 DEF Inv, OneCurrent, Live
<1>5. Mirror'
  BY <1>1, <1>2 DEF Inv, Mirror, Live
<1>6. OneHello' /\ RepliesMatch'
  BY <1>1, <1>2 DEF Inv, OneHello, RepliesMatch
<1>. QED BY <1>3, <1>4, <1>5, <1>6 DEF Inv

LEMMA ServerEndsInv == ASSUME TypeOK, Inv, NEW s \in Socks, ServerEnds(s) PROVE Inv'
<1>1. /\ sock[s] = "open" /\ sock' = [sock EXCEPT ![s] = "ended"]
      /\ UNCHANGED <<calls, opening, socket, pending, closed, flight>>
  BY DEF ServerEnds
<1>2. /\ sock'[s] = "ended"
      /\ \A t \in Socks : /\ (Live(t)' <=> Live(t)) /\ (Current(t)' <=> Current(t))
                         /\ t # s => sock'[t] = sock[t]
  BY <1>1 DEF TypeOK, Live, Current
<1>3. SocketInUse'
  BY <1>1, <1>2 DEF Inv, SocketInUse, TypeOK
<1>4. OneCurrent'
  <2>1. \A t, u \in Socks : Current(t)' /\ Current(u)' => t = u
    BY <1>1, <1>2 DEF Inv, OneCurrent, Current, Live
  <2>2. \A t, u \in Socks : sock'[t] = "closing" => ~Live(u)'
    BY <1>1, <1>2 DEF Inv, OneCurrent, Live
  <2>3. \A t \in Socks : sock'[t] = "connecting" => opening'.on = t
    BY <1>1, <1>2 DEF Inv, OneCurrent
  <2>. QED BY <2>1, <2>2, <2>3, Zenon DEF OneCurrent
<1>5. Mirror'
  BY <1>1, <1>2 DEF Inv, Mirror, Live
<1>6. OneHello' /\ RepliesMatch'
  BY <1>1, <1>2 DEF Inv, OneHello, RepliesMatch, Live
<1>. QED BY <1>3, <1>4, <1>5, <1>6 DEF Inv

LEMMA ConnectFailsInv == ASSUME TypeOK, Inv, NEW s \in Socks, ConnectFails(s) PROVE Inv'
<1>1. /\ sock[s] = "connecting" /\ sock' = [sock EXCEPT ![s] = "dead"] /\ NoConnection
      /\ UNCHANGED <<socket, pending, closed, flight>>
  BY DEF ConnectFails
<1>2. /\ opening.on = s /\ \A t \in Socks : Current(t) => t = s
      /\ \A t \in Socks : ~Live(t)
  BY <1>1 DEF Inv, OneCurrent, Current, Live
<1>3. /\ sock'[s] = "dead" /\ \A t \in Socks : t # s => sock'[t] = sock[t]
      /\ \A t \in Socks : ~Current(t)' /\ ~Live(t)'
  BY <1>1, <1>2 DEF TypeOK, Current, Live
<1>4. RepliesMatch'
  BY <1>1, NoConnectionType, KeepsReplies DEF Inv
<1>5. SocketInUse'
  BY <1>1, <1>2, <1>3, RedisAssumption DEF Inv, SocketInUse, Live, TypeOK
<1>6. OneCurrent'
  BY <1>3 DEF OneCurrent, Current
<1>7. Mirror'
  BY <1>1, <1>2, <1>3 DEF Inv, Mirror
<1>8. OneHello'
  BY <1>1, <1>2 DEF Inv, OneHello
<1>. QED BY <1>4, <1>5, <1>6, <1>7, <1>8 DEF Inv

LEMMA ConnectedInv == ASSUME TypeOK, Inv, NEW s \in Socks, Connected(s) PROVE Inv'
<1>1. /\ sock[s] = "connecting" /\ \A t \in Socks : sock[t] # "closing"
      /\ sock' = [sock EXCEPT ![s] = "open"] /\ socket' = s /\ closed' = closed
      /\ GoesOn(s, hello, pending, flight)
  BY DEF Connected
<1>2. pending = <<>> /\ flight[s] = <<>> /\ \A t \in Socks : Current(t) => t = s
  BY <1>1 DEF Inv, OneCurrent, Mirror, Current, Live
<1>3. /\ hello \in Seq(Hello) /\ pending \in Seq(Cmds \cup Hello)
      /\ flight \in [Socks -> Seq(Cmds \cup Hello)]
  BY HelloType DEF TypeOK
<1>4. /\ \A c \in Cmds : calls'[c].got = calls[c].got
      /\ \E q \in Seq(Cmds \cup Hello) :
             /\ pending' = pending \o q /\ flight' = [flight EXCEPT ![s] = @ \o q]
             /\ \/ q \in Seq(Cmds) /\ opening' = NotOpening
                \/ Len(q) = 1 /\ opening' = [on |-> s, todo |-> hello] /\ hello # <<>>
  BY <1>1, <1>3, GoesOnType, Zenon
<1>5. PICK q \in Seq(Cmds \cup Hello) :
             /\ pending' = pending \o q /\ flight' = [flight EXCEPT ![s] = @ \o q]
             /\ \/ q \in Seq(Cmds) /\ opening' = NotOpening
                \/ Len(q) = 1 /\ opening' = [on |-> s, todo |-> hello] /\ hello # <<>>
  BY <1>4, Zenon
<1>6. pending' = q /\ flight'[s] = q /\ \A t \in Socks : t # s => flight'[t] = flight[t]
  BY <1>2, <1>3, <1>5
<1>7. /\ sock'[s] = "open" /\ \A t \in Socks : t # s => sock'[t] = sock[t] /\ ~Current(t)'
      /\ Live(s)'
  BY <1>1, <1>2 DEF TypeOK, Current, Live
<1>8. RepliesMatch'
  BY <1>4, KeepsReplies DEF Inv
<1>9. SocketInUse'
  BY <1>1, <1>7 DEF SocketInUse, Current, Live
<1>10. OneCurrent'
  BY <1>1, <1>7 DEF OneCurrent, Current, Live
<1>11. Mirror'
  BY <1>6, <1>7 DEF Inv, Mirror, Current
<1>12. OneHello'
  <2>1. CASE q \in Seq(Cmds)
    BY <1>6, <2>1, NotHello DEF OneHello
  <2>2. CASE Len(q) = 1 /\ opening' = [on |-> s, todo |-> hello] /\ hello # <<>>
    BY <1>6, <1>7, <2>2 DEF OneHello
  <2>. QED BY <1>5, <2>1, <2>2
<1>. QED BY <1>8, <1>9, <1>10, <1>11, <1>12 DEF Inv

\* What an answer on s leaves: the queue still mirrors s, whoever was answered.
LEMMA AnswerMirrors ==
  ASSUME TypeOK, Inv, NEW s \in Socks, Answers(s)
  PROVE  /\ Live(s) /\ flight[s] = pending /\ pending # <<>>
         /\ Answered(s) \in [Socks -> Seq(Cmds \cup Hello)] /\ Tail(pending) \in Seq(Cmds \cup Hello)
         /\ Answered(s)[s] = Tail(pending)
         /\ \A t \in Socks : t # s => Answered(s)[t] = flight[t] /\ ~Current(t) /\ sock[t] # "closing"
         /\ \A i \in 1..Len(Tail(pending)) :
               i + 1 \in 1..Len(pending) /\ Tail(pending)[i] = pending[i + 1]
         /\ 1 \in 1..Len(pending) /\ Head(pending) = pending[1]
<1>1. Live(s) /\ flight[s] = pending /\ pending # <<>> /\ pending \in Seq(Cmds \cup Hello)
  BY DEF Answers, Live, Inv, Mirror, TypeOK
<1>2. \A t \in Socks : t # s => ~Current(t) /\ sock[t] # "closing"
  BY <1>1 DEF Inv, OneCurrent, Current
<1>3. /\ Answered(s) \in [Socks -> Seq(Cmds \cup Hello)] /\ Answered(s)[s] = Tail(pending)
      /\ \A t \in Socks : t # s => Answered(s)[t] = flight[t]
  BY <1>1 DEF Answered, TypeOK
<1>4. /\ Tail(pending) \in Seq(Cmds \cup Hello)
      /\ \A i \in 1..Len(Tail(pending)) :
            i + 1 \in 1..Len(pending) /\ Tail(pending)[i] = pending[i + 1]
      /\ 1 \in 1..Len(pending) /\ Head(pending) = pending[1]
  BY <1>1
<1>. QED BY <1>1, <1>2, <1>3, <1>4

LEMMA ReplyInv ==
  ASSUME TypeOK, Inv, NEW s \in Socks, NEW ok \in BOOLEAN, Reply(s, ok) PROVE Inv'
<1>1. /\ Answers(s) /\ Head(pending) \in Cmds
      /\ pending' = Tail(pending) /\ flight' = Answered(s)
      /\ calls' = [calls EXCEPT ![Head(pending)] =
                       [at |-> "done", got |-> IF ok THEN Head(flight[s]) ELSE "error",
                        here |-> chosen[s]]]
      /\ UNCHANGED <<opening, socket, closed, sock>>
  BY DEF Reply
<1>2. RepliesMatch'
  BY <1>1, AnswerMirrors DEF Inv, RepliesMatch, TypeOK
<1>3. SocketInUse' /\ OneCurrent'
  BY <1>1 DEF Inv, SocketInUse, OneCurrent, Current, Live
<1>4. Mirror'
  BY <1>1, AnswerMirrors DEF Inv, Mirror, Live, Current
<1>5. OneHello'
  BY <1>1, AnswerMirrors DEF Inv, OneHello, Live
<1>. QED BY <1>2, <1>3, <1>4, <1>5 DEF Inv

LEMMA OpenedInv ==
  ASSUME TypeOK, Inv, NEW s \in Socks, NEW ok \in BOOLEAN, Opened(s, ok) PROVE Inv'
<1>. DEFINE rest == Tail(opening.todo)
<1>1. Answers(s) /\ Head(pending) \in Hello /\ closed' = closed
  BY DEF Opened
<1>2. /\ Live(s) /\ flight[s] = pending /\ pending # <<>>
      /\ Answered(s) \in [Socks -> Seq(Cmds \cup Hello)] /\ Tail(pending) \in Seq(Cmds \cup Hello)
      /\ Answered(s)[s] = Tail(pending)
      /\ \A t \in Socks : t # s => Answered(s)[t] = flight[t] /\ ~Current(t) /\ sock[t] # "closing"
      /\ \A i \in 1..Len(Tail(pending)) :
            i + 1 \in 1..Len(pending) /\ Tail(pending)[i] = pending[i + 1]
      /\ 1 \in 1..Len(pending) /\ pending[1] \in Hello
  BY <1>1, AnswerMirrors
<1>3. \A i \in 1..Len(Tail(pending)) : Tail(pending)[i] \notin Hello
  <2>. SUFFICES ASSUME NEW i \in 1..Len(Tail(pending)), Tail(pending)[i] \in Hello PROVE FALSE
    OBVIOUS
  <2>1. i + 1 \in 1..Len(pending) /\ pending[i + 1] \in Hello
    BY <1>2
  <2>2. i + 1 = 1
    BY <1>2, <2>1 DEF Inv, OneHello
  <2>. QED BY <2>2
<1>4. rest \in Seq(Hello)
  BY <1>2 DEF TypeOK, Inv, OneHello
<1>5. CASE /\ socket = s /\ GoesOn(s, rest, Tail(pending), Answered(s))
           /\ UNCHANGED <<socket, sock>>
  <2>. HIDE DEF rest
  <2>1. /\ \A c \in Cmds : calls'[c].got = calls[c].got
        /\ \E q \in Seq(Cmds \cup Hello) :
             /\ pending' = Tail(pending) \o q /\ flight' = [Answered(s) EXCEPT ![s] = @ \o q]
             /\ \/ q \in Seq(Cmds) /\ opening' = NotOpening
                \/ Len(q) = 1 /\ opening' = [on |-> s, todo |-> rest] /\ rest # <<>>
    BY <1>2, <1>4, <1>5, GoesOnType, Zenon
  <2>2. PICK q \in Seq(Cmds \cup Hello) :
             /\ pending' = Tail(pending) \o q /\ flight' = [Answered(s) EXCEPT ![s] = @ \o q]
             /\ \/ q \in Seq(Cmds) /\ opening' = NotOpening
                \/ Len(q) = 1 /\ opening' = [on |-> s, todo |-> rest] /\ rest # <<>>
    BY <2>1, Zenon
  <2>3. flight'[s] = pending' /\ \A t \in Socks : t # s => flight'[t] = flight[t]
    BY <1>2, <2>2
  <2>4. \A i \in 1..Len(pending') :
            \/ i \in 1..Len(Tail(pending)) /\ pending'[i] = Tail(pending)[i]
            \/ i - Len(Tail(pending)) \in 1..Len(q) /\ pending'[i] = q[i - Len(Tail(pending))]
    BY <1>2, <2>2
  <2>5. OneHello'
    <3>1. CASE q \in Seq(Cmds)
      <4>1. \A j \in 1..Len(q) : q[j] \notin Hello
        BY <3>1, NotHello
      <4>2. \A i \in 1..Len(pending') : pending'[i] \notin Hello
        BY <1>3, <2>4, <4>1
      <4>. QED BY <4>2 DEF OneHello
    <3>2. CASE Len(q) = 1 /\ opening' = [on |-> s, todo |-> rest] /\ rest # <<>>
      <4>1. \A i \in 1..Len(pending') : pending'[i] \in Hello => i = Len(Tail(pending)) + 1
        <5>1. Len(Tail(pending)) \in Nat
          BY <1>2
        <5>. QED BY <1>3, <2>4, <3>2, <5>1
      <4>2. opening'.on = s /\ opening'.todo # <<>> /\ Live(s)'
        BY <1>2, <1>5, <3>2 DEF Live
      <4>. QED BY <4>1, <4>2 DEF OneHello
    <3>. QED BY <2>2, <3>1, <3>2
  <2>6. SocketInUse' /\ RepliesMatch'
    BY <1>1, <1>5, <2>1, KeepsReplies DEF Inv, SocketInUse
  <2>7. OneCurrent'
    BY <1>2, <1>5 DEF Inv, OneCurrent, Current, Live
  <2>8. Mirror'
    BY <1>2, <1>5, <2>3 DEF Inv, Mirror, Live, Current
  <2>. QED BY <2>5, <2>6, <2>7, <2>8 DEF Inv
<1>6. CASE /\ ~ok \/ socket # s
           /\ NoConnection /\ pending' = Tail(pending) /\ flight' = Answered(s) /\ socket' = None
           /\ \/ ok /\ sock' = sock
              \/ sock' = [sock EXCEPT ![s] = "closing"]
  <2>1. RepliesMatch'
    BY <1>6, NoConnectionType, KeepsReplies DEF Inv
  <2>2. /\ sock'[s] \in {sock[s], "closing"} /\ \A t \in Socks : t # s => sock'[t] = sock[t]
        /\ Live(s)' \/ sock'[s] = "closing"
    BY <1>2, <1>6 DEF TypeOK, Live
  <2>3. SocketInUse'
    <3>1. ASSUME NEW t \in Socks, sock'[t] \in {"open", "ended"} PROVE closed'
      <4>1. t = s /\ sock' = sock
        BY <1>2, <1>6, <2>2, <3>1 DEF Current, Live, TypeOK
      <4>2. socket # s /\ closed
        BY <1>6, <3>1, <4>1, <1>2 DEF Inv, SocketInUse, TypeOK
      <4>. QED BY <1>1, <4>2
    <3>. QED BY <1>1, <1>6, <2>2, <3>1 DEF Inv, SocketInUse
  <2>4. OneCurrent'
    BY <1>2, <2>2 DEF OneCurrent, Current, Live
  <2>5. Mirror'
    BY <1>2, <1>6, <2>2 DEF Inv, Mirror, Current, Live
  <2>6. OneHello'
    BY <1>3, <1>6 DEF OneHello
  <2>. QED BY <2>1, <2>3, <2>4, <2>5, <2>6 DEF Inv
<1>. QED BY <1>5, <1>6 DEF Opened

LEMMA InvStep == TypeOK /\ Inv /\ [Next]_vars => Inv'
<1>. SUFFICES ASSUME TypeOK, Inv, [Next]_vars PROVE Inv'
  OBVIOUS
<1>1. ASSUME NEW s \in Socks, Fails(s) \/ Closes(s) PROVE Inv'
  <2>1. /\ Failure(pending) /\ pending \in Seq(Cmds \cup Hello)
        /\ Live(s) \/ sock[s] = "closing"
        /\ flight' = flight /\ closed' = closed
    BY <1>1 DEF Fails, Closes, TypeOK, Live
  <2>2. PICK to \in {"closing", "dead"} : sock' = [sock EXCEPT ![s] = to]
    BY <1>1 DEF Fails, Closes
  <2>. QED BY <2>1, <2>2, FailureInv
<1>2. CASE UNCHANGED vars
  BY <1>2 DEF vars, Inv, SocketInUse, OneCurrent, Mirror, OneHello, RepliesMatch, Current, Live
<1>. QED
  BY <1>1, <1>2, CommandInv, CloseInv, ConnectedInv, ConnectFailsInv, ReplyInv, OpenedInv,
     ServerEndsInv DEF Next, TimesOut

\* Every variable keeps its type.
THEOREM RedisTypeCorrect == Spec => []TypeOK
<1>1. Inv => OneHello
  BY DEF Inv
<1>. QED BY <1>1, InitType, InitInv, StepType, InvStep, PTL DEF Spec

\* A call gets the reply of its own command, although replies are matched by
\* their order alone.
THEOREM RepliesMatchCorrect == Spec => []RepliesMatch
<1>1. Inv => OneHello /\ RepliesMatch
  BY DEF Inv
<1>. QED BY <1>1, InitType, InitInv, StepType, InvStep, PTL DEF Spec

\* There is one connection at a time.
THEOREM OneConnectionCorrect == Spec => []OneConnection
<1>1. Inv => OneConnection
  <2>. SUFFICES ASSUME Inv PROVE OneConnection
    OBVIOUS
  <2>. DEFINE S == {s \in Socks : sock[s] \in {"connecting", "open", "ended"}}
  <2>1. \A s, t \in S : s = t
    BY DEF Inv, OneCurrent, Current, Live
  <2>2. CASE S = {}
    BY <2>2, FS_EmptySet DEF OneConnection
  <2>3. CASE S # {}
    <3>1. PICK s : S = {s}
      BY <2>1, <2>3
    <3>. QED BY <3>1, FS_Singleton DEF OneConnection
  <2>. QED BY <2>2, <2>3
<1>2. Inv => OneHello
  BY DEF Inv
<1>. QED BY <1>1, <1>2, InitType, InitInv, StepType, InvStep, PTL DEF Spec
-----------------------------------------------------------------------------
(* The database                                                            *)

\* A socket that may still answer is in the database of the URL, or will be
\* before it runs anything else.
Selecting(s) == flight[s] # <<>> /\ Head(flight[s]) = "select"
InDatabase ==
  hello # <<"auth", "select">> =>
    RunsInDatabase /\ \A s \in Socks : Live(s) => chosen[s] \/ Selecting(s)

\* Rejecting a call, or sending its command, answers none.
LEMMA KeepsDatabase ==
  ASSUME RunsInDatabase, calls \in [Cmds -> CallState],
         \/ \E cs : Rejects(cs)
         \/ \E q : Sends(q)
         \/ \E c \in Cmds : calls' = [calls EXCEPT ![c].at = "wait"]
         \/ calls' = calls
  PROVE  RunsInDatabase'
<1>1. \A c \in Cmds : c # "error"
  BY RedisAssumption
<1>2. ASSUME NEW cs, Rejects(cs)  PROVE RunsInDatabase'
  <2>. SUFFICES ASSUME NEW c \in Cmds, calls'[c].got = c  PROVE calls'[c].here
    BY DEF RunsInDatabase
  <2>1. calls'[c] = IF c \in cs THEN [calls[c] EXCEPT !.at = "done", !.got = "error"] ELSE calls[c]
    BY <1>2 DEF Rejects, Settles
  <2>2. calls[c] \in CallState
    OBVIOUS
  <2>3. c \in cs => calls'[c].got = "error"
    BY <2>1, <2>2 DEF CallState
  <2>4. calls'[c] = calls[c]
    BY <1>1, <2>1, <2>3
  <2>. QED BY <2>4 DEF RunsInDatabase
<1>3. ASSUME NEW q, Sends(q)  PROVE RunsInDatabase'
  BY <1>3 DEF RunsInDatabase, Sends, CallState
<1>4. ASSUME NEW c \in Cmds, calls' = [calls EXCEPT ![c].at = "wait"]  PROVE RunsInDatabase'
  BY <1>4 DEF RunsInDatabase, CallState
<1>5. calls' = calls => RunsInDatabase'
  BY DEF RunsInDatabase
<1>. QED BY <1>2, <1>3, <1>4, <1>5

\* What is written on a socket comes after what is in flight.
LEMMA WritesBehind ==
  ASSUME NEW f \in Seq(Cmds \cup Hello), f # <<>>, NEW q \in Seq(Cmds \cup Hello)
  PROVE  f \o q # <<>> /\ Head(f \o q) = Head(f)
  OBVIOUS

\* Without both AUTH and SELECT, what a URL asks of open() is one command, or none.
LEMMA OneOfThem ==
  ASSUME hello \in Hellos, hello # <<"auth", "select">>, Contains(hello, "select")
  PROVE  hello = <<"select">>
<1>1. hello \in {<<>>, <<"auth">>, <<"select">>}
  BY RedisAssumption
<1>2. ~Contains(<<>>, "select") /\ ~Contains(<<"auth">>, "select")
  BY DEF Contains
<1>. QED BY <1>1, <1>2

LEMMA CommandDatabase ==
  ASSUME TypeOK, Inv, InDatabase, NEW c \in Cmds, Command(c)
  PROVE  InDatabase'
<1>. SUFFICES ASSUME hello # <<"auth", "select">>, hello' = hello
              PROVE  RunsInDatabase' /\ \A s \in Socks : Live(s)' => chosen'[s] \/ Selecting(s)'
  BY DEF InDatabase, Command
<1>1. /\ RunsInDatabase /\ \A s \in Socks : Live(s) => chosen[s] \/ Selecting(s)
      /\ chosen' = chosen /\ calls \in [Cmds -> CallState]
  BY DEF InDatabase, Command, TypeOK, CallState
<1>2. RunsInDatabase'
  BY <1>1, KeepsDatabase DEF Command, Failure
<1>3. ASSUME NEW s \in Socks, Live(s)'
      PROVE  Live(s) /\ (Selecting(s) => Selecting(s)')
  <2>1. CASE UNCHANGED <<sock, flight>>
    BY <1>3, <2>1 DEF Live, Selecting
  <2>2. CASE Usable /\ Written(socket, <<c>>, pending, flight) /\ UNCHANGED sock
    <3>1. flight[s] \in Seq(Cmds \cup Hello) /\ <<c>> \in Seq(Cmds \cup Hello)
      BY DEF TypeOK
    <3>2. flight'[s] = flight[s] \/ flight'[s] = flight[s] \o <<c>>
      BY <2>2 DEF Written, TypeOK
    <3>. QED BY <1>3, <2>2, <3>1, <3>2, WritesBehind DEF Live, Selecting
  <2>3. CASE Usable /\ sock' = [sock EXCEPT ![socket] = "closing"] /\ UNCHANGED flight
    BY <1>3, <2>3 DEF Live, Selecting, TypeOK
  <2>4. ASSUME NEW t \in Socks, Opens(t), UNCHANGED flight
        PROVE  Live(s) /\ (Selecting(s) => Selecting(s)')
    BY <1>3, <2>4 DEF Live, Selecting, Opens, TypeOK
  <2>. QED BY <2>1, <2>2, <2>3, <2>4 DEF Command
<1>. QED BY <1>1, <1>2, <1>3

LEMMA ConnectedDatabase ==
  ASSUME TypeOK, Inv, InDatabase, NEW s \in Socks, Connected(s)
  PROVE  InDatabase'
<1>1. /\ sock[s] = "connecting" /\ sock' = [sock EXCEPT ![s] = "open"]
      /\ chosen' = [chosen EXCEPT ![s] = ~Contains(hello, "select")]
      /\ GoesOn(s, hello, pending, flight) /\ hello' = hello
  BY DEF Connected
<1>. SUFFICES ASSUME hello # <<"auth", "select">>
              PROVE  RunsInDatabase' /\ \A t \in Socks : Live(t)' => chosen'[t] \/ Selecting(t)'
  BY <1>1 DEF InDatabase
<1>2. RunsInDatabase /\ calls \in [Cmds -> CallState]
  BY DEF InDatabase, TypeOK, CallState
<1>3. RunsInDatabase'
  BY <1>1, <1>2, KeepsDatabase DEF GoesOn
<1>4. ASSUME NEW t \in Socks, Live(t)'  PROVE t = s
  BY <1>1, <1>4 DEF Inv, OneCurrent, Current, Live, TypeOK
<1>5. CASE ~Contains(hello, "select")
  BY <1>1, <1>3, <1>4, <1>5 DEF TypeOK
<1>6. CASE Contains(hello, "select")
  <2>1. hello = <<"select">>
    BY <1>6, OneOfThem DEF TypeOK
  <2>2. flight[s] = <<>>
    BY <1>1 DEF Inv, Mirror
  <2>3. flight'[s] = <<>> \o <<"select">>
    BY <1>1, <2>1, <2>2 DEF GoesOn, Written, TypeOK
  <2>4. Selecting(s)'
    BY <2>3 DEF Selecting
  <2>. QED BY <1>3, <1>4, <2>4
<1>. QED BY <1>5, <1>6

LEMMA ReplyDatabase ==
  ASSUME TypeOK, Inv, InDatabase, NEW s \in Socks, NEW ok \in BOOLEAN, Reply(s, ok)
  PROVE  InDatabase'
<1>1. /\ Answers(s) /\ Ran(s, ok) /\ Head(pending) \in Cmds /\ flight' = Answered(s)
      /\ calls' = [calls EXCEPT ![Head(pending)] =
                       [at |-> "done", got |-> IF ok THEN Head(flight[s]) ELSE "error",
                        here |-> chosen[s]]]
      /\ UNCHANGED <<hello, sock>>
  BY DEF Reply
<1>. SUFFICES ASSUME hello # <<"auth", "select">>
              PROVE  RunsInDatabase' /\ \A t \in Socks : Live(t)' => chosen'[t] \/ Selecting(t)'
  BY <1>1 DEF InDatabase
<1>2. /\ Live(s) /\ flight[s] = pending
      /\ \A t \in Socks : t # s => ~Current(t)
  BY <1>1, AnswerMirrors
<1>3. Head(flight[s]) # "select"
  BY <1>1, <1>2, NotHello DEF Hello
<1>4. chosen[s] /\ chosen' = chosen /\ RunsInDatabase
  BY <1>1, <1>2, <1>3 DEF InDatabase, Selecting, Ran
<1>5. RunsInDatabase'
  BY <1>1, <1>4 DEF RunsInDatabase, TypeOK
<1>6. \A t \in Socks : Live(t)' => t = s
  BY <1>1, <1>2 DEF Live, Current
<1>. QED BY <1>4, <1>5, <1>6

LEMMA OpenedDatabase ==
  ASSUME TypeOK, Inv, InDatabase, NEW s \in Socks, NEW ok \in BOOLEAN, Opened(s, ok)
  PROVE  InDatabase'
<1>1. Answers(s) /\ Ran(s, ok) /\ Head(pending) \in Hello /\ hello' = hello
  BY DEF Opened
<1>. SUFFICES ASSUME hello # <<"auth", "select">>
              PROVE  RunsInDatabase' /\ \A t \in Socks : Live(t)' => chosen'[t] \/ Selecting(t)'
  BY <1>1 DEF InDatabase
<1>2. /\ Live(s) /\ flight[s] = pending
      /\ \A t \in Socks : t # s => ~Current(t)
  BY <1>1, AnswerMirrors
<1>3. RunsInDatabase /\ calls \in [Cmds -> CallState] /\ (chosen[s] \/ Selecting(s))
  BY <1>2 DEF InDatabase, TypeOK, CallState
<1>4. RunsInDatabase'
  BY <1>3, KeepsDatabase DEF Opened, GoesOn, NoConnection
<1>5. \A t \in Socks : Live(t)' => t = s
  BY <1>2 DEF Opened, Live, Current, TypeOK
<1>6. ASSUME Live(s)'  PROVE chosen'[s]
  <2>1. ok \/ ~Selecting(s)
    <3>1. CASE ok
      BY <3>1
    <3>2. CASE ~ok
      <4>1. sock' = [sock EXCEPT ![s] = "closing"]
        BY <3>2 DEF Opened
      <4>. QED BY <1>6, <4>1 DEF Live, TypeOK
    <3>. QED BY <3>1, <3>2
  <2>2. Head(flight[s]) = "select" /\ ok => chosen' = [chosen EXCEPT ![s] = TRUE]
    BY <1>1 DEF Ran
  <2>3. ~(Head(flight[s]) = "select" /\ ok) => chosen' = chosen
    BY <1>1 DEF Ran
  <2>4. chosen \in [Socks -> BOOLEAN]
    BY DEF TypeOK
  <2>. QED BY <1>3, <2>1, <2>2, <2>3, <2>4 DEF Selecting
<1>. QED BY <1>4, <1>5, <1>6

LEMMA DatabaseStep == TypeOK /\ Inv /\ InDatabase /\ [Next]_vars => InDatabase'
<1>. SUFFICES ASSUME TypeOK, Inv, InDatabase, [Next]_vars PROVE InDatabase'
  OBVIOUS
<1>0. calls \in [Cmds -> CallState]
  BY DEF TypeOK, CallState
\* A socket is lost, or refused, or its half is closed: none begins to answer.
<1>1. ASSUME UNCHANGED <<hello, flight, chosen>>,
             calls' = calls \/ \E cs : Rejects(cs),
             \A t \in Socks : Live(t)' => Live(t)
      PROVE  InDatabase'
  BY <1>0, <1>1, KeepsDatabase DEF InDatabase, Selecting
<1>2. ASSUME NEW s \in Socks, Fails(s) \/ Closes(s) \/ ConnectFails(s) \/ ServerEnds(s)
      PROVE  InDatabase'
  <2>1. UNCHANGED <<hello, flight, chosen>>
    BY <1>2 DEF Fails, Closes, ConnectFails, ServerEnds
  <2>2. calls' = calls \/ \E cs : Rejects(cs)
    BY <1>2 DEF Fails, Closes, ConnectFails, ServerEnds, Failure, NoConnection
  <2>3. \A t \in Socks : Live(t)' => Live(t)
    BY <1>2 DEF Fails, Closes, ConnectFails, ServerEnds, Live, TypeOK
  <2>. QED BY <1>1, <2>1, <2>2, <2>3
<1>3. CASE Close
  <2>1. UNCHANGED <<hello, flight, chosen, calls>> /\ \A t \in Socks : Live(t)' => Live(t)
    BY <1>3 DEF Close, Live, TypeOK, Inv, SocketInUse
  <2>. QED BY <1>1, <2>1
<1>4. CASE UNCHANGED vars
  BY <1>1, <1>4 DEF vars, Live
<1>. QED
  BY <1>2, <1>3, <1>4, CommandDatabase, ConnectedDatabase, ReplyDatabase, OpenedDatabase
     DEF Next, TimesOut

\* Every command runs in the database that the URL names, whoever comes, is lost
\* or times out meanwhile - except with a URL that asks for AUTH and SELECT,
\* for which RunsInDatabase fails.
THEOREM CalmRunsInDatabaseCorrect == Spec => []CalmRunsInDatabase
<1>1. Init => InDatabase
  BY DEF Init, InDatabase, RunsInDatabase, Live
<1>2. InDatabase => CalmRunsInDatabase
  BY DEF InDatabase, CalmRunsInDatabase
<1>3. Inv => OneHello
  BY DEF Inv
<1>. QED BY <1>1, <1>2, <1>3, InitType, InitInv, StepType, InvStep, DatabaseStep, PTL DEF Spec
=============================================================================
