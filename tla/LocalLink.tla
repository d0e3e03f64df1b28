----------------------------- MODULE LocalLink -----------------------------
(***************************************************************************)
(* The local transport: the worker's socket to the one agent that listens   *)
(* on the local port, its handshake and retries (src/extension/             *)
(* local-connection.js), the user's Disconnect agent, and the agent's       *)
(* server with its challenges and its closing (src/src/local/               *)
(* extension-server.ts, runtime.ts).  It shares the worker, the users and   *)
(* the faults with GatewayLink.                                             *)
(***************************************************************************)
EXTENDS GatewayLink

CONSTANTS Agents,      \* processes of agents
          LSocks,      \* local sockets that may exist at a time
          Challenges   \* challenges an agent may have given out at a time

VARIABLES
    local,    \* createLocalConnection(): socket, place of connect(), challenge,
              \* retry timer, pendingDisconnect, and localConnected
    lsocks,   \* each local socket: its state, agent, challenge, closing code
    agent,    \* each agent: off, listening, closed; its challenges, its bridge
    told,     \* sockets on which a disconnect is under way to the agent
    popup     \* the answer to Disconnect agent

locals == <<local, lsocks, agent, told, popup>>

LocalTypeOK ==
    /\ local \in [socket: LSocks \cup {None}, at: {"idle", "handshake", "answered"},
                  of: Agents \cup {None}, challenge: Challenges \cup {None},
                  timer: BOOLEAN, pending: BOOLEAN, connected: BOOLEAN]
    /\ lsocks \in [LSocks -> [at: {"new", "connecting", "open", "cut", "ending"},
                    of: Agents \cup {None}, challenge: Challenges \cup {None},
                    code: {0, 1001, 1006, 4000, 4001}]]
    /\ agent \in [Agents -> [at: {"off", "listening", "closed"},
                    challenges: SUBSET Challenges, socket: LSocks \cup {None}]]
    /\ told \subseteq LSocks
    /\ popup \in {"idle", "waiting", "confirmed", "refused"}

LUnused   == [at |-> "new", of |-> None, challenge |-> None, code |-> 0]
LFree(s)  == lsocks[s].at = "new" /\ \A t \in LSocks : lsocks[t].at = "new" => s <= t
Listening == {a \in Agents : agent[a].at = "listening"}
\* The agent has gone: the worker has not heard of it ("cut", readyState OPEN) or
\* the socket is closing ("ending", readyState CLOSING).
IsOpen(s) == s # None /\ lsocks[s].at \in {"open", "cut"}
Opening(s) == s # None /\ lsocks[s].at \in {"connecting", "open", "cut"}

-----------------------------------------------------------------------------
\* scheduleRetry(): one timer, and none while a socket is open.
Retrying(l) == IF IsOpen(l.socket) THEN l ELSE [l EXCEPT !.timer = TRUE]

\* connect() to its first await: by the timer, the alarm or the popup.
Probe ==
    /\ local' = IF local.at # "idle" \/ Opening(local.socket)
                THEN [local EXCEPT !.timer = FALSE]
                ELSE [local EXCEPT !.timer = FALSE, !.at = "handshake"]
    /\ UNCHANGED <<lsocks, agent, told, popup>>

\* POST /handshake: the agent that listens gives out a challenge.
Handshake == \E a \in Listening, c \in Challenges :
    /\ local.at = "handshake"
    /\ c \notin agent[a].challenges /\ \A d \in Challenges : d < c => d \in agent[a].challenges
    /\ agent' = [agent EXCEPT ![a].challenges = @ \cup {c}]
    /\ local' = [local EXCEPT !.at = "answered", !.of = a, !.challenge = c]
    /\ UNCHANGED <<lsocks, told, popup>>

\* Faulty: gives up.
HandshakeFailsFinally ==
    /\ local.at = "handshake" /\ Listening = {}
    /\ local' = [local EXCEPT !.socket = None, !.at = "idle", !.connected = FALSE]
    /\ UNCHANGED <<lsocks, agent, told, popup>>

\* Nobody listens: the socket is forgotten, whatever its state.
HandshakeFails ==
    /\ local.at = "handshake" /\ Listening = {}
    /\ local' = [Retrying([local EXCEPT !.socket = None]) EXCEPT !.at = "idle", !.connected = FALSE]
    /\ UNCHANGED <<lsocks, agent, told, popup>>

\* The challenge has come: the socket is opened to whoever listens then.
Answered == \E s \in LSocks :
    /\ local.at = "answered" /\ LFree(s)
    /\ lsocks' = [lsocks EXCEPT ![s] = [LUnused EXCEPT !.at = "connecting", !.challenge = local.challenge,
                                                     !.of = local.of]]
    /\ local' = [local EXCEPT !.socket = s, !.at = "idle", !.of = None, !.challenge = None]
    /\ UNCHANGED <<agent, told, popup>>

\* The upgrade: a challenge serves once, with the process that gave it out; the
\* bridge replaces its previous socket.
Upgraded(s) ==
    LET a == lsocks[s].of
        c == lsocks[s].challenge
        previous == agent[a].socket IN
    /\ lsocks[s].at = "connecting" /\ a \in Listening /\ c \in agent[a].challenges
    /\ agent' = [agent EXCEPT ![a].challenges = @ \ {c}, ![a].socket = s]
    /\ lsocks' = [t \in LSocks |->
            IF t = s THEN [lsocks[t] EXCEPT !.at = "open"]
            ELSE IF t = previous /\ lsocks[t].at = "open"
            THEN [lsocks[t] EXCEPT !.at = "cut", !.code = 4001] ELSE lsocks[t]]
    /\ local' = IF local.socket = s THEN [local EXCEPT !.connected = TRUE] ELSE local
    /\ UNCHANGED <<told, popup>>

UpgradeRefused(s) ==
    /\ lsocks[s].at = "connecting"
    /\ ~(lsocks[s].of \in Listening /\ lsocks[s].challenge \in agent[lsocks[s].of].challenges)
    /\ lsocks' = [lsocks EXCEPT ![s].at = "cut", ![s].code = 1006]
    /\ UNCHANGED <<local, agent, told, popup>>

\* A challenge expires before it is used.
Expired(a) == \E c \in agent[a].challenges :
    /\ agent' = [agent EXCEPT ![a].challenges = @ \ {c}]
    /\ UNCHANGED <<local, lsocks, told, popup>>

-----------------------------------------------------------------------------
\* Disconnect agent: localConnection.disconnect() to its await.
AsksAgent ==
    /\ popup = "idle"
    /\ IF local.pending \/ ~IsOpen(local.socket)
       THEN popup' = "refused" /\ UNCHANGED <<local, told>>
       ELSE /\ popup' = "waiting" /\ local' = [local EXCEPT !.pending = TRUE]
            /\ told' = told \cup {local.socket}
    /\ UNCHANGED <<lsocks, agent>>

\* Faulty: its server stops listening later.
ClosesSocketsFirst(a, code) ==
    IF agent[a].at = "closed" THEN UNCHANGED <<agent, lsocks>>
    ELSE /\ agent' = [agent EXCEPT ![a].challenges = {}, ![a].socket = None]
         /\ lsocks' = [s \in LSocks |-> IF lsocks[s].of = a /\ lsocks[s].at = "open"
                          THEN [lsocks[s] EXCEPT !.at = "cut", !.code = code] ELSE lsocks[s]]

\* The agent's close(), once: it stops listening before it tells its sockets.
Closes(a, code) ==
    IF agent[a].at = "closed" THEN UNCHANGED <<agent, lsocks>>
    ELSE /\ agent' = [agent EXCEPT ![a] = [at |-> "closed", challenges |-> {}, socket |-> None]]
         /\ lsocks' = [s \in LSocks |-> IF lsocks[s].of = a /\ lsocks[s].at = "open"
                          THEN [lsocks[s] EXCEPT !.at = "cut", !.code = code] ELSE lsocks[s]]

Told(s) ==
    /\ s \in told /\ told' = told \ {s}
    /\ IF lsocks[s].of # None /\ lsocks[s].at = "open" THEN Closes(lsocks[s].of, 4000)
       ELSE UNCHANGED <<agent, lsocks>>
    /\ UNCHANGED <<local, popup>>

\* The closing frame arrives: readyState CLOSING.
Ending(s) ==
    /\ lsocks[s].at = "cut" /\ lsocks[s].code \in {1001, 4000, 4001}
    /\ lsocks' = [lsocks EXCEPT ![s].at = "ending"]
    /\ UNCHANGED <<local, agent, told, popup>>

\* onclose of the current socket settles a pending disconnect: by its code.
LocalClosed(s) ==
    /\ lsocks[s].at = "ending" \/ (lsocks[s].at = "cut" /\ lsocks[s].code = 1006)
    /\ lsocks' = [lsocks EXCEPT ![s] = LUnused]
    /\ told' = told \ {s}
    /\ IF local.socket # s THEN UNCHANGED <<local, popup>>
       ELSE /\ local' = Retrying([local EXCEPT !.socket = None, !.connected = FALSE, !.pending = FALSE])
            /\ popup' = IF ~local.pending THEN popup
                        ELSE IF lsocks[s].code = 4000 THEN "confirmed" ELSE "refused"
    /\ UNCHANGED agent

\* Five seconds without an answer.
AgentSilent ==
    /\ local.pending
    /\ local' = [local EXCEPT !.pending = FALSE] /\ popup' = "refused"
    /\ UNCHANGED <<lsocks, agent, told>>

-----------------------------------------------------------------------------
\* An agent is started; the port may be taken, and then it exits.
AgentStarts(a) ==
    /\ agent[a].at = "off"
    /\ agent' = [agent EXCEPT ![a].at = IF Listening = {} THEN "listening" ELSE "closed"]
    /\ UNCHANGED <<local, lsocks, told, popup>>

\* It is stopped by a signal, or killed.
AgentStops(a) == \E code \in {1001, 1006} :
    /\ agent[a].at = "listening" /\ Closes(a, code)
    /\ UNCHANGED <<local, told, popup>>

FreshLocal == [socket |-> None, at |-> "handshake", of |-> None, challenge |-> None,
               timer |-> FALSE, pending |-> FALSE, connected |-> FALSE]

LocalInit ==
    /\ local = FreshLocal /\ told = {} /\ popup = "idle"
    /\ lsocks = [s \in LSocks |-> LUnused]
    /\ agent = [a \in Agents |-> [at |-> "off", challenges |-> {}, socket |-> None]]

\* The worker restarts: its sockets close, and the agents hear of it.
LocalRestarted ==
    /\ local' = FreshLocal /\ told' = {} /\ popup' = "idle"
    /\ lsocks' = [s \in LSocks |-> LUnused]
    /\ agent' = [a \in Agents |-> [agent[a] EXCEPT !.socket = None]]

Connecting == Handshake \/ HandshakeFails \/ Answered
Delivers(s) == Upgraded(s) \/ UpgradeRefused(s) \/ Told(s) \/ Ending(s) \/ LocalClosed(s)
LocalUsers ==
    \/ Do(<<"probe">>) /\ Probe
    \/ Do(<<"leave">>) /\ AsksAgent
    \/ \E a \in Agents : Do(<<"agent", a>>) /\ AgentStarts(a)
LocalTroubles == Fault /\ \E a \in Agents : Expired(a) \/ AgentStops(a)

=============================================================================
