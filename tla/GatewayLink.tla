---------------------------- MODULE GatewayLink ----------------------------
(***************************************************************************)
(* The remote transport of the extension: the worker's one current socket  *)
(* to the relay, its reconnection and replacement, enrollment, the user's   *)
(* Connect and Disconnect, the revocation of the credential and a restart   *)
(* of the worker (src/extension/service-worker.js, 2036-2388).             *)
(*                                                                         *)
(* JavaScript runs one turn at a time, from one await to the next: a flow   *)
(* is an async function that waits at a named await, and each of its        *)
(* actions is the turn that follows.  chrome.storage serves calls in order, *)
(* so a flow's configuration is the one stored when it asked for it.        *)
(***************************************************************************)
EXTENDS Naturals, FiniteSets, Sequences

CONSTANTS
    Flows,       \* async calls that may be under way at a time
    Socks,       \* sockets that may exist at a time
    Creds,       \* credentials the relay may issue, in this order: 1, 2, ...
    Urls,        \* gateway addresses
    Probed,      \* the loopback ones, whose /health is probed first
    Programs,    \* what storage holds, what users do, how often the environment
                 \* may misbehave: [stored, todo, faults]
    None

ASSUME GatewayLinkAssumption ==
    /\ Probed \subseteq Urls /\ Creds = 1..Cardinality(Creds)
    /\ None \notin Socks
    /\ \A p \in Programs : p.faults \in Nat

NoCred == 0

VARIABLES
    worker,   \* the worker's memory
    stored,   \* chrome.storage.local
    flows,    \* where each flow waits, and the configuration it has read
    socks,    \* each socket: its state, address and credential, closing code
    device,   \* what the relay knows of each credential
    served,   \* the relay's connection of each device
    up,       \* the relay is reachable
    todo,     \* what the user will do next
    word,     \* the user's last word, and whether a connect was under way then
    faults    \* troubles still to come

link == <<worker, stored, flows, socks, device, served, up, todo, word, faults>>

Configs == [url: Urls, cred: Creds \cup {NoCred}]
Places == {"idle", "config", "probe", "unwell", "asked", "known", "enroll",
           "stored", "closed", "alarm"}
States == {"new", "connecting", "open", "cut", "closing"}
Nowhere == [at |-> "idle", cfg |-> [url |-> CHOOSE u \in Urls : TRUE, cred |-> NoCred]]
Unused  == [at |-> "new", cfg |-> Nowhere.cfg, code |-> 0]

LinkTypeOK ==
    /\ worker \in [manual: BOOLEAN, socket: Socks \cup {None}, timer: BOOLEAN,
                   leaked: BOOLEAN, inFlight: BOOLEAN]
    /\ stored \in [cfg: Configs, manual: BOOLEAN]
    /\ flows \in [Flows -> [at: Places, cfg: Configs]]
    /\ socks \in [Socks -> [at: States, cfg: Configs, code: {0, 1001, 1006, 4001, 4003}]]
    /\ device \in [Creds -> {"none", "known", "revoked"}] /\ served \in [Creds -> Socks \cup {None}]
    /\ up \in BOOLEAN /\ faults \in Nat
    /\ word \in [is: {"on", "off"}, raced: BOOLEAN]

Live(s) == socks[s].at \in {"connecting", "open"}
\* readyState is OPEN or CONNECTING: a connection the relay has ended is open
\* until the worker hears of it.
Ready(w) == w.socket # None /\ socks[w.socket].at \in {"connecting", "open", "cut"}
IdleFlow(f) == flows[f].at = "idle" /\ \A g \in Flows : flows[g].at = "idle" => f <= g
Free(s)     == socks[s].at = "new" /\ \A t \in Socks : socks[t].at = "new" => s <= t
Goes(f, at) == flows' = [flows EXCEPT ![f].at = at]
At(f, at)   == flows[f].at = at

-----------------------------------------------------------------------------
\* connectGateway(), to its first await: it clears the timer it knows of.
Called(f, w) ==
    /\ worker' = [w EXCEPT !.timer = FALSE]
    /\ flows' = [flows EXCEPT ![f] =
                    IF w.manual \/ w.inFlight THEN Nowhere
                    ELSE [at |-> "config", cfg |-> stored.cfg]]

\* A new socket becomes the current one; the flow is over.
Opens(f) == \E s \in Socks :
    /\ Free(s)
    /\ socks' = [socks EXCEPT ![s] = [at |-> "connecting", cfg |-> flows[f].cfg, code |-> 0]]
    /\ worker' = [worker EXCEPT !.socket = s, !.inFlight = FALSE]
    /\ flows' = [flows EXCEPT ![f] = Nowhere]

\* After getConfig(): the socket is tested here, the flag was tested before.
Configured(f) ==
    /\ At(f, "config")
    /\ IF flows[f].cfg.cred = NoCred \/ Ready(worker)
       THEN flows' = [flows EXCEPT ![f] = Nowhere] /\ UNCHANGED <<worker, socks>>
       ELSE IF flows[f].cfg.url \in Probed
       THEN /\ worker' = [worker EXCEPT !.inFlight = TRUE]
            /\ Goes(f, "probe") /\ UNCHANGED socks
       ELSE Opens(f)
    /\ UNCHANGED <<stored, device, served, up, todo, word, faults>>

\* The probe of a loopback gateway's health answers, or fails.
ProbedWell(f) ==
    /\ At(f, "probe") /\ up /\ Opens(f)
    /\ UNCHANGED <<stored, device, served, up, todo, word, faults>>

ProbeFails(f) ==
    /\ At(f, "probe") /\ ~up
    /\ worker' = [worker EXCEPT !.socket = None]
    /\ stored' = [stored EXCEPT !.manual = worker.manual]
    /\ Goes(f, "unwell")
    /\ UNCHANGED <<socks, device, served, up, todo, word, faults>>

\* A retry is scheduled; a timer that was pending is no longer known.
Scheduled(w) == [w EXCEPT !.timer = TRUE, !.leaked = @ \/ w.timer]


\* The end of a failed probe, or of onclose: the retry, unless the user has
\* disconnected in the meantime.
Retries(f, at) ==
    /\ At(f, at)
    /\ worker' = LET w == IF at = "unwell" THEN [worker EXCEPT !.inFlight = FALSE] ELSE worker
                 IN  IF w.manual THEN w ELSE Scheduled(w)
    /\ flows' = [flows EXCEPT ![f] = Nowhere]
    /\ UNCHANGED <<stored, socks, device, served, up, todo, word, faults>>

\* The timer of a retry fires, be it the last one or one that was forgotten.
Fire(f) ==
    /\ IdleFlow(f)
    /\ \/ worker.timer  /\ Called(f, worker)
       \/ worker.leaked /\ Called(f, [worker EXCEPT !.leaked = FALSE])
    /\ UNCHANGED <<stored, socks, device, served, up, todo, word, faults>>

-----------------------------------------------------------------------------
\* The popup's messages.
Do(what) == todo # <<>> /\ Head(todo) = what /\ todo' = Tail(todo)
Says(is) == word' = [is |-> is, raced |-> is = "off"
                     /\ \E f \in Flows : flows[f].at \in {"config", "probe", "asked"}]

\* The popup waits for the answer to Connect or Disconnect before it offers
\* Connect again.
Settled == \A f \in Flows : flows[f].at \notin {"alarm", "asked", "known", "enroll", "stored"}

\* close() of a socket by the worker.
Closing(ss, s) ==
    IF s = None THEN ss
    ELSE [ss EXCEPT ![s].at = IF @ = "cut" THEN "new" ELSE "closing"]

\* replaceGatewayConnection(): its connectGateway() may find another under way.
Replaced(f) ==
    /\ socks' = Closing(socks, worker.socket)
    /\ Called(f, [worker EXCEPT !.socket = None])

\* saveConfig: the new address is stored, then the connection is replaced.
SaveConfig(f) == \E u \in Urls :
    /\ IdleFlow(f) /\ Settled /\ Do(<<"save", u>>) /\ Says("on")
    /\ worker' = [worker EXCEPT !.manual = FALSE]
    /\ stored' = [stored EXCEPT !.cfg.url = u]
    /\ Goes(f, "stored")
    /\ UNCHANGED <<socks, device, served, up, faults>>

\* connectProduction() reads the configuration,
Connect(f) ==
    /\ IdleFlow(f) /\ Settled /\ Do(<<"connect">>) /\ Says("on")
    /\ flows' = [flows EXCEPT ![f] = [at |-> "asked", cfg |-> stored.cfg]]
    /\ UNCHANGED <<worker, stored, socks, device, served, up, faults>>

\* undoes a disconnection,
Asked(f) ==
    /\ At(f, "asked")
    /\ worker' = [worker EXCEPT !.manual = FALSE]
    /\ stored' = [stored EXCEPT !.manual = FALSE]
    /\ Goes(f, IF flows[f].cfg.cred = NoCred THEN "enroll" ELSE "known")
    /\ UNCHANGED <<socks, device, served, up, todo, word, faults>>

\* enrolls if there was no credential, and stores the one it has,
Stores(f, cred) ==
    /\ stored' = [stored EXCEPT !.cfg = [url |-> flows[f].cfg.url, cred |-> cred]]
    /\ Goes(f, "stored")

Known(f) ==
    /\ At(f, "known") /\ Stores(f, flows[f].cfg.cred)
    /\ UNCHANGED <<worker, socks, device, served, up, todo, word, faults>>

Enrolled(f) ==
    /\ At(f, "enroll")
    /\ IF up
       THEN \E c \in Creds :
            /\ \A d \in Creds : device[d] = "none" <=> d >= c
            /\ device' = [device EXCEPT ![c] = "known"] /\ Stores(f, c)
       ELSE flows' = [flows EXCEPT ![f] = Nowhere] /\ UNCHANGED <<stored, device>>
    /\ UNCHANGED <<worker, socks, served, up, todo, word, faults>>

\* and replaces the connection.
Replace(f) ==
    /\ At(f, "stored") /\ Replaced(f)
    /\ UNCHANGED <<stored, device, served, up, todo, word, faults>>

\* disconnect: the flag first, the socket after an await.
Disconnect(f) ==
    /\ IdleFlow(f) /\ Do(<<"disconnect">>) /\ Says("off")
    /\ worker' = [worker EXCEPT !.manual = TRUE, !.timer = FALSE]
    /\ Goes(f, "alarm")
    /\ UNCHANGED <<stored, socks, device, served, up, faults>>


Disconnected(f) ==
    /\ At(f, "alarm")
    /\ socks' = Closing(socks, worker.socket)
    /\ worker' = [worker EXCEPT !.socket = None]
    /\ stored' = [stored EXCEPT !.manual = worker.manual]
    /\ flows' = [flows EXCEPT ![f] = Nowhere]
    /\ UNCHANGED <<device, served, up, todo, word, faults>>

-----------------------------------------------------------------------------
\* The relay: it accepts a socket and lets it replace the device's previous
\* one; the worker's onopen stores its status.
Cut(ss, s, code) ==
    IF s # None /\ ss[s].at = "open" THEN [ss EXCEPT ![s].at = "cut", ![s].code = code] ELSE ss

Accepted(s) ==
    LET c == socks[s].cfg.cred IN
    /\ socks[s].at = "connecting" /\ up /\ device[c] = "known"
    /\ socks' = [Cut(socks, served[c], 4001) EXCEPT ![s].at = "open"]
    /\ served' = [served EXCEPT ![c] = s]
    /\ stored' = IF worker.socket = s THEN [stored EXCEPT !.manual = worker.manual] ELSE stored
    /\ UNCHANGED <<worker, flows, device, up, todo, word, faults>>

\* An unknown credential is refused before there is a connection to close: the
\* worker sees the code of a lost one.
Refused(s) ==
    /\ socks[s].at = "connecting" /\ (~up \/ device[socks[s].cfg.cred] # "known")
    /\ socks' = [socks EXCEPT ![s].at = "cut", ![s].code = 1006]
    /\ UNCHANGED <<worker, stored, flows, device, served, up, todo, word, faults>>

\* The relay hears that the worker has closed a socket.
Left(s) ==
    /\ socks[s].at = "closing"
    /\ socks' = [socks EXCEPT ![s] = Unused]
    /\ served' = [c \in Creds |-> IF served[c] = s THEN None ELSE served[c]]
    /\ UNCHANGED <<worker, stored, flows, device, up, todo, word, faults>>

\* onclose: only that of the current socket counts.  After a revocation the
\* credential is forgotten, and nothing is tried again.
Closed(f, s) ==
    /\ socks[s].at = "cut" /\ IdleFlow(f)
    /\ socks' = [socks EXCEPT ![s] = Unused]
    /\ IF worker.socket # s
       THEN UNCHANGED <<worker, stored, flows>>
       ELSE IF socks[s].code = 4003
       THEN /\ worker' = [worker EXCEPT !.socket = None, !.manual = TRUE]
            /\ stored' = [cfg |-> [stored.cfg EXCEPT !.cred = NoCred], manual |-> TRUE]
            /\ UNCHANGED flows
       ELSE /\ worker' = [worker EXCEPT !.socket = None]
            /\ stored' = [stored EXCEPT !.manual = worker.manual]
            /\ Goes(f, "closed")
    /\ UNCHANGED <<device, served, up, todo, word, faults>>

-----------------------------------------------------------------------------
\* The environment, a number of times: a connection is lost, the relay is down
\* for a while, a device is revoked, Chrome restarts the worker.
Fault == faults > 0 /\ faults' = faults - 1

Unserved(s) == [c \in Creds |-> IF served[c] = s THEN None ELSE served[c]]

Lost(s) ==
    /\ Fault /\ socks[s].at = "open"
    /\ socks' = Cut(socks, s, 1006) /\ served' = Unserved(s)
    /\ UNCHANGED <<worker, stored, flows, device, up, todo, word>>

RelayStops ==
    /\ Fault /\ up /\ up' = FALSE
    /\ socks' = [s \in Socks |-> Cut(socks, s, 1001)[s]]
    /\ served' = [c \in Creds |-> None]
    /\ UNCHANGED <<worker, stored, flows, device, todo, word>>

RelayStarts ==
    /\ ~up /\ up' = TRUE
    /\ UNCHANGED <<worker, stored, flows, socks, device, served, todo, word, faults>>

Revoked(c) ==
    /\ Fault /\ up /\ device[c] = "known"
    /\ device' = [device EXCEPT ![c] = "revoked"]
    /\ socks' = Cut(socks, served[c], 4003) /\ served' = [served EXCEPT ![c] = None]
    /\ UNCHANGED <<worker, stored, flows, up, todo, word>>

\* The worker's start, with what storage holds.  Chrome stops a worker when no
\* handler of it is under way; timers and sockets do not keep it alive.
FreshWorker(st) == [manual |-> st.manual, socket |-> None, timer |-> FALSE,
                    leaked |-> FALSE, inFlight |-> FALSE]
FreshFlows(st) == [f \in Flows |-> IF f = 1 /\ ~st.manual
                                  THEN [at |-> "config", cfg |-> st.cfg] ELSE Nowhere]

Restarted ==
    /\ Fault /\ \A f \in Flows : At(f, "idle")
    /\ worker' = FreshWorker(stored) /\ flows' = FreshFlows(stored)
    /\ socks' = [s \in Socks |-> IF Live(s) \/ socks[s].at = "closing"
                                 THEN [socks[s] EXCEPT !.at = "closing"] ELSE Unused]
    /\ UNCHANGED <<stored, device, served, up, todo, word>>

LinkInit ==
    /\ \E p \in Programs : stored = p.stored /\ todo = p.todo /\ faults = p.faults
    /\ worker = FreshWorker(stored) /\ flows = FreshFlows(stored)
    /\ socks = [s \in Socks |-> Unused]
    /\ device = [c \in Creds |-> IF c = stored.cfg.cred THEN "known" ELSE "none"]
    /\ served = [c \in Creds |-> None]
    /\ up = TRUE
    /\ word = [is |-> IF stored.manual THEN "off" ELSE "on", raced |-> FALSE]

Resume(f) ==
    \/ Configured(f) \/ ProbedWell(f) \/ ProbeFails(f)
    \/ Retries(f, "unwell") \/ Retries(f, "closed")
    \/ Asked(f) \/ Known(f) \/ Enrolled(f) \/ Replace(f) \/ Disconnected(f)

Users(f)   == SaveConfig(f) \/ Connect(f) \/ Disconnect(f)
Network(s) == Accepted(s) \/ Refused(s) \/ Left(s) \/ \E f \in Flows : Closed(f, s)
Troubles   == RelayStops \/ (\E s \in Socks : Lost(s)) \/ (\E c \in Creds : Revoked(c))

-----------------------------------------------------------------------------
Wanted == word.is = "on" /\ stored.cfg.cred # NoCred /\ device[stored.cfg.cred] = "known"

Linked == /\ worker.socket # None /\ socks[worker.socket].at = "open"
          /\ served[stored.cfg.cred] = worker.socket


\* "This device credential was revoked. Click Connect to securely enroll again":
\* in the end the worker is linked, or has forgotten its credential, so that
\* Connect enrolls.
ConnectEnrolls == <>[](word.is = "on" => Linked \/ stored.cfg.cred = NoCred)

\* "Local Disconnect wins": after it, no socket stays open.
DisconnectWins == <>[](word.is = "off" => \A s \in Socks : ~Live(s))


=============================================================================
