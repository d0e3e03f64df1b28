--------------------------- MODULE TransportLease ---------------------------
(***************************************************************************)
(* The extension's two transports together: which of them may act.  A       *)
(* mutating command takes the transport lease when it arrives, a queue      *)
(* keeps it, and local control goes before remote control                   *)
(* (src/extension/service-worker.js, 1882-1978).                            *)
(***************************************************************************)
EXTENDS LocalLink

CONSTANTS Cmds,     \* commands that may be under way at a time
          Lease,    \* TRANSPORT_LEASE_MS
          Period    \* the interval of a queue's renewals

ASSUME LeaseAssumption == Lease \in Nat /\ Period \in Nat /\ 0 < Period /\ Period < Lease

VARIABLES
    lease,    \* owner and time left
    paused,
    cmds      \* commands under way: transport, kind, socket, renewal timer

leases == <<lease, paused, cmds>>
vars == <<link, locals, leases>>

Sources == {"local", "remote"}
Kinds   == {"read", "act", "queue"}
NoCmd   == [src |-> "remote", kind |-> "none", on |-> None, keep |-> 0]

LeaseTypeOK ==
    /\ lease \in [owner: Sources \cup {None}, left: 0..Lease]
    /\ paused \in BOOLEAN
    /\ cmds \in [Cmds -> [src: Sources, kind: Kinds \cup {"none"},
                          on: Socks \cup LSocks \cup {None}, keep: 0..Period]]

TypeOK == LinkTypeOK /\ LocalTypeOK /\ LeaseTypeOK

Running(c, src) == cmds[c].kind # "none" /\ cmds[c].src = src

\* The socket a request may come from: only the current one is listened to.
Current(src) ==
    IF src = "remote"
    THEN IF worker.socket # None /\ socks[worker.socket].at = "open" THEN worker.socket ELSE None
    ELSE IF local.socket # None /\ lsocks[local.socket].at = "open" /\ ~local.pending
         THEN local.socket ELSE None

-----------------------------------------------------------------------------
\* claimTransportLease(): a lease that has run out is nobody's.
Owner == IF lease.left = 0 THEN None ELSE lease.owner

Claims(src, kind) ==
    IF kind = "read" THEN UNCHANGED lease
    ELSE /\ ~(src = "remote" /\ Owner = "local")
         /\ lease' = [owner |-> src, left |-> Lease]

\* handleRpc(): a request arrives, is refused while paused or while local
\* control holds the lease, or begins.
Arrives(c) == \E src \in Sources, kind \in Kinds :
    /\ Do(<<src, kind>>)
    /\ cmds[c].kind = "none" /\ \A d \in Cmds : cmds[d].kind = "none" => c <= d
    /\ Current(src) # None
    /\ \/ /\ ~paused /\ Claims(src, kind)
          /\ cmds' = [cmds EXCEPT ![c] = [src |-> src, kind |-> kind, on |-> Current(src),
                                          keep |-> IF kind = "queue" THEN Period ELSE 0]]
       \/ /\ paused \/ (kind # "read" /\ src = "remote" /\ Owner = "local")
          /\ UNCHANGED <<lease, cmds>>
    /\ UNCHANGED <<worker, stored, flows, socks, device, served, up, word, faults, locals, paused>>

\* Nobody hears a request sent to a transport that is not connected.
Unheard == \E src \in Sources, kind \in Kinds :
    /\ Do(<<src, kind>>) /\ Current(src) = None
    /\ UNCHANGED <<worker, stored, flows, socks, device, served, up, word, faults, locals, leases>>

\* Faulty: the interval of a queue does nothing.
RenewsNothing(c) ==
    /\ cmds[c].kind = "queue" /\ cmds[c].keep = 0
    /\ cmds' = [cmds EXCEPT ![c].keep = Period]
    /\ UNCHANGED <<link, locals, lease, paused>>

\* A queue's interval renews the lease that is still its transport's.
Renews(c) ==
    /\ cmds[c].kind = "queue" /\ cmds[c].keep = 0
    /\ cmds' = [cmds EXCEPT ![c].keep = Period]
    /\ lease' = IF lease.owner = cmds[c].src THEN [lease EXCEPT !.left = Lease] ELSE lease
    /\ UNCHANGED <<link, locals, paused>>

\* The command ends and its interval is cleared.
Ends(c) ==
    /\ cmds[c].kind # "none"
    /\ cmds' = [cmds EXCEPT ![c] = NoCmd]
    /\ UNCHANGED <<link, locals, lease, paused>>

\* Time passes when no renewal is due.
Tick ==
    /\ lease.left > 0
    /\ \A c \in Cmds : cmds[c].kind = "queue" => cmds[c].keep > 0
    /\ lease' = [lease EXCEPT !.left = @ - 1]
    /\ cmds' = [c \in Cmds |-> IF cmds[c].kind = "queue"
                               THEN [cmds[c] EXCEPT !.keep = @ - 1] ELSE cmds[c]]
    /\ UNCHANGED <<link, locals, paused>>

\* Disconnect agent was confirmed: the local transport gives up the lease.
\* The other answers only reach the popup.
AgentLeft ==
    /\ popup \in {"confirmed", "refused"} /\ popup' = "idle"
    /\ lease' = IF popup = "confirmed" /\ lease.owner = "local" THEN [owner |-> None, left |-> 0] ELSE lease
    /\ UNCHANGED <<link, local, lsocks, agent, told, paused, cmds>>

TogglePause ==
    /\ Do(<<"pause">>) /\ paused' = ~paused
    /\ UNCHANGED <<worker, stored, flows, socks, device, served, up, word, faults, locals, lease, cmds>>

-----------------------------------------------------------------------------
\* A command outlives its socket; then its answer goes nowhere.
Outlives ==
    cmds' = [c \in Cmds |->
        LET s == cmds[c].on IN
        IF (s \in Socks /\ socks'[s].at = "new") \/ (s \in LSocks /\ lsocks'[s].at = "new")
        THEN [cmds[c] EXCEPT !.on = None] ELSE cmds[c]]

\* The first turn of Connect also ends a pause.
Remote ==
    /\ \/ \E f \in Flows : Resume(f) \/ Fire(f) \/ Users(f)
       \/ \E s \in Socks : Network(s)
       \/ Troubles \/ RelayStarts
    /\ UNCHANGED <<locals, lease>> /\ Outlives
    /\ paused' = (paused /\ ~\E f \in Flows : At(f, "asked") /\ flows'[f].at # "asked")

rest == <<worker, stored, flows, socks, device, served, up, word>>

LocalTimer == local.timer /\ Probe /\ UNCHANGED <<link, leases>>
Alarm      == Probe /\ UNCHANGED <<link, leases>>

Local ==
    \/ Connecting /\ UNCHANGED <<link, leases>>
    \/ \E s \in LSocks : Delivers(s) /\ UNCHANGED <<link, lease, paused>> /\ Outlives
    \/ AgentSilent /\ UNCHANGED <<link, leases>>
    \/ LocalTroubles /\ UNCHANGED <<rest, todo, leases>>

LocalDo == LocalUsers /\ UNCHANGED <<rest, faults, leases>>

\* Chrome stops the worker when no command is under way either.
WorkerRestarts ==
    /\ Restarted /\ LocalRestarted
    /\ \A c \in Cmds : cmds[c] = NoCmd
    /\ lease' = [owner |-> None, left |-> 0] /\ UNCHANGED <<paused, cmds>>

LeaseInit ==
    /\ lease = [owner |-> None, left |-> 0] /\ paused = FALSE
    /\ cmds = [c \in Cmds |-> NoCmd]

Next ==
    \/ Remote \/ Local \/ LocalTimer \/ Alarm \/ LocalDo \/ WorkerRestarts
    \/ \E c \in Cmds : Arrives(c) \/ Renews(c) \/ Ends(c)
    \/ Unheard \/ Tick \/ AgentLeft \/ TogglePause

Init == LinkInit /\ LocalInit /\ LeaseInit
Spec == Init /\ [][Next]_vars

\* Awaits end, timers fire, sockets deliver, the relay comes back, and the users
\* and agents do what they set out to do.  The alarm is not needed.
FairSpec ==
    /\ Spec
    /\ \A f \in Flows : /\ WF_vars(Resume(f) /\ Remote) /\ WF_vars(Fire(f) /\ Remote)
                       /\ WF_vars(Users(f) /\ Remote)
    /\ \A s \in Socks : WF_vars(Network(s) /\ Remote)
    /\ WF_vars(RelayStarts /\ Remote)
    /\ WF_vars(Connecting /\ Local) /\ WF_vars(LocalTimer) /\ WF_vars(LocalDo)
    /\ \A s \in LSocks : WF_vars(Delivers(s) /\ Local)
    /\ WF_vars(AgentLeft) /\ WF_vars(AgentSilent /\ Local) /\ WF_vars(TogglePause) /\ WF_vars(Unheard)
    /\ \A c \in Cmds : WF_vars(Arrives(c)) /\ WF_vars(Ends(c))

-----------------------------------------------------------------------------
\* "The extension automatically discovers the next local process": when the
\* troubles are over, the worker is connected to the agent that listens, on the
\* socket that the agent calls on, and says so.
AgentIsFound ==
    <>[](\A a \in Listening :
            /\ local.socket # None /\ lsocks[local.socket].at = "open"
            /\ lsocks[local.socket].of = a /\ agent[a].socket = local.socket
            /\ local.connected)

\* When the popup says that the agent has been disconnected, its port is free.
DisconnectIsConfirmed ==
    [][ popup = "waiting" /\ popup' = "confirmed" =>
            lsocks[local.socket].of \notin Listening' ]_vars

\* No remote command begins to act while a connected local agent runs a queue,
\* however long the queue takes.
LocalFirst ==
    [][ \A c, d \in Cmds :
            Running(c, "remote")' /\ ~Running(c, "remote") /\ cmds'[c].kind # "read"
            => ~(Running(d, "local") /\ cmds[d].kind = "queue" /\ cmds[d].on # None
                 /\ cmds[d].on = local.socket) ]_vars

=============================================================================
