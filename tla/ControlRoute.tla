---------------------------- MODULE ControlRoute ----------------------------
(***************************************************************************)
(* The way of a tool call to one browser: the exclusive lease              *)
(* (ControlLease), the calls over the extension's WebSocket                *)
(* (ExtensionBridge), the device's route (DeviceRouter) and the handler of *)
(* the tools that drives them (handleBrowserToolCall).                     *)
(*                                                                         *)
(* Time passes in ticks.  A timer that is due fires before the next tick;  *)
(* within one tick everything may happen in any order.  The extension and  *)
(* the network answer when they like, or never.                            *)
(*                                                                         *)
(* Definitions whose comment begins with "Faulty" are variants that no     *)
(* specification uses (see ActionQueue).                                   *)
(***************************************************************************)
EXTENDS Naturals

CONSTANTS
    Calls,      \* the calls of browser tools, each made once
    Clients,    \* the MCP clients
    Sockets,    \* the WebSocket connections of the extension, one after another
    None,       \* null
    ClientOf,   \* ClientOf[r]: who makes call r
    KindsOf,    \* KindsOf[r]: the kinds of tool that r may call
    LeaseTicks, \* ttlMs of ControlLease
    CallTicks,  \* timeoutMs of an ordinary bridge.call
    LongTicks,  \* timeoutMs of action_queue and fill_profile
    FreesLease, \* the gateway frees the lease with a connection, the local server does not
    KeepTicks   \* period of the keepLease interval

\* read: a tool that takes no lease.  status: browser_status.  short: a tool
\* that acts on the page.  long: action_queue and fill_profile.  click:
\* browser_click, tried again when its observation is stale.
Kinds == {"read", "status", "short", "long", "click"}

ASSUME RouteAssumption ==
    /\ ClientOf \in [Calls -> Clients]
    /\ KindsOf \in [Calls -> SUBSET Kinds]
    /\ FreesLease \in BOOLEAN
    /\ None \notin Clients \cup Sockets
    /\ {LeaseTicks, CallTicks, LongTicks, KeepTicks} \subseteq Nat \ {0}
    /\ CallTicks < LeaseTicks
    /\ KeepTicks < LeaseTicks

VARIABLES
    kind,    \* kind[r]: the kind of tool that r calls; it never changes
    conn,    \* conn[s]: readyState of the gateway's end of connection s
    current, \* ExtensionBridge.socket
    owner,   \* ControlLease.owner
    lease,   \* ticks until ControlLease.expiresAt
    tool,    \* tool[r]: what the caller of r knows
    step,    \* step[r]: which of its remote calls r awaits
    via,     \* via[r]: the connection that call was sent on
    left,    \* left[r]: ticks until its timer
    keep,    \* keep[r]: ticks until the keepLease interval of r fires
    at,      \* at[r]: where that call is, seen from outside
    waived   \* history: calls whose client has released control since they began

vars == <<kind, conn, current, owner, lease, tool, step, via, left, keep, at, waived>>

TypeOK ==
    /\ kind \in [Calls -> Kinds]
    /\ conn \in [Sockets -> {"new", "open", "closing", "closed"}]
    /\ current \in Sockets \cup {None}
    /\ owner \in Clients \cup {None}
    /\ lease \in 0..LeaseTicks
    /\ tool \in [Calls -> {"new", "pending", "done", "failed"}]
    /\ step \in [Calls -> {"act", "snapshot", "again"}]
    /\ via \in [Calls -> Sockets \cup {None}]
    /\ left \in [Calls -> Nat]
    /\ keep \in [Calls -> 0..KeepTicks]
    \* acting: the extension executes it; answered: the reply is on its way
    /\ at \in [Calls -> {"nowhere", "sent", "acting", "answered"}]
    /\ waived \subseteq Calls

Pending  == {r \in Calls : tool[r] = "pending"}
Mutating == {r \in Calls : kind[r] \in {"short", "long", "click"}}
\* The snapshot between the two attempts of a click reads only.
Acts(r)  == r \in Mutating /\ step[r] # "snapshot"

Init ==
    /\ kind \in [Calls -> Kinds] /\ \A r \in Calls : kind[r] \in KindsOf[r]
    /\ conn = [s \in Sockets |-> "new"]
    /\ current = None
    /\ owner = None
    /\ lease = 0
    /\ tool = [r \in Calls |-> "new"]
    /\ step = [r \in Calls |-> "act"]
    /\ via = [r \in Calls |-> None]
    /\ left = [r \in Calls |-> 0]
    /\ keep = [r \in Calls |-> 0]
    /\ at = [r \in Calls |-> "nowhere"]
    /\ waived = {}

-----------------------------------------------------------------------------
(* ControlLease *)

MayAcquire(c) == owner \in {None, c} \/ lease = 0

Acquire(c) ==
    /\ MayAcquire(c)
    /\ owner' = c
    /\ lease' = LeaseTicks

Clear == owner' = None /\ lease' = 0

\* status() forgets an expired owner.
Status ==
    IF owner # None /\ lease = 0 THEN Clear ELSE UNCHANGED <<owner, lease>>

-----------------------------------------------------------------------------
(* ExtensionBridge.  The operators give the part of the state they change. *)

Connected == current # None /\ conn[current] = "open"

TimeoutOf(r) == IF kind[r] = "long" THEN LongTicks ELSE CallTicks

\* The handlers of the calls in S end, and their timers are cleared.
End(S, how) ==
    /\ tool' = [r \in Calls |-> IF r \in S THEN how ELSE tool[r]]
    /\ left' = [r \in Calls |-> IF r \in S THEN 0 ELSE left[r]]
    /\ keep' = [r \in Calls |-> IF r \in S THEN 0 ELSE keep[r]]

\* The handler of r ends on a reply, or before anything is remote.
Answer(r, how) ==
    /\ End({r}, how)
    /\ at' = [at EXCEPT ![r] = "nowhere"]
    /\ via' = [via EXCEPT ![r] = None]
    /\ step' = [step EXCEPT ![r] = "act"]

\* call: the remote call for step s of r, refused at once when offline.
Call(r, s) ==
    \/ /\ Connected
       /\ tool' = [tool EXCEPT ![r] = "pending"]
       /\ step' = [step EXCEPT ![r] = s]
       /\ via' = [via EXCEPT ![r] = current]
       /\ left' = [left EXCEPT ![r] = TimeoutOf(r)]
       /\ keep' = [keep EXCEPT ![r] = KeepTicks]
       /\ at' = [at EXCEPT ![r] = "sent"]
    \/ ~Connected /\ Answer(r, "failed")

\* failPending rejects every pending call; the extension knows nothing of it.
FailPending == End(Pending, "failed")

\* What travels on connection s is lost with it.
Lost(s) ==
    [r \in Calls |->
        IF via[r] = s /\ at[r] \in {"sent", "answered"} THEN "nowhere" ELSE at[r]]

-----------------------------------------------------------------------------
(* handleBrowserToolCall *)

\* Faulty: forgets the lease.
MutateAnyhow(r, s) ==
    /\ waived' = waived \ {r}
    /\ Call(r, s)
    /\ UNCHANGED <<owner, lease>>

\* mutate: the lease first, then the remote call.
Mutate(r, s) ==
    \/ /\ Acquire(ClientOf[r])
       /\ waived' = waived \ {r}
       /\ Call(r, s)
    \/ /\ ~MayAcquire(ClientOf[r])  \* DEVICE_BUSY
       /\ Answer(r, "failed")
       /\ UNCHANGED <<owner, lease, waived>>

ToolCall(r) ==
    /\ tool[r] = "new"
    /\ \/ r \in Mutating /\ Mutate(r, "act")
       \/ kind[r] = "read" /\ Call(r, "act") /\ UNCHANGED <<owner, lease, waived>>
       \/ /\ kind[r] = "status" /\ Connected
          /\ Call(r, "act") /\ UNCHANGED <<owner, lease, waived>>
       \/ /\ kind[r] = "status" /\ ~Connected
          /\ Answer(r, "done") /\ Status /\ UNCHANGED waived
    /\ UNCHANGED <<conn, current>>

\* A reply arrives, and the handler goes on.  A reply nobody waits for, after
\* a timeout or a reconnection, is dropped.
Reply(r, how) ==
    /\ at[r] = "answered"
    /\ conn[via[r]] \in {"open", "closing"}
    /\ \/ /\ tool[r] # "pending"
          /\ at' = [at EXCEPT ![r] = "nowhere"]
          /\ UNCHANGED <<owner, lease, tool, step, via, left, keep, waived>>
       \/ /\ tool[r] = "pending"
          /\ \/ how = "error" /\ Answer(r, "failed") /\ UNCHANGED <<owner, lease, waived>>
             \/ /\ how = "stale" /\ kind[r] = "click"
                /\ \/ /\ step[r] = "act"
                      /\ Call(r, "snapshot") /\ UNCHANGED <<owner, lease, waived>>
                   \/ /\ step[r] = "again"
                      /\ Answer(r, "failed") /\ UNCHANGED <<owner, lease, waived>>
             \/ /\ how = "result"
                /\ \/ step[r] = "snapshot" /\ Mutate(r, "again")
                   \/ /\ step[r] # "snapshot"
                      /\ Answer(r, "done")
                      /\ IF kind[r] = "status" THEN Status ELSE UNCHANGED <<owner, lease>>
                      /\ UNCHANGED waived
    /\ UNCHANGED <<conn, current>>

\* Faulty: a long call has no timer.
TimeoutUnlessLong(r) ==
    /\ r \in Pending /\ kind[r] # "long"
    /\ left[r] = 0
    /\ End({r}, "failed")
    /\ UNCHANGED <<conn, current, owner, lease, step, via, at, waived>>

\* The timer of the remote call.  The extension is not told.
Timeout(r) ==
    /\ r \in Pending
    /\ left[r] = 0
    /\ End({r}, "failed")
    /\ UNCHANGED <<conn, current, owner, lease, step, via, at, waived>>

\* Faulty: no clearInterval.
KeepingForever == {r \in Calls : kind[r] = "long" /\ tool[r] # "new"}

\* Faulty: no setInterval.
KeepingNothing == {}

\* The calls whose keepLease interval is set.
Keeping == {r \in Pending : kind[r] = "long"}

\* keepLease: what acquire returns is not looked at.
KeepLease(r) ==
    /\ r \in Keeping
    /\ keep[r] = 0
    /\ keep' = [keep EXCEPT ![r] = KeepTicks]
    /\ \/ Acquire(ClientOf[r])
       \/ ~MayAcquire(ClientOf[r]) /\ UNCHANGED <<owner, lease>>
    /\ UNCHANGED <<conn, current, tool, step, via, left, at, waived>>

\* browser_release_control, also while calls of the same client are pending.
Release(c) ==
    /\ owner = c
    /\ Clear
    /\ waived' = waived \cup {r \in Calls : ClientOf[r] = c /\ tool[r] # "new"}
    /\ UNCHANGED <<conn, current, tool, step, via, left, keep, at>>

-----------------------------------------------------------------------------
(* Connections: attach, the close event, disconnect. *)

\* The extension connects.  The gateway frees the lease, the local server does
\* not (gateway.ts:737, extension-server.ts:195).
Attach(s) ==
    /\ conn[s] = "new"
    /\ current' = s
    /\ conn' = [u \in Sockets |->
                  IF u = s THEN "open"
                  ELSE IF u = current /\ conn[u] = "open" THEN "closing" ELSE conn[u]]
    /\ IF current # None THEN FailPending ELSE UNCHANGED <<tool, left, keep>>
    /\ IF FreesLease THEN Clear ELSE UNCHANGED <<owner, lease>>
    /\ UNCHANGED <<step, via, at, waived>>

\* The extension's end closes, or the network fails.
Closing(s) ==
    /\ conn[s] = "open"
    /\ conn' = [conn EXCEPT ![s] = "closing"]
    /\ UNCHANGED <<current, owner, lease, tool, step, via, left, keep, at, waived>>

\* The close event: only that of the current connection fails calls.
Closed(s) ==
    /\ conn[s] = "closing"
    /\ conn' = [conn EXCEPT ![s] = "closed"]
    /\ at' = Lost(s)
    /\ \/ current = s /\ current' = None /\ FailPending
       \/ current # s /\ UNCHANGED <<current, tool, left, keep>>
    /\ UNCHANGED <<owner, lease, step, via, waived>>

\* disconnect: of the router, which frees the lease, or of the local server.
Disconnect ==
    /\ current # None
    /\ IF FreesLease THEN Clear ELSE UNCHANGED <<owner, lease>>
    /\ current' = None
    /\ conn' = [conn EXCEPT ![current] = IF @ = "open" THEN "closing" ELSE @]
    /\ FailPending
    /\ UNCHANGED <<step, via, at, waived>>

-----------------------------------------------------------------------------
(* The extension: it begins a command as it arrives, whatever else it is   *)
(* doing, and carries it through although its connection closes.           *)

Deliver(r) ==
    /\ at[r] = "sent"
    /\ conn[via[r]] = "open"
    /\ at' = [at EXCEPT ![r] = "acting"]
    /\ UNCHANGED <<conn, current, owner, lease, tool, step, via, left, keep, waived>>

Finish(r) ==
    /\ at[r] = "acting"
    /\ at' = [at EXCEPT ![r] = IF conn[via[r]] = "open" THEN "answered" ELSE "nowhere"]
    /\ UNCHANGED <<conn, current, owner, lease, tool, step, via, left, keep, waived>>

-----------------------------------------------------------------------------
Minus(n) == IF n = 0 THEN 0 ELSE n - 1

\* Time passes when no timer is due.
Tick ==
    /\ \A r \in Pending : left[r] # 0
    /\ \A r \in Keeping : keep[r] # 0
    /\ lease' = Minus(lease)
    /\ left' = [r \in Calls |-> IF r \in Pending THEN Minus(left[r]) ELSE left[r]]
    /\ keep' = [r \in Calls |-> IF r \in Keeping THEN Minus(keep[r]) ELSE keep[r]]
    /\ UNCHANGED <<conn, current, owner, tool, step, via, at, waived>>

Step ==
    \/ \E r \in Calls : \/ ToolCall(r) \/ Timeout(r) \/ KeepLease(r)
                        \/ Deliver(r) \/ Finish(r)
                        \/ \E how \in {"result", "error", "stale"} : Reply(r, how)
    \/ \E c \in Clients : Release(c)
    \/ \E s \in Sockets : Attach(s) \/ Closing(s) \/ Closed(s)
    \/ Disconnect
    \/ Tick

Next == Step /\ UNCHANGED kind

\* Time goes on and timers fire; nothing is asked of the extension.
Fairness ==
    /\ WF_vars(Tick /\ UNCHANGED kind)
    /\ \A r \in Calls : WF_vars((Timeout(r) \/ KeepLease(r)) /\ UNCHANGED kind)

Spec == Init /\ [][Next]_vars /\ Fairness

-----------------------------------------------------------------------------
(* Properties. *)

\* Every pending remote call was sent on the connection the bridge now holds:
\* a replaced or closed connection leaves no call behind (bridge.ts:29-73).
PendingOnCurrent == \A r \in Pending : via[r] = current /\ current # None

\* While a tool that acts on the page is pending, its client holds the lease
\* and the lease outlasts it, unless the client itself gave it up.
LeaseCoversCall ==
    \A r \in Pending : Acts(r) /\ r \notin waived => owner = ClientOf[r] /\ lease > 0

\* Two clients never have tools that act on the page pending at the same time,
\* unless one gave up the lease with a call of its own pending.
OneClientActs ==
    \A r, u \in Pending :
        Acts(r) /\ Acts(u) /\ {r, u} \cap waived = {} => ClientOf[r] = ClientOf[u]

\* A tool call is answered, with or without the extension.
EveryCallAnswered == \A r \in Calls : tool[r] = "pending" ~> tool[r] \in {"done", "failed"}

\* No client keeps the others out for ever: a lease ends.
LeaseEnds == \A c \in Clients : owner = c ~> owner = None \/ lease = 0

\* "interactive control is leased so independent agents do not simultaneously
\* drive the same device" (README.md:544): commands that two clients sent never
\* execute in the extension at the same time, unless one has given control up.
OneClientDrives ==
    \A r, u \in Calls :
        at[r] = "acting" /\ at[u] = "acting" /\ Acts(r) /\ Acts(u)
            /\ {r, u} \cap waived = {} => ClientOf[r] = ClientOf[u]
=============================================================================
