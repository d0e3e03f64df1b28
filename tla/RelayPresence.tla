--------------------------- MODULE RelayPresence ---------------------------
(***************************************************************************)
(* Which replica of the relay holds a device's WebSocket, and what the     *)
(* presence record in Redis says of it (gateway.ts, relay-state.ts).       *)
(*                                                                         *)
(* One device: devices share no state but the loop of the refresh timer.   *)
(* An await of a Redis command is two steps, Redis executing the command   *)
(* and the replica handling the reply, wherever another handler of the     *)
(* replica can tell.  A command that fails, a lapse of the presence while  *)
(* its owner lives and a crash of a replica are counted in faults.         *)
(*                                                                         *)
(* Definitions whose comment begins with "Faulty" are variants that no     *)
(* specification uses (see ActionQueue).                                   *)
(***************************************************************************)
EXTENDS Naturals

CONSTANTS
    Replicas,  \* the replicas of the relay
    Conns,     \* connectionIds: the device's WebSockets, each opened once
    Homes,     \* Homes[c]: the replicas that c may reach
    None,      \* null
    MaxFaults  \* bound of faults

ASSUME RelayAssumption ==
    /\ None \notin Conns \cup Replicas
    /\ Homes \in [Conns -> SUBSET Replicas]
    /\ MaxFaults \in Nat

VARIABLES
    revoked,   \* the device record has revokedAt, its token keys are deleted
    presence,  \* the presence key: the connection it names, or None
    home,      \* home[c]: the replica that c reaches
    local,     \* local[r]: localConnections of r
    bridge,    \* bridge[r]: ExtensionBridge.socket of r's route
    sock,      \* sock[c]: what r knows of the socket
    up,        \* up[c]: how far the upgrade handler of c is
    clearing,  \* connections whose clearPresence is on its way
    refresh,   \* refresh[r]: the refresh loop of r, and the connection it read
    admin,     \* admin[r]: DELETE /devices/:id at r
    faults     \* history: what went wrong so far

vars == <<revoked, presence, home, local, bridge, sock, up, clearing, refresh,
          admin, faults>>
conns  == <<local, bridge, sock, clearing>>

RefreshState == [at : {"idle", "evict"}, conn : {None}]
                \cup [at : {"device", "presence", "clearing"}, conn : Conns]
\* at = post, local: the disconnect is to be done by replica "to"
AdminState == [at : {"idle", "revoked", "lookup", "done"}, to : {None}]
              \cup [at : {"post", "local"}, to : Replicas]

TypeOK ==
    /\ revoked \in BOOLEAN
    /\ presence \in Conns \cup {None}
    /\ home \in [Conns -> Replicas]
    /\ local \in [Replicas -> Conns \cup {None}]
    /\ bridge \in [Replicas -> Conns \cup {None}]
    /\ sock \in [Conns -> {"new", "granted", "open", "closing", "closed"}]
    /\ up \in [Conns -> {"no", "setting", "set", "listening", "deaf", "failed"}]
    /\ clearing \subseteq Conns
    /\ refresh \in [Replicas -> RefreshState]
    /\ admin \in [Replicas -> AdminState]
    /\ faults \in 0..MaxFaults

Init ==
    /\ revoked = FALSE
    /\ presence = None
    /\ home \in [Conns -> Replicas] /\ \A c \in Conns : home[c] \in Homes[c]
    /\ local = [r \in Replicas |-> None]
    /\ bridge = [r \in Replicas |-> None]
    /\ sock = [c \in Conns |-> "new"]
    /\ up = [c \in Conns |-> "no"]
    /\ clearing = {}
    /\ refresh = [r \in Replicas |-> [at |-> "idle", conn |-> None]]
    /\ admin = [r \in Replicas |-> [at |-> "idle", to |-> None]]
    /\ faults = 0

Fault == faults < MaxFaults /\ faults' = faults + 1

\* deviceRouter.isConnected
Connected(r) == bridge[r] # None /\ sock[bridge[r]] = "open"

\* socket.close by the relay: the close event comes later.
Closing(c) == IF c # None /\ sock[c] = "open"
              THEN [sock EXCEPT ![c] = "closing"] ELSE sock

\* The part of disconnectLocalDevice before its await; it disconnects
\* whatever connection r has now.
DisconnectLocal(r) ==
    IF local[r] = None THEN UNCHANGED conns
    ELSE /\ local' = [local EXCEPT ![r] = None]
         /\ bridge' = [bridge EXCEPT ![r] = None]
         /\ sock' = Closing(bridge[r])
         /\ clearing' = clearing \cup {local[r]}

-----------------------------------------------------------------------------
(* The upgrade of the extension's WebSocket *)

\* The upgrade request arrives; Redis looks up the digest of its token.
Knock(c) ==
    /\ sock[c] = "new"
    /\ sock' = [sock EXCEPT ![c] = IF revoked THEN "closed" ELSE "granted"]
    /\ UNCHANGED <<revoked, presence, home, local, bridge, up, clearing, refresh,
                   admin, faults>>

\* The callback of handleUpgrade up to the await of setPresence.
Attach(c) ==
    LET r == home[c] IN
    /\ sock[c] = "granted"
    /\ bridge' = [bridge EXCEPT ![r] = c]
    /\ local' = [local EXCEPT ![r] = c]
    /\ sock' = [Closing(bridge[r]) EXCEPT ![c] = "open"]
    /\ up' = [up EXCEPT ![c] = "setting"]
    /\ UNCHANGED <<revoked, presence, home, clearing, refresh, admin, faults>>

SetPresence(c) ==
    /\ up[c] = "setting"
    /\ presence' = c
    /\ up' = [up EXCEPT ![c] = "set"]
    /\ UNCHANGED <<revoked, home, conns, refresh, admin, faults>>

\* The catch: before or after Redis executed the SET.  It deletes and
\* disconnects by device, whatever connection r has now.
SetPresenceFails(c) ==
    LET r == home[c] IN
    /\ up[c] \in {"setting", "set"}
    /\ Fault
    /\ up' = [up EXCEPT ![c] = "failed"]
    /\ local' = [local EXCEPT ![r] = None]
    /\ bridge' = [bridge EXCEPT ![r] = None]
    /\ sock' = Closing(bridge[r])
    /\ UNCHANGED <<revoked, presence, home, clearing, refresh, admin>>

\* After the await: ws.once("close").  A socket that closed before is deaf.
Listen(c) ==
    /\ up[c] = "set"
    /\ up' = [up EXCEPT ![c] = IF sock[c] = "closed" THEN "deaf" ELSE "listening"]
    /\ UNCHANGED <<revoked, presence, home, conns, refresh, admin, faults>>

\* Faulty: the handler clears the presence and keeps the local entry.
ClosedForgetful(c) ==
    LET r == home[c]
        mine == up[c] = "listening" /\ local[r] = c
    IN
    /\ sock[c] \in {"open", "closing"}
    /\ sock' = [sock EXCEPT ![c] = "closed"]
    /\ bridge' = IF bridge[r] = c THEN [bridge EXCEPT ![r] = None] ELSE bridge
    /\ clearing' = IF mine THEN clearing \cup {c} ELSE clearing
    /\ UNCHANGED <<revoked, presence, home, local, up, refresh, admin, faults>>

\* The close event: the handler of the bridge, then that of the upgrade.
Closed(c) ==
    LET r == home[c]
        mine == up[c] = "listening" /\ local[r] = c
    IN
    /\ sock[c] \in {"open", "closing"}
    /\ sock' = [sock EXCEPT ![c] = "closed"]
    /\ bridge' = IF bridge[r] = c THEN [bridge EXCEPT ![r] = None] ELSE bridge
    /\ local' = IF mine THEN [local EXCEPT ![r] = None] ELSE local
    /\ clearing' = IF mine THEN clearing \cup {c} ELSE clearing
    /\ UNCHANGED <<revoked, presence, home, up, refresh, admin, faults>>

-----------------------------------------------------------------------------
(* Presence *)

\* clearPresence deletes the record of its own connection only; errors are
\* ignored.
ClearPresence(c) ==
    /\ c \in clearing
    /\ clearing' = clearing \ {c}
    /\ \/ /\ presence' = IF presence = c THEN None ELSE presence
          /\ UNCHANGED faults
       \/ Fault /\ UNCHANGED presence
    /\ UNCHANGED <<revoked, home, local, bridge, sock, up, refresh, admin>>

\* The time to live ends: nobody refreshes the record, or its owner missed
\* the refreshes of a whole period.
Expire ==
    /\ presence # None
    /\ presence' = None
    /\ \/ \A r \in Replicas : local[r] # presence
          /\ UNCHANGED faults
       \/ Fault
    /\ UNCHANGED <<revoked, home, conns, up, refresh, admin>>

RefreshAt(r, at, c) == refresh' = [refresh EXCEPT ![r] = [at |-> at, conn |-> c]]

\* The interval fires, unless the previous round is still running.
RefreshBegin(r) ==
    /\ refresh[r].at = "idle" /\ local[r] # None
    /\ RefreshAt(r, "device", local[r])
    /\ UNCHANGED <<revoked, presence, home, conns, up, admin, faults>>

\* Faulty: the revocation is left to the handler of the DELETE.
RefreshDeviceBlind(r) ==
    /\ refresh[r].at = "device"
    /\ RefreshAt(r, "presence", refresh[r].conn)
    /\ UNCHANGED <<revoked, presence, home, conns, up, admin, faults>>

\* getDevice
RefreshDevice(r) ==
    /\ refresh[r].at = "device"
    /\ IF revoked THEN RefreshAt(r, "evict", None)
       ELSE RefreshAt(r, "presence", refresh[r].conn)
    /\ UNCHANGED <<revoked, presence, home, conns, up, admin, faults>>

\* Faulty: a lapsed record is not written again.
RefreshPresenceOnly(r) ==
    LET c == refresh[r].conn IN
    /\ refresh[r].at = "presence"
    /\ UNCHANGED presence
    /\ RefreshAt(r, IF presence \in {c, None} THEN "idle" ELSE "evict", None)
    /\ UNCHANGED <<revoked, home, conns, up, admin, faults>>

\* refreshPresence: one Lua script in Redis.
RefreshPresence(r) ==
    LET c == refresh[r].conn IN
    /\ refresh[r].at = "presence"
    /\ IF presence \in {c, None}
       THEN presence' = c /\ RefreshAt(r, "idle", None)
       ELSE UNCHANGED presence /\ RefreshAt(r, "evict", None)
    /\ UNCHANGED <<revoked, home, conns, up, admin, faults>>

\* The device is revoked or moved: disconnectLocalDevice, whose await keeps
\* the loop until the presence is cleared.
RefreshEvict(r) ==
    /\ refresh[r].at = "evict"
    /\ IF local[r] = None THEN RefreshAt(r, "idle", None)
       ELSE RefreshAt(r, "clearing", local[r])
    /\ DisconnectLocal(r)
    /\ UNCHANGED <<revoked, presence, home, up, admin, faults>>

RefreshCleared(r) ==
    /\ refresh[r].at = "clearing" /\ refresh[r].conn \notin clearing
    /\ RefreshAt(r, "idle", None)
    /\ UNCHANGED <<revoked, presence, home, conns, up, admin, faults>>

\* A command of the refresh fails: a warning, and the next device.
RefreshFails(r) ==
    /\ refresh[r].at \in {"device", "presence"}
    /\ Fault
    /\ RefreshAt(r, "idle", None)
    /\ UNCHANGED <<revoked, presence, home, conns, up, admin>>

-----------------------------------------------------------------------------
(* DELETE /devices/:id: revoke, then disconnectDeviceWhereverItLives *)

AdminAt(r, at, to) == admin' = [admin EXCEPT ![r] = [at |-> at, to |-> to]]

\* revoke: one Lua script, that succeeds once.
Revoke(r) ==
    /\ admin[r].at = "idle" /\ ~revoked
    /\ revoked' = TRUE
    /\ AdminAt(r, "revoked", None)
    /\ UNCHANGED <<presence, home, conns, up, refresh, faults>>

\* The device is connected here, or Redis is asked where.
DisconnectHere(r) ==
    /\ admin[r].at = "revoked"
    /\ AdminAt(r, IF local[r] = None THEN "lookup" ELSE "done", None)
    /\ DisconnectLocal(r)
    /\ UNCHANGED <<revoked, presence, home, up, refresh, faults>>

FindOwner(r) ==
    /\ admin[r].at = "lookup"
    /\ IF presence = None THEN AdminAt(r, "done", None)
       ELSE AdminAt(r, IF home[presence] = r THEN "local" ELSE "post", home[presence])
    /\ UNCHANGED <<revoked, presence, home, conns, up, refresh, faults>>

\* disconnectLocalDevice, here or in the owner's /internal/device/disconnect.
DisconnectThere(r) ==
    /\ admin[r].at \in {"local", "post"}
    /\ AdminAt(r, "done", None)
    /\ DisconnectLocal(admin[r].to)
    /\ UNCHANGED <<revoked, presence, home, up, refresh, faults>>

\* The POST or the lookup fails: the answer says so, nothing tries again.
DisconnectFails(r) ==
    /\ admin[r].at \in {"lookup", "post"}
    /\ Fault
    /\ AdminAt(r, "done", None)
    /\ UNCHANGED <<revoked, presence, home, conns, up, refresh>>

-----------------------------------------------------------------------------
(* A replica crashes and is started again.                                  *)

Crash(r) ==
    LET Mine == {c \in Conns : home[c] = r /\ sock[c] # "new"} IN
    /\ Fault
    /\ local' = [local EXCEPT ![r] = None]
    /\ bridge' = [bridge EXCEPT ![r] = None]
    /\ sock' = [c \in Conns |-> IF c \in Mine THEN "closed" ELSE sock[c]]
    /\ up' = [c \in Conns |-> IF c \in Mine THEN "no" ELSE up[c]]
    /\ \E C \in SUBSET {c \in clearing : home[c] = r} : clearing' = clearing \ C
    /\ RefreshAt(r, "idle", None)
    /\ admin' = IF admin[r].at = "idle" THEN admin
                ELSE [admin EXCEPT ![r] = [at |-> "done", to |-> None]]
    /\ UNCHANGED <<revoked, presence, home>>

-----------------------------------------------------------------------------
Upgrade(c) == Attach(c) \/ SetPresence(c) \/ Listen(c)
Refresh(r) ==
    \/ RefreshBegin(r) \/ RefreshDevice(r) \/ RefreshPresence(r)
    \/ RefreshEvict(r) \/ RefreshCleared(r)
Administer(r) == DisconnectHere(r) \/ FindOwner(r) \/ DisconnectThere(r)

Next ==
    \/ \E c \in Conns :
          Knock(c) \/ Upgrade(c) \/ SetPresenceFails(c) \/ Closed(c) \/ ClearPresence(c)
    \/ Expire
    \/ \E r \in Replicas :
          \/ Refresh(r) \/ RefreshFails(r)
          \/ Revoke(r) \/ Administer(r) \/ DisconnectFails(r)
          \/ Crash(r)

\* Redis answers, timers fire, and a socket the relay closes does close (the
\* library ends it after 30 s).  Nobody has to connect, revoke or fail, and
\* an open socket may stay open.
Fairness ==
    /\ \A c \in Conns :
          /\ WF_vars(Upgrade(c))
          /\ WF_vars(ClearPresence(c))
          /\ WF_vars(sock[c] = "closing" /\ Closed(c))
    /\ WF_vars(Expire)
    /\ \A r \in Replicas : WF_vars(Refresh(r)) /\ WF_vars(Administer(r))

Spec == Init /\ [][Next]_vars /\ Fairness

-----------------------------------------------------------------------------
(* Properties *)

\* The connection a replica's calls are sent on is the one its table of
\* connections names, so that a revocation, a move and the refresh, which go
\* by the table, reach every connection that is in use.  Upgrades, close
\* events of older sockets, failures and crashes each change the two.
RoutedIsKnown ==
    \A r \in Replicas : bridge[r] # None => local[r] = bridge[r]

\* A revoked device ends up connected to no replica, even when it was being
\* upgraded while it was revoked or the request to its replica failed: the
\* refresh of its replica looks at the device record.
RevokedIsCut == <>[](revoked => \A r \in Replicas : ~Connected(r))

\* A connection that stays routed is the one that the presence record names,
\* again and again: other replicas forward to it, whatever older connections,
\* lapses and lost commands did to the record.
RoutedIsPresent ==
    \A c \in Conns : []<>(bridge[home[c]] # c \/ presence = c)

\* The record of a connection that has closed does not stay, if the handler
\* of its close event was there in time.
ClosedFades ==
    \A c \in Conns : []<>(sock[c] = "closed" => presence # c \/ up[c] = "deaf")

\* What the documentation says: the owner refreshes the record "while the
\* WebSocket remains healthy".  So that of a closed one ends.
OnlyHealthyIsPresent == \A c \in Conns : []<>(sock[c] = "closed" => presence # c)

\* A connection whose record cannot be set takes no newer one with it: the catch
\* goes by the device (gateway.ts:757-758), so it does.
FailsAlone == [][\A c \in Conns : SetPresenceFails(c) => bridge[home[c]] \in {c, None}]_vars

\* The refresh cuts no connection that the record names, unless the device is
\* revoked: it goes by the device as well (gateway.ts:808), and does.
RefreshSparesPresent ==
    [][\A r \in Replicas :
          RefreshEvict(r) /\ ~revoked => bridge[r] = None \/ presence # bridge[r]]_vars
=============================================================================
