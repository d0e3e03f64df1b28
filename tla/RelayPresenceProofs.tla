------------------------ MODULE RelayPresenceProofs ------------------------
(***************************************************************************)
(* The state of the relay has its type, and every connection in use is in  *)
(* the table of its replica, for any replicas, connections and faults.     *)
(* RoutedIsKnown is inductive once the types are known: each handler that  *)
(* changes one of local and bridge is checked to change the other with it. *)
(***************************************************************************)
EXTENDS RelayPresence, TLAPS

LEMMA InitType == Init => TypeOK
<1>1. /\ [at |-> "idle", conn |-> None] \in RefreshState
      /\ [at |-> "idle", to |-> None] \in AdminState
  BY DEF RefreshState, AdminState
<1>2. ASSUME Init PROVE /\ refresh \in [Replicas -> RefreshState]
                        /\ admin \in [Replicas -> AdminState]
  BY <1>1, <1>2 DEF Init
<1>3. ASSUME Init PROVE faults \in 0..MaxFaults
  BY <1>3, RelayAssumption DEF Init
<1>4. ASSUME Init PROVE /\ local \in [Replicas -> Conns \cup {None}]
                        /\ bridge \in [Replicas -> Conns \cup {None}]
                        /\ sock \in [Conns -> {"new", "granted", "open", "closing", "closed"}]
                        /\ up \in [Conns -> {"no", "setting", "set", "listening", "deaf", "failed"}]
  BY <1>4 DEF Init
<1>5. ASSUME Init PROVE /\ revoked \in BOOLEAN /\ presence \in Conns \cup {None}
                        /\ home \in [Conns -> Replicas] /\ clearing \subseteq Conns
  BY <1>5 DEF Init
<1>. QED BY <1>2, <1>3, <1>4, <1>5 DEF TypeOK

\* What closing a socket does to the table of sockets.
LEMMA ClosingType ==
  ASSUME TypeOK, NEW c \in Conns \cup {None}
  PROVE  Closing(c) \in [Conns -> {"new", "granted", "open", "closing", "closed"}]
  BY DEF TypeOK, Closing

\* disconnectLocalDevice keeps the types of what it changes.
LEMMA DisconnectType ==
  ASSUME TypeOK, NEW r \in Replicas, DisconnectLocal(r)
  PROVE  /\ local' \in [Replicas -> Conns \cup {None}]
         /\ bridge' \in [Replicas -> Conns \cup {None}]
         /\ sock' \in [Conns -> {"new", "granted", "open", "closing", "closed"}]
         /\ clearing' \subseteq Conns
<1>1. bridge[r] \in Conns \cup {None} /\ local[r] \in Conns \cup {None}
  BY DEF TypeOK
<1>2. Closing(bridge[r]) \in [Conns -> {"new", "granted", "open", "closing", "closed"}]
  BY <1>1, ClosingType
<1>3. CASE local[r] = None
  BY <1>3 DEF DisconnectLocal, conns, TypeOK
<1>4. CASE local[r] # None
  BY <1>1, <1>2, <1>4 DEF DisconnectLocal, TypeOK
<1>. QED BY <1>3, <1>4

LEMMA StepType == TypeOK /\ [Next]_vars => TypeOK'
<1>. SUFFICES ASSUME TypeOK, [Next]_vars PROVE TypeOK'
  OBVIOUS
<1>. USE DEF TypeOK, conns
<1>1. CASE UNCHANGED vars
  BY <1>1 DEF vars
<1>2. ASSUME NEW c \in Conns, Knock(c) PROVE TypeOK'
  BY <1>2 DEF Knock
<1>3. ASSUME NEW c \in Conns, Attach(c) PROVE TypeOK'
  <2>1. Closing(bridge[home[c]]) \in [Conns -> {"new", "granted", "open", "closing", "closed"}]
    BY ClosingType
  <2>. QED BY <1>3, <2>1 DEF Attach
<1>4. ASSUME NEW c \in Conns, SetPresence(c) PROVE TypeOK'
  BY <1>4 DEF SetPresence
<1>5. ASSUME NEW c \in Conns, Listen(c) PROVE TypeOK'
  BY <1>5 DEF Listen
<1>6. ASSUME NEW c \in Conns, SetPresenceFails(c) PROVE TypeOK'
  <2>1. Closing(bridge[home[c]]) \in [Conns -> {"new", "granted", "open", "closing", "closed"}]
    BY ClosingType
  <2>. QED BY <1>6, <2>1, RelayAssumption DEF SetPresenceFails, Fault
<1>7. ASSUME NEW c \in Conns, Closed(c) PROVE TypeOK'
  BY <1>7 DEF Closed
<1>8. ASSUME NEW c \in Conns, ClearPresence(c) PROVE TypeOK'
  BY <1>8, RelayAssumption DEF ClearPresence, Fault
<1>9. CASE Expire
  BY <1>9, RelayAssumption DEF Expire, Fault
<1>10. ASSUME NEW r \in Replicas, Refresh(r) PROVE TypeOK'
  <2>1. CASE RefreshBegin(r)
    BY <2>1 DEF RefreshBegin, RefreshAt, RefreshState
  <2>2. CASE RefreshDevice(r)
    BY <2>2 DEF RefreshDevice, RefreshAt, RefreshState
  <2>3. CASE RefreshPresence(r)
    BY <2>3 DEF RefreshPresence, RefreshAt, RefreshState
  <2>4. CASE RefreshEvict(r)
    <3>1. refresh' \in [Replicas -> RefreshState]
      BY <2>4 DEF RefreshEvict, RefreshAt, RefreshState
    <3>. QED BY <2>4, <3>1, DisconnectType DEF RefreshEvict
  <2>5. CASE RefreshCleared(r)
    BY <2>5 DEF RefreshCleared, RefreshAt, RefreshState
  <2>. QED BY <1>10, <2>1, <2>2, <2>3, <2>4, <2>5 DEF Refresh
<1>11. ASSUME NEW r \in Replicas, RefreshFails(r) PROVE TypeOK'
  BY <1>11, RelayAssumption DEF RefreshFails, RefreshAt, RefreshState, Fault
<1>12. ASSUME NEW r \in Replicas, Revoke(r) PROVE TypeOK'
  BY <1>12 DEF Revoke, AdminAt, AdminState
<1>13. ASSUME NEW r \in Replicas, Administer(r) PROVE TypeOK'
  <2>1. CASE DisconnectHere(r)
    BY <2>1, DisconnectType DEF DisconnectHere, AdminAt, AdminState
  <2>2. CASE FindOwner(r)
    BY <2>2 DEF FindOwner, AdminAt, AdminState
  <2>3. CASE DisconnectThere(r)
    <3>1. admin[r].to \in Replicas
      BY <2>3 DEF DisconnectThere, AdminState
    <3>. QED BY <2>3, <3>1, DisconnectType DEF DisconnectThere, AdminAt, AdminState
  <2>. QED BY <1>13, <2>1, <2>2, <2>3 DEF Administer
<1>14. ASSUME NEW r \in Replicas, DisconnectFails(r) PROVE TypeOK'
  BY <1>14, RelayAssumption DEF DisconnectFails, AdminAt, AdminState, Fault
<1>15. ASSUME NEW r \in Replicas, Crash(r) PROVE TypeOK'
  BY <1>15, RelayAssumption DEF Crash, RefreshAt, RefreshState, AdminState, Fault
<1>. QED
  BY <1>1, <1>2, <1>3, <1>4, <1>5, <1>6, <1>7, <1>8, <1>9, <1>10, <1>11,
     <1>12, <1>13, <1>14, <1>15 DEF Next, Upgrade

\* The state has its type in every reachable state.
THEOREM RelayTypeCorrect == Spec => []TypeOK
<1>1. Init => TypeOK
  BY InitType
<1>2. TypeOK /\ [Next]_vars => TypeOK'
  BY StepType
<1>. QED BY <1>1, <1>2, PTL DEF Spec

-----------------------------------------------------------------------------
LEMMA StepRouted == TypeOK /\ RoutedIsKnown /\ [Next]_vars => RoutedIsKnown'
<1>. SUFFICES ASSUME TypeOK, RoutedIsKnown, [Next]_vars PROVE RoutedIsKnown'
  OBVIOUS
<1>. USE DEF RoutedIsKnown
<1>0. /\ local \in [Replicas -> Conns \cup {None}]
      /\ bridge \in [Replicas -> Conns \cup {None}]
      /\ \A c \in Conns : c # None /\ home[c] \in Replicas
  BY RelayAssumption DEF TypeOK
\* disconnectLocalDevice takes the connection out of both.
<1>d. ASSUME NEW r \in Replicas, DisconnectLocal(r) PROVE RoutedIsKnown'
  BY <1>0, <1>d DEF DisconnectLocal, conns
<1>1. CASE UNCHANGED <<local, bridge>>
  BY <1>1
<1>2. ASSUME NEW c \in Conns, Attach(c) PROVE RoutedIsKnown'
  BY <1>0, <1>2 DEF Attach
<1>3. ASSUME NEW c \in Conns, SetPresenceFails(c) PROVE RoutedIsKnown'
  BY <1>0, <1>3 DEF SetPresenceFails
\* The handler takes c out of the table only when the table names c, so the
\* bridge has no other connection.
<1>4. ASSUME NEW c \in Conns, Closed(c) PROVE RoutedIsKnown'
  BY <1>0, <1>4 DEF Closed
<1>5. ASSUME NEW r \in Replicas, Crash(r) PROVE RoutedIsKnown'
  BY <1>0, <1>5 DEF Crash
<1>6. ASSUME NEW r \in Replicas, RefreshEvict(r) \/ DisconnectHere(r)
      PROVE  RoutedIsKnown'
  BY <1>d, <1>6 DEF RefreshEvict, DisconnectHere
<1>7. ASSUME NEW r \in Replicas, DisconnectThere(r) PROVE RoutedIsKnown'
  <2>1. admin[r].to \in Replicas
    BY <1>7 DEF DisconnectThere, TypeOK, AdminState
  <2>. QED BY <1>d, <1>7, <2>1 DEF DisconnectThere
<1>8. ASSUME Next PROVE \/ UNCHANGED <<local, bridge>>
                        \/ \E c \in Conns : Attach(c) \/ SetPresenceFails(c) \/ Closed(c)
                        \/ \E r \in Replicas :
                              \/ Crash(r) \/ RefreshEvict(r)
                              \/ DisconnectHere(r) \/ DisconnectThere(r)
  BY <1>8 DEF Next, Upgrade, Refresh, Administer, Knock, SetPresence, Listen,
     ClearPresence, Expire, RefreshBegin, RefreshDevice, RefreshPresence,
     RefreshCleared, RefreshFails, Revoke, FindOwner, DisconnectFails, conns
<1>. QED BY <1>1, <1>2, <1>3, <1>4, <1>5, <1>6, <1>7, <1>8 DEF vars

\* Every connection that calls are sent on is in its replica's table.
THEOREM RelayRoutedIsKnown == Spec => []RoutedIsKnown
<1>1. Init => TypeOK /\ RoutedIsKnown
  BY InitType DEF Init, RoutedIsKnown
<1>2. TypeOK /\ RoutedIsKnown /\ [Next]_vars => (TypeOK /\ RoutedIsKnown)'
  BY StepType, StepRouted
<1>. QED BY <1>1, <1>2, PTL DEF Spec
=============================================================================
