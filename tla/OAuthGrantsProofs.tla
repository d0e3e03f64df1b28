------------------------- MODULE OAuthGrantsProofs -------------------------
(***************************************************************************)
(* The five properties of OAuthGrants, for any number of requests, clients, *)
(* approvals, grants, codes and tokens and any bound of the rotations.      *)
(*                                                                         *)
(* OAuthTypeOK says what every request has in hand at each of its steps.    *)
(* On it rest five inductive invariants that do not need each other:        *)
(* DeviceInv (a version is never of the future), KeysTaken and              *)
(* ApprovalsTaken (what was taken is in the hands of one request),          *)
(* GrantsGone (who may still write a grant), and Listed (the index is       *)
(* written before the tokens).                                             *)
(***************************************************************************)
EXTENDS OAuthGrants, TLAPS

-----------------------------------------------------------------------------
(* Types                                                                   *)

\* The steps of each request, and what it has in hand at each of them.
HandlerOK(r) ==
    /\ r \in HandlerState
    /\ \/ r.at \in {"idle", "dead"} /\ r.op = None
       \/ r.op = "list" /\ r.at = "reindex"
       \/ r.op = "revoke" /\ r.at \in {"index", "reindex"} /\ r.grant \in Grants
       \/ /\ r.op = "authorize" /\ r.client \in Clients
          /\ r.at \in {"index", "prune", "create", "code"}
       \/ /\ r.op = "status" /\ r.src \in Approvals
          /\ r.at \in {"take", "device", "index", "prune", "create", "code"}
          /\ r.at # "take" => r.client \in Clients
       \/ /\ r.op \in {"approve", "deny"} /\ r.src \in Approvals
          /\ r.at \in {"pending", "device", "decide"}
          /\ r.at # "pending" => r.client \in Clients
       \/ /\ r.op \in {"exchange", "refresh", "authenticate"}
          /\ r.src \in (IF r.op = "exchange" THEN Codes ELSE Tokens)
          /\ r.client \in Clients /\ r.grant \in Grants
          /\ \/ r.at \in {"device", "grant"}
             \/ r.at \in {"touch", "puts", "tokens"} /\ r.op # "authenticate"
             \/ r.at \in {"index", "prune", "create"} /\ r.op = "exchange"
    /\ r.at \in {"create", "code"} => r.grant \in Grants

Handled   == \A h \in Handlers : HandlerOK(han[h])
ClientsOK == \A a \in Approvals :
                approval[a].at \in {"pending", "approved", "denied"} => approval[a].client \in Clients

OAuthTypeOK == TypeOK /\ Handled /\ ClientsOK

-----------------------------------------------------------------------------
(* Versions of the device's credential                                     *)

\* Nothing carries a version that the device has not had yet.
Past ==
    /\ \A h \in Handlers : han[h].ver <= version
    /\ \A k \in Keys : rec[k] # None => rec[k].ver <= version
    /\ \A a \in Approvals : approval[a].ver <= version

\* A request that came too late does not pass the device record.
LateStops ==
    \A h \in Handlers : "device" \in han[h].late =>
        /\ han[h].op = "authenticate" /\ han[h].at = "device"
        /\ revoked \/ version # han[h].ver

DeviceInv == Past /\ LateStops /\ DeviceCutsTokens

-----------------------------------------------------------------------------
(* Codes, tokens and approvals are taken                                    *)

Presents(h, k)  == han[h].op \in {"exchange", "refresh"} /\ han[h].src = k
Deciding(h, a)  == han[h].op \in {"approve", "deny"} /\ han[h].src = a
Redeeming(h, a) == han[h].op = "status" /\ han[h].at # "take" /\ han[h].src = a

KeyTaken(k) ==
    /\ minted[k] <= 1
    /\ k \notin used => k \notin codes \cup refresh /\ minted[k] = 0
    /\ k \in codes \cup refresh => minted[k] = 0
    /\ \A h \in Handlers : Presents(h, k) =>
          /\ k \in used /\ k \notin codes \cup refresh /\ minted[k] = 0
          /\ \A i \in Handlers : Presents(i, k) => i = h

ApprovalTaken(a) ==
    /\ issued[a] <= 1
    /\ a \in prompt => approval[a].at = "pending"
    /\ approval[a].at # "gone" => issued[a] = 0
    /\ \A h \in Handlers : Deciding(h, a) =>
          /\ approval[a].at \in {"pending", "gone"} /\ a \notin prompt /\ issued[a] = 0
          /\ \A i \in Handlers : (Deciding(i, a) => i = h) /\ ~Redeeming(i, a)
    /\ \A h \in Handlers : Redeeming(h, a) =>
          /\ approval[a].at = "gone" /\ a \notin prompt /\ issued[a] = 0
          /\ \A i \in Handlers : Redeeming(i, a) => i = h

KeysTaken      == \A k \in Keys : KeyTaken(k)
ApprovalsTaken == \A a \in Approvals : ApprovalTaken(a)

-----------------------------------------------------------------------------
(* Grants                                                                    *)

Writing(h, g) == han[h].at \in {"create", "touch", "puts"} /\ han[h].grant = g
Revoked(g)    == g \in over \/ \E h \in Handlers : han[h].op = "revoke" /\ han[h].grant = g

GrantGone(g) ==
    /\ grant[g] # None \/ Revoked(g) \/ (\E h \in Handlers : Writing(h, g)) => g \in used
    /\ Revoked(g) /\ g \notin raced => grant[g] = None /\ \A h \in Handlers : ~Writing(h, g)

GrantsGone == \A g \in Grants : GrantGone(g)

Listed ==
    /\ \A t \in access : rec[t].grant \in index
    /\ \A h \in Handlers :
          \/ han[h].at = "tokens"
          \/ han[h].at \in {"create", "puts"} /\ "index" \notin han[h].left
          => han[h].grant \in index

\* A request that is answered, or whose replica dies.
LEMMA IdleOK == HandlerOK(Idle) /\ HandlerOK([Idle EXCEPT !.at = "dead"])
<1>1. Idle \in HandlerState /\ [Idle EXCEPT !.at = "dead"] \in HandlerState
  BY OAuthAssumption DEF Idle, HandlerState, Ops, Ats
<1>. QED BY <1>1 DEF Idle, HandlerOK

LEMMA InitType == Init => OAuthTypeOK
<1>. SUFFICES ASSUME Init PROVE OAuthTypeOK
  OBVIOUS
<1>2. HandlerOK(Idle)
  BY IdleOK
<1>1. Idle \in HandlerState
  BY <1>2, Zenon DEF HandlerOK
<1>3. \A h \in Handlers : han[h] = Idle
  BY DEF Init
<1>4. Handled
  BY <1>2, <1>3, Zenon DEF Handled
<1>5. han \in [Handlers -> HandlerState]
  BY <1>1 DEF Init
<1>6. approval \in [Approvals -> [at : {"new", "pending", "approved", "denied", "gone"},
                                  client : Clients \cup {None}, ver : 0..MaxVersion]]
  BY OAuthAssumption DEF Init
<1>7. /\ prompt \subseteq Approvals /\ index \subseteq Grants
      /\ codes = {} /\ access = {} /\ refresh = {}
      /\ used = {} /\ over = {} /\ raced = {} /\ wrong = {}
  BY DEF Init
<1>11. version \in 0..MaxVersion
  BY OAuthAssumption DEF Init
<1>12. revoked \in BOOLEAN
  BY DEF Init
<1>8. /\ grant \in [Grants -> [client : Clients, ver : 0..MaxVersion] \cup {None}]
      /\ rec \in [Keys -> [client : Clients, ver : 0..MaxVersion, grant : Grants] \cup {None}]
      /\ minted \in [Keys -> Nat] /\ issued \in [Approvals -> Nat]
  BY DEF Init
<1>9. \A h \in Handlers : han[h].at \in {"create", "touch", "puts", "code", "tokens"} => han[h].grant # None
  BY <1>3 DEF Idle
<1>10. ClientsOK
  BY DEF Init, ClientsOK
<1>. QED
  BY <1>4, <1>5, <1>6, <1>7, <1>8, <1>9, <1>10, <1>11, <1>12 DEF OAuthTypeOK, TypeOK

\* What TypeOK says of the store, and of the requests.
StoreOK ==
    /\ version \in 0..MaxVersion /\ revoked \in BOOLEAN
    /\ prompt \subseteq Approvals
    /\ grant \in [Grants -> [client : Clients, ver : 0..MaxVersion] \cup {None}]
    /\ index \subseteq Grants
    /\ issued \in [Approvals -> Nat]
    /\ over \subseteq Grants /\ raced \subseteq Grants
    /\ used \subseteq Grants \cup Keys
    /\ wrong \subseteq {"device", "grant"}
KeysOK ==
    /\ rec \in [Keys -> [client : Clients, ver : 0..MaxVersion, grant : Grants] \cup {None}]
    /\ codes \subseteq Codes /\ access \subseteq Tokens /\ refresh \subseteq Tokens
    /\ \A k \in codes \cup access \cup refresh : rec[k] # None
    /\ minted \in [Keys -> Nat]
ApprovalOK ==
    /\ approval \in [Approvals ->
                        [at : {"new", "pending", "approved", "denied", "gone"},
                         client : Clients \cup {None}, ver : 0..MaxVersion]]
    /\ ClientsOK
HandlersOK == han \in [Handlers -> HandlerState] /\ Handled

LEMMA TypeParts == OAuthTypeOK <=> StoreOK /\ KeysOK /\ ApprovalOK /\ HandlersOK
<1>1. ASSUME HandlersOK, NEW h \in Handlers,
             han[h].at \in {"create", "touch", "puts", "code", "tokens"}
      PROVE  han[h].grant # None
  BY <1>1, OAuthAssumption DEF HandlersOK, Handled, HandlerOK
<1>. QED
  BY <1>1 DEF OAuthTypeOK, TypeOK, StoreOK, KeysOK, ApprovalOK, HandlersOK

LEMMA Replaced ==
  ASSUME HandlersOK, NEW h \in Handlers, NEW r, HandlerOK(r), han' = [han EXCEPT ![h] = r]
  PROVE  HandlersOK'
<1>1. r \in HandlerState
  BY Zenon DEF HandlerOK
<1>2. \A i \in Handlers : han'[i] = IF i = h THEN r ELSE han[i]
  BY DEF HandlersOK
<1>3. \A i \in Handlers : HandlerOK(han'[i])
  BY <1>2, Zenon DEF HandlersOK, Handled
<1>4. han' \in [Handlers -> HandlerState]
  BY <1>1 DEF HandlersOK
<1>. QED BY <1>3, <1>4 DEF HandlersOK, Handled

LEMMA EndsOK ==
  ASSUME HandlersOK, NEW h \in Handlers, Ends(h)
  PROVE  HandlersOK'
  BY IdleOK, Replaced, Zenon DEF Ends

LEMMA BeginsOK ==
  ASSUME HandlersOK, NEW h \in Handlers, NEW r, HandlerOK(r), Begins(h, r)
  PROVE  HandlersOK'
  BY Replaced, Zenon DEF Begins

\* The requests that begin.
LEMMA RequestHandlers ==
  ASSUME OAuthTypeOK, NEW h \in Handlers, Request(h)
  PROVE  HandlersOK'
<1>. USE OAuthAssumption
<1>0. HandlersOK /\ version \in 0..MaxVersion
  BY TypeParts DEF StoreOK
<1>00. 0 \in 0..MaxVersion
  OBVIOUS
<1>1. ASSUME NEW a \in Approvals, Status(h, a) PROVE HandlersOK'
  <2>. DEFINE r == [Idle EXCEPT !.op = "status", !.src = a, !.at = "take"]
  <2>1. HandlerOK(r)
    BY <1>00 DEF HandlerOK, HandlerState, Idle, Ops, Ats, Keys
  <2>3. Begins(h, r)
    BY <1>1 DEF Status
  <2>. HIDE DEF r
  <2>. QED BY <1>0, <2>1, <2>3, BeginsOK
<1>2. ASSUME NEW a \in Approvals, NEW op \in {"approve", "deny"}, Decide(h, a, op)
      PROVE  HandlersOK'
  <2>. DEFINE r == [Idle EXCEPT !.op = op, !.src = a, !.at = "pending"]
  <2>1. HandlerOK(r)
    BY <1>00 DEF HandlerOK, HandlerState, Idle, Ops, Ats, Keys
  <2>3. Begins(h, r)
    BY <1>2 DEF Decide
  <2>. HIDE DEF r
  <2>. QED BY <1>0, <2>1, <2>3, BeginsOK
<1>3. ASSUME NEW c \in Clients, Authorize(h, c) PROVE HandlersOK'
  <2>1. HandlerOK([Idle EXCEPT !.op = "authorize", !.client = c, !.ver = version, !.at = "index"])
    BY <1>0 DEF HandlerOK, HandlerState, Idle, Ops, Ats, Keys
  <2>. QED BY <1>0, <1>3, <2>1, BeginsOK DEF Authorize
<1>4. ASSUME NEW k \in Keys, rec[k] # None,
             NEW op \in {"exchange", "refresh", "authenticate"},
             k \in (IF op = "exchange" THEN Codes ELSE Tokens)
      PROVE  /\ rec[k] \in [client : Clients, ver : 0..MaxVersion, grant : Grants]
             /\ HandlerOK([Idle EXCEPT !.op = op, !.src = k, !.at = "device", !.ver = rec[k].ver,
                           !.client = rec[k].client, !.grant = rec[k].grant])
             /\ \A late \in SUBSET {"device", "grant"} :
                   HandlerOK([Idle EXCEPT !.op = op, !.src = k, !.at = "device", !.ver = rec[k].ver,
                           !.client = rec[k].client, !.grant = rec[k].grant, !.late = late])
  <2>1. rec[k] \in [client : Clients, ver : 0..MaxVersion, grant : Grants]
    BY <1>4, TypeParts DEF KeysOK
  <2>2. rec[k].client \in Clients /\ rec[k].ver \in 0..MaxVersion /\ rec[k].grant \in Grants
    BY <2>1
  <2>3. ASSUME NEW c \in Clients, NEW v \in 0..MaxVersion, NEW g \in Grants,
               NEW late \in SUBSET {"device", "grant"}
        PROVE  /\ HandlerOK([Idle EXCEPT !.op = op, !.src = k, !.at = "device", !.ver = v,
                             !.client = c, !.grant = g])
               /\ HandlerOK([Idle EXCEPT !.op = op, !.src = k, !.at = "device", !.ver = v,
                             !.client = c, !.grant = g, !.late = late])
    BY <1>4 DEF HandlerOK, HandlerState, Idle, Ops, Ats
  <2>. QED BY <2>1, <2>2, <2>3
<1>5. ASSUME NEW k \in Codes, NEW good \in BOOLEAN, Exchange(h, k, good) PROVE HandlersOK'
  <2>1. CASE good
    <3>1. k \in Keys /\ rec[k] # None
      BY <1>5, TypeParts DEF Exchange, KeysOK, Keys
    <3>. QED BY <1>0, <1>4, <1>5, <2>1, <3>1, BeginsOK DEF Exchange, Bearing
  <2>2. CASE ~good
    BY <1>0, <1>5, <2>2 DEF Exchange, Bearing, HandlersOK, Handled
  <2>. QED BY <2>1, <2>2
<1>6. ASSUME NEW t \in Tokens, NEW good \in BOOLEAN, Refresh(h, t, good) PROVE HandlersOK'
  <2>1. CASE good
    <3>1. t \in Keys /\ rec[t] # None
      BY <1>6, TypeParts DEF Refresh, KeysOK, Keys
    <3>. QED BY <1>0, <1>4, <1>6, <2>1, <3>1, BeginsOK DEF Refresh, Bearing
  <2>2. CASE ~good
    BY <1>0, <1>6, <2>2 DEF Refresh, Bearing, HandlersOK, Handled
  <2>. QED BY <2>1, <2>2
<1>7. ASSUME NEW t \in Tokens, Authenticate(h, t) PROVE HandlersOK'
  <2>1. t \in Keys /\ rec[t] # None
    BY <1>7, TypeParts DEF Authenticate, KeysOK, Keys
  <2>. QED BY <1>0, <1>4, <1>7, <2>1, BeginsOK DEF Authenticate
<1>8. ASSUME NEW g \in Grants, Revoke(h, g) PROVE HandlersOK'
  <2>. DEFINE r == [Idle EXCEPT !.op = "revoke", !.grant = g, !.at = "index"]
  <2>1. HandlerOK(r)
    BY <1>00 DEF HandlerOK, HandlerState, Idle, Ops, Ats, Keys
  <2>3. Begins(h, r)
    BY <1>8 DEF Revoke
  <2>. HIDE DEF r
  <2>. QED BY <1>0, <2>1, <2>3, BeginsOK
<1>9. CASE List(h)
  <2>1. index \in SUBSET Grants
    BY TypeParts DEF StoreOK
  <2>. DEFINE r == [Idle EXCEPT !.op = "list", !.at = "reindex", !.seen = index]
  <2>2. HandlerOK(r)
    BY <1>00, <2>1 DEF HandlerOK, HandlerState, Idle, Ops, Ats, Keys
  <2>3. Begins(h, r)
    BY <1>9 DEF List
  <2>. HIDE DEF r
  <2>. QED BY <1>0, <2>2, <2>3, BeginsOK
<1>. QED
  BY <1>1, <1>2, <1>3, <1>5, <1>6, <1>7, <1>8, <1>9 DEF Request

\* The other steps of a request.
LEMMA ServeHandlers ==
  ASSUME OAuthTypeOK, NEW h \in Handlers, Serve(h)
  PROVE  HandlersOK'
<1>0. HandlersOK /\ HandlerOK(han[h]) /\ han[h] \in HandlerState
  BY TypeParts, Zenon DEF HandlersOK, Handled, HandlerOK
<1>1. CASE ReadPending(h)
  <2>1. CASE Ends(h)
    BY <1>0, <2>1, EndsOK
  <2>2. CASE ~Ends(h)
    <3>. DEFINE c == approval[han[h].src].client
    <3>1. han[h].src \in Approvals
      BY <1>0, <1>1 DEF ReadPending, HandlerOK
    <3>2. /\ approval[han[h].src].at = "pending"
          /\ han' = [han EXCEPT ![h] = [han[h] EXCEPT !.at = "device", !.client = c]]
      BY <1>0, <1>1, <2>2 DEF ReadPending, HandlersOK
    <3>3. c \in Clients
      BY <3>1, <3>2, TypeParts DEF ApprovalOK, ClientsOK
    <3>. HIDE DEF c
    <3>4. HandlerOK([han[h] EXCEPT !.at = "device", !.client = c])
      BY <1>0, <1>1, <3>3 DEF ReadPending, HandlerOK, HandlerState, Ats
    <3>. QED BY <1>0, <3>2, <3>4, Replaced
  <2>. QED BY <2>1, <2>2
<1>2. CASE \/ PutDecision(h) \/ Reindex(h)
           \/ \E k \in Codes : PutCode(h, k)
           \/ \E t \in Tokens : PutTokens(h, t)
  BY <1>0, <1>2, EndsOK DEF PutDecision, Reindex, PutCode, PutTokens
<1>3. CASE TakeApproval(h)
  <2>. DEFINE a == approval[han[h].src]
  <2>1. CASE Ends(h)
    BY <1>0, <2>1, EndsOK
  <2>2. CASE ~Ends(h)
    <3>1. han[h].src \in Approvals
      BY <1>0, <1>3 DEF TakeApproval, HandlerOK
    <3>2. /\ a.at = "approved"
          /\ han' = [han EXCEPT ![h] = [han[h] EXCEPT !.at = "device", !.ver = a.ver, !.client = a.client]]
      BY <1>0, <1>3, <2>2 DEF TakeApproval, HandlersOK
    <3>3. a.client \in Clients /\ a.ver \in 0..MaxVersion
      BY <3>1, <3>2, TypeParts DEF ApprovalOK, ClientsOK
    <3>4. PICK c \in Clients, v \in 0..MaxVersion : a.client = c /\ a.ver = v
      BY <3>3
    <3>5. HandlerOK([han[h] EXCEPT !.at = "device", !.ver = v, !.client = c])
      BY <1>0, <1>3 DEF TakeApproval, HandlerOK, HandlerState, Ats
    <3>. QED BY <1>0, <3>2, <3>4, <3>5, Replaced
  <2>. QED BY <2>1, <2>2
<1>. DEFINE Leads(at) ==
             \/ han[h].at = "device" /\ han[h].op \in {"approve", "deny"} /\ at = "decide"
             \/ han[h].at = "device" /\ han[h].op = "status" /\ at = "index"
             \/ han[h].at = "device" /\ han[h].op \notin {"approve", "deny", "status"} /\ at = "grant"
             \/ han[h].at = "grant" /\ han[h].op # "authenticate" /\ at = "touch"
             \/ han[h].at = "grant" /\ han[h].op = "exchange" /\ at = "index"
             \/ han[h].at = "index" /\ han[h].op = "revoke" /\ at = "reindex"
             \/ han[h].at = "index" /\ han[h].op # "revoke" /\ at = "prune"
             \/ han[h].at = "touch" /\ at = "puts"
             \/ han[h].at = "create" /\ han[h].op = "exchange" /\ at = "touch"
             \/ han[h].at = "create" /\ han[h].op # "exchange" /\ at = "code"
             \/ han[h].at = "puts" /\ at = "tokens"
             \/ han[h].at \in {"create", "puts"} /\ at = han[h].at
<1>4. ASSUME NEW at, Leads(at), NEW v \in 0..MaxVersion, NEW seen \in SUBSET Grants,
             NEW left \in SUBSET {"grant", "index"},
             han' = [han EXCEPT ![h] = [han[h] EXCEPT !.at = at, !.ver = v, !.seen = seen, !.left = left]]
      PROVE  HandlersOK'
  <2>. DEFINE r == [han[h] EXCEPT !.at = at, !.ver = v, !.seen = seen, !.left = left]
  <2>0. at \in Ats
    BY <1>0, <1>4 DEF Ats, HandlerState
  <2>1. /\ r \in HandlerState /\ r.at = at /\ r.op = han[h].op /\ r.src = han[h].src
        /\ r.client = han[h].client /\ r.grant = han[h].grant
    BY <1>0, <2>0 DEF HandlerState
  <2>2. han' = [han EXCEPT ![h] = r]
    BY <1>4
  <2>. HIDE DEF r
  <2>3. HandlerOK(r)
    BY <1>0, <1>4, <2>1 DEF HandlerOK
  <2>. QED BY <1>0, <2>2, <2>3, Replaced
<1>5. han[h].ver \in 0..MaxVersion /\ han[h].seen \in SUBSET Grants /\ han[h].left \in SUBSET {"grant", "index"}
  BY <1>0 DEF HandlerState
<1>7. CASE CheckDevice(h)
  <2>1. CASE Ends(h)
    BY <1>0, <2>1, EndsOK
  <2>2. CASE ~Ends(h) /\ han[h].op \in {"approve", "deny"}
    <3>1. version \in 0..MaxVersion
      BY TypeParts DEF StoreOK
    <3>2. han[h].at = "device" /\ han' = [han EXCEPT ![h].at = "decide", ![h].ver = version]
      BY <1>7, <2>2 DEF CheckDevice
    <3>3. han' = [han EXCEPT ![h] = [han[h] EXCEPT !.at = "decide", !.ver = version,
                                     !.seen = han[h].seen, !.left = han[h].left]]
      BY <1>0, <3>2 DEF HandlersOK, HandlerState
    <3>4. Leads("decide")
      BY <2>2, <3>2
    <3>. HIDE DEF Leads
    <3>. QED BY <1>4, <1>5, <3>1, <3>3, <3>4
  <2>3. CASE ~Ends(h) /\ han[h].op \notin {"approve", "deny"}
    <3>1. PICK at \in {"index", "grant"} :
             /\ at = (IF han[h].op = "status" THEN "index" ELSE "grant")
             /\ han[h].at = "device" /\ han' = [han EXCEPT ![h].at = at]
      BY <1>7, <2>3 DEF CheckDevice, Goes
    <3>2. han' = [han EXCEPT ![h] = [han[h] EXCEPT !.at = at, !.ver = han[h].ver,
                                     !.seen = han[h].seen, !.left = han[h].left]]
      BY <1>0, <3>1 DEF HandlersOK, HandlerState
    <3>3. Leads(at)
      BY <2>3, <3>1
    <3>. HIDE DEF Leads
    <3>. QED BY <1>4, <1>5, <3>2, <3>3
  <2>. QED BY <2>1, <2>2, <2>3
<1>8. CASE CheckGrant(h)
  <2>1. CASE Ends(h)
    BY <1>0, <2>1, EndsOK
  <2>2. CASE ~Ends(h)
    <3>1. han[h].op \in {"exchange", "refresh", "authenticate"}
      BY <1>0, <1>8 DEF CheckGrant, HandlerOK
    <3>2. PICK at \in {"touch", "index"} :
             /\ han[h].at = "grant" /\ han[h].op # "authenticate"
             /\ at = "index" => han[h].op = "exchange"
             /\ han' = [han EXCEPT ![h].at = at]
      BY <1>8, <2>2, <3>1 DEF CheckGrant, Goes
    <3>3. han' = [han EXCEPT ![h] = [han[h] EXCEPT !.at = at, !.ver = han[h].ver,
                                     !.seen = han[h].seen, !.left = han[h].left]]
      BY <1>0, <3>2 DEF HandlersOK, HandlerState
    <3>4. Leads(at)
      BY <3>2
    <3>. HIDE DEF Leads
    <3>. QED BY <1>4, <1>5, <3>3, <3>4
  <2>. QED BY <2>1, <2>2
<1>9. CASE ReadIndex(h)
  <2>1. index \in SUBSET Grants
    BY TypeParts DEF StoreOK
  <2>2. PICK at \in {"reindex", "prune"} :
           /\ han[h].at = "index" /\ (han[h].op = "revoke" <=> at = "reindex")
           /\ han' = [han EXCEPT ![h].at = at, ![h].seen = index]
    BY <1>9 DEF ReadIndex
  <2>3. han' = [han EXCEPT ![h] = [han[h] EXCEPT !.at = at, !.ver = han[h].ver,
                                   !.seen = index, !.left = han[h].left]]
    BY <1>0, <2>2 DEF HandlersOK, HandlerState
  <2>4. Leads(at)
    BY <2>2
  <2>. HIDE DEF Leads
  <2>. QED BY <1>4, <1>5, <2>1, <2>3, <2>4
<1>10. CASE Touch(h)
  <2>1. index \in SUBSET Grants
    BY TypeParts DEF StoreOK
  <2>2. han' = [han EXCEPT ![h] = [han[h] EXCEPT !.at = "puts", !.ver = han[h].ver,
                                   !.seen = index, !.left = {"grant", "index"}]]
    BY <1>0, <1>10 DEF HandlersOK, HandlerState, Touch
  <2>3. Leads("puts")
    BY <1>10 DEF Touch
  <2>. HIDE DEF Leads
  <2>. QED BY <1>4, <1>5, <2>1, <2>2, <2>3
<1>11. ASSUME NEW g \in Grants, Prune(h, g) PROVE HandlersOK'
  <2>1. HandlerOK([han[h] EXCEPT !.seen = @ \ {g}])
    <3>. DEFINE r == [han[h] EXCEPT !.seen = @ \ {g}]
    <3>1. /\ r \in HandlerState /\ r.at = han[h].at /\ r.op = han[h].op /\ r.src = han[h].src
          /\ r.client = han[h].client /\ r.grant = han[h].grant
      BY <1>0 DEF HandlerState
    <3>. HIDE DEF r
    <3>2. HandlerOK(r)
      BY <1>0, <3>1 DEF HandlerOK
    <3>. QED BY <3>2 DEF r
  <2>2. han' = [han EXCEPT ![h] = [han[h] EXCEPT !.seen = @ \ {g}]]
    BY <1>0, <1>11 DEF Prune, HandlersOK, HandlerState
  <2>. QED BY <1>0, <2>1, <2>2, Replaced
<1>12. ASSUME NEW g \in Grants, NewGrant(h, g) PROVE HandlersOK'
  <2>. DEFINE r == [han[h] EXCEPT !.at = "create", !.grant = g, !.left = {"grant", "index"}]
  <2>1. /\ r \in HandlerState /\ r.at = "create" /\ r.op = han[h].op /\ r.src = han[h].src
        /\ r.client = han[h].client /\ r.grant = g
    BY <1>0 DEF HandlerState, Ats
  <2>2. han' = [han EXCEPT ![h] = r] /\ han[h].at = "prune"
    BY <1>0, <1>12 DEF NewGrant, HandlersOK, HandlerState
  <2>. HIDE DEF r
  <2>3. HandlerOK(r)
    BY <1>0, <2>1, <2>2 DEF HandlerOK
  <2>. QED BY <1>0, <2>2, <2>3, Replaced
<1>13. ASSUME NEW what \in {"grant", "index"}, Written(h, what), han[h].at \in {"create", "puts"}
       PROVE  HandlersOK'
  <2>1. CASE han[h].left # {what}
    <3>1. han' = [han EXCEPT ![h] = [han[h] EXCEPT !.at = han[h].at, !.ver = han[h].ver,
                                     !.seen = han[h].seen, !.left = han[h].left \ {what}]]
      BY <1>0, <1>13, <2>1 DEF HandlersOK, HandlerState, Written
    <3>2. han[h].left \ {what} \in SUBSET {"grant", "index"}
      BY <1>0 DEF HandlerState
    <3>3. Leads(han[h].at)
      BY <1>13
    <3>. HIDE DEF Leads
    <3>. QED BY <1>4, <1>5, <3>1, <3>2, <3>3
  <2>2. CASE han[h].left = {what}
    <3>. DEFINE at == CASE han[h].at = "puts" -> "tokens"
                         [] han[h].at = "create" /\ han[h].op = "exchange" -> "touch"
                         [] OTHER -> "code"
    <3>1. Leads(at)
      <4>1. CASE han[h].at = "puts"
        BY <4>1
      <4>2. CASE han[h].at = "create" /\ han[h].op = "exchange"
        BY <4>2
      <4>3. CASE han[h].at = "create" /\ han[h].op # "exchange"
        BY <4>3
      <4>. QED BY <1>13, <4>1, <4>2, <4>3
    <3>2. han' = [han EXCEPT ![h].left = {}, ![h].seen = {}, ![h].at = at]
      BY <1>0, <1>13, <2>2 DEF Written, HandlersOK, HandlerState
    <3>. HIDE DEF at, Leads
    <3>3. han' = [han EXCEPT ![h] = [han[h] EXCEPT !.at = at, !.ver = han[h].ver,
                                     !.seen = {}, !.left = {}]]
      BY <1>0, <3>2 DEF HandlersOK, HandlerState
    <3>4. {} \in SUBSET Grants /\ {} \in SUBSET {"grant", "index"}
      OBVIOUS
    <3>. QED BY <1>4, <1>5, <3>1, <3>3, <3>4
  <2>. QED BY <2>1, <2>2
<1>14. CASE PutGrant(h) \/ PutIndex(h)
  <2>1. \E what \in {"grant", "index"} : Written(h, what) /\ han[h].at \in {"create", "puts"}
    BY <1>14, Zenon DEF PutGrant, PutIndex
  <2>. QED BY <1>13, <2>1, Zenon
<1>. HIDE DEF Leads
<1>. QED
  BY <1>1, <1>2, <1>3, <1>7, <1>8, <1>9, <1>10, <1>11, <1>12, <1>14 DEF Serve

\* A new id is one that was never given out.
LEMMA FreshOne ==
  ASSUME NEW S, NEW x, Fresh(x, S)
  PROVE  x \in S /\ x \notin used /\ used' = used \cup {x}
<1>1. \E y \in S \ used : TRUE
  BY DEF Fresh
<1>2. x \in S \ used
  BY <1>1 DEF Fresh
<1>. QED BY <1>2 DEF Fresh

\* The steps that touch the records of codes and tokens.
LEMMA DropAccessOK ==
  ASSUME KeysOK, NEW T \in SUBSET Tokens, DropAccess(T), UNCHANGED <<codes, refresh, minted>>
  PROVE  KeysOK'
<1>1. \A k \in Keys : rec'[k] = IF k \in T \ refresh THEN None ELSE rec[k]
  BY DEF DropAccess
<1>2. rec' \in [Keys -> [client : Clients, ver : 0..MaxVersion, grant : Grants] \cup {None}]
  BY DEF DropAccess, KeysOK
<1>3. \A k \in codes \cup (access \ T) \cup refresh : k \in Keys /\ k \notin T \ refresh
  BY OAuthAssumption DEF KeysOK, Keys
<1>. QED BY <1>1, <1>2, <1>3 DEF DropAccess, KeysOK

LEMMA KeysType == OAuthTypeOK /\ Next => KeysOK'
<1>. SUFFICES ASSUME OAuthTypeOK, Next PROVE KeysOK'
  OBVIOUS
<1>0. KeysOK /\ HandlersOK
  BY TypeParts
<1>1. CASE UNCHANGED keys
  BY <1>0, <1>1 DEF keys, KeysOK
<1>2. ASSUME NEW h \in Handlers, NEW k \in Codes, NEW good \in BOOLEAN, Exchange(h, k, good)
      PROVE  KeysOK'
  <2>1. /\ codes' = codes \ {k} /\ rec' = [rec EXCEPT ![k] = None]
        /\ UNCHANGED <<access, refresh, minted>>
    BY <1>2 DEF Exchange
  <2>2. \A l \in codes' \cup access \cup refresh : l # k /\ l \in Keys
    BY <1>0, <2>1, OAuthAssumption DEF KeysOK, Keys
  <2>. QED BY <1>0, <2>1, <2>2 DEF KeysOK
<1>3. ASSUME NEW h \in Handlers, NEW t \in Tokens, NEW good \in BOOLEAN, Refresh(h, t, good)
      PROVE  KeysOK'
  <2>1. /\ refresh' = refresh \ {t}
        /\ rec' = IF t \in access THEN rec ELSE [rec EXCEPT ![t] = None]
        /\ UNCHANGED <<codes, access, minted>>
    BY <1>3 DEF Refresh
  <2>2. \A l \in codes \cup access \cup refresh' : l \in Keys /\ (t \notin access => l # t)
    BY <1>0, <2>1, OAuthAssumption DEF KeysOK, Keys
  <2>. QED BY <1>0, <2>1, <2>2 DEF KeysOK
<1>4. ASSUME NEW h \in Handlers, CheckDevice(h) \/ CheckGrant(h) PROVE KeysOK'
  <2>1. HandlerOK(han[h])
    BY <1>0 DEF HandlersOK, Handled
  <2>2. han[h].op = "authenticate" => {han[h].src} \in SUBSET Tokens
    <3>1. han[h].at \in {"device", "grant"}
      BY <1>4 DEF CheckDevice, CheckGrant
    <3>2. han[h].op = "authenticate" => han[h].src \in Tokens
      BY <2>1, <3>1 DEF HandlerOK
    <3>. QED BY <3>2
  <2>3. /\ UNCHANGED <<codes, refresh, minted>>
        /\ \/ UNCHANGED <<access, rec>>
           \/ DropAccess({})
           \/ han[h].op = "authenticate" /\ DropAccess({han[h].src})
    BY <1>4 DEF CheckDevice, CheckGrant
  <2>4. ASSUME NEW T \in SUBSET Tokens, DropAccess(T) PROVE KeysOK'
    BY <1>0, <2>3, <2>4, DropAccessOK
  <2>5. CASE UNCHANGED <<access, rec>>
    BY <1>0, <2>3, <2>5 DEF KeysOK
  <2>. QED BY <2>2, <2>3, <2>4, <2>5
<1>5. ASSUME NEW h \in Handlers, NEW k \in Keys, rec' = [rec EXCEPT ![k] = Record(h)],
             han[h].at \in {"code", "tokens"},
             \/ k \in Codes /\ codes' = codes \cup {k} /\ UNCHANGED <<access, refresh, minted>>
             \/ /\ k \in Tokens /\ access' = access \cup {k} /\ refresh' = refresh \cup {k}
                /\ han[h].src \in Keys /\ minted' = [minted EXCEPT ![han[h].src] = @ + 1]
                /\ UNCHANGED codes
      PROVE  KeysOK'
  <2>1. HandlerOK(han[h])
    BY <1>0 DEF HandlersOK, Handled
  <2>2. Record(h) \in [client : Clients, ver : 0..MaxVersion, grant : Grants]
    BY <1>5, <2>1 DEF HandlerOK, HandlerState, Record
  <2>3. Record(h) # None
    BY <2>2, OAuthAssumption
  <2>. QED BY <1>0, <1>5, <2>2, <2>3 DEF KeysOK
<1>6. ASSUME NEW h \in Handlers, NEW k \in Codes, PutCode(h, k) PROVE KeysOK'
  BY <1>5, <1>6 DEF PutCode, Keys
<1>7. ASSUME NEW h \in Handlers, NEW t \in Tokens, PutTokens(h, t) PROVE KeysOK'
  <2>1. han[h].src \in Keys /\ han[h].at = "tokens"
    BY <1>0, <1>7 DEF HandlersOK, Handled, HandlerOK, PutTokens, Keys
  <2>. QED BY <1>5, <1>7, <2>1 DEF PutTokens, Keys
<1>8. ASSUME NEW h \in Handlers, Request(h) PROVE KeysOK'
  <2>1. \/ \E k \in Codes, good \in BOOLEAN : Exchange(h, k, good)
        \/ \E t \in Tokens, good \in BOOLEAN : Refresh(h, t, good)
        \/ UNCHANGED keys
    BY <1>8 DEF Request, Status, Decide, Authorize, Authenticate, Revoke, List
  <2>. QED BY <1>1, <1>2, <1>3, <2>1
<1>9. ASSUME NEW h \in Handlers, Serve(h) PROVE KeysOK'
  <2>1. \/ CheckDevice(h) \/ CheckGrant(h)
        \/ \E k \in Codes : PutCode(h, k)
        \/ \E t \in Tokens : PutTokens(h, t)
        \/ UNCHANGED keys
    BY <1>9 DEF Serve, ReadPending, PutDecision, TakeApproval, ReadIndex, Touch, Prune, NewGrant,
                PutGrant, PutIndex, Reindex
  <2>. QED BY <1>1, <1>4, <1>6, <1>7, <2>1
<1>10. CASE \/ Rotate \/ RevokeDevice
            \/ \E a \in Approvals : Expire(a) \/ \E c \in Clients : AskApproval(a, c)
            \/ \E h \in Handlers : Die(h)
  BY <1>1, <1>10 DEF Rotate, RevokeDevice, Expire, AskApproval, Die
<1>. QED BY <1>8, <1>9, <1>10 DEF Next

LEMMA ApprovalType == OAuthTypeOK /\ Next => ApprovalOK'
<1>. SUFFICES ASSUME OAuthTypeOK, Next PROVE ApprovalOK'
  OBVIOUS
<1>0. ApprovalOK /\ HandlersOK
  BY TypeParts
<1>1. CASE UNCHANGED approval
  BY <1>0, <1>1 DEF ApprovalOK, ClientsOK
<1>2. ASSUME NEW a \in Approvals, approval' = Gone(a) PROVE ApprovalOK'
  <2>1. NoApproval("gone") \in [at : {"new", "pending", "approved", "denied", "gone"},
                                client : Clients \cup {None}, ver : 0..MaxVersion]
    BY OAuthAssumption DEF NoApproval
  <2>2. \A b \in Approvals : approval'[b] = IF b = a THEN NoApproval("gone") ELSE approval[b]
    BY <1>0, <1>2 DEF Gone, ApprovalOK
  <2>3. NoApproval("gone").at = "gone"
    BY DEF NoApproval
  <2>. QED BY <1>0, <1>2, <2>1, <2>2, <2>3 DEF ApprovalOK, ClientsOK, Gone
<1>3. ASSUME NEW a \in Approvals, NEW c \in Clients, AskApproval(a, c) PROVE ApprovalOK'
  <2>1. /\ approval' = [approval EXCEPT ![a] = [approval[a] EXCEPT !.at = "pending", !.client = c]]
        /\ [approval[a] EXCEPT !.at = "pending", !.client = c]
              \in [at : {"new", "pending", "approved", "denied", "gone"},
                   client : Clients \cup {None}, ver : 0..MaxVersion]
        /\ [approval[a] EXCEPT !.at = "pending", !.client = c].client = c
    BY <1>0, <1>3 DEF AskApproval, ApprovalOK
  <2>. QED BY <1>0, <2>1 DEF ApprovalOK, ClientsOK
<1>4. ASSUME NEW h \in Handlers, PutDecision(h) PROVE ApprovalOK'
  <2>1. han[h].src \in Approvals /\ han[h].client \in Clients /\ han[h].ver \in 0..MaxVersion
    BY <1>0, <1>4 DEF HandlersOK, Handled, HandlerOK, HandlerState, PutDecision
  <2>2. PICK at \in {"approved", "denied"} :
           approval' = [approval EXCEPT ![han[h].src] =
                           [at |-> at, client |-> han[h].client, ver |-> han[h].ver]]
    BY <1>4 DEF PutDecision
  <2>. QED BY <1>0, <2>1, <2>2 DEF ApprovalOK, ClientsOK
<1>5. ASSUME NEW h \in Handlers, TakeApproval(h) PROVE ApprovalOK'
  <2>1. han[h].src \in Approvals
    BY <1>0, <1>5 DEF HandlersOK, Handled, HandlerOK, TakeApproval
  <2>. QED BY <1>2, <1>5, <2>1 DEF TakeApproval
<1>6. ASSUME NEW h \in Handlers, Request(h) \/ Die(h) PROVE ApprovalOK'
  <2>1. UNCHANGED approval
    BY <1>6 DEF Request, Die, Status, Decide, Authorize, Exchange, Refresh, Authenticate, Revoke,
                List, asks
  <2>. QED BY <1>1, <2>1
<1>7. ASSUME NEW h \in Handlers, Serve(h) PROVE ApprovalOK'
  <2>1. PutDecision(h) \/ TakeApproval(h) \/ UNCHANGED approval
    BY <1>7 DEF Serve, ReadPending, CheckDevice, CheckGrant, ReadIndex, Touch, Prune, NewGrant,
                PutGrant, PutIndex, Reindex, PutCode, PutTokens, asks
  <2>. QED BY <1>1, <1>4, <1>5, <1>7, <2>1
<1>8. CASE Rotate \/ RevokeDevice
  BY <1>1, <1>8 DEF Rotate, RevokeDevice, asks
<1>9. ASSUME NEW a \in Approvals, Expire(a) PROVE ApprovalOK'
  BY <1>2, <1>9 DEF Expire
<1>. QED BY <1>3, <1>6, <1>7, <1>8, <1>9 DEF Next

LEMMA StoreType == OAuthTypeOK /\ Next => StoreOK'
<1>. SUFFICES ASSUME OAuthTypeOK, Next PROVE StoreOK'
  OBVIOUS
<1>0. StoreOK /\ HandlersOK
  BY TypeParts
<1>1. CASE UNCHANGED <<device, prompt, issued, store, used, wrong>>
  BY <1>0, <1>1 DEF StoreOK, device, store
<1>2. CASE Rotate
  BY <1>0, <1>2, OAuthAssumption DEF StoreOK, Rotate, asks, store
<1>3. CASE RevokeDevice
  BY <1>0, <1>3 DEF StoreOK, RevokeDevice, asks, store
<1>4. CASE UNCHANGED <<device, issued, store, used, wrong>> /\ prompt' \subseteq Approvals
  BY <1>0, <1>4 DEF StoreOK, device, store
<1>5. ASSUME NEW h \in Handlers, Request(h) PROVE StoreOK'
  <2>1. ASSUME NEW a \in Approvals, NEW op \in {"approve", "deny"}, Decide(h, a, op) PROVE StoreOK'
    BY <1>0, <1>4, <2>1 DEF Decide, StoreOK
  <2>2. ASSUME NEW g \in Grants, Revoke(h, g) PROVE StoreOK'
    BY <1>0, <2>2 DEF Revoke, StoreOK, device, asks
  <2>3. \/ \E a \in Approvals, op \in {"approve", "deny"} : Decide(h, a, op)
        \/ \E g \in Grants : Revoke(h, g)
        \/ UNCHANGED <<device, prompt, issued, store, used, wrong>>
    BY <1>5 DEF Request, Status, Authorize, Exchange, Refresh, Authenticate, List, asks
  <2>. QED BY <1>1, <2>1, <2>2, <2>3
<1>6. ASSUME NEW h \in Handlers, Serve(h) PROVE StoreOK'
  <2>0. HandlerOK(han[h])
    BY <1>0 DEF HandlersOK, Handled
  <2>1. CASE TakeApproval(h)
    BY <1>0, <1>4, <2>1 DEF TakeApproval, StoreOK
  <2>2. CASE CheckGrant(h)
    <3>1. wrong' \subseteq {"device", "grant"}
      <4>1. han[h].late \subseteq {"device", "grant"}
        BY <2>0 DEF HandlerOK, HandlerState
      <4>. QED BY <1>0, <2>2, <4>1 DEF CheckGrant, StoreOK
    <3>. QED BY <1>0, <2>2, <3>1 DEF CheckGrant, StoreOK, device, asks, store
  <2>3. ASSUME NEW g \in Grants, Prune(h, g) PROVE StoreOK'
    BY <1>0, <2>3 DEF Prune, StoreOK, device, asks
  <2>4. ASSUME NEW g \in Grants, NewGrant(h, g) PROVE StoreOK'
    BY <1>0, <2>4 DEF NewGrant, Fresh, StoreOK, device, asks, store
  <2>5. CASE PutGrant(h)
    <3>1. [client |-> han[h].client, ver |-> han[h].ver] \in [client : Clients, ver : 0..MaxVersion]
      BY <2>0, <2>5 DEF PutGrant, HandlerOK, HandlerState
    <3>. QED BY <1>0, <2>5, <3>1 DEF PutGrant, StoreOK, device, asks
  <2>6. CASE PutIndex(h)
    <3>1. han[h].seen \cup {han[h].grant} \subseteq Grants
      BY <2>0, <2>6 DEF PutIndex, HandlerOK, HandlerState
    <3>. QED BY <1>0, <2>6, <3>1 DEF PutIndex, StoreIndex, StoreOK, device, asks
  <2>7. ASSUME NEW k \in Codes, PutCode(h, k) PROVE StoreOK'
    <3>1. han[h].op = "status" => han[h].src \in Approvals
      BY <2>0, <2>7 DEF HandlerOK, PutCode
    <3>2. issued' \in [Approvals -> Nat]
      BY <1>0, <2>7, <3>1 DEF PutCode, StoreOK
    <3>. QED BY <1>0, <2>7, <3>2 DEF PutCode, Fresh, StoreOK, Keys, device, store
  <2>8. ASSUME NEW t \in Tokens, PutTokens(h, t) PROVE StoreOK'
    BY <1>0, <2>8 DEF PutTokens, Fresh, StoreOK, Keys, device, asks, store
  <2>9. CASE Reindex(h)
    <3>1. /\ index' \subseteq Grants
          /\ over' \subseteq Grants
      <4>1. /\ han[h].seen \subseteq Grants
            /\ han[h].op = "revoke" => han[h].grant \in Grants
        BY <2>0, <2>9 DEF HandlerOK, HandlerState, Reindex
      <4>. QED BY <1>0, <2>9, <4>1 DEF Reindex, StoreIndex, StoreOK
    <3>. QED BY <1>0, <2>9, <3>1 DEF Reindex, StoreOK, device, asks
  <2>10. CASE \/ ReadPending(h) \/ PutDecision(h) \/ CheckDevice(h) \/ ReadIndex(h) \/ Touch(h)
    BY <1>1, <2>10 DEF ReadPending, PutDecision, CheckDevice, ReadIndex, Touch, asks
  <2>. QED BY <1>6, <2>1, <2>2, <2>3, <2>4, <2>5, <2>6, <2>7, <2>8, <2>9, <2>10 DEF Serve
<1>7. ASSUME NEW a \in Approvals, \/ Expire(a) \/ \E c \in Clients : AskApproval(a, c)
      PROVE  StoreOK'
  BY <1>0, <1>4, <1>7 DEF Expire, AskApproval, StoreOK
<1>8. ASSUME NEW h \in Handlers, Die(h) PROVE StoreOK'
  BY <1>1, <1>8 DEF Die, asks
<1>. QED BY <1>2, <1>3, <1>5, <1>6, <1>7, <1>8 DEF Next

LEMMA HandlersType == OAuthTypeOK /\ Next => HandlersOK'
<1>. SUFFICES ASSUME OAuthTypeOK, Next PROVE HandlersOK'
  OBVIOUS
<1>0. HandlersOK
  BY TypeParts
<1>1. ASSUME NEW h \in Handlers, Die(h) PROVE HandlersOK'
  BY <1>0, <1>1, IdleOK, Replaced, Zenon DEF Die
<1>2. CASE UNCHANGED han
  BY <1>0, <1>2 DEF HandlersOK, Handled
<1>3. CASE \/ Rotate \/ RevokeDevice
           \/ \E a \in Approvals : Expire(a) \/ \E c \in Clients : AskApproval(a, c)
  BY <1>2, <1>3 DEF Rotate, RevokeDevice, Expire, AskApproval
<1>. QED BY <1>1, <1>3, RequestHandlers, ServeHandlers DEF Next

LEMMA StepType == OAuthTypeOK /\ [Next]_vars => OAuthTypeOK'
<1>1. OAuthTypeOK /\ Next => OAuthTypeOK'
  <2>. SUFFICES ASSUME OAuthTypeOK, Next PROVE OAuthTypeOK'
    OBVIOUS
  <2>1. StoreOK' /\ KeysOK' /\ ApprovalOK' /\ HandlersOK'
    BY StoreType, KeysType, ApprovalType, HandlersType
  <2>2. (StoreOK /\ KeysOK /\ ApprovalOK /\ HandlersOK => OAuthTypeOK)'
    BY TypeParts, PTL
  <2>. QED BY <2>1, <2>2
<1>2. OAuthTypeOK /\ UNCHANGED vars => OAuthTypeOK'
  BY DEF OAuthTypeOK, TypeOK, Handled, ClientsOK, vars
<1>. QED BY <1>1, <1>2

\* The records of the store and what the requests have in hand keep their
\* types: above all, whatever a request still has to read or write is there.
THEOREM OAuthTypeCorrect == Spec => []OAuthTypeOK
  BY InitType, StepType, PTL DEF Spec

-----------------------------------------------------------------------------
(* One step of one request                                                   *)

LEMMA OneRequest ==
  ASSUME OAuthTypeOK, NEW h \in Handlers, Request(h) \/ Serve(h) \/ Die(h)
  PROVE  \A i \in Handlers \ {h} : han'[i] = han[i]
<1>0. HandlersOK
  BY TypeParts
<1>1. CASE Request(h)
  BY <1>0, <1>1 DEF Request, Status, Decide, Authorize, Exchange, Refresh, Bearing, Authenticate,
                    Revoke, List, Begins, HandlersOK
<1>2. CASE Serve(h)
  <2>1. CASE ReadPending(h) \/ TakeApproval(h) \/ PutDecision(h)
    BY <1>0, <2>1 DEF ReadPending, TakeApproval, PutDecision, Ends, HandlersOK
  <2>2. CASE CheckDevice(h) \/ CheckGrant(h)
    <3>1. \/ Ends(h)
          \/ han' = [han EXCEPT ![h].at = "decide", ![h].ver = version]
          \/ \E at \in Ats : han' = [han EXCEPT ![h].at = at]
      <4>1. CheckDevice(h) \/ CheckGrant(h) => HandlerOK(han[h])
        BY <1>0 DEF HandlersOK, Handled
      <4>2. CheckGrant(h) => han[h].op \in {"exchange", "refresh", "authenticate"}
        BY <4>1 DEF CheckGrant, HandlerOK
      <4>. QED BY <2>2, <4>2 DEF CheckDevice, CheckGrant, Goes, Ats
    <3>. QED BY <1>0, <3>1 DEF Ends, HandlersOK
  <2>3. CASE ReadIndex(h) \/ Touch(h) \/ Reindex(h)
    BY <1>0, <2>3 DEF ReadIndex, Touch, Reindex, Ends, HandlersOK
  <2>4. CASE \E g \in Grants : Prune(h, g) \/ NewGrant(h, g)
    BY <1>0, <2>4 DEF Prune, NewGrant, HandlersOK
  <2>5. CASE PutGrant(h) \/ PutIndex(h)
    BY <1>0, <2>5 DEF PutGrant, PutIndex, Written, HandlersOK
  <2>6. CASE \/ \E k \in Codes : PutCode(h, k)
             \/ \E t \in Tokens : PutTokens(h, t)
    BY <1>0, <2>6 DEF PutCode, PutTokens, Ends, HandlersOK
  <2>. QED BY <1>2, <2>1, <2>2, <2>3, <2>4, <2>5, <2>6 DEF Serve
<1>3. CASE Die(h)
  BY <1>0, <1>3 DEF Die, HandlersOK
<1>. QED BY <1>1, <1>2, <1>3

\* What a request keeps until it is answered.
LEMMA ServeKeeps ==
  ASSUME OAuthTypeOK, NEW h \in Handlers, Serve(h)
  PROVE  \/ han'[h] = Idle
         \/ /\ han'[h].op = han[h].op /\ han'[h].src = han[h].src /\ han'[h].late = han[h].late
            /\ han'[h].at # "take" /\ han[h].at # "idle"
            /\ \/ han'[h].grant = han[h].grant
               \/ \E g \in Grants : NewGrant(h, g) /\ han'[h].grant = g
            /\ \/ han'[h].ver = han[h].ver
               \/ CheckDevice(h) /\ han'[h].ver = version
               \/ TakeApproval(h) /\ han'[h].ver = approval[han[h].src].ver
<1>0. han \in [Handlers -> HandlerState] /\ HandlerOK(han[h])
  BY TypeParts DEF HandlersOK, Handled
<1>1. CASE Ends(h)
  BY <1>0, <1>1 DEF Ends
<1>2. CASE ReadPending(h)
  BY <1>0, <1>1, <1>2 DEF ReadPending, HandlerState
<1>7. CASE TakeApproval(h)
  BY <1>0, <1>1, <1>7 DEF TakeApproval, HandlerState
<1>8. CASE CheckDevice(h)
  <2>1. \/ Ends(h)
        \/ han' = [han EXCEPT ![h].at = "decide", ![h].ver = version]
        \/ \E at \in {"index", "grant"} : han' = [han EXCEPT ![h].at = at]
    BY <1>8 DEF CheckDevice, Goes
  <2>2. han[h].at = "device"
    BY <1>8 DEF CheckDevice
  <2>. QED BY <1>0, <1>1, <1>8, <2>1, <2>2 DEF HandlerState
<1>9. CASE CheckGrant(h)
  <2>0. han[h].at = "grant"
    BY <1>9 DEF CheckGrant
  <2>3. han[h].op \in {"exchange", "refresh", "authenticate"}
    BY <1>0, <2>0 DEF HandlerOK
  <2>1. \/ Ends(h)
        \/ \E at \in {"touch", "index"} : han' = [han EXCEPT ![h].at = at]
    BY <1>9, <2>3 DEF CheckGrant, Goes
  <2>. QED BY <1>0, <1>1, <2>0, <2>1 DEF HandlerState
<1>3. CASE ReadIndex(h) \/ Touch(h)
  BY <1>0, <1>3 DEF ReadIndex, Touch, HandlerState
<1>4. ASSUME NEW g \in Grants, Prune(h, g) \/ NewGrant(h, g)
      PROVE  /\ han'[h].op = han[h].op /\ han'[h].src = han[h].src /\ han'[h].late = han[h].late
             /\ han'[h].at # "take" /\ han[h].at # "idle" /\ han'[h].ver = han[h].ver
             /\ han'[h].grant = han[h].grant \/ (NewGrant(h, g) /\ han'[h].grant = g)
  <2>1. CASE Prune(h, g)
    <3>1. PICK S : han'[h] = [han[h] EXCEPT !.seen = S] /\ han[h].at = "prune"
      BY <1>0, <2>1 DEF Prune
    <3>2. /\ han'[h].op = han[h].op /\ han'[h].src = han[h].src /\ han'[h].late = han[h].late
          /\ han'[h].at = "prune" /\ han'[h].ver = han[h].ver /\ han'[h].grant = han[h].grant
      BY <1>0, <3>1 DEF HandlerState
    <3>. QED BY <3>1, <3>2
  <2>2. CASE NewGrant(h, g)
    BY <1>0, <2>2 DEF NewGrant, HandlerState
  <2>. QED BY <1>4, <2>1, <2>2
<1>5. CASE PutGrant(h) \/ PutIndex(h)
  BY <1>0, <1>5 DEF PutGrant, PutIndex, Written, HandlerState
<1>6. CASE \/ PutDecision(h) \/ Reindex(h)
           \/ \E k \in Codes : PutCode(h, k)
           \/ \E t \in Tokens : PutTokens(h, t)
  BY <1>1, <1>6 DEF PutDecision, Reindex, PutCode, PutTokens
<1>. QED BY <1>2, <1>3, <1>4, <1>5, <1>6, <1>7, <1>8, <1>9 DEF Serve

\* Which steps change what.
LEMMA RequestChanges ==
  ASSUME NEW h \in Handlers, Request(h)
  PROVE  /\ UNCHANGED <<version, revoked, approval, issued, index, over, minted, access, wrong, used>>
         /\ UNCHANGED keys \/ (\E k \in Codes, good \in BOOLEAN : Exchange(h, k, good))
                          \/ (\E t \in Tokens, good \in BOOLEAN : Refresh(h, t, good))
         /\ UNCHANGED prompt \/ \E a \in Approvals, op \in {"approve", "deny"} : Decide(h, a, op)
         /\ UNCHANGED <<grant, raced>> \/ \E g \in Grants : Revoke(h, g)
<1>1. CASE \E a \in Approvals : Status(h, a) \/ \E op \in {"approve", "deny"} : Decide(h, a, op)
  BY <1>1 DEF Status, Decide, device, asks, store, keys
<1>2. CASE (\E c \in Clients : Authorize(h, c)) \/ List(h)
  BY <1>2 DEF Authorize, List, device, asks, store, keys
<1>3. CASE \E k \in Codes, good \in BOOLEAN : Exchange(h, k, good)
  BY <1>3 DEF Exchange, device, asks, store, keys
<1>4. CASE \E t \in Tokens : Authenticate(h, t) \/ \E good \in BOOLEAN : Refresh(h, t, good)
  BY <1>4 DEF Authenticate, Refresh, device, asks, store, keys
<1>5. CASE \E g \in Grants : Revoke(h, g)
  BY <1>5 DEF Revoke, device, asks, store, keys
<1>. QED BY <1>1, <1>2, <1>3, <1>4, <1>5 DEF Request

LEMMA ServeChanges ==
  ASSUME NEW h \in Handlers, Serve(h)
  PROVE  /\ UNCHANGED <<version, revoked, raced>>
         /\ UNCHANGED approval \/ PutDecision(h) \/ TakeApproval(h)
         /\ UNCHANGED prompt \/ TakeApproval(h)
         /\ UNCHANGED <<issued, codes>> \/ \E k \in Codes : PutCode(h, k)
         /\ UNCHANGED <<minted, refresh>> \/ \E t \in Tokens : PutTokens(h, t)
         /\ UNCHANGED <<access, rec>> \/ CheckDevice(h) \/ CheckGrant(h)
               \/ (\E k \in Codes : PutCode(h, k)) \/ (\E t \in Tokens : PutTokens(h, t))
         /\ UNCHANGED wrong \/ CheckGrant(h)
         /\ UNCHANGED grant \/ PutGrant(h) \/ \E g \in Grants : Prune(h, g)
         /\ UNCHANGED index \/ PutIndex(h) \/ Reindex(h)
         /\ UNCHANGED over \/ Reindex(h)
         /\ UNCHANGED used \/ (\E g \in Grants : NewGrant(h, g))
               \/ (\E k \in Codes : PutCode(h, k)) \/ (\E t \in Tokens : PutTokens(h, t))
<1>1. CASE ReadPending(h) \/ TakeApproval(h) \/ PutDecision(h)
  BY <1>1 DEF ReadPending, TakeApproval, PutDecision, device, asks, store, keys
<1>2. CASE CheckDevice(h)
  BY <1>2 DEF CheckDevice, device, asks, store, keys
<1>3. CASE CheckGrant(h)
  BY <1>3 DEF CheckGrant, device, asks, store, keys
<1>4. CASE ReadIndex(h) \/ Touch(h) \/ Reindex(h)
  BY <1>4 DEF ReadIndex, Touch, Reindex, device, asks, store, keys
<1>5. CASE \E g \in Grants : Prune(h, g) \/ NewGrant(h, g)
  BY <1>5 DEF Prune, NewGrant, device, asks, store, keys
<1>6. CASE PutGrant(h) \/ PutIndex(h)
  BY <1>6 DEF PutGrant, PutIndex, device, asks, store, keys
<1>7. CASE \E k \in Codes : PutCode(h, k)
  BY <1>7 DEF PutCode, device, asks, store, keys
<1>8. CASE \E t \in Tokens : PutTokens(h, t)
  BY <1>8 DEF PutTokens, device, asks, store, keys
<1>. QED BY <1>1, <1>2, <1>3, <1>4, <1>5, <1>6, <1>7, <1>8 DEF Serve

\* The steps of nobody's request.
Outside == \/ Rotate \/ RevokeDevice
           \/ \E a \in Approvals : Expire(a) \/ \E c \in Clients : AskApproval(a, c)

LEMMA OutsideChanges ==
  ASSUME Outside
  PROVE  /\ UNCHANGED <<issued, store, keys, han, used, wrong>>
         /\ UNCHANGED version \/ Rotate
         /\ UNCHANGED revoked \/ RevokeDevice
         /\ UNCHANGED <<approval, prompt>>
              \/ \E a \in Approvals : Expire(a) \/ \E c \in Clients : AskApproval(a, c)
  BY DEF Outside, Rotate, RevokeDevice, Expire, AskApproval, device, asks

LEMMA NextIs ==
  Next <=> Outside \/ \E h \in Handlers : Request(h) \/ Serve(h) \/ Die(h)
  BY Zenon DEF Next, Outside

LEMMA DieChanges ==
  ASSUME OAuthTypeOK, NEW h \in Handlers, Die(h)
  PROVE  /\ han'[h] = [Idle EXCEPT !.at = "dead"]
         /\ UNCHANGED <<version, revoked, approval, prompt, issued, grant, index, over, raced,
                       rec, codes, access, refresh, minted, used, wrong>>
  BY DEF Die, OAuthTypeOK, TypeOK, device, asks, store, keys

-----------------------------------------------------------------------------
(* The device                                                                *)

LEMMA PastStep == OAuthTypeOK /\ Past /\ Next => Past'
<1>. SUFFICES ASSUME OAuthTypeOK, Past, Next PROVE Past'
  OBVIOUS
<1>0. StoreOK /\ KeysOK /\ ApprovalOK /\ HandlersOK /\ version \in Nat
  BY TypeParts, OAuthAssumption DEF StoreOK
<1>1. version' \in Nat /\ version <= version'
  <2>1. version' = version \/ version' = version + 1
    BY NextIs, OutsideChanges, RequestChanges, ServeChanges, DieChanges DEF Rotate
  <2>. QED BY <1>0, <2>1
<1>2. \A h \in Handlers : han'[h].ver <= version
  <2>1. \A h \in Handlers : han[h].ver <= version
    BY DEF Past
  <2>2. ASSUME NEW h \in Handlers, Request(h) PROVE han'[h].ver <= version
    <3>0. \A k \in codes \cup access \cup refresh : rec[k].ver <= version
      BY <1>0 DEF KeysOK, Past, Keys
    <3>1. CASE han' = han
      BY <2>1, <3>1
    <3>3. ASSUME NEW a \in Approvals, NEW op \in {"approve", "deny"}, Status(h, a) \/ Decide(h, a, op)
          PROVE  han'[h].ver = 0
      <4>1. \/ han'[h] = [Idle EXCEPT !.op = "status", !.src = a, !.at = "take"]
            \/ han'[h] = [Idle EXCEPT !.op = op, !.src = a, !.at = "pending"]
        BY <1>0, <3>3 DEF Status, Decide, Begins, HandlersOK
      <4>. QED BY <4>1 DEF Idle
    <3>4. CASE (\E c \in Clients : Authorize(h, c)) \/ List(h)
      <4>1. \/ \E c \in Clients : han'[h] = [Idle EXCEPT !.op = "authorize", !.client = c,
                                             !.ver = version, !.at = "index"]
            \/ han'[h] = [Idle EXCEPT !.op = "list", !.at = "reindex", !.seen = index]
        BY <1>0, <3>4 DEF Authorize, List, Begins, HandlersOK
      <4>2. han'[h].ver = version \/ han'[h].ver = 0
        BY <4>1 DEF Idle
      <4>. QED BY <1>0, <4>2
    <3>5. CASE \/ \E k \in Codes, good \in BOOLEAN : Exchange(h, k, good)
               \/ \E t \in Tokens : Authenticate(h, t) \/ \E good \in BOOLEAN : Refresh(h, t, good)
      <4>1. ASSUME NEW k, k \in codes \cup access \cup refresh, NEW op, NEW good \in BOOLEAN,
                   Bearing(h, k, op, good)
            PROVE  han'[h].ver = rec[k].ver \/ han' = han
        <5>1. CASE good
          <6>1. han'[h] = [Idle EXCEPT !.op = op, !.src = k, !.at = "device", !.ver = rec[k].ver,
                                       !.client = rec[k].client, !.grant = rec[k].grant]
            BY <1>0, <4>1, <5>1 DEF Bearing, Begins, HandlersOK
          <6>. QED BY <6>1 DEF Idle
        <5>2. CASE ~good
          BY <4>1, <5>2 DEF Bearing
        <5>. QED BY <5>1, <5>2
      <4>2. ASSUME NEW t \in Tokens, Authenticate(h, t) PROVE t \in access /\ han'[h].ver = rec[t].ver
        BY <1>0, <4>2 DEF Authenticate, Begins, HandlersOK, Idle
      <4>3. ASSUME NEW t \in Tokens, NEW good \in BOOLEAN, Refresh(h, t, good)
            PROVE  han'[h].ver = rec[t].ver \/ han' = han
        BY <4>1, <4>3 DEF Refresh
      <4>4. ASSUME NEW k \in Codes, NEW good \in BOOLEAN, Exchange(h, k, good)
            PROVE  han'[h].ver = rec[k].ver \/ han' = han
        BY <4>1, <4>4 DEF Exchange
      <4>5. \A t \in Tokens, good \in BOOLEAN : Refresh(h, t, good) => t \in refresh
        BY DEF Refresh
      <4>6. \A k \in Codes, good \in BOOLEAN : Exchange(h, k, good) => k \in codes
        BY DEF Exchange
      <4>. QED BY <3>0, <3>1, <3>5, <4>2, <4>3, <4>4, <4>5, <4>6
    <3>6. CASE \E a \in Approvals : Status(h, a) \/ \E op \in {"approve", "deny"} : Decide(h, a, op)
      BY <1>0, <3>3, <3>6
    <3>7. CASE \E g \in Grants : Revoke(h, g)
      BY <1>0, <3>7 DEF Revoke, Begins, HandlersOK, Idle
    <3>. QED BY <2>2, <3>4, <3>5, <3>6, <3>7 DEF Request
  <2>3. ASSUME NEW h \in Handlers, Serve(h) PROVE han'[h].ver <= version
    <3>1. han[h].src \in Approvals \/ ~TakeApproval(h)
      BY <1>0 DEF HandlersOK, Handled, HandlerOK, TakeApproval
    <3>2. Idle.ver = 0
      BY DEF Idle
    <3>. QED BY <1>0, <2>1, <2>3, <3>1, <3>2, ServeKeeps DEF Past
  <2>4. ASSUME NEW h \in Handlers, Die(h) PROVE han'[h].ver <= version
    BY <1>0, <2>4, DieChanges DEF Idle
  <2>5. ASSUME NEW h \in Handlers, Request(h) \/ Serve(h) \/ Die(h)
        PROVE  \A i \in Handlers : han'[i].ver <= version
    <3>1. \A i \in Handlers \ {h} : han'[i] = han[i]
      BY <2>5, OneRequest
    <3>. QED BY <2>1, <2>2, <2>3, <2>4, <2>5, <3>1
  <2>6. CASE Outside
    BY <2>1, <2>6, OutsideChanges
  <2>. QED BY <2>5, <2>6, NextIs
<1>3. ASSUME NEW k \in Keys, rec'[k] # None PROVE rec'[k].ver <= version
  <2>1. CASE UNCHANGED rec \/ rec'[k] = rec[k]
    BY <1>3, <2>1 DEF Past
  <2>2. ASSUME NEW h \in Handlers, Request(h) PROVE rec'[k] = rec[k]
    BY <1>0, <1>3, <2>2, RequestChanges DEF Exchange, Refresh, KeysOK, keys
  <2>3. ASSUME NEW h \in Handlers, Serve(h) PROVE rec'[k] = rec[k] \/ rec'[k] = Record(h)
    <3>1. CASE CheckDevice(h) \/ CheckGrant(h)
      BY <1>0, <1>3, <3>1 DEF CheckDevice, CheckGrant, DropAccess, KeysOK
    <3>2. CASE \/ \E l \in Codes : PutCode(h, l)
               \/ \E l \in Tokens : PutTokens(h, l)
      BY <1>0, <3>2 DEF PutCode, PutTokens, KeysOK
    <3>. QED BY <2>3, <3>1, <3>2, ServeChanges
  <2>4. \A h \in Handlers : Record(h).ver = han[h].ver
    BY DEF Record
  <2>5. UNCHANGED rec \/ rec'[k] = rec[k] \/ \E h \in Handlers : rec'[k] = Record(h)
    BY <2>2, <2>3, NextIs, OutsideChanges, DieChanges DEF keys
  <2>. QED BY <2>1, <2>4, <2>5 DEF Past
<1>4. ASSUME NEW a \in Approvals PROVE approval'[a].ver <= version
  <2>1. CASE UNCHANGED approval
    BY <2>1 DEF Past
  <2>2. ASSUME NEW b \in Approvals, approval' = Gone(b) PROVE approval'[a].ver <= version
    BY <1>0, <2>2 DEF Past, Gone, NoApproval, ApprovalOK
  <2>3. ASSUME NEW b \in Approvals, NEW c \in Clients, AskApproval(b, c)
        PROVE  approval'[a].ver <= version
    BY <1>0, <2>3 DEF Past, AskApproval, ApprovalOK
  <2>4. ASSUME NEW h \in Handlers, PutDecision(h) PROVE approval'[a].ver <= version
    BY <1>0, <2>4 DEF Past, PutDecision, ApprovalOK
  <2>5. ASSUME NEW h \in Handlers, TakeApproval(h) PROVE approval'[a].ver <= version
    <3>1. han[h].src \in Approvals
      BY <1>0, <2>5 DEF HandlersOK, Handled, HandlerOK, TakeApproval
    <3>. QED BY <2>2, <2>5, <3>1 DEF TakeApproval
  <2>6. ASSUME NEW b \in Approvals, Expire(b) PROVE approval'[a].ver <= version
    BY <2>2, <2>6 DEF Expire
  <2>. QED BY <2>1, <2>3, <2>4, <2>5, <2>6, NextIs, OutsideChanges, RequestChanges, ServeChanges, DieChanges
<1>5. OAuthTypeOK' /\ 0..MaxVersion \subseteq Nat
  BY StepType, OAuthAssumption
<1>6. /\ \A h \in Handlers : han'[h].ver \in Nat
      /\ \A a \in Approvals : approval'[a].ver \in Nat
  BY <1>5 DEF OAuthTypeOK, TypeOK, HandlerState
<1>7. ASSUME NEW k \in Keys, rec'[k] # None PROVE rec'[k].ver \in Nat
  BY <1>5, <1>7 DEF OAuthTypeOK, TypeOK
<1>. QED BY <1>0, <1>1, <1>2, <1>3, <1>4, <1>6, <1>7 DEF Past

\* What a new request has in hand.
LEMMA RequestTakes ==
  ASSUME OAuthTypeOK, NEW h \in Handlers, Request(h)
  PROVE  /\ han[h] = Idle
         /\ \/ han' = han
            \/ /\ han'[h].late = {}
               /\ \/ \E a \in Approvals : /\ Status(h, a) /\ han'[h].op = "status"
                                          /\ han'[h].src = a /\ han'[h].at = "take"
                  \/ \E a \in Approvals, op \in {"approve", "deny"} :
                        /\ Decide(h, a, op) /\ han'[h].op = op
                        /\ han'[h].src = a /\ han'[h].at = "pending"
                  \/ han'[h].op = "authorize" /\ han'[h].at = "index"
                  \/ han'[h].op = "list" /\ han'[h].at = "reindex"
                  \/ \E k \in Codes, good \in BOOLEAN :
                        /\ Exchange(h, k, good) /\ han'[h].op = "exchange"
                        /\ han'[h].src = k /\ han'[h].at = "device"
                  \/ \E t \in Tokens, good \in BOOLEAN :
                        /\ Refresh(h, t, good) /\ han'[h].op = "refresh"
                        /\ han'[h].src = t /\ han'[h].at = "device"
                  \/ \E g \in Grants : /\ Revoke(h, g) /\ han'[h].op = "revoke"
                                       /\ han'[h].grant = g /\ han'[h].at = "index"
            \/ \E t \in Tokens : /\ Authenticate(h, t) /\ han'[h].op = "authenticate"
                                 /\ han'[h].at = "device" /\ han'[h].ver = rec[t].ver
                                 /\ "device" \in han'[h].late => revoked \/ version # rec[t].ver
<1>0. han \in [Handlers -> HandlerState]
  BY TypeParts DEF HandlersOK
<1>1. ASSUME NEW r, Begins(h, r) PROVE han[h] = Idle /\ han'[h] = r
  BY <1>0, <1>1 DEF Begins
<1>2. ASSUME NEW a \in Approvals, Status(h, a)
      PROVE  /\ han[h] = Idle /\ han'[h].late = {}
             /\ han'[h].op = "status" /\ han'[h].src = a /\ han'[h].at = "take"
  <2>1. han[h] = Idle /\ han'[h] = [Idle EXCEPT !.op = "status", !.src = a, !.at = "take"]
    BY <1>0, <1>2 DEF Status, Begins
  <2>. QED BY <2>1 DEF Idle
<1>3. ASSUME NEW a \in Approvals, NEW op \in {"approve", "deny"}, Decide(h, a, op)
      PROVE  /\ han[h] = Idle /\ han'[h].late = {}
             /\ han'[h].op = op /\ han'[h].src = a /\ han'[h].at = "pending"
  <2>1. han[h] = Idle /\ han'[h] = [Idle EXCEPT !.op = op, !.src = a, !.at = "pending"]
    BY <1>0, <1>3 DEF Decide, Begins
  <2>. QED BY <2>1 DEF Idle
<1>4. ASSUME NEW c \in Clients, Authorize(h, c)
      PROVE  han[h] = Idle /\ han'[h].late = {} /\ han'[h].op = "authorize" /\ han'[h].at = "index"
  <2>1. han[h] = Idle /\ han'[h] = [Idle EXCEPT !.op = "authorize", !.client = c, !.ver = version,
                                                !.at = "index"]
    BY <1>0, <1>4 DEF Authorize, Begins
  <2>. QED BY <2>1 DEF Idle
<1>5. ASSUME List(h)
      PROVE  han[h] = Idle /\ han'[h].late = {} /\ han'[h].op = "list" /\ han'[h].at = "reindex"
  <2>1. han[h] = Idle /\ han'[h] = [Idle EXCEPT !.op = "list", !.at = "reindex", !.seen = index]
    BY <1>0, <1>5 DEF List, Begins
  <2>. QED BY <2>1 DEF Idle
<1>6. ASSUME NEW k \in Keys, NEW op, NEW good \in BOOLEAN, Bearing(h, k, op, good)
      PROVE  /\ han[h] = Idle
             /\ \/ han' = han
                \/ han'[h].late = {} /\ han'[h].op = op /\ han'[h].src = k /\ han'[h].at = "device"
  <2>1. CASE good
    <3>1. han[h] = Idle /\ han'[h] = [Idle EXCEPT !.op = op, !.src = k, !.at = "device", !.ver = rec[k].ver,
                                      !.client = rec[k].client, !.grant = rec[k].grant]
      BY <1>0, <1>6, <2>1 DEF Bearing, Begins
    <3>. QED BY <3>1 DEF Idle
  <2>2. CASE ~good
    BY <1>6, <2>2 DEF Bearing
  <2>. QED BY <2>1, <2>2
<1>7. ASSUME NEW t \in Tokens, Authenticate(h, t)
      PROVE  /\ han[h] = Idle /\ han'[h].op = "authenticate"
             /\ han'[h].at = "device" /\ han'[h].ver = rec[t].ver
             /\ "device" \in han'[h].late => revoked \/ version # rec[t].ver
  <2>. DEFINE late == {w \in {"device", "grant"} :
                          IF w = "device" THEN revoked \/ version # rec[t].ver
                          ELSE rec[t].grant \in over}
  <2>1. han[h] = Idle /\ han'[h] = [Idle EXCEPT !.op = "authenticate", !.src = t, !.at = "device",
                  !.ver = rec[t].ver, !.client = rec[t].client, !.grant = rec[t].grant, !.late = late]
    BY <1>0, <1>7 DEF Authenticate, Begins
  <2>2. "device" \in late => revoked \/ version # rec[t].ver
    OBVIOUS
  <2>. HIDE DEF late
  <2>. QED BY <2>1, <2>2 DEF Idle
<1>8. ASSUME NEW g \in Grants, Revoke(h, g)
      PROVE  /\ han[h] = Idle /\ han'[h].late = {} /\ han'[h].op = "revoke"
             /\ han'[h].grant = g /\ han'[h].at = "index"
  <2>1. han[h] = Idle /\ han'[h] = [Idle EXCEPT !.op = "revoke", !.grant = g, !.at = "index"]
    BY <1>0, <1>8 DEF Revoke, Begins
  <2>. QED BY <2>1 DEF Idle
<1>9. ASSUME NEW k \in Codes, NEW good \in BOOLEAN, Exchange(h, k, good)
      PROVE  /\ han[h] = Idle
             /\ \/ han' = han
                \/ han'[h].late = {} /\ han'[h].op = "exchange" /\ han'[h].src = k /\ han'[h].at = "device"
  BY <1>6, <1>9 DEF Exchange, Keys
<1>10. ASSUME NEW t \in Tokens, NEW good \in BOOLEAN, Refresh(h, t, good)
       PROVE  /\ han[h] = Idle
              /\ \/ han' = han
                 \/ han'[h].late = {} /\ han'[h].op = "refresh" /\ han'[h].src = t /\ han'[h].at = "device"
  BY <1>6, <1>10 DEF Refresh, Keys
<1>11. CASE \E a \in Approvals : Status(h, a) \/ \E op \in {"approve", "deny"} : Decide(h, a, op)
  BY <1>2, <1>3, <1>11
<1>12. CASE (\E c \in Clients : Authorize(h, c)) \/ List(h)
  BY <1>4, <1>5, <1>12
<1>13. CASE \E k \in Codes, good \in BOOLEAN : Exchange(h, k, good)
  BY <1>9, <1>13
<1>14. CASE \E t \in Tokens : Authenticate(h, t) \/ \E good \in BOOLEAN : Refresh(h, t, good)
  BY <1>7, <1>10, <1>14
<1>15. CASE \E g \in Grants : Revoke(h, g)
  BY <1>8, <1>15
<1>. QED BY <1>11, <1>12, <1>13, <1>14, <1>15 DEF Request

LEMMA DeviceStep == OAuthTypeOK /\ DeviceInv /\ [Next]_vars => DeviceInv'
<1>. SUFFICES ASSUME OAuthTypeOK, DeviceInv, Next PROVE DeviceInv'
  BY DEF DeviceInv, Past, LateStops, DeviceCutsTokens, vars
<1>0. HandlersOK /\ version \in Nat /\ \A h \in Handlers : han[h].ver \in Nat
  <2>1. HandlersOK /\ StoreOK /\ 0..MaxVersion \subseteq Nat
    BY TypeParts, OAuthAssumption
  <2>. QED BY <2>1 DEF HandlersOK, StoreOK, HandlerState
<1>1. Past'
  BY PastStep DEF DeviceInv
<1>. DEFINE Stops(h) == "device" \in han[h].late => /\ han[h].op = "authenticate" /\ han[h].at = "device"
                                                   /\ (revoked \/ version # han[h].ver)
<1>2. \A h \in Handlers : Stops(h)
  BY DEF DeviceInv, LateStops
<1>3. Idle.late = {} /\ [Idle EXCEPT !.at = "dead"].late = {}
  BY DEF Idle
<1>4. ASSUME NEW h \in Handlers, Request(h) PROVE Stops(h)'
  <2>1. UNCHANGED <<version, revoked>>
    BY <1>4, RequestChanges
  <2>2. CASE han' = han
    BY <1>2, <2>1, <2>2
  <2>3. CASE \E t \in Tokens : /\ han'[h].op = "authenticate"
                               /\ han'[h].at = "device" /\ han'[h].ver = rec[t].ver
                               /\ "device" \in han'[h].late => revoked \/ version # rec[t].ver
    BY <2>1, <2>3
  <2>4. CASE han'[h].late = {}
    BY <2>4
  <2>. QED BY <1>4, <2>2, <2>3, <2>4, RequestTakes
<1>5. ASSUME NEW h \in Handlers, Serve(h) PROVE Stops(h)'
  <2>1. CASE "device" \in han[h].late
    <3>1. han[h].op = "authenticate" /\ han[h].at = "device" /\ (revoked \/ version # han[h].ver)
      BY <1>2, <2>1
    <3>2. CheckDevice(h)
      BY <1>5, <3>1 DEF Serve, ReadPending, PutDecision, TakeApproval, CheckGrant, ReadIndex, Touch,
                        Prune, NewGrant, PutGrant, PutIndex, Reindex, PutCode, PutTokens
    <3>3. han'[h] = Idle
      BY <1>0, <3>1, <3>2 DEF CheckDevice, Ends, HandlersOK
    <3>. QED BY <1>3, <3>3
  <2>2. CASE "device" \notin han[h].late
    BY <1>3, <1>5, <2>2, ServeKeeps
  <2>. QED BY <2>1, <2>2
<1>6. ASSUME NEW h \in Handlers, Request(h) \/ Serve(h) \/ Die(h) PROVE LateStops'
  <2>1. UNCHANGED <<version, revoked>>
    BY <1>6, RequestChanges, ServeChanges, DieChanges
  <2>2. Stops(h)'
    BY <1>3, <1>4, <1>5, <1>6, DieChanges
  <2>3. \A i \in Handlers \ {h} : han'[i] = han[i]
    BY <1>6, OneRequest
  <2>4. \A i \in Handlers : Stops(i)'
    BY <1>2, <2>1, <2>2, <2>3
  <2>. QED BY <2>4 DEF LateStops
<1>7. CASE Outside
  <2>0. revoked => revoked'
    <3>1. revoked' = revoked \/ revoked' = TRUE
      BY <1>7, OutsideChanges, Zenon DEF RevokeDevice
    <3>. QED BY <3>1
  <2>1. UNCHANGED <<han, wrong>> /\ (version' = version \/ version' = version + 1)
    BY <1>7, OutsideChanges DEF Rotate
  <2>2. ASSUME NEW h \in Handlers PROVE Stops(h)'
    <3>1. han[h].ver <= version
      BY DEF DeviceInv, Past
    <3>. QED BY <1>0, <1>2, <2>0, <2>1, <3>1
  <2>3. LateStops'
    BY <2>2 DEF LateStops
  <2>. QED BY <1>1, <2>1, <2>3 DEF DeviceInv, DeviceCutsTokens
<1>8. ASSUME NEW h \in Handlers, Request(h) \/ Serve(h) \/ Die(h) PROVE DeviceCutsTokens'
  <2>1. UNCHANGED wrong \/ CheckGrant(h)
    BY <1>8, RequestChanges, ServeChanges, DieChanges
  <2>2. CASE CheckGrant(h)
    <3>1. "device" \notin han[h].late
      BY <1>2, <2>2 DEF CheckGrant
    <3>2. wrong' = wrong \cup han[h].late \/ wrong' = wrong
      BY <2>2 DEF CheckGrant
    <3>. QED BY <3>1, <3>2 DEF DeviceInv, DeviceCutsTokens
  <2>. QED BY <2>1, <2>2 DEF DeviceInv, DeviceCutsTokens
<1>. QED BY <1>1, <1>6, <1>7, <1>8, NextIs DEF DeviceInv

\* A request that comes after the device was revoked or its credential rotated
\* is never authenticated by an older token, however many refreshes, approvals
\* and authorizations were on their way (authenticateAccessToken, and the
\* deviceVersion that every record carries).
THEOREM DeviceCutsTokensCorrect == Spec => []DeviceCutsTokens
<1>1. Init => DeviceInv
  BY OAuthAssumption DEF Init, DeviceInv, Past, LateStops, DeviceCutsTokens, Idle
<1>2. DeviceInv => DeviceCutsTokens
  BY DEF DeviceInv
<1>. QED BY <1>1, <1>2, DeviceStep, OAuthTypeCorrect, PTL DEF Spec

-----------------------------------------------------------------------------
(* Codes, tokens and approvals                                               *)

LEMMA IdleHasNothing ==
  ASSUME NEW r \in {Idle, [Idle EXCEPT !.at = "dead"]}
  PROVE  r.src \notin Keys /\ r.src \notin Approvals /\ r.at \in {"idle", "dead"} /\ r.grant \notin Grants
  BY OAuthAssumption DEF Idle, Keys

\* A request that is served presents, decides and redeems nothing new, but
\* for the one that takes its approval.
LEMMA ServeTakesNothing ==
  ASSUME OAuthTypeOK, NEW h \in Handlers, Serve(h) \/ Die(h)
  PROVE  /\ \A k \in Keys : Presents(h, k)' => Presents(h, k)
         /\ \A a \in Approvals : Deciding(h, a)' => Deciding(h, a)
         /\ \A a \in Approvals : Redeeming(h, a)' =>
               Redeeming(h, a) \/ (TakeApproval(h) /\ han[h].src = a /\ han[h].op = "status")
<1>1. CASE han'[h] \in {Idle, [Idle EXCEPT !.at = "dead"]}
  BY <1>1, IdleHasNothing DEF Presents, Deciding, Redeeming
<1>2. CASE /\ Serve(h) /\ han'[h].op = han[h].op /\ han'[h].src = han[h].src
  <2>1. han[h].at = "take" => TakeApproval(h)
    BY <1>2 DEF Serve, ReadPending, PutDecision, CheckDevice, CheckGrant, ReadIndex, Touch,
                Prune, NewGrant, PutGrant, PutIndex, Reindex, PutCode, PutTokens
  <2>. QED BY <1>2, <2>1 DEF Presents, Deciding, Redeeming
<1>. QED BY <1>1, <1>2, ServeKeeps, DieChanges

LEMMA BearingTakes ==
  ASSUME OAuthTypeOK, NEW h \in Handlers, NEW k \in Keys, NEW op, NEW good \in BOOLEAN,
         Bearing(h, k, op, good)
  PROVE  han' = han \/ han'[h].src = k
<1>1. CASE good
  <2>1. han'[h] = [Idle EXCEPT !.op = op, !.src = k, !.at = "device", !.ver = rec[k].ver,
                   !.client = rec[k].client, !.grant = rec[k].grant]
    BY <1>1, TypeParts DEF Bearing, Begins, HandlersOK
  <2>. QED BY <2>1 DEF Idle
<1>2. CASE ~good
  BY <1>2 DEF Bearing
<1>. QED BY <1>1, <1>2

LEMMA KeyKept ==
  ASSUME NEW k \in Keys, KeyTaken(k), used \subseteq used', minted' = minted,
         k \in codes' \cup refresh' => k \in codes \cup refresh,
         \A i \in Handlers : Presents(i, k)' => Presents(i, k)
  PROVE  KeyTaken(k)'
<1>. DEFINE P(i) == Presents(i, k)
<1>1. \A i \in Handlers : P(i)' => P(i)
  OBVIOUS
<1>2. /\ minted[k] <= 1
      /\ k \notin used => k \notin codes \cup refresh /\ minted[k] = 0
      /\ k \in codes \cup refresh => minted[k] = 0
      /\ \A h \in Handlers : P(h) =>
          /\ k \in used /\ k \notin codes \cup refresh /\ minted[k] = 0
          /\ \A i \in Handlers : P(i) => i = h
  BY DEF KeyTaken
<1>. HIDE DEF P
<1>3. /\ minted'[k] <= 1
      /\ k \notin used' => k \notin codes' \cup refresh' /\ minted'[k] = 0
      /\ k \in codes' \cup refresh' => minted'[k] = 0
      /\ \A h \in Handlers : P(h)' =>
          /\ k \in used' /\ k \notin codes' \cup refresh' /\ minted'[k] = 0
          /\ \A i \in Handlers : P(i)' => i = h
  BY <1>1, <1>2
<1>. QED BY <1>3 DEF KeyTaken, P

LEMMA KeysStep == OAuthTypeOK /\ KeysTaken /\ [Next]_vars => KeysTaken'
<1>1. OAuthTypeOK /\ KeysTaken /\ UNCHANGED vars => KeysTaken'
  BY DEF KeysTaken, KeyTaken, Presents, vars
<1>. SUFFICES ASSUME OAuthTypeOK, KeysTaken, Next, NEW k \in Keys PROVE KeyTaken(k)'
  BY <1>1 DEF KeysTaken
<1>0. KeysOK /\ HandlersOK /\ KeyTaken(k)
  BY TypeParts DEF KeysTaken
<1>2. CASE Outside
  <2>1. UNCHANGED <<keys, han, used>>
    BY <1>2, OutsideChanges
  <2>. QED BY <1>0, <2>1, KeyKept DEF keys, Presents
<1>3. ASSUME NEW h \in Handlers, NEW x \in Keys, x \in codes \cup refresh,
             UNCHANGED <<minted, used>>, codes' \cup refresh' = (codes \cup refresh) \ {x},
             \A i \in Handlers \ {h} : han'[i] = han[i],
             \A l \in Keys : Presents(h, l)' => l = x
      PROVE  KeyTaken(k)'
  <2>1. CASE k # x
    <3>1. \A i \in Handlers : Presents(i, k)' => Presents(i, k)
      BY <1>3, <2>1 DEF Presents
    <3>. QED BY <1>0, <1>3, <3>1, KeyKept
  <2>2. CASE k = x
    <3>1. k \in used /\ minted[k] = 0 /\ \A i \in Handlers : ~Presents(i, k)
      BY <1>0, <1>3, <2>2 DEF KeyTaken
    <3>2. \A i \in Handlers : Presents(i, k)' => i = h
      BY <1>3, <3>1 DEF Presents
    <3>. QED BY <1>3, <2>2, <3>1, <3>2 DEF KeyTaken
  <2>. QED BY <2>1, <2>2
<1>4. ASSUME NEW h \in Handlers, Request(h) PROVE KeyTaken(k)'
  <2>1. \A i \in Handlers \ {h} : han'[i] = han[i]
    BY <1>4, OneRequest
  <2>2. UNCHANGED <<minted, used>>
    BY <1>4, RequestChanges
  <2>3. ASSUME NEW c \in Codes, NEW good \in BOOLEAN, Exchange(h, c, good) PROVE KeyTaken(k)'
    <3>1. c \in Keys /\ c \in codes \cup refresh /\ codes' \cup refresh' = (codes \cup refresh) \ {c}
      BY <1>0, <2>3, OAuthAssumption DEF Exchange, KeysOK, Keys
    <3>2. CASE han' = han
      <4>1. \A i \in Handlers : Presents(i, k)' => Presents(i, k)
        BY <3>2 DEF Presents
      <4>. QED BY <1>0, <2>2, <3>1, <4>1, KeyKept
    <3>3. CASE han'[h].src = c
      BY <1>3, <2>1, <2>2, <3>1, <3>3 DEF Presents
    <3>4. han' = han \/ han'[h].src = c
      BY <2>3, <3>1, BearingTakes DEF Exchange
    <3>. QED BY <3>2, <3>3, <3>4
  <2>4. ASSUME NEW t \in Tokens, NEW good \in BOOLEAN, Refresh(h, t, good) PROVE KeyTaken(k)'
    <3>1. t \in Keys /\ t \in codes \cup refresh /\ codes' \cup refresh' = (codes \cup refresh) \ {t}
      BY <1>0, <2>4, OAuthAssumption DEF Refresh, KeysOK, Keys
    <3>2. CASE han' = han
      <4>1. \A i \in Handlers : Presents(i, k)' => Presents(i, k)
        BY <3>2 DEF Presents
      <4>. QED BY <1>0, <2>2, <3>1, <4>1, KeyKept
    <3>3. CASE han'[h].src = t
      BY <1>3, <2>1, <2>2, <3>1, <3>3 DEF Presents
    <3>4. han' = han \/ han'[h].src = t
      BY <2>4, <3>1, BearingTakes DEF Refresh
    <3>. QED BY <3>2, <3>3, <3>4
  <2>5. CASE UNCHANGED keys /\ (han' = han \/ han'[h].op \notin {"exchange", "refresh"})
    <3>1. \A i \in Handlers : Presents(i, k)' => Presents(i, k)
      BY <2>1, <2>5 DEF Presents
    <3>. QED BY <1>0, <2>2, <2>5, <3>1, KeyKept DEF keys
  <2>6. \/ han' = han \/ han'[h].op \notin {"exchange", "refresh"}
        \/ \E c \in Codes, good \in BOOLEAN : Exchange(h, c, good)
        \/ \E t \in Tokens, good \in BOOLEAN : Refresh(h, t, good)
    BY <1>4, RequestTakes
  <2>. QED BY <1>4, <2>3, <2>4, <2>5, <2>6, RequestChanges
<1>5. ASSUME NEW h \in Handlers, Serve(h) \/ Die(h) PROVE KeyTaken(k)'
  <2>1. \A i \in Handlers : Presents(i, k)' => Presents(i, k)
    <3>1. \A i \in Handlers \ {h} : han'[i] = han[i]
      BY <1>5, OneRequest
    <3>. QED BY <1>5, <3>1, ServeTakesNothing DEF Presents
  <2>2. ASSUME NEW x \in Keys, x \notin used, used' = used \cup {x}, k # x,
               codes' \cup refresh' = codes \cup refresh \cup {x}
        PROVE  minted' = minted => KeyTaken(k)'
    BY <1>0, <2>1, <2>2, KeyKept
  <2>3. ASSUME k \notin used, minted[k] = 0 => minted'[k] = 0, k \in used'
        PROVE  KeyTaken(k)'
    <3>1. minted'[k] = 0 /\ \A i \in Handlers : ~Presents(i, k)'
      BY <1>0, <2>1, <2>3 DEF KeyTaken
    <3>. QED BY <2>3, <3>1 DEF KeyTaken
  <2>4. ASSUME NEW c \in Codes, PutCode(h, c) PROVE KeyTaken(k)'
    <3>1. c \in Keys /\ c \notin used /\ used' = used \cup {c} /\ codes' = codes \cup {c}
          /\ UNCHANGED <<refresh, minted>>
      BY <2>4, FreshOne DEF PutCode, Keys
    <3>. QED BY <2>2, <2>3, <3>1
  <2>5. ASSUME NEW t \in Tokens, PutTokens(h, t) PROVE KeyTaken(k)'
    <3>1. t \in Keys /\ t \notin used /\ used' = used \cup {t} /\ refresh' = refresh \cup {t}
          /\ codes' = codes /\ minted' = [minted EXCEPT ![han[h].src] = @ + 1]
      BY <2>5, FreshOne DEF PutTokens, Keys
    <3>2. han[h].src \in Keys /\ Presents(h, han[h].src)
      BY <1>0, <2>5 DEF HandlersOK, Handled, HandlerOK, PutTokens, Presents, Keys
    <3>3. han[h].src \in used /\ minted[han[h].src] = 0
      BY <3>2 DEF KeysTaken, KeyTaken
    <3>4. CASE k = t
      BY <1>0, <2>3, <3>1, <3>3, <3>4 DEF KeysOK
    <3>5. CASE k # t /\ k # han[h].src
      <4>1. minted'[k] = minted[k]
        BY <1>0, <3>1, <3>5 DEF KeysOK
      <4>. QED BY <1>0, <2>1, <3>1, <3>5, <4>1 DEF KeyTaken
    <3>6. CASE k # t /\ k = han[h].src
      <4>1. minted'[k] = 1 /\ k \in used /\ k \notin codes' \cup refresh'
        BY <1>0, <3>1, <3>2, <3>3, <3>6 DEF KeysOK, KeyTaken
      <4>2. \A i \in Handlers : ~Presents(i, k)'
        <5>1. \A i \in Handlers : Presents(i, k) => i = h
          BY <1>0, <3>2, <3>6 DEF KeyTaken
        <5>2. ~Presents(h, k)'
          <6>1. han'[h] = Idle
            BY <1>0, <2>5 DEF PutTokens, Ends, HandlersOK
          <6>. QED BY <6>1, IdleHasNothing DEF Presents
        <5>. QED BY <2>1, <5>1, <5>2
      <4>. QED BY <3>1, <4>1, <4>2 DEF KeyTaken
    <3>. QED BY <3>4, <3>5, <3>6
  <2>6. CASE UNCHANGED <<minted, refresh, codes>> /\ used \subseteq used'
    BY <1>0, <2>1, <2>6, KeyKept
  <2>7. \A g \in Grants : NewGrant(h, g) => used \subseteq used'
    BY DEF NewGrant, Fresh
  <2>8. \/ \E c \in Codes : PutCode(h, c)
        \/ \E t \in Tokens : PutTokens(h, t)
        \/ UNCHANGED <<minted, refresh, codes>> /\ used \subseteq used'
    BY <1>5, <2>7, ServeChanges, DieChanges
  <2>. QED BY <2>4, <2>5, <2>6, <2>8
<1>. QED BY <1>2, <1>4, <1>5, NextIs

LEMMA ApprovalKept ==
  ASSUME NEW a \in Approvals, ApprovalTaken(a), issued'[a] = issued[a],
         \/ approval'[a].at = approval[a].at /\ (a \in prompt' => a \in prompt)
         \/ approval'[a].at = "gone" /\ a \notin prompt',
         \A i \in Handlers : Deciding(i, a)' => Deciding(i, a),
         \A i \in Handlers : Redeeming(i, a)' => Redeeming(i, a)
  PROVE  ApprovalTaken(a)'
<1>. DEFINE D(i) == Deciding(i, a)
            R(i) == Redeeming(i, a)
<1>1. \A i \in Handlers : (D(i)' => D(i)) /\ (R(i)' => R(i))
  OBVIOUS
<1>2. /\ issued[a] <= 1
      /\ a \in prompt => approval[a].at = "pending"
      /\ approval[a].at # "gone" => issued[a] = 0
      /\ \A h \in Handlers : D(h) =>
          /\ approval[a].at \in {"pending", "gone"} /\ a \notin prompt /\ issued[a] = 0
          /\ \A i \in Handlers : (D(i) => i = h) /\ ~R(i)
      /\ \A h \in Handlers : R(h) =>
          /\ approval[a].at = "gone" /\ a \notin prompt /\ issued[a] = 0
          /\ \A i \in Handlers : R(i) => i = h
  BY DEF ApprovalTaken
<1>. HIDE DEF D, R
<1>3. /\ issued'[a] <= 1
      /\ a \in prompt' => approval'[a].at = "pending"
      /\ approval'[a].at # "gone" => issued'[a] = 0
      /\ \A h \in Handlers : D(h)' =>
          /\ approval'[a].at \in {"pending", "gone"} /\ a \notin prompt' /\ issued'[a] = 0
          /\ \A i \in Handlers : (D(i)' => i = h) /\ ~R(i)'
      /\ \A h \in Handlers : R(h)' =>
          /\ approval'[a].at = "gone" /\ a \notin prompt' /\ issued'[a] = 0
          /\ \A i \in Handlers : R(i)' => i = h
  BY <1>1, <1>2
<1>. QED BY <1>3 DEF ApprovalTaken, D, R

LEMMA ApprovalsStep == OAuthTypeOK /\ ApprovalsTaken /\ [Next]_vars => ApprovalsTaken'
<1>1. OAuthTypeOK /\ ApprovalsTaken /\ UNCHANGED vars => ApprovalsTaken'
  BY DEF ApprovalsTaken, ApprovalTaken, Deciding, Redeeming, vars
<1>. SUFFICES ASSUME OAuthTypeOK, ApprovalsTaken, Next, NEW a \in Approvals PROVE ApprovalTaken(a)'
  BY <1>1 DEF ApprovalsTaken
<1>0. ApprovalOK /\ HandlersOK /\ StoreOK /\ ApprovalTaken(a)
  BY TypeParts DEF ApprovalsTaken
<1>2. CASE Outside
  <2>1. UNCHANGED <<han, issued>>
    BY <1>2, OutsideChanges
  <2>2. CASE UNCHANGED <<approval, prompt>>
    BY <1>0, <2>1, <2>2, ApprovalKept DEF Deciding, Redeeming
  <2>3. ASSUME NEW b \in Approvals, Expire(b) PROVE ApprovalTaken(a)'
    <3>1. \/ approval'[a].at = approval[a].at /\ (a \in prompt' => a \in prompt)
          \/ approval'[a].at = "gone" /\ a \notin prompt'
      BY <1>0, <2>3 DEF Expire, Gone, NoApproval, ApprovalOK
    <3>. QED BY <1>0, <2>1, <3>1, ApprovalKept DEF Deciding, Redeeming
  <2>4. ASSUME NEW b \in Approvals, NEW c \in Clients, AskApproval(b, c) PROVE ApprovalTaken(a)'
    <3>1. CASE a # b
      <4>1. approval'[a].at = approval[a].at /\ (a \in prompt' => a \in prompt)
        BY <1>0, <2>4, <3>1 DEF AskApproval, ApprovalOK
      <4>. QED BY <1>0, <2>1, <4>1, ApprovalKept DEF Deciding, Redeeming
    <3>2. CASE a = b
      <4>1. approval[a].at = "new" /\ approval'[a].at = "pending"
        BY <1>0, <2>4, <3>2 DEF AskApproval, ApprovalOK
      <4>2. issued[a] = 0 /\ \A h \in Handlers : ~Deciding(h, a) /\ ~Redeeming(h, a)
        BY <1>0, <4>1 DEF ApprovalTaken
      <4>3. issued'[a] = 0 /\ \A h \in Handlers : ~Deciding(h, a)' /\ ~Redeeming(h, a)'
        BY <2>1, <4>2 DEF Deciding, Redeeming
      <4>. QED BY <4>1, <4>3 DEF ApprovalTaken
    <3>. QED BY <3>1, <3>2
  <2>. QED BY <1>2, <2>2, <2>3, <2>4, OutsideChanges
<1>3. ASSUME NEW h \in Handlers, Request(h) PROVE ApprovalTaken(a)'
  <2>1. \A i \in Handlers \ {h} : han'[i] = han[i]
    BY <1>3, OneRequest
  <2>2. UNCHANGED <<approval, issued>>
    BY <1>3, RequestChanges
  <2>3. CASE /\ a \in prompt' => a \in prompt
             /\ ~Deciding(h, a)' /\ ~Redeeming(h, a)'
    <3>1. \A i \in Handlers : (Deciding(i, a)' => Deciding(i, a)) /\ (Redeeming(i, a)' => Redeeming(i, a))
      BY <2>1, <2>3 DEF Deciding, Redeeming
    <3>. QED BY <1>0, <2>2, <2>3, <3>1, ApprovalKept
  <2>4. ASSUME NEW b \in Approvals, NEW op \in {"approve", "deny"}, Decide(h, b, op),
               han'[h].op = op, han'[h].src = b
        PROVE  ApprovalTaken(a)'
    <3>1. CASE a # b
      BY <2>3, <2>4, <3>1 DEF Deciding, Redeeming, Decide
    <3>2. CASE a = b
      <4>1. a \in prompt /\ a \notin prompt'
        BY <2>4, <3>2 DEF Decide
      <4>2. /\ approval[a].at = "pending" /\ issued[a] = 0
            /\ \A i \in Handlers : ~Deciding(i, a) /\ ~Redeeming(i, a)
        BY <1>0, <4>1 DEF ApprovalTaken
      <4>3. \A i \in Handlers : (Deciding(i, a)' => i = h) /\ ~Redeeming(i, a)'
        BY <2>1, <2>4, <4>2 DEF Deciding, Redeeming
      <4>. QED BY <2>2, <4>1, <4>2, <4>3 DEF ApprovalTaken
    <3>. QED BY <3>1, <3>2
  <2>5. CASE han' = han /\ (a \in prompt' => a \in prompt)
    BY <1>0, <2>2, <2>5, ApprovalKept DEF Deciding, Redeeming
  <2>6. a \in prompt' => a \in prompt
    <3>1. \A b \in Approvals, op \in {"approve", "deny"} : Decide(h, b, op) => prompt' \subseteq prompt
      BY DEF Decide
    <3>. QED BY <1>3, <3>1, RequestChanges
  <2>. QED BY <1>3, <2>3, <2>4, <2>5, <2>6, RequestTakes DEF Deciding, Redeeming
<1>4. ASSUME NEW h \in Handlers, Serve(h) \/ Die(h) PROVE ApprovalTaken(a)'
  <2>1. \A i \in Handlers \ {h} : han'[i] = han[i]
    BY <1>4, OneRequest
  <2>2. \A i \in Handlers : Deciding(i, a)' => Deciding(i, a)
    BY <1>4, <2>1, ServeTakesNothing DEF Deciding
  <2>3. CASE PutDecision(h)
    <3>1. /\ approval' = [approval EXCEPT ![han[h].src] =
                [at |-> IF han[h].op = "approve" THEN "approved" ELSE "denied",
                 client |-> han[h].client, ver |-> han[h].ver]]
          /\ han'[h] = Idle /\ UNCHANGED <<issued, prompt>>
      BY <1>0, <2>3 DEF PutDecision, Ends, HandlersOK
    <3>2. han[h].src \in Approvals /\ Deciding(h, han[h].src)
      BY <1>0, <2>3 DEF HandlersOK, Handled, HandlerOK, PutDecision, Deciding
    <3>3. \A i \in Handlers : Redeeming(i, a)' => Redeeming(i, a)
      BY <2>1, <3>1, IdleHasNothing DEF Redeeming
    <3>4. CASE a # han[h].src
      <4>1. approval'[a] = approval[a]
        BY <1>0, <3>1, <3>4 DEF ApprovalOK
      <4>. QED BY <1>0, <2>2, <3>1, <3>3, <4>1, ApprovalKept
    <3>5. CASE a = han[h].src
      <4>1. /\ a \notin prompt /\ issued[a] = 0
            /\ \A i \in Handlers : (Deciding(i, a) => i = h) /\ ~Redeeming(i, a)
        BY <1>0, <3>2, <3>5 DEF ApprovalTaken
      <4>2. ~Deciding(h, a)'
        BY <3>1, IdleHasNothing DEF Deciding
      <4>3. \A i \in Handlers : ~Deciding(i, a)' /\ ~Redeeming(i, a)'
        BY <2>2, <3>3, <4>1, <4>2
      <4>4. a \notin prompt' /\ issued'[a] = 0
        BY <3>1, <4>1
      <4>. QED BY <4>3, <4>4 DEF ApprovalTaken
    <3>. QED BY <3>4, <3>5
  <2>4. CASE TakeApproval(h)
    <3>1. /\ approval' = Gone(han[h].src) /\ prompt' = prompt \ {han[h].src} /\ issued' = issued
          /\ han'[h] = Idle \/ approval[han[h].src].at = "approved"
      BY <1>0, <2>4 DEF TakeApproval, Ends, HandlersOK
    <3>2. han[h].src \in Approvals /\ han[h].op = "status" /\ han[h].at = "take"
      BY <1>0, <2>4 DEF HandlersOK, Handled, HandlerOK, TakeApproval
    <3>3. \/ approval'[a].at = approval[a].at /\ (a \in prompt' => a \in prompt)
          \/ approval'[a].at = "gone" /\ a \notin prompt'
      BY <1>0, <3>1, <3>2 DEF Gone, NoApproval, ApprovalOK
    <3>4. CASE ~Redeeming(h, a)'
      <4>1. \A i \in Handlers : Redeeming(i, a)' => Redeeming(i, a)
        BY <2>1, <3>4 DEF Redeeming
      <4>. QED BY <1>0, <2>2, <3>1, <3>3, <4>1, ApprovalKept
    <3>5. CASE Redeeming(h, a)'
      <4>1. a = han[h].src
        BY <1>4, <3>5, <3>2, ServeTakesNothing DEF Redeeming
      <4>2. approval[a].at = "approved"
        BY <3>1, <3>5, <4>1, IdleHasNothing DEF Redeeming
      <4>3. issued[a] = 0 /\ \A i \in Handlers : ~Deciding(i, a) /\ ~Redeeming(i, a)
        BY <1>0, <4>2 DEF ApprovalTaken
      <4>4. \A i \in Handlers : ~Deciding(i, a)' /\ (Redeeming(i, a)' => i = h)
        BY <2>1, <2>2, <4>3 DEF Redeeming
      <4>5. approval'[a].at = "gone" /\ a \notin prompt' /\ issued'[a] = 0
        BY <1>0, <3>1, <4>1, <4>3 DEF Gone, NoApproval, ApprovalOK
      <4>. QED BY <4>4, <4>5 DEF ApprovalTaken
    <3>. QED BY <3>4, <3>5
  <2>5. ASSUME ~TakeApproval(h) PROVE \A i \in Handlers : Redeeming(i, a)' => Redeeming(i, a)
    BY <1>4, <2>1, <2>5, ServeTakesNothing DEF Redeeming
  <2>6. ASSUME NEW k \in Codes, PutCode(h, k) PROVE ApprovalTaken(a)'
    <3>0. ~TakeApproval(h)
      BY <2>6 DEF TakeApproval, PutCode
    <3>1. /\ UNCHANGED <<approval, prompt>> /\ han'[h] = Idle /\ han[h].at = "code"
          /\ issued' = IF han[h].op = "status" THEN [issued EXCEPT ![han[h].src] = @ + 1] ELSE issued
      BY <1>0, <2>6 DEF PutCode, Ends, HandlersOK
    <3>2. CASE ~Redeeming(h, a)
      <4>1. issued'[a] = issued[a]
        BY <1>0, <3>1, <3>2 DEF Redeeming, StoreOK
      <4>. QED BY <1>0, <2>2, <2>5, <3>0, <3>1, <4>1, ApprovalKept
    <3>3. CASE Redeeming(h, a)
      <4>1. /\ approval[a].at = "gone" /\ a \notin prompt /\ issued[a] = 0
            /\ \A i \in Handlers : (Redeeming(i, a) => i = h) /\ ~Deciding(i, a)
        BY <1>0, <3>3 DEF ApprovalTaken
      <4>2. ~Redeeming(h, a)'
        BY <3>1, IdleHasNothing DEF Redeeming
      <4>3. \A i \in Handlers : ~Deciding(i, a)' /\ ~Redeeming(i, a)'
        BY <2>2, <2>5, <3>0, <4>1, <4>2
      <4>4. issued'[a] = 1
        BY <1>0, <3>1, <3>3, <4>1 DEF Redeeming, StoreOK
      <4>. QED BY <3>1, <4>1, <4>3, <4>4 DEF ApprovalTaken
    <3>. QED BY <3>2, <3>3
  <2>7. CASE ~TakeApproval(h) /\ UNCHANGED <<approval, prompt, issued>>
    BY <1>0, <2>2, <2>5, <2>7, ApprovalKept
  <2>8. Die(h) => ~TakeApproval(h) \/ UNCHANGED <<approval, prompt, issued>>
    BY DieChanges
  <2>. QED BY <1>4, <2>3, <2>4, <2>6, <2>7, <2>8, ServeChanges, DieChanges
<1>. QED BY <1>2, <1>3, <1>4, NextIs

\* A code or a refresh token gives one pair of tokens at most, an approval one
\* code, whatever number of requests present it at a time, on whatever
\* replicas (takeAuthorizationCode, takeRefreshToken, takeDeviceApproval).
THEOREM UsedOnceCorrect == Spec => []UsedOnce
<1>1. Init => KeysTaken /\ ApprovalsTaken
  <2>. SUFFICES ASSUME Init PROVE KeysTaken /\ ApprovalsTaken
    OBVIOUS
  <2>1. \A h \in Handlers : han[h].src \notin Keys /\ han[h].src \notin Approvals
    BY IdleHasNothing DEF Init
  <2>2. KeysTaken
    BY <2>1 DEF Init, KeysTaken, KeyTaken, Presents
  <2>3. ApprovalsTaken
    BY <2>1 DEF Init, ApprovalsTaken, ApprovalTaken, Deciding, Redeeming
  <2>. QED BY <2>2, <2>3
<1>2. KeysTaken /\ ApprovalsTaken => UsedOnce
  BY DEF KeysTaken, KeyTaken, ApprovalsTaken, ApprovalTaken, UsedOnce
<1>. QED BY <1>1, <1>2, KeysStep, ApprovalsStep, OAuthTypeCorrect, PTL DEF Spec

\* A decision of the user stands: no second decision, late or repeated, turns
\* it (handleDeviceApprovalDecision).
THEOREM DecisionStandsCorrect == Spec => DecisionStands
<1>. DEFINE Stands == \A a \in Approvals : approval[a].at \in {"approved", "denied"} =>
                         approval'[a].at \in {approval[a].at, "gone"}
<1>1. Init => ApprovalsTaken
  <2>1. Init => \A h \in Handlers : han[h].src \notin Approvals
    BY IdleHasNothing DEF Init
  <2>. QED BY <2>1 DEF Init, ApprovalsTaken, ApprovalTaken, Deciding, Redeeming
<1>2. OAuthTypeOK /\ ApprovalsTaken /\ [Next]_vars => [Stands]_vars
  <2>. SUFFICES ASSUME OAuthTypeOK, ApprovalsTaken, Next, NEW a \in Approvals,
                       approval[a].at \in {"approved", "denied"}
                PROVE  approval'[a].at \in {approval[a].at, "gone"}
    OBVIOUS
  <2>0. ApprovalOK /\ HandlersOK /\ ApprovalTaken(a)
    BY TypeParts DEF ApprovalsTaken
  <2>1. CASE approval' = approval
    BY <2>1
  <2>2. ASSUME NEW b \in Approvals, NEW c \in Clients, AskApproval(b, c)
        PROVE  approval'[a] = approval[a]
    BY <2>0, <2>2 DEF AskApproval, ApprovalOK
  <2>3. ASSUME NEW b \in Approvals, approval' = Gone(b)
        PROVE  approval'[a].at \in {approval[a].at, "gone"}
    BY <2>0, <2>3 DEF Gone, NoApproval, ApprovalOK
  <2>4. ASSUME NEW h \in Handlers, PutDecision(h) PROVE approval'[a] = approval[a]
    <3>1. han[h].src \in Approvals /\ Deciding(h, han[h].src)
      BY <2>0, <2>4 DEF HandlersOK, Handled, HandlerOK, PutDecision, Deciding
    <3>2. han[h].src # a
      BY <2>0, <3>1 DEF ApprovalTaken
    <3>. QED BY <2>0, <2>4, <3>2 DEF PutDecision, ApprovalOK
  <2>5. ASSUME NEW h \in Handlers, TakeApproval(h)
        PROVE  approval'[a].at \in {approval[a].at, "gone"}
    <3>1. han[h].src \in Approvals
      BY <2>0, <2>5 DEF HandlersOK, Handled, HandlerOK, TakeApproval
    <3>. QED BY <2>3, <2>5, <3>1 DEF TakeApproval
  <2>6. ASSUME NEW b \in Approvals, Expire(b)
        PROVE  approval'[a].at \in {approval[a].at, "gone"}
    BY <2>3, <2>6 DEF Expire
  <2>. QED BY <2>1, <2>2, <2>4, <2>5, <2>6, NextIs, OutsideChanges, RequestChanges, ServeChanges, DieChanges
<1>. QED BY <1>1, <1>2, ApprovalsStep, OAuthTypeCorrect, PTL DEF Spec, DecisionStands

-----------------------------------------------------------------------------
(* Grants                                                                    *)

\* Where a request goes that has not looked at the grants yet.
LEMMA EarlySteps ==
  ASSUME OAuthTypeOK, NEW h \in Handlers,
         ReadPending(h) \/ TakeApproval(h) \/ PutDecision(h) \/ CheckDevice(h) \/ CheckGrant(h)
  PROVE  \/ han'[h] = Idle
         \/ han'[h].at \in {"device", "decide", "index", "grant"}
         \/ CheckGrant(h) /\ han'[h].at = "touch"
<1>0. han \in [Handlers -> HandlerState] /\ HandlerOK(han[h])
  BY TypeParts DEF HandlersOK, Handled
<1>1. CASE Ends(h)
  BY <1>0, <1>1 DEF Ends
<1>2. CASE ReadPending(h)
  <2>1. Ends(h) \/ \E c : han' = [han EXCEPT ![h].at = "device", ![h].client = c]
    BY <1>2 DEF ReadPending
  <2>. QED BY <1>0, <1>1, <2>1 DEF HandlerState
<1>3. CASE TakeApproval(h)
  <2>. DEFINE a == approval[han[h].src]
  <2>1. \/ Ends(h)
        \/ han' = [han EXCEPT ![h].at = "device", ![h].ver = a.ver, ![h].client = a.client]
    BY <1>3 DEF TakeApproval
  <2>. HIDE DEF a
  <2>. QED BY <1>0, <1>1, <2>1 DEF HandlerState
<1>4. CASE PutDecision(h)
  BY <1>1, <1>4 DEF PutDecision
<1>5. CASE CheckDevice(h)
  <2>1. \/ Ends(h)
        \/ han' = [han EXCEPT ![h].at = "decide", ![h].ver = version]
        \/ \E at \in {"index", "grant"} : han' = [han EXCEPT ![h].at = at]
    BY <1>5 DEF CheckDevice, Goes
  <2>. QED BY <1>0, <1>1, <2>1 DEF HandlerState
<1>6. CASE CheckGrant(h)
  <2>1. han[h].op \in {"exchange", "refresh", "authenticate"}
    BY <1>0, <1>6 DEF CheckGrant, HandlerOK
  <2>2. \/ Ends(h)
        \/ \E at \in {"touch", "index"} : han' = [han EXCEPT ![h].at = at]
    BY <1>6, <2>1 DEF CheckGrant, Goes
  <2>. QED BY <1>0, <1>1, <1>6, <2>2 DEF HandlerState
<1>. QED BY <1>2, <1>3, <1>4, <1>5, <1>6

\* Only a new grant, or a token request whose grant is there, begins to write.
LEMMA ServeWrites ==
  ASSUME OAuthTypeOK, NEW h \in Handlers, Serve(h) \/ Die(h), NEW g \in Grants
  PROVE  /\ Writing(h, g)' => \/ Writing(h, g) \/ NewGrant(h, g)
                              \/ CheckGrant(h) /\ grant[g] # None
         /\ han'[h].op = "revoke" /\ han'[h].grant = g => han[h].op = "revoke" /\ han[h].grant = g
<1>0. HandlersOK /\ han \in [Handlers -> HandlerState] /\ HandlerOK(han[h])
  BY TypeParts DEF HandlersOK, Handled
<1>1. CASE han'[h] \in {Idle, [Idle EXCEPT !.at = "dead"]}
  BY <1>1, IdleHasNothing DEF Writing
<1>2. CASE ReadPending(h) \/ TakeApproval(h) \/ PutDecision(h)
  <2>1. han'[h] = Idle \/ han'[h].at \notin {"create", "touch", "puts"}
    <3>1. ~CheckGrant(h)
      BY <1>2 DEF ReadPending, TakeApproval, PutDecision, CheckGrant
    <3>. QED BY <1>2, <3>1, EarlySteps
  <2>2. han[h].op \in {"approve", "deny", "status"}
    BY <1>0, <1>2 DEF ReadPending, TakeApproval, PutDecision, HandlerOK
  <2>. QED BY <1>1, <1>2, <2>1, <2>2, ServeKeeps DEF Writing, Serve
<1>3. CASE CheckDevice(h)
  <2>1. han'[h] = Idle \/ han'[h].at \notin {"create", "touch", "puts"}
    <3>1. ~CheckGrant(h)
      BY <1>3 DEF CheckDevice, CheckGrant
    <3>. QED BY <1>3, <3>1, EarlySteps
  <2>2. han[h].op # "revoke"
    BY <1>0, <1>3 DEF CheckDevice, HandlerOK
  <2>. QED BY <1>1, <1>3, <2>1, <2>2, ServeKeeps DEF Writing, Serve
<1>4. CASE CheckGrant(h)
  <2>1. han[h].op \in {"exchange", "refresh", "authenticate"}
    BY <1>0, <1>4 DEF CheckGrant, HandlerOK
  <2>2. \/ han'[h] = Idle
        \/ han'[h].grant = han[h].grant /\ han'[h].op = han[h].op
           /\ (han'[h].at = "index" \/ Matches(h))
    <3>1. \/ Ends(h)
          \/ \E at \in {"touch", "index"} :
                han' = [han EXCEPT ![h].at = at] /\ (at = "index" \/ Matches(h))
      BY <1>4, <2>1 DEF CheckGrant, Goes
    <3>. QED BY <1>0, <3>1 DEF Ends, HandlerState
  <2>3. Matches(h) => grant[han[h].grant] # None
    BY DEF Matches
  <2>. QED BY <1>1, <1>4, <2>1, <2>2, <2>3 DEF Writing
<1>5. CASE ReadIndex(h) \/ Reindex(h)
  <2>1. han'[h] = Idle \/ (han'[h].at \in {"reindex", "prune"} /\ han'[h].op = han[h].op
                           /\ han'[h].grant = han[h].grant)
    BY <1>0, <1>5 DEF ReadIndex, Reindex, Ends, HandlerState
  <2>. QED BY <1>1, <2>1 DEF Writing
<1>6. CASE Touch(h)
  <2>1. han[h].at = "touch" /\ han'[h].op = han[h].op /\ han'[h].grant = han[h].grant
    BY <1>0, <1>6 DEF Touch, HandlerState
  <2>. QED BY <2>1 DEF Writing
<1>7. CASE PutGrant(h) \/ PutIndex(h)
  <2>1. /\ han[h].at \in {"create", "puts"}
        /\ han'[h].op = han[h].op /\ han'[h].grant = han[h].grant
    BY <1>0, <1>7 DEF PutGrant, PutIndex, Written, HandlerState
  <2>. QED BY <2>1 DEF Writing
<1>8. ASSUME NEW x \in Grants, Prune(h, x)
      PROVE  ~Writing(h, g)' /\ han'[h].op = han[h].op /\ han'[h].grant = han[h].grant
  <2>1. PICK S : han'[h] = [han[h] EXCEPT !.seen = S] /\ han[h].at = "prune"
    BY <1>0, <1>8 DEF Prune
  <2>2. han'[h].at = "prune" /\ han'[h].op = han[h].op /\ han'[h].grant = han[h].grant
    BY <1>0, <2>1 DEF HandlerState
  <2>. QED BY <2>2 DEF Writing
<1>9. ASSUME NEW x \in Grants, NewGrant(h, x)
      PROVE  /\ Writing(h, g)' => NewGrant(h, g)
             /\ han'[h].op # "revoke"
  <2>1. han'[h].op = han[h].op /\ han'[h].grant = x /\ han[h].at = "prune"
    BY <1>0, <1>9 DEF NewGrant, HandlerState
  <2>2. han[h].op # "revoke"
    BY <1>0, <2>1 DEF HandlerOK
  <2>. QED BY <1>9, <2>1, <2>2 DEF Writing
<1>10. CASE \/ \E k \in Codes : PutCode(h, k)
            \/ \E t \in Tokens : PutTokens(h, t)
  BY <1>0, <1>1, <1>10 DEF PutCode, PutTokens, Ends
<1>11. CASE Die(h)
  BY <1>1, <1>11, DieChanges
<1>. QED BY <1>2, <1>3, <1>4, <1>5, <1>6, <1>7, <1>8, <1>9, <1>10, <1>11 DEF Serve

LEMMA GrantKept ==
  ASSUME NEW g \in Grants, GrantGone(g), used \subseteq used', raced \subseteq raced',
         grant'[g] = None \/ grant'[g] = grant[g] \/ \E h \in Handlers : Writing(h, g),
         Revoked(g)' => Revoked(g),
         \A i \in Handlers : Writing(i, g)' => Writing(i, g) \/ grant[g] # None
  PROVE  GrantGone(g)'
<1>. DEFINE W(i) == Writing(i, g)
            R    == Revoked(g)
<1>1. /\ R' => R
      /\ \A i \in Handlers : W(i)' => W(i) \/ grant[g] # None
      /\ grant'[g] = None \/ grant'[g] = grant[g] \/ \E h \in Handlers : W(h)
  OBVIOUS
<1>2. /\ grant[g] # None \/ R \/ (\E h \in Handlers : W(h)) => g \in used
      /\ R /\ g \notin raced => grant[g] = None /\ \A h \in Handlers : ~W(h)
  BY DEF GrantGone
<1>. HIDE DEF W, R
<1>3. /\ grant'[g] # None \/ R' \/ (\E h \in Handlers : W(h)') => g \in used'
      /\ R' /\ g \notin raced' => grant'[g] = None /\ \A h \in Handlers : ~W(h)'
  BY <1>1, <1>2
<1>. QED BY <1>3 DEF GrantGone, W, R

LEMMA GrantsStep == OAuthTypeOK /\ GrantsGone /\ [Next]_vars => GrantsGone'
<1>1. OAuthTypeOK /\ GrantsGone /\ UNCHANGED vars => GrantsGone'
  BY DEF GrantsGone, GrantGone, Revoked, Writing, vars
<1>. SUFFICES ASSUME OAuthTypeOK, GrantsGone, Next, NEW g \in Grants PROVE GrantGone(g)'
  BY <1>1 DEF GrantsGone
<1>0. HandlersOK /\ StoreOK /\ GrantGone(g)
  BY TypeParts DEF GrantsGone
<1>2. CASE Outside
  <2>1. UNCHANGED <<store, han, used>>
    BY <1>2, OutsideChanges
  <2>. QED BY <1>0, <2>1, GrantKept DEF store, Writing, Revoked
<1>3. ASSUME NEW h \in Handlers, Request(h) PROVE GrantGone(g)'
  <2>1. \A i \in Handlers \ {h} : han'[i] = han[i]
    BY <1>3, OneRequest
  <2>2. UNCHANGED <<over, used>>
    BY <1>3, RequestChanges
  <2>3. han' = han \/ han'[h].at \in {"take", "pending", "index", "reindex", "device"}
    BY <1>3, RequestTakes
  <2>4. \A i \in Handlers : Writing(i, g)' => Writing(i, g)
    BY <2>1, <2>3 DEF Writing
  <2>5. ASSUME NEW x \in Grants, Revoke(h, x) PROVE GrantGone(g)'
    <3>1. /\ grant[x] # None /\ grant' = [grant EXCEPT ![x] = None]
          /\ raced' = IF \E i \in Handlers : han[i].at \in {"create", "touch", "puts"} /\ han[i].grant = x
                      THEN raced \cup {x} ELSE raced
      BY <2>5 DEF Revoke
    <3>2. CASE g = x
      <4>1. g \in used' /\ grant'[g] = None
        BY <1>0, <2>2, <3>1, <3>2 DEF GrantGone, StoreOK
      <4>2. g \notin raced' => \A i \in Handlers : ~Writing(i, g)
        BY <3>1, <3>2 DEF Writing
      <4>. QED BY <2>4, <4>1, <4>2 DEF GrantGone
    <3>3. CASE g # x
      <4>1. grant'[g] = grant[g] /\ raced \subseteq raced'
        BY <1>0, <3>1, <3>3 DEF StoreOK
      <4>2. han'[h].grant = x
        BY <1>0, <2>5 DEF Revoke, Begins, HandlersOK, Idle
      <4>3. Revoked(g)' => Revoked(g)
        BY <2>1, <2>2, <3>3, <4>2 DEF Revoked
      <4>. QED BY <1>0, <2>2, <2>4, <4>1, <4>3, GrantKept
    <3>. QED BY <3>2, <3>3
  <2>6. CASE UNCHANGED <<grant, raced>> /\ (han' = han \/ han'[h].op # "revoke")
    <3>1. Revoked(g)' => Revoked(g)
      BY <2>1, <2>2, <2>6 DEF Revoked
    <3>. QED BY <1>0, <2>2, <2>4, <2>6, <3>1, GrantKept
  <2>7. (\E x \in Grants : Revoke(h, x)) \/ han' = han \/ han'[h].op # "revoke"
    BY <1>3, RequestTakes
  <2>. QED BY <1>3, <2>5, <2>6, <2>7, RequestChanges
<1>4. ASSUME NEW h \in Handlers, Serve(h) \/ Die(h) PROVE GrantGone(g)'
  <2>1. \A i \in Handlers \ {h} : han'[i] = han[i]
    BY <1>4, OneRequest
  <2>2. \A i \in Handlers : Writing(i, g)' => Writing(i, g) \/ NewGrant(h, g) \/ grant[g] # None
    BY <1>4, <2>1, ServeWrites DEF Writing
  <2>3. used \subseteq used' /\ raced' = raced
    <3>1. used \subseteq used'
      BY <1>4, ServeChanges, DieChanges DEF NewGrant, PutCode, PutTokens, Fresh
    <3>. QED BY <1>4, <3>1, ServeChanges, DieChanges
  <2>4. Revoked(g)' => Revoked(g)
    <3>1. over' = over \/ (Reindex(h) /\ han[h].op = "revoke" /\ over' = over \cup {han[h].grant})
      BY <1>4, ServeChanges, DieChanges DEF Reindex
    <3>2. han'[h].op = "revoke" /\ han'[h].grant = g => han[h].op = "revoke" /\ han[h].grant = g
      BY <1>4, ServeWrites
    <3>. QED BY <2>1, <3>1, <3>2 DEF Revoked
  <2>5. grant'[g] = None \/ grant'[g] = grant[g] \/ Writing(h, g)
    <3>1. CASE PutGrant(h)
      BY <1>0, <3>1 DEF PutGrant, Writing, StoreOK
    <3>2. ASSUME NEW x \in Grants, Prune(h, x) PROVE grant'[g] = None \/ grant'[g] = grant[g]
      BY <1>0, <3>2 DEF Prune, StoreOK
    <3>. QED BY <1>4, <3>1, <3>2, ServeChanges, DieChanges
  <2>6. CASE NewGrant(h, g)
    <3>1. g \notin used /\ g \in used' /\ UNCHANGED <<grant, raced>>
      BY <2>6, FreshOne DEF NewGrant, store
    <3>2. ~Revoked(g)
      BY <1>0, <3>1 DEF GrantGone
    <3>. QED BY <2>4, <3>1, <3>2 DEF GrantGone
  <2>7. CASE ~NewGrant(h, g)
    BY <1>0, <2>2, <2>3, <2>4, <2>5, <2>7, GrantKept
  <2>. QED BY <2>6, <2>7
<1>. QED BY <1>2, <1>3, <1>4, NextIs

\* A grant whose revocation was answered stays deleted, unless a token request
\* held its record in the meantime: no later listing, authorization, exchange
\* or refresh brings it back (handleRevokeDeviceGrant, touchGrant).
THEOREM RevokedStaysGoneCorrect == Spec => []RevokedStaysGone
<1>1. Init => GrantsGone
  <2>. SUFFICES ASSUME Init, NEW g \in Grants PROVE GrantGone(g)
    BY DEF GrantsGone
  <2>1. \A h \in Handlers : han[h].grant \notin Grants
    BY IdleHasNothing DEF Init
  <2>2. grant[g] = None /\ over = {}
    BY DEF Init
  <2>. QED BY <2>1, <2>2 DEF GrantGone, Revoked, Writing
<1>2. OAuthTypeOK /\ GrantsGone => RevokedStaysGone
  <2>1. OAuthTypeOK => over \subseteq Grants
    BY DEF OAuthTypeOK, TypeOK
  <2>. QED BY <2>1 DEF GrantsGone, GrantGone, Revoked, RevokedStaysGone
<1>. QED BY <1>1, <1>2, GrantsStep, OAuthTypeCorrect, PTL DEF Spec

-----------------------------------------------------------------------------
(* The index                                                                 *)

LEMMA IndexGrows ==
  ASSUME Next PROVE index \subseteq index'
<1>1. ASSUME NEW h \in Handlers, PutIndex(h) \/ Reindex(h) PROVE index \subseteq index'
  BY <1>1 DEF PutIndex, Reindex, StoreIndex
<1>2. CASE UNCHANGED index
  BY <1>2
<1>3. ASSUME NEW h \in Handlers, Request(h) \/ Serve(h) \/ Die(h) PROVE index \subseteq index'
  BY <1>1, <1>2, <1>3, RequestChanges, ServeChanges DEF Die, store
<1>4. CASE Outside
  BY <1>2, <1>4, OutsideChanges DEF store
<1>. QED BY <1>3, <1>4, NextIs

LEMMA AccessKept ==
  ASSUME OAuthTypeOK, Next, NEW t \in access'
  PROVE  \/ t \in access /\ rec'[t] = rec[t]
         \/ \E h \in Handlers : PutTokens(h, t)
<1>0. KeysOK
  BY TypeParts
<1>1. CASE UNCHANGED <<access, rec>>
  BY <1>1
<1>2. ASSUME NEW h \in Handlers, NEW k \in Codes, NEW good \in BOOLEAN, Exchange(h, k, good)
      PROVE  t \in access /\ rec'[t] = rec[t]
  BY <1>0, <1>2, OAuthAssumption DEF Exchange, KeysOK, Keys
<1>3. ASSUME NEW h \in Handlers, NEW u \in Tokens, NEW good \in BOOLEAN, Refresh(h, u, good)
      PROVE  t \in access /\ rec'[t] = rec[t]
  BY <1>0, <1>3, OAuthAssumption DEF Refresh, KeysOK, Keys
<1>4. ASSUME NEW T, DropAccess(T) PROVE t \in access /\ rec'[t] = rec[t]
  BY <1>0, <1>4 DEF DropAccess, KeysOK, Keys
<1>5. ASSUME NEW h \in Handlers, CheckDevice(h) \/ CheckGrant(h)
      PROVE  t \in access /\ rec'[t] = rec[t]
  BY <1>1, <1>4, <1>5 DEF CheckDevice, CheckGrant
<1>6. ASSUME NEW h \in Handlers, NEW k \in Codes, PutCode(h, k) PROVE t \in access /\ rec'[t] = rec[t]
  BY <1>0, <1>6, OAuthAssumption DEF PutCode, KeysOK, Keys
<1>7. ASSUME NEW h \in Handlers, NEW u \in Tokens, PutTokens(h, u)
      PROVE  t = u \/ (t \in access /\ rec'[t] = rec[t])
  BY <1>0, <1>7 DEF PutTokens, KeysOK, Keys
<1>8. ASSUME NEW h \in Handlers, Request(h)
      PROVE  t \in access /\ rec'[t] = rec[t]
  BY <1>1, <1>2, <1>3, <1>8, RequestChanges DEF keys
<1>9. ASSUME NEW h \in Handlers, Serve(h)
      PROVE  (t \in access /\ rec'[t] = rec[t]) \/ PutTokens(h, t)
  BY <1>1, <1>5, <1>6, <1>7, <1>9, ServeChanges
<1>10. ASSUME Outside \/ \E h \in Handlers : Die(h) PROVE UNCHANGED <<access, rec>>
  BY <1>10, OutsideChanges DEF Die, keys
<1>. QED BY <1>1, <1>8, <1>9, <1>10, NextIs

Covered(h) ==
    \/ han[h].at = "tokens"
    \/ han[h].at \in {"create", "puts"} /\ "index" \notin han[h].left
    => han[h].grant \in index

LEMMA ListedStep == OAuthTypeOK /\ Listed /\ [Next]_vars => Listed'
<1>. SUFFICES ASSUME OAuthTypeOK, Listed, Next PROVE Listed'
  BY DEF Listed, vars
<1>0. /\ HandlersOK /\ KeysOK /\ index \subseteq index'
      /\ \A h \in Handlers : Covered(h)
  BY TypeParts, IndexGrows DEF Listed, Covered
<1>1. ASSUME NEW h \in Handlers, han'[h] = han[h] PROVE Covered(h)'
  BY <1>0, <1>1 DEF Covered
<1>2. ASSUME NEW h \in Handlers,
             han'[h].at \notin {"create", "puts", "tokens"}
               \/ (han'[h].at # "tokens" /\ "index" \in han'[h].left)
      PROVE  Covered(h)'
  BY <1>2 DEF Covered
<1>3. Idle.at = "idle" /\ [Idle EXCEPT !.at = "dead"].at = "dead"
  BY DEF Idle
<1>4. ASSUME NEW h \in Handlers, Request(h) PROVE Covered(h)'
  <2>1. han' = han \/ han'[h].at \in {"take", "pending", "index", "reindex", "device"}
    BY <1>4, RequestTakes
  <2>. QED BY <1>1, <1>2, <2>1
<1>5. ASSUME NEW h \in Handlers, Serve(h) PROVE Covered(h)'
  <2>0. han \in [Handlers -> HandlerState] /\ HandlerOK(han[h]) /\ Covered(h)
    BY <1>0 DEF HandlersOK, Handled
  <2>1. CASE han'[h] = Idle
    BY <1>2, <1>3, <2>1
  <2>2. CASE ReadPending(h) \/ TakeApproval(h) \/ CheckDevice(h) \/ CheckGrant(h)
    BY <1>2, <2>1, <2>2, EarlySteps
  <2>4. CASE ReadIndex(h)
    <3>1. han'[h].at \in {"reindex", "prune"}
      BY <2>0, <2>4 DEF ReadIndex
    <3>. QED BY <1>2, <3>1
  <2>5. CASE Touch(h)
    <3>1. han'[h].at = "puts" /\ "index" \in han'[h].left
      BY <2>0, <2>5 DEF Touch, HandlerState
    <3>. QED BY <1>2, <3>1
  <2>6. ASSUME NEW g \in Grants, Prune(h, g) PROVE Covered(h)'
    <3>1. PICK S : han'[h] = [han[h] EXCEPT !.seen = S] /\ han[h].at = "prune"
      BY <2>0, <2>6 DEF Prune
    <3>2. han'[h].at = "prune"
      BY <2>0, <3>1 DEF HandlerState
    <3>. QED BY <1>2, <3>2
  <2>7. ASSUME NEW g \in Grants, NewGrant(h, g) PROVE Covered(h)'
    <3>1. han'[h].at = "create" /\ "index" \in han'[h].left
      BY <2>0, <2>7 DEF NewGrant, HandlerState
    <3>. QED BY <1>2, <3>1
  <2>8. CASE PutIndex(h)
    <3>1. han'[h].grant = han[h].grant /\ han[h].grant \in index'
      BY <2>0, <2>8 DEF PutIndex, Written, StoreIndex, HandlerState
    <3>. QED BY <3>1 DEF Covered
  <2>9. CASE PutGrant(h)
    <3>1. /\ han'[h].grant = han[h].grant /\ han[h].at \in {"create", "puts"}
          /\ \/ /\ han'[h].at = han[h].at /\ han'[h].left = han[h].left \ {"grant"}
             \/ han[h].left = {"grant"}
      BY <2>0, <2>9 DEF PutGrant, Written, HandlerState
    <3>2. "index" \notin han[h].left => han[h].grant \in index
      BY <2>0, <3>1 DEF Covered
    <3>. QED BY <1>0, <3>1, <3>2 DEF Covered
  <2>10. CASE \/ PutDecision(h) \/ Reindex(h)
              \/ \E k \in Codes : PutCode(h, k)
              \/ \E t \in Tokens : PutTokens(h, t)
    BY <2>0, <2>1, <2>10 DEF PutDecision, Reindex, PutCode, PutTokens, Ends
  <2>. QED BY <1>5, <2>2, <2>4, <2>5, <2>6, <2>7, <2>8, <2>9, <2>10 DEF Serve
<1>6. ASSUME NEW h \in Handlers PROVE Covered(h)'
  <2>1. CASE han' = han
    BY <1>1, <2>1
  <2>2. ASSUME NEW i \in Handlers, Request(i) \/ Serve(i) \/ Die(i) PROVE Covered(h)'
    <3>1. CASE i = h
      BY <1>2, <1>3, <1>4, <1>5, <2>2, <3>1, DieChanges
    <3>2. CASE i # h
      BY <1>1, <2>2, <3>2, OneRequest
    <3>. QED BY <3>1, <3>2
  <2>. QED BY <2>1, <2>2, NextIs, OutsideChanges
<1>7. ASSUME NEW t \in access' PROVE rec'[t].grant \in index'
  <2>1. CASE t \in access /\ rec'[t] = rec[t]
    BY <1>0, <2>1 DEF Listed
  <2>2. ASSUME NEW h \in Handlers, PutTokens(h, t) PROVE rec'[t].grant \in index'
    <3>1. t \in Tokens /\ han[h].grant \in index
      BY <1>0, <2>2, FreshOne DEF PutTokens, Covered
    <3>2. rec'[t] = Record(h)
      BY <1>0, <2>2, <3>1 DEF PutTokens, KeysOK, Keys
    <3>. QED BY <1>0, <3>1, <3>2 DEF Record
  <2>. QED BY <1>7, <2>1, <2>2, AccessKept
<1>. QED BY <1>6, <1>7 DEF Listed, Covered

\* The user sees the grant of every token that authenticates, so that it can
\* be revoked, however authorizations, exchanges, listings and revocations
\* overlap (storeGrantIndex, handleListDeviceGrants).
THEOREM TokensAreListedCorrect == Spec => []TokensAreListed
<1>1. Init => Listed
  BY IdleHasNothing DEF Init, Listed
<1>2. Listed => TokensAreListed
  BY DEF Listed, TokensAreListed
<1>. QED BY <1>1, <1>2, ListedStep, OAuthTypeCorrect, PTL DEF Spec
=============================================================================
