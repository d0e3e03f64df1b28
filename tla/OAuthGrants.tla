---------------------------- MODULE OAuthGrants ----------------------------
(***************************************************************************)
(* The authorizations of one browser device (oauth.ts, oauth-state.ts):    *)
(* approvals on the device, authorization codes, grants and their index,   *)
(* access and refresh tokens, and what a revocation or a rotation of the   *)
(* device's credential does to them.                                       *)
(*                                                                         *)
(* Every handler is a sequence of commands to the state store, one step    *)
(* each; the handlers of several replicas interleave at every await.  A    *)
(* get followed by a delete of the same record is one step where nothing   *)
(* tells the difference.  Records may expire at any time.                  *)
(*                                                                         *)
(* Definitions whose comment begins with "Faulty" are variants that no     *)
(* specification uses (see ActionQueue).                                   *)
(***************************************************************************)
EXTENDS Naturals, FiniteSets

CONSTANTS
    Handlers,   \* HTTP requests that are served at a time
    Clients,    \* registered OAuth clients
    Approvals,  \* native authorization requests, by requestId
    Grants,     \* grantIds
    Codes,      \* authorization codes
    Tokens,     \* pairs of an access and a refresh token
    None,       \* null
    MaxVersion  \* bound of the rotations of the device's credential

ASSUME OAuthAssumption ==
    /\ MaxVersion \in Nat
    /\ None \notin Clients \cup Approvals \cup Grants \cup Codes \cup Tokens
    /\ Codes \cap Tokens = {}
    /\ None \notin [client : Clients, ver : 0..MaxVersion, grant : Grants]

Keys == Codes \cup Tokens

VARIABLES
    version,  \* deviceVersion of the device record
    revoked,  \* the device record has revokedAt
    approval, \* approval[a]: the pending approval record
    prompt,   \* requests whose approval_code record exists
    grant,    \* grant[g]: the grant record, or None
    index,    \* grant_index of the device
    rec,      \* rec[k]: what the record of code or token pair k says, or None
    codes,    \* codes whose record exists
    access,   \* token pairs whose access record exists
    refresh,  \* token pairs whose refresh record exists
    han,      \* han[h]: the request h
    used,     \* history: grantIds, codes and tokens that were allocated
    minted,   \* history: minted[k], the token pairs issued for code or token k
    issued,   \* history: issued[a], the codes issued for approval a
    over,     \* history: grants whose revocation was answered
    raced,    \* history: grants deleted while a token request held their record
    wrong     \* history: reasons why a request had to be refused and was not

vars == <<version, revoked, approval, prompt, grant, index, rec, codes, access,
          refresh, han, used, minted, issued, over, raced, wrong>>
device == <<version, revoked>>
asks   == <<approval, prompt, issued>>
store  == <<grant, index, over, raced>>
keys   == <<rec, codes, access, refresh, minted>>

-----------------------------------------------------------------------------
Ops == {"authorize", "status", "exchange", "refresh", "revoke", "list",
        "authenticate", "approve", "deny"}
Ats == {"idle", "dead", "pending", "decide", "take", "device", "index", "prune", "grant",
        "create", "touch", "puts", "code", "tokens", "reindex"}

\* ver, client: of the record in hand.  src: the code, token or approval that
\* the request is about.  seen: grantIds of the index it read.  left: what of
\* a Promise.all is still to be written.
HandlerState == [at : Ats, op : Ops \cup {None}, ver : 0..MaxVersion,
                 client : Clients \cup {None}, src : Keys \cup Approvals \cup {None},
                 grant : Grants \cup {None}, seen : SUBSET Grants,
                 left : SUBSET {"grant", "index"}, late : SUBSET {"device", "grant"}]

TypeOK ==
    /\ version \in 0..MaxVersion /\ revoked \in BOOLEAN
    /\ approval \in [Approvals ->
                        [at : {"new", "pending", "approved", "denied", "gone"},
                         client : Clients \cup {None}, ver : 0..MaxVersion]]
    /\ prompt \subseteq Approvals
    /\ grant \in [Grants -> [client : Clients, ver : 0..MaxVersion] \cup {None}]
    /\ index \subseteq Grants
    /\ rec \in [Keys -> [client : Clients, ver : 0..MaxVersion, grant : Grants] \cup {None}]
    /\ codes \subseteq Codes /\ access \subseteq Tokens /\ refresh \subseteq Tokens
    /\ \A k \in codes \cup access \cup refresh : rec[k] # None
    /\ han \in [Handlers -> HandlerState]
    /\ \A h \in Handlers : han[h].at \in {"create", "touch", "puts", "code", "tokens"} => han[h].grant # None
    /\ used \subseteq Grants \cup Keys
    /\ minted \in [Keys -> Nat] /\ issued \in [Approvals -> Nat]
    /\ over \subseteq Grants /\ raced \subseteq Grants
    /\ wrong \subseteq {"device", "grant"}

Idle == [at |-> "idle", op |-> None, ver |-> 0, client |-> None, src |-> None,
         grant |-> None, seen |-> {}, left |-> {}, late |-> {}]

Init ==
    /\ version = 0 /\ revoked = FALSE
    /\ approval = [a \in Approvals |-> [at |-> "new", client |-> None, ver |-> 0]]
    /\ prompt = {}
    /\ grant = [g \in Grants |-> None]
    /\ index = {}
    /\ rec = [k \in Keys |-> None]
    /\ codes = {} /\ access = {} /\ refresh = {}
    /\ han = [h \in Handlers |-> Idle]
    /\ used = {}
    /\ minted = [k \in Keys |-> 0] /\ issued = [a \in Approvals |-> 0]
    /\ over = {} /\ raced = {} /\ wrong = {}

\* The next step of h; or its response.
Goes(h, at) == han' = [han EXCEPT ![h].at = at]
Ends(h)     == han' = [han EXCEPT ![h] = Idle]
Begins(h, new) == han[h] = Idle /\ han' = [han EXCEPT ![h] = new]

\* randomToken: an id that was never given out; which one tells nothing.
Fresh(x, S) ==
    /\ S \ used # {} /\ x = CHOOSE y \in S \ used : TRUE
    /\ used' = used \cup {x}

\* storeGrantIndex: SADD, the ids that are left out stay.
\* Faulty: the set is replaced by the one that the handler has read.
StoreIndexAnew(S) == index' = S

StoreIndex(S) == index' = index \cup S

-----------------------------------------------------------------------------
(* The device's credential (relay-state.ts) *)

Rotate ==
    /\ ~revoked /\ version < MaxVersion
    /\ version' = version + 1
    /\ UNCHANGED <<revoked, asks, store, keys, han, used, wrong>>

RevokeDevice ==
    /\ ~revoked
    /\ revoked' = TRUE
    /\ UNCHANGED <<version, asks, store, keys, han, used, wrong>>

-----------------------------------------------------------------------------
(* Approval of a native client on the device *)

NoApproval(at) == [at |-> at, client |-> None, ver |-> 0]
Gone(a) == [approval EXCEPT ![a] = NoApproval("gone")]

\* createPendingDeviceApproval
AskApproval(a, c) ==
    /\ approval[a].at = "new"
    /\ approval' = [approval EXCEPT ![a].at = "pending", ![a].client = c]
    /\ prompt' = prompt \cup {a}
    /\ UNCHANGED <<device, issued, store, keys, han, used, wrong>>

\* Faulty: the approval code is read and not taken.
DecideAgain(h, a, op) ==
    /\ ~revoked /\ a \in prompt
    /\ Begins(h, [Idle EXCEPT !.op = op, !.src = a, !.at = "pending"])
    /\ UNCHANGED <<device, asks, store, keys, used, wrong>>

\* handleDeviceApprovalDecision: the device is authenticated, the approval
\* code taken.
Decide(h, a, op) ==
    /\ ~revoked /\ a \in prompt
    /\ prompt' = prompt \ {a}
    /\ Begins(h, [Idle EXCEPT !.op = op, !.src = a, !.at = "pending"])
    /\ UNCHANGED <<device, approval, issued, store, keys, used, wrong>>

ReadPending(h) ==
    /\ han[h].at = "pending"
    /\ IF approval[han[h].src].at # "pending" THEN Ends(h)
       ELSE han' = [han EXCEPT ![h].at = "device", ![h].client = approval[han[h].src].client]
    /\ UNCHANGED <<device, asks, store, keys, used, wrong>>

\* The record as it was read, with the decision.
PutDecision(h) ==
    /\ han[h].at = "decide"
    /\ approval' = [approval EXCEPT ![han[h].src] =
                       [at |-> IF han[h].op = "approve" THEN "approved" ELSE "denied",
                        client |-> han[h].client, ver |-> han[h].ver]]
    /\ Ends(h)
    /\ UNCHANGED <<device, prompt, issued, store, keys, used, wrong>>

\* handleDeviceApprovalStatus: nothing but a page while it is pending.
Status(h, a) ==
    /\ approval[a].at \in {"approved", "denied"}
    /\ Begins(h, [Idle EXCEPT !.op = "status", !.src = a, !.at = "take"])
    /\ UNCHANGED <<device, asks, store, keys, used, wrong>>

TakeApproval(h) ==
    LET a == approval[han[h].src] IN
    /\ han[h].at = "take"
    /\ approval' = Gone(han[h].src)
    /\ prompt' = prompt \ {han[h].src}
    /\ IF a.at # "approved" THEN Ends(h)
       ELSE han' = [han EXCEPT ![h].at = "device", ![h].ver = a.ver, ![h].client = a.client]
    /\ UNCHANGED <<device, issued, store, keys, used, wrong>>

-----------------------------------------------------------------------------
(* Requests that begin *)

\* handleAuthorizePost: the device's MCP token, then the device record.
Authorize(h, c) ==
    /\ ~revoked
    /\ Begins(h, [Idle EXCEPT !.op = "authorize", !.client = c, !.ver = version, !.at = "index"])
    /\ UNCHANGED <<device, asks, store, keys, used, wrong>>

\* handleToken: a code or a refresh token is taken, whatever the checks of
\* client, redirect URI, resource and PKCE then say.
Bearing(h, k, op, good) ==
    IF good
    THEN Begins(h, [Idle EXCEPT !.op = op, !.src = k, !.at = "device", !.ver = rec[k].ver,
                                !.client = rec[k].client, !.grant = rec[k].grant])
    ELSE han[h] = Idle /\ UNCHANGED han

Exchange(h, k, good) ==
    /\ k \in codes
    /\ codes' = codes \ {k}
    /\ rec' = [rec EXCEPT ![k] = None]
    /\ Bearing(h, k, "exchange", good)
    /\ UNCHANGED <<device, asks, store, access, refresh, minted, used, wrong>>

\* Faulty: the token is deleted only when the new ones are stored.
RefreshKept(h, t, good) ==
    /\ t \in refresh
    /\ Bearing(h, t, "refresh", good)
    /\ UNCHANGED <<device, asks, store, keys, used, wrong>>

Refresh(h, t, good) ==
    /\ t \in refresh
    /\ refresh' = refresh \ {t}
    /\ rec' = IF t \in access THEN rec ELSE [rec EXCEPT ![t] = None]
    /\ Bearing(h, t, "refresh", good)
    /\ UNCHANGED <<device, asks, store, codes, access, minted, used, wrong>>

\* authenticateAccessToken; late says what was over when the request came.
Authenticate(h, t) ==
    /\ t \in access
    /\ Begins(h, [Idle EXCEPT !.op = "authenticate", !.src = t, !.at = "device",
                  !.ver = rec[t].ver, !.client = rec[t].client, !.grant = rec[t].grant,
                  !.late = {w \in {"device", "grant"} :
                               IF w = "device" THEN revoked \/ version # rec[t].ver
                               ELSE rec[t].grant \in over}])
    /\ UNCHANGED <<device, asks, store, keys, used, wrong>>

\* handleRevokeDeviceGrant: the grant is read, belongs to the device, and is
\* deleted.
Revoke(h, g) ==
    /\ ~revoked /\ grant[g] # None
    /\ grant' = [grant EXCEPT ![g] = None]
    /\ raced' = IF \E i \in Handlers : han[i].at \in {"create", "touch", "puts"} /\ han[i].grant = g
                THEN raced \cup {g} ELSE raced
    /\ Begins(h, [Idle EXCEPT !.op = "revoke", !.grant = g, !.at = "index"])
    /\ UNCHANGED <<device, asks, index, over, keys, used, wrong>>

\* handleListDeviceGrants
List(h) ==
    /\ ~revoked
    /\ Begins(h, [Idle EXCEPT !.op = "list", !.at = "reindex", !.seen = index])
    /\ UNCHANGED <<device, asks, store, keys, used, wrong>>

-----------------------------------------------------------------------------
(* Steps that the requests share *)

\* The access records of the pairs in T are deleted.
DropAccess(T) ==
    /\ access' = access \ T
    /\ rec' = [k \in Keys |-> IF k \in T \ refresh THEN None ELSE rec[k]]

\* getDevice, and the version the record in hand was made for.
\* Faulty: a token lives as long as the device does.
CheckDeviceOnly(h) ==
    LET op == han[h].op IN
    /\ han[h].at = "device"
    /\ \/ op \in {"approve", "deny"} /\ ~revoked
          /\ han' = [han EXCEPT ![h].at = "decide", ![h].ver = version]
          /\ UNCHANGED <<access, rec>>
       \/ op \notin {"approve", "deny"} /\ ~revoked
          /\ Goes(h, IF op = "status" THEN "index" ELSE "grant")
          /\ UNCHANGED <<access, rec>>
       \/ revoked
          /\ DropAccess(IF op = "authenticate" THEN {han[h].src} ELSE {})
          /\ Ends(h)
    /\ UNCHANGED <<device, asks, store, codes, refresh, minted, used, wrong>>

CheckDevice(h) ==
    LET op    == han[h].op
        valid == ~revoked /\ (op \in {"approve", "deny"} \/ version = han[h].ver)
    IN
    /\ han[h].at = "device"
    /\ IF valid
       THEN /\ IF op \in {"approve", "deny"}
               THEN han' = [han EXCEPT ![h].at = "decide", ![h].ver = version]
               ELSE Goes(h, IF op = "status" THEN "index" ELSE "grant")
            /\ UNCHANGED <<access, rec>>
       ELSE /\ DropAccess(IF op = "authenticate" THEN {han[h].src} ELSE {})
            /\ Ends(h)
    /\ UNCHANGED <<device, asks, store, codes, refresh, minted, used, wrong>>

\* grantMatches
Matches(h) ==
    LET g == grant[han[h].grant] IN
    g # None /\ g.client = han[h].client /\ g.ver = han[h].ver

\* Faulty: an exchange restores the grant of its code.
CheckGrantLeniently(h) ==
    LET op == han[h].op IN
    /\ han[h].at = "grant"
    /\ \/ op = "authenticate" /\ Ends(h)
          /\ IF Matches(h) THEN wrong' = wrong \cup han[h].late /\ UNCHANGED <<access, rec>>
             ELSE DropAccess({han[h].src}) /\ UNCHANGED wrong
       \/ /\ op # "authenticate"
          /\ IF Matches(h) \/ op = "exchange" THEN Goes(h, "touch") ELSE Ends(h)
          /\ UNCHANGED <<access, rec, wrong>>
    /\ UNCHANGED <<device, asks, store, codes, refresh, minted, used>>

\* The grant record: a token request with none, or with one that does not
\* match, is refused; a code gets a new grant.
CheckGrant(h) ==
    LET op == han[h].op IN
    /\ han[h].at = "grant"
    /\ \/ op = "authenticate" /\ Ends(h)
          /\ IF Matches(h) THEN wrong' = wrong \cup han[h].late /\ UNCHANGED <<access, rec>>
             ELSE DropAccess({han[h].src}) /\ UNCHANGED wrong
       \/ /\ op # "authenticate"
          /\ CASE Matches(h)                         -> Goes(h, "touch")
               [] ~Matches(h) /\ op = "exchange"     -> Goes(h, "index")
               [] ~Matches(h) /\ op = "refresh"      -> Ends(h)
          /\ UNCHANGED <<access, rec, wrong>>
    /\ UNCHANGED <<device, asks, store, codes, refresh, minted, used>>

ReadIndex(h) ==
    /\ han[h].at = "index"
    /\ han' = [han EXCEPT ![h].at = IF han[h].op = "revoke" THEN "reindex" ELSE "prune",
                          ![h].seen = index]
    /\ UNCHANGED <<device, asks, store, keys, used, wrong>>

\* The live grants of other clients among those the index named.
Retained(h) == {g \in han[h].seen : grant[g] # None /\ grant[g].client # han[h].client}

\* createGrant: the other grants of the client are deleted one by one.
Prune(h, g) ==
    /\ han[h].at = "prune" /\ g \in han[h].seen \ Retained(h)
    /\ grant' = [grant EXCEPT ![g] = None]
    /\ han' = [han EXCEPT ![h].seen = @ \ {g}]
    /\ UNCHANGED <<device, asks, index, over, raced, keys, used, wrong>>

\* createGrant: a new id for the record, and the two puts.
NewGrant(h, g) ==
    /\ han[h].at = "prune"
    /\ han[h].seen = Retained(h)
    /\ Fresh(g, Grants)
    /\ han' = [han EXCEPT ![h].at = "create", ![h].grant = g, ![h].left = {"grant", "index"}]
    /\ UNCHANGED <<device, asks, store, keys, wrong>>

\* touchGrant: the record that was read is written again, beside the index.
Touch(h) ==
    /\ han[h].at = "touch"
    /\ han' = [han EXCEPT ![h].at = "puts", ![h].left = {"grant", "index"}, ![h].seen = index]
    /\ UNCHANGED <<device, asks, store, keys, used, wrong>>

\* The first put of the two; or the second, after which a token request
\* touches the grant that it has created.
Written(h, what) ==
    han' = IF han[h].left # {what} THEN [han EXCEPT ![h].left = @ \ {what}]
           ELSE [han EXCEPT ![h].left = {}, ![h].seen = {},
                    ![h].at = CASE @ = "puts" -> "tokens"
                                [] @ = "create" /\ han[h].op = "exchange" -> "touch"
                                [] OTHER -> "code"]

PutGrant(h) ==
    /\ han[h].at \in {"create", "puts"} /\ "grant" \in han[h].left
    /\ grant' = [grant EXCEPT ![han[h].grant] = [client |-> han[h].client, ver |-> han[h].ver]]
    /\ Written(h, "grant")
    /\ UNCHANGED <<device, asks, index, over, raced, keys, used, wrong>>

PutIndex(h) ==
    /\ han[h].at \in {"create", "puts"} /\ "index" \in han[h].left
    /\ StoreIndex(han[h].seen \cup {han[h].grant})
    /\ Written(h, "index")
    /\ UNCHANGED <<device, asks, grant, over, raced, keys, used, wrong>>

Record(h) == [client |-> han[h].client, ver |-> han[h].ver, grant |-> han[h].grant]

PutCode(h, k) ==
    /\ han[h].at = "code"
    /\ Fresh(k, Codes)
    /\ rec' = [rec EXCEPT ![k] = Record(h)]
    /\ codes' = codes \cup {k}
    /\ issued' = IF han[h].op = "status" THEN [issued EXCEPT ![han[h].src] = @ + 1] ELSE issued
    /\ Ends(h)
    /\ UNCHANGED <<device, approval, prompt, store, access, refresh, minted, wrong>>

\* issueTokens; nobody knows the two tokens before both are stored.
PutTokens(h, t) ==
    /\ han[h].at = "tokens"
    /\ Fresh(t, Tokens)
    /\ rec' = [rec EXCEPT ![t] = Record(h)]
    /\ access' = access \cup {t} /\ refresh' = refresh \cup {t}
    /\ minted' = [minted EXCEPT ![han[h].src] = @ + 1]
    /\ Ends(h)
    /\ UNCHANGED <<device, asks, store, codes, wrong>>

\* The end of a listing or of a revocation.
Reindex(h) ==
    /\ han[h].at = "reindex"
    /\ StoreIndex(IF han[h].op = "revoke" THEN han[h].seen \ {han[h].grant}
                  ELSE {g \in han[h].seen : grant[g] # None /\ grant[g].ver = version})
    /\ over' = IF han[h].op = "revoke" THEN over \cup {han[h].grant} ELSE over
    /\ Ends(h)
    /\ UNCHANGED <<device, asks, grant, raced, keys, used, wrong>>

\* The time to live of an approval ends.  A code or a token that expires is
\* one that nobody presents any more.
Expire(a) ==
    /\ approval[a].at \in {"pending", "approved", "denied"}
    /\ approval' = Gone(a)
    /\ prompt' = prompt \ {a}
    /\ UNCHANGED <<device, issued, store, keys, han, used, wrong>>

\* A replica dies in the middle of a request, or the store fails.  Before
\* its first write the request might as well not have come.  To bound the
\* deaths, the place of the request is not used again.
Die(h) ==
    /\ han[h].at \in {"pending", "decide", "prune", "create", "puts", "code", "tokens", "reindex"}
    /\ han' = [han EXCEPT ![h] = [Idle EXCEPT !.at = "dead"]]
    /\ UNCHANGED <<device, asks, store, keys, used, wrong>>

-----------------------------------------------------------------------------
Request(h) ==
    \/ \E a \in Approvals : Status(h, a) \/ \E op \in {"approve", "deny"} : Decide(h, a, op)
    \/ \E c \in Clients : Authorize(h, c)
    \/ \E k \in Codes, good \in BOOLEAN : Exchange(h, k, good)
    \/ \E t \in Tokens : Authenticate(h, t) \/ \E good \in BOOLEAN : Refresh(h, t, good)
    \/ \E g \in Grants : Revoke(h, g)
    \/ List(h)

Serve(h) ==
    \/ ReadPending(h) \/ PutDecision(h) \/ TakeApproval(h)
    \/ CheckDevice(h) \/ CheckGrant(h) \/ ReadIndex(h) \/ Touch(h)
    \/ \E g \in Grants : Prune(h, g) \/ NewGrant(h, g)
    \/ PutGrant(h) \/ PutIndex(h) \/ Reindex(h)
    \/ \E k \in Codes : PutCode(h, k)
    \/ \E t \in Tokens : PutTokens(h, t)

Next ==
    \/ Rotate \/ RevokeDevice
    \/ \E a \in Approvals : Expire(a) \/ \E c \in Clients : AskApproval(a, c)
    \/ \E h \in Handlers : Request(h) \/ Serve(h) \/ Die(h)

Spec == Init /\ [][Next]_vars

-----------------------------------------------------------------------------
(* Properties *)

\* A request that comes after the device was revoked, or after its credential
\* was rotated, is not authenticated by a token issued before.  The version
\* travels from the approval to the code, the grant and through every refresh.
DeviceCutsTokens == "device" \notin wrong

\* What the documentation says of a grant: once it is deleted, access tokens
\* that refer to it "are rejected on their next request".
GrantCutsTokens == "grant" \notin wrong

\* A grant that was revoked does not come back, unless a token request had
\* read it before and writes it back after (touchGrant).
RevokedStaysGone == \A g \in over \ raced : grant[g] = None

\* Every token that authenticates belongs to a grant that the index lists, so
\* that the user sees it and can revoke it, however authorizations, listings
\* and revocations overlap.
TokensAreListed ==
    \A t \in access : grant[rec[t].grant] # None => rec[t].grant \in index

\* A code and a refresh token give one pair of tokens, and an approval one
\* code, however many requests present them at a time.
UsedOnce ==
    /\ \A k \in Keys : minted[k] <= 1
    /\ \A a \in Approvals : issued[a] <= 1

\* The first decision on an approval stands.
DecisionStands ==
    [][\A a \in Approvals : approval[a].at \in {"approved", "denied"} =>
          approval'[a].at \in {approval[a].at, "gone"}]_vars
=============================================================================
