--------------------------- MODULE RelayRequests ---------------------------
(***************************************************************************)
(* An MCP request at the relay (gateway.ts: handleExternalMcp and          *)
(* handleInternalMcp), from its token to the extension: it is sent on by   *)
(* the replica that has the device's WebSocket, which another replica may  *)
(* have to be asked for, and which may move meanwhile.                     *)
(*                                                                         *)
(* Where devices are connected, and what the presence records say, is      *)
(* RelayPresence's matter; here both change at will, Moves times.          *)
(***************************************************************************)
EXTENDS DeviceCredentials

CONSTANTS
    Replicas,  \* replicas of a clustered relay
    Requests,  \* MCP requests
    Moves      \* bound of the changes of connections and presence records

ASSUME RequestAssumption == Moves \in Nat /\ None \notin Replicas

VARIABLES
    held,      \* held[d]: the replica that has the device's WebSocket, or None
    presence,  \* presence[d]: the replica that the record names, or None
    req,       \* req[q]: the request q
    ran,       \* history: ran[q], how often q was sent to an extension
    moved      \* history: changes of held and presence so far

reqVars == <<held, presence, req, ran, moved>>
vars    == <<credVars, reqVars>>
where   == <<held, presence, moved>>

-----------------------------------------------------------------------------
RequestState == [at : {"new", "limit", "lookup", "forward", "inside", "invoke", "answered"},
                 dev : Devices \cup {None}, home : Replicas \cup {None},
                 to : Replicas \cup {None}, attempt : 0..2]

RequestTypeOK ==
    /\ held \in [Devices -> Replicas \cup {None}]
    /\ presence \in [Devices -> Replicas \cup {None}]
    /\ req \in [Requests -> RequestState]
    /\ \A q \in Requests :
          /\ req[q].at # "new" => req[q].dev \in Devices
          /\ req[q].at \in {"forward", "inside"} => req[q].to # None
          /\ req[q].at = "forward" => req[q].attempt < 2
    /\ ran \in [Requests -> Nat]
    /\ moved \in 0..Moves

AccessTypeOK == CredentialTypeOK /\ RequestTypeOK

Init ==
    /\ CredInit
    /\ held = [d \in Devices |-> None] /\ presence = held
    /\ req = [q \in Requests |-> [at |-> "new", dev |-> None, home |-> None,
                                   to |-> None, attempt |-> 0]]
    /\ ran = [q \in Requests |-> 0]
    /\ moved = 0

Goes(q, at) == req' = [req EXCEPT ![q].at = at]

\* The WebSocket of d moves, or closes; the record is set, cleared or lapses.
Move(d) ==
    /\ moved < Moves /\ moved' = moved + 1
    /\ \/ \E r \in Replicas \cup {None} : held' = [held EXCEPT ![d] = r] /\ UNCHANGED presence
       \/ \E r \in Replicas \cup {None} : presence' = [presence EXCEPT ![d] = r] /\ UNCHANGED held
    /\ UNCHANGED <<credVars, req, ran>>

\* A request comes to replica r with the MCP token number tok of device d.
Authenticate(q, r, d, tok) ==
    /\ req[q].at = "new" /\ Valid(d)
    /\ req' = [req EXCEPT ![q].at = IF reg[d].token = tok THEN "limit" ELSE "answered",
                          ![q].dev = d, ![q].home = r]
    /\ UNCHANGED <<credVars, where, ran>>

\* The rate limit, then the body is read.
RateLimit(q, allowed) ==
    /\ req[q].at = "limit"
    /\ Goes(q, CASE ~allowed               -> "answered"
                 [] allowed /\ clustered   -> "lookup"
                 [] allowed /\ ~clustered  -> "invoke")
    /\ UNCHANGED <<credVars, where, ran>>

\* getPresence: twice at most; then, or when the record names this replica
\* or nobody, the device is tried here.
Lookup(q) ==
    LET p == presence[req[q].dev] IN
    /\ req[q].at = "lookup"
    /\ IF req[q].attempt = 2 \/ p \in {None, req[q].home} THEN Goes(q, "invoke")
       ELSE req' = [req EXCEPT ![q].at = "forward", ![q].to = p]
    /\ UNCHANGED <<credVars, where, ran>>

\* Faulty: the device is looked for as long as it moves.
ForwardOn(q) ==
    LET here == held[req[q].dev] = req[q].to IN
    /\ req[q].at = "forward"
    /\ Goes(q, IF here THEN "inside" ELSE "lookup")
    /\ UNCHANGED <<credVars, where, ran>>

\* handleInternalMcp of the other replica: the device is there, or has moved.
Forward(q) ==
    LET here == held[req[q].dev] = req[q].to IN
    /\ req[q].at = "forward"
    /\ req' = [req EXCEPT ![q].at = IF here THEN "inside" ELSE "lookup",
                          ![q].attempt = IF here THEN @ ELSE @ + 1]
    /\ UNCHANGED <<credVars, where, ran>>

Sent(q, r) == IF held[req[q].dev] = r THEN [ran EXCEPT ![q] = @ + 1] ELSE ran

\* invokeMcp there; its answer, an error too, is passed on.
Inside(q) ==
    /\ req[q].at = "inside"
    /\ ran' = Sent(q, req[q].to)
    /\ Goes(q, "answered")
    /\ UNCHANGED <<credVars, where>>

\* Faulty: a forward that failed is tried once more.
ForwardAgain(q) ==
    /\ req[q].at \in {"forward", "inside"} /\ Fault
    /\ ran' \in {ran, Sent(q, req[q].to)}
    /\ req' = [req EXCEPT ![q].at = "lookup", ![q].attempt = 1]
    /\ UNCHANGED <<clustered, reg, codes, file, where>>

\* The fetch fails or takes longer than 35 s, before the other replica sends
\* the call or after: an error is the answer.
ForwardFails(q) ==
    /\ req[q].at \in {"forward", "inside"} /\ Fault
    /\ ran' \in IF req[q].at = "inside" THEN {ran, Sent(q, req[q].to)} ELSE {ran}
    /\ Goes(q, "answered")
    /\ UNCHANGED <<clustered, reg, codes, file, where>>

\* invokeMcp here: an error when the device is not connected.
Invoke(q) ==
    /\ req[q].at = "invoke"
    /\ ran' = Sent(q, req[q].home)
    /\ Goes(q, "answered")
    /\ UNCHANGED <<credVars, where>>

-----------------------------------------------------------------------------
Serve(q) ==
    \/ \E allowed \in BOOLEAN : RateLimit(q, allowed)
    \/ Lookup(q) \/ Forward(q) \/ Inside(q) \/ Invoke(q)

Next ==
    \/ CredNext /\ UNCHANGED reqVars
    \/ \E d \in Devices : Move(d)
    \/ \E q \in Requests :
          \/ \E r \in Replicas, d \in Devices, tok \in 0..MaxToken : Authenticate(q, r, d, tok)
          \/ Serve(q) \/ ForwardFails(q)

\* The file system and the network answer.
Fairness ==
    /\ WF_vars((WriteTemp \/ Rename) /\ UNCHANGED reqVars)
    /\ \A q \in Requests : WF_vars(Serve(q))

Spec == Init /\ [][Next]_vars /\ Fairness

-----------------------------------------------------------------------------
(* Properties *)

\* A call is sent to an extension once at most, however its device moves and
\* forwards fail: a second run of a click would act twice.
RunsOnce == \A q \in Requests : ran[q] <= 1

\* Every request is answered, however often its device moves.
Answered == \A q \in Requests : []<>(req[q].at \in {"new", "answered"})

\* The file never goes back to an older snapshot.
FileGoesForward == [][NoOlder(disk', disk)]_vars

\* What the registry says gets into its file, unless the very last write of
\* it failed.
EventuallySaved == []<>(clustered \/ stale \/ disk = reg)
=============================================================================
