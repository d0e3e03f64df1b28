------------------------- MODULE RelayAccessProofs -------------------------
(***************************************************************************)
(* For any devices, codes, claims, requests and bounds: a pairing code gives *)
(* one device at most; the registry never falls behind its file, and the    *)
(* file never goes back; a request reaches an extension once at most.       *)
(*                                                                         *)
(* Once the types are known the three are independent.  IssuedOnce needs     *)
(* that a code is either there or in the hands of one claim (Tokens), the    *)
(* file that the queued snapshots are ordered between the file and the      *)
(* registry (Ordered), RunsOnce that an unanswered request has not run.      *)
(***************************************************************************)
EXTENDS RelayRequests, TLAPS

-----------------------------------------------------------------------------
(* Types                                                                   *)

LEMMA InitType == Init => AccessTypeOK
<1>. SUFFICES ASSUME Init PROVE AccessTypeOK
  OBVIOUS
<1>1. [d \in Devices |-> None] \in Registry
  BY DEF Registry
<1>2. CredentialTypeOK
  <2>1. clustered \in BOOLEAN /\ reg \in Registry /\ disk \in Registry
    BY <1>1 DEF Init, CredInit
  <2>2. pair \subseteq Codes /\ ticket \subseteq Codes
    BY DEF Init, CredInit
  <2>3. claim \in [Claims -> {Idle} \cup [at : {"pair", "issue"}, code : Codes]]
    BY DEF Init, CredInit
  <2>4. queue = <<>> /\ temp = FALSE /\ stale = FALSE
    BY DEF Init, CredInit
  <2>6. queue \in Seq(Registry)
    BY <2>4
  <2>5. born \in [Codes -> Nat] /\ faults \in 0..MaxFaults
    BY CredentialAssumption DEF Init, CredInit
  <2>. QED BY <2>1, <2>2, <2>3, <2>4, <2>5, <2>6 DEF CredentialTypeOK
<1>3. [at |-> "new", dev |-> None, home |-> None, to |-> None, attempt |-> 0] \in RequestState
  BY DEF RequestState
<1>4. RequestTypeOK
  BY <1>3, RequestAssumption DEF Init, RequestTypeOK
<1>. QED BY <1>2, <1>4 DEF AccessTypeOK

\* A registry whose record of d is replaced is a registry.
LEMMA ChangedRegistry ==
  ASSUME NEW r \in Registry, NEW d \in Devices, NEW v \in Record
  PROVE  [r EXCEPT ![d] = v] \in Registry
  BY DEF Registry

\* The records that IssueDevice, RotateMcpToken and Revoke write.
LEMMA RecordsWritten ==
  ASSUME CredentialTypeOK, NEW d \in Devices
  PROVE  /\ [token |-> 0, revoked |-> FALSE] \in Record
         /\ Valid(d) => reg[d] \in Record /\ [reg[d] EXCEPT !.revoked = TRUE] \in Record
         /\ Valid(d) /\ reg[d].token < MaxToken => [reg[d] EXCEPT !.token = @ + 1] \in Record
<1>1. [token |-> 0, revoked |-> FALSE] \in Record
  BY CredentialAssumption DEF Record
<1>2. Valid(d) => reg[d] \in Record
  BY DEF CredentialTypeOK, Registry, Valid
<1>3. Valid(d) => [reg[d] EXCEPT !.revoked = TRUE] \in Record
  BY <1>2 DEF Record
<1>4. Valid(d) /\ reg[d].token < MaxToken => [reg[d] EXCEPT !.token = @ + 1] \in Record
  BY <1>2, CredentialAssumption DEF Record
<1>. QED BY <1>1, <1>2, <1>3, <1>4

LEMMA ChangesType ==
  ASSUME CredentialTypeOK, NEW new \in Registry, Changes(new)
  PROVE  /\ clustered' \in BOOLEAN /\ reg' \in Registry /\ disk' \in Registry
         /\ queue' \in Seq(Registry) /\ temp' \in BOOLEAN /\ (temp' => queue' # <<>>)
         /\ stale' \in BOOLEAN /\ faults' \in 0..MaxFaults
  BY DEF CredentialTypeOK, Changes

LEMMA CredType == CredentialTypeOK /\ CredNext => CredentialTypeOK'
<1>. SUFFICES ASSUME CredentialTypeOK, CredNext PROVE CredentialTypeOK'
  OBVIOUS
<1>1. ASSUME NEW c \in Codes, NEW enroll \in BOOLEAN, CreatePairing(c, enroll)
      PROVE CredentialTypeOK'
  BY <1>1 DEF CreatePairing, CredentialTypeOK, file
<1>2. ASSUME NEW c \in Codes, NEW h \in Claims, BeginClaim(h, c) PROVE CredentialTypeOK'
  BY <1>2 DEF BeginClaim, CredentialTypeOK, file
<1>3. ASSUME NEW c \in Codes, NEW h \in Claims, NEW proof \in BOOLEAN, TakeTicket(h, c, proof)
      PROVE CredentialTypeOK'
  BY <1>3 DEF TakeTicket, CredentialTypeOK, file
<1>4. ASSUME NEW c \in Codes, ExpireCode(c) \/ ExpireTicket(c) PROVE CredentialTypeOK'
  BY <1>4 DEF ExpireCode, ExpireTicket, CredentialTypeOK, file
<1>5. ASSUME NEW h \in Claims, TakePairing(h) PROVE CredentialTypeOK'
  <2>1. claim[h] \in {Idle} \cup [at : {"pair", "issue"}, code : Codes]
    BY DEF CredentialTypeOK
  <2>2. claim[h].at = "pair" => [claim[h] EXCEPT !.at = "issue"] \in [at : {"pair", "issue"}, code : Codes]
    BY <2>1 DEF Idle
  <2>. QED BY <1>5, <2>2 DEF TakePairing, CredentialTypeOK, file
<1>6. ASSUME NEW h \in Claims, NEW d \in Devices, IssueDevice(h, d) PROVE CredentialTypeOK'
  <2>1. [reg EXCEPT ![d] = [token |-> 0, revoked |-> FALSE]] \in Registry
    BY ChangedRegistry, RecordsWritten DEF CredentialTypeOK
  <2>2. claim[h].code \in Codes
    BY <1>6 DEF IssueDevice, CredentialTypeOK, Idle
  <2>. QED BY <1>6, <2>1, <2>2, ChangesType DEF IssueDevice, CredentialTypeOK
<1>7. ASSUME NEW d \in Devices, RotateMcpToken(d) PROVE CredentialTypeOK'
  <2>1. reg \in Registry /\ [reg[d] EXCEPT !.token = @ + 1] \in Record
    BY <1>7, RecordsWritten DEF RotateMcpToken, CredentialTypeOK
  <2>2. [reg EXCEPT ![d].token = @ + 1] \in Registry
    BY <2>1 DEF Registry
  <2>. QED BY <1>7, <2>2, ChangesType DEF RotateMcpToken, CredentialTypeOK, codes
<1>8. ASSUME NEW d \in Devices, Revoke(d) PROVE CredentialTypeOK'
  <2>1. reg \in Registry /\ [reg[d] EXCEPT !.revoked = TRUE] \in Record
    BY <1>8, RecordsWritten DEF Revoke, CredentialTypeOK
  <2>2. [reg EXCEPT ![d].revoked = TRUE] \in Registry
    BY <2>1 DEF Registry
  <2>. QED BY <1>8, <2>2, ChangesType DEF Revoke, CredentialTypeOK, codes
<1>9. CASE WriteTemp
  BY <1>9 DEF WriteTemp, CredentialTypeOK, codes
<1>10. CASE Rename
  <2>1. queue # <<>> /\ Head(queue) \in Registry /\ Tail(queue) \in Seq(Registry)
    BY <1>10 DEF Rename, CredentialTypeOK
  <2>. QED BY <1>10, <2>1 DEF Rename, CredentialTypeOK, codes
<1>11. CASE WriteFails
  <2>1. Tail(queue) \in Seq(Registry)
    BY <1>11 DEF WriteFails, CredentialTypeOK
  <2>2. faults' \in 0..MaxFaults
    BY <1>11, CredentialAssumption DEF WriteFails, Fault, CredentialTypeOK
  <2>. QED BY <1>11, <2>1, <2>2 DEF WriteFails, CredentialTypeOK, codes
<1>12. CASE CredCrash
  <2>1. faults' \in 0..MaxFaults
    BY <1>12, CredentialAssumption DEF CredCrash, Fault, CredentialTypeOK
  <2>2. /\ clustered' = clustered /\ born' = born /\ claim' = [h \in Claims |-> Idle]
        /\ reg' \in {reg, disk} /\ disk' = disk
        /\ pair' \in {pair, {}} /\ ticket' \in {ticket, {}}
        /\ \/ queue' = queue /\ temp' = temp /\ stale' = stale
           \/ queue' = <<>> /\ temp' = FALSE /\ stale' = FALSE
    BY <1>12 DEF CredCrash, Load, file
  <2>3. claim' \in [Claims -> {Idle} \cup [at : {"pair", "issue"}, code : Codes]]
    BY <2>2
  <2>4. queue' \in Seq(Registry)
    <3>1. <<>> \in Seq(Registry)
      OBVIOUS
    <3>. QED BY <2>2, <3>1 DEF CredentialTypeOK
  <2>5. temp' \in BOOLEAN /\ (temp' => queue' # <<>>) /\ stale' \in BOOLEAN
    <3>1. CASE queue' = queue /\ temp' = temp /\ stale' = stale
      BY <3>1, Zenon DEF CredentialTypeOK
    <3>2. CASE queue' = <<>> /\ temp' = FALSE /\ stale' = FALSE
      BY <3>2, Zenon
    <3>. QED BY <2>2, <3>1, <3>2, Zenon
  <2>. QED BY <2>1, <2>2, <2>3, <2>4, <2>5 DEF CredentialTypeOK
<1>. QED
  BY <1>1, <1>2, <1>3, <1>4, <1>5, <1>6, <1>7, <1>8, <1>9, <1>10, <1>11, <1>12 DEF CredNext

\* A step of request q: what it makes of q is a state of a request, and it
\* leaves the others alone.
LEMMA RequestStep ==
  ASSUME RequestTypeOK, NEW q \in Requests,
         \/ \E r \in Replicas, d \in Devices, tok \in 0..MaxToken : Authenticate(q, r, d, tok)
         \/ Serve(q) \/ ForwardFails(q)
  PROVE  /\ req' = [req EXCEPT ![q] = req'[q]] /\ req'[q] \in RequestState
         /\ req'[q].at # "new" /\ req'[q].dev \in Devices
         /\ req'[q].at \in {"forward", "inside"} => req'[q].to # None
         /\ req'[q].at = "forward" => req'[q].attempt < 2
         /\ UNCHANGED where
         /\ \/ ran' = ran
            \/ /\ req[q].at # "answered" /\ req'[q].at = "answered"
               /\ ran' = [ran EXCEPT ![q] = @ + 1]
<1>1. /\ req[q] \in RequestState /\ (req[q].at \in {"forward", "inside"} => req[q].to # None)
      /\ req[q].at # "new" => req[q].dev \in Devices
      /\ req[q].at = "forward" => req[q].attempt < 2
      /\ req \in [Requests -> RequestState]
  BY DEF RequestTypeOK
<1>2. ASSUME NEW at \in {"answered", "lookup", "invoke", "inside"}, Goes(q, at),
             req[q].at # "new", at = "inside" => req[q].at = "forward"
      PROVE  /\ req' = [req EXCEPT ![q] = req'[q]] /\ req'[q] \in RequestState
             /\ req'[q].at \in {"forward", "inside"} => req'[q].to # None
             /\ req'[q].at = at /\ req'[q].dev \in Devices
  BY <1>1, <1>2 DEF Goes, RequestState
<1>3. ASSUME NEW r \in Replicas, NEW d \in Devices, NEW tok \in 0..MaxToken,
             Authenticate(q, r, d, tok)
      PROVE  /\ req' = [req EXCEPT ![q] = req'[q]] /\ req'[q] \in RequestState
             /\ req'[q].at \notin {"new", "forward", "inside"} /\ req'[q].dev \in Devices
             /\ UNCHANGED where /\ ran' = ran
  BY <1>1, <1>3 DEF Authenticate, RequestState
<1>4. ASSUME NEW allowed \in BOOLEAN, RateLimit(q, allowed)
      PROVE  /\ UNCHANGED where /\ ran' = ran /\ req[q].at # "new"
             /\ \E at \in {"answered", "lookup", "invoke"} : Goes(q, at)
  BY <1>4 DEF RateLimit, CredentialTypeOK
<1>5. CASE Lookup(q)
  <2>1. CASE Goes(q, "invoke")
    BY <1>2, <1>5, <2>1 DEF Lookup
  <2>2. CASE /\ req' = [req EXCEPT ![q].at = "forward", ![q].to = presence[req[q].dev]]
             /\ presence[req[q].dev] # None
             /\ req[q].attempt # 2
    <3>1. presence[req[q].dev] \in Replicas
      BY <1>1, <1>5, <2>2 DEF Lookup, RequestTypeOK
    <3>2. req[q].attempt < 2
      BY <1>1, <2>2 DEF RequestState
    <3>3. /\ req' = [req EXCEPT ![q] = req'[q]]
          /\ req'[q] = [req[q] EXCEPT !.at = "forward", !.to = presence[req[q].dev]]
      BY <1>1, <2>2
    <3>4. UNCHANGED where /\ ran' = ran /\ req[q].dev \in Devices
      BY <1>1, <1>5 DEF Lookup
    <3>5. presence[req[q].dev] # None
      BY <2>2
    <3>6. /\ req'[q] \in RequestState /\ req'[q].at = "forward"
          /\ req'[q].to # None /\ req'[q].attempt < 2 /\ req'[q].dev \in Devices
      <4>. DEFINE p == presence[req[q].dev]
      <4>1. /\ req'[q] = [req[q] EXCEPT !.at = "forward", !.to = p]
            /\ p \in Replicas /\ p # None
        BY <3>1, <3>3, <3>5
      <4>. HIDE DEF p
      <4>. QED BY <1>1, <3>2, <3>4, <4>1 DEF RequestState
    <3>. QED BY <3>3, <3>4, <3>6
  <2>. QED BY <1>5, <2>1, <2>2 DEF Lookup
<1>6. CASE Forward(q)
  <2>1. UNCHANGED where /\ ran' = ran /\ req[q].at = "forward"
    BY <1>6 DEF Forward
  <2>2. CASE req' = [req EXCEPT ![q].at = "inside", ![q].attempt = req[q].attempt]
    BY <1>1, <2>1, <2>2 DEF RequestState
  <2>3. CASE req' = [req EXCEPT ![q].at = "lookup", ![q].attempt = req[q].attempt + 1]
    <3>1. req[q].attempt + 1 \in 0..2
      BY <1>1, <2>1 DEF RequestState
    <3>. QED BY <1>1, <2>1, <2>3, <3>1 DEF RequestState
  <2>4. \/ req' = [req EXCEPT ![q].at = "inside", ![q].attempt = req[q].attempt]
        \/ req' = [req EXCEPT ![q].at = "lookup", ![q].attempt = req[q].attempt + 1]
    BY <1>1, <1>6 DEF Forward
  <2>. QED BY <2>2, <2>3, <2>4
<1>7. CASE Inside(q) \/ Invoke(q) \/ ForwardFails(q)
  <2>1. Goes(q, "answered") /\ UNCHANGED where /\ req[q].at \notin {"new", "answered"}
    BY <1>7 DEF Inside, Invoke, ForwardFails
  <2>2. ran' \in {ran, [ran EXCEPT ![q] = @ + 1]}
    BY <1>7 DEF Inside, Invoke, ForwardFails, Sent
  <2>. QED BY <1>2, <2>1, <2>2
<1>. QED
  BY <1>2, <1>3, <1>4, <1>5, <1>6, <1>7 DEF Serve

\* The steps of requests, and those of the world around, leave the rest of
\* the credentials alone.
LEMMA RequestsKeep ==
  ASSUME CredentialTypeOK, NEW q \in Requests,
         \/ \E r \in Replicas, d \in Devices, tok \in 0..MaxToken : Authenticate(q, r, d, tok)
         \/ Serve(q) \/ ForwardFails(q)
  PROVE  UNCHANGED <<clustered, reg, codes, file>> /\ faults' \in 0..MaxFaults
<1>1. CASE ForwardFails(q)
  <2>1. UNCHANGED <<clustered, reg, codes, file>> /\ faults < MaxFaults /\ faults' = faults + 1
    BY <1>1 DEF ForwardFails, Fault
  <2>. QED BY <2>1, CredentialAssumption DEF CredentialTypeOK
<1>2. CASE \/ \E r \in Replicas, d \in Devices, tok \in 0..MaxToken : Authenticate(q, r, d, tok)
           \/ Serve(q)
  <2>1. UNCHANGED credVars
    BY <1>2 DEF Authenticate, Serve, RateLimit, Lookup, Forward, Inside, Invoke
  <2>. QED BY <2>1 DEF credVars, codes, file, CredentialTypeOK
<1>. QED BY <1>1, <1>2

LEMMA KeptCredentials ==
  ASSUME CredentialTypeOK, UNCHANGED <<clustered, reg, codes, file>>, faults' \in 0..MaxFaults
  PROVE  CredentialTypeOK'
  BY DEF CredentialTypeOK, codes, file

LEMMA MoveType == ASSUME RequestTypeOK, NEW d \in Devices, Move(d) PROVE RequestTypeOK'
<1>1. moved' \in 0..Moves /\ req' = req /\ ran' = ran
  BY RequestAssumption DEF Move, RequestTypeOK
<1>2. held' \in [Devices -> Replicas \cup {None}]
  BY DEF Move, RequestTypeOK
<1>3. presence' \in [Devices -> Replicas \cup {None}]
  BY DEF Move, RequestTypeOK
<1>. QED BY <1>1, <1>2, <1>3 DEF RequestTypeOK

\* One step keeps the types.
LEMMA AccessTypeStep == AccessTypeOK /\ [Next]_vars => AccessTypeOK'
<1>. SUFFICES ASSUME AccessTypeOK, [Next]_vars PROVE AccessTypeOK'
  OBVIOUS
<1>1. CASE CredNext /\ UNCHANGED reqVars
  <2>1. CredentialTypeOK'
    BY <1>1, CredType DEF AccessTypeOK
  <2>2. RequestTypeOK'
    BY <1>1 DEF AccessTypeOK, RequestTypeOK, reqVars
  <2>. QED BY <2>1, <2>2 DEF AccessTypeOK
<1>2. ASSUME NEW d \in Devices, Move(d) PROVE AccessTypeOK'
  <2>1. RequestTypeOK'
    BY <1>2, MoveType DEF AccessTypeOK
  <2>2. CredentialTypeOK'
    BY <1>2, KeptCredentials DEF Move, credVars, codes, file, AccessTypeOK, CredentialTypeOK
  <2>. QED BY <2>1, <2>2 DEF AccessTypeOK
<1>3. ASSUME NEW q \in Requests,
             \/ \E r \in Replicas, d \in Devices, tok \in 0..MaxToken : Authenticate(q, r, d, tok)
             \/ Serve(q) \/ ForwardFails(q)
      PROVE  AccessTypeOK'
  <2>1. CredentialTypeOK'
    BY <1>3, RequestsKeep, KeptCredentials DEF AccessTypeOK
  <2>2. /\ req' = [req EXCEPT ![q] = req'[q]] /\ req'[q] \in RequestState
        /\ req'[q].at # "new" /\ req'[q].dev \in Devices
        /\ req'[q].at \in {"forward", "inside"} => req'[q].to # None
        /\ req'[q].at = "forward" => req'[q].attempt < 2
        /\ UNCHANGED where
        /\ ran' = ran \/ ran' = [ran EXCEPT ![q] = @ + 1]
    BY <1>3, RequestStep DEF AccessTypeOK
  <2>3. held' = held /\ presence' = presence /\ moved' = moved
    BY <2>2 DEF where
  <2>4. ran' \in [Requests -> Nat]
    BY <2>2 DEF AccessTypeOK, RequestTypeOK
  <2>5. RequestTypeOK'
    BY <2>2, <2>3, <2>4 DEF AccessTypeOK, RequestTypeOK
  <2>. QED BY <2>1, <2>5 DEF AccessTypeOK
<1>4. CASE UNCHANGED vars
  BY <1>4 DEF vars, credVars, reqVars, AccessTypeOK, CredentialTypeOK, RequestTypeOK
<1>. QED BY <1>1, <1>2, <1>3, <1>4 DEF Next

\* Every variable keeps its type.
THEOREM AccessTypeCorrect == Spec => []AccessTypeOK
  BY InitType, AccessTypeStep, PTL DEF Spec

-----------------------------------------------------------------------------
(* Requests run once                                                       *)

\* A request that is not answered has not been sent to an extension.
NotYetRun ==
  \A q \in Requests : ran[q] <= 1 /\ (req[q].at # "answered" => ran[q] = 0)

LEMMA NotYetRunStep == AccessTypeOK /\ NotYetRun /\ [Next]_vars => NotYetRun'
<1>. SUFFICES ASSUME AccessTypeOK, NotYetRun, [Next]_vars PROVE NotYetRun'
  OBVIOUS
<1>1. CASE req' = req /\ ran' = ran
  BY <1>1 DEF NotYetRun
<1>2. ASSUME NEW q \in Requests,
             \/ \E r \in Replicas, d \in Devices, tok \in 0..MaxToken : Authenticate(q, r, d, tok)
             \/ Serve(q) \/ ForwardFails(q)
      PROVE  NotYetRun'
  <2>1. /\ req' = [req EXCEPT ![q] = req'[q]]
        /\ \/ ran' = ran
           \/ /\ req[q].at # "answered" /\ req'[q].at = "answered"
              /\ ran' = [ran EXCEPT ![q] = @ + 1]
    BY <1>2, RequestStep DEF AccessTypeOK
  <2>2. req[q].at # "answered"
    BY <1>2 DEF Authenticate, Serve, RateLimit, Lookup, Forward, Inside, Invoke, ForwardFails
  <2>3. req \in [Requests -> RequestState] /\ ran \in [Requests -> Nat]
    BY DEF AccessTypeOK, RequestTypeOK
  <2>. QED BY <2>1, <2>2, <2>3 DEF NotYetRun
<1>3. CASE (CredNext /\ UNCHANGED reqVars) \/ (\E d \in Devices : Move(d)) \/ UNCHANGED vars
  <2>. req' = req /\ ran' = ran
    BY <1>3 DEF Move, reqVars, vars
  <2>. QED BY <1>1
<1>. QED BY <1>2, <1>3 DEF Next

\* A call is sent to an extension once at most, however its device moves and
\* forwards fail.
THEOREM RunsOnceCorrect == Spec => []RunsOnce
<1>1. Init => NotYetRun
  BY DEF Init, NotYetRun
<1>2. NotYetRun => RunsOnce
  BY DEF NotYetRun, RunsOnce
<1>. QED BY <1>1, <1>2, InitType, AccessTypeStep, NotYetRunStep, PTL DEF Spec

-----------------------------------------------------------------------------
(* A pairing code gives one device                                         *)

\* Claim h has taken code c and will issue a device for it.
Holds(h, c) == claim[h].at = "issue" /\ claim[h].code = c

\* A code is to be taken, or held by one claim, or was used, once; never two
\* of these.
Tokens ==
  \A c \in Codes :
    /\ born[c] <= 1
    /\ c \in pair => born[c] = 0 /\ \A h \in Claims : ~Holds(h, c)
    /\ \A h \in Claims : Holds(h, c) => born[c] = 0
    /\ \A h, g \in Claims : Holds(h, c) /\ Holds(g, c) => h = g

\* Nothing is added to a code that no step takes, gives or uses.
LEMMA TokensKept ==
  ASSUME Tokens, pair' \subseteq pair, born' = born,
         \A h \in Claims, c \in Codes : Holds(h, c)' => Holds(h, c)
  PROVE  Tokens'
  BY DEF Tokens

LEMMA TokensStep == CredentialTypeOK /\ Tokens /\ CredNext => Tokens'
<1>. SUFFICES ASSUME CredentialTypeOK, Tokens, CredNext PROVE Tokens'
  OBVIOUS
<1>0. /\ claim \in [Claims -> {Idle} \cup [at : {"pair", "issue"}, code : Codes]]
      /\ born \in [Codes -> Nat]
  BY DEF CredentialTypeOK
<1>1. ASSUME NEW c \in Codes, NEW enroll \in BOOLEAN, CreatePairing(c, enroll) PROVE Tokens'
  <2>1. /\ pair' = pair \cup {c} /\ claim' = claim /\ born' = born /\ born[c] = 0
        /\ \A h \in Claims : claim[h].code # c
    BY <1>1 DEF CreatePairing
  <2>. QED BY <2>1 DEF Tokens, Holds
<1>2. ASSUME NEW c \in Codes, NEW h \in Claims, NEW proof \in BOOLEAN,
             BeginClaim(h, c) \/ TakeTicket(h, c, proof)
      PROVE  Tokens'
  <2>1. /\ pair' = pair /\ born' = born
        /\ claim' \in {claim, [claim EXCEPT ![h] = [at |-> "pair", code |-> c]]}
    BY <1>2 DEF BeginClaim, TakeTicket
  <2>2. \A g \in Claims, d \in Codes : Holds(g, d)' => Holds(g, d)
    BY <1>0, <2>1 DEF Holds
  <2>. QED BY <2>1, <2>2, TokensKept
<1>3. ASSUME NEW c \in Codes, ExpireCode(c) \/ ExpireTicket(c) PROVE Tokens'
  <2>1. pair' \subseteq pair /\ born' = born /\ claim' = claim
    BY <1>3 DEF ExpireCode, ExpireTicket
  <2>. QED BY <2>1, TokensKept DEF Holds
<1>4. ASSUME NEW h \in Claims, TakePairing(h) PROVE Tokens'
  <2>. DEFINE c == claim[h].code
  <2>1. c \in Codes /\ born' = born /\ pair' = pair \ {c} /\ claim[h].at = "pair"
    BY <1>0, <1>4 DEF TakePairing, Idle
  <2>2. CASE c \in pair
    <3>1. claim' = [claim EXCEPT ![h] = [claim[h] EXCEPT !.at = "issue"]]
      BY <1>4, <2>2 DEF TakePairing
    <3>2. /\ claim'[h].at = "issue" /\ claim'[h].code = c
          /\ \A g \in Claims : g # h => claim'[g] = claim[g]
      BY <1>0, <2>1, <3>1 DEF Idle
    <3>. QED BY <2>1, <2>2, <3>2 DEF Tokens, Holds
  <2>3. CASE c \notin pair
    <3>1. claim' = [claim EXCEPT ![h] = Idle]
      BY <1>4, <2>3 DEF TakePairing
    <3>2. \A g \in Claims, d \in Codes : Holds(g, d)' => Holds(g, d)
      BY <1>0, <3>1 DEF Holds, Idle
    <3>. QED BY <2>1, <3>2, TokensKept
  <2>. QED BY <2>2, <2>3
<1>5. ASSUME NEW h \in Claims, NEW d \in Devices, IssueDevice(h, d) PROVE Tokens'
  <2>1. PICK c \in Codes : c = claim[h].code /\ pair' = pair /\ Holds(h, c)
    BY <1>0, <1>5 DEF IssueDevice, Idle, Holds
  <2>2. /\ born' = [born EXCEPT ![c] = @ + 1]
        /\ claim' = [claim EXCEPT ![h] = Idle]
    BY <1>5, <2>1 DEF IssueDevice
  <2>3. ~Holds(h, c)' /\ \A g \in Claims, k \in Codes : Holds(g, k)' => Holds(g, k)
    BY <1>0, <2>2 DEF Holds, Idle
  <2>4. \A g \in Claims : ~Holds(g, c)'
    BY <2>1, <2>3 DEF Tokens
  <2>5. born[c] = 0 /\ c \notin pair
    BY <2>1 DEF Tokens
  <2>6. born'[c] = 1 /\ \A k \in Codes : k # c => born'[k] = born[k]
    BY <1>0, <2>1, <2>2, <2>5
  <2>. QED BY <2>1, <2>3, <2>4, <2>5, <2>6 DEF Tokens
<1>6. CASE \/ \E d \in Devices : RotateMcpToken(d) \/ Revoke(d)
           \/ WriteTemp \/ Rename \/ WriteFails
  <2>1. UNCHANGED codes
    BY <1>6 DEF RotateMcpToken, Revoke, WriteTemp, Rename, WriteFails
  <2>. QED BY <2>1, TokensKept DEF codes, Holds
<1>7. CASE CredCrash
  <2>1. pair' \subseteq pair /\ born' = born /\ claim' = [h \in Claims |-> Idle]
    BY <1>7 DEF CredCrash
  <2>2. \A h \in Claims, c \in Codes : ~Holds(h, c)'
    BY <2>1 DEF Holds, Idle
  <2>. QED BY <2>1, <2>2, TokensKept
<1>. QED BY <1>1, <1>2, <1>3, <1>4, <1>5, <1>6, <1>7 DEF CredNext

\* What a step that is none of the credentials' own leaves alone.
LEMMA OtherSteps ==
  ASSUME AccessTypeOK, [Next]_vars, ~CredNext
  PROVE  UNCHANGED <<clustered, reg, codes, file>>
<1>1. CASE \E d \in Devices : Move(d)
  BY <1>1 DEF Move, credVars, codes, file
<1>2. CASE \E q \in Requests :
             \/ \E r \in Replicas, d \in Devices, tok \in 0..MaxToken : Authenticate(q, r, d, tok)
             \/ Serve(q) \/ ForwardFails(q)
  BY <1>2, RequestsKeep, Zenon DEF AccessTypeOK
<1>3. CASE UNCHANGED vars
  BY <1>3 DEF vars, credVars, codes, file
<1>. QED BY <1>1, <1>2, <1>3, Zenon DEF Next

\* A pairing code and the ticket made for it give one device at most.
THEOREM IssuedOnceCorrect == Spec => []IssuedOnce
<1>1. Init => Tokens
  BY DEF Init, CredInit, Tokens, Holds, Idle
<1>2. AccessTypeOK /\ Tokens /\ [Next]_vars => Tokens'
  <2>1. ASSUME AccessTypeOK, Tokens, [Next]_vars, ~CredNext PROVE Tokens'
    BY <2>1, OtherSteps, TokensKept DEF codes, Holds
  <2>. QED BY <2>1, TokensStep DEF AccessTypeOK
<1>3. Tokens => IssuedOnce
  BY DEF Tokens, IssuedOnce
<1>. QED BY <1>1, <1>2, <1>3, InitType, AccessTypeStep, PTL DEF Spec

-----------------------------------------------------------------------------
(* The file follows the registry                                           *)

LEMMA NoOlderReflexive == \A a \in Registry : NoOlder(a, a)
  BY CredentialAssumption DEF NoOlder, Registry, Record

LEMMA NoOlderTransitive ==
  ASSUME NEW a \in Registry, NEW b \in Registry, NEW c \in Registry,
         NoOlder(a, b), NoOlder(b, c)
  PROVE  NoOlder(a, c)
<1>. SUFFICES ASSUME NEW d \in Devices, c[d] # None
              PROVE  a[d] # None /\ a[d].token >= c[d].token /\ (c[d].revoked => a[d].revoked)
  BY DEF NoOlder
<1>1. b[d] # None /\ b[d].token >= c[d].token /\ (c[d].revoked => b[d].revoked)
  BY DEF NoOlder
<1>2. a[d] # None /\ a[d].token >= b[d].token /\ (b[d].revoked => a[d].revoked)
  BY <1>1 DEF NoOlder
<1>3. a[d].token \in Nat /\ b[d].token \in Nat /\ c[d].token \in Nat
  BY <1>1, <1>2, CredentialAssumption DEF Registry, Record
<1>. QED BY <1>1, <1>2, <1>3

\* The snapshots that are to be written lie between the file and the
\* registry, each no older than those before it.
Ordered ==
  /\ NoOlder(reg, disk)
  /\ \A i \in 1..Len(queue) : NoOlder(reg, queue[i]) /\ NoOlder(queue[i], disk)
  /\ \A i, j \in 1..Len(queue) : i < j => NoOlder(queue[j], queue[i])

LEMMA OrderedChange ==
  ASSUME CredentialTypeOK, Ordered, NEW new \in Registry, Changes(new), NoOlder(new, reg)
  PROVE  Ordered'
<1>1. /\ reg \in Registry /\ disk \in Registry /\ queue \in Seq(Registry)
      /\ \A i \in 1..Len(queue) : queue[i] \in Registry
  BY DEF CredentialTypeOK
<1>2. NoOlder(new, disk) /\ \A i \in 1..Len(queue) : NoOlder(new, queue[i])
  BY <1>1, NoOlderTransitive DEF Ordered
<1>3. reg' = new /\ disk' = disk
  BY DEF Changes
<1>4. CASE queue' = queue
  BY <1>2, <1>3, <1>4 DEF Ordered
<1>5. CASE queue' = Append(queue, new)
  <2>1. /\ Len(queue') = Len(queue) + 1 /\ Len(queue) \in Nat
        /\ \A i \in 1..Len(queue) : queue'[i] = queue[i]
        /\ queue'[Len(queue) + 1] = new
    BY <1>1, <1>5
  <2>2. NoOlder(new, new)
    BY NoOlderReflexive
  <2>3. ASSUME NEW i \in 1..Len(queue')
        PROVE  NoOlder(reg', queue'[i]) /\ NoOlder(queue'[i], disk')
    <3>1. i \in 1..Len(queue) \/ i = Len(queue) + 1
      BY <2>1
    <3>. QED BY <1>2, <1>3, <2>1, <2>2, <3>1 DEF Ordered
  <2>4. ASSUME NEW i \in 1..Len(queue'), NEW j \in 1..Len(queue'), i < j
        PROVE  NoOlder(queue'[j], queue'[i])
    <3>1. i \in 1..Len(queue) /\ (j \in 1..Len(queue) \/ j = Len(queue) + 1)
      BY <2>1, <2>4
    <3>. QED BY <1>2, <2>1, <2>4, <3>1 DEF Ordered
  <2>. QED BY <1>2, <1>3, <2>3, <2>4 DEF Ordered
<1>. QED BY <1>4, <1>5 DEF Changes

\* The oldest snapshot goes, to the file or because it cannot be written.
LEMMA OrderedTail ==
  ASSUME CredentialTypeOK, Ordered, queue # <<>>, queue' = Tail(queue), reg' = reg,
         disk' = disk \/ disk' = Head(queue)
  PROVE  Ordered' /\ NoOlder(disk', disk)
<1>1. disk \in Registry /\ queue \in Seq(Registry)
  BY DEF CredentialTypeOK
<1>2. /\ Len(queue) \in Nat /\ Len(queue) >= 1 /\ Head(queue) = queue[1]
      /\ Len(queue') = Len(queue) - 1
      /\ \A i \in 1..Len(queue') : i + 1 \in 1..Len(queue) /\ queue'[i] = queue[i + 1]
  BY <1>1
<1>3. NoOlder(disk, disk)
  BY <1>1, NoOlderReflexive
<1>4. NoOlder(reg', disk') /\ NoOlder(disk', disk)
  BY <1>2, <1>3 DEF Ordered
<1>5. ASSUME NEW i \in 1..Len(queue')
      PROVE  NoOlder(reg', queue'[i]) /\ NoOlder(queue'[i], disk')
  <2>1. /\ i + 1 \in 1..Len(queue) /\ 1 \in 1..Len(queue) /\ 1 < i + 1
        /\ queue'[i] = queue[i + 1]
    BY <1>2
  <2>. QED BY <1>2, <2>1 DEF Ordered
<1>6. ASSUME NEW i \in 1..Len(queue'), NEW j \in 1..Len(queue'), i < j
      PROVE  NoOlder(queue'[j], queue'[i])
  <2>1. /\ i + 1 \in 1..Len(queue) /\ j + 1 \in 1..Len(queue) /\ i + 1 < j + 1
        /\ queue'[i] = queue[i + 1] /\ queue'[j] = queue[j + 1]
    BY <1>2, <1>6
  <2>. QED BY <2>1 DEF Ordered
<1>. QED BY <1>4, <1>5, <1>6 DEF Ordered

\* One step of the credentials keeps the order, and the file goes forward.
LEMMA OrderedStep ==
  CredentialTypeOK /\ Ordered /\ CredNext => Ordered' /\ NoOlder(disk', disk)
<1>. SUFFICES ASSUME CredentialTypeOK, Ordered, CredNext
              PROVE  Ordered' /\ NoOlder(disk', disk)
  OBVIOUS
<1>1. reg \in Registry /\ disk \in Registry /\ NoOlder(disk, disk) /\ NoOlder(reg, reg)
  BY NoOlderReflexive DEF CredentialTypeOK
<1>2. ASSUME NEW h \in Claims, NEW d \in Devices, IssueDevice(h, d)
      PROVE  Ordered' /\ NoOlder(disk', disk)
  <2>. DEFINE new == [reg EXCEPT ![d] = [token |-> 0, revoked |-> FALSE]]
  <2>1. new \in Registry /\ Changes(new) /\ reg[d] = None
    BY <1>1, <1>2, ChangedRegistry, RecordsWritten DEF IssueDevice
  <2>2. NoOlder(new, reg)
    BY <1>1, <2>1 DEF NoOlder, Registry
  <2>. QED BY <1>1, <2>1, <2>2, OrderedChange DEF Changes
<1>3. ASSUME NEW d \in Devices, RotateMcpToken(d) PROVE Ordered' /\ NoOlder(disk', disk)
  <2>. DEFINE new == [reg EXCEPT ![d].token = @ + 1]
  <2>1. reg[d] \in Record /\ [reg[d] EXCEPT !.token = @ + 1] \in Record /\ Changes(new)
    BY <1>3, RecordsWritten DEF RotateMcpToken
  <2>2. new \in Registry /\ new = [reg EXCEPT ![d] = [reg[d] EXCEPT !.token = @ + 1]]
    BY <1>1, <2>1 DEF Registry
  <2>3. new[d] = [reg[d] EXCEPT !.token = @ + 1] /\ \A e \in Devices : e # d => new[e] = reg[e]
    BY <1>1, <2>2 DEF Registry
  <2>4. new[d] # None /\ new[d].token >= reg[d].token /\ new[d].revoked = reg[d].revoked
    BY <2>1, <2>3, CredentialAssumption DEF Record
  <2>5. NoOlder(new, reg)
    BY <1>1, <2>3, <2>4 DEF NoOlder
  <2>. QED BY <1>1, <2>1, <2>2, <2>5, OrderedChange DEF Changes
<1>4. ASSUME NEW d \in Devices, Revoke(d) PROVE Ordered' /\ NoOlder(disk', disk)
  <2>. DEFINE new == [reg EXCEPT ![d].revoked = TRUE]
  <2>1. reg[d] \in Record /\ [reg[d] EXCEPT !.revoked = TRUE] \in Record /\ Changes(new)
    BY <1>4, RecordsWritten DEF Revoke
  <2>2. new \in Registry /\ new = [reg EXCEPT ![d] = [reg[d] EXCEPT !.revoked = TRUE]]
    BY <1>1, <2>1 DEF Registry
  <2>3. new[d] = [reg[d] EXCEPT !.revoked = TRUE] /\ \A e \in Devices : e # d => new[e] = reg[e]
    BY <1>1, <2>2 DEF Registry
  <2>4. new[d] # None /\ new[d].token >= reg[d].token /\ new[d].revoked
    <3>1. new[d] \in Record /\ new[d].token = reg[d].token /\ new[d].revoked = TRUE
      BY <2>1, <2>3 DEF Record
    <3>2. new[d] # None
      BY <2>1, <2>3, CredentialAssumption, Zenon DEF Record
    <3>3. reg[d].token \in Nat
      BY <2>1, CredentialAssumption DEF Record
    <3>4. new[d].token >= reg[d].token
      BY <3>1, <3>3
    <3>. QED BY <3>1, <3>2, <3>4, Zenon
  <2>5. NoOlder(new, reg)
    BY <1>1, <2>3, <2>4 DEF NoOlder
  <2>. QED BY <1>1, <2>1, <2>2, <2>5, OrderedChange DEF Changes
<1>5. CASE Rename \/ WriteFails
  <2>1. queue # <<>> /\ queue' = Tail(queue) /\ reg' = reg /\ (disk' = disk \/ disk' = Head(queue))
    BY <1>5 DEF Rename, WriteFails, CredentialTypeOK
  <2>. QED BY <2>1, OrderedTail
<1>6. CASE UNCHANGED <<reg, disk, queue>>
  BY <1>1, <1>6 DEF Ordered
<1>7. CASE CredCrash
  <2>1. CASE clustered
    BY <1>6, <1>7, <2>1 DEF CredCrash, file
  <2>2. CASE ~clustered
    <3>1. reg' = disk /\ disk' = disk /\ queue' = <<>>
      BY <1>7, <2>2 DEF CredCrash, Load
    <3>. QED BY <1>1, <3>1 DEF Ordered
  <2>. QED BY <2>1, <2>2
<1>8. CASE \/ \E c \in Codes :
                \/ \E enroll \in BOOLEAN : CreatePairing(c, enroll)
                \/ \E h \in Claims : BeginClaim(h, c) \/ \E proof \in BOOLEAN : TakeTicket(h, c, proof)
                \/ ExpireCode(c) \/ ExpireTicket(c)
           \/ \E h \in Claims : TakePairing(h)
           \/ WriteTemp
  BY <1>6, <1>8 DEF CreatePairing, BeginClaim, TakeTicket, ExpireCode, ExpireTicket, TakePairing,
                    WriteTemp, file
<1>. QED BY <1>2, <1>3, <1>4, <1>5, <1>7, <1>8 DEF CredNext

LEMMA OrderedNext ==
  AccessTypeOK /\ Ordered /\ [Next]_vars => Ordered' /\ NoOlder(disk', disk)
<1>1. ASSUME AccessTypeOK, Ordered, [Next]_vars, ~CredNext
      PROVE  Ordered' /\ NoOlder(disk', disk)
  <2>1. reg' = reg /\ disk' = disk /\ queue' = queue
    <3>1. UNCHANGED <<clustered, reg, codes, file>>
      BY <1>1, OtherSteps
    <3>. QED BY <3>1 DEF file
  <2>2. NoOlder(disk, disk)
    BY <1>1, NoOlderReflexive DEF AccessTypeOK, CredentialTypeOK
  <2>. QED BY <1>1, <2>1, <2>2 DEF Ordered
<1>. QED BY <1>1, OrderedStep DEF AccessTypeOK

LEMMA OrderedInit == Init => Ordered
<1>. SUFFICES ASSUME Init PROVE Ordered
  OBVIOUS
<1>1. reg = disk /\ queue = <<>> /\ disk \in Registry
  BY DEF Init, CredInit, Registry
<1>. QED BY <1>1, NoOlderReflexive DEF Ordered

\* What reached the file counts: the registry is never behind it, across
\* restarts, so that a revocation or a rotation stays.
THEOREM FileIsHeededCorrect == Spec => []FileIsHeeded
<1>1. Ordered => FileIsHeeded
  BY DEF Ordered, FileIsHeeded
<1>. QED BY <1>1, InitType, AccessTypeStep, OrderedInit, OrderedNext, PTL DEF Spec

\* The file never goes back to an older snapshot.
THEOREM FileGoesForwardCorrect == Spec => FileGoesForward
<1>1. AccessTypeOK /\ Ordered /\ [Next]_vars => [NoOlder(disk', disk)]_vars
  BY OrderedNext
<1>. QED
  BY <1>1, InitType, AccessTypeStep, OrderedInit, OrderedNext, PTL DEF Spec, FileGoesForward
=============================================================================
