------------------------- MODULE DeviceCredentials -------------------------
(***************************************************************************)
(* The credentials of browser devices at the relay (device-auth.ts,        *)
(* device-store.ts, relay-state.ts, the enrollment of oauth.ts): pairing   *)
(* codes, enrollment tickets, the device registry and its file.            *)
(*                                                                         *)
(* A clustered relay keeps everything in Redis.  A single one keeps it in  *)
(* memory and writes the registry, at every change, to a file that it      *)
(* reads when it starts; pairing codes and tickets are lost with it.       *)
(*                                                                         *)
(* Definitions whose comment begins with "Faulty" are variants that no     *)
(* specification uses (see ActionQueue).                                   *)
(***************************************************************************)
EXTENDS Naturals, Sequences, FiniteSets

CONSTANTS
    Devices,   \* deviceIds
    Codes,     \* pairing codes
    Claims,    \* claims that are served at a time
    None,      \* null
    MaxToken,  \* bound of the rotations of an MCP token
    MaxFaults  \* bound of failed writes and crashes

ASSUME CredentialAssumption ==
    /\ MaxToken \in Nat /\ MaxFaults \in Nat /\ None \notin Devices \cup Codes
    /\ None \notin [token : 0..MaxToken, revoked : BOOLEAN]

VARIABLES
    clustered, \* Redis, not memory and a file
    reg,       \* reg[d]: the device record, or None
    pair,      \* codes that were created, have not expired, and are not taken
    ticket,    \* codes whose enrollment ticket is there
    claim,     \* claim[h]: the code in the hands of claim h, and how far it is
    disk,      \* the registry in the file
    queue,     \* the snapshots that are to be written, the next one first
    temp,      \* the temporary file of the next one is written
    stale,     \* history: the newest snapshot could not be written
    born,      \* history: born[c], the devices issued for code c
    faults     \* history: what went wrong so far

credVars == <<clustered, reg, pair, ticket, claim, disk, queue, temp, stale, born, faults>>
file  == <<disk, queue, temp, stale>>
codes == <<pair, ticket, claim, born>>

-----------------------------------------------------------------------------
Record   == [token : 0..MaxToken, revoked : BOOLEAN]
Registry == [Devices -> Record \cup {None}]
Idle     == [at |-> "idle", code |-> None]

CredentialTypeOK ==
    /\ clustered \in BOOLEAN
    /\ reg \in Registry /\ disk \in Registry
    /\ pair \subseteq Codes /\ ticket \subseteq Codes
    /\ claim \in [Claims -> {Idle} \cup [at : {"pair", "issue"}, code : Codes]]
    /\ queue \in Seq(Registry) /\ temp \in BOOLEAN /\ (temp => queue # <<>>)
    /\ stale \in BOOLEAN
    /\ born \in [Codes -> Nat]
    /\ faults \in 0..MaxFaults

CredInit ==
    /\ clustered \in BOOLEAN
    /\ reg = [d \in Devices |-> None] /\ disk = reg
    /\ pair = {} /\ ticket = {}
    /\ claim = [h \in Claims |-> Idle]
    /\ queue = <<>> /\ temp = FALSE /\ stale = FALSE
    /\ born = [c \in Codes |-> 0]
    /\ faults = 0

Fault == faults < MaxFaults /\ faults' = faults + 1

Valid(d) == reg[d] # None /\ ~reg[d].revoked

\* The registry changes: emitChanged hands a snapshot to the persistence.
Changes(new) ==
    /\ reg' = new
    /\ queue' = IF clustered THEN queue ELSE Append(queue, new)
    /\ UNCHANGED <<clustered, disk, temp, stale, faults>>

-----------------------------------------------------------------------------
(* Pairing and enrollment *)

\* POST /pairing/create, or /enroll/start, whose ticket stands for the code.
\* A code that was used may be drawn again; here each is drawn once.
CreatePairing(c, enroll) ==
    /\ born[c] = 0 /\ c \notin pair \cup ticket /\ \A h \in Claims : claim[h].code # c
    /\ pair' = pair \cup {c}
    /\ ticket' = IF enroll THEN ticket \cup {c} ELSE ticket
    /\ UNCHANGED <<clustered, reg, file, claim, born, faults>>

\* POST /pairing/claim
BeginClaim(h, c) ==
    /\ claim[h] = Idle /\ c \in pair
    /\ claim' = [claim EXCEPT ![h] = [at |-> "pair", code |-> c]]
    /\ UNCHANGED <<clustered, reg, file, pair, ticket, born, faults>>

\* POST /enroll/claim: the ticket is taken, whatever its proof says.
TakeTicket(h, c, proof) ==
    /\ claim[h] = Idle /\ c \in ticket
    /\ ticket' = ticket \ {c}
    /\ claim' = IF proof THEN [claim EXCEPT ![h] = [at |-> "pair", code |-> c]] ELSE claim
    /\ UNCHANGED <<clustered, reg, file, pair, born, faults>>

\* Faulty: the pairing code is read and not deleted.
ReadPairing(h) ==
    /\ claim[h].at = "pair"
    /\ claim' = [claim EXCEPT ![h] = IF @.code \in pair THEN [@ EXCEPT !.at = "issue"] ELSE Idle]
    /\ UNCHANGED <<clustered, reg, file, pair, ticket, born, faults>>

\* claimPairing: GETDEL; an expired or taken code is refused.
TakePairing(h) ==
    /\ claim[h].at = "pair"
    /\ pair' = pair \ {claim[h].code}
    /\ claim' = [claim EXCEPT ![h] = IF @.code \in pair THEN [@ EXCEPT !.at = "issue"] ELSE Idle]
    /\ UNCHANGED <<clustered, reg, file, ticket, born, faults>>

\* issueDevice, DeviceRegistry.issue
IssueDevice(h, d) ==
    /\ claim[h].at = "issue" /\ reg[d] = None
    /\ Changes([reg EXCEPT ![d] = [token |-> 0, revoked |-> FALSE]])
    /\ born' = [born EXCEPT ![claim[h].code] = @ + 1]
    /\ claim' = [claim EXCEPT ![h] = Idle]
    /\ UNCHANGED <<pair, ticket>>

ExpireCode(c) ==
    /\ c \in pair
    /\ pair' = pair \ {c}
    /\ UNCHANGED <<clustered, reg, file, ticket, claim, born, faults>>

ExpireTicket(c) ==
    /\ c \in ticket
    /\ ticket' = ticket \ {c}
    /\ UNCHANGED <<clustered, reg, file, pair, claim, born, faults>>

-----------------------------------------------------------------------------
(* The registry *)

RotateMcpToken(d) ==
    /\ Valid(d) /\ reg[d].token < MaxToken
    /\ Changes([reg EXCEPT ![d].token = @ + 1])
    /\ UNCHANGED codes

\* The request is answered without waiting for the file.
Revoke(d) ==
    /\ Valid(d)
    /\ Changes([reg EXCEPT ![d].revoked = TRUE])
    /\ UNCHANGED codes

-----------------------------------------------------------------------------
(* Its file (persistDeviceRegistry) *)

WriteTemp ==
    /\ queue # <<>> /\ ~temp
    /\ temp' = TRUE
    /\ UNCHANGED <<clustered, reg, codes, disk, queue, stale, faults>>

\* Faulty: the writes of two snapshots are not chained.
RenameAny ==
    /\ temp
    /\ \E i \in 1..Len(queue) :
          /\ disk' = queue[i]
          /\ queue' = SubSeq(queue, 1, i - 1) \o SubSeq(queue, i + 1, Len(queue))
    /\ temp' = FALSE
    /\ stale' = FALSE
    /\ UNCHANGED <<clustered, reg, codes, faults>>

\* rename: the file has the old or the new contents.
Rename ==
    /\ temp
    /\ disk' = Head(queue)
    /\ queue' = Tail(queue)
    /\ temp' = FALSE
    /\ stale' = FALSE
    /\ UNCHANGED <<clustered, reg, codes, faults>>

\* Faulty: a write that fails drops the snapshots behind it.
WriteBreaks ==
    /\ queue # <<>> /\ Fault
    /\ queue' = <<>> /\ temp' = FALSE
    /\ stale' = (Len(queue) = 1)
    /\ UNCHANGED <<clustered, reg, codes, disk>>

\* mkdir, writeFile or rename fails: reported; the next snapshot is written.
WriteFails ==
    /\ queue # <<>> /\ Fault
    /\ queue' = Tail(queue) /\ temp' = FALSE
    /\ stale' = (Len(queue) = 1)
    /\ UNCHANGED <<clustered, reg, codes, disk>>

\* Faulty: revokedAt is not read from the file.
LoadForgetful ==
    [d \in Devices |-> IF disk[d] = None THEN None ELSE [disk[d] EXCEPT !.revoked = FALSE]]

\* loadDeviceRegistry
Load == disk

\* The relay dies and starts again.
CredCrash ==
    /\ Fault
    /\ claim' = [h \in Claims |-> Idle]
    /\ IF clustered THEN UNCHANGED <<reg, pair, ticket, file>>
       ELSE /\ reg' = Load
            /\ pair' = {} /\ ticket' = {}
            /\ queue' = <<>> /\ temp' = FALSE /\ stale' = FALSE
            /\ UNCHANGED disk
    /\ UNCHANGED <<clustered, born>>

-----------------------------------------------------------------------------
CredNext ==
    \/ \E c \in Codes :
          \/ \E enroll \in BOOLEAN : CreatePairing(c, enroll)
          \/ \E h \in Claims : BeginClaim(h, c) \/ \E proof \in BOOLEAN : TakeTicket(h, c, proof)
          \/ ExpireCode(c) \/ ExpireTicket(c)
    \/ \E h \in Claims : TakePairing(h) \/ \E d \in Devices : IssueDevice(h, d)
    \/ \E d \in Devices : RotateMcpToken(d) \/ Revoke(d)
    \/ WriteTemp \/ Rename \/ WriteFails
    \/ CredCrash

-----------------------------------------------------------------------------
(* Properties *)

\* Registry a has all that b has: no device, rotation or revocation is lost.
NoOlder(a, b) ==
    \A d \in Devices : b[d] # None =>
        /\ a[d] # None
        /\ a[d].token >= b[d].token
        /\ b[d].revoked => a[d].revoked

\* What reached the file counts: a device that it says is revoked, or a token
\* that it says is rotated, is never accepted again, across restarts.
FileIsHeeded == NoOlder(reg, disk)

\* A pairing code and the ticket made for it give one device, however many
\* claims present them at a time.
IssuedOnce == \A c \in Codes : born[c] <= 1
=============================================================================
