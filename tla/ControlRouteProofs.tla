------------------------- MODULE ControlRouteProofs -------------------------
(***************************************************************************)
(* Theorems about ControlRoute, for every set of calls, clients and        *)
(* connections and every choice of periods that RouteAssumption allows.    *)
(*                                                                         *)
(* That the lease covers a pending call is not inductive: it must be said  *)
(* by how much.  An ordinary call began when the lease was full, so the    *)
(* lease is ahead of its timer by LeaseTicks - CallTicks; a long call      *)
(* renews it, so the lease has aged no more than the keepLease interval.   *)
(***************************************************************************)
EXTENDS ControlRoute, TLAPS

Covered(r) ==
    /\ owner = ClientOf[r]
    /\ kind[r] = "long" => lease + KeepTicks >= LeaseTicks + keep[r]
    /\ kind[r] # "long" => lease + CallTicks >= LeaseTicks + left[r]

LeaseInv ==
    \A r \in Pending :
        /\ kind[r] # "long" => left[r] <= CallTicks
        /\ Acts(r) /\ r \notin waived => Covered(r)

RouteInv == TypeOK /\ PendingOnCurrent /\ LeaseInv

-----------------------------------------------------------------------------
LEMMA Periods ==
    /\ LeaseTicks \in Nat /\ CallTicks \in Nat /\ LongTicks \in Nat /\ KeepTicks \in Nat
    /\ CallTicks < LeaseTicks /\ KeepTicks < LeaseTicks
    /\ CallTicks > 0 /\ KeepTicks > 0 /\ LongTicks > 0 /\ LeaseTicks > 0
BY RouteAssumption

\* A call that the invariant covers has time left on the lease.
LEMMA CoveredIsHeld ==
    ASSUME RouteInv, NEW r \in Pending, Acts(r), r \notin waived
    PROVE  owner = ClientOf[r] /\ lease > 0 /\ owner # None
<1>1. /\ r \in Calls /\ lease \in Nat /\ keep[r] \in Nat /\ left[r] \in Nat
  BY Periods DEF RouteInv, TypeOK, Pending
<1>2. Covered(r)
  BY DEF RouteInv, LeaseInv
<1>3. lease > 0
  BY <1>1, <1>2, Periods DEF Covered
<1>4. ClientOf[r] # None
  BY <1>1, RouteAssumption
<1> QED BY <1>2, <1>3, <1>4 DEF Covered

\* Who may acquire the lease is the client of every covered call.
LEMMA AcquireIsOwn ==
    ASSUME RouteInv, NEW c \in Clients, MayAcquire(c),
           NEW u \in Pending, Acts(u), u \notin waived
    PROVE  ClientOf[u] = c
BY CoveredIsHeld DEF MayAcquire

\* End stops the calls of S and leaves the others alone.
LEMMA EndStep ==
    ASSUME RouteInv, NEW S \in SUBSET Calls,
           NEW how \in {"done", "failed"}, End(S, how)
    PROVE  /\ tool' \in [Calls -> {"new", "pending", "done", "failed"}]
           /\ left' \in [Calls -> Nat] /\ keep' \in [Calls -> 0..KeepTicks]
           /\ Pending' = Pending \ S
           /\ \A u \in Calls \ S : left'[u] = left[u] /\ keep'[u] = keep[u]
<1>1. /\ tool \in [Calls -> {"new", "pending", "done", "failed"}]
      /\ left \in [Calls -> Nat] /\ keep \in [Calls -> 0..KeepTicks]
  BY DEF RouteInv, TypeOK
<1>2. 0 \in 0..KeepTicks
  BY Periods
<1>3. /\ tool' \in [Calls -> {"new", "pending", "done", "failed"}]
      /\ left' \in [Calls -> Nat] /\ keep' \in [Calls -> 0..KeepTicks]
  BY <1>1, <1>2 DEF End
<1>4. Pending' = Pending \ S
  BY <1>1 DEF End, Pending
<1>5. \A u \in Calls \ S : left'[u] = left[u] /\ keep'[u] = keep[u]
  BY DEF End
<1> QED BY <1>3, <1>4, <1>5

\* A handler that ends takes its call out of the pending ones.
LEMMA AnswerStep ==
    ASSUME RouteInv, NEW r \in Calls, NEW how \in {"done", "failed"}, Answer(r, how)
    PROVE  /\ tool' \in [Calls -> {"new", "pending", "done", "failed"}]
           /\ left' \in [Calls -> Nat] /\ keep' \in [Calls -> 0..KeepTicks]
           /\ step' \in [Calls -> {"act", "snapshot", "again"}]
           /\ via' \in [Calls -> Sockets \cup {None}]
           /\ at' \in [Calls -> {"nowhere", "sent", "acting", "answered"}]
           /\ Pending' = Pending \ {r}
           /\ \A u \in Calls \ {r} : /\ left'[u] = left[u] /\ keep'[u] = keep[u]
                                     /\ step'[u] = step[u] /\ via'[u] = via[u]
<1>1. End({r}, how)
  BY DEF Answer
<1>2. /\ step' \in [Calls -> {"act", "snapshot", "again"}]
      /\ via' \in [Calls -> Sockets \cup {None}]
      /\ at' \in [Calls -> {"nowhere", "sent", "acting", "answered"}]
      /\ \A u \in Calls \ {r} : step'[u] = step[u] /\ via'[u] = via[u]
  BY DEF Answer, RouteInv, TypeOK
<1> QED BY <1>1, <1>2, EndStep

\* A remote call starts with full timers on the current connection, or fails.
LEMMA CallStep ==
    ASSUME RouteInv, NEW r \in Calls, NEW s \in {"act", "snapshot", "again"}, Call(r, s)
    PROVE  /\ tool' \in [Calls -> {"new", "pending", "done", "failed"}]
           /\ left' \in [Calls -> Nat] /\ keep' \in [Calls -> 0..KeepTicks]
           /\ step' \in [Calls -> {"act", "snapshot", "again"}]
           /\ via' \in [Calls -> Sockets \cup {None}]
           /\ at' \in [Calls -> {"nowhere", "sent", "acting", "answered"}]
           /\ \A u \in Calls \ {r} : /\ u \in Pending' <=> u \in Pending
                                     /\ left'[u] = left[u] /\ keep'[u] = keep[u]
                                     /\ step'[u] = step[u] /\ via'[u] = via[u]
           /\ r \in Pending' => /\ via'[r] = current /\ current # None
                                /\ step'[r] = s
                                /\ left'[r] = TimeoutOf(r) /\ keep'[r] = KeepTicks
<1>1. CASE ~Connected
  <2>1. Answer(r, "failed")
    BY <1>1 DEF Call
  <2> QED BY <2>1, AnswerStep
<1>2. CASE Connected
  <2>1. /\ tool' = [tool EXCEPT ![r] = "pending"]
        /\ step' = [step EXCEPT ![r] = s]
        /\ via' = [via EXCEPT ![r] = current]
        /\ left' = [left EXCEPT ![r] = TimeoutOf(r)]
        /\ keep' = [keep EXCEPT ![r] = KeepTicks]
        /\ at' = [at EXCEPT ![r] = "sent"]
    BY <1>2 DEF Call
  <2>2. TypeOK /\ TimeoutOf(r) \in Nat /\ KeepTicks \in 0..KeepTicks
    BY Periods DEF RouteInv, TimeoutOf
  <2>3. current # None
    BY <1>2 DEF Connected
  <2> QED BY <2>1, <2>2, <2>3 DEF TypeOK, Pending
<1> QED BY <1>1, <1>2
-----------------------------------------------------------------------------
\* mutate keeps the invariant: whoever gets the lease had it, or nobody who
\* acts was covered by it.
LEMMA MutateStep ==
    ASSUME RouteInv, NEW r \in Calls, NEW s \in {"act", "snapshot", "again"},
           Mutate(r, s), UNCHANGED <<kind, conn, current>>
    PROVE  RouteInv'
<1>1. TypeOK /\ PendingOnCurrent /\ LeaseInv /\ ClientOf[r] \in Clients
  BY RouteAssumption DEF RouteInv
<1>2. CASE MayAcquire(ClientOf[r])
  <2>1. /\ owner' = ClientOf[r] /\ lease' = LeaseTicks
        /\ waived' = waived \ {r} /\ Call(r, s)
    BY <1>2 DEF Mutate, Acquire
  <2>2. TypeOK'
    <3>1. LeaseTicks \in 0..LeaseTicks
      BY Periods
    <3> QED BY <1>1, <2>1, <3>1, CallStep DEF TypeOK
  <2>3. PendingOnCurrent'
    BY <1>1, <2>1, CallStep DEF PendingOnCurrent, Pending
  <2>4. ASSUME NEW u \in Pending'
        PROVE  /\ kind'[u] # "long" => left'[u] <= CallTicks
               /\ Acts(u)' /\ u \notin waived' => Covered(u)'
    <3>1. u \in Calls /\ left'[u] \in Nat /\ keep'[u] \in 0..KeepTicks
      BY <2>2, <2>4 DEF Pending, TypeOK
    <3>2. CASE u = r
      <4>1. left'[r] = TimeoutOf(r) /\ keep'[r] = KeepTicks
        BY <2>1, <2>4, <3>2, CallStep
      <4> QED BY <2>1, <3>2, <4>1, Periods DEF Covered, TimeoutOf
    <3>3. CASE u # r
      <4>1. u \in Pending /\ left'[u] = left[u] /\ step'[u] = step[u]
        BY <2>1, <2>4, <3>1, <3>3, CallStep
      <4>2. kind'[u] # "long" => left'[u] <= CallTicks
        BY <1>1, <4>1 DEF LeaseInv
      <4>3. ASSUME Acts(u)', u \notin waived' PROVE Covered(u)'
        <5>1. Acts(u) /\ u \notin waived
          BY <2>1, <3>3, <4>1, <4>3 DEF Acts, Mutating
        <5>2. ClientOf[u] = ClientOf[r]
          BY <1>1, <1>2, <4>1, <5>1, AcquireIsOwn
        <5> QED BY <2>1, <3>1, <4>2, <5>2, Periods DEF Covered
      <4> QED BY <4>2, <4>3
    <3> QED BY <3>2, <3>3
  <2> QED BY <2>2, <2>3, <2>4 DEF RouteInv, LeaseInv
<1>3. CASE ~MayAcquire(ClientOf[r])
  <2>1. Answer(r, "failed") /\ UNCHANGED <<owner, lease, waived>>
    BY <1>3 DEF Mutate, Acquire
  <2>2. TypeOK'
    BY <1>1, <2>1, AnswerStep DEF TypeOK
  <2>3. PendingOnCurrent'
    BY <1>1, <2>1, AnswerStep DEF PendingOnCurrent, Pending
  <2>4. LeaseInv'
    BY <1>1, <2>1, AnswerStep DEF LeaseInv, Covered, Acts, Mutating, Pending
  <2> QED BY <2>2, <2>3, <2>4 DEF RouteInv
<1> QED BY <1>2, <1>3

\* A call that does not act leaves the lease to those who do.
LEMMA ReadStep ==
    ASSUME RouteInv, NEW r \in Calls, NEW s \in {"act", "snapshot", "again"},
           r \notin Mutating \/ s = "snapshot",
           Call(r, s), UNCHANGED <<kind, conn, current, owner, lease, waived>>
    PROVE  RouteInv'
<1>1. TypeOK /\ PendingOnCurrent /\ LeaseInv
  BY DEF RouteInv
<1>2. TypeOK'
  BY <1>1, CallStep DEF TypeOK
<1>3. PendingOnCurrent'
  BY <1>1, CallStep DEF PendingOnCurrent, Pending
<1>4. ASSUME NEW u \in Pending'
      PROVE  /\ kind'[u] # "long" => left'[u] <= CallTicks
             /\ Acts(u)' /\ u \notin waived' => Covered(u)'
  <2>1. u \in Calls
    BY <1>4 DEF Pending
  <2>2. CASE u = r
    <3>1. left'[r] = TimeoutOf(r) /\ step'[r] = s
      BY <1>4, <2>2, CallStep
    <3>2. ~Acts(r)'
      BY <3>1 DEF Acts, Mutating
    <3> QED BY <2>2, <3>1, <3>2, Periods DEF TimeoutOf
  <2>3. CASE u # r
    <3>1. /\ u \in Pending /\ left'[u] = left[u] /\ keep'[u] = keep[u]
          /\ step'[u] = step[u]
      BY <1>4, <2>1, <2>3, CallStep
    <3> QED BY <1>1, <3>1 DEF LeaseInv, Covered, Acts, Mutating
  <2> QED BY <2>2, <2>3
<1> QED BY <1>2, <1>3, <1>4 DEF RouteInv, LeaseInv

\* Forgetting an expired owner takes the lease from nobody who is covered.
LEMMA AnswerKeepsInv ==
    ASSUME RouteInv, NEW r \in Calls, NEW how \in {"done", "failed"}, Answer(r, how),
           Status \/ UNCHANGED <<owner, lease>>,
           UNCHANGED <<kind, conn, current, waived>>
    PROVE  RouteInv'
<1>1. TypeOK /\ PendingOnCurrent /\ LeaseInv
  BY DEF RouteInv
<1>2. /\ owner' \in Clients \cup {None} /\ lease' \in 0..LeaseTicks
      /\ lease > 0 => owner' = owner /\ lease' = lease
  BY <1>1, Periods DEF TypeOK, Status, Clear
<1>3. TypeOK'
  BY <1>1, <1>2, AnswerStep DEF TypeOK
<1>4. PendingOnCurrent'
  BY <1>1, AnswerStep DEF PendingOnCurrent, Pending
<1>5. ASSUME NEW u \in Pending'
      PROVE  /\ kind'[u] # "long" => left'[u] <= CallTicks
             /\ Acts(u)' /\ u \notin waived' => Covered(u)'
  <2>1. /\ u \in Pending /\ left'[u] = left[u] /\ keep'[u] = keep[u]
        /\ step'[u] = step[u]
    BY <1>5, AnswerStep DEF Pending
  <2>2. ASSUME Acts(u), u \notin waived PROVE Covered(u)'
    BY <1>1, <1>2, <2>1, <2>2, CoveredIsHeld DEF LeaseInv, Covered
  <2> QED BY <1>1, <2>1, <2>2 DEF LeaseInv, Acts, Mutating
<1> QED BY <1>3, <1>4, <1>5 DEF RouteInv, LeaseInv

LEMMA ToolCallStep ==
    ASSUME RouteInv, NEW r \in Calls, ToolCall(r), UNCHANGED kind
    PROVE  RouteInv'
<1>1. CASE r \in Mutating /\ Mutate(r, "act")
  BY <1>1, MutateStep DEF ToolCall
<1>2. CASE r \notin Mutating /\ Call(r, "act") /\ UNCHANGED <<owner, lease, waived>>
  BY <1>2, ReadStep DEF ToolCall
<1>3. CASE Answer(r, "done") /\ Status /\ UNCHANGED waived
  BY <1>3, AnswerKeepsInv DEF ToolCall
<1> QED BY <1>1, <1>2, <1>3 DEF ToolCall, Mutating

LEMMA ReplyStep ==
    ASSUME RouteInv, NEW r \in Calls, NEW how \in {"result", "error", "stale"},
           Reply(r, how), UNCHANGED kind
    PROVE  RouteInv'
<1>1. UNCHANGED <<conn, current>>
  BY DEF Reply
<1>2. CASE tool[r] # "pending"
  <2>1. /\ at' = [at EXCEPT ![r] = "nowhere"]
        /\ UNCHANGED <<owner, lease, tool, step, via, left, keep, waived>>
    BY <1>2 DEF Reply
  <2> QED BY <1>1, <2>1 DEF RouteInv, TypeOK, PendingOnCurrent, LeaseInv, Pending,
                           Covered, Acts, Mutating
<1>3. CASE tool[r] = "pending"
  <2>1. \/ Mutate(r, "again")
        \/ Call(r, "snapshot") /\ UNCHANGED <<owner, lease, waived>>
        \/ /\ \E end \in {"done", "failed"} : Answer(r, end)
           /\ Status \/ UNCHANGED <<owner, lease>>
           /\ UNCHANGED waived
    BY <1>3, Zenon DEF Reply
  <2> QED BY <1>1, <2>1, MutateStep, ReadStep, AnswerKeepsInv
<1> QED BY <1>2, <1>3

LEMMA TimeoutStep ==
    ASSUME RouteInv, NEW r \in Calls, Timeout(r), UNCHANGED kind
    PROVE  RouteInv'
<1>1. TypeOK /\ PendingOnCurrent /\ LeaseInv
  BY DEF RouteInv
<1>2. /\ End({r}, "failed")
      /\ UNCHANGED <<conn, current, owner, lease, step, via, at, waived>>
  BY DEF Timeout
<1>3. /\ tool' \in [Calls -> {"new", "pending", "done", "failed"}]
      /\ left' \in [Calls -> Nat] /\ keep' \in [Calls -> 0..KeepTicks]
      /\ Pending' = Pending \ {r}
      /\ \A u \in Calls \ {r} : left'[u] = left[u] /\ keep'[u] = keep[u]
  BY <1>2, EndStep
<1>4. TypeOK' /\ PendingOnCurrent'
  BY <1>1, <1>2, <1>3 DEF TypeOK, PendingOnCurrent
<1>5. LeaseInv'
  BY <1>1, <1>2, <1>3 DEF LeaseInv, Covered, Acts, Mutating, Pending
<1> QED BY <1>4, <1>5 DEF RouteInv

\* The interval of a covered call finds the lease its own and fills it up; that
\* of a call given up takes it from nobody who is covered.
LEMMA KeepLeaseStep ==
    ASSUME RouteInv, NEW r \in Calls, KeepLease(r), UNCHANGED kind
    PROVE  RouteInv'
<1>1. TypeOK /\ PendingOnCurrent /\ LeaseInv /\ ClientOf[r] \in Clients
  BY RouteAssumption DEF RouteInv
<1>2. /\ r \in Pending /\ kind[r] = "long" /\ keep[r] = 0
      /\ keep' = [keep EXCEPT ![r] = KeepTicks]
      /\ UNCHANGED <<conn, current, tool, step, via, left, at, waived>>
      /\ \/ /\ MayAcquire(ClientOf[r])
            /\ owner' = ClientOf[r] /\ lease' = LeaseTicks
         \/ ~MayAcquire(ClientOf[r]) /\ UNCHANGED <<owner, lease>>
  BY DEF KeepLease, Keeping, Acquire
<1>3. KeepTicks \in 0..KeepTicks /\ LeaseTicks \in 0..LeaseTicks
  BY Periods
<1>4. TypeOK' /\ PendingOnCurrent'
  BY <1>1, <1>2, <1>3 DEF TypeOK, PendingOnCurrent, Pending
<1>5. ASSUME NEW u \in Pending'
      PROVE  /\ kind'[u] # "long" => left'[u] <= CallTicks
             /\ Acts(u)' /\ u \notin waived' => Covered(u)'
  <2>1. /\ u \in Pending /\ u \in Calls /\ left'[u] = left[u]
        /\ keep[u] \in 0..KeepTicks /\ left[u] \in Nat /\ keep'[u] \in 0..KeepTicks
        /\ u # r => keep'[u] = keep[u]
    BY <1>1, <1>2, <1>4, <1>5 DEF Pending, TypeOK
  <2>2. kind[u] # "long" => left[u] <= CallTicks
    BY <1>1, <2>1 DEF LeaseInv
  <2>3. ASSUME Acts(u), u \notin waived PROVE Covered(u)'
    <3>1. CASE MayAcquire(ClientOf[r])
      <4>1. ClientOf[u] = ClientOf[r]
        BY <1>1, <2>1, <2>3, <3>1, AcquireIsOwn
      <4>2. owner' = ClientOf[u] /\ lease' = LeaseTicks
        BY <1>2, <3>1, <4>1
      <4> QED BY <2>1, <2>2, <4>2, Periods DEF Covered
    <3>2. CASE ~MayAcquire(ClientOf[r])
      <4>1. u # r
        BY <2>1, <2>3, <3>2, CoveredIsHeld DEF MayAcquire
      <4>2. Covered(u)
        BY <1>1, <2>1, <2>3 DEF LeaseInv
      <4> QED BY <1>2, <2>1, <3>2, <4>1, <4>2 DEF Covered
    <3> QED BY <3>1, <3>2
  <2> QED BY <1>2, <2>1, <2>2, <2>3 DEF Acts, Mutating
<1> QED BY <1>4, <1>5 DEF RouteInv, LeaseInv

LEMMA ReleaseStep ==
    ASSUME RouteInv, NEW c \in Clients, Release(c), UNCHANGED kind
    PROVE  RouteInv'
<1>1. TypeOK /\ PendingOnCurrent /\ LeaseInv
  BY DEF RouteInv
<1>2. /\ owner = c /\ owner' = None /\ lease' = 0
      /\ waived' = waived \cup {r \in Calls : ClientOf[r] = c /\ tool[r] # "new"}
      /\ UNCHANGED <<conn, current, tool, step, via, left, keep, at>>
  BY DEF Release, Clear
<1>3. TypeOK' /\ PendingOnCurrent'
  BY <1>1, <1>2, Periods DEF TypeOK, PendingOnCurrent, Pending
<1>4. ASSUME NEW u \in Pending', Acts(u)', u \notin waived' PROVE FALSE
  <2>1. u \in Pending /\ Acts(u) /\ u \notin waived /\ u \in Calls /\ tool[u] # "new"
    BY <1>2, <1>4 DEF Pending, Acts, Mutating
  <2>2. ClientOf[u] = c
    BY <1>2, <2>1, CoveredIsHeld
  <2> QED BY <1>2, <1>4, <2>1, <2>2
<1>5. \A u \in Pending' : kind'[u] # "long" => left'[u] <= CallTicks
  BY <1>1, <1>2 DEF LeaseInv, Pending
<1> QED BY <1>3, <1>4, <1>5 DEF RouteInv, LeaseInv
-----------------------------------------------------------------------------
\* When nothing is pending the lease may be anybody's.
LEMMA NothingPending ==
    ASSUME RouteInv, Pending' = {}, TypeOK'
    PROVE  RouteInv'
BY DEF RouteInv, PendingOnCurrent, LeaseInv

\* A new connection finds no pending call, or fails those of the former one.
LEMMA AttachStep ==
    ASSUME RouteInv, NEW s \in Sockets, Attach(s), UNCHANGED kind
    PROVE  RouteInv'
<1>1. TypeOK /\ PendingOnCurrent
  BY DEF RouteInv
<1>2. /\ tool' \in [Calls -> {"new", "pending", "done", "failed"}]
      /\ left' \in [Calls -> Nat] /\ keep' \in [Calls -> 0..KeepTicks]
      /\ Pending' = {}
  <2>1. CASE current # None
    <3>1. End(Pending, "failed") /\ Pending \in SUBSET Calls
      BY <2>1 DEF Attach, FailPending, Pending
    <3> QED BY <3>1, EndStep
  <2>2. CASE current = None
    <3>1. Pending = {} /\ UNCHANGED <<tool, left, keep>>
      BY <1>1, <2>2 DEF Attach, PendingOnCurrent
    <3> QED BY <1>1, <3>1 DEF TypeOK, Pending
  <2> QED BY <2>1, <2>2
<1>3. conn' \in [Sockets -> {"new", "open", "closing", "closed"}]
  BY <1>1 DEF Attach, TypeOK
<1>4. owner' \in Clients \cup {None} /\ lease' \in 0..LeaseTicks
  BY <1>1, Periods DEF Attach, Clear, TypeOK
<1>5. TypeOK'
  BY <1>1, <1>2, <1>3, <1>4 DEF Attach, TypeOK
<1> QED BY <1>2, <1>5, NothingPending

LEMMA ClosedStep ==
    ASSUME RouteInv, NEW s \in Sockets, Closed(s), UNCHANGED kind
    PROVE  RouteInv'
<1>1. TypeOK /\ PendingOnCurrent /\ LeaseInv
  BY DEF RouteInv
<1>2. /\ conn' \in [Sockets -> {"new", "open", "closing", "closed"}]
      /\ at' \in [Calls -> {"nowhere", "sent", "acting", "answered"}]
      /\ UNCHANGED <<owner, lease, step, via, waived>>
  BY <1>1 DEF Closed, Lost, TypeOK
<1>3. CASE current = s
  <2>1. End(Pending, "failed") /\ Pending \in SUBSET Calls /\ current' = None
    BY <1>3 DEF Closed, FailPending, Pending
  <2>2. Pending' = {} /\ TypeOK'
    BY <1>1, <1>2, <2>1, EndStep DEF TypeOK
  <2> QED BY <2>2, NothingPending
<1>4. CASE current # s
  <2>1. UNCHANGED <<current, tool, left, keep>>
    BY <1>4 DEF Closed
  <2>2. TypeOK' /\ PendingOnCurrent'
    BY <1>1, <1>2, <2>1 DEF TypeOK, PendingOnCurrent, Pending
  <2>3. LeaseInv'
    BY <1>1, <1>2, <2>1 DEF LeaseInv, Covered, Acts, Mutating, Pending
  <2> QED BY <2>2, <2>3 DEF RouteInv
<1> QED BY <1>3, <1>4

LEMMA DisconnectStep ==
    ASSUME RouteInv, Disconnect, UNCHANGED kind
    PROVE  RouteInv'
<1>1. TypeOK
  BY DEF RouteInv
<1>2. /\ End(Pending, "failed") /\ Pending \in SUBSET Calls /\ current' = None
      /\ conn' = [conn EXCEPT ![current] = IF @ = "open" THEN "closing" ELSE @]
      /\ IF FreesLease THEN Clear ELSE UNCHANGED <<owner, lease>>
      /\ UNCHANGED <<step, via, at, waived>>
  BY DEF Disconnect, FailPending, Pending
<1>3. conn' \in [Sockets -> {"new", "open", "closing", "closed"}]
  BY <1>1, <1>2 DEF TypeOK
<1>4. owner' \in Clients \cup {None} /\ lease' \in 0..LeaseTicks
  BY <1>1, <1>2, Periods DEF Clear, TypeOK
<1>5. Pending' = {} /\ TypeOK'
  BY <1>1, <1>2, <1>3, <1>4, EndStep DEF TypeOK
<1> QED BY <1>5, NothingPending

\* The lease and the timers of the covered calls grow old together.
LEMMA TickStep ==
    ASSUME RouteInv, Tick, UNCHANGED kind
    PROVE  RouteInv'
<1>1. TypeOK /\ PendingOnCurrent /\ LeaseInv
  BY DEF RouteInv
<1>2. /\ \A r \in Pending : left[r] # 0
      /\ \A r \in Keeping : keep[r] # 0
      /\ lease' = Minus(lease)
      /\ left' = [r \in Calls |-> IF r \in Pending THEN Minus(left[r]) ELSE left[r]]
      /\ keep' = [r \in Calls |-> IF r \in Keeping THEN Minus(keep[r]) ELSE keep[r]]
      /\ UNCHANGED <<conn, current, owner, tool, step, via, at, waived>>
  BY DEF Tick
<1>3. /\ \A n \in Nat : Minus(n) \in Nat /\ (n # 0 => Minus(n) = n - 1)
      /\ \A n \in 0..KeepTicks : Minus(n) \in 0..KeepTicks
      /\ \A n \in 0..LeaseTicks : Minus(n) \in 0..LeaseTicks
  BY Periods DEF Minus
<1>4. lease' \in 0..LeaseTicks
  BY <1>1, <1>2, <1>3 DEF TypeOK
<1>5. left' \in [Calls -> Nat] /\ keep' \in [Calls -> 0..KeepTicks]
  BY <1>1, <1>2, <1>3 DEF TypeOK
<1>6. TypeOK' /\ PendingOnCurrent'
  BY <1>1, <1>2, <1>4, <1>5 DEF TypeOK, PendingOnCurrent, Pending
<1>7. ASSUME NEW u \in Pending'
      PROVE  /\ kind'[u] # "long" => left'[u] <= CallTicks
             /\ Acts(u)' /\ u \notin waived' => Covered(u)'
  <2>1. /\ u \in Pending /\ u \in Calls
        /\ left[u] \in Nat /\ keep[u] \in 0..KeepTicks /\ lease \in 0..LeaseTicks
    BY <1>1, <1>2, <1>7 DEF Pending, TypeOK
  <2>2. left[u] # 0 /\ left'[u] = left[u] - 1
    BY <1>2, <1>3, <2>1
  <2>3. kind[u] = "long" => keep[u] # 0 /\ keep'[u] = keep[u] - 1
    BY <1>2, <1>3, <2>1 DEF Keeping
  <2>4. kind[u] # "long" => left[u] <= CallTicks
    BY <1>1, <2>1 DEF LeaseInv
  <2>5. ASSUME Acts(u), u \notin waived PROVE Covered(u)'
    <3>1. Covered(u) /\ lease > 0
      BY <1>1, <2>1, <2>5, CoveredIsHeld DEF LeaseInv
    <3>2. lease' = lease - 1
      BY <1>2, <1>3, <2>1, <3>1
    <3> QED BY <1>2, <2>1, <2>2, <2>3, <3>1, <3>2, Periods DEF Covered
  <2> QED BY <1>2, <2>1, <2>2, <2>4, <2>5, Periods DEF Acts, Mutating
<1> QED BY <1>6, <1>7 DEF RouteInv, LeaseInv

\* The network and the extension touch nothing the invariant speaks of.
LEMMA RemoteStep ==
    ASSUME RouteInv, UNCHANGED kind,
           \/ \E r \in Calls : Deliver(r) \/ Finish(r)
           \/ \E s \in Sockets : Closing(s)
           \/ UNCHANGED vars
    PROVE  RouteInv'
<1>1. TypeOK /\ PendingOnCurrent /\ LeaseInv
  BY DEF RouteInv
<1>2. /\ UNCHANGED <<current, owner, lease, tool, step, via, left, keep, waived>>
      /\ conn' \in [Sockets -> {"new", "open", "closing", "closed"}]
      /\ at' \in [Calls -> {"nowhere", "sent", "acting", "answered"}]
  BY <1>1 DEF Deliver, Finish, Closing, vars, TypeOK
<1> QED BY <1>1, <1>2 DEF RouteInv, TypeOK, PendingOnCurrent, LeaseInv, Pending,
                         Covered, Acts, Mutating
-----------------------------------------------------------------------------
\* The inductive invariant holds in every reachable state.
THEOREM Inductive == Spec => []RouteInv
<1>1. Init => RouteInv
  <2> SUFFICES ASSUME Init PROVE RouteInv
    OBVIOUS
  <2>1. TypeOK
    BY Periods DEF Init, TypeOK
  <2>2. Pending = {}
    BY DEF Init, Pending
  <2> QED BY <2>1, <2>2 DEF RouteInv, PendingOnCurrent, LeaseInv
<1>2. ASSUME RouteInv, [Next]_vars PROVE RouteInv'
  <2>1. CASE UNCHANGED vars
    BY <1>2, <2>1, RemoteStep DEF vars
  <2>2. CASE Step /\ UNCHANGED kind
    BY <1>2, <2>2, ToolCallStep, TimeoutStep, KeepLeaseStep, ReplyStep, ReleaseStep,
       AttachStep, ClosedStep, DisconnectStep, TickStep, RemoteStep DEF Step
  <2> QED BY <1>2, <2>1, <2>2 DEF Next
<1> QED BY <1>1, <1>2, PTL DEF Spec

THEOREM RouteTypeCorrect == Spec => []TypeOK
<1>1. RouteInv => TypeOK
  BY DEF RouteInv
<1> QED BY Inductive, <1>1, PTL

\* Whatever reconnects, a pending call is one the current connection can answer.
THEOREM CallsFollowConnection == Spec => []PendingOnCurrent
<1>1. RouteInv => PendingOnCurrent
  BY DEF RouteInv
<1> QED BY Inductive, <1>1, PTL

\* The lease outlasts every call that acts, however long its queue runs.
THEOREM LeaseOutlastsCalls == Spec => []LeaseCoversCall
<1>1. RouteInv => LeaseCoversCall
  BY CoveredIsHeld DEF LeaseCoversCall
<1> QED BY Inductive, <1>1, PTL

\* As seen by the gateway, one client acts at a time.
THEOREM OneClientAtATime == Spec => []OneClientActs
<1>1. RouteInv => OneClientActs
  BY CoveredIsHeld DEF OneClientActs
<1> QED BY Inductive, <1>1, PTL
=============================================================================
