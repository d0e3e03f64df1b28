-------------------------- MODULE ControllerProofs --------------------------
(***************************************************************************)
(* Theorems about ActionQueue and ChromeController, for every set of       *)
(* calls, cancellers and drainers.                                         *)
(*                                                                         *)
(* None of the queue's safety properties is inductive.  What makes them so *)
(* is the relation between the three fields that say that something is     *)
(* running (currentEntry, isProcessing, inFlight), the generation of the   *)
(* execution in flight, and the suspended cancellers: QueueInv below.      *)
(*                                                                         *)
(* Under the controller QueueInv holds as long as no task has asked for a  *)
(* recovery by itself.  A task that does so is running where the queue     *)
(* does not know it; what holds then too is the rest of ControllerInv.     *)
(***************************************************************************)
EXTENDS ChromeController, TLAPS

\* The execution in flight is the only live one; it is the current entry of the
\* current generation unless it has been aborted, and then nothing is queued.
InFlightInv ==
    /\ \A t \in Tasks : Live(t) => q.inFlight = t
    /\ q.inFlight # None => Live(q.inFlight)
    /\ q.inFlight # None /\ ~q.isAborted => q.currentEntry = q.inFlight
    /\ q.inFlight # None /\ q.isAborted => genOf[q.inFlight] < q.generation

CurrentInv ==
    /\ q.currentEntry # None =>
         /\ q.inFlight = q.currentEntry
         /\ q.isProcessing
         /\ genOf[q.currentEntry] = q.generation
    /\ q.currentEntry = None => ~q.isProcessing /\ q.queue = <<>>
    /\ q.isAborted => q.currentEntry = None

\* A canceller waits for the execution in flight of an aborted queue; once the
\* wait is over nothing is in flight until it has returned.
CancelInv ==
    \A c \in Cancellers :
        /\ pc[c] = "flight" => /\ flightOf[c] # None
                               /\ q.inFlight = flightOf[c]
                               /\ q.isAborted
        /\ pc[c] \in {"cancelled", "resetting"} =>
              q.inFlight = None /\ q.currentEntry = None

QueueInv ==
    /\ TypeOK
    /\ InFlightInv
    /\ CurrentInv
    /\ CancelInv
    /\ QueueIsCurrent
    /\ NoStrandedCall

-----------------------------------------------------------------------------
\* What processNext does to a queue without stale entries: it starts the head,
\* or changes nothing.
LEMMA ProcessNextStartsHead ==
    ASSUME NEW s \in QueueState, NEW gen \in [Tasks -> Nat],
           \A i \in 1..Len(s.queue) : gen[s.queue[i]] = s.generation
    PROVE  /\ Dropped(s, gen) = {}
           /\ ~(MayProcess(s) /\ s.queue # <<>>) =>
                /\ StartsAt(s, gen) = {}
                /\ ProcessNext(s, gen) = s
           /\ MayProcess(s) /\ s.queue # <<>> =>
                /\ StartsAt(s, gen) = {1}
                /\ ProcessNext(s, gen) =
                     [s EXCEPT !.queue = Tail(s.queue), !.isProcessing = TRUE,
                               !.currentEntry = Head(s.queue),
                               !.inFlight = Head(s.queue)]
<1>1. s.queue \in Seq(Tasks) /\ s.generation \in Nat
  BY DEF QueueState
<1>2. \A i \in 1..Len(s.queue) : ~IsStale(s, gen, i)
  BY DEF IsStale
<1>3. Dropped(s, gen) = {}
  BY <1>1, <1>2 DEF Dropped, StalePrefix
<1>4. ASSUME ~(MayProcess(s) /\ s.queue # <<>>)
      PROVE  StartsAt(s, gen) = {} /\ ProcessNext(s, gen) = s
  <2>1. StartsAt(s, gen) = {}
    BY <1>1, <1>4 DEF StartsAt
  <2>2. CASE ~MayProcess(s)
    BY <2>1, <2>2 DEF ProcessNext
  <2>3. CASE MayProcess(s) /\ s.queue = <<>>
    <3>1. [s EXCEPT !.queue = <<>>] = s
      BY <2>3 DEF QueueState
    <3> QED BY <2>1, <2>3, <3>1 DEF ProcessNext
  <2> QED BY <1>4, <2>1, <2>2, <2>3
<1>5. ASSUME MayProcess(s), s.queue # <<>>
      PROVE  /\ StartsAt(s, gen) = {1}
             /\ ProcessNext(s, gen) =
                  [s EXCEPT !.queue = Tail(s.queue), !.isProcessing = TRUE,
                            !.currentEntry = Head(s.queue), !.inFlight = Head(s.queue)]
  <2>1. Len(s.queue) \in Nat /\ Len(s.queue) > 0
    BY <1>1, <1>5
  <2>2. 1 \in StartsAt(s, gen)
    BY <1>2, <1>5, <2>1 DEF StartsAt
  <2>3. ASSUME NEW i \in StartsAt(s, gen) PROVE i = 1
    <3>1. i \in 1..Len(s.queue) /\ \A j \in 1..(i - 1) : IsStale(s, gen, j)
      BY <2>3 DEF StartsAt
    <3>2. CASE i # 1
      <4>1. 1 \in 1..(i - 1) /\ 1 \in 1..Len(s.queue)
        BY <2>1, <3>1, <3>2
      <4> QED BY <1>2, <3>1, <4>1
    <3> QED BY <3>2
  <2>4. StartsAt(s, gen) = {1}
    BY <2>2, <2>3
  <2>5. SubSeq(s.queue, 2, Len(s.queue)) = Tail(s.queue) /\ s.queue[1] = Head(s.queue)
    BY <1>1, <1>5
  <2> DEFINE first == CHOOSE i \in StartsAt(s, gen) : TRUE
  <2>6. first = 1
    BY <2>4
  <2>7. ProcessNext(s, gen) =
          [s EXCEPT !.queue = SubSeq(s.queue, first + 1, Len(s.queue)),
                    !.isProcessing = TRUE,
                    !.currentEntry = s.queue[first],
                    !.inFlight = s.queue[first]]
    BY <1>5, <2>4, Zenon DEF ProcessNext
  <2> HIDE DEF first
  <2>8. SubSeq(s.queue, first + 1, Len(s.queue)) = Tail(s.queue)
        /\ s.queue[first] = Head(s.queue)
    BY <2>5, <2>6
  <2> QED BY <2>4, <2>7, <2>8, Zenon
<1> QED BY <1>3, <1>4, <1>5
-----------------------------------------------------------------------------
\* A queue that is not processing has nothing in flight unless it is aborted.
LEMMA NotProcessing ==
    ASSUME InFlightInv, CurrentInv, ~q.isAborted, ~q.isProcessing
    PROVE  /\ q.currentEntry = None /\ q.inFlight = None /\ q.queue = <<>>
           /\ \A t \in Tasks : ~Live(t)
BY ConstantsAssumption DEF InFlightInv, CurrentInv

\* run() keeps the invariant: it appends to a busy queue, or starts an idle one.
LEMMA RunStep ==
    ASSUME QueueInv, NEW t \in Tasks, Run(t)
    PROVE  QueueInv' /\ Serial!Submit(t)
<1> DEFINE pushed == [q EXCEPT !.queue = Append(q.queue, t)]
<1>0. /\ TypeOK /\ InFlightInv /\ CurrentInv /\ CancelInv
      /\ QueueIsCurrent /\ NoStrandedCall
  BY DEF QueueInv
<1>1. /\ TypeOK /\ Quiet /\ call[t] = "new" /\ ~q.isAborted
      /\ genOf' = [genOf EXCEPT ![t] = q.generation]
      /\ q' = ProcessNext(pushed, genOf')
      /\ call' = Reject([call EXCEPT ![t] = "pending"], Dropped(pushed, genOf'))
      /\ exec' = Launch(exec, pushed, genOf')
      /\ drain' = CheckDrain(q')
      /\ UNCHANGED <<pc, flightOf>>
  BY <1>0 DEF Run
<1>2. /\ pushed \in QueueState
      /\ genOf' \in [Tasks -> Nat]
      /\ Len(pushed.queue) = Len(q.queue) + 1
      /\ \A i \in 1..Len(q.queue) : pushed.queue[i] = q.queue[i]
      /\ pushed.queue[Len(q.queue) + 1] = t
      /\ pushed.queue # <<>>
      /\ pushed.isProcessing = q.isProcessing /\ pushed.isAborted = q.isAborted
      /\ pushed.generation = q.generation
  <2>1. /\ q.queue \in Seq(Tasks) /\ q.currentEntry \in Tasks \cup {None}
        /\ q.inFlight \in Tasks \cup {None} /\ q.isProcessing \in BOOLEAN
        /\ q.isAborted \in BOOLEAN /\ q.generation \in Nat
    BY <1>1 DEF TypeOK, QueueState
  <2>2. pushed = [queue |-> Append(q.queue, t), currentEntry |-> q.currentEntry,
                  inFlight |-> q.inFlight, isProcessing |-> q.isProcessing,
                  isAborted |-> q.isAborted, generation |-> q.generation]
    <3>1. q \in QueueState
      BY <1>1 DEF TypeOK
    <3> QED BY <3>1 DEF QueueState
  <2>3. Append(q.queue, t) \in Seq(Tasks)
    BY <2>1
  <2>4. pushed \in QueueState
    BY <2>1, <2>2, <2>3 DEF QueueState
  <2>5. genOf' \in [Tasks -> Nat]
    BY <1>1, <2>1 DEF TypeOK
  <2>6. /\ Len(Append(q.queue, t)) = Len(q.queue) + 1
        /\ \A i \in 1..Len(q.queue) : Append(q.queue, t)[i] = q.queue[i]
        /\ Append(q.queue, t)[Len(q.queue) + 1] = t
        /\ Append(q.queue, t) # <<>>
    BY <2>1
  <2> QED BY <2>2, <2>4, <2>5, <2>6
<1> HIDE DEF pushed
<1>3. \A i \in 1..Len(pushed.queue) : genOf'[pushed.queue[i]] = pushed.generation
  <2> SUFFICES ASSUME NEW i \in 1..Len(pushed.queue)
               PROVE  genOf'[pushed.queue[i]] = pushed.generation
    OBVIOUS
  <2>1. Len(q.queue) \in Nat /\ pushed.queue[i] \in Tasks
    BY <1>1, <1>2 DEF TypeOK, QueueState
  <2>2. CASE i \in 1..Len(q.queue)
    BY <1>0, <1>1, <1>2, <2>1, <2>2 DEF QueueIsCurrent, TypeOK
  <2>3. CASE i = Len(q.queue) + 1
    BY <1>1, <1>2, <2>1, <2>3 DEF TypeOK
  <2> QED BY <1>2, <2>1, <2>2, <2>3
<1>4. call' = [call EXCEPT ![t] = "pending"]
  <2>1. Dropped(pushed, genOf') = {}
    BY <1>2, <1>3, ProcessNextStartsHead
  <2> QED BY <1>1, <2>1 DEF Reject, TypeOK
<1>5. drain' \in [Drainers -> DrainState]
  BY <1>1 DEF CheckDrain, DrainState, TypeOK
<1>6. CASE q.isProcessing
  <2>1. q' = pushed /\ StartsAt(pushed, genOf') = {}
    BY <1>1, <1>2, <1>3, <1>6, ProcessNextStartsHead DEF MayProcess
  <2>2. exec' = exec
    BY <1>1, <2>1 DEF Launch, TypeOK
  <2>3. /\ q'.currentEntry = q.currentEntry /\ q'.inFlight = q.inFlight
        /\ q'.isAborted = q.isAborted /\ q'.isProcessing = q.isProcessing
        /\ q'.generation = q.generation
        /\ q'.queue = Append(q.queue, t)
    BY <1>1, <2>1 DEF pushed, TypeOK, QueueState
  <2>4. q.currentEntry # None /\ q.inFlight = q.currentEntry
        /\ genOf[q.currentEntry] = q.generation /\ q.currentEntry \in Tasks
    BY <1>0, <1>6 DEF CurrentInv, TypeOK, QueueState
  <2>5. TypeOK'
    BY <1>1, <1>2, <1>4, <1>5, <2>1, <2>2 DEF TypeOK, CallState
  <2>6. InFlightInv'
    BY <1>0, <1>1, <2>2, <2>3, <2>4 DEF InFlightInv, Live, TypeOK
  <2>7. CurrentInv'
    BY <1>0, <1>1, <1>6, <2>3, <2>4 DEF CurrentInv, TypeOK
  <2>8. CancelInv'
    BY <1>0, <1>1, <2>3 DEF CancelInv
  <2>9. QueueIsCurrent'
    BY <1>3, <2>1 DEF QueueIsCurrent
  <2>10. NoStrandedCall'
    <3> SUFFICES ASSUME NEW u \in Tasks, call'[u] = "pending"
                 PROVE  u \in Range(q'.queue) \cup {q'.currentEntry}
      BY DEF NoStrandedCall
    <3>1. Len(q.queue) \in Nat /\ q.queue \in Seq(Tasks) /\ q'.queue \in Seq(Tasks)
      BY <1>1, <2>5 DEF TypeOK, QueueState
    <3>2. CASE u = t
      <4>1. Len(q.queue) + 1 \in DOMAIN q'.queue /\ q'.queue[Len(q.queue) + 1] = t
        BY <1>2, <2>1, <3>1
      <4> QED BY <3>2, <4>1 DEF Range
    <3>3. CASE u # t
      <4>1. u \in Range(q.queue) \cup {q.currentEntry}
        BY <1>0, <1>4, <3>3 DEF NoStrandedCall, TypeOK
      <4>2. ASSUME NEW i \in DOMAIN q.queue, u = q.queue[i]
            PROVE  u \in Range(q'.queue)
        <5>1. i \in DOMAIN q'.queue /\ q'.queue[i] = u
            <6>1. i \in 1..Len(q.queue) /\ Len(q'.queue) = Len(q.queue) + 1
            BY <1>2, <2>1, <3>1
          <6>2. q'.queue[i] = u
            BY <1>2, <2>1, <4>2, <6>1
          <6> QED BY <3>1, <6>1, <6>2
        <5> QED BY <5>1 DEF Range
      <4> QED BY <2>3, <4>1, <4>2 DEF Range
    <3> QED BY <3>2, <3>3
  <2>11. Serial!Submit(t)
    BY <1>1, <1>4, <2>3 DEF Serial!Submit
  <2> QED BY <2>5, <2>6, <2>7, <2>8, <2>9, <2>10, <2>11 DEF QueueInv
<1>7. CASE ~q.isProcessing
  <2>1. /\ q.currentEntry = None /\ q.inFlight = None /\ q.queue = <<>>
        /\ \A u \in Tasks : ~Live(u)
    BY <1>0, <1>1, <1>7, NotProcessing
  <2>2. Head(pushed.queue) = t /\ Tail(pushed.queue) = <<>> /\ pushed.queue[1] = t
    BY <2>1 DEF pushed, TypeOK, QueueState
  <2>3. /\ StartsAt(pushed, genOf') = {1}
        /\ q' = [pushed EXCEPT !.queue = <<>>, !.isProcessing = TRUE,
                               !.currentEntry = t, !.inFlight = t]
    BY <1>1, <1>2, <1>3, <1>7, <2>2, ProcessNextStartsHead DEF MayProcess
  <2>4. q' = [queue |-> <<>>, currentEntry |-> t, inFlight |-> t,
              isProcessing |-> TRUE, isAborted |-> FALSE, generation |-> q.generation]
    BY <1>1, <1>2, <2>3 DEF QueueState
  <2>5. exec' = [exec EXCEPT ![t] = "running"]
    BY <1>1, <2>2, <2>3 DEF Launch, TypeOK
  <2>6. /\ q'.queue = <<>> /\ q'.currentEntry = t /\ q'.inFlight = t
        /\ q'.isProcessing /\ ~q'.isAborted /\ q'.generation = q.generation
        /\ q' \in QueueState
        /\ genOf'[t] = q.generation
        /\ \A u \in Tasks : Live(u)' <=> u = t
        /\ t # None
    <3>1. q.generation \in Nat
      BY <1>1 DEF TypeOK, QueueState
    <3>2. q' \in QueueState
      BY <2>4, <3>1 DEF QueueState
    <3>3. genOf'[t] = q.generation
      BY <1>1 DEF TypeOK
    <3>4. \A u \in Tasks : Live(u)' <=> u = t
      BY <1>1, <2>1, <2>5 DEF TypeOK, Live
    <3> QED BY <2>4, <3>2, <3>3, <3>4, ConstantsAssumption
  <2>7. TypeOK'
    <3>1. call' \in [Tasks -> CallState] /\ exec' \in [Tasks -> ExecState]
      BY <1>1, <1>4, <2>5 DEF TypeOK, CallState, ExecState
    <3> QED BY <1>1, <1>2, <1>5, <2>6, <3>1 DEF TypeOK
  <2>8. InFlightInv'
    BY <2>6 DEF InFlightInv
  <2>9. CurrentInv'
    BY <2>6 DEF CurrentInv
  <2>10. CancelInv'
    BY <1>0, <1>1, <2>6 DEF CancelInv, Quiet
  <2>11. QueueIsCurrent'
    BY <2>6 DEF QueueIsCurrent
  <2>12. NoStrandedCall'
    <3>1. Range(q.queue) = {}
      BY <2>1 DEF Range
    <3>2. \A u \in Tasks : call[u] # "pending"
      BY <1>0, <2>1, <3>1, ConstantsAssumption DEF NoStrandedCall
    <3>3. \A u \in Tasks : call'[u] = "pending" => u = t
      BY <1>0, <1>4, <3>2 DEF TypeOK
    <3> QED BY <2>6, <3>3 DEF NoStrandedCall
  <2>13. Serial!Submit(t)
    BY <1>1, <1>4, <2>1, <2>6 DEF Serial!Submit
  <2> QED BY <2>7, <2>8, <2>9, <2>10, <2>11, <2>12, <2>13 DEF QueueInv
<1> QED BY <1>1, <1>6, <1>7 DEF TypeOK, QueueState

-----------------------------------------------------------------------------
\* The end of an execution keeps the invariant: the current one hands over to
\* the head of the queue, an aborted one leaves nothing in flight.
LEMMA ExecutionEndsStep ==
    ASSUME QueueInv, NEW t \in Tasks, ExecutionEnds(t)
    PROVE  QueueInv' /\ Serial!Finish
<1> DEFINE s == AfterTask(t)
<1> DEFINE over == [exec EXCEPT ![t] = "over"]
<1> DEFINE told == [call EXCEPT ![t] = Told(t)]
<1>1. /\ TypeOK /\ InFlightInv /\ CurrentInv /\ CancelInv
      /\ QueueIsCurrent /\ NoStrandedCall
  BY DEF QueueInv
<1>2. /\ exec[t] \in {"fulfilled", "threw"}
      /\ q' = IF genOf[t] = q.generation THEN ProcessNext(s, genOf) ELSE s
      /\ call' = Reject(told, IF genOf[t] = q.generation THEN Dropped(s, genOf) ELSE {})
      /\ exec' = IF genOf[t] = q.generation THEN Launch(over, s, genOf) ELSE over
      /\ drain' = CheckDrain(q')
      /\ pc' = [c \in Cancellers |->
                  IF pc[c] = "flight" /\ flightOf[c] = t THEN "cancelled" ELSE pc[c]]
      /\ UNCHANGED <<genOf, flightOf>>
  BY DEF ExecutionEnds, Woken
<1>3. /\ q \in QueueState /\ q.queue \in Seq(Tasks) /\ q.generation \in Nat
      /\ genOf \in [Tasks -> Nat] /\ t # None
  BY <1>1, ConstantsAssumption DEF TypeOK, QueueState
<1>4. q.inFlight = t
  BY <1>1, <1>2 DEF InFlightInv, Live
<1>5. told \in [Tasks -> CallState] /\ over \in [Tasks -> ExecState]
  BY <1>1 DEF TypeOK, CallState, ExecState, Told, Outcome
<1>6. told[t] # "pending" /\ \A u \in Tasks : u # t => told[u] = call[u]
  BY <1>1 DEF TypeOK, CallState, Told, Outcome
<1>7. /\ drain' \in [Drainers -> DrainState]
      /\ pc' \in [Cancellers -> PcState]
      /\ flightOf' \in [Cancellers -> Tasks \cup {None}]
      /\ genOf' \in [Tasks -> Nat]
  BY <1>1, <1>2 DEF CheckDrain, DrainState, PcState, TypeOK
<1>8. \A u \in Tasks : exec[u] \in {"running", "fulfilled", "threw"} => u = t
  BY <1>1, <1>4 DEF InFlightInv, Live
<1>9. \A c \in Cancellers : pc[c] \notin {"cancelled", "resetting"}
  BY <1>1, <1>3, <1>4 DEF CancelInv
<1>12. /\ call[t] = "pending" =>
              \E v \in {"resolved", "rejected"} : told = [call EXCEPT ![t] = v]
       /\ call[t] # "pending" => told = call
  BY <1>1 DEF TypeOK, Told, Outcome
<1> HIDE DEF told, over
<1>10. CASE genOf[t] = q.generation
  <2>1. /\ ~q.isAborted
        /\ q.currentEntry = t
        /\ q.isProcessing
    BY <1>1, <1>3, <1>4, <1>10 DEF InFlightInv, CurrentInv
  <2>2. s = [queue |-> q.queue, currentEntry |-> None, inFlight |-> None,
             isProcessing |-> FALSE, isAborted |-> FALSE, generation |-> q.generation]
    BY <1>3, <1>10, <2>1 DEF AfterTask, QueueState
  <2>3. s \in QueueState
    BY <1>3, <2>2 DEF QueueState
  <2> HIDE DEF s
  <2>4. \A i \in 1..Len(s.queue) : genOf[s.queue[i]] = s.generation
    BY <1>1, <2>2 DEF QueueIsCurrent
  <2>5. call' = told
    <3>1. Dropped(s, genOf) = {}
      BY <1>3, <2>3, <2>4, ProcessNextStartsHead
    <3> QED BY <1>2, <1>5, <1>10, <3>1 DEF Reject
  <2>6. \A c \in Cancellers : pc'[c] \notin {"flight", "cancelled", "resetting"}
    BY <1>1, <1>2, <1>9, <2>1 DEF CancelInv, TypeOK
  <2>7. CASE q.queue = <<>>
    <3>1. q' = s /\ exec' = over
      <4>1. StartsAt(s, genOf) = {} /\ ProcessNext(s, genOf) = s
        BY <1>3, <2>2, <2>3, <2>4, <2>7, ProcessNextStartsHead
      <4> QED BY <1>2, <1>5, <1>10, <4>1 DEF Launch
    <3>2. \A u \in Tasks : ~Live(u)'
      BY <1>1, <1>8, <3>1 DEF Live, over, TypeOK
    <3>3. \A u \in Tasks : call'[u] # "pending"
      <4>1. Range(q.queue) = {}
        BY <2>7 DEF Range
      <4> QED BY <1>1, <1>6, <2>1, <2>5, <4>1 DEF NoStrandedCall
    <3>4. TypeOK'
      BY <1>5, <1>7, <2>3, <2>5, <3>1 DEF TypeOK
    <3>5. InFlightInv' /\ CurrentInv' /\ QueueIsCurrent'
      BY <2>2, <2>7, <3>1, <3>2 DEF InFlightInv, CurrentInv, QueueIsCurrent
    <3>6. Serial!Finish
      BY <1>3, <1>4, <1>12, <2>2, <2>5, <3>1 DEF Serial!Finish
    <3> QED BY <2>6, <3>3, <3>4, <3>5, <3>6 DEF QueueInv, CancelInv, NoStrandedCall
  <2>8. CASE q.queue # <<>>
    <3>0. PICK h \in Tasks : h = Head(q.queue)
      BY <1>3, <2>8
    <3>1. /\ Tail(q.queue) \in Seq(Tasks) /\ h = q.queue[1]
          /\ Len(Tail(q.queue)) = Len(q.queue) - 1 /\ Len(q.queue) \in Nat
          /\ Len(q.queue) > 0
          /\ \A i \in 1..(Len(q.queue) - 1) : Tail(q.queue)[i] = q.queue[i + 1]
      BY <1>3, <2>8, <3>0
    <3>2. /\ StartsAt(s, genOf) = {1}
          /\ q' = [queue |-> Tail(q.queue), currentEntry |-> h, inFlight |-> h,
                   isProcessing |-> TRUE, isAborted |-> FALSE,
                   generation |-> q.generation]
      <4>1. MayProcess(s) /\ s.queue # <<>>
        BY <2>2, <2>8 DEF MayProcess
      <4>2. /\ StartsAt(s, genOf) = {1}
            /\ ProcessNext(s, genOf) =
                 [s EXCEPT !.queue = Tail(s.queue), !.isProcessing = TRUE,
                           !.currentEntry = Head(s.queue), !.inFlight = Head(s.queue)]
        BY <1>3, <2>3, <2>4, <4>1, ProcessNextStartsHead
      <4>3. Tail(s.queue) = Tail(q.queue) /\ Head(s.queue) = h
        BY <2>2, <3>0
      <4> QED BY <1>2, <1>10, <2>2, <4>2, <4>3
    <3>3. exec' = [over EXCEPT ![h] = "running"]
      <4>1. \A u \in Tasks : (\E i \in StartsAt(s, genOf) : s.queue[i] = u) <=> u = h
        BY <2>2, <3>1, <3>2
      <4> QED BY <1>2, <1>5, <1>10, <4>1 DEF Launch
    <3>4. /\ q'.queue = Tail(q.queue) /\ q'.currentEntry = h /\ q'.inFlight = h
          /\ q'.isProcessing /\ ~q'.isAborted /\ q'.generation = q.generation
          /\ q' \in QueueState
          /\ h # None /\ genOf' = genOf
      <4>1. q' \in QueueState
        BY <1>3, <3>1, <3>2 DEF QueueState
      <4>2. genOf' = genOf /\ h # None
        BY <1>2, <3>0, ConstantsAssumption
      <4> QED BY <3>2, <4>1, <4>2
    <3>5. genOf[h] = q.generation
      BY <1>1, <3>1 DEF QueueIsCurrent
    <3>6. \A u \in Tasks : Live(u)' <=> u = h
      BY <1>1, <1>8, <3>1, <3>3 DEF Live, over, TypeOK
    <3>7. TypeOK'
      <4>1. exec' \in [Tasks -> ExecState]
        BY <1>5, <3>3 DEF ExecState
      <4> QED BY <1>5, <1>7, <2>5, <3>4, <4>1 DEF TypeOK
    <3>8. InFlightInv' /\ CurrentInv'
      BY <3>4, <3>5, <3>6 DEF InFlightInv, CurrentInv
    <3>9. QueueIsCurrent'
      <4>1. \A i \in 1..(Len(q.queue) - 1) : genOf[q.queue[i + 1]] = q.generation
        BY <1>1, <3>1 DEF QueueIsCurrent
      <4> QED BY <3>1, <3>4, <4>1 DEF QueueIsCurrent
    <3>10. NoStrandedCall'
      <4> SUFFICES ASSUME NEW u \in Tasks, call'[u] = "pending"
                   PROVE  u \in Range(q'.queue) \cup {q'.currentEntry}
        BY DEF NoStrandedCall
      <4>1. u \in Range(q.queue)
        BY <1>1, <1>6, <2>1, <2>5 DEF NoStrandedCall
      <4>2. PICK i \in 1..Len(q.queue) : q.queue[i] = u
        BY <1>3, <4>1 DEF Range
      <4>3. CASE i = 1
        BY <3>1, <3>4, <4>2, <4>3
      <4>4. CASE i # 1
        <5>1. (i - 1) \in 1..(Len(q.queue) - 1) /\ Tail(q.queue)[i - 1] = u
          BY <3>1, <4>2, <4>4
        <5>2. (i - 1) \in DOMAIN Tail(q.queue)
          BY <3>1, <5>1
        <5> QED BY <3>4, <5>1, <5>2 DEF Range
      <4> QED BY <4>3, <4>4
    <3>11. Serial!Finish
      BY <1>3, <1>4, <1>12, <2>5, <2>8, <3>0, <3>4 DEF Serial!Finish
    <3> QED BY <2>6, <3>7, <3>8, <3>9, <3>10, <3>11 DEF QueueInv, CancelInv
  <2> QED BY <2>7, <2>8
<1>11. CASE genOf[t] # q.generation
  <2>1. q.isAborted /\ q.currentEntry = None /\ ~q.isProcessing /\ q.queue = <<>>
    BY <1>1, <1>3, <1>4, <1>11 DEF InFlightInv, CurrentInv
  <2>2. q' = [queue |-> <<>>, currentEntry |-> None, inFlight |-> None,
              isProcessing |-> FALSE, isAborted |-> TRUE, generation |-> q.generation]
    BY <1>2, <1>3, <1>11, <2>1 DEF AfterTask, QueueState
  <2>3. call' = told /\ exec' = over
    BY <1>2, <1>5, <1>11 DEF Reject
  <2>4. \A u \in Tasks : ~Live(u)'
    BY <1>1, <1>8, <2>3 DEF Live, over, TypeOK
  <2>5. \A u \in Tasks : call'[u] # "pending"
    <3>1. Range(q.queue) = {}
      BY <2>1 DEF Range
    <3> QED BY <1>1, <1>6, <2>1, <2>3, <3>1, ConstantsAssumption DEF NoStrandedCall
  <2>6. q' \in QueueState
    BY <1>3, <2>2 DEF QueueState
  <2>7. TypeOK'
    BY <1>5, <1>7, <2>3, <2>6 DEF TypeOK
  <2>8. InFlightInv' /\ CurrentInv' /\ QueueIsCurrent'
    BY <2>2, <2>4 DEF InFlightInv, CurrentInv, QueueIsCurrent
  <2>9. CancelInv'
    <3>1. \A c \in Cancellers : pc'[c] # "flight"
      BY <1>1, <1>2, <1>4 DEF CancelInv, TypeOK
    <3> QED BY <2>2, <3>1 DEF CancelInv
  <2>10. Serial!Finish
    BY <1>3, <1>4, <1>12, <2>1, <2>2, <2>3 DEF Serial!Finish
  <2> QED BY <2>5, <2>7, <2>8, <2>9, <2>10 DEF QueueInv, NoStrandedCall
<1> QED BY <1>10, <1>11

-----------------------------------------------------------------------------
\* abort() leaves the execution in flight alone, empties the rest and rejects
\* every pending call: all of the invariant but what it says of cancellers.
LEMMA AbortStep ==
    ASSUME QueueInv,
           q' = Abort(q), call' = Reject(call, Aborted(q)),
           drain' = CheckDrain(q'), UNCHANGED <<exec, genOf>>,
           pc' \in [Cancellers -> PcState],
           flightOf' \in [Cancellers -> Tasks \cup {None}],
           CancelInv'
    PROVE  QueueInv' /\ Serial!CancelAll
<1>1. /\ TypeOK /\ InFlightInv /\ CurrentInv /\ CancelInv
      /\ QueueIsCurrent /\ NoStrandedCall
  BY DEF QueueInv
<1>2. /\ q \in QueueState /\ q.generation \in Nat
      /\ q.inFlight \in Tasks \cup {None}
      /\ genOf \in [Tasks -> Nat]
  BY <1>1 DEF TypeOK, QueueState
<1>3. q' = [queue |-> <<>>, currentEntry |-> None, inFlight |-> q.inFlight,
            isProcessing |-> FALSE, isAborted |-> TRUE,
            generation |-> q.generation + 1]
  BY <1>2 DEF Abort, QueueState
<1>4. TypeOK'
  <2>1. q' \in QueueState
    BY <1>2, <1>3 DEF QueueState
  <2>2. call' \in [Tasks -> CallState]
    BY <1>1 DEF Reject, TypeOK, CallState
  <2>3. drain' \in [Drainers -> DrainState]
    BY <1>1 DEF CheckDrain, DrainState, TypeOK
  <2> QED BY <1>1, <2>1, <2>2, <2>3 DEF TypeOK
<1>5. q.inFlight # None => genOf[q.inFlight] < q.generation + 1
  <2>1. q.inFlight # None => genOf[q.inFlight] = q.generation
                             \/ genOf[q.inFlight] < q.generation
    BY <1>1 DEF InFlightInv, CurrentInv
  <2>2. q.inFlight # None => genOf[q.inFlight] \in Nat
    BY <1>2
  <2> QED BY <1>2, <2>1, <2>2
<1>6. q'.inFlight = q.inFlight /\ genOf' = genOf /\ exec' = exec
  BY <1>3
<1>7. InFlightInv'
  <2>1. \A u \in Tasks : Live(u)' => q'.inFlight = u
    BY <1>1, <1>6 DEF InFlightInv, Live
  <2>2. q'.inFlight # None => Live(q.inFlight)'
    BY <1>1, <1>6 DEF InFlightInv, Live
  <2>3. q'.isAborted /\ q'.generation = q.generation + 1
    BY <1>3
  <2> QED BY <1>5, <1>6, <2>1, <2>2, <2>3 DEF InFlightInv
<1>8. CurrentInv' /\ QueueIsCurrent'
  BY <1>3 DEF CurrentInv, QueueIsCurrent
<1>9. call' = [u \in Tasks |-> IF call[u] = "pending" THEN "rejected" ELSE call[u]]
  BY <1>1 DEF NoStrandedCall, Reject, Aborted, TypeOK
<1>10. NoStrandedCall'
  BY <1>9 DEF NoStrandedCall
<1>11. Serial!CancelAll
  BY <1>3, <1>9 DEF Serial!CancelAll
<1> QED BY <1>4, <1>7, <1>8, <1>10, <1>11 DEF QueueInv

LEMMA CancelStep ==
    ASSUME QueueInv, NEW c \in Cancellers, Cancel(c)
    PROVE  QueueInv' /\ Serial!CancelAll
<1>1. TypeOK /\ CurrentInv /\ CancelInv /\ q \in QueueState
  BY DEF QueueInv, TypeOK
<1>2. /\ Quiet
      /\ q' = Abort(q) /\ call' = Reject(call, Aborted(q))
      /\ drain' = CheckDrain(q') /\ UNCHANGED <<exec, genOf>>
      /\ flightOf' = [flightOf EXCEPT ![c] = q.inFlight]
      /\ pc' = [pc EXCEPT ![c] = IF q.inFlight # None THEN "flight" ELSE Returned(c)]
  BY DEF Cancel, Awaits
<1>3. /\ pc' \in [Cancellers -> PcState]
      /\ flightOf' \in [Cancellers -> Tasks \cup {None}]
  BY <1>1, <1>2 DEF TypeOK, QueueState, PcState, Returned
<1>4. q'.inFlight = q.inFlight /\ q'.currentEntry = None /\ q'.isAborted
  BY <1>1, <1>2 DEF Abort, QueueState
<1>5. CancelInv'
  <2> SUFFICES ASSUME NEW d \in Cancellers
               PROVE  /\ pc'[d] = "flight" => /\ flightOf'[d] # None
                                              /\ q'.inFlight = flightOf'[d]
                                              /\ q'.isAborted
                      /\ pc'[d] \in {"cancelled", "resetting"} =>
                            q'.inFlight = None /\ q'.currentEntry = None
    BY DEF CancelInv
  <2>1. CASE d = c
    BY <1>1, <1>2, <1>4, <2>1 DEF TypeOK, Returned
  <2>2. CASE d # c
    <3>1. pc'[d] = pc[d] /\ flightOf'[d] = flightOf[d]
      BY <1>1, <1>2, <2>2 DEF TypeOK
    <3>2. pc[d] \notin {"cancelled", "resetting"}
      BY <1>2 DEF Quiet
    <3> QED BY <1>1, <1>4, <3>1, <3>2 DEF CancelInv
  <2> QED BY <2>1, <2>2
<1> QED BY <1>2, <1>3, <1>5, AbortStep

LEMMA AbortOnlyStep ==
    ASSUME QueueInv, AbortOnly
    PROVE  QueueInv' /\ Serial!CancelAll
<1>1. TypeOK /\ CancelInv /\ q \in QueueState
  BY DEF QueueInv, TypeOK
<1>2. /\ Quiet
      /\ q' = Abort(q) /\ call' = Reject(call, Aborted(q))
      /\ drain' = CheckDrain(q') /\ UNCHANGED <<exec, genOf, pc, flightOf>>
  BY DEF AbortOnly
<1>3. q'.inFlight = q.inFlight /\ q'.isAborted
  BY <1>1, <1>2 DEF Abort, QueueState
<1>4. CancelInv'
  BY <1>1, <1>2, <1>3 DEF CancelInv, Quiet
<1> QED BY <1>1, <1>2, <1>4, AbortStep DEF TypeOK

\* The assignment after the wait of cancelAndDrain changes nothing: the finally
\* block of the awaited execution has already given up the in-flight promise.
LEMMA CancelDrainedStep ==
    ASSUME QueueInv, NEW c \in Cancellers, CancelDrained(c)
    PROVE  QueueInv' /\ q' = q /\ call' = call
<1>1. /\ TypeOK /\ InFlightInv /\ CurrentInv /\ CancelInv
      /\ QueueIsCurrent /\ NoStrandedCall /\ q \in QueueState
  BY DEF QueueInv, TypeOK
<1>2. /\ pc[c] = "cancelled" /\ q' = [q EXCEPT !.inFlight = None]
      /\ pc' = [pc EXCEPT ![c] = Returned(c)]
      /\ drain' = CheckDrain(q') /\ UNCHANGED <<call, exec, genOf, flightOf>>
  BY DEF CancelDrained
<1>3. q.inFlight = None /\ q.currentEntry = None
  BY <1>1, <1>2 DEF CancelInv
<1>4. q' = q
  BY <1>1, <1>2, <1>3 DEF QueueState
<1>5. pc' \in [Cancellers -> PcState] /\ drain' \in [Drainers -> DrainState]
  BY <1>1, <1>2 DEF TypeOK, PcState, Returned, CheckDrain, DrainState
<1>6. TypeOK'
  BY <1>1, <1>2, <1>4, <1>5 DEF TypeOK
<1>7. InFlightInv' /\ CurrentInv' /\ QueueIsCurrent' /\ NoStrandedCall'
  BY <1>1, <1>2, <1>4 DEF InFlightInv, CurrentInv, QueueIsCurrent, NoStrandedCall, Live
<1>8. CancelInv'
  BY <1>1, <1>2, <1>3, <1>4 DEF CancelInv, TypeOK, Returned
<1> QED BY <1>2, <1>4, <1>6, <1>7, <1>8 DEF QueueInv

LEMMA ResetStep ==
    ASSUME QueueInv, NEW c \in Cancellers, Reset(c)
    PROVE  QueueInv' /\ UNCHANGED <<q.queue, q.inFlight, call>>
<1>1. /\ TypeOK /\ InFlightInv /\ CurrentInv /\ CancelInv
      /\ QueueIsCurrent /\ NoStrandedCall
      /\ q \in QueueState /\ q.generation \in Nat /\ q.queue \in Seq(Tasks)
  BY DEF QueueInv, TypeOK, QueueState
<1>2. /\ pc[c] = "resetting"
      /\ q' = [queue |-> <<>>, currentEntry |-> None, inFlight |-> None,
               isProcessing |-> FALSE, isAborted |-> FALSE,
               generation |-> q.generation + 1]
      /\ pc' = [pc EXCEPT ![c] = "done"]
      /\ drain' = CheckDrain(q') /\ UNCHANGED <<call, exec, genOf, flightOf>>
  BY DEF Reset
<1>3. q.inFlight = None /\ q.currentEntry = None /\ q.queue = <<>>
  BY <1>1, <1>2 DEF CancelInv, CurrentInv
<1>4. \A u \in Tasks : ~Live(u)' /\ call'[u] # "pending"
  <2>1. Range(q.queue) = {}
    BY <1>3 DEF Range
  <2> QED BY <1>1, <1>2, <1>3, <2>1, ConstantsAssumption
          DEF InFlightInv, NoStrandedCall, Live
<1>5. TypeOK'
  <2>1. q' \in QueueState
    BY <1>1, <1>2 DEF QueueState
  <2>2. pc' \in [Cancellers -> PcState] /\ drain' \in [Drainers -> DrainState]
    BY <1>1, <1>2 DEF TypeOK, PcState, CheckDrain, DrainState
  <2> QED BY <1>1, <1>2, <2>1, <2>2 DEF TypeOK
<1>6. InFlightInv' /\ CurrentInv' /\ QueueIsCurrent'
  BY <1>2, <1>4 DEF InFlightInv, CurrentInv, QueueIsCurrent
<1>7. CancelInv'
  BY <1>1, <1>2, <1>3 DEF CancelInv, TypeOK
<1> QED BY <1>2, <1>3, <1>4, <1>5, <1>6, <1>7 DEF QueueInv, NoStrandedCall

\* The steps that leave the object alone.
LEMMA OtherSteps ==
    ASSUME QueueInv,
           \/ \E t \in Tasks : TaskSettles(t) \/ RunRefused(t)
           \/ \E d \in Drainers : Drain(d)
           \/ UNCHANGED vars
    PROVE  QueueInv' /\ q' = q
<1>1. /\ TypeOK /\ InFlightInv /\ CurrentInv /\ CancelInv
      /\ QueueIsCurrent /\ NoStrandedCall
  BY DEF QueueInv
<1>2. /\ q' = q /\ genOf' = genOf /\ pc' = pc /\ flightOf' = flightOf
      /\ call' \in [Tasks -> CallState] /\ exec' \in [Tasks -> ExecState]
      /\ drain' \in [Drainers -> DrainState]
      /\ \A u \in Tasks : Live(u)' <=> Live(u)
      /\ \A u \in Tasks : call'[u] = "pending" => call[u] = "pending"
  <2>1. ASSUME NEW t \in Tasks, TaskSettles(t) PROVE <1>2!:
    BY <1>1, <2>1 DEF TaskSettles, TypeOK, ExecState, Live
  <2>2. ASSUME NEW t \in Tasks, RunRefused(t) PROVE <1>2!:
    BY <1>1, <2>2 DEF RunRefused, TypeOK, CallState, Live
  <2>3. ASSUME NEW d \in Drainers, Drain(d) PROVE <1>2!:
    BY <1>1, <2>3 DEF Drain, TypeOK, DrainState, Live
  <2>4. ASSUME UNCHANGED vars PROVE <1>2!:
    BY <1>1, <2>4 DEF vars, TypeOK, Live
  <2> QED BY <2>1, <2>2, <2>3, <2>4
<1>3. q.inFlight # None => q.inFlight \in Tasks
  BY <1>1 DEF TypeOK, QueueState
<1>4. InFlightInv'
  BY <1>1, <1>2, <1>3 DEF InFlightInv
<1>5. TypeOK' /\ CurrentInv' /\ CancelInv' /\ QueueIsCurrent' /\ NoStrandedCall'
  BY <1>1, <1>2 DEF TypeOK, CurrentInv, CancelInv, QueueIsCurrent, NoStrandedCall
<1> QED BY <1>2, <1>4, <1>5 DEF QueueInv

LEMMA InitInv == Init => QueueInv
<1> SUFFICES ASSUME Init PROVE QueueInv
  OBVIOUS
<1>1. TypeOK
  BY DEF Init, TypeOK, QueueState, CallState, ExecState, PcState, DrainState
<1>2. InFlightInv /\ CurrentInv /\ CancelInv /\ QueueIsCurrent /\ NoStrandedCall
  BY DEF Init, InFlightInv, CurrentInv, CancelInv, QueueIsCurrent, NoStrandedCall, Live
<1> QED BY <1>1, <1>2 DEF QueueInv

\* Every step keeps the invariant and is a step of SerialQueue, or invisible.
LEMMA NextStep ==
    ASSUME QueueInv, [Next]_vars
    PROVE  QueueInv' /\ [Serial!Next]_<<q.queue, q.inFlight, call>>
<1>1. ASSUME NEW t \in Tasks, Run(t) PROVE QueueInv' /\ Serial!Next
  BY <1>1, RunStep DEF Serial!Next
<1>2. ASSUME NEW t \in Tasks, ExecutionEnds(t) PROVE QueueInv' /\ Serial!Next
  BY <1>2, ExecutionEndsStep DEF Serial!Next
<1>3. ASSUME NEW c \in Cancellers, Cancel(c) PROVE QueueInv' /\ Serial!Next
  BY <1>3, CancelStep DEF Serial!Next
<1>4. ASSUME AbortOnly PROVE QueueInv' /\ Serial!Next
  BY <1>4, AbortOnlyStep DEF Serial!Next
<1>5. ASSUME NEW c \in Cancellers, Resume(c)
      PROVE  QueueInv' /\ UNCHANGED <<q.queue, q.inFlight, call>>
  BY <1>5, CancelDrainedStep, ResetStep DEF Resume
<1>6. ASSUME NEW t \in Tasks, RunRefused(t) PROVE QueueInv' /\ Serial!Next
  <2>1. QueueInv' /\ q' = q
    BY <1>6, OtherSteps
  <2>2. Serial!Refuse(t)
    BY <1>6, <2>1 DEF RunRefused, Serial!Refuse
  <2> QED BY <2>1, <2>2 DEF Serial!Next
<1>7. ASSUME \/ \E t \in Tasks : TaskSettles(t)
             \/ \E d \in Drainers : Drain(d)
             \/ UNCHANGED vars
      PROVE  QueueInv' /\ UNCHANGED <<q.queue, q.inFlight, call>>
  BY <1>7, OtherSteps DEF TaskSettles, Drain, vars
<1> QED BY <1>1, <1>2, <1>3, <1>4, <1>5, <1>6, <1>7 DEF Next, Progress
-----------------------------------------------------------------------------
\* The inductive invariant holds in every reachable state.
THEOREM Inductive == Spec => []QueueInv
<1>1. QueueInv /\ [Next]_vars => QueueInv'
  BY NextStep
<1> QED BY InitInv, <1>1, PTL DEF Spec

THEOREM TypeCorrect == Spec => []TypeOK
<1>1. QueueInv => TypeOK
  BY DEF QueueInv
<1> QED BY Inductive, <1>1, PTL

\* At most one task body is executing, whatever is aborted or reset meanwhile.
THEOREM MutualExclusion == Spec => []OneTaskAtATime
<1>1. QueueInv => OneTaskAtATime
  BY DEF QueueInv, InFlightInv, OneTaskAtATime
<1> QED BY Inductive, <1>1, PTL

\* Every pending promise of run() belongs to an entry the queue still holds.
THEOREM PendingIsReachable == Spec => []NoStrandedCall
<1>1. QueueInv => NoStrandedCall
  BY DEF QueueInv
<1> QED BY Inductive, <1>1, PTL

\* The stale branch of processNext is never taken: queued entries are current.
THEOREM NothingStaleQueued == Spec => []QueueIsCurrent
<1>1. QueueInv => QueueIsCurrent
  BY DEF QueueInv
<1> QED BY Inductive, <1>1, PTL

\* A queue with entries always has the task in flight that will wake it.
THEOREM WorkIsAwaited == Spec => []NoLostWakeup
<1>1. QueueInv => NoLostWakeup
  BY DEF QueueInv, TypeOK, QueueState, InFlightInv, CurrentInv, NoLostWakeup
<1> QED BY Inductive, <1>1, PTL

\* The class implements SerialQueue.
THEOREM Refinement == Spec => ServesSerially
<1>1. Init => Serial!Init
  BY DEF Init, Serial!Init
<1>2. QueueInv /\ [Next]_vars => [Serial!Next]_<<q.queue, q.inFlight, call>>
  BY NextStep
<1> QED BY <1>1, <1>2, Inductive, PTL DEF Spec, ServesSerially, Serial!Spec, Serial!svars

-----------------------------------------------------------------------------
\* A drain() listener that waits is woken by the step that makes the queue idle.
THEOREM DrainIsNotForgotten == Spec => []NoForgottenDrain
<1>1. Init => NoForgottenDrain
  BY DEF Init, NoForgottenDrain
<1>2. ASSUME NoForgottenDrain, QueueInv, [Next]_vars PROVE NoForgottenDrain'
  <2>1. ASSUME drain' = CheckDrain(q') PROVE NoForgottenDrain'
    BY <2>1 DEF CheckDrain, NoForgottenDrain
  <2>2. ASSUME UNCHANGED <<q, drain>> PROVE NoForgottenDrain'
    BY <1>2, <2>2 DEF NoForgottenDrain
  <2>3. ASSUME NEW d \in Drainers, Drain(d) PROVE NoForgottenDrain'
    <3>1. q' = q /\ drain' = [drain EXCEPT ![d] = IF Idle(q) THEN "done" ELSE "waiting"]
      BY <2>3 DEF Drain
    <3>2. drain \in [Drainers -> DrainState]
      BY <1>2 DEF QueueInv, TypeOK
    <3> QED BY <1>2, <3>1, <3>2 DEF NoForgottenDrain
  <2> QED BY <1>2, <2>1, <2>2, <2>3
          DEF Next, vars, Run, RunRefused, Progress, TaskSettles, ExecutionEnds,
              Cancel, Resume, CancelDrained, Reset, AbortOnly
<1> QED BY Inductive, <1>1, <1>2, PTL DEF Spec

\* A settled promise never settles again: it is so of every step of SerialQueue.
THEOREM SettlesOnce == Spec => SettledOnce
<1>1. ASSUME QueueInv, [Next]_vars
      PROVE  [\A t \in Tasks : Settled(t) => call'[t] = call[t]]_vars
  <2>1. QueueInv' /\ [Serial!Next]_<<q.queue, q.inFlight, call>>
    BY <1>1, NextStep
  <2>2. call \in [Tasks -> CallState]
    BY <1>1 DEF QueueInv, TypeOK
  <2>3. ASSUME Serial!Finish PROVE \A t \in Tasks : Settled(t) => call'[t] = call[t]
    BY <2>2, <2>3 DEF Serial!Finish, Settled
  <2>4. ASSUME Serial!CancelAll PROVE \A t \in Tasks : Settled(t) => call'[t] = call[t]
    BY <2>2, <2>4 DEF Serial!CancelAll, Settled
  <2>5. ASSUME NEW u \in Tasks, Serial!Refuse(u) \/ Serial!Submit(u)
        PROVE  \A t \in Tasks : Settled(t) => call'[t] = call[t]
    BY <2>2, <2>5 DEF Serial!Refuse, Serial!Submit, Settled
  <2> QED BY <2>1, <2>3, <2>4, <2>5 DEF Serial!Next
<1> QED BY Inductive, <1>1, PTL DEF Spec, SettledOnce

\* The promise of cancelAndDrain() or reset() resolves over a queue in which no
\* task is executing.
THEOREM CancelDrains == Spec => CancelReturnsDrained
<1>1. ASSUME QueueInv, [Next]_vars
      PROVE  [\A c \in Cancellers : pc[c] # "done" /\ pc'[c] = "done"
                 => \A t \in Tasks : ~Live(t)']_vars
  <2> SUFFICES ASSUME NEW c \in Cancellers, pc[c] # "done", pc'[c] = "done"
               PROVE  \A t \in Tasks : ~Live(t)'
    OBVIOUS
  <2>1. QueueInv' /\ TypeOK /\ CancelInv
    BY <1>1, NextStep DEF QueueInv
  <2>2. PICK d \in Cancellers : Cancel(d) \/ CancelDrained(d) \/ Reset(d)
    <3>1. pc' # pc
      OBVIOUS
    <3>2. ASSUME NEW t \in Tasks, ExecutionEnds(t) PROVE FALSE
      BY <2>1, <3>2 DEF ExecutionEnds, Woken, TypeOK
    <3> QED BY <1>1, <3>1, <3>2
            DEF Next, vars, Run, RunRefused, Progress, TaskSettles, Resume, Drain, AbortOnly
  <2>3. q'.inFlight = None
    <3>1. CASE Cancel(d)
      <4>1. q.inFlight = None
        BY <2>1, <3>1 DEF Cancel, Awaits, TypeOK
      <4> QED BY <2>1, <3>1, <4>1 DEF Cancel, Abort, TypeOK, QueueState
    <3>2. CASE CancelDrained(d)
      BY <2>1, <3>2 DEF CancelDrained, TypeOK, QueueState
    <3>3. CASE Reset(d)
      BY <3>3 DEF Reset
    <3> QED BY <2>2, <3>1, <3>2, <3>3
  <2> QED BY <2>1, <2>3, ConstantsAssumption DEF QueueInv, InFlightInv
<1> QED BY Inductive, <1>1, PTL DEF Spec, CancelReturnsDrained

-----------------------------------------------------------------------------
(* ChromeController around the queue.                                      *)
(*                                                                         *)
(* As long as no task has asked for a recovery itself, its steps are steps *)
(* of the queue; after that only the types and the bookkeeping of the      *)
(* recovery remain.                                                        *)

\* No observing task has run its synchronous part.
NoneBegun == \A o \in Observing : ~begun[o]

\* The reset of a recovery is suspended exactly while the recovery waits for it,
\* so that a second recovery never calls reset() again on the first one's heels.
RecoveryAwaitsReset ==
    recovery = "resetting" <=> pc[Recoverer] \in {"flight", "cancelled", "resetting"}

ControllerInv ==
    /\ ControllerTypeOK
    /\ RecoveryAwaitsReset
    /\ NobodyWaitsInVain
    /\ NoneBegun => QueueInv

\* Whatever entries are queued, processNext leaves the object in its type,
LEMMA ProcessNextTyped ==
    ASSUME NEW s \in QueueState, NEW gen
    PROVE  ProcessNext(s, gen) \in QueueState
<1>1. /\ s.queue \in Seq(Tasks) /\ s.generation \in Nat /\ s.isAborted \in BOOLEAN
      /\ s.currentEntry \in Tasks \cup {None} /\ s.inFlight \in Tasks \cup {None}
      /\ s.isProcessing \in BOOLEAN
  BY DEF QueueState
<1>2. CASE ~MayProcess(s)
  BY <1>2 DEF ProcessNext
<1>3. CASE MayProcess(s) /\ StartsAt(s, gen) = {}
  <2>1. <<>> \in Seq(Tasks)
    OBVIOUS
  <2>2. ProcessNext(s, gen) = [s EXCEPT !.queue = <<>>]
    BY <1>3 DEF ProcessNext
  <2> QED  BY <2>1, <2>2 DEF QueueState
<1>4. CASE MayProcess(s) /\ StartsAt(s, gen) # {}
  <2> DEFINE i == CHOOSE i \in StartsAt(s, gen) : TRUE
  <2>1. i \in 1..Len(s.queue)
    BY <1>4 DEF StartsAt
  <2>2. ProcessNext(s, gen) =
          [s EXCEPT !.queue = SubSeq(s.queue, i + 1, Len(s.queue)), !.isProcessing = TRUE,
                    !.currentEntry = s.queue[i], !.inFlight = s.queue[i]]
    BY <1>4 DEF ProcessNext
  <2> HIDE DEF i
  <2>3. s.queue[i] \in Tasks /\ SubSeq(s.queue, i + 1, Len(s.queue)) \in Seq(Tasks)
    BY <1>1, <2>1
  <2> QED  BY <1>1, <2>2, <2>3 DEF QueueState
<1> QED  BY <1>2, <1>3, <1>4

\* and the promises in theirs.
LEMMA PromisesTyped ==
    ASSUME TypeOK, NEW s, NEW gen, NEW S
    PROVE  /\ \A e \in [Tasks -> ExecState] : Launch(e, s, gen) \in [Tasks -> ExecState]
           /\ \A c \in [Tasks -> CallState] : Reject(c, S) \in [Tasks -> CallState]
           /\ CheckDrain(s) \in [Drainers -> DrainState]
  BY DEF Launch, Reject, CheckDrain, TypeOK, ExecState, CallState, DrainState

\* An abort leaves the object in its type.
LEMMA AbortTyped ==
    ASSUME TypeOK
    PROVE  Abort(q) \in QueueState /\ q.inFlight \in Tasks \cup {None}
<1>1. <<>> \in Seq(Tasks) /\ q \in QueueState /\ q.generation + 1 \in Nat
  BY DEF TypeOK, QueueState
<1>2. Abort(q) \in QueueState
  BY <1>1 DEF Abort, QueueState
<1> QED  BY <1>1, <1>2 DEF QueueState

\* So every step of the queue is type-correct, even beside tasks it has forgotten.
LEMMA QueueTyped ==
    ASSUME TypeOK, [Next]_vars
    PROVE  TypeOK'
<1>0. /\ q \in QueueState /\ q.generation \in Nat /\ q.queue \in Seq(Tasks)
      /\ call \in [Tasks -> CallState] /\ exec \in [Tasks -> ExecState]
      /\ genOf \in [Tasks -> Nat] /\ pc \in [Cancellers -> PcState]
      /\ flightOf \in [Cancellers -> Tasks \cup {None}] /\ drain \in [Drainers -> DrainState]
      /\ \A c \in Cancellers : Returned(c) \in PcState /\ Awaits(c) \in PcState
      /\ "pending" \in CallState /\ "rejected" \in CallState /\ "over" \in ExecState
  BY DEF TypeOK, QueueState, Returned, Awaits, PcState, CallState, ExecState
<1>1. ASSUME NEW t \in Tasks, Run(t)  PROVE TypeOK'
  <2> DEFINE pushed == [q EXCEPT !.queue = Append(@, t)]
             asked  == [call EXCEPT ![t] = "pending"]
  <2>1. /\ genOf' = [genOf EXCEPT ![t] = q.generation] /\ q' = ProcessNext(pushed, genOf')
        /\ call' = Reject(asked, Dropped(pushed, genOf')) /\ exec' = Launch(exec, pushed, genOf')
        /\ drain' = CheckDrain(q') /\ UNCHANGED <<pc, flightOf>>
    BY <1>1 DEF Run
  <2>2. pushed \in QueueState /\ asked \in [Tasks -> CallState] /\ genOf' \in [Tasks -> Nat]
    <3>1. Append(q.queue, t) \in Seq(Tasks)
      BY <1>0
    <3>2. pushed \in QueueState
      BY <1>0, <3>1 DEF QueueState
    <3> QED  BY <1>0, <2>1, <3>2
  <2> HIDE DEF pushed, asked
  <2>3. q' \in QueueState
    BY <2>1, <2>2, ProcessNextTyped
  <2>4. call' \in [Tasks -> CallState] /\ exec' \in [Tasks -> ExecState] /\ drain' \in [Drainers -> DrainState]
    BY <1>0, <2>1, <2>2, PromisesTyped
  <2> QED  BY <1>0, <2>1, <2>2, <2>3, <2>4 DEF TypeOK
<1>2. ASSUME NEW t \in Tasks, ExecutionEnds(t)  PROVE TypeOK'
  <2> DEFINE s    == AfterTask(t)
             over == [exec EXCEPT ![t] = "over"]
             told == [call EXCEPT ![t] = Told(t)]
             gone == IF genOf[t] = q.generation THEN Dropped(s, genOf) ELSE {}
  <2>1. /\ q' = IF genOf[t] = q.generation THEN ProcessNext(s, genOf) ELSE s
        /\ call' = Reject(told, gone)
        /\ exec' = IF genOf[t] = q.generation THEN Launch(over, s, genOf) ELSE over
        /\ drain' = CheckDrain(q') /\ pc' = Woken(t) /\ UNCHANGED <<genOf, flightOf>>
    BY <1>2 DEF ExecutionEnds
  <2>2. s \in QueueState /\ over \in [Tasks -> ExecState]
    BY <1>0 DEF QueueState, AfterTask
  <2>3. told \in [Tasks -> CallState]
    <3>1. Told(t) \in CallState
      BY <1>0 DEF Told, Outcome, CallState
    <3> QED  BY <1>0, <3>1
  <2>4. Woken(t) \in [Cancellers -> PcState]
    BY <1>0 DEF Woken, PcState
  <2> HIDE DEF s, over, told, gone
  <2>5. q' \in QueueState
    BY <2>1, <2>2, ProcessNextTyped
  <2>6. call' \in [Tasks -> CallState] /\ exec' \in [Tasks -> ExecState] /\ drain' \in [Drainers -> DrainState]
    BY <2>1, <2>2, <2>3, PromisesTyped
  <2> QED  BY <1>0, <2>1, <2>4, <2>5, <2>6 DEF TypeOK
<1>3. ASSUME NEW t \in Tasks, RunRefused(t) \/ TaskSettles(t)  PROVE TypeOK'
  BY <1>0, <1>3 DEF RunRefused, TaskSettles, TypeOK, ExecState
<1>4. ASSUME NEW c \in Cancellers, Cancel(c)  PROVE TypeOK'
  <2>1. /\ q' = Abort(q) /\ call' = Reject(call, Aborted(q)) /\ drain' = CheckDrain(q')
        /\ flightOf' = [flightOf EXCEPT ![c] = q.inFlight] /\ pc' = [pc EXCEPT ![c] = Awaits(c)]
        /\ UNCHANGED <<exec, genOf>>
    BY <1>4 DEF Cancel
  <2> QED  BY <1>0, <2>1, AbortTyped, PromisesTyped DEF TypeOK
<1>5. CASE AbortOnly
  <2>1. /\ q' = Abort(q) /\ call' = Reject(call, Aborted(q)) /\ drain' = CheckDrain(q')
        /\ UNCHANGED <<exec, genOf, pc, flightOf>>
    BY <1>5 DEF AbortOnly
  <2> QED  BY <1>0, <2>1, AbortTyped, PromisesTyped DEF TypeOK
<1>6. ASSUME NEW c \in Cancellers, CancelDrained(c)  PROVE TypeOK'
  <2>1. /\ q' = [q EXCEPT !.inFlight = None] /\ pc' = [pc EXCEPT ![c] = Returned(c)]
        /\ drain' = CheckDrain(q') /\ UNCHANGED <<call, exec, genOf, flightOf>>
    BY <1>6 DEF CancelDrained
  <2>2. q' \in QueueState
    BY <1>0, <2>1 DEF QueueState
  <2> QED  BY <1>0, <2>1, <2>2, PromisesTyped DEF TypeOK
<1>7. ASSUME NEW c \in Cancellers, Reset(c)  PROVE TypeOK'
  <2>1. /\ q' = [queue |-> <<>>, currentEntry |-> None, inFlight |-> None,
                 isProcessing |-> FALSE, isAborted |-> FALSE, generation |-> q.generation + 1]
        /\ pc' = [pc EXCEPT ![c] = "done"]
        /\ drain' = CheckDrain(q') /\ UNCHANGED <<call, exec, genOf, flightOf>>
    BY <1>7 DEF Reset
  <2>2. q' \in QueueState /\ pc' \in [Cancellers -> PcState]
    BY <1>0, <2>1 DEF QueueState, PcState
  <2> QED  BY <1>0, <2>1, <2>2, PromisesTyped DEF TypeOK
<1>8. ASSUME NEW d \in Drainers, Drain(d)  PROVE TypeOK'
  BY <1>0, <1>8 DEF Drain, TypeOK, DrainState
<1>9. CASE UNCHANGED vars
  BY <1>9 DEF vars, TypeOK
<1> QED  BY <1>1, <1>2, <1>3, <1>4, <1>5, <1>6, <1>7, <1>8, <1>9 DEF Next, Progress, Resume

-----------------------------------------------------------------------------
\* The controller moves the queue by the queue's own steps, except for what
\* stop() does once it has drained and what a task begins by itself.
LEMMA QueueMoves ==
    ASSUME [ControllerNext]_allVars
    PROVE  \/ [Next]_vars /\ UNCHANGED begun
           \/ \E c \in Stoppers : StopDetaches(c)
           \/ \E t \in Tasks : EnsureInTask(t)
<1>0. Recoverer \in Cancellers /\ Stoppers \subseteq Cancellers
  BY ConstantsAssumption, ControllerAssumption DEF Stoppers
<1>1. CASE SessionCloses
  BY <1>0, <1>1 DEF SessionCloses, BeginRecovery, Next
<1>2. CASE RecoveryQueueReset
  BY <1>0, <1>2 DEF RecoveryQueueReset, Next, Resume
<1>3. ASSUME NEW ok \in BOOLEAN, RecoveryEnds(ok)
      PROVE  [Next]_vars /\ UNCHANGED begun
  BY <1>3 DEF RecoveryEnds
<1>4. ASSUME NEW t \in Tasks, ApiCall(t)
      PROVE  [Next]_vars /\ UNCHANGED begun
  BY <1>0, <1>4 DEF ApiCall, BeginRecovery, Next
<1>5. ASSUME NEW t \in Tasks, Submit(t)
      PROVE  [Next]_vars /\ UNCHANGED begun
  BY <1>5 DEF Submit, Next
<1>6. ASSUME NEW t \in Tasks, TaskDetaches(t) \/ TaskAttaches(t)
      PROVE  [Next]_vars /\ UNCHANGED begun
  BY <1>6 DEF TaskDetaches, TaskAttaches
<1>7. ASSUME NEW t \in Tasks, TaskProgress(t)
      PROVE  [Next]_vars /\ UNCHANGED begun
  BY <1>7 DEF TaskProgress, ctl, Next
<1>8. ASSUME NEW c \in Stoppers, Stop(c)
      PROVE  [Next]_vars /\ UNCHANGED begun
  BY <1>0, <1>8 DEF Stop, ctl, Next
<1>9. ASSUME NEW c \in Cancellers, CancelContinues(c)
      PROVE  [Next]_vars /\ UNCHANGED begun
  BY <1>9 DEF CancelContinues, ctl, Next, Resume
<1>10. CASE UNCHANGED allVars
  BY <1>10 DEF allVars, ctl
<1> QED
  BY <1>1, <1>2, <1>3, <1>4, <1>5, <1>6, <1>7, <1>8, <1>9, <1>10 DEF ControllerNext

\* The types of the queue survive the two other steps as well.
LEMMA QueueTypedBeside ==
    ASSUME TypeOK, [ControllerNext]_allVars
    PROVE  TypeOK'
<1>0. Recoverer \in Cancellers /\ None \in Tasks \cup {None}
  BY ConstantsAssumption, ControllerAssumption
<1>1. CASE [Next]_vars
  BY <1>1, QueueTyped
<1>2. ASSUME NEW c \in Stoppers, StopDetaches(c)  PROVE TypeOK'
  BY <1>2 DEF StopDetaches, TypeOK, PcState
<1>3. ASSUME NEW t \in Tasks, EnsureInTask(t)  PROVE TypeOK'
  <2>1. CASE UNCHANGED vars
    BY <2>1 DEF vars, TypeOK
  <2>2. CASE /\ q' = Abort(q) /\ call' = Reject(call, Aborted(q))
             /\ flightOf' = [flightOf EXCEPT ![Recoverer] = None]
             /\ pc' = [pc EXCEPT ![Recoverer] = "resetting"]
             /\ drain' = CheckDrain([Abort(q) EXCEPT !.inFlight = None])
             /\ UNCHANGED <<exec, genOf>>
    <3>1. pc' \in [Cancellers -> PcState]
      BY <1>0, <2>2 DEF TypeOK, PcState
    <3> QED  BY <1>0, <2>2, <3>1, AbortTyped, PromisesTyped DEF TypeOK
  <2> QED  BY <1>3, <2>1, <2>2 DEF EnsureInTask
<1> QED  BY <1>1, <1>2, <1>3, QueueMoves

\* As long as no task has begun a recovery, the queue under the controller is the
\* queue by itself: stop() may forget a drained canceller, nothing depends on him.
LEMMA QueueInvBeside ==
    ASSUME begun \in [Tasks -> BOOLEAN], NoneBegun => QueueInv, [ControllerNext]_allVars
    PROVE  (NoneBegun => QueueInv)'
<1> SUFFICES ASSUME NoneBegun'  PROVE QueueInv'
  OBVIOUS
<1>1. CASE [Next]_vars /\ UNCHANGED begun
  <2>1. QueueInv
    BY <1>1 DEF NoneBegun
  <2> QED  BY <1>1, <2>1, NextStep
<1>2. ASSUME NEW c \in Stoppers, StopDetaches(c)  PROVE QueueInv'
  <2>1. /\ UNCHANGED <<q, call, exec, genOf, flightOf, drain, begun>>
        /\ pc' = [pc EXCEPT ![c] = "idle"]
    BY <1>2 DEF StopDetaches
  <2>2. QueueInv
    BY <2>1 DEF NoneBegun
  <2>3. TypeOK' /\ CancelInv'
    BY <2>1, <2>2 DEF QueueInv, TypeOK, PcState, CancelInv
  <2> QED
    BY <2>1, <2>2, <2>3
    DEF QueueInv, InFlightInv, CurrentInv, QueueIsCurrent, NoStrandedCall, Live
<1>3. ASSUME NEW t \in Tasks, EnsureInTask(t)
      PROVE  FALSE
  BY <1>3 DEF EnsureInTask, Starting, NoneBegun
<1> QED  BY <1>1, <1>2, <1>3, QueueMoves

-----------------------------------------------------------------------------
\* The recovery is bound to its reset: each kind of step that moves one of them
\* says what it does to the other.
LEMMA CancelBeginsReset ==
    ASSUME TypeOK, Cancel(Recoverer)
    PROVE  pc'[Recoverer] \in {"flight", "resetting"}
<1>1. Recoverer \in Cancellers /\ Recoverer \in Resetters
  BY ConstantsAssumption, ControllerAssumption
<1> QED  BY <1>1 DEF Cancel, Awaits, Returned, TypeOK

LEMMA ResetAwaited ==
    ASSUME ControllerTypeOK, RecoveryAwaitsReset, [ControllerNext]_allVars
    PROVE  RecoveryAwaitsReset'
<1>0. /\ Recoverer \in Cancellers /\ Recoverer \in Resetters /\ Recoverer \notin Stoppers
      /\ TypeOK /\ pc \in [Cancellers -> PcState]
  BY ConstantsAssumption, ControllerAssumption DEF Stoppers, ControllerTypeOK, TypeOK
<1> DEFINE W == {"flight", "cancelled", "resetting"}
<1>1. ASSUME BeginRecovery  PROVE RecoveryAwaitsReset'
  BY <1>0, <1>1, CancelBeginsReset DEF BeginRecovery, RecoveryAwaitsReset
<1>2. ASSUME recovery' = recovery, pc'[Recoverer] \in W <=> pc[Recoverer] \in W
      PROVE  RecoveryAwaitsReset'
  BY <1>2 DEF RecoveryAwaitsReset
<1>3. CASE SessionCloses
  BY <1>1, <1>2, <1>3 DEF SessionCloses, vars
<1>4. CASE RecoveryQueueReset
  BY <1>0, <1>4 DEF RecoveryQueueReset, Reset, RecoveryAwaitsReset
<1>5. ASSUME NEW ok \in BOOLEAN, RecoveryEnds(ok)  PROVE RecoveryAwaitsReset'
  BY <1>5 DEF RecoveryEnds, vars, RecoveryAwaitsReset
<1>6. ASSUME NEW t \in Tasks, ApiCall(t)  PROVE RecoveryAwaitsReset'
  BY <1>1, <1>2, <1>6 DEF ApiCall, vars
<1>7. ASSUME NEW t \in Tasks, Submit(t) \/ TaskDetaches(t) \/ TaskAttaches(t)
      PROVE  RecoveryAwaitsReset'
  BY <1>2, <1>7 DEF Submit, Run, RunRefused, TaskDetaches, TaskAttaches, vars
<1>8. ASSUME NEW t \in Tasks, TaskProgress(t)  PROVE RecoveryAwaitsReset'
  <2>1. CASE TaskSettles(t)
    BY <1>2, <1>8, <2>1 DEF TaskProgress, ctl, TaskSettles
  <2>2. CASE ExecutionEnds(t)
    <3>1. recovery' = recovery /\ pc' = Woken(t)
      BY <1>8, <2>2 DEF TaskProgress, ctl, ExecutionEnds
    <3>2. pc'[Recoverer] \in W <=> pc[Recoverer] \in W
      BY <1>0, <3>1 DEF Woken
    <3> QED  BY <1>2, <3>1, <3>2
  <2> QED  BY <1>8, <2>1, <2>2 DEF TaskProgress, Progress
<1>9. ASSUME NEW c \in Stoppers, Stop(c) \/ StopDetaches(c)  PROVE RecoveryAwaitsReset'
  <2>1. recovery' = recovery /\ pc'[Recoverer] = pc[Recoverer]
    BY <1>0, <1>9 DEF Stop, Cancel, StopDetaches, ctl
  <2> QED  BY <1>2, <2>1
<1>10. ASSUME NEW c \in Cancellers, CancelContinues(c)  PROVE RecoveryAwaitsReset'
  <2>1. recovery' = recovery /\ pc[c] = "cancelled" /\ pc' = [pc EXCEPT ![c] = Returned(c)]
    BY <1>10 DEF CancelContinues, CancelDrained, ctl
  <2>2. CASE c = Recoverer
    BY <1>0, <1>2, <2>1, <2>2 DEF Returned
  <2>3. CASE c # Recoverer
    BY <1>0, <1>2, <2>1, <2>3
  <2> QED  BY <2>2, <2>3
<1>11. ASSUME NEW t \in Tasks, EnsureInTask(t)  PROVE RecoveryAwaitsReset'
  BY <1>0, <1>2, <1>11 DEF EnsureInTask, vars, RecoveryAwaitsReset
<1>12. CASE UNCHANGED allVars
  BY <1>2, <1>12 DEF allVars, vars, ctl
<1> QED
  BY <1>3, <1>4, <1>5, <1>6, <1>7, <1>8, <1>9, <1>10, <1>11, <1>12 DEF ControllerNext

\* Nobody begins to wait while no recovery is in progress, and the end of one
\* sends everybody on.
LEMMA WaitersAwaitRecovery ==
    ASSUME ControllerTypeOK, NobodyWaitsInVain, [ControllerNext]_allVars
    PROVE  NobodyWaitsInVain'
<1>0. /\ api \in [Tasks -> {"new", "recovering", "ready", "submitted", "failed"}]
      /\ ensuring \in [Tasks -> BOOLEAN]
  BY DEF ControllerTypeOK
<1>1. ASSUME recovery' # "none"  PROVE NobodyWaitsInVain'
  BY <1>1 DEF NobodyWaitsInVain
<1>2. ASSUME recovery' = recovery,
             \A t \in Tasks : (api'[t] = "recovering" => api[t] = "recovering")
                              /\ (ensuring'[t] => ensuring[t])
      PROVE  NobodyWaitsInVain'
  BY <1>2 DEF NobodyWaitsInVain
<1>3. CASE SessionCloses
  BY <1>1, <1>2, <1>3 DEF SessionCloses, BeginRecovery
<1>4. CASE RecoveryQueueReset
  BY <1>1, <1>4 DEF RecoveryQueueReset
<1>5. ASSUME NEW ok \in BOOLEAN, RecoveryEnds(ok)  PROVE NobodyWaitsInVain'
  <2>1. \A t \in Tasks : api'[t] # "recovering" /\ ~ensuring'[t]
    BY <1>0, <1>5 DEF RecoveryEnds
  <2> QED  BY <2>1 DEF NobodyWaitsInVain
<1>6. ASSUME NEW t \in Tasks, ApiCall(t)  PROVE NobodyWaitsInVain'
  <2>1. CASE recovery' # "none"
    BY <1>1, <2>1
  <2>2. CASE recovery' = "none"
    <3>1. recovery' = recovery /\ api' = [api EXCEPT ![t] = "ready"] /\ ensuring' = ensuring
      BY <1>6, <2>2 DEF ApiCall, BeginRecovery
    <3> QED  BY <1>0, <1>2, <3>1
  <2> QED  BY <2>1, <2>2
<1>7. ASSUME NEW t \in Tasks, Submit(t)  PROVE NobodyWaitsInVain'
  BY <1>0, <1>2, <1>7 DEF Submit
<1>8. ASSUME NEW t \in Tasks, TaskDetaches(t) \/ TaskAttaches(t) \/ TaskProgress(t)
      PROVE  NobodyWaitsInVain'
  BY <1>2, <1>8 DEF TaskDetaches, TaskAttaches, TaskProgress, ctl
<1>9. ASSUME NEW c \in Stoppers, Stop(c) \/ StopDetaches(c)  PROVE NobodyWaitsInVain'
  BY <1>2, <1>9 DEF Stop, StopDetaches, ctl
<1>10. ASSUME NEW c \in Cancellers, CancelContinues(c)  PROVE NobodyWaitsInVain'
  BY <1>2, <1>10 DEF CancelContinues, ctl
<1>11. ASSUME NEW t \in Tasks, EnsureInTask(t)  PROVE NobodyWaitsInVain'
  BY <1>0, <1>1, <1>2, <1>11 DEF EnsureInTask
<1>12. CASE UNCHANGED allVars
  BY <1>2, <1>12 DEF allVars, ctl
<1> QED
  BY <1>3, <1>4, <1>5, <1>6, <1>7, <1>8, <1>9, <1>10, <1>11, <1>12 DEF ControllerNext

\* The fields of the controller keep their types.
LEMMA ControllerTyped ==
    ASSUME ControllerTypeOK, [ControllerNext]_allVars
    PROVE  ControllerTypeOK'
<1>0. /\ TypeOK /\ hasSession \in BOOLEAN
      /\ recovery \in {"none", "resetting", "attaching"}
      /\ api \in [Tasks -> {"new", "recovering", "ready", "submitted", "failed"}]
      /\ begun \in [Tasks -> BOOLEAN] /\ ensuring \in [Tasks -> BOOLEAN]
  BY DEF ControllerTypeOK
<1>1. TypeOK'
  BY <1>0, QueueTypedBeside
<1>2. hasSession' \in BOOLEAN
  BY <1>0 DEF ControllerNext, SessionCloses, RecoveryQueueReset, RecoveryEnds, ApiCall, Submit,
              EnsureInTask, TaskDetaches, TaskAttaches, TaskProgress, Stop, StopDetaches,
              CancelContinues, allVars, ctl
<1>3. recovery' \in {"none", "resetting", "attaching"}
  BY <1>0 DEF ControllerNext, SessionCloses, RecoveryQueueReset, RecoveryEnds, ApiCall, Submit,
              EnsureInTask, TaskDetaches, TaskAttaches, TaskProgress, Stop, StopDetaches,
              CancelContinues, BeginRecovery, allVars, ctl
<1>4. api' \in [Tasks -> {"new", "recovering", "ready", "submitted", "failed"}]
  <2>1. ASSUME NEW t \in Tasks, ApiCall(t) \/ Submit(t)
        PROVE  api' \in [Tasks -> {"new", "recovering", "ready", "submitted", "failed"}]
    BY <1>0, <2>1 DEF ApiCall, Submit
  <2>2. ASSUME NEW ok \in BOOLEAN, RecoveryEnds(ok)
        PROVE  api' \in [Tasks -> {"new", "recovering", "ready", "submitted", "failed"}]
    BY <1>0, <2>2 DEF RecoveryEnds
  <2> QED
    BY <1>0, <2>1, <2>2
    DEF ControllerNext, SessionCloses, RecoveryQueueReset, EnsureInTask, TaskDetaches,
        TaskAttaches, TaskProgress, Stop, StopDetaches, CancelContinues, allVars, ctl
<1>5. begun' \in [Tasks -> BOOLEAN] /\ ensuring' \in [Tasks -> BOOLEAN]
  <2>1. ASSUME NEW t \in Tasks, EnsureInTask(t)
        PROVE  begun' \in [Tasks -> BOOLEAN] /\ ensuring' \in [Tasks -> BOOLEAN]
    BY <1>0, <2>1 DEF EnsureInTask
  <2>2. ASSUME NEW ok \in BOOLEAN, RecoveryEnds(ok)
        PROVE  begun' \in [Tasks -> BOOLEAN] /\ ensuring' \in [Tasks -> BOOLEAN]
    BY <1>0, <2>2 DEF RecoveryEnds
  <2> QED
    BY <1>0, <2>1, <2>2
    DEF ControllerNext, SessionCloses, RecoveryQueueReset, ApiCall, Submit, TaskDetaches,
        TaskAttaches, TaskProgress, Stop, StopDetaches, CancelContinues, allVars, ctl
<1> QED  BY <1>1, <1>2, <1>3, <1>4, <1>5 DEF ControllerTypeOK

-----------------------------------------------------------------------------
LEMMA ControllerInitInv == ControllerInit => ControllerInv
<1> SUFFICES ASSUME ControllerInit  PROVE ControllerInv
  OBVIOUS
<1>1. QueueInv /\ TypeOK /\ Recoverer \in Cancellers
  BY InitInv, ConstantsAssumption, ControllerAssumption DEF ControllerInit, QueueInv
<1>2. ControllerTypeOK /\ NobodyWaitsInVain
  BY <1>1 DEF ControllerInit, ControllerTypeOK, NobodyWaitsInVain
<1>3. RecoveryAwaitsReset
  BY <1>1 DEF ControllerInit, Init, RecoveryAwaitsReset
<1> QED  BY <1>1, <1>2, <1>3 DEF ControllerInv

THEOREM ControllerInductive == ControllerSpec => []ControllerInv
<1>1. ControllerInv /\ [ControllerNext]_allVars => ControllerInv'
  <2> SUFFICES ASSUME ControllerInv, [ControllerNext]_allVars  PROVE ControllerInv'
    OBVIOUS
  <2>1. ControllerTypeOK' /\ NobodyWaitsInVain' /\ RecoveryAwaitsReset'
    BY ControllerTyped, WaitersAwaitRecovery, ResetAwaited DEF ControllerInv
  <2>2. (NoneBegun => QueueInv)'
    BY QueueInvBeside DEF ControllerInv, ControllerTypeOK
  <2> QED  BY <2>1, <2>2 DEF ControllerInv
<1> QED  BY ControllerInitInv, <1>1, PTL DEF ControllerSpec

\* The variables of the controller and of its queue keep their types, with every
\* recovery a task begins too.
THEOREM ControllerTypeCorrect == ControllerSpec => []ControllerTypeOK
<1>1. ControllerInv => ControllerTypeOK
  BY DEF ControllerInv
<1> QED  BY ControllerInductive, <1>1, PTL

\* recoveryPromise is shared: reset() is suspended exactly while a recovery waits
\* for it, so one recovery makes one call of reset() (controller.ts:284-337).
THEOREM OneResetPerRecovery == ControllerSpec => []RecoveryAwaitsReset
<1>1. ControllerInv => RecoveryAwaitsReset
  BY DEF ControllerInv
<1> QED  BY ControllerInductive, <1>1, PTL

\* Whoever waits for a recovery waits for one that is in progress.
THEOREM NobodyForgotten == ControllerSpec => []NobodyWaitsInVain
<1>1. ControllerInv => NobodyWaitsInVain
  BY DEF ControllerInv
<1> QED  BY ControllerInductive, <1>1, PTL

\* Bodies exclude each other until a task asks for a recovery itself.  The
\* hypothesis is needed: a run shows two live bodies without it.
THEOREM ControllerMutualExclusion == ControllerSpec => [](NoneBegun => OneTaskAtATime)
<1>1. ControllerInv => (NoneBegun => OneTaskAtATime)
  BY DEF ControllerInv, QueueInv, InFlightInv, OneTaskAtATime
<1> QED  BY ControllerInductive, <1>1, PTL

\* stop() and disconnect() find no task executing once cancelAndDrain returns.
THEOREM StopDrains == ControllerSpec => StopReturnsDrained
<1>1. ASSUME ControllerInv, [ControllerNext]_allVars
      PROVE  [\A c \in Stoppers : pc[c] # "done" /\ pc'[c] = "done"
                 => \A t \in Tasks : ~Live(t)' \/ \E o \in Observing : begun[o]]_allVars
  <2> SUFFICES ASSUME NEW c \in Stoppers, pc[c] # "done", pc'[c] = "done", NoneBegun
               PROVE  \A t \in Tasks : ~Live(t)'
    BY DEF NoneBegun
  <2>1. /\ QueueInv /\ TypeOK /\ InFlightInv /\ CancelInv
        /\ c \in Cancellers /\ c \notin Resetters /\ Recoverer \in Resetters
        /\ pc \in [Cancellers -> PcState]
    BY <1>1, ConstantsAssumption, ControllerAssumption
    DEF ControllerInv, QueueInv, TypeOK, Stoppers
  <2>2. Cancel(c) \/ CancelDrained(c) \/ Reset(c)
    <3>1. ASSUME NEW t \in Tasks, Progress(t)  PROVE FALSE
      BY <2>1, <3>1 DEF Progress, TaskSettles, ExecutionEnds, Woken
    <3>2. ASSUME NEW d \in Cancellers, d # c, Cancel(d) \/ Resume(d)  PROVE FALSE
      BY <2>1, <3>2 DEF Cancel, Resume, CancelDrained, Reset
    <3>3. ASSUME [Next]_vars  PROVE Cancel(c) \/ CancelDrained(c) \/ Reset(c)
      BY <3>1, <3>2, <3>3
      DEF Next, vars, Run, RunRefused, Drain, AbortOnly, Resume
    <3>4. ASSUME NEW d \in Stoppers, StopDetaches(d)  PROVE FALSE
      BY <2>1, <3>4 DEF StopDetaches, Stoppers
    <3>5. ASSUME NEW t \in Tasks, EnsureInTask(t)  PROVE FALSE
      BY <2>1, <3>5 DEF EnsureInTask, vars
    <3> QED  BY <1>1, <3>3, <3>4, <3>5, QueueMoves
  <2>3. exec' = exec /\ q.inFlight = None
    <3>1. CASE Cancel(c)
      BY <2>1, <3>1 DEF Cancel, Awaits
    <3>2. CASE CancelDrained(c)
      BY <2>1, <3>2 DEF CancelDrained, CancelInv
    <3>3. CASE Reset(c)
      BY <2>1, <3>3 DEF Reset, CancelInv
    <3> QED  BY <2>2, <3>1, <3>2, <3>3
  <2> QED  BY <2>1, <2>3, ConstantsAssumption DEF InFlightInv, Live
<1> QED  BY ControllerInductive, <1>1, PTL DEF ControllerSpec, StopReturnsDrained
=============================================================================
