---------------------------- MODULE EffectProofs -----------------------------
(***************************************************************************)
(* Proofs about EffectRuntime for every set of lanes, arms, workers and    *)
(* events, every bound, and with or without failing reads and writes: its  *)
(* type invariant, that a lane has one worker at a time, that the head a   *)
(* worker runs stays as it was taken, and that no lane and no position of  *)
(* it is lost.                                                             *)
(*                                                                         *)
(* Mutual exclusion is not inductive: two workers could meet on a lane     *)
(* whose place says nobody runs it.  Ownership adds that the place of an   *)
(* owned lane is "Running", which is what LaneState::claim looks at, and   *)
(* that a process that is down owns nothing.                               *)
(***************************************************************************)
EXTENDS EffectSafety, TLAPS, SequenceTheorems, FiniteSetTheorems, WellFoundedInduction

\* The tuples of variables are shorthand.
USE DEF durableVars, rowVars, readerVars, sharedVars, poolVars, budgetVars,
        laneVars, queueVars, resumeVars

-----------------------------------------------------------------------------
(* Facts about the operators.                                              *)

\* A non-empty set of naturals has a least element.
LEMMA LeastNatural ==
    ASSUME NEW S, S \subseteq Nat, S # {}
    PROVE  \E n \in S : \A m \in S : n <= m
<1> DEFINE Less == {ss \in Nat \X Nat : ss[1] < ss[2]}
<1>1. IsWellFoundedOn(Less, Nat)
  BY NatLessThanWellFounded, Zenon DEF OpToRel
<1> HIDE DEF Less
<1>2. PICK n \in S : \A m \in S : <<m, n>> \notin Less
  BY <1>1, WFMin
<1>3. \A m \in S : ~(m < n)
  BY <1>2 DEF Less
<1>4. QED BY <1>3

\* What LaneState::low_water calls the oldest entry exists and is one.
LEMMA OldestInFlight ==
    ASSUME inflight \subseteq Nat \ {0}, inflight # {}
    PROVE  Oldest \in inflight /\ \A q \in inflight : Oldest <= q
<1>1. \E p \in inflight : \A q \in inflight : p <= q
  BY LeastNatural
<1>2. QED BY <1>1 DEF Oldest

\* low_water never exceeds the scan and is never negative.
LEMMA LowWaterBounds ==
    ASSUME inflight \subseteq Nat \ {0}, scanned \in Nat
    PROVE  LowWater \in 0..scanned
<1>1. CASE inflight = {}
  BY <1>1 DEF LowWater
<1>2. CASE inflight # {}
  <2>1. Oldest \in Nat \ {0}
    BY <1>2, OldestInFlight
  <2>2. QED BY <1>2, <2>1 DEF LowWater, Lesser
<1>3. QED BY <1>1, <1>2

\* Taking a group out of a queue leaves a queue.
LEMMA WithoutType ==
    ASSUME NEW S, NEW q \in Seq(S), NEW i \in 1..Len(q)
    PROVE  Without(q, i) \in Seq(S)
<1>1. SubSeq(q, 1, i - 1) \in Seq(S)
  <2>1. \A j \in 1..(i - 1) : q[j] \in S
    BY ElementOfSeq
  <2>2. QED BY <2>1, SubSeqProperties
<1>2. SubSeq(q, i + 1, Len(q)) \in Seq(S)
  <2>1. \A j \in (i + 1)..Len(q) : q[j] \in S
    BY ElementOfSeq
  <2>2. QED BY <2>1, SubSeqProperties, LenProperties
<1>3. QED BY <1>1, <1>2, ConcatProperties DEF Without

\* Every position of the log has a lane and an arm.
LEMMA EventTypes ==
    ASSUME TypeOK, NEW p \in 1..Len(log)
    PROVE  LaneOf(p) \in Lanes /\ ArmOf(p) \in Arms \cup {NoArm}
<1>1. log[p] \in Events
  BY ElementOfSeq DEF TypeOK, StoreTypeOK
<1>2. QED BY <1>1, EventsAssumption DEF LaneOf, ArmOf

\* The head of a queue with work is a group, and so is what follows it a queue.
LEMMA FrontType ==
    ASSUME TypeOK, NEW l \in Lanes, queues[l] # <<>>
    PROVE  /\ Front(l) \in Group /\ Tail(queues[l]) \in Seq(Group)
           /\ Front(l).hi \in Nat /\ Front(l).lo \in Nat /\ Front(l).arm \in Arms
<1>1. queues[l] \in Seq(Group)
  BY DEF TypeOK, LaneTypeOK
<1>2. Len(queues[l]) \in Nat \ {0}
  BY <1>1, EmptySeq
<1>3. Front(l) \in Group
  BY <1>1, <1>2, ElementOfSeq DEF Front
<1>4. Tail(queues[l]) \in Seq(Group)
  BY <1>1, HeadTailProperties
<1>5. QED BY <1>3, <1>4 DEF Group

-----------------------------------------------------------------------------
(* Types, one action at a time.                                            *)

\* The initial state is well typed.
LEMMA TypeInit == Init => TypeOK
<1> SUFFICES ASSUME Init PROVE TypeOK
  OBVIOUS
<1>1. AnyLane \in Lanes
  BY DeliveryAssumption DEF AnyLane
<1>2. Len(log) = 0 /\ log \in Seq(Events)
  BY EmptySeq DEF Init
<1>3. LaneTypeOK
  BY EmptySeq DEF Init, LaneTypeOK, Places
<1>4. StoreTypeOK
  BY <1>2 DEF Init, StoreTypeOK, Inactive
<1>5. ReaderTypeOK
  <2>1. up \in BOOLEAN /\ halted \in BOOLEAN
    BY DEF Init
  <2>2. /\ rpc = "stopped" /\ cursor = 0 /\ seen = 0 /\ scanned = 0 /\ pub = 0
        /\ position = 0 /\ skips = {} /\ stuck \in [Lanes -> Nat]
    BY DEF Init
  <2>3. QED BY <1>2, <2>1, <2>2 DEF ReaderTypeOK
<1>6. PoolTypeOK
  BY <1>1, EmptySeq DEF Init, PoolTypeOK, NoWork
<1>7. QED
  BY <1>3, <1>4, <1>5, <1>6 DEF Init, TypeOK

\* The log is finite.
LEMMA LogLength == TypeOK => Len(log) \in Nat
  BY LenProperties DEF TypeOK, StoreTypeOK

\* Appending keeps the types: every bound in them is a length of the log.
LEMMA TypeAppendEvent == TypeOK /\ AppendEvent => TypeOK'
<1> SUFFICES ASSUME TypeOK, AppendEvent PROVE TypeOK'
  OBVIOUS
<1>1. PICK e \in Events : log' = Append(log, e)
  BY DEF AppendEvent
<1>2. log' \in Seq(Events) /\ Len(log') = Len(log) + 1 /\ Len(log) \in Nat
  BY <1>1, AppendProperties, LenProperties DEF TypeOK, StoreTypeOK
<1>3. StoreTypeOK' /\ ReaderTypeOK'
  BY <1>2 DEF TypeOK, StoreTypeOK, ReaderTypeOK, AppendEvent
<1>4. QED
  BY <1>3 DEF TypeOK, LaneTypeOK, PoolTypeOK, AppendEvent

\* Building a dispatcher from hekla.db keeps the types.
LEMMA TypeStart == TypeOK /\ Start => TypeOK'
<1> SUFFICES ASSUME TypeOK, Start PROVE TypeOK'
  OBVIOUS
<1>1. ReadBack \subseteq Nat
  BY SizesAssumption DEF ReadBack, RecordedAbove, Recorded, Positions
<1>2. LaneTypeOK'
  BY <1>1, LogLength, EmptySeq
     DEF Start, Resuming, TypeOK, StoreTypeOK, LaneTypeOK, Places
<1>3. StoreTypeOK'
  BY LogLength DEF TypeOK, StoreTypeOK, Start
<1>4. ReaderTypeOK'
  <2>1. halted' \in BOOLEAN /\ up' \in BOOLEAN
    BY DEF Start
  <2>2. QED
    BY <2>1, LogLength DEF TypeOK, StoreTypeOK, ReaderTypeOK, Start, Resuming
<1>5. QED
  BY <1>2, <1>3, <1>4 DEF TypeOK, PoolTypeOK, Start

\* Losing everything in memory keeps the types.
LEMMA TypeCrash == TypeOK /\ Crash => TypeOK'
<1> SUFFICES ASSUME TypeOK, Crash PROVE TypeOK'
  OBVIOUS
<1>1. LaneTypeOK'
  BY EmptySeq DEF Crash, Resuming, LaneTypeOK, Places
<1>2. ReaderTypeOK'
  <2>1. up' \in BOOLEAN /\ halted' \in BOOLEAN
    BY DEF Crash
  <2>2. /\ rpc' = "stopped" /\ cursor' = 0 /\ seen' = 0 /\ scanned' = 0 /\ pub' = 0
        /\ position' = 0 /\ skips' = {} /\ stuck' \in [Lanes -> Nat] /\ log' = log
    BY DEF Crash, Resuming
  <2>3. QED BY LogLength, <2>1, <2>2 DEF ReaderTypeOK
<1>3. PoolTypeOK'
  BY DeliveryAssumption, EmptySeq DEF PoolTypeOK, Crash, AnyLane, NoWork
<1>4. QED
  BY <1>1, <1>2, <1>3 DEF TypeOK, StoreTypeOK, Crash

\* A rewind keeps the types: it only ever takes the mark back.
LEMMA TypeRewind == TypeOK /\ Rewind => TypeOK'
<1> SUFFICES ASSUME TypeOK, Rewind PROVE TypeOK'
  OBVIOUS
<1>1. PICK to \in 0..mark, live \in BOOLEAN :
        /\ mark' = to
        /\ status' = [p \in Positions |-> IF p > to THEN "none" ELSE status[p]]
        /\ from' = [p \in Positions |-> IF p > to THEN 0 ELSE from[p]]
        /\ quarantine' = IF quarantine > to THEN 0 ELSE quarantine
        /\ boundary' = IF live /\ boundary > to THEN to ELSE boundary
        /\ settled' = {p \in settled : p <= to}
  BY DEF Rewind
<1>2. mark' \in 0..Len(log) /\ to \in Nat
  BY <1>1, LogLength DEF TypeOK, StoreTypeOK
<1>3. status' \in [Positions -> {"none", "running", "terminal"}]
  BY <1>1 DEF TypeOK, StoreTypeOK
<1>4. from' \in [Positions -> Nat] /\ laneRow' \in [Lanes -> Nat]
  BY <1>1 DEF TypeOK, StoreTypeOK, Rewind
<1>5. quarantine' \in Nat /\ boundary' \in Nat \cup {Inactive}
  BY <1>1, <1>2 DEF TypeOK, StoreTypeOK
<1>6. StoreTypeOK' /\ settled' \subseteq Nat
  BY <1>1, <1>2, <1>3, <1>4, <1>5 DEF TypeOK, StoreTypeOK, Rewind
<1>7. QED
  BY <1>6, SMTT(20) DEF TypeOK, LaneTypeOK, ReaderTypeOK, PoolTypeOK, Rewind

\* So do a skip request and the retention sweep.
LEMMA TypeOperator == TypeOK /\ (RequestSkip \/ SweepInvocation) => TypeOK'
<1>1. TypeOK /\ RequestSkip => TypeOK'
  BY DEF TypeOK, LaneTypeOK, StoreTypeOK, ReaderTypeOK, PoolTypeOK, RequestSkip
<1>2. TypeOK /\ SweepInvocation => TypeOK'
  BY SMTT(20) DEF TypeOK, LaneTypeOK, StoreTypeOK, ReaderTypeOK, PoolTypeOK, SweepInvocation
<1>3. QED BY <1>1, <1>2

\* Waking a lane keeps the types.
LEMMA TypeWake == ASSUME TypeOK, NEW l \in Lanes, Wake(l) PROVE TypeOK'
<1>1. ready' \in Seq(Lanes)
  BY AppendProperties DEF TypeOK, PoolTypeOK, Wake
<1>2. LaneTypeOK'
  <2>1. CASE Promote(l)
    BY <2>1 DEF TypeOK, LaneTypeOK, Wake, Promote, Places
  <2>2. CASE PromoteMatching(l, skips)
    <3>1. Front(l).hi \in Nat
      BY <2>2, FrontType DEF PromoteMatching, SkipWakes
    <3>2. QED
      BY <2>2, <3>1 DEF TypeOK, LaneTypeOK, Wake, PromoteMatching, Places
  <2>3. QED BY <2>1, <2>2 DEF Wake
<1>3. QED
  BY <1>1, <1>2 DEF TypeOK, StoreTypeOK, ReaderTypeOK, PoolTypeOK, Wake

\* LaneState::admit keeps the types of the fields, folding or not.
LEMMA TypeAdmit ==
    ASSUME TypeOK, NEW l \in Lanes, NEW p \in Nat \ {0}, NEW a \in Arms,
           NEW declared \in BOOLEAN, Admit(l, p, a, declared),
           UNCHANGED <<resumeVars, skipPromoted>>, scanned' \in Nat
    PROVE  LaneTypeOK'
<1>1. CASE high[l] >= p
  BY <1>1 DEF Admit, TypeOK, LaneTypeOK
<1>2. CASE ~(high[l] >= p)
  <2>1. queues[l] \in Seq(Group) /\ [lo |-> p, hi |-> p, arm |-> a] \in Group
    BY DEF TypeOK, LaneTypeOK, Group
  <2>2. queues' \in [Lanes -> Seq(Group)] /\ inflight' \subseteq Nat \ {0}
    <3>1. ASSUME Enqueue(l, p, a)
          PROVE  queues' \in [Lanes -> Seq(Group)] /\ inflight' \subseteq Nat \ {0}
      <4>1. Append(queues[l], [lo |-> p, hi |-> p, arm |-> a]) \in Seq(Group)
        BY <2>1, AppendProperties
      <4>2. QED BY <3>1, <4>1 DEF Enqueue, TypeOK, LaneTypeOK
    <3>2. ASSUME NEW i \in OpenAt(l, a), Supersede(l, p, a, i)
          PROVE  queues' \in [Lanes -> Seq(Group)] /\ inflight' \subseteq Nat \ {0}
      <4>1. i \in 1..Len(queues[l])
        BY DEF OpenAt
      <4>2. Without(queues[l], i) \in Seq(Group)
        BY <2>1, <4>1, WithoutType
      <4>3. [lo |-> queues[l][i].lo, hi |-> p, arm |-> a] \in Group
        <5>1. queues[l][i] \in Group
          BY <2>1, <4>1, ElementOfSeq
        <5>2. QED BY <5>1 DEF Group
      <4>4. Append(Without(queues[l], i), [lo |-> queues[l][i].lo, hi |-> p, arm |-> a])
              \in Seq(Group)
        BY <4>2, <4>3, AppendProperties
      <4>5. QED BY <3>2, <4>4 DEF Supersede, TypeOK, LaneTypeOK
    <3>3. QED BY <1>2, <3>1, <3>2 DEF Admit
  <2>3. latest' \in [Lanes -> [Arms -> Nat]]
    <3>1. latest \in [Lanes -> [Arms -> Nat]] /\ p \in Nat
      BY DEF TypeOK, LaneTypeOK
    <3>2. latest' \in {latest, [latest EXCEPT ![l][a] = 0], [latest EXCEPT ![l][a] = p]}
      BY <1>2 DEF Admit
    <3>3. QED BY <3>1, <3>2
  <2>4. place' \in [Lanes -> Places] /\ high' \in [Lanes -> Nat]
    BY <1>2 DEF Admit, TypeOK, LaneTypeOK, Places
  <2>5. QED BY <2>2, <2>3, <2>4 DEF TypeOK, LaneTypeOK
<1>3. QED BY <1>1, <1>2

\* Admitting one position keeps the types: the batch lies within the log.
LEMMA TypeAdmitNext == TypeOK /\ AdmitNext => TypeOK'
<1> SUFFICES ASSUME TypeOK, AdmitNext PROVE TypeOK'
  OBVIOUS
<1> DEFINE p == seen + 1
<1>0. /\ rpc = "admit" /\ seen \in 0..cursor /\ seen < cursor /\ cursor \in 0..Len(log)
      /\ scanned \in 0..Len(log) /\ Len(log) \in Nat
  BY LogLength DEF AdmitNext, Reading, TypeOK, ReaderTypeOK
<1>1. p \in 1..Len(log) /\ p \in Nat \ {0}
  BY <1>0
<1>2. LaneOf(p) \in Lanes
  BY <1>1, EventTypes
<1>3. scanned' \in 0..Len(log) /\ scanned' \in Nat
  BY <1>0 DEF AdmitNext, SetScanned, Greater
<1>4. ReaderTypeOK'
  BY <1>0, <1>3 DEF AdmitNext, TypeOK, ReaderTypeOK
<1>5. LaneTypeOK' /\ ready' \in Seq(Lanes)
  <2>1. CASE Answered(p)
    <3>1. ArmOf(p) \in Arms
      BY <2>1 DEF Answered, AnswersUnder
    <3>2. Collapsible(ArmOf(p), LaneOf(p)) \in BOOLEAN
      BY DEF Collapsible
    <3>3. Admit(LaneOf(p), p, ArmOf(p), Collapsible(ArmOf(p), LaneOf(p)))
      BY <2>1 DEF AdmitNext
    <3>4. LaneTypeOK'
      BY <1>1, <1>2, <1>3, <3>1, <3>2, <3>3, TypeAdmit DEF AdmitNext
    <3>5. ready' \in Seq(Lanes)
      <4>1. ready' \in {ready, Append(ready, LaneOf(p))}
        BY <2>1 DEF AdmitNext
      <4>2. QED BY <1>2, <4>1, AppendProperties DEF TypeOK, PoolTypeOK
    <3>6. QED BY <3>4, <3>5
  <2>2. CASE ~Answered(p)
    BY <1>3, <2>2 DEF AdmitNext, TypeOK, LaneTypeOK, PoolTypeOK
  <2>3. QED BY <2>1, <2>2
<1>6. QED
  BY <1>4, <1>5 DEF AdmitNext, TypeOK, StoreTypeOK, PoolTypeOK

\* So do the other steps of the reader.
LEMMA TypeReader ==
    TypeOK /\ (Promoted \/ Poll \/ ReadMark \/ PersistMark \/ ForgetPassed \/ SweepRows
               \/ PrunePassed \/ DriverError \/ Resubscribe) => TypeOK'
<1> SUFFICES ASSUME TypeOK PROVE
       (Promoted \/ Poll \/ ReadMark \/ PersistMark \/ ForgetPassed \/ SweepRows
          \/ PrunePassed \/ DriverError \/ Resubscribe) => TypeOK'
  OBVIOUS
<1>1. Promoted => TypeOK'
  BY DEF TypeOK, LaneTypeOK, StoreTypeOK, ReaderTypeOK, PoolTypeOK, Promoted
<1>2. ASSUME Poll PROVE TypeOK'
  <2>1. ReaderTypeOK'
    BY <1>2, LogLength, SizesAssumption
       DEF Poll, Reading, TypeOK, ReaderTypeOK, Lesser
  <2>2. QED
    BY <1>2, <2>1 DEF TypeOK, LaneTypeOK, StoreTypeOK, PoolTypeOK, Poll
<1>3. ASSUME ReadMark PROVE TypeOK'
  <2>1. LowWater \in 0..Len(log)
    <3>1. scanned \in 0..Len(log) /\ scanned \in Nat /\ inflight \subseteq Nat \ {0}
      BY DEF TypeOK, ReaderTypeOK, LaneTypeOK
    <3>2. QED BY <3>1, LogLength, LowWaterBounds
  <2>2. ReaderTypeOK'
    BY <1>3, <2>1 DEF ReadMark, PassEnds, TypeOK, ReaderTypeOK
  <2>3. QED
    BY <1>3, <2>2 DEF TypeOK, LaneTypeOK, StoreTypeOK, PoolTypeOK, ReadMark
<1>4. ASSUME PersistMark PROVE TypeOK'
  <2>1. ReaderTypeOK' /\ StoreTypeOK'
    BY <1>4, LogLength DEF PersistMark, TypeOK, ReaderTypeOK, StoreTypeOK
  <2>2. QED
    BY <1>4, <2>1 DEF TypeOK, LaneTypeOK, PoolTypeOK, PersistMark
<1>5. ASSUME ForgetPassed PROVE TypeOK'
  <2>1. ReaderTypeOK'
    BY <1>5 DEF ForgetPassed, PassEnds, TypeOK, ReaderTypeOK
  <2>2. LaneTypeOK'
    BY <1>5 DEF ForgetPassed, Forget, TypeOK, LaneTypeOK
  <2>3. QED
    BY <1>5, <2>1, <2>2 DEF TypeOK, StoreTypeOK, PoolTypeOK, ForgetPassed
<1>6. ASSUME SweepRows PROVE TypeOK'
  BY <1>6 DEF TypeOK, LaneTypeOK, StoreTypeOK, ReaderTypeOK, PoolTypeOK, SweepRows,
                  RowsAbove
<1>7. ASSUME PrunePassed PROVE TypeOK'
  <2>1. ReaderTypeOK'
    BY <1>7 DEF PrunePassed, PassEnds, TypeOK, ReaderTypeOK
  <2>2. LaneTypeOK'
    BY <1>7 DEF PrunePassed, PruneRows, TypeOK, LaneTypeOK
  <2>3. QED
    BY <1>7, <2>1, <2>2 DEF TypeOK, StoreTypeOK, PoolTypeOK, PrunePassed
<1>8. ASSUME DriverError PROVE TypeOK'
  <2>1. mark' \in 0..Len(log)
    BY <1>8 DEF DriverError, TypeOK, ReaderTypeOK, StoreTypeOK
  <2>2. laneRow' \in [Lanes -> Nat]
    BY <1>8 DEF DriverError, RowsAbove, TypeOK, StoreTypeOK
  <2>3. QED
    BY <1>8, <2>1, <2>2
       DEF TypeOK, LaneTypeOK, StoreTypeOK, ReaderTypeOK, PoolTypeOK, DriverError
<1>9. ASSUME Resubscribe PROVE TypeOK'
  <2>1. scanned' \in 0..Len(log)
    BY <1>9, LogLength
       DEF Resubscribe, SetScanned, Greater, TypeOK, ReaderTypeOK, StoreTypeOK
  <2>2. ReaderTypeOK'
    <3>1. CASE quarantine = 0
      BY <1>9, <2>1, <3>1, LogLength DEF Resubscribe, TypeOK, ReaderTypeOK, StoreTypeOK
    <3>2. CASE quarantine # 0
      <4>1. halted' \in BOOLEAN
        BY <1>9, <3>2 DEF Resubscribe
      <4>2. QED
        BY <1>9, <2>1, <3>2, <4>1, LogLength
           DEF Resubscribe, TypeOK, ReaderTypeOK, StoreTypeOK
    <3>3. QED BY <3>1, <3>2
  <2>3. /\ UNCHANGED <<durableVars, poolVars, queueVars, resumeVars, skipPromoted>>
        /\ UNCHANGED <<budgetVars, settled>>
    BY <1>9 DEF Resubscribe
  <2>4. scanned' \in Nat
    BY <2>1, LogLength
  <2>5. QED
    BY <2>2, <2>3, <2>4 DEF TypeOK, LaneTypeOK, StoreTypeOK, PoolTypeOK
<1>10. QED
  BY <1>1, <1>2, <1>3, <1>4, <1>5, <1>6, <1>7, <1>8, <1>9

\* Putting a lane down keeps the types of the pool.
LEMMA HandType ==
    ASSUME PoolTypeOK, NEW w \in Workers, Unhand(w), UNCHANGED ready
    PROVE  PoolTypeOK'
BY DeliveryAssumption DEF Unhand, Go, PoolTypeOK, AnyLane, NoWork

\* Moving on with the lane in hand keeps the types of the pool.
LEMMA StepType ==
    ASSUME PoolTypeOK, NEW w \in Workers,
           NEW pc \in {"head", "begin", "skip", "run", "verify", "retire", "row",
                       "noted", "release"},
           Step(w, pc)
    PROVE  PoolTypeOK'
BY DEF Step, Go, PoolTypeOK

\* The statement that ends an invocation keeps the types of its row.
LEMMA TerminalType ==
    ASSUME TypeOK, NEW w \in Workers, MakeTerminal(w)
    PROVE  /\ status' \in [Positions -> {"none", "running", "terminal"}]
           /\ from' \in [Positions -> Nat]
           /\ settled' \subseteq Nat
<1>1. work[w].position \in Nat /\ work[w].from \in Nat
  BY DEF TypeOK, PoolTypeOK
<1>2. Settles(work[w].position) \subseteq Nat
  BY <1>1 DEF Settles
<1>3. QED
  BY <1>1, <1>2 DEF MakeTerminal, TypeOK, StoreTypeOK

\* Closing a group to supersession keeps the type of the open groups.
LEMMA CloseType ==
    ASSUME LaneTypeOK, NEW l \in Lanes, NEW g \in Group, Close(l, g)
    PROVE  latest' \in [Lanes -> [Arms -> Nat]]
<1>1. g.arm \in Arms
  BY DEF Group
<1>2. latest \in [Lanes -> [Arms -> Nat]] /\ latest[l][g.arm] \in Nat
  BY <1>1 DEF LaneTypeOK
<1>3. PICK n \in Nat : latest' = [latest EXCEPT ![l][g.arm] = n]
  BY <1>2 DEF Close
<1>4. QED BY <1>1, <1>2, <1>3

\* Parking a lane keeps the types.
LEMMA TypePark ==
    ASSUME TypeOK, NEW w \in Workers, Park(w),
           status' \in [Positions -> {"none", "running", "terminal"}],
           from' \in [Positions -> Nat], settled' \subseteq Nat
    PROVE  TypeOK'
<1>1. wlane[w] \in Lanes /\ work[w].position \in Nat
  BY DEF TypeOK, PoolTypeOK
<1>2. PoolTypeOK'
  BY HandType DEF TypeOK, Park
<1>3. LaneTypeOK'
  BY <1>1 DEF Park, Defer, TypeOK, LaneTypeOK, Places
<1>4. ReaderTypeOK'
  BY <1>1 DEF Park, TypeOK, ReaderTypeOK
<1>5. QED
  BY <1>2, <1>3, <1>4 DEF Park, TypeOK, StoreTypeOK

\* Every step of a worker keeps the types.
LEMMA TypeWorker == ASSUME TypeOK, NEW w \in Workers, Worker(w) PROVE TypeOK'
<1> DEFINE l == wlane[w]
<1>0. l \in Lanes /\ work[w].position \in Nat /\ work[w].from \in Nat
  BY DEF TypeOK, PoolTypeOK
<1>1. CASE PopLane(w)
  <2>1. Head(ready) \in Lanes /\ Tail(ready) \in Seq(Lanes)
    BY <1>1, HeadTailProperties DEF PopLane, TypeOK, PoolTypeOK
  <2>2. PoolTypeOK'
    BY <1>1, <2>1 DEF PopLane, Go, TypeOK, PoolTypeOK
  <2>3. QED
    BY <1>1, <2>2 DEF PopLane, TypeOK, LaneTypeOK, StoreTypeOK, ReaderTypeOK
<1>2. CASE ClaimLane(w)
  <2>1. PoolTypeOK'
    BY <1>2, HandType, StepType DEF ClaimLane, TypeOK
  <2>2. LaneTypeOK'
    BY <1>0, <1>2 DEF ClaimLane, Claim, TypeOK, LaneTypeOK, Places
  <2>3. QED
    BY <1>2, <2>1, <2>2 DEF ClaimLane, TypeOK, StoreTypeOK, ReaderTypeOK
<1>3. CASE TakeHead(w)
  <2>1. CASE halted \/ queues[l] = <<>>
    <3>1. PoolTypeOK'
      BY <1>3, <2>1, StepType DEF TakeHead, TypeOK
    <3>2. QED
      BY <1>3, <2>1, <3>1 DEF TakeHead, TypeOK, LaneTypeOK, StoreTypeOK, ReaderTypeOK
  <2>2. CASE ~(halted \/ queues[l] = <<>>)
    <3>1. Front(l).hi \in Nat /\ Front(l).lo \in Nat /\ Front(l) \in Group
      BY <1>0, <2>2, FrontType
    <3>2. /\ Freeze(l) /\ Go(w, "begin") /\ UNCHANGED <<ready, wlane>>
          /\ work' = [work EXCEPT ![w] = [position |-> Front(l).hi, from |-> Front(l).lo]]
          /\ UNCHANGED <<durableVars, up, readerVars, sharedVars, scanned, resumeVars,
                         skipPromoted, budgetVars, settled>>
      BY <1>3, <2>2 DEF TakeHead
    <3>3. PoolTypeOK'
      BY <3>1, <3>2 DEF Go, TypeOK, PoolTypeOK
    <3>4. LaneTypeOK'
      BY <1>0, <3>1, <3>2, CloseType DEF Freeze, TypeOK, LaneTypeOK
    <3>5. QED
      BY <3>2, <3>3, <3>4 DEF TypeOK, StoreTypeOK, ReaderTypeOK
  <2>3. QED BY <2>1, <2>2
<1>4. CASE Begin(w)
  <2>1. PoolTypeOK'
    BY <1>4, StepType DEF Begin, TypeOK
  <2>2. /\ status' \in [Positions -> {"none", "running", "terminal"}]
        /\ from' \in [Positions -> Nat] /\ stuck' \in [Lanes -> Nat]
    <3>1. CASE status[work[w].position] = "terminal"
      <4>1. UNCHANGED rowVars /\ stuck' = [stuck EXCEPT ![l] = 0]
        BY <1>4, <3>1 DEF Begin
      <4>2. QED BY <1>0, <4>1 DEF TypeOK, StoreTypeOK, ReaderTypeOK
    <3>2. CASE status[work[w].position] # "terminal"
      <4>1. \/ from' = [from EXCEPT ![work[w].position] = work[w].position]
            \/ from' = [from EXCEPT ![work[w].position] = @]
        BY <1>4, <3>2 DEF Begin
      <4>2. /\ status' = [status EXCEPT ![work[w].position] = "running"]
            /\ stuck' = stuck
        BY <1>4, <3>2 DEF Begin
      <4>3. QED
        BY <1>0, <4>1, <4>2 DEF TypeOK, StoreTypeOK, ReaderTypeOK
    <3>3. QED BY <3>1, <3>2
  <2>3. QED
    BY <1>4, <2>1, <2>2 DEF Begin, TypeOK, LaneTypeOK, StoreTypeOK, ReaderTypeOK
<1>5. CASE SkipWedged(w)
  <2>1. PoolTypeOK'
    BY <1>5, StepType DEF SkipWedged, TypeOK
  <2>2. /\ status' \in [Positions -> {"none", "running", "terminal"}]
        /\ from' \in [Positions -> Nat] /\ settled' \subseteq Nat
    BY <1>5, TerminalType DEF SkipWedged
  <2>3. QED
    BY <1>5, <2>1, <2>2 DEF SkipWedged, TypeOK, LaneTypeOK, StoreTypeOK, ReaderTypeOK
<1>6. CASE Finish(w)
  <2>1. PoolTypeOK'
    BY <1>6, StepType DEF Finish, TypeOK
  <2>2. /\ status' \in [Positions -> {"none", "running", "terminal"}]
        /\ from' \in [Positions -> Nat] /\ settled' \subseteq Nat
    BY <1>6, TerminalType DEF Finish
  <2>3. QED
    BY <1>6, <2>1, <2>2 DEF Finish, TypeOK, LaneTypeOK, StoreTypeOK, ReaderTypeOK
<1>7. CASE Fail(w)
  BY <1>7, TypePark DEF Fail, TypeOK, StoreTypeOK
<1>8. CASE LoseAnswer(w)
  BY <1>8, TypePark, TerminalType DEF LoseAnswer
<1>9. CASE Replay(w)
  <2>1. PoolTypeOK'
    BY <1>9, StepType DEF Replay, TypeOK
  <2>2. quarantine' \in Nat /\ halted' \in BOOLEAN
    <3>1. CASE UNCHANGED <<quarantine, halted>>
      BY <3>1 DEF TypeOK, StoreTypeOK, ReaderTypeOK
    <3>2. CASE /\ halted' = TRUE
               /\ quarantine' \in {work[w].position} \cup
                                  (IF StoreFails THEN {quarantine} ELSE {})
      BY <1>0, <3>2 DEF TypeOK, StoreTypeOK
    <3>3. QED BY <1>9, <3>1, <3>2 DEF Replay
  <2>3. QED
    BY <1>9, <2>1, <2>2 DEF Replay, TypeOK, LaneTypeOK, StoreTypeOK, ReaderTypeOK
<1>10. CASE Retire(w)
  <2>1. PoolTypeOK'
    BY <1>10, StepType DEF Retire, TypeOK
  <2>2. LaneTypeOK'
    <3>1. CASE queues[l] # <<>> /\ Front(l).hi = work[w].position
      <4>1. Tail(queues[l]) \in Seq(Group) /\ Front(l) \in Group
        BY <1>0, <3>1, FrontType
      <4>2. /\ queues' = [queues EXCEPT ![l] = Tail(@)] /\ Close(l, Front(l))
            /\ inflight' = inflight \ {Front(l).lo}
            /\ skipPromoted' = skipPromoted \ {work[w].position}
            /\ UNCHANGED <<high, place, scanned, resumeVars>>
        BY <1>10, <3>1 DEF Retire, Complete
      <4>3. latest' \in [Lanes -> [Arms -> Nat]]
        BY <1>0, <4>1, <4>2, CloseType DEF TypeOK
      <4>4. QED
        BY <1>0, <4>1, <4>2, <4>3 DEF TypeOK, LaneTypeOK
    <3>2. CASE ~(queues[l] # <<>> /\ Front(l).hi = work[w].position)
      BY <1>10, <3>2 DEF Retire, Complete, TypeOK, LaneTypeOK
    <3>3. QED BY <3>1, <3>2
  <2>3. QED
    BY <1>10, <2>1, <2>2 DEF Retire, TypeOK, StoreTypeOK, ReaderTypeOK
<1>11. CASE RecordLaneRow(w)
  <2>1. PoolTypeOK'
    BY <1>11, StepType DEF RecordLaneRow, TypeOK
  <2>2. laneRow' \in [Lanes -> Nat]
    BY <1>0, <1>11 DEF RecordLaneRow, Greater, TypeOK, StoreTypeOK
  <2>3. QED
    BY <1>11, <2>1, <2>2 DEF RecordLaneRow, TypeOK, LaneTypeOK, StoreTypeOK, ReaderTypeOK
<1>12. CASE NoteLaneRow(w)
  <2>1. PoolTypeOK'
    BY <1>12, StepType DEF NoteLaneRow, TypeOK
  <2>2. LaneTypeOK'
    BY <1>0, <1>12 DEF NoteLaneRow, RecordRow, Greater, TypeOK, LaneTypeOK
  <2>3. QED
    BY <1>12, <2>1, <2>2 DEF NoteLaneRow, TypeOK, StoreTypeOK, ReaderTypeOK
<1>13. CASE ReleaseLane(w)
  <2>1. ready' \in Seq(Lanes)
    <3>1. ready' = ready \/ ready' = Append(ready, l)
      BY <1>13 DEF ReleaseLane
    <3>2. ready \in Seq(Lanes) /\ Append(ready, l) \in Seq(Lanes)
      BY <1>0, AppendProperties DEF TypeOK, PoolTypeOK
    <3>3. QED BY <3>1, <3>2
  <2>2. PoolTypeOK'
    BY <1>13, <2>1, DeliveryAssumption
       DEF ReleaseLane, Unhand, Go, AnyLane, NoWork, TypeOK, PoolTypeOK
  <2>3. LaneTypeOK'
    BY <1>0, <1>13 DEF ReleaseLane, Release, TypeOK, LaneTypeOK, Places
  <2>4. QED
    BY <1>13, <2>2, <2>3 DEF ReleaseLane, TypeOK, StoreTypeOK, ReaderTypeOK
<1>14. QED
  BY <1>1, <1>2, <1>3, <1>4, <1>5, <1>6, <1>7, <1>8, <1>9, <1>10, <1>11, <1>12, <1>13
     DEF Worker

\* Every state of every run is well typed: among other things the persisted mark,
\* the mark being published, the scan and the cursor never leave the log.
THEOREM TypeCorrect == Spec => []TypeOK
<1>1. Init => TypeOK
  BY TypeInit
<1>2. TypeOK /\ [Next]_vars => TypeOK'
  <2> SUFFICES ASSUME TypeOK, [Next]_vars PROVE TypeOK'
    OBVIOUS
  <2>1. CASE Next
    BY <2>1, TypeAppendEvent, TypeStart, TypeCrash, TypeRewind, TypeOperator, TypeWake,
       TypeAdmitNext, TypeReader, TypeWorker DEF Next, Reader
  <2>2. CASE UNCHANGED vars
    BY <2>2 DEF vars, TypeOK, LaneTypeOK, StoreTypeOK, ReaderTypeOK, PoolTypeOK
  <2>3. QED BY <2>1, <2>2
<1>3. QED BY <1>1, <1>2, PTL DEF Spec

-----------------------------------------------------------------------------
(* One worker per lane.                                                    *)

\* The inductive invariant behind OneWorkerPerLane.
Ownership ==
    /\ ~up => \A w \in Workers : wpc[w] = "idle"
    /\ \A w \in Workers : Owns(w) => place[wlane[w]] = "Running"
    /\ OneWorkerPerLane

\* A step that leaves the pool alone and takes no running lane away keeps ownership.
LEMMA OwnershipKept ==
    ASSUME Ownership, UNCHANGED up, UNCHANGED <<wpc, wlane>>,
           \A l \in Lanes : place[l] = "Running" => place'[l] = "Running",
           wlane \in [Workers -> Lanes]
    PROVE  Ownership'
BY DEF Ownership, OneWorkerPerLane, Owns

\* A worker that moves on with its lane in hand keeps ownership.
LEMMA OwnershipStepped ==
    ASSUME Ownership, TypeOK, NEW w \in Workers, up, Owns(w), UNCHANGED <<up, place>>,
           UNCHANGED wlane, NEW pc, Go(w, pc)
    PROVE  Ownership'
<1>1. \A v \in Workers : v # w => wpc'[v] = wpc[v]
  BY DEF Go, TypeOK, PoolTypeOK
<1>2. QED BY <1>1 DEF Ownership, OneWorkerPerLane, Owns

\* A worker that gives up the lane it owns, and touches no other, keeps ownership.
LEMMA OwnershipGivenUp ==
    ASSUME Ownership, TypeOK, NEW w \in Workers, up, Owns(w), UNCHANGED up, Unhand(w),
           \A l \in Lanes : l # wlane[w] => place'[l] = place[l]
    PROVE  Ownership'
<1>1. \A v \in Workers : v # w => wpc'[v] = wpc[v] /\ wlane'[v] = wlane[v]
  BY DEF Unhand, Go, TypeOK, PoolTypeOK
<1>2. wpc'[w] = "idle"
  BY DEF Unhand, Go, TypeOK, PoolTypeOK
<1>3. \A v \in Workers : v # w /\ Owns(v) => wlane[v] # wlane[w] /\ wlane[v] \in Lanes
  BY DEF Ownership, OneWorkerPerLane, TypeOK, PoolTypeOK
<1>4. QED BY <1>1, <1>2, <1>3 DEF Ownership, OneWorkerPerLane, Owns

\* Every step of a worker keeps ownership; ClaimLane only takes a waiting lane.
LEMMA OwnershipWorker ==
    ASSUME Ownership, TypeOK, NEW w \in Workers, Worker(w) PROVE Ownership'
<1>1. CASE PopLane(w)
  <2>1. \A v \in Workers : v # w => wpc'[v] = wpc[v] /\ wlane'[v] = wlane[v]
    BY <1>1 DEF PopLane, Go, TypeOK, PoolTypeOK
  <2>2. wpc'[w] = "popped" /\ up /\ up' = up /\ place' = place
    BY <1>1 DEF PopLane, At, Go, TypeOK, PoolTypeOK
  <2>3. QED BY <2>1, <2>2 DEF Ownership, OneWorkerPerLane, Owns
<1>2. CASE ClaimLane(w)
  <2>0. up /\ up' = up /\ wpc[w] = "popped" /\ wlane[w] \in Lanes
    BY <1>2 DEF ClaimLane, At, TypeOK, PoolTypeOK
  <2>1. CASE place[wlane[w]] = "Queued"
    <3>1. wpc' = [wpc EXCEPT ![w] = "head"] /\ wlane' = wlane
      BY <1>2, <2>1 DEF ClaimLane, Step, Go
    <3>2. place' = [place EXCEPT ![wlane[w]] = "Running"]
      BY <1>2, <2>1 DEF ClaimLane, Claim
    <3>3. \A v \in Workers : Owns(v) => wlane[v] # wlane[w]
      BY <2>1 DEF Ownership
    <3>4. QED
      BY <2>0, <3>1, <3>2, <3>3
         DEF Ownership, OneWorkerPerLane, Owns, TypeOK, PoolTypeOK, LaneTypeOK
  <2>2. CASE place[wlane[w]] # "Queued"
    <3>1. Unhand(w) /\ place' = place
      BY <1>2, <2>2 DEF ClaimLane
    <3>2. \A v \in Workers : v # w => wpc'[v] = wpc[v] /\ wlane'[v] = wlane[v]
      BY <3>1 DEF Unhand, Go, TypeOK, PoolTypeOK
    <3>3. wpc'[w] = "idle"
      BY <3>1 DEF Unhand, Go, TypeOK, PoolTypeOK
    <3>4. QED BY <2>0, <3>1, <3>2, <3>3 DEF Ownership, OneWorkerPerLane, Owns
  <2>3. QED BY <2>1, <2>2
<1>3. CASE TakeHead(w)
  <2>1. up /\ Owns(w) /\ up' = up /\ place' = place
    BY <1>3 DEF TakeHead, At, Owns, Freeze
  <2>2. UNCHANGED wlane /\ (Go(w, "release") \/ Go(w, "begin"))
    BY <1>3 DEF TakeHead, Step
  <2>3. QED BY <2>1, <2>2, OwnershipStepped
<1>4. CASE Begin(w)
  <2>1. up /\ Owns(w) /\ up' = up /\ place' = place
    BY <1>4 DEF Begin, At, Owns
  <2>2. UNCHANGED wlane /\ (Go(w, "retire") \/ Go(w, "skip") \/ Go(w, "run"))
    BY <1>4 DEF Begin, Step
  <2>3. QED BY <2>1, <2>2, OwnershipStepped
<1>5. CASE SkipWedged(w) \/ Finish(w) \/ Replay(w) \/ RecordLaneRow(w)
  <2>1. up /\ Owns(w) /\ up' = up /\ place' = place
    BY <1>5 DEF SkipWedged, Finish, Replay, RecordLaneRow, At, Owns
  <2>2. /\ UNCHANGED wlane
        /\ \/ Go(w, "retire") \/ Go(w, "verify") \/ Go(w, "release")
           \/ Go(w, "noted") \/ Go(w, "head")
    BY <1>5 DEF SkipWedged, Finish, Replay, RecordLaneRow, Step
  <2>3. QED BY <2>1, <2>2, OwnershipStepped
<1>6. CASE Retire(w) \/ NoteLaneRow(w)
  <2>1. up /\ Owns(w) /\ up' = up /\ place' = place
    BY <1>6 DEF Retire, Complete, NoteLaneRow, At, Owns
  <2>2. UNCHANGED wlane /\ (Go(w, "row") \/ Go(w, "head"))
    BY <1>6 DEF Retire, NoteLaneRow, Step
  <2>3. QED BY <2>1, <2>2, OwnershipStepped
<1>7. CASE Fail(w) \/ LoseAnswer(w)
  <2>1. Park(w) /\ up /\ Owns(w) /\ up' = up
    BY <1>7 DEF Fail, LoseAnswer, Park, At, Owns
  <2>2. Unhand(w) /\ place' = [place EXCEPT ![wlane[w]] = "Deferred"]
    BY <2>1 DEF Park, Defer
  <2>3. \A l \in Lanes : l # wlane[w] => place'[l] = place[l]
    BY <2>2 DEF TypeOK, LaneTypeOK
  <2>4. QED BY <2>1, <2>2, <2>3, OwnershipGivenUp
<1>8. CASE ReleaseLane(w)
  <2>1. Unhand(w) /\ up /\ Owns(w) /\ up' = up
    BY <1>8 DEF ReleaseLane, At, Owns
  <2>2. \A l \in Lanes : l # wlane[w] => place'[l] = place[l]
    BY <1>8 DEF ReleaseLane, Release, TypeOK, LaneTypeOK
  <2>3. QED BY <2>1, <2>2, OwnershipGivenUp
<1>9. QED
  BY <1>1, <1>2, <1>3, <1>4, <1>5, <1>6, <1>7, <1>8 DEF Worker

\* Every step of the reader keeps ownership: it wakes and offers only lanes that
\* no worker owns.
LEMMA OwnershipReader == ASSUME Ownership, TypeOK, Reader PROVE Ownership'
<1>0. wlane \in [Workers -> Lanes]
  BY DEF TypeOK, PoolTypeOK
<1>1. CASE \E l \in Lanes : Wake(l)
  <2>1. PICK l \in Lanes : Wake(l)
    BY <1>1
  <2>2. place[l] = "Deferred" /\ place' = [place EXCEPT ![l] = "Queued"]
    BY <2>1 DEF Wake, Promote, PromoteMatching, SkipWakes
  <2>3. \A m \in Lanes : place[m] = "Running" => place'[m] = "Running"
    BY <2>2 DEF TypeOK, LaneTypeOK
  <2>4. UNCHANGED up /\ UNCHANGED <<wpc, wlane>>
    BY <2>1 DEF Wake
  <2>5. QED BY <1>0, <2>3, <2>4, OwnershipKept
<1>2. CASE AdmitNext
  <2>1. \A m \in Lanes : place[m] = "Running" => place'[m] = "Running"
    <3>1. CASE Answered(seen + 1)
      <4>1. Admit(LaneOf(seen + 1), seen + 1, ArmOf(seen + 1),
                  Collapsible(ArmOf(seen + 1), LaneOf(seen + 1)))
        BY <1>2, <3>1 DEF AdmitNext
      <4>2. \/ place' = place
            \/ place' = [place EXCEPT ![LaneOf(seen + 1)] =
                            IF NeedsOffer(LaneOf(seen + 1), seen + 1) THEN "Queued" ELSE @]
        BY <4>1 DEF Admit
      <4>3. QED BY <4>2 DEF NeedsOffer, TypeOK, LaneTypeOK
    <3>2. CASE ~Answered(seen + 1)
      BY <1>2, <3>2 DEF AdmitNext
    <3>3. QED BY <3>1, <3>2
  <2>2. UNCHANGED up /\ UNCHANGED <<wpc, wlane>>
    BY <1>2 DEF AdmitNext
  <2>3. QED BY <1>0, <2>1, <2>2, OwnershipKept
<1>3. CASE Promoted \/ Poll \/ ReadMark \/ PersistMark \/ ForgetPassed \/ SweepRows
            \/ PrunePassed \/ DriverError \/ Resubscribe
  <2>1. UNCHANGED <<up, place>> /\ UNCHANGED <<wpc, wlane>>
    BY <1>3 DEF Promoted, Poll, ReadMark, PersistMark, ForgetPassed, Forget, SweepRows,
                PrunePassed, PruneRows, DriverError, Resubscribe
  <2>2. QED BY <1>0, <2>1, OwnershipKept
<1>4. QED BY <1>1, <1>2, <1>3 DEF Reader

\* Ownership is an invariant: whatever the pool holds, an owned lane is "Running".
THEOREM OwnershipCorrect == Spec => []Ownership
<1>1. Init => Ownership
  BY DEF Init, Ownership, OneWorkerPerLane, Owns
<1>2. TypeOK /\ Ownership /\ [Next]_vars => Ownership'
  <2> SUFFICES ASSUME TypeOK, Ownership, [Next]_vars PROVE Ownership'
    OBVIOUS
  <2>0. wlane \in [Workers -> Lanes]
    BY DEF TypeOK, PoolTypeOK
  <2>1. CASE AppendEvent \/ Rewind \/ RequestSkip \/ SweepInvocation \/ UNCHANGED vars
    <3>1. UNCHANGED <<up, place>> /\ UNCHANGED <<wpc, wlane>>
      BY <2>1 DEF AppendEvent, Rewind, RequestSkip, SweepInvocation, vars
    <3>2. QED BY <2>0, <3>1, OwnershipKept
  <2>2. CASE Start
    BY <2>2 DEF Start, Ownership, OneWorkerPerLane, Owns
  <2>3. CASE Crash
    BY <2>3 DEF Crash, Ownership, OneWorkerPerLane, Owns
  <2>4. CASE Reader
    BY <2>4, OwnershipReader
  <2>5. CASE \E w \in Workers : Worker(w)
    BY <2>5, OwnershipWorker
  <2>6. QED BY <2>1, <2>2, <2>3, <2>4, <2>5 DEF Next
<1>3. QED BY <1>1, <1>2, TypeCorrect, PTL DEF Spec

\* No two workers ever run one lane (LaneState::claim), for any pool, any number of
\* lanes, and through failed reads and writes, re-subscribes and crashes.
THEOREM LaneExclusion == Spec => []OneWorkerPerLane
<1>1. Ownership => OneWorkerPerLane
  BY DEF Ownership
<1>2. QED BY <1>1, OwnershipCorrect, PTL

-----------------------------------------------------------------------------
(* The head of a lane.                                                     *)
(*                                                                         *)
(* The group a worker is running stays the head of its lane, as it was     *)
(* taken (LaneState::head).  The danger is a position admitted while its   *)
(* lane runs.  It can neither supersede the head, which was closed when it *)
(* was taken, nor reopen it: reopening would need the very position that   *)
(* runs to be admitted again, which the lane's high-water refuses.  So the *)
(* argument turns on the high-water outliving the group, and that on the   *)
(* mark: forget drops only what the mark has passed, and the mark never    *)
(* passes the oldest position of a queued group.  HeadInv is the           *)
(* conjunction that carries it.                                            *)

\* Every queued group holds the mark by its oldest position, which no other group of
\* the lane shares, and its lane will not take its positions again.
QueueSound ==
    \A l \in Lanes :
      /\ \A i \in 1..Len(queues[l]) :
           /\ queues[l][i].lo \in inflight
           /\ queues[l][i].lo <= queues[l][i].hi
           /\ queues[l][i].hi <= high[l]
           /\ queues[l][i].lo \in 1..Len(log)
           /\ LaneOf(queues[l][i].lo) = l
      /\ \A i, j \in 1..Len(queues[l]) :
           i # j => queues[l][i].lo # queues[l][j].lo

\* From when the low-water mark is read until the dispatcher has forgotten what it
\* passed, every queued group lies above it.
QueuedAboveMark ==
    rpc \in {"persist", "forget"} =>
      \A l \in Lanes : \A i \in 1..Len(queues[l]) : pub < queues[l][i].lo

\* The inductive invariant behind FrozenHead.
HeadInv == TypeOK /\ Ownership /\ QueueSound /\ QueuedAboveMark /\ FrozenHead

\* A queue is a finite sequence of groups.
LEMMA QueueType ==
    ASSUME TypeOK, NEW l \in Lanes
    PROVE  /\ queues[l] \in Seq(Group) /\ Len(queues[l]) \in Nat
           /\ \A i \in 1..Len(queues[l]) :
                /\ queues[l][i] \in Group
                /\ queues[l][i].lo \in Nat /\ queues[l][i].hi \in Nat
                /\ queues[l][i].arm \in Arms
           /\ queues[l] # <<>> => Len(queues[l]) >= 1
<1>1. queues[l] \in Seq(Group)
  BY DEF TypeOK, LaneTypeOK
<1>2. Len(queues[l]) \in Nat /\ (queues[l] # <<>> => Len(queues[l]) >= 1)
  BY <1>1, EmptySeq, LenProperties
<1>3. \A i \in 1..Len(queues[l]) : queues[l][i] \in Group
  BY <1>1, ElementOfSeq
<1>4. QED BY <1>1, <1>2, <1>3 DEF Group

\* What is left of a queue when the group at index i is taken out.
LEMMA WithoutElements ==
    ASSUME NEW S, NEW q \in Seq(S), NEW i \in 1..Len(q)
    PROVE  /\ Len(Without(q, i)) = Len(q) - 1
           /\ \A j \in 1..(Len(q) - 1) :
                Without(q, i)[j] = q[IF j < i THEN j ELSE j + 1]
<1> DEFINE a == SubSeq(q, 1, i - 1)
           b == SubSeq(q, i + 1, Len(q))
<1>0. Len(q) \in Nat /\ i \in Int
  BY LenProperties
<1>1. /\ a \in Seq(S) /\ Len(a) = i - 1
      /\ \A j \in 1..(i - 1) : a[j] = q[j]
  <2>1. \A j \in 1..(i - 1) : q[j] \in S
    BY <1>0, ElementOfSeq
  <2>2. QED BY <1>0, <2>1, SubSeqProperties
<1>2. /\ b \in Seq(S) /\ Len(b) = Len(q) - i
      /\ \A j \in 1..(Len(q) - i) : b[j] = q[i + j]
  <2>1. \A j \in (i + 1)..Len(q) : q[j] \in S
    BY <1>0, ElementOfSeq
  <2>2. QED BY <1>0, <2>1, SubSeqProperties
<1> HIDE DEF a, b
<1>3. /\ Len(a \o b) = Len(a) + Len(b)
      /\ \A j \in 1..(Len(a) + Len(b)) :
           (a \o b)[j] = IF j <= Len(a) THEN a[j] ELSE b[j - Len(a)]
  BY <1>1, <1>2, ConcatProperties
<1>4. Without(q, i) = a \o b
  BY DEF Without, a, b
<1>5. Len(Without(q, i)) = Len(q) - 1
  <2>1. Len(a) + Len(b) = Len(q) - 1
    BY <1>0, <1>1, <1>2
  <2>2. QED BY <1>3, <1>4, <2>1
<1>6. ASSUME NEW j \in 1..(Len(q) - 1)
      PROVE  Without(q, i)[j] = q[IF j < i THEN j ELSE j + 1]
  <2>1. CASE j < i
    BY <1>0, <1>1, <1>2, <1>3, <1>4, <2>1
  <2>2. CASE ~(j < i)
    <3>1. (a \o b)[j] = b[j - (i - 1)]
      BY <1>0, <1>1, <1>2, <1>3, <2>2
    <3>2. j - (i - 1) \in 1..(Len(q) - i)
      BY <1>0, <2>2
    <3>3. b[j - (i - 1)] = q[i + (j - (i - 1))]
      BY <1>2, <3>2
    <3>4. i + (j - (i - 1)) = j + 1
      BY <1>0
    <3>5. QED BY <1>4, <2>2, <3>1, <3>3, <3>4
  <2>3. QED BY <2>1, <2>2
<1>7. QED BY <1>5, <1>6

\* QueueSound speaks of four variables.
LEMMA QueueSoundFrame ==
    ASSUME QueueSound, UNCHANGED <<queues, inflight, high, log>>
    PROVE  QueueSound'
BY DEF QueueSound, LaneOf

\* A dispatcher without queues satisfies it.
LEMMA QueueSoundEmpty ==
    ASSUME queues' = [l \in Lanes |-> <<>>]
    PROVE  QueueSound' /\ (\A l \in Lanes : Len(queues'[l]) = 0)
<1>1. \A l \in Lanes : Len(queues'[l]) = 0
  BY EmptySeq
<1>2. QED BY <1>1 DEF QueueSound

\* A step that leaves queues and open groups alone, and after which a worker holds
\* only what it held before, keeps heads frozen.
LEMMA FrozenFrame ==
    ASSUME FrozenHead, UNCHANGED <<queues, latest>>,
           \A v \in Workers : Holds(v)' =>
             Holds(v) /\ wlane'[v] = wlane[v] /\ work'[v] = work[v]
    PROVE  FrozenHead'
BY DEF FrozenHead, Front

\* The log grows at its end, so no position changes its lane.
LEMMA QueueSoundAppendEvent ==
    ASSUME TypeOK, QueueSound, AppendEvent PROVE QueueSound'
<1>1. PICK e \in Events : log' = Append(log, e)
  BY DEF AppendEvent
<1>2. /\ Len(log) \in Nat /\ Len(log') = Len(log) + 1
      /\ \A p \in 1..Len(log) : log'[p] = log[p]
  BY <1>1, AppendProperties, LenProperties DEF TypeOK, StoreTypeOK
<1>3. UNCHANGED <<queues, inflight, high>>
  BY DEF AppendEvent
<1>4. QED BY <1>2, <1>3 DEF QueueSound, LaneOf

\* Forgetting high-waters the mark has passed forgets none that covers a queued
\* group, because every one of them lies above the mark (LaneState::forget).
LEMMA QueueSoundForget ==
    ASSUME TypeOK, QueueSound, QueuedAboveMark, ForgetPassed PROVE QueueSound'
<1>1. UNCHANGED <<queues, inflight, log>>
  BY DEF ForgetPassed
<1>2. \A l \in Lanes : high'[l] = IF high[l] > pub THEN high[l] ELSE 0
  BY DEF ForgetPassed, Forget
<1>3. pub \in Nat /\ \A l \in Lanes : high[l] \in Nat
  BY LogLength DEF TypeOK, ReaderTypeOK, LaneTypeOK
<1>4. \A l \in Lanes : \A i \in 1..Len(queues[l]) : queues[l][i].hi <= high'[l]
  <2> TAKE l \in Lanes
  <2> TAKE i \in 1..Len(queues[l])
  <2>1. pub < queues[l][i].lo
    BY DEF ForgetPassed, Reading, QueuedAboveMark
  <2>2. /\ queues[l][i].lo <= queues[l][i].hi /\ queues[l][i].hi <= high[l]
    BY DEF QueueSound
  <2>3. queues[l][i].lo \in Nat /\ queues[l][i].hi \in Nat
    BY QueueType
  <2>4. QED BY <1>2, <1>3, <2>1, <2>2, <2>3
<1>5. QED BY <1>1, <1>4 DEF QueueSound, LaneOf

\* The queue after a takeover: the group at i is gone and its range is at the back.
LEMMA SupersededQueue ==
    ASSUME TypeOK, NEW l \in Lanes, NEW p \in Nat, NEW a \in Arms,
           NEW i \in OpenAt(l, a), Supersede(l, p, a, i)
    PROVE  /\ Len(queues'[l]) = Len(queues[l])
           /\ \A j \in 1..(Len(queues[l]) - 1) :
                queues'[l][j] = queues[l][IF j < i THEN j ELSE j + 1]
           /\ queues'[l][Len(queues[l])] = [lo |-> queues[l][i].lo, hi |-> p, arm |-> a]
           /\ i \in 1..Len(queues[l])
           /\ queues[l][i].hi = latest[l][a] /\ queues[l][i].arm = a
           /\ \A m \in Lanes : m # l => queues'[m] = queues[m]
           /\ inflight' = inflight
<1> DEFINE q == queues[l]
           r == Without(q, i)
           g == [lo |-> q[i].lo, hi |-> p, arm |-> a]
<1>1. /\ i \in 1..Len(q) /\ q[i].hi = latest[l][a] /\ q[i].arm = a
  BY DEF OpenAt
<1>2. q \in Seq(Group) /\ Len(q) \in Nat /\ g \in Group
  BY <1>1, QueueType DEF Group
<1>3. r \in Seq(Group)
  BY <1>1, <1>2, WithoutType
<1>4. /\ Len(r) = Len(q) - 1
      /\ \A j \in 1..(Len(q) - 1) : r[j] = q[IF j < i THEN j ELSE j + 1]
  BY <1>1, <1>2, WithoutElements
<1>5. /\ queues' = [queues EXCEPT ![l] = Append(r, g)]
      /\ inflight' = inflight
  BY DEF Supersede
<1>6. queues'[l] = Append(r, g) /\ \A m \in Lanes : m # l => queues'[m] = queues[m]
  BY <1>5 DEF TypeOK, LaneTypeOK
<1> HIDE DEF r, g
<1>7. /\ Len(Append(r, g)) = Len(r) + 1
      /\ \A j \in 1..Len(r) : Append(r, g)[j] = r[j]
      /\ Append(r, g)[Len(r) + 1] = g
  BY <1>2, <1>3, AppendProperties
<1>8. Len(r) + 1 = Len(q)
  BY <1>1, <1>2, <1>4
<1>9. QED
  BY <1>1, <1>4, <1>5, <1>6, <1>7, <1>8 DEF g

\* The queue after a position got a group of its own.
LEMMA EnqueuedQueue ==
    ASSUME TypeOK, NEW l \in Lanes, NEW p \in Nat, NEW a \in Arms, Enqueue(l, p, a)
    PROVE  /\ Len(queues'[l]) = Len(queues[l]) + 1
           /\ \A j \in 1..Len(queues[l]) : queues'[l][j] = queues[l][j]
           /\ queues'[l][Len(queues[l]) + 1] = [lo |-> p, hi |-> p, arm |-> a]
           /\ \A m \in Lanes : m # l => queues'[m] = queues[m]
           /\ inflight' = inflight \cup {p}
<1>1. queues[l] \in Seq(Group) /\ [lo |-> p, hi |-> p, arm |-> a] \in Group
  BY QueueType DEF Group
<1>2. QED
  BY <1>1, AppendProperties DEF Enqueue, TypeOK, LaneTypeOK

\* If only the queue and open groups of one lane change, and a head that is held
\* stays where it is, heads stay frozen.
LEMMA FrozenSame ==
    ASSUME TypeOK, FrozenHead, NEW l \in Lanes, NEW p \in Nat,
           UNCHANGED <<wpc, wlane, work>>,
           \A m \in Lanes : m # l => queues'[m] = queues[m] /\ latest'[m] = latest[m],
           \A i \in 1..Len(queues[l]) :
             queues[l][i].hi \in Nat /\ queues[l][i].hi > 0 /\ queues[l][i].hi < p,
           \A b \in Arms : latest'[l][b] \in {latest[l][b], 0, p},
           \A v \in Workers : Holds(v) /\ wlane[v] = l =>
             queues'[l] # <<>> /\ queues'[l][1] = queues[l][1]
    PROVE  FrozenHead'
<1> SUFFICES ASSUME NEW v \in Workers, Holds(v)
             PROVE  /\ queues'[wlane[v]] # <<>>
                    /\ queues'[wlane[v]][1].hi = work[v].position
                    /\ queues'[wlane[v]][1].lo = work[v].from
                    /\ latest'[wlane[v]][queues'[wlane[v]][1].arm]
                         # queues'[wlane[v]][1].hi
  BY DEF FrozenHead, Front, Holds
<1>1. wlane[v] \in Lanes
  BY DEF TypeOK, PoolTypeOK
<1>2. /\ queues[wlane[v]] # <<>>
      /\ queues[wlane[v]][1].hi = work[v].position
      /\ queues[wlane[v]][1].lo = work[v].from
      /\ latest[wlane[v]][queues[wlane[v]][1].arm] # queues[wlane[v]][1].hi
  BY DEF FrozenHead, Front
<1>3. CASE wlane[v] # l
  BY <1>1, <1>2, <1>3
<1>4. CASE wlane[v] = l
  <2>1. 1 \in 1..Len(queues[l]) /\ queues[l][1].arm \in Arms
    <3>1. Len(queues[l]) \in Nat /\ Len(queues[l]) >= 1
      BY <1>2, <1>4, QueueType
    <3>2. QED BY <3>1, QueueType
  <2>2. queues'[l] # <<>> /\ queues'[l][1] = queues[l][1]
    BY <1>4
  <2>3. latest'[l][queues[l][1].arm] # queues[l][1].hi
    BY <1>2, <1>4, <2>1
  <2>4. QED BY <1>2, <1>4, <2>2, <2>3
<1>5. QED BY <1>3, <1>4

\* LaneState::admit keeps the queues sound and never touches a head being run: a
\* taken head is not open, so it cannot be superseded.
LEMMA AdmitKeeps ==
    ASSUME TypeOK, QueueSound, FrozenHead,
           NEW l \in Lanes, NEW p \in 1..Len(log), LaneOf(p) = l, NEW a \in Arms,
           NEW declared \in BOOLEAN, Admit(l, p, a, declared),
           UNCHANGED <<log, wpc, wlane, work>>
    PROVE  QueueSound' /\ FrozenHead'
<1>0. /\ Len(log) \in Nat /\ p \in Nat /\ p > 0
      /\ \A m \in Lanes : high[m] \in Nat
      /\ latest \in [Lanes -> [Arms -> Nat]]
      /\ wlane \in [Workers -> Lanes]
  BY LogLength DEF TypeOK, LaneTypeOK, PoolTypeOK
<1>1. CASE high[l] >= p
  <2>1. UNCHANGED queueVars
    BY <1>1 DEF Admit
  <2>2. QED
    BY <2>1, QueueSoundFrame, FrozenFrame DEF Holds
<1>2. CASE ~(high[l] >= p)
  <2>1. /\ high'[l] = p /\ \A m \in Lanes : m # l => high'[m] = high[m]
    BY <1>2 DEF Admit, TypeOK, LaneTypeOK
  <2>2. high[l] < p
    BY <1>0, <1>2
  <2>3. \A i \in 1..Len(queues[l]) :
          /\ queues[l][i].lo \in Nat /\ queues[l][i].lo > 0 /\ queues[l][i].lo < p
          /\ queues[l][i].hi \in Nat /\ queues[l][i].hi > 0 /\ queues[l][i].hi < p
    <3> TAKE i \in 1..Len(queues[l])
    <3>1. queues[l][i].lo \in Nat /\ queues[l][i].hi \in Nat
      BY QueueType
    <3>2. /\ queues[l][i].lo <= queues[l][i].hi /\ queues[l][i].hi <= high[l]
          /\ queues[l][i].lo \in 1..Len(log)
      BY DEF QueueSound
    <3>3. QED BY <1>0, <2>2, <3>1, <3>2
  <2>4. \A b \in Arms : latest'[l][b] \in {latest[l][b], 0, p}
    <3>1. latest' \in {latest, [latest EXCEPT ![l][a] = 0], [latest EXCEPT ![l][a] = p]}
      BY <1>2 DEF Admit
    <3>2. QED BY <1>0, <3>1
  <2>5. \A m \in Lanes : m # l => latest'[m] = latest[m]
    <3>1. latest' \in {latest, [latest EXCEPT ![l][a] = 0], [latest EXCEPT ![l][a] = p]}
      BY <1>2 DEF Admit
    <3>2. QED BY <1>0, <3>1
  <2>6. \/ Enqueue(l, p, a)
        \/ \E i \in OpenAt(l, a) : Supersede(l, p, a, i)
    BY <1>2 DEF Admit
  <2>7. CASE Enqueue(l, p, a)
    <3>1. /\ Len(queues'[l]) = Len(queues[l]) + 1
          /\ \A j \in 1..Len(queues[l]) : queues'[l][j] = queues[l][j]
          /\ queues'[l][Len(queues[l]) + 1] = [lo |-> p, hi |-> p, arm |-> a]
          /\ \A m \in Lanes : m # l => queues'[m] = queues[m]
          /\ inflight' = inflight \cup {p}
      BY <1>0, <2>7, EnqueuedQueue
    <3>2. QueueSound'
      <4> SUFFICES ASSUME NEW m \in Lanes
                   PROVE  /\ \A i \in 1..Len(queues'[m]) :
                               /\ queues'[m][i].lo \in inflight'
                               /\ queues'[m][i].lo <= queues'[m][i].hi
                               /\ queues'[m][i].hi <= high'[m]
                               /\ queues'[m][i].lo \in 1..Len(log)
                               /\ LaneOf(queues'[m][i].lo) = m
                          /\ \A i, j \in 1..Len(queues'[m]) :
                               i # j => queues'[m][i].lo # queues'[m][j].lo
        BY DEF QueueSound, LaneOf
      <4>1. CASE m # l
        BY <2>1, <3>1, <4>1, SMTT(20) DEF QueueSound
      <4>2. CASE m = l
        <5>1. Len(queues[l]) \in Nat
          BY QueueType
        <5>2. \A i \in 1..Len(queues'[l]) :
                i \in 1..Len(queues[l]) \/ i = Len(queues[l]) + 1
          BY <3>1, <5>1
        <5>3. \A i \in 1..Len(queues'[l]) :
                /\ queues'[l][i].lo \in inflight'
                /\ queues'[l][i].lo <= queues'[l][i].hi
                /\ queues'[l][i].hi <= high'[l]
                /\ queues'[l][i].lo \in 1..Len(log)
                /\ LaneOf(queues'[l][i].lo) = l
          <6> TAKE i \in 1..Len(queues'[l])
          <6>1. CASE i \in 1..Len(queues[l])
            <7>1. queues'[l][i] = queues[l][i]
              BY <3>1, <6>1
            <7>2. /\ queues[l][i].lo \in inflight
                  /\ queues[l][i].lo <= queues[l][i].hi
                  /\ queues[l][i].lo \in 1..Len(log)
                  /\ LaneOf(queues[l][i].lo) = l
              BY <6>1 DEF QueueSound
            <7>3. queues[l][i].hi <= high'[l]
              BY <1>0, <2>1, <2>3, <6>1
            <7>4. QED BY <3>1, <7>1, <7>2, <7>3
          <6>2. CASE i = Len(queues[l]) + 1
            BY <1>0, <2>1, <3>1, <6>2
          <6>3. QED BY <5>2, <6>1, <6>2
        <5>4. \A i, j \in 1..Len(queues'[l]) :
                i # j => queues'[l][i].lo # queues'[l][j].lo
          <6>1. \A i, j \in 1..Len(queues[l]) :
                  i # j => queues[l][i].lo # queues[l][j].lo
            BY DEF QueueSound
          <6>2. \A i \in 1..Len(queues[l]) : queues'[l][i].lo = queues[l][i].lo
            BY <3>1
          <6>3. queues'[l][Len(queues[l]) + 1].lo = p
            BY <3>1
          <6>4. \A i \in 1..Len(queues[l]) : queues[l][i].lo # p
            BY <1>0, <2>3
          <6> SUFFICES ASSUME NEW i \in 1..Len(queues'[l]), NEW j \in 1..Len(queues'[l]),
                              i # j
                       PROVE  queues'[l][i].lo # queues'[l][j].lo
            OBVIOUS
          <6>5. CASE i \in 1..Len(queues[l]) /\ j \in 1..Len(queues[l])
            BY <6>1, <6>2, <6>5
          <6>6. CASE i \in 1..Len(queues[l]) /\ j = Len(queues[l]) + 1
            BY <6>2, <6>3, <6>4, <6>6
          <6>7. CASE i = Len(queues[l]) + 1 /\ j \in 1..Len(queues[l])
            BY <6>2, <6>3, <6>4, <6>7
          <6>8. QED BY <5>2, <6>5, <6>6, <6>7
        <5>5. QED BY <4>2, <5>3, <5>4
      <4>3. QED BY <4>1, <4>2
    <3>3. \A v \in Workers : Holds(v) /\ wlane[v] = l =>
            queues'[l] # <<>> /\ queues'[l][1] = queues[l][1]
      <4> TAKE v \in Workers
      <4> HAVE Holds(v) /\ wlane[v] = l
      <4>1. queues[l] # <<>>
        BY DEF FrozenHead
      <4>2. Len(queues[l]) \in Nat /\ Len(queues[l]) >= 1
        BY <4>1, QueueType
      <4>3. QED BY <3>1, <4>2, EmptySeq
    <3>4. QED
      BY <1>0, <2>3, <2>4, <2>5, <3>1, <3>2, <3>3, FrozenSame, ZenonT(40)
  <2>8. CASE \E i \in OpenAt(l, a) : Supersede(l, p, a, i)
    <3>0. PICK i \in OpenAt(l, a) : Supersede(l, p, a, i)
      BY <2>8
    <3> DEFINE n == Len(queues[l])
    <3>1. /\ Len(queues'[l]) = n
          /\ \A j \in 1..(n - 1) : queues'[l][j] = queues[l][IF j < i THEN j ELSE j + 1]
          /\ queues'[l][n] = [lo |-> queues[l][i].lo, hi |-> p, arm |-> a]
          /\ i \in 1..n
          /\ queues[l][i].hi = latest[l][a] /\ queues[l][i].arm = a
          /\ \A m \in Lanes : m # l => queues'[m] = queues[m]
          /\ inflight' = inflight
      BY <1>0, <3>0, SupersededQueue
    <3>1a. n \in Nat
      BY QueueType
    <3> HIDE DEF n
    <3>2. QueueSound'
      <4> SUFFICES ASSUME NEW m \in Lanes
                   PROVE  /\ \A j \in 1..Len(queues'[m]) :
                               /\ queues'[m][j].lo \in inflight'
                               /\ queues'[m][j].lo <= queues'[m][j].hi
                               /\ queues'[m][j].hi <= high'[m]
                               /\ queues'[m][j].lo \in 1..Len(log)
                               /\ LaneOf(queues'[m][j].lo) = m
                          /\ \A j, k \in 1..Len(queues'[m]) :
                               j # k => queues'[m][j].lo # queues'[m][k].lo
        BY DEF QueueSound, LaneOf
      <4>1. CASE m # l
        BY <2>1, <3>1, <4>1, SMTT(20) DEF QueueSound
      <4>2. CASE m = l
        <5> DEFINE k(j) == IF j = n THEN i ELSE IF j < i THEN j ELSE j + 1
        <5>1. \A j \in 1..n : k(j) \in 1..n
          BY <3>1, <3>1a
        <5>2. \A j, h \in 1..n : j # h => k(j) # k(h)
          BY <3>1, <3>1a
        <5>3. \A j \in 1..n :
                /\ queues'[l][j].lo = queues[l][k(j)].lo
                /\ queues'[l][j].hi = p \/ queues'[l][j].hi = queues[l][k(j)].hi
          <6> TAKE j \in 1..n
          <6>1. CASE j = n
            BY <3>1, <6>1
          <6>2. CASE j # n
            <7>1. j \in 1..(n - 1)
              BY <3>1a, <6>2
            <7>2. QED BY <3>1, <6>2, <7>1
          <6>3. QED BY <6>1, <6>2
        <5> HIDE DEF k
        <5>4. \A j \in 1..n :
                /\ queues[l][j].lo \in inflight
                /\ queues[l][j].lo <= queues[l][j].hi
                /\ queues[l][j].lo \in 1..Len(log)
                /\ LaneOf(queues[l][j].lo) = l
          BY DEF QueueSound, n
        <5>5. \A j \in 1..n :
                /\ queues[l][j].lo \in Nat /\ queues[l][j].lo < p
                /\ queues[l][j].hi \in Nat /\ queues[l][j].hi < p
          BY <2>3 DEF n
        <5>6. \A j \in 1..n :
                /\ queues'[l][j].lo \in inflight'
                /\ queues'[l][j].lo <= queues'[l][j].hi
                /\ queues'[l][j].hi <= high'[l]
                /\ queues'[l][j].lo \in 1..Len(log)
                /\ LaneOf(queues'[l][j].lo) = l
          <6> TAKE j \in 1..n
          <6>1. k(j) \in 1..n
            BY <5>1
          <6>2. /\ queues'[l][j].lo = queues[l][k(j)].lo
                /\ queues'[l][j].hi = p \/ queues'[l][j].hi = queues[l][k(j)].hi
            BY <5>3
          <6>3. /\ queues[l][k(j)].lo \in inflight
                /\ queues[l][k(j)].lo <= queues[l][k(j)].hi
                /\ queues[l][k(j)].lo \in 1..Len(log)
                /\ LaneOf(queues[l][k(j)].lo) = l
            BY <5>4, <6>1
          <6>4. /\ queues[l][k(j)].lo \in Nat /\ queues[l][k(j)].lo < p
                /\ queues[l][k(j)].hi \in Nat /\ queues[l][k(j)].hi < p
            BY <5>5, <6>1
          <6>5. queues'[l][j].lo <= queues'[l][j].hi /\ queues'[l][j].hi <= high'[l]
            BY <1>0, <2>1, <6>2, <6>3, <6>4
          <6>6. QED BY <3>1, <6>2, <6>3, <6>5
        <5>7. \A j, h \in 1..n : j # h => queues'[l][j].lo # queues'[l][h].lo
          <6>1. \A j, h \in 1..n : j # h => queues[l][j].lo # queues[l][h].lo
            BY DEF QueueSound, n
          <6>2. QED BY <5>1, <5>2, <5>3, <6>1
        <5>8. QED BY <3>1, <4>2, <5>6, <5>7
      <4>3. QED BY <4>1, <4>2
    <3>3. \A v \in Workers : Holds(v) /\ wlane[v] = l =>
            queues'[l] # <<>> /\ queues'[l][1] = queues[l][1]
      <4> TAKE v \in Workers
      <4> HAVE Holds(v) /\ wlane[v] = l
      <4>1. latest[l][queues[l][1].arm] # queues[l][1].hi
        BY DEF FrozenHead, Front
      <4>2. i # 1
        BY <3>1, <4>1
      <4>3. n >= 2 /\ 1 \in 1..(n - 1) /\ 1 < i
        BY <3>1, <3>1a, <4>2
      <4>4. queues'[l][1] = queues[l][1]
        BY <3>1, <4>3
      <4>5. queues'[l] # <<>>
        BY <3>1, <4>3, EmptySeq
      <4>6. QED BY <4>4, <4>5
    <3>4. QED
      BY <1>0, <2>3, <2>4, <2>5, <3>1, <3>2, <3>3, FrozenSame, ZenonT(40)
  <2>9. QED BY <2>6, <2>7, <2>8
<1>3. QED BY <1>1, <1>2

\* The queue after its head retired.
LEMMA RetiredQueue ==
    ASSUME TypeOK, QueueSound, FrozenHead, NEW w \in Workers, Retire(w)
    PROVE  /\ wlane[w] \in Lanes
           /\ Len(queues[wlane[w]]) \in Nat /\ Len(queues[wlane[w]]) >= 1
           /\ Len(queues'[wlane[w]]) = Len(queues[wlane[w]]) - 1
           /\ \A i \in 1..(Len(queues[wlane[w]]) - 1) :
                queues'[wlane[w]][i] = queues[wlane[w]][i + 1]
           /\ \A m \in Lanes : m # wlane[w] =>
                queues'[m] = queues[m] /\ latest'[m] = latest[m]
           /\ inflight' = inflight \ {queues[wlane[w]][1].lo}
<1> DEFINE l == wlane[w]
<1>1. l \in Lanes /\ Holds(w)
  BY DEF Retire, At, Holds, TypeOK, PoolTypeOK
<1>2. queues[l] # <<>> /\ Front(l).hi = work[w].position
  BY <1>1 DEF FrozenHead
<1>3. queues[l] \in Seq(Group) /\ Len(queues[l]) \in Nat /\ Len(queues[l]) >= 1
  BY <1>1, <1>2, QueueType
<1>4. /\ queues' = [queues EXCEPT ![l] = Tail(@)]
      /\ Close(l, Front(l))
      /\ inflight' = inflight \ {Front(l).lo}
  BY <1>2 DEF Retire, Complete
<1>5. /\ Len(Tail(queues[l])) = Len(queues[l]) - 1
      /\ \A i \in 1..Len(Tail(queues[l])) : Tail(queues[l])[i] = queues[l][i + 1]
  BY <1>2, <1>3, HeadTailProperties
<1>6. queues'[l] = Tail(queues[l]) /\ \A m \in Lanes : m # l => queues'[m] = queues[m]
  BY <1>1, <1>4 DEF TypeOK, LaneTypeOK
<1>7. \A m \in Lanes : m # l => latest'[m] = latest[m]
  BY <1>4 DEF Close, TypeOK, LaneTypeOK
<1>8. QED BY <1>1, <1>3, <1>4, <1>5, <1>6, <1>7 DEF Front

\* Retiring releases exactly the in-flight entry of the group that left.
LEMMA RetireKeepsQueues ==
    ASSUME TypeOK, QueueSound, FrozenHead, NEW w \in Workers, Retire(w)
    PROVE  QueueSound'
<1> DEFINE l == wlane[w]
           n == Len(queues[l])
<1>1. /\ l \in Lanes /\ n \in Nat /\ n >= 1 /\ Len(queues'[l]) = n - 1
      /\ \A i \in 1..(n - 1) : queues'[l][i] = queues[l][i + 1]
      /\ \A m \in Lanes : m # l => queues'[m] = queues[m]
      /\ inflight' = inflight \ {queues[l][1].lo}
  BY RetiredQueue
<1>2. UNCHANGED <<high, log>>
  BY DEF Retire, Complete
<1>3. /\ queues[l][1].lo \in 1..Len(log) /\ LaneOf(queues[l][1].lo) = l
  BY <1>1 DEF QueueSound
<1> SUFFICES ASSUME NEW m \in Lanes
             PROVE  /\ \A i \in 1..Len(queues'[m]) :
                         /\ queues'[m][i].lo \in inflight'
                         /\ queues'[m][i].lo <= queues'[m][i].hi
                         /\ queues'[m][i].hi <= high[m]
                         /\ queues'[m][i].lo \in 1..Len(log)
                         /\ LaneOf(queues'[m][i].lo) = m
                    /\ \A i, j \in 1..Len(queues'[m]) :
                         i # j => queues'[m][i].lo # queues'[m][j].lo
  BY <1>2 DEF QueueSound, LaneOf
<1>4. CASE m # l
  <2>1. queues'[m] = queues[m]
    BY <1>1, <1>4
  <2>2. \A i \in 1..Len(queues[m]) : queues[m][i].lo # queues[l][1].lo
    BY <1>3, <1>4 DEF QueueSound
  <2>3. QED BY <1>1, <2>1, <2>2 DEF QueueSound
<1>5. CASE m = l
  <2> HIDE DEF n
  <2>1. \A i \in 1..(n - 1) : i + 1 \in 1..n /\ i + 1 # 1
    BY <1>1
  <2>2. \A i, j \in 1..n : i # j => queues[l][i].lo # queues[l][j].lo
    BY <1>1 DEF QueueSound, n
  <2>3. \A i \in 1..n :
          /\ queues[l][i].lo \in inflight
          /\ queues[l][i].lo <= queues[l][i].hi
          /\ queues[l][i].hi <= high[l]
          /\ queues[l][i].lo \in 1..Len(log)
          /\ LaneOf(queues[l][i].lo) = l
    BY <1>1 DEF QueueSound, n
  <2>4. \A i \in 1..(n - 1) : queues[l][i + 1].lo # queues[l][1].lo
    BY <1>1, <2>1, <2>2
  <2>5. \A i \in 1..(n - 1) :
          /\ queues'[l][i].lo \in inflight'
          /\ queues'[l][i].lo <= queues'[l][i].hi
          /\ queues'[l][i].hi <= high[l]
          /\ queues'[l][i].lo \in 1..Len(log)
          /\ LaneOf(queues'[l][i].lo) = l
    BY <1>1, <2>1, <2>3, <2>4, SMTT(20)
  <2>6. \A i, j \in 1..(n - 1) : i # j => queues'[l][i].lo # queues'[l][j].lo
    <3> TAKE i, j \in 1..(n - 1)
    <3> HAVE i # j
    <3>1. i + 1 # j + 1 /\ i + 1 \in 1..n /\ j + 1 \in 1..n
      BY <1>1
    <3>2. QED BY <1>1, <2>2, <3>1
  <2>7. QED BY <1>1, <1>5, <2>5, <2>6
<1>6. QED BY <1>4, <1>5

\* Retiring leaves the heads the other workers hold alone: they own other lanes.
LEMMA RetireKeepsHeads ==
    ASSUME TypeOK, Ownership, QueueSound, FrozenHead, NEW w \in Workers, Retire(w)
    PROVE  FrozenHead'
<1> SUFFICES ASSUME NEW v \in Workers, Holds(v)'
             PROVE  /\ queues'[wlane'[v]] # <<>>
                    /\ queues'[wlane'[v]][1].hi = work'[v].position
                    /\ queues'[wlane'[v]][1].lo = work'[v].from
                    /\ latest'[wlane'[v]][queues'[wlane'[v]][1].arm]
                         # queues'[wlane'[v]][1].hi
  BY DEF FrozenHead, Front
<1>1. UNCHANGED <<wlane, work>> /\ (Go(w, "row") \/ Go(w, "head"))
  BY DEF Retire, Step
<1>2. v # w
  BY <1>1 DEF Go, Holds, TypeOK, PoolTypeOK
<1>3. wpc'[v] = wpc[v]
  BY <1>1, <1>2 DEF Go, TypeOK, PoolTypeOK
<1>4. Holds(v) /\ wlane[v] # wlane[w] /\ wlane[v] \in Lanes
  <2>1. Holds(v) /\ Owns(v) /\ Owns(w)
    BY <1>3 DEF Holds, Owns, Retire, At
  <2>2. QED BY <1>2, <2>1 DEF Ownership, OneWorkerPerLane, TypeOK, PoolTypeOK
<1>5. queues'[wlane[v]] = queues[wlane[v]] /\ latest'[wlane[v]] = latest[wlane[v]]
  BY <1>4, RetiredQueue
<1>6. QED
  BY <1>1, <1>4, <1>5 DEF FrozenHead, Front

\* Taking a head freezes it.
LEMMA TakeHeadKeepsHeads ==
    ASSUME TypeOK, Ownership, QueueSound, FrozenHead, NEW w \in Workers, TakeHead(w)
    PROVE  FrozenHead'
<1> DEFINE l == wlane[w]
<1>0. /\ l \in Lanes /\ up /\ wpc[w] = "head" /\ wlane' = wlane
      /\ queues' = queues /\ latest \in [Lanes -> [Arms -> Nat]]
  BY DEF TakeHead, Freeze, Step, At, TypeOK, PoolTypeOK, LaneTypeOK
<1>1. CASE halted \/ queues[l] = <<>>
  <2>1. Step(w, "release") /\ UNCHANGED queueVars
    BY <1>1 DEF TakeHead
  <2>2. QED
    BY <2>1, FrozenFrame DEF Step, Go, Holds, TypeOK, PoolTypeOK
<1>2. CASE ~(halted \/ queues[l] = <<>>)
  <2>1. /\ Freeze(l) /\ Go(w, "begin")
        /\ work' = [work EXCEPT ![w] = [position |-> Front(l).hi, from |-> Front(l).lo]]
    BY <1>2 DEF TakeHead
  <2>2. \A m \in Lanes : m # l => latest'[m] = latest[m]
    BY <1>0, <2>1 DEF Freeze, Close
  <2>3. Front(l).hi # 0 /\ Front(l).arm \in Arms
    <3>1. Len(queues[l]) \in Nat /\ Len(queues[l]) >= 1
      BY <1>0, <1>2, QueueType
    <3>2. 1 \in 1..Len(queues[l])
      BY <3>1
    <3>3. /\ queues[l][1].lo \in 1..Len(log) /\ queues[l][1].lo <= queues[l][1].hi
      BY <1>0, <3>2 DEF QueueSound
    <3>4. queues[l][1].hi \in Nat /\ queues[l][1].arm \in Arms
      BY <1>0, <3>2, QueueType
    <3>5. QED BY <3>3, <3>4, LogLength DEF Front
  <2>4. latest'[l][Front(l).arm] # Front(l).hi
    BY <1>0, <2>1, <2>3 DEF Freeze, Close
  <2>5. \A v \in Workers : v # w =>
          work'[v] = work[v] /\ wpc'[v] = wpc[v] /\ (Holds(v) => wlane[v] # l)
    <3>1. \A v \in Workers : v # w => work'[v] = work[v] /\ wpc'[v] = wpc[v]
      BY <2>1 DEF Go, TypeOK, PoolTypeOK
    <3>2. Owns(w) /\ \A v \in Workers : Holds(v) => Owns(v)
      BY <1>0 DEF Owns, Holds
    <3>3. QED BY <3>1, <3>2 DEF Ownership, OneWorkerPerLane
  <2>6. work'[w].position = Front(l).hi /\ work'[w].from = Front(l).lo
    BY <2>1 DEF TypeOK, PoolTypeOK
  <2> SUFFICES ASSUME NEW v \in Workers, Holds(v)'
               PROVE  /\ queues[wlane[v]] # <<>>
                      /\ queues[wlane[v]][1].hi = work'[v].position
                      /\ queues[wlane[v]][1].lo = work'[v].from
                      /\ latest'[wlane[v]][queues[wlane[v]][1].arm]
                           # queues[wlane[v]][1].hi
    BY <1>0 DEF FrozenHead, Front
  <2>7. CASE v = w
    BY <1>2, <2>4, <2>6, <2>7 DEF Front
  <2>8. CASE v # w
    <3>1. Holds(v) /\ wlane[v] # l /\ wlane[v] \in Lanes /\ work'[v] = work[v]
      BY <2>5, <2>8 DEF Holds, TypeOK, PoolTypeOK
    <3>2. QED BY <2>2, <3>1 DEF FrozenHead, Front
  <2>9. QED BY <2>7, <2>8
<1>3. QED BY <1>1, <1>2

\* The mark about to be published lies below every queued group.
LEMMA ReadMarkAbove ==
    ASSUME TypeOK, QueueSound, QueuedAboveMark, ReadMark PROVE QueuedAboveMark'
<1>1. queues' = queues
  BY DEF ReadMark
<1>2. CASE LowWater <= position
  BY <1>2 DEF ReadMark, PassEnds, QueuedAboveMark
<1>3. CASE ~(LowWater <= position)
  <2>1. pub' = LowWater
    BY <1>3 DEF ReadMark
  <2>2. \A l \in Lanes : \A i \in 1..Len(queues[l]) : LowWater < queues[l][i].lo
    <3> TAKE l \in Lanes
    <3> TAKE i \in 1..Len(queues[l])
    <3>1. queues[l][i].lo \in inflight
      BY DEF QueueSound
    <3>2. inflight \subseteq Nat \ {0} /\ scanned \in Nat
      BY DEF TypeOK, LaneTypeOK
    <3>3. Oldest \in Nat \ {0} /\ Oldest <= queues[l][i].lo
      BY <3>1, <3>2, OldestInFlight
    <3>4. LowWater <= Oldest - 1 /\ LowWater \in Nat
      <4>1. LowWater = Lesser(Oldest - 1, scanned)
        BY <3>1 DEF LowWater
      <4>2. Oldest - 1 \in Nat
        BY <3>3
      <4>3. QED BY <3>2, <4>1, <4>2 DEF Lesser
    <3>5. queues[l][i].lo \in Nat
      BY <3>1, <3>2
    <3>6. QED BY <3>3, <3>4, <3>5
  <2>3. QED BY <1>1, <2>1, <2>2 DEF QueuedAboveMark
<1>4. QED BY <1>2, <1>3

\* Until it has been published and forgotten, nothing is queued below it.
LEMMA AboveFrame ==
    ASSUME QueuedAboveMark, UNCHANGED <<queues, pub>>,
           rpc' \in {"persist", "forget"} => rpc \in {"persist", "forget"}
    PROVE  QueuedAboveMark'
BY DEF QueuedAboveMark

\* Every step of the reader keeps the three parts of HeadInv proved here.
LEMMA HeadReader ==
    ASSUME HeadInv, Reader PROVE QueueSound' /\ QueuedAboveMark' /\ FrozenHead'
<1> USE DEF HeadInv
<1>1. CASE AdmitNext
  <2> DEFINE p == seen + 1
  <2>1. QueuedAboveMark'
    BY <1>1 DEF AdmitNext, Reading, QueuedAboveMark
  <2>2. CASE Answered(p)
    <3>1. p \in 1..Len(log) /\ ArmOf(p) \in Arms
      BY <2>2 DEF Answered, AnswersUnder
    <3>2. LaneOf(p) \in Lanes
      BY <3>1, EventTypes
    <3>3. Admit(LaneOf(p), p, ArmOf(p), Collapsible(ArmOf(p), LaneOf(p)))
      BY <1>1, <2>2 DEF AdmitNext
    <3>4. Collapsible(ArmOf(p), LaneOf(p)) \in BOOLEAN
      BY DEF Collapsible
    <3>5. UNCHANGED <<log, wpc, wlane, work>>
      BY <1>1 DEF AdmitNext
    <3> HIDE DEF p
    <3>6. QueueSound' /\ FrozenHead'
      BY <3>1, <3>2, <3>3, <3>4, <3>5, AdmitKeeps
    <3>7. QED BY <2>1, <3>6
  <2>3. CASE ~Answered(p)
    <3>1. UNCHANGED <<queueVars, log, wpc, wlane, work>>
      BY <1>1, <2>3 DEF AdmitNext
    <3>2. QED BY <2>1, <3>1, QueueSoundFrame, FrozenFrame DEF Holds
  <2>4. QED BY <2>2, <2>3
<1>2. CASE ForgetPassed
  <2>1. /\ UNCHANGED <<queues, latest, pub, wpc, wlane, work>>
        /\ rpc' \notin {"persist", "forget"}
    BY <1>2 DEF ForgetPassed, PassEnds
  <2>2. QueueSound'
    BY <1>2, QueueSoundForget
  <2>3. QED BY <2>1, <2>2, AboveFrame, FrozenFrame DEF Holds
<1>3. CASE ReadMark
  <2>1. UNCHANGED <<queues, latest, inflight, high, log, wpc, wlane, work>>
    BY <1>3 DEF ReadMark
  <2>2. QED BY <1>3, <2>1, ReadMarkAbove, QueueSoundFrame, FrozenFrame DEF Holds
<1>4. CASE \/ \E l \in Lanes : Wake(l)
           \/ Promoted \/ Poll \/ PersistMark \/ SweepRows \/ PrunePassed
           \/ DriverError \/ Resubscribe
  <2>1. UNCHANGED <<queues, latest, inflight, high, log, wpc, wlane, work, pub>>
    BY <1>4 DEF Wake, Promote, PromoteMatching, Promoted, Poll, PersistMark, SweepRows,
                PrunePassed, PruneRows, DriverError, Resubscribe
  <2>2. rpc' \in {"persist", "forget"} => rpc \in {"persist", "forget"}
    BY <1>4 DEF Wake, Promoted, Poll, PersistMark, SweepRows, PrunePassed, PassEnds,
                DriverError, Resubscribe, Reading
  <2>3. QED BY <2>1, <2>2, QueueSoundFrame, AboveFrame, FrozenFrame DEF Holds
<1>5. QED BY <1>1, <1>2, <1>3, <1>4 DEF Reader

\* Every step of a worker does.
LEMMA HeadWorker ==
    ASSUME HeadInv, NEW w \in Workers, Worker(w)
    PROVE  QueueSound' /\ QueuedAboveMark' /\ FrozenHead'
<1> USE DEF HeadInv
<1>1. CASE Retire(w)
  <2>1. UNCHANGED <<rpc, pub>>
    BY <1>1 DEF Retire
  <2>2. QueuedAboveMark'
    <3> SUFFICES ASSUME rpc \in {"persist", "forget"}, NEW l \in Lanes,
                        NEW i \in 1..Len(queues'[l])
                 PROVE  pub < queues'[l][i].lo
      BY <2>1 DEF QueuedAboveMark
    <3>1. CASE l # wlane[w]
      BY <1>1, <3>1, RetiredQueue DEF QueuedAboveMark
    <3>2. CASE l = wlane[w]
      <4>1. /\ Len(queues[l]) \in Nat /\ Len(queues'[l]) = Len(queues[l]) - 1
            /\ \A j \in 1..(Len(queues[l]) - 1) : queues'[l][j] = queues[l][j + 1]
        BY <1>1, <3>2, RetiredQueue
      <4>2. i + 1 \in 1..Len(queues[l]) /\ queues'[l][i] = queues[l][i + 1]
        BY <4>1
      <4>3. QED BY <4>2 DEF QueuedAboveMark
    <3>3. QED BY <3>1, <3>2
  <2>3. QED BY <1>1, <2>2, RetireKeepsQueues, RetireKeepsHeads
<1>2. CASE TakeHead(w)
  <2>1. UNCHANGED <<queues, inflight, high, log, rpc, pub>>
    BY <1>2 DEF TakeHead, Freeze
  <2>2. QED BY <1>2, <2>1, QueueSoundFrame, AboveFrame, TakeHeadKeepsHeads
<1>3. CASE \/ PopLane(w) \/ ClaimLane(w) \/ Begin(w) \/ SkipWedged(w) \/ Finish(w)
           \/ Fail(w) \/ LoseAnswer(w) \/ Replay(w) \/ RecordLaneRow(w)
           \/ NoteLaneRow(w) \/ ReleaseLane(w)
  <2>1. UNCHANGED <<queues, latest, inflight, high, log, rpc, pub>>
    BY <1>3 DEF PopLane, ClaimLane, Claim, Begin, SkipWedged, Finish, Fail, LoseAnswer,
                Park, Defer, Replay, RecordLaneRow, NoteLaneRow, ReleaseLane, Release
  <2>2. \A v \in Workers : v # w =>
          wpc'[v] = wpc[v] /\ wlane'[v] = wlane[v] /\ work'[v] = work[v]
    BY <1>3 DEF PopLane, ClaimLane, Begin, SkipWedged, Finish, Fail, LoseAnswer, Park,
                Replay, RecordLaneRow, NoteLaneRow, ReleaseLane, Unhand, Step, Go,
                TypeOK, PoolTypeOK
  <2>3. Holds(w)' => Holds(w) /\ wlane'[w] = wlane[w] /\ work'[w] = work[w]
    <3>1. CASE \/ PopLane(w) \/ ClaimLane(w) \/ Fail(w) \/ LoseAnswer(w)
               \/ RecordLaneRow(w) \/ NoteLaneRow(w) \/ ReleaseLane(w)
      BY <3>1 DEF PopLane, ClaimLane, Fail, LoseAnswer, Park, RecordLaneRow,
                  NoteLaneRow, ReleaseLane, Unhand, Step, Go, Holds, TypeOK, PoolTypeOK
    <3>2. CASE Begin(w) \/ SkipWedged(w) \/ Finish(w) \/ Replay(w)
      BY <3>2 DEF Begin, SkipWedged, Finish, Replay, At, Step, Holds
    <3>3. QED BY <1>3, <3>1, <3>2
  <2>4. \A v \in Workers : Holds(v)' =>
          Holds(v) /\ wlane'[v] = wlane[v] /\ work'[v] = work[v]
    BY <2>2, <2>3 DEF Holds
  <2>5. QED BY <2>1, <2>4, QueueSoundFrame, AboveFrame, FrozenFrame
<1>4. QED BY <1>1, <1>2, <1>3 DEF Worker

\* They hold initially.
LEMMA HeadInit == Init => QueueSound /\ QueuedAboveMark /\ FrozenHead
<1> SUFFICES ASSUME Init PROVE QueueSound /\ QueuedAboveMark /\ FrozenHead
  OBVIOUS
<1>1. \A l \in Lanes : Len(queues[l]) = 0
  BY EmptySeq DEF Init
<1>2. QED BY <1>1 DEF Init, QueueSound, QueuedAboveMark, FrozenHead, Holds

\* They are inductive, given the types and ownership.
LEMMA HeadNext ==
    HeadInv /\ [Next]_vars => QueueSound' /\ QueuedAboveMark' /\ FrozenHead'
<1> SUFFICES ASSUME HeadInv, [Next]_vars
             PROVE  QueueSound' /\ QueuedAboveMark' /\ FrozenHead'
  OBVIOUS
<1>1. CASE AppendEvent
  <2>1. UNCHANGED <<queues, latest, rpc, pub, wpc, wlane, work>>
    BY <1>1 DEF AppendEvent
  <2>2. QED
    BY <1>1, <2>1, QueueSoundAppendEvent, AboveFrame, FrozenFrame DEF HeadInv, Holds
<1>2. CASE Start \/ Crash
  <2>1. queues' = [l \in Lanes |-> <<>>] /\ \A w \in Workers : wpc'[w] = "idle"
    <3>1. CASE Start
      BY <3>1 DEF Start, Resuming, HeadInv, Ownership
    <3>2. CASE Crash
      BY <3>2 DEF Crash, Resuming
    <3>3. QED BY <1>2, <3>1, <3>2
  <2>2. QED BY <2>1, QueueSoundEmpty DEF QueuedAboveMark, FrozenHead, Holds
<1>3. CASE Rewind \/ RequestSkip \/ SweepInvocation \/ UNCHANGED vars
  <2>1. UNCHANGED <<queues, latest, inflight, high, log, rpc, pub, wpc, wlane, work>>
    BY <1>3 DEF Rewind, RequestSkip, SweepInvocation, vars
  <2>2. QED
    BY <2>1, QueueSoundFrame, AboveFrame, FrozenFrame DEF HeadInv, Holds
<1>4. CASE Reader
  BY <1>4, HeadReader
<1>5. CASE \E w \in Workers : Worker(w)
  BY <1>5, HeadWorker
<1>6. QED BY <1>1, <1>2, <1>3, <1>4, <1>5 DEF Next

\* Every group queued in a lane is in flight under its own oldest position, and the
\* mark being published is below all of them (publish_mark, LaneState::forget): also
\* after a re-subscribe, when the cursor lies behind the mark.
THEOREM QueuesAboveMark == Spec => [](QueueSound /\ QueuedAboveMark /\ FrozenHead)
<1>1. Init => QueueSound /\ QueuedAboveMark /\ FrozenHead
  BY HeadInit
<1>2. TypeOK /\ Ownership /\ QueueSound /\ QueuedAboveMark /\ FrozenHead /\ [Next]_vars
        => QueueSound' /\ QueuedAboveMark' /\ FrozenHead'
  BY HeadNext DEF HeadInv
<1>3. QED BY <1>1, <1>2, TypeCorrect, OwnershipCorrect, PTL DEF Spec

\* What a worker runs is the head of its lane, with the range it was taken with, and
\* no position admitted meanwhile joins or replaces it (LaneState::head, admit).
THEOREM HeadsFrozen == Spec => []FrozenHead
BY QueuesAboveMark, PTL
-----------------------------------------------------------------------------
(* The place of a lane.                                                    *)
(*                                                                         *)
(* A lane that holds events must be where a worker will find it, and in no *)
(* second place.  The pool, the workers that have popped a lane and not    *)
(* yet claimed it, and LaneState::place are three records of one fact, and *)
(* they are updated at different moments.  Placed says they agree, lane by *)
(* lane and without counting; the count follows at the end.                *)

\* s holds l; s holds nothing twice.
In(s, l) == \E i \in 1..Len(s) : s[i] = l
Distinct(s) == \A i, j \in 1..Len(s) : i # j => s[i] # s[j]

\* A worker has taken l out of the pool and not claimed it yet.
Popped(w, l) == wpc[w] = "popped" /\ wlane[w] = l

\* A waiting lane is offered or popped, never both and never twice; a lane that is
\* neither is empty, parked with work, or in the hands of its worker.
Waiting ==
    /\ Distinct(ready)
    /\ \A v \in Workers : wpc[v] = "popped" => ~In(ready, wlane[v])
    /\ \A v, w \in Workers :
         v # w /\ wpc[v] = "popped" /\ wpc[w] = "popped" => wlane[v] # wlane[w]
    /\ \A l \in Lanes :
         /\ place[l] = "Queued" <=> In(ready, l) \/ \E w \in Workers : Popped(w, l)
         /\ place[l] = "None" => queues[l] = <<>>
         /\ place[l] = "Deferred" => queues[l] # <<>>
         /\ place[l] = "Running" => \E w \in Workers : Owns(w) /\ wlane[w] = l

\* A divergence stops the pool, and a process that is down has none.
Placed ==
    /\ ~up => ready = <<>>
    /\ up /\ ~halted => Waiting

\* Adding a new member at the back.
LEMMA AppendDistinct ==
    ASSUME NEW S, NEW s \in Seq(S), NEW x \in S
    PROVE  /\ \A y : In(Append(s, x), y) <=> In(s, y) \/ y = x
           /\ Distinct(s) /\ ~In(s, x) => Distinct(Append(s, x))
<1> DEFINE t == Append(s, x)
<1>1. /\ Len(s) \in Nat /\ Len(t) = Len(s) + 1
      /\ \A i \in 1..Len(s) : t[i] = s[i]
      /\ t[Len(s) + 1] = x
  BY AppendProperties, LenProperties
<1> HIDE DEF t
<1>2. \A i \in 1..Len(t) : i \in 1..Len(s) \/ i = Len(s) + 1
  BY <1>1
<1>3. 1..Len(s) \subseteq 1..Len(t) /\ Len(s) + 1 \in 1..Len(t)
  BY <1>1
<1>4. \A y : In(t, y) <=> In(s, y) \/ y = x
  BY <1>1, <1>2, <1>3 DEF In
<1>5. ASSUME Distinct(s), ~In(s, x), NEW i \in 1..Len(t), NEW j \in 1..Len(t), i # j
      PROVE  t[i] # t[j]
  <2>1. CASE i \in 1..Len(s) /\ j \in 1..Len(s)
    BY <1>1, <1>5, <2>1 DEF Distinct
  <2>2. CASE i \in 1..Len(s) /\ j = Len(s) + 1
    BY <1>1, <1>5, <2>2 DEF In
  <2>3. CASE i = Len(s) + 1 /\ j \in 1..Len(s)
    BY <1>1, <1>5, <2>3 DEF In
  <2>4. QED BY <1>2, <1>5, <2>1, <2>2, <2>3
<1>6. QED BY <1>4, <1>5 DEF t, Distinct

\* Taking the first member away.
LEMMA TailDistinct ==
    ASSUME NEW S, NEW s \in Seq(S), s # <<>>, Distinct(s)
    PROVE  /\ Head(s) \in S /\ In(s, Head(s)) /\ ~In(Tail(s), Head(s))
           /\ Tail(s) \in Seq(S) /\ Distinct(Tail(s))
           /\ \A y : In(s, y) <=> In(Tail(s), y) \/ y = Head(s)
<1> DEFINE t == Tail(s)
<1>1. /\ Len(s) \in Nat /\ Len(s) >= 1 /\ t \in Seq(S) /\ Len(t) = Len(s) - 1
      /\ \A i \in 1..Len(t) : t[i] = s[i + 1]
      /\ Head(s) = s[1] /\ Head(s) \in S
  BY HeadTailProperties, LenProperties, EmptySeq
<1> HIDE DEF t
<1>2. \A i \in 1..Len(t) : i + 1 \in 1..Len(s) /\ i + 1 # 1
  BY <1>1
<1>3. 1 \in 1..Len(s) /\ \A i \in 1..Len(s) : i = 1 \/ (i - 1 \in 1..Len(t) /\ (i - 1) + 1 = i)
  BY <1>1
<1>4. ~In(t, Head(s))
  BY <1>1, <1>2, <1>3 DEF In, Distinct
<1>5. \A y : In(s, y) <=> In(t, y) \/ y = Head(s)
  <2>1. ASSUME NEW y, In(s, y), y # Head(s) PROVE In(t, y)
    <3>1. PICK i \in 1..Len(s) : s[i] = y
      BY <2>1 DEF In
    <3>2. i - 1 \in 1..Len(t) /\ (i - 1) + 1 = i
      BY <1>1, <1>3, <2>1, <3>1
    <3>3. t[i - 1] = y
      BY <1>1, <3>1, <3>2
    <3>4. QED BY <3>2, <3>3 DEF In
  <2>2. ASSUME NEW y, In(t, y) \/ y = Head(s) PROVE In(s, y)
    BY <1>1, <1>2, <1>3, <2>2 DEF In
  <2>3. QED BY <2>1, <2>2
<1>6. ASSUME NEW i \in 1..Len(t), NEW j \in 1..Len(t), i # j PROVE t[i] # t[j]
  <2>1. i + 1 # j + 1 /\ i + 1 \in 1..Len(s) /\ j + 1 \in 1..Len(s)
    BY <1>1, <1>2, <1>6
  <2>2. QED BY <1>1, <2>1 DEF Distinct
<1>7. QED BY <1>1, <1>3, <1>4, <1>5, <1>6 DEF t, Distinct, In

\* A step that offers nothing and takes nothing leaves every lane where it is.
LEMMA PlacedKept ==
    ASSUME Placed, UNCHANGED <<up, ready, wlane, place>>,
           up' /\ ~halted' => ~halted,
           \A v \in Workers : wpc'[v] = "popped" <=> wpc[v] = "popped",
           \A v \in Workers : Owns(v) => Owns(v)',
           \A l \in Lanes : place[l] = "None" => queues'[l] = queues[l],
           \A l \in Lanes : place[l] = "Deferred" /\ queues[l] # <<>> => queues'[l] # <<>>
    PROVE  Placed'
<1>1. SUFFICES ASSUME up, ~halted, Waiting PROVE Waiting'
  BY DEF Placed
<1>2. \A l \in Lanes :
        (\E w \in Workers : Popped(w, l)') <=> (\E w \in Workers : Popped(w, l))
  BY DEF Popped
<1>3. QED BY <1>1, <1>2 DEF Waiting, In, Distinct

\* Offering a lane that is not waiting.
LEMMA PlacedOffered ==
    ASSUME TypeOK, Placed, NEW l \in Lanes, place[l] # "Queued",
           UNCHANGED up, up, up' /\ ~halted' => ~halted,
           ready' = Append(ready, l), place' = [place EXCEPT ![l] = "Queued"],
           \A v \in Workers : wpc'[v] = "popped" <=> wpc[v] = "popped",
           \A v \in Workers : wpc[v] = "popped" => wlane'[v] = wlane[v],
           \A v \in Workers : Owns(v) /\ wlane[v] # l => Owns(v)' /\ wlane'[v] = wlane[v],
           \A m \in Lanes : m # l => queues'[m] = queues[m]
    PROVE  Placed'
<1>1. SUFFICES ASSUME up, ~halted, Waiting PROVE Waiting'
  BY DEF Placed
<1>2. /\ place'[l] = "Queued" /\ \A m \in Lanes : m # l => place'[m] = place[m]
      /\ ready \in Seq(Lanes)
  BY DEF TypeOK, LaneTypeOK, PoolTypeOK
<1>3. ~In(ready, l) /\ \A v \in Workers : ~Popped(v, l)
  BY <1>1 DEF Waiting
<1>4. Distinct(ready') /\ \A m : In(ready', m) <=> In(ready, m) \/ m = l
  BY <1>1, <1>2, <1>3, AppendDistinct DEF Waiting
<1>5. \A v \in Workers : wpc'[v] = "popped" => ~In(ready', wlane'[v])
  BY <1>1, <1>3, <1>4 DEF Waiting, Popped
<1>6. \A v, w \in Workers :
        v # w /\ wpc'[v] = "popped" /\ wpc'[w] = "popped" => wlane'[v] # wlane'[w]
  BY <1>1 DEF Waiting
<1>7. \A m \in Lanes :
        (\E w \in Workers : Popped(w, m)') <=> (\E w \in Workers : Popped(w, m))
  BY DEF Popped
<1>8. ASSUME NEW m \in Lanes
      PROVE  /\ place'[m] = "Queued" <=>
                  In(ready', m) \/ \E w \in Workers : Popped(w, m)'
             /\ place'[m] = "None" => queues'[m] = <<>>
             /\ place'[m] = "Deferred" => queues'[m] # <<>>
             /\ place'[m] = "Running" => \E w \in Workers : Owns(w)' /\ wlane'[w] = m
  <2>1. CASE m = l
    BY <1>2, <1>4, <2>1
  <2>2. CASE m # l
    BY <1>1, <1>2, <1>4, <1>7, <2>2 DEF Waiting
  <2>3. QED BY <2>1, <2>2
<1>9. QED BY <1>4, <1>5, <1>6, <1>8 DEF Waiting

\* A worker putting its lane away, parked with work or empty.
LEMMA PlacedPutAway ==
    ASSUME TypeOK, Ownership, Placed, NEW w \in Workers, up, Owns(w), Unhand(w),
           NEW x \in {"None", "Deferred"}, place' = [place EXCEPT ![wlane[w]] = x],
           x = "None" <=> queues[wlane[w]] = <<>>,
           UNCHANGED <<up, halted, ready, queues>>
    PROVE  Placed'
<1>1. SUFFICES ASSUME up, ~halted, Waiting PROVE Waiting'
  BY DEF Placed
<1> DEFINE l == wlane[w]
<1>2. l \in Lanes /\ place'[l] = x /\ \A m \in Lanes : m # l => place'[m] = place[m]
  BY DEF TypeOK, LaneTypeOK, PoolTypeOK
<1>3. /\ \A v \in Workers : v # w => wpc'[v] = wpc[v] /\ wlane'[v] = wlane[v]
      /\ wpc'[w] = "idle"
  BY DEF Unhand, Go, TypeOK, PoolTypeOK
<1>4. place[l] = "Running" /\ wpc[w] # "popped"
  BY DEF Ownership, Owns
<1>5. \A m \in Lanes :
        (\E v \in Workers : Popped(v, m)') <=> (\E v \in Workers : Popped(v, m))
  BY <1>3, <1>4 DEF Popped
<1>6. ~In(ready, l) /\ \A v \in Workers : ~Popped(v, l)
  BY <1>1, <1>2, <1>4 DEF Waiting
<1>7. ASSUME NEW m \in Lanes
      PROVE  /\ place'[m] = "Queued" <=>
                  In(ready', m) \/ \E v \in Workers : Popped(v, m)'
             /\ place'[m] = "None" => queues'[m] = <<>>
             /\ place'[m] = "Deferred" => queues'[m] # <<>>
             /\ place'[m] = "Running" => \E v \in Workers : Owns(v)' /\ wlane'[v] = m
  <2>1. CASE m = l
    BY <1>2, <1>5, <1>6, <2>1
  <2>2. CASE m # l
    <3>1. place'[m] = place[m]
      BY <1>2, <2>2
    <3>2. place[m] = "Running" => \E v \in Workers : Owns(v)' /\ wlane'[v] = m
      <4>1. HAVE place[m] = "Running"
      <4>2. PICK v \in Workers : Owns(v) /\ wlane[v] = m
        BY <1>1, <4>1 DEF Waiting
      <4>3. v # w
        BY <2>2, <4>2
      <4>4. QED BY <1>3, <4>2, <4>3 DEF Owns
    <3>3. QED BY <1>1, <1>5, <3>1, <3>2 DEF Waiting
  <2>3. QED BY <2>1, <2>2
<1>8. QED BY <1>1, <1>3, <1>4, <1>7 DEF Waiting
\* A worker popping a lane: the offer moves from the pool to its hands.
LEMMA PlacedPop ==
    ASSUME TypeOK, Placed, NEW w \in Workers, PopLane(w) PROVE Placed'
<1>0. /\ up /\ wpc[w] = "idle" /\ ready # <<>> /\ ready' = Tail(ready)
      /\ UNCHANGED <<up, halted, place, queues>> /\ ready \in Seq(Lanes)
  BY DEF PopLane, At, TypeOK, PoolTypeOK
<1>1. SUFFICES ASSUME ~halted, Waiting PROVE Waiting'
  BY <1>0 DEF Placed
<1>2. /\ \A v \in Workers : v # w => wpc'[v] = wpc[v] /\ wlane'[v] = wlane[v]
      /\ wpc'[w] = "popped" /\ wlane'[w] = Head(ready)
  BY DEF PopLane, Go, TypeOK, PoolTypeOK
<1>3. /\ Head(ready) \in Lanes /\ In(ready, Head(ready)) /\ ~In(ready', Head(ready))
      /\ Distinct(ready')
      /\ \A y : In(ready, y) <=> In(ready', y) \/ y = Head(ready)
  BY <1>0, <1>1, TailDistinct DEF Waiting
<1>4. \A v \in Workers : wpc[v] = "popped" => wlane[v] # Head(ready)
  BY <1>1, <1>3 DEF Waiting
<1>5. \A v \in Workers : wpc'[v] = "popped" => ~In(ready', wlane'[v])
  BY <1>1, <1>2, <1>3 DEF Waiting
<1>6. \A u, v \in Workers :
        u # v /\ wpc'[u] = "popped" /\ wpc'[v] = "popped" => wlane'[u] # wlane'[v]
  BY <1>1, <1>2, <1>4 DEF Waiting
<1>7. \A m \in Lanes :
        (\E v \in Workers : Popped(v, m)')
          <=> m = Head(ready) \/ \E v \in Workers : Popped(v, m)
  <2>0. TAKE m \in Lanes
  <2>1. Popped(w, m)' <=> m = Head(ready)
    BY <1>2 DEF Popped
  <2>2. ~Popped(w, m) /\ \A v \in Workers : v # w => (Popped(v, m)' <=> Popped(v, m))
    BY <1>0, <1>2 DEF Popped
  <2>3. QED BY <2>1, <2>2
<1>8. \A v \in Workers : Owns(v) => Owns(v)' /\ wlane'[v] = wlane[v]
  BY <1>0, <1>2 DEF Owns
<1>9. ASSUME NEW m \in Lanes
      PROVE  /\ place'[m] = "Queued" <=>
                  In(ready', m) \/ \E v \in Workers : Popped(v, m)'
             /\ place'[m] = "None" => queues'[m] = <<>>
             /\ place'[m] = "Deferred" => queues'[m] # <<>>
             /\ place'[m] = "Running" => \E v \in Workers : Owns(v)' /\ wlane'[v] = m
  <2>1. In(ready', m) \/ (\E v \in Workers : Popped(v, m)')
          <=> In(ready, m) \/ \E v \in Workers : Popped(v, m)
    BY <1>3, <1>7
  <2>2. QED BY <1>0, <1>1, <1>8, <2>1 DEF Waiting
<1>10. QED BY <1>3, <1>5, <1>6, <1>9 DEF Waiting

\* A worker claiming what it popped; it is always there to be claimed.
LEMMA PlacedClaim ==
    ASSUME TypeOK, Placed, NEW w \in Workers, ClaimLane(w) PROVE Placed'
<1> DEFINE l == wlane[w]
<1>0. /\ up /\ wpc[w] = "popped" /\ l \in Lanes
      /\ UNCHANGED <<up, halted>>
  BY DEF ClaimLane, At, TypeOK, PoolTypeOK
<1>1. UNCHANGED <<ready, queues>>
  BY DEF ClaimLane, Step, Claim
<1>2. SUFFICES ASSUME ~halted, Waiting PROVE Waiting'
  BY <1>0, <1>1 DEF Placed
<1>3. place[l] = "Queued" /\ ~In(ready, l)
  BY <1>0, <1>2 DEF Waiting, Popped
<1>4. /\ wpc' = [wpc EXCEPT ![w] = "head"] /\ wlane' = wlane
      /\ place' = [place EXCEPT ![l] = "Running"]
  BY <1>3 DEF ClaimLane, Claim, Step, Go
<1>5. /\ \A v \in Workers : v # w => wpc'[v] = wpc[v]
      /\ wpc'[w] = "head"
      /\ place'[l] = "Running" /\ \A m \in Lanes : m # l => place'[m] = place[m]
  BY <1>0, <1>4 DEF TypeOK, PoolTypeOK, LaneTypeOK
<1>6. \A v \in Workers : v # w /\ wpc[v] = "popped" => wlane[v] # l
  BY <1>0, <1>2 DEF Waiting
<1>7. Owns(w)' /\ \A v \in Workers : Owns(v) => Owns(v)'
  BY <1>5 DEF Owns
<1>8. ASSUME NEW m \in Lanes
      PROVE  /\ place'[m] = "Queued" <=>
                  In(ready', m) \/ \E v \in Workers : Popped(v, m)'
             /\ place'[m] = "None" => queues'[m] = <<>>
             /\ place'[m] = "Deferred" => queues'[m] # <<>>
             /\ place'[m] = "Running" => \E v \in Workers : Owns(v)' /\ wlane'[v] = m
  <2>1. CASE m = l
    <3>1. \A v \in Workers : ~Popped(v, m)'
      BY <1>4, <1>5, <1>6, <2>1 DEF Popped
    <3>2. QED BY <1>1, <1>3, <1>4, <1>5, <1>7, <2>1, <3>1
  <2>2. CASE m # l
    <3>1. \A v \in Workers : Popped(v, m)' <=> Popped(v, m)
      BY <1>4, <1>5, <2>2 DEF Popped
    <3>2. QED BY <1>1, <1>2, <1>4, <1>5, <1>7, <2>2, <3>1 DEF Waiting
  <2>3. QED BY <2>1, <2>2
<1>9. QED BY <1>1, <1>2, <1>4, <1>5, <1>8 DEF Waiting

\* Every step of a worker keeps the places.
LEMMA PlacedWorker ==
    ASSUME HeadInv, Placed, NEW w \in Workers, Worker(w) PROVE Placed'
<1> USE DEF HeadInv
<1>1. CASE PopLane(w)
  BY <1>1, PlacedPop
<1>2. CASE ClaimLane(w)
  BY <1>2, PlacedClaim
<1>3. CASE \/ TakeHead(w) \/ Begin(w) \/ SkipWedged(w) \/ Finish(w) \/ Replay(w)
           \/ RecordLaneRow(w) \/ NoteLaneRow(w)
  <2>1. UNCHANGED <<up, ready, wlane, place>> /\ UNCHANGED queues
    BY <1>3 DEF TakeHead, Freeze, Begin, SkipWedged, Finish, Replay, RecordLaneRow,
                NoteLaneRow, Step
  <2>2. up' /\ ~halted' => ~halted
    BY <1>3 DEF TakeHead, Begin, SkipWedged, Finish, Replay, RecordLaneRow, NoteLaneRow
  <2>3. /\ Owns(w)
        /\ \/ Go(w, "release") \/ Go(w, "begin") \/ Go(w, "retire") \/ Go(w, "skip")
           \/ Go(w, "run") \/ Go(w, "verify") \/ Go(w, "noted") \/ Go(w, "head")
    <3>1. Owns(w)
      BY <1>3 DEF TakeHead, Begin, SkipWedged, Finish, Replay, RecordLaneRow,
                  NoteLaneRow, At, Owns
    <3>2. QED
      BY <1>3, <3>1 DEF TakeHead, Begin, SkipWedged, Finish, Replay, RecordLaneRow,
                        NoteLaneRow, Step
  <2>4. /\ \A v \in Workers : v # w => wpc'[v] = wpc[v]
        /\ wpc'[w] \notin {"idle", "popped"}
    BY <2>3 DEF Go, TypeOK, PoolTypeOK
  <2>5. QED BY <2>1, <2>2, <2>3, <2>4, PlacedKept DEF Owns
<1>4. CASE Retire(w)
  <2>1. UNCHANGED <<up, ready, wlane, place>> /\ UNCHANGED halted
    BY <1>4 DEF Retire, Complete, Step
  <2>2. Owns(w) /\ (Go(w, "row") \/ Go(w, "head"))
    BY <1>4 DEF Retire, Step, At, Owns
  <2>3. /\ \A v \in Workers : v # w => wpc'[v] = wpc[v]
        /\ wpc'[w] \notin {"idle", "popped"}
    BY <2>2 DEF Go, TypeOK, PoolTypeOK
  <2>4. place[wlane[w]] = "Running" /\ \A m \in Lanes : m # wlane[w] => queues'[m] = queues[m]
    BY <1>4, <2>2, RetiredQueue DEF Ownership
  <2>5. QED BY <2>1, <2>2, <2>3, <2>4, PlacedKept DEF Owns
<1>5. CASE Fail(w) \/ LoseAnswer(w)
  <2>1. /\ up /\ UNCHANGED <<up, halted, ready, queues>>
        /\ Unhand(w) /\ place' = [place EXCEPT ![wlane[w]] = "Deferred"]
        /\ Owns(w) /\ Holds(w)
    BY <1>5 DEF Fail, LoseAnswer, Park, Defer, At, Owns, Holds
  <2>2. queues[wlane[w]] # <<>>
    BY <2>1 DEF FrozenHead
  <2>3. QED BY <2>1, <2>2, PlacedPutAway
<1>6. CASE ReleaseLane(w)
  <2> DEFINE l == wlane[w]
  <2>1. /\ up /\ UNCHANGED <<up, halted, queues>> /\ Unhand(w) /\ Owns(w)
        /\ place' = [place EXCEPT ![l] = IF queues[l] = <<>> THEN "None" ELSE "Queued"]
        /\ ready' = IF queues[l] # <<>> /\ ~halted THEN Append(ready, l) ELSE ready
        /\ l \in Lanes
    BY <1>6 DEF ReleaseLane, Release, At, Owns, TypeOK, PoolTypeOK
  <2>2. CASE halted
    BY <2>1, <2>2 DEF Placed
  <2>3. CASE queues[l] = <<>>
    BY <2>1, <2>3, PlacedPutAway
  <2>4. CASE ~halted /\ queues[l] # <<>>
    <3>1. place[l] # "Queued"
      BY <2>1 DEF Ownership
    <3>2. /\ \A v \in Workers : v # w => wpc'[v] = wpc[v] /\ wlane'[v] = wlane[v]
          /\ wpc'[w] = "idle" /\ wpc[w] # "popped"
      BY <2>1 DEF Unhand, Go, Owns, TypeOK, PoolTypeOK
    <3>3. QED BY <2>1, <2>4, <3>1, <3>2, PlacedOffered DEF Owns
  <2>5. QED BY <2>2, <2>3, <2>4
<1>7. QED BY <1>1, <1>2, <1>3, <1>4, <1>5, <1>6 DEF Worker
\* Admission gives a place to a lane that has none, and tells the pool.
LEMMA PlacedAdmit == ASSUME HeadInv, Placed, AdmitNext PROVE Placed'
<1> USE DEF HeadInv
<1> DEFINE p == seen + 1
           l == LaneOf(p)
<1>0. up /\ UNCHANGED <<up, halted, wpc, wlane>>
  BY DEF AdmitNext, Reading
<1>1. CASE ~Answered(p)
  <2>1. UNCHANGED <<queueVars, ready>>
    BY <1>1 DEF AdmitNext
  <2>2. QED BY <1>0, <2>1, PlacedKept DEF Owns
<1>2. CASE Answered(p)
  <2>1. p \in 1..Len(log) /\ ArmOf(p) \in Arms
    BY <1>2 DEF Answered, AnswersUnder
  <2>2. l \in Lanes /\ p \in Nat /\ high[l] \in Nat
    BY <2>1, EventTypes, LogLength DEF TypeOK, LaneTypeOK
  <2>3. /\ Admit(l, p, ArmOf(p), Collapsible(ArmOf(p), l))
        /\ ready' = IF NeedsOffer(l, p) THEN Append(ready, l) ELSE ready
    BY <1>2 DEF AdmitNext
  <2> HIDE DEF p, l
  <2>4. CASE high[l] >= p
    <3>1. UNCHANGED queueVars /\ UNCHANGED ready
      BY <2>2, <2>3, <2>4 DEF Admit, NeedsOffer
    <3>2. QED BY <1>0, <3>1, PlacedKept DEF Owns
  <2>5. CASE ~(high[l] >= p)
    <3>1. queues'[l] # <<>> /\ \A m \in Lanes : m # l => queues'[m] = queues[m]
      <4>1. CASE Enqueue(l, p, ArmOf(p))
        <5>1. Len(queues'[l]) = Len(queues[l]) + 1 /\ Len(queues[l]) \in Nat
              /\ \A m \in Lanes : m # l => queues'[m] = queues[m]
          BY <2>1, <2>2, <4>1, EnqueuedQueue, QueueType
        <5>2. QED BY <5>1, EmptySeq
      <4>2. CASE \E i \in OpenAt(l, ArmOf(p)) : Supersede(l, p, ArmOf(p), i)
        <5>1. PICK i \in OpenAt(l, ArmOf(p)) : Supersede(l, p, ArmOf(p), i)
          BY <4>2
        <5>2. Len(queues'[l]) = Len(queues[l]) /\ Len(queues[l]) \in Nat
              /\ i \in 1..Len(queues[l])
              /\ \A m \in Lanes : m # l => queues'[m] = queues[m]
          BY <2>1, <2>2, <5>1, SupersededQueue, QueueType
        <5>3. QED BY <5>2, EmptySeq
      <4>3. QED BY <2>3, <2>5, <4>1, <4>2 DEF Admit
    <3>2. place' = [place EXCEPT ![l] = IF NeedsOffer(l, p) THEN "Queued" ELSE @]
      BY <2>3, <2>5 DEF Admit
    <3>3. CASE NeedsOffer(l, p)
      <4>1. place[l] # "Queued" /\ place' = [place EXCEPT ![l] = "Queued"]
            /\ ready' = Append(ready, l)
        BY <2>3, <3>2, <3>3 DEF NeedsOffer
      <4>2. QED BY <1>0, <2>2, <3>1, <4>1, PlacedOffered DEF Owns
    <3>4. CASE ~NeedsOffer(l, p)
      <4>1. place' = place /\ ready' = ready /\ place[l] # "None"
        BY <2>2, <2>3, <2>5, <3>2, <3>4 DEF NeedsOffer, TypeOK, LaneTypeOK
      <4>2. QED BY <1>0, <2>2, <3>1, <4>1, PlacedKept DEF Owns
    <3>5. QED BY <3>3, <3>4
  <2>6. QED BY <2>4, <2>5
<1>3. QED BY <1>1, <1>2

\* Every step of the reader keeps the places: it wakes parked lanes only.
LEMMA PlacedReader == ASSUME HeadInv, Placed, Reader PROVE Placed'
<1> USE DEF HeadInv
<1>1. CASE \E l \in Lanes : Wake(l)
  <2>1. PICK l \in Lanes : Wake(l)
    BY <1>1
  <2>2. /\ up /\ place[l] = "Deferred" /\ place' = [place EXCEPT ![l] = "Queued"]
        /\ ready' = Append(ready, l)
        /\ UNCHANGED <<up, halted, wpc, wlane, queues>>
    BY <2>1 DEF Wake, Reading, Promote, PromoteMatching, SkipWakes
  <2>3. QED BY <2>2, PlacedOffered DEF Owns
<1>2. CASE AdmitNext
  BY <1>2, PlacedAdmit
<1>3. CASE Promoted \/ Poll \/ ReadMark \/ PersistMark \/ ForgetPassed \/ SweepRows
            \/ PrunePassed \/ DriverError \/ Resubscribe
  <2>1. UNCHANGED <<up, ready, wlane, place>> /\ UNCHANGED <<wpc, queues>>
    BY <1>3 DEF Promoted, Poll, ReadMark, PersistMark, ForgetPassed, Forget, SweepRows,
                PrunePassed, PruneRows, DriverError, Resubscribe
  <2>2. up' /\ ~halted' => ~halted
    BY <1>3 DEF Promoted, Poll, ReadMark, PersistMark, ForgetPassed, SweepRows,
                PrunePassed, DriverError, Resubscribe
  <2>3. QED BY <2>1, <2>2, PlacedKept DEF Owns
<1>4. QED BY <1>1, <1>2, <1>3 DEF Reader

\* A process that starts has nothing queued and nobody waiting.
LEMMA PlacedStart == ASSUME HeadInv, Placed, Start PROVE Placed'
<1>1. /\ ready' = <<>> /\ \A v \in Workers : wpc'[v] = "idle"
      /\ \A l \in Lanes : place'[l] = "None" /\ queues'[l] = <<>>
  BY DEF Start, Resuming, HeadInv, Ownership, Placed
<1>2. Len(ready') = 0
  BY <1>1, EmptySeq
<1>3. QED BY <1>1, <1>2 DEF Start, Placed, Waiting, Distinct, In, Popped

\* The places are inductive, given the types, ownership and frozen heads.
LEMMA PlacedNext == HeadInv /\ Placed /\ [Next]_vars => Placed'
<1> SUFFICES ASSUME HeadInv, Placed, [Next]_vars PROVE Placed'
  OBVIOUS
<1>1. CASE AppendEvent \/ Rewind \/ RequestSkip \/ SweepInvocation \/ UNCHANGED vars
  <2>1. UNCHANGED <<up, ready, wlane, place>> /\ UNCHANGED <<wpc, queues, halted>>
    BY <1>1 DEF AppendEvent, Rewind, RequestSkip, SweepInvocation, vars
  <2>2. QED BY <2>1, PlacedKept DEF Owns
<1>2. CASE Start
  BY <1>2, PlacedStart
<1>3. CASE Crash
  BY <1>3 DEF Crash, Placed
<1>4. CASE Reader
  BY <1>4, PlacedReader
<1>5. CASE \E w \in Workers : Worker(w)
  BY <1>5, PlacedWorker
<1>6. QED BY <1>1, <1>2, <1>3, <1>4, <1>5 DEF Next

\* Agreement of the records is what the count of PlacesTrue says.
LEMMA PlacesCounted == TypeOK /\ Placed => PlacesTrue
<1> SUFFICES ASSUME TypeOK, Placed, up, ~halted, NEW l \in Lanes, place[l] = "Queued"
             PROVE  Cardinality({i \in 1..Len(ready) : ready[i] = l})
                      + Cardinality({w \in Workers : wpc[w] = "popped" /\ wlane[w] = l}) = 1
  BY DEF PlacesTrue, Placed, Waiting
<1> DEFINE A == {i \in 1..Len(ready) : ready[i] = l}
           B == {w \in Workers : wpc[w] = "popped" /\ wlane[w] = l}
<1>1. Waiting
  BY DEF Placed
<1>2. CASE In(ready, l)
  <2>1. PICK i \in 1..Len(ready) : ready[i] = l
    BY <1>2 DEF In
  <2>2. A = {i}
    BY <1>1, <2>1 DEF Waiting, Distinct
  <2>3. B = {}
    BY <1>1, <1>2 DEF Waiting
  <2>4. Cardinality(A) = 1 /\ Cardinality(B) = 0
    BY <2>2, <2>3, FS_Singleton, FS_EmptySet
  <2>5. QED BY <2>4
<1>3. CASE ~In(ready, l)
  <2>1. PICK w \in Workers : Popped(w, l)
    BY <1>1, <1>3 DEF Waiting
  <2>2. B = {w}
    BY <1>1, <2>1 DEF Waiting, Popped
  <2>3. A = {}
    BY <1>3 DEF In
  <2>4. Cardinality(A) = 0 /\ Cardinality(B) = 1
    BY <2>2, <2>3, FS_Singleton, FS_EmptySet
  <2>5. QED BY <2>4
<1>4. QED BY <1>2, <1>3

\* Every lane with work has exactly one place from which a worker will take it
\* (LaneState::place, LanePool): none is forgotten and none is offered twice.
THEOREM PlacesCorrect == Spec => []PlacesTrue
<1>1. Init => Placed
  BY DEF Init, Placed
<1>2. TypeOK /\ Ownership /\ QueueSound /\ QueuedAboveMark /\ FrozenHead
        /\ Placed /\ [Next]_vars => Placed'
  BY PlacedNext DEF HeadInv
<1>3. QED
  BY <1>1, <1>2, PlacesCounted, TypeCorrect, OwnershipCorrect, QueuesAboveMark, PTL
     DEF Spec
-----------------------------------------------------------------------------
(* The groups of a lane.                                                   *)
(*                                                                         *)
(* What LaneState::admit promises about a queue: it ascends, and groups of *)
(* one arm cover disjoint ranges.  The second turns on where the open      *)
(* group is.  It is the last of its arm, since nothing of an arm is        *)
(* enqueued beside an open group: only a position that may not fold would  *)
(* be, and an arm that has such positions never has an open group.         *)

\* The queue of lane l as LaneState::admit leaves it.
FoldedLane(l) ==
    /\ \A i, j \in 1..Len(queues[l]) : i < j =>
         /\ queues[l][i].hi < queues[l][j].hi
         /\ queues[l][i].arm = queues[l][j].arm => queues[l][i].hi < queues[l][j].lo
    /\ \A a \in Arms : latest[l][a] # 0 =>
         /\ Collapsible(a, l) /\ ~blind
         /\ \E i \in 1..Len(queues[l]) :
              queues[l][i].hi = latest[l][a] /\ queues[l][i].arm = a
         /\ \A i \in 1..Len(queues[l]) :
              queues[l][i].arm = a => queues[l][i].hi <= latest[l][a]

\* Whatever holds the mark is the oldest position of a queued group.
Held ==
    \A p \in inflight : \E l \in Lanes : \E i \in 1..Len(queues[l]) : queues[l][i].lo = p

\* The inductive invariant behind GroupsSound, given HeadInv.
Folded == (\A l \in Lanes : FoldedLane(l)) /\ Held

\* A lane whose queue and open groups are left alone stays folded.
LEMMA FoldedFrame ==
    ASSUME NEW l \in Lanes, FoldedLane(l), queues'[l] = queues[l],
           latest'[l] = latest[l], UNCHANGED blind
    PROVE  FoldedLane(l)'
BY DEF FoldedLane, Collapsible

\* A position that gets a group of its own: nothing of its arm is open before it.
LEMMA FoldedEnqueue ==
    ASSUME TypeOK, QueueSound, NEW l \in Lanes, FoldedLane(l),
           NEW p \in Nat \ {0}, high[l] < p, NEW a \in Arms, Enqueue(l, p, a),
           ~(Collapsible(a, l) /\ ~blind) \/ latest[l][a] = 0,
           \A b \in Arms : b # a => latest'[l][b] = latest[l][b],
           latest'[l][a] \in {0, latest[l][a]} \cup (IF Collapsible(a, l) /\ ~blind
                                                       THEN {p} ELSE {}),
           UNCHANGED blind
    PROVE  FoldedLane(l)'
<1> DEFINE n == Len(queues[l])
<1>1. /\ Len(queues'[l]) = n + 1 /\ n \in Nat
      /\ \A j \in 1..n : queues'[l][j] = queues[l][j]
      /\ queues'[l][n + 1] = [lo |-> p, hi |-> p, arm |-> a]
  BY EnqueuedQueue, QueueType
<1>2. \A i \in 1..n : queues[l][i].hi \in Nat /\ queues[l][i].hi < p
  <2>1. high[l] \in Nat
    BY DEF TypeOK, LaneTypeOK
  <2>2. QED BY <2>1, QueueType DEF QueueSound
<1>3. \A i \in 1..(n + 1) : i \in 1..n \/ i = n + 1
  BY <1>1
<1>4. latest[l][a] = 0
  BY DEF FoldedLane
<1> HIDE DEF n
<1>5. queues'[l][n + 1].lo = p /\ queues'[l][n + 1].hi = p /\ queues'[l][n + 1].arm = a
  BY <1>1
<1>6. ASSUME NEW i \in 1..(n + 1), NEW j \in 1..(n + 1), i < j
      PROVE  /\ queues'[l][i].hi < queues'[l][j].hi
             /\ queues'[l][i].arm = queues'[l][j].arm => queues'[l][i].hi < queues'[l][j].lo
  <2>1. i \in 1..n
    BY <1>1, <1>6
  <2>2. CASE j \in 1..n
    BY <1>1, <1>6, <2>1, <2>2 DEF FoldedLane, n
  <2>3. CASE j = n + 1
    BY <1>1, <1>2, <1>5, <2>1, <2>3
  <2>4. QED BY <1>3, <2>2, <2>3
<1>7. ASSUME NEW b \in Arms, latest'[l][b] # 0
      PROVE  /\ Collapsible(b, l) /\ ~blind
             /\ \E i \in 1..(n + 1) :
                  queues'[l][i].hi = latest'[l][b] /\ queues'[l][i].arm = b
             /\ \A i \in 1..(n + 1) :
                  queues'[l][i].arm = b => queues'[l][i].hi <= latest'[l][b]
  <2>1. CASE b # a
    <3>1. latest'[l][b] = latest[l][b] /\ latest[l][b] # 0
      BY <1>7, <2>1
    <3>2. /\ Collapsible(b, l) /\ ~blind
          /\ \E i \in 1..n : queues[l][i].hi = latest[l][b] /\ queues[l][i].arm = b
          /\ \A i \in 1..n : queues[l][i].arm = b => queues[l][i].hi <= latest[l][b]
      BY <3>1 DEF FoldedLane, n
    <3>3. 1..n \subseteq 1..(n + 1)
      BY <1>1
    <3>4. \E i \in 1..(n + 1) :
            queues'[l][i].hi = latest'[l][b] /\ queues'[l][i].arm = b
      BY <1>1, <3>1, <3>2, <3>3
    <3>5. \A i \in 1..(n + 1) :
            queues'[l][i].arm = b => queues'[l][i].hi <= latest'[l][b]
      BY <1>1, <1>3, <1>5, <2>1, <3>1, <3>2
    <3>6. QED BY <3>2, <3>4, <3>5
  <2>2. CASE b = a
    <3>1. latest'[l][a] = p /\ Collapsible(a, l) /\ ~blind
      BY <1>4, <1>7, <2>2
    <3>2. n + 1 \in 1..(n + 1)
      BY <1>1
    <3>3. \A i \in 1..(n + 1) : queues'[l][i].hi <= p
      BY <1>1, <1>2, <1>3, <1>5
    <3>4. QED BY <1>5, <2>2, <3>1, <3>2, <3>3
  <2>3. QED BY <2>1, <2>2
<1>8. QED BY <1>1, <1>6, <1>7 DEF FoldedLane, Collapsible

\* A position that takes over the open group: the group is the last of its arm, so
\* the range it passes on lies above every other group of the arm.
LEMMA FoldedSupersede ==
    ASSUME TypeOK, QueueSound, NEW l \in Lanes, FoldedLane(l),
           NEW p \in Nat \ {0}, high[l] < p, NEW a \in Arms, latest[l][a] # 0,
           NEW i \in OpenAt(l, a), Supersede(l, p, a, i),
           \A b \in Arms : b # a => latest'[l][b] = latest[l][b],
           latest'[l][a] \in {0, p}, UNCHANGED blind
    PROVE  FoldedLane(l)'
<1> DEFINE n == Len(queues[l])
           k(j) == IF j < i THEN j ELSE j + 1
<1>1. /\ Len(queues'[l]) = n /\ n \in Nat /\ i \in 1..n
      /\ \A j \in 1..(n - 1) : queues'[l][j] = queues[l][k(j)]
      /\ queues'[l][n] = [lo |-> queues[l][i].lo, hi |-> p, arm |-> a]
      /\ queues[l][i].hi = latest[l][a] /\ queues[l][i].arm = a
  <2>1. p \in Nat /\ n \in Nat
    BY QueueType
  <2>2. /\ Len(queues'[l]) = Len(queues[l])
        /\ \A j \in 1..(Len(queues[l]) - 1) :
             queues'[l][j] = queues[l][IF j < i THEN j ELSE j + 1]
        /\ queues'[l][Len(queues[l])] = [lo |-> queues[l][i].lo, hi |-> p, arm |-> a]
        /\ i \in 1..Len(queues[l])
        /\ queues[l][i].hi = latest[l][a] /\ queues[l][i].arm = a
    BY ONLY TypeOK, l \in Lanes, p \in Nat, a \in Arms, i \in OpenAt(l, a),
            Supersede(l, p, a, i), <2>1, SupersededQueue, SMTT(20)
  <2>3. QED BY ONLY <2>1, <2>2
<1>2. \A j \in 1..n : queues[l][j].hi \in Nat /\ queues[l][j].hi < p
  <2>1. high[l] \in Nat
    BY DEF TypeOK, LaneTypeOK
  <2>2. QED BY <2>1, QueueType DEF QueueSound
<1>3. \A j \in 1..(n - 1) : k(j) \in 1..n /\ k(j) # i
  BY <1>1
<1>4. \A h, j \in 1..(n - 1) : h < j => k(h) < k(j)
  BY <1>1
<1>5. \A j \in 1..n : j # i => \E h \in 1..(n - 1) : k(h) = j
  <2> TAKE j \in 1..n
  <2> HAVE j # i
  <2>1. CASE j < i
    BY <1>1, <2>1
  <2>2. CASE ~(j < i)
    <3>1. j - 1 \in 1..(n - 1) /\ k(j - 1) = j
      BY <1>1, <2>2
    <3>2. QED BY <3>1
  <2>3. QED BY <2>1, <2>2
<1>6. \A j \in 1..n : j \in 1..(n - 1) \/ j = n
  BY <1>1
<1>7. /\ Collapsible(a, l) /\ ~blind
      /\ \A h, j \in 1..n : h < j =>
           /\ queues[l][h].hi < queues[l][j].hi
           /\ queues[l][h].arm = queues[l][j].arm => queues[l][h].hi < queues[l][j].lo
      /\ \A j \in 1..n : queues[l][j].arm = a => queues[l][j].hi <= latest[l][a]
  BY DEF FoldedLane
<1>8. \A j \in 1..n : j # i /\ queues[l][j].arm = a => queues[l][j].hi < queues[l][i].lo
  <2> TAKE j \in 1..n
  <2> HAVE j # i /\ queues[l][j].arm = a
  <2>1. queues[l][j].hi <= queues[l][i].hi
    BY <1>1, <1>7
  <2>2. j < i
    BY <1>1, <1>2, <1>7, <2>1
  <2>3. QED BY <1>1, <1>7, <2>2
<1> HIDE DEF n, k
<1>9. queues'[l][n].lo = queues[l][i].lo /\ queues'[l][n].hi = p /\ queues'[l][n].arm = a
  BY <1>1
<1>10. ASSUME NEW h \in 1..n, NEW j \in 1..n, h < j
       PROVE  /\ queues'[l][h].hi < queues'[l][j].hi
              /\ queues'[l][h].arm = queues'[l][j].arm => queues'[l][h].hi < queues'[l][j].lo
  <2>1. h \in 1..(n - 1) /\ queues'[l][h] = queues[l][k(h)] /\ k(h) \in 1..n /\ k(h) # i
    BY <1>1, <1>3, <1>10
  <2>2. CASE j \in 1..(n - 1)
    <3>1. queues'[l][j] = queues[l][k(j)] /\ k(j) \in 1..n /\ k(h) < k(j)
      BY <1>1, <1>3, <1>4, <1>10, <2>1, <2>2
    <3>2. QED BY <1>7, <2>1, <3>1
  <2>3. CASE j = n
    BY <1>2, <1>8, <1>9, <2>1, <2>3
  <2>4. QED BY <1>6, <2>2, <2>3
<1>11. ASSUME NEW b \in Arms, latest'[l][b] # 0
       PROVE  /\ Collapsible(b, l) /\ ~blind
              /\ \E j \in 1..n :
                   queues'[l][j].hi = latest'[l][b] /\ queues'[l][j].arm = b
              /\ \A j \in 1..n :
                   queues'[l][j].arm = b => queues'[l][j].hi <= latest'[l][b]
  <2>1. CASE b # a
    <3>1. latest'[l][b] = latest[l][b] /\ latest[l][b] # 0
      BY <1>11, <2>1
    <3>2. /\ Collapsible(b, l) /\ ~blind
          /\ \A j \in 1..n : queues[l][j].arm = b => queues[l][j].hi <= latest[l][b]
      BY <3>1 DEF FoldedLane, n
    <3>3. PICK j \in 1..n : queues[l][j].hi = latest[l][b] /\ queues[l][j].arm = b
      BY <3>1 DEF FoldedLane, n
    <3>4. PICK h \in 1..(n - 1) : k(h) = j
      BY <1>1, <1>5, <2>1, <3>3
    <3>5. h \in 1..n /\ queues'[l][h] = queues[l][j]
      BY <1>1, <3>4
    <3>6. \A g \in 1..n : queues'[l][g].arm = b => queues'[l][g].hi <= latest'[l][b]
      BY <1>1, <1>3, <1>6, <1>9, <2>1, <3>1, <3>2
    <3>7. QED BY <3>1, <3>2, <3>3, <3>5, <3>6
  <2>2. CASE b = a
    <3>1. latest'[l][a] = p
      BY <1>11, <2>2
    <3>2. n \in 1..n
      BY <1>1
    <3>3. \A j \in 1..n : queues'[l][j].hi <= p
      BY <1>1, <1>2, <1>3, <1>6, <1>9, SMTT(20)
    <3>4. QED BY <1>7, <1>9, <2>2, <3>1, <3>2, <3>3
  <2>3. QED BY <2>1, <2>2
<1>12. QED BY <1>1, <1>10, <1>11 DEF FoldedLane, Collapsible, n
\* LaneState::admit keeps the queues folded, and in flight what they hold.
LEMMA FoldedAdmit ==
    ASSUME TypeOK, QueueSound, Folded,
           NEW l \in Lanes, NEW p \in Nat \ {0}, NEW a \in Arms,
           Admit(l, p, a, Collapsible(a, l)), UNCHANGED blind
    PROVE  Folded'
<1> DEFINE folds == Collapsible(a, l) /\ ~blind
<1>1. CASE high[l] >= p
  <2>1. UNCHANGED <<queues, latest, inflight>>
    BY <1>1 DEF Admit
  <2>2. QED BY <2>1, FoldedFrame DEF Folded, Held
<1>2. CASE ~(high[l] >= p)
  <2>0. high[l] < p /\ latest \in [Lanes -> [Arms -> Nat]] /\ p \in Nat
    BY <1>2 DEF TypeOK, LaneTypeOK
  <2>1. latest' = IF folds THEN [latest EXCEPT ![l][a] = IF p \in begun THEN 0 ELSE p]
                  ELSE latest
    BY <1>2 DEF Admit
  <2>2. /\ \A m \in Lanes : m # l => latest'[m] = latest[m]
        /\ \A b \in Arms : b # a => latest'[l][b] = latest[l][b]
        /\ folds => latest'[l][a] \in {0, p}
        /\ ~folds => latest'[l][a] = latest[l][a]
    BY <2>0, <2>1
  <2>3. \/ \E i \in OpenAt(l, a) : folds /\ latest[l][a] # 0 /\ Supersede(l, p, a, i)
        \/ (~folds \/ latest[l][a] = 0 \/ OpenAt(l, a) = {}) /\ Enqueue(l, p, a)
    BY <1>2 DEF Admit
  <2>4. OpenAt(l, a) = {} => latest[l][a] = 0
    BY DEF Folded, FoldedLane, OpenAt
  <2> HIDE DEF folds
  <2>5. CASE \E i \in OpenAt(l, a) : folds /\ latest[l][a] # 0 /\ Supersede(l, p, a, i)
    <3>1. PICK i \in OpenAt(l, a) : folds /\ latest[l][a] # 0 /\ Supersede(l, p, a, i)
      BY <2>5
    <3>2. FoldedLane(l)'
      BY <2>0, <2>2, <3>1, FoldedSupersede DEF Folded
    <3>3. \A m \in Lanes : m # l => queues'[m] = queues[m]
      BY <2>0, <3>1, SupersededQueue
    <3>4. \A m \in Lanes : FoldedLane(m)'
      BY <2>2, <3>2, <3>3, FoldedFrame DEF Folded
    <3>5. Held'
      <4> DEFINE n == Len(queues[l])
      <4>1. /\ Len(queues'[l]) = n /\ n \in Nat /\ i \in 1..n
            /\ \A j \in 1..(n - 1) : queues'[l][j] = queues[l][IF j < i THEN j ELSE j + 1]
            /\ queues'[l][n].lo = queues[l][i].lo
            /\ inflight' = inflight
        <5>1. n \in Nat
          BY QueueType
        <5>2. /\ Len(queues'[l]) = n /\ i \in 1..n
              /\ \A j \in 1..(n - 1) : queues'[l][j] = queues[l][IF j < i THEN j ELSE j + 1]
              /\ queues'[l][n] = [lo |-> queues[l][i].lo, hi |-> p, arm |-> a]
              /\ inflight' = inflight
          <6>1. p \in Nat /\ Supersede(l, p, a, i)
            BY <2>0, <3>1
          <6>2. /\ Len(queues'[l]) = Len(queues[l]) /\ i \in 1..Len(queues[l])
                /\ \A j \in 1..(Len(queues[l]) - 1) :
                     queues'[l][j] = queues[l][IF j < i THEN j ELSE j + 1]
                /\ queues'[l][Len(queues[l])]
                     = [lo |-> queues[l][i].lo, hi |-> p, arm |-> a]
                /\ inflight' = inflight
            BY ONLY TypeOK, l \in Lanes, a \in Arms, i \in OpenAt(l, a), <6>1,
                    SupersededQueue, SMTT(20)
          <6>3. QED BY ONLY <5>1, <6>2
        <5>3. QED BY <5>1, <5>2, SMTT(20)
      <4>2. \A j \in 1..n : \E h \in 1..n : queues'[l][h].lo = queues[l][j].lo
        <5> TAKE j \in 1..n
        <5>1. CASE j = i
          BY <4>1, <5>1
        <5>2. CASE j < i
          BY <4>1, <5>2
        <5>3. CASE j > i
          <6>1. j - 1 \in 1..(n - 1) /\ ~(j - 1 < i) /\ (j - 1) + 1 = j
            BY <4>1, <5>3
          <6>2. queues'[l][j - 1] = queues[l][j] /\ j - 1 \in 1..n
            BY <4>1, <6>1
          <6>3. QED BY <6>2
        <5>4. QED BY <4>1, <5>1, <5>2, <5>3
      <4> SUFFICES ASSUME NEW q \in inflight
                   PROVE  \E m \in Lanes : \E j \in 1..Len(queues'[m]) : queues'[m][j].lo = q
        BY <4>1 DEF Held
      <4>3. PICK m \in Lanes : \E j \in 1..Len(queues[m]) : queues[m][j].lo = q
        BY DEF Folded, Held
      <4>4. CASE m = l
        <5>1. PICK j \in 1..n : queues[l][j].lo = q
          BY <4>3, <4>4
        <5>2. PICK h \in 1..n : queues'[l][h].lo = q
          BY <4>2, <5>1
        <5>3. QED BY <4>1, <5>2
      <4>5. CASE m # l
        BY <3>3, <4>3, <4>5
      <4>6. QED BY <4>4, <4>5
    <3>6. QED BY <3>4, <3>5 DEF Folded
  <2>6. CASE Enqueue(l, p, a) /\ (~folds \/ latest[l][a] = 0)
    <3>1. FoldedLane(l)'
      BY <2>0, <2>2, <2>6, FoldedEnqueue DEF Folded, folds
    <3>2. /\ Len(queues'[l]) = Len(queues[l]) + 1 /\ Len(queues[l]) \in Nat
          /\ \A j \in 1..Len(queues[l]) : queues'[l][j] = queues[l][j]
          /\ queues'[l][Len(queues[l]) + 1].lo = p
          /\ \A m \in Lanes : m # l => queues'[m] = queues[m]
          /\ inflight' = inflight \cup {p}
      <4>1. Len(queues[l]) \in Nat
        BY QueueType
      <4>2. /\ Len(queues'[l]) = Len(queues[l]) + 1
            /\ \A j \in 1..Len(queues[l]) : queues'[l][j] = queues[l][j]
            /\ queues'[l][Len(queues[l]) + 1] = [lo |-> p, hi |-> p, arm |-> a]
            /\ \A m \in Lanes : m # l => queues'[m] = queues[m]
            /\ inflight' = inflight \cup {p}
        BY <2>0, <2>6, EnqueuedQueue
      <4>3. QED BY <4>1, <4>2
    <3>3. \A m \in Lanes : FoldedLane(m)'
      BY <2>2, <3>1, <3>2, FoldedFrame DEF Folded
    <3>4. Held'
      <4> SUFFICES ASSUME NEW q \in inflight \cup {p}
                   PROVE  \E m \in Lanes : \E j \in 1..Len(queues'[m]) : queues'[m][j].lo = q
        BY <3>2 DEF Held
      <4>1. CASE q = p
        BY <3>2, <4>1
      <4>2. CASE q \in inflight
        <5>1. PICK m \in Lanes : \E j \in 1..Len(queues[m]) : queues[m][j].lo = q
          BY <4>2 DEF Folded, Held
        <5>2. CASE m = l
          BY <3>2, <5>1, <5>2
        <5>3. CASE m # l
          BY <3>2, <5>1, <5>3
        <5>4. QED BY <5>2, <5>3
      <4>3. QED BY <4>1, <4>2
    <3>5. QED BY <3>3, <3>4 DEF Folded
  <2>7. QED BY <2>3, <2>4, <2>5, <2>6
<1>3. QED BY <1>1, <1>2

\* Retiring a head takes its group, which is not open, and its entry in flight.
LEMMA FoldedRetire ==
    ASSUME TypeOK, QueueSound, FrozenHead, Folded, NEW w \in Workers, Retire(w),
           NEW l \in Lanes, wlane[w] = l
    PROVE  Folded'
<1> DEFINE n == Len(queues[l])
<1>1. /\ l \in Lanes /\ n \in Nat /\ n >= 1 /\ Len(queues'[l]) = n - 1
      /\ \A i \in 1..(n - 1) : queues'[l][i] = queues[l][i + 1]
      /\ \A m \in Lanes : m # l => queues'[m] = queues[m] /\ latest'[m] = latest[m]
      /\ inflight' = inflight \ {queues[l][1].lo}
  BY RetiredQueue
<1>2. UNCHANGED blind
  BY DEF Retire
<1>3. latest[l][queues[l][1].arm] # queues[l][1].hi /\ latest'[l] = latest[l]
  <2>1. Holds(w)
    BY DEF Retire, At, Holds
  <2>2. /\ queues[l] # <<>> /\ Front(l).hi = work[w].position
        /\ latest[l][Front(l).arm] # Front(l).hi
    BY <2>1 DEF FrozenHead
  <2>3. Close(l, Front(l))
    BY <2>2 DEF Retire, Complete
  <2>4. latest \in [Lanes -> [Arms -> Nat]] /\ Front(l).arm \in Arms
    BY <1>1, <2>2, FrontType DEF TypeOK, LaneTypeOK
  <2>5. latest'[l] = latest[l]
    BY <1>1, <2>2, <2>3, <2>4 DEF Close
  <2>6. QED BY <2>2, <2>5 DEF Front
<1>4. \A i \in 1..(n - 1) : i + 1 \in 1..n
  BY <1>1
<1>5. \A i \in 1..n : i # 1 => i - 1 \in 1..(n - 1) /\ (i - 1) + 1 = i
  BY <1>1
<1>6. FoldedLane(l)
  BY <1>1 DEF Folded
<1> HIDE DEF n
<1>7. FoldedLane(l)'
  <2>1. ASSUME NEW i \in 1..(n - 1), NEW j \in 1..(n - 1), i < j
        PROVE  /\ queues'[l][i].hi < queues'[l][j].hi
               /\ queues'[l][i].arm = queues'[l][j].arm
                    => queues'[l][i].hi < queues'[l][j].lo
    <3>1. i + 1 \in 1..n /\ j + 1 \in 1..n /\ i + 1 < j + 1
      BY <1>1, <1>4, <2>1
    <3>2. queues'[l][i] = queues[l][i + 1] /\ queues'[l][j] = queues[l][j + 1]
      BY <1>1
    <3>3. /\ queues[l][i + 1].hi < queues[l][j + 1].hi
          /\ queues[l][i + 1].arm = queues[l][j + 1].arm
               => queues[l][i + 1].hi < queues[l][j + 1].lo
      BY <1>6, <3>1 DEF FoldedLane, n
    <3>4. QED BY <3>2, <3>3
  <2>2. ASSUME NEW a \in Arms, latest'[l][a] # 0
        PROVE  /\ Collapsible(a, l) /\ ~blind
               /\ \E i \in 1..(n - 1) :
                    queues'[l][i].hi = latest'[l][a] /\ queues'[l][i].arm = a
               /\ \A i \in 1..(n - 1) :
                    queues'[l][i].arm = a => queues'[l][i].hi <= latest'[l][a]
    <3>1. /\ Collapsible(a, l) /\ ~blind
          /\ \A i \in 1..n : queues[l][i].arm = a => queues[l][i].hi <= latest[l][a]
      BY <1>3, <1>6, <2>2 DEF FoldedLane, n
    <3>2. PICK i \in 1..n : queues[l][i].hi = latest[l][a] /\ queues[l][i].arm = a
      BY <1>3, <1>6, <2>2 DEF FoldedLane, n
    <3>3. i # 1
      BY <1>3, <3>2
    <3>4. i - 1 \in 1..(n - 1) /\ queues'[l][i - 1] = queues[l][i]
      BY <1>1, <1>5, <3>2, <3>3
    <3>5. \A j \in 1..(n - 1) : queues'[l][j].arm = a => queues'[l][j].hi <= latest'[l][a]
      BY <1>1, <1>3, <1>4, <3>1
    <3>6. QED BY <1>3, <3>1, <3>2, <3>4, <3>5
  <2>3. QED BY <1>1, <1>2, <2>1, <2>2 DEF FoldedLane, Collapsible
<1>8. \A m \in Lanes : FoldedLane(m)'
  BY <1>1, <1>2, <1>7, FoldedFrame DEF Folded
<1>9. Held'
  <2> SUFFICES ASSUME NEW q \in inflight'
               PROVE  \E m \in Lanes : \E j \in 1..Len(queues'[m]) : queues'[m][j].lo = q
    BY DEF Held
  <2>1. q \in inflight /\ q # queues[l][1].lo
    BY <1>1
  <2>2. PICK m \in Lanes : \E j \in 1..Len(queues[m]) : queues[m][j].lo = q
    BY <2>1 DEF Folded, Held
  <2>3. CASE m # l
    BY <1>1, <2>2, <2>3
  <2>4. CASE m = l
    <3>1. PICK j \in 1..n : queues[l][j].lo = q
      BY <2>2, <2>4 DEF n
    <3>2. j - 1 \in 1..(n - 1) /\ queues'[l][j - 1] = queues[l][j]
      BY <1>1, <1>5, <2>1, <3>1
    <3>3. QED BY <1>1, <3>1, <3>2
  <2>5. QED BY <2>3, <2>4
<1>10. QED BY <1>8, <1>9 DEF Folded

\* Taking a head closes one group at most.
LEMMA FoldedTakeHead ==
    ASSUME TypeOK, Folded, NEW w \in Workers, TakeHead(w) PROVE Folded'
<1>1. UNCHANGED <<queues, inflight, blind>>
  BY DEF TakeHead, Freeze
<1>2. \A m \in Lanes : \A a \in Arms : latest'[m][a] \in {latest[m][a], 0}
  <2>1. latest \in [Lanes -> [Arms -> Nat]]
    BY DEF TypeOK, LaneTypeOK
  <2>2. latest' = latest \/ Close(wlane[w], Front(wlane[w]))
    BY DEF TakeHead, Freeze
  <2>3. QED BY <2>1, <2>2 DEF Close
<1>3. QED BY <1>1, <1>2 DEF Folded, FoldedLane, Held, Collapsible

\* The groups are inductive, given the types and frozen heads.
LEMMA FoldedNext == HeadInv /\ Folded /\ [Next]_vars => Folded'
<1> SUFFICES ASSUME HeadInv, Folded, [Next]_vars PROVE Folded'
  OBVIOUS
<1> USE DEF HeadInv
<1>0. UNCHANGED <<queues, latest, inflight, blind>> => Folded'
  BY FoldedFrame DEF Folded, Held
<1>1. CASE AppendEvent \/ Rewind \/ RequestSkip \/ SweepInvocation \/ UNCHANGED vars
  BY <1>0, <1>1 DEF AppendEvent, Rewind, RequestSkip, SweepInvocation, vars
<1>2. CASE Start \/ Crash
  <2>1. /\ queues' = [l \in Lanes |-> <<>>] /\ inflight' = {}
        /\ latest' = [l \in Lanes |-> [a \in Arms |-> 0]]
    BY <1>2 DEF Start, Crash, Resuming
  <2>2. \A l \in Lanes : Len(queues'[l]) = 0
    BY <2>1, EmptySeq
  <2>3. QED BY <2>1, <2>2 DEF Folded, FoldedLane, Held
<1>3. CASE Reader
  <2>1. CASE AdmitNext
    <3> DEFINE p == seen + 1
    <3>1. CASE Answered(p)
      <4>1. p \in 1..Len(log) /\ ArmOf(p) \in Arms
        BY <3>1 DEF Answered, AnswersUnder
      <4>2. LaneOf(p) \in Lanes /\ p \in Nat \ {0}
        BY <4>1, EventTypes, LogLength
      <4>3. /\ Admit(LaneOf(p), p, ArmOf(p), Collapsible(ArmOf(p), LaneOf(p)))
            /\ UNCHANGED blind
        BY <2>1, <3>1 DEF AdmitNext
      <4> HIDE DEF p
      <4>4. QED BY <4>1, <4>2, <4>3, FoldedAdmit
    <3>2. CASE ~Answered(p)
      BY <1>0, <2>1, <3>2 DEF AdmitNext
    <3>3. QED BY <3>1, <3>2
  <2>2. CASE \/ \E l \in Lanes : Wake(l)
             \/ Promoted \/ Poll \/ ReadMark \/ PersistMark \/ ForgetPassed \/ SweepRows
             \/ PrunePassed \/ DriverError \/ Resubscribe
    BY <1>0, <2>2 DEF Wake, Promote, PromoteMatching, Promoted, Poll, ReadMark,
                      PersistMark, ForgetPassed, SweepRows, PrunePassed, DriverError,
                      Resubscribe
  <2>3. QED BY <1>3, <2>1, <2>2 DEF Reader
<1>4. CASE \E w \in Workers : Worker(w)
  <2>0. PICK w \in Workers : Worker(w)
    BY <1>4
  <2>1. CASE Retire(w)
    <3>1. PICK l \in Lanes : wlane[w] = l
      BY DEF TypeOK, PoolTypeOK
    <3>2. QED BY <2>1, <3>1, FoldedRetire
  <2>2. CASE TakeHead(w)
    BY <2>2, FoldedTakeHead
  <2>3. CASE \/ PopLane(w) \/ ClaimLane(w) \/ Begin(w) \/ SkipWedged(w) \/ Finish(w)
             \/ Fail(w) \/ LoseAnswer(w) \/ Replay(w) \/ RecordLaneRow(w)
             \/ NoteLaneRow(w) \/ ReleaseLane(w)
    BY <1>0, <2>3 DEF PopLane, ClaimLane, Claim, Begin, SkipWedged, Finish, Fail,
                      LoseAnswer, Park, Defer, Replay, RecordLaneRow, NoteLaneRow,
                      ReleaseLane, Release
  <2>4. QED BY <2>0, <2>1, <2>2, <2>3 DEF Worker
<1>5. QED BY <1>1, <1>2, <1>3, <1>4 DEF Next

\* Folded queues and queues that hold the mark are what GroupsSound asks for.
LEMMA FoldedGroups == TypeOK /\ QueueSound /\ Folded => GroupsSound
<1> SUFFICES ASSUME TypeOK, QueueSound, Folded PROVE GroupsSound
  OBVIOUS
<1>1. \A l \in Lanes :
        /\ \A i, j \in 1..Len(queues[l]) : i < j =>
             /\ queues[l][i].hi < queues[l][j].hi
             /\ queues[l][i].arm = queues[l][j].arm => queues[l][i].hi < queues[l][j].lo
        /\ \A a \in Arms : latest[l][a] # 0 => OpenAt(l, a) # {}
  BY DEF Folded, FoldedLane, OpenAt
<1>2. ASSUME NEW p \in inflight
      PROVE  \E l \in Lanes : p \in {g.lo : g \in Groups(l)}
  BY DEF Folded, Held, Groups
<1>3. ASSUME NEW l \in Lanes, NEW p \in {g.lo : g \in Groups(l)}
      PROVE  p \in inflight
  BY DEF QueueSound, Groups
<1>4. inflight = UNION {{g.lo : g \in Groups(l)} : l \in Lanes}
  BY <1>2, <1>3
<1>5. QED BY <1>1, <1>4 DEF GroupsSound

\* Queues ascend, groups of one arm cover disjoint ranges and the open group of an
\* arm is its last; what holds the mark is exactly what is queued (LaneState::admit).
THEOREM QueuesFolded == Spec => [](Folded /\ GroupsSound)
<1>1. Init => Folded
  <2> SUFFICES ASSUME Init PROVE Folded
    OBVIOUS
  <2>1. \A l \in Lanes : Len(queues[l]) = 0
    BY EmptySeq DEF Init
  <2>2. QED BY <2>1 DEF Init, Folded, FoldedLane, Held
<1>2. TypeOK /\ Ownership /\ QueueSound /\ QueuedAboveMark /\ FrozenHead
        /\ Folded /\ [Next]_vars => Folded'
  BY FoldedNext DEF HeadInv
<1>3. QED
  BY <1>1, <1>2, FoldedGroups, TypeCorrect, OwnershipCorrect, QueuesAboveMark, PTL
     DEF Spec

\* No lane with work is forgotten or offered twice, and no position of it is dropped
\* from the queue while it holds the mark, or holds it when it is gone: for any number
\* of lanes, workers and arms, through takeovers, parked lanes, skips and crashes.
THEOREM LanesKept == Spec => []NoLaneLost
<1>1. PlacesTrue /\ GroupsSound => NoLaneLost
  BY DEF NoLaneLost
<1>2. QED BY <1>1, PlacesCorrect, QueuesFolded, PTL
-----------------------------------------------------------------------------
(* What a skip may end.                                                    *)
(*                                                                         *)
(* A lane's count of failures says nothing of the position it was raised   *)
(* for (attempt, on tried).  That a skip still ends that very position     *)
(* rests on the head of a lane that failed staying its head, closed to     *)
(* takeovers, until the count is back at zero, which every way of ending   *)
(* a position sees to before the head is retired.                          *)

\* The newest position of every group is an event of its lane.
OwnPositions ==
    \A l \in Lanes : \A i \in 1..Len(queues[l]) :
      queues[l][i].hi \in 1..Len(log) /\ LaneOf(queues[l][i].hi) = l

\* The head of lane l is what it fails on, and nothing may join it.
HeadFails(l) ==
    /\ queues[l] # <<>>
    /\ queues[l][1].hi = stuck[l]
    /\ latest[l][queues[l][1].arm] # queues[l][1].hi

\* The inductive invariant behind SkipsOnlyTheFailing, given HeadInv and OwnPositions.
Failing ==
    /\ ~up => \A l \in Lanes : stuck[l] = 0
    /\ \A l \in Lanes : stuck[l] # 0 => HeadFails(l)
    /\ \A w \in Workers : wpc[w] \in {"verify", "retire"} => stuck[wlane[w]] = 0
    /\ \A w \in Workers : wpc[w] = "skip" =>
         work[w].position \in skips /\ stuck[wlane[w]] = work[w].position

LEMMA OwnPositionsNext == HeadInv /\ OwnPositions /\ [Next]_vars => OwnPositions'
<1> SUFFICES ASSUME HeadInv, OwnPositions, [Next]_vars PROVE OwnPositions'
  OBVIOUS
<1> USE DEF HeadInv
<1>0. UNCHANGED <<queues, log>> => OwnPositions'
  BY DEF OwnPositions, LaneOf
<1>1. CASE AppendEvent
  <2>1. PICK e \in Events : log' = Append(log, e)
    BY <1>1 DEF AppendEvent
  <2>2. /\ Len(log) \in Nat /\ Len(log') = Len(log) + 1
        /\ \A p \in 1..Len(log) : log'[p] = log[p]
    BY <2>1, AppendProperties, LenProperties DEF TypeOK, StoreTypeOK
  <2>3. queues' = queues
    BY <1>1 DEF AppendEvent
  <2>4. QED BY <2>2, <2>3 DEF OwnPositions, LaneOf
<1>2. CASE Start \/ Crash
  <2>1. queues' = [l \in Lanes |-> <<>>]
    BY <1>2 DEF Start, Crash, Resuming
  <2>2. \A l \in Lanes : Len(queues'[l]) = 0
    BY <2>1, EmptySeq
  <2>3. QED BY <2>2 DEF OwnPositions
<1>3. CASE AdmitNext
  <2> DEFINE p == seen + 1
  <2>1. CASE Answered(p)
    <3>1. p \in 1..Len(log) /\ ArmOf(p) \in Arms
      BY <2>1 DEF Answered, AnswersUnder
    <3>2. PICK l \in Lanes : LaneOf(p) = l
      BY <3>1, EventTypes
    <3>3. PICK a \in Arms : ArmOf(p) = a
      BY <3>1
    <3>4. p \in Nat /\ Admit(l, p, a, Collapsible(a, l)) /\ log' = log
      BY <1>3, <2>1, <3>1, <3>2, <3>3, LogLength DEF AdmitNext
    <3> HIDE DEF p
    <3>5. \/ queues' = queues
          \/ Enqueue(l, p, a)
          \/ \E i \in OpenAt(l, a) : Supersede(l, p, a, i)
      BY <3>4 DEF Admit
    <3>6. CASE Enqueue(l, p, a)
      <4>1. /\ Len(queues'[l]) = Len(queues[l]) + 1
            /\ \A j \in 1..Len(queues[l]) : queues'[l][j] = queues[l][j]
            /\ queues'[l][Len(queues[l]) + 1] = [lo |-> p, hi |-> p, arm |-> a]
            /\ \A m \in Lanes : m # l => queues'[m] = queues[m]
        BY <3>4, <3>6, EnqueuedQueue
      <4>2. Len(queues[l]) \in Nat
        BY QueueType
      <4>3. \A j \in 1..(Len(queues[l]) + 1) :
              queues'[l][j].hi = p \/ (j \in 1..Len(queues[l]) /\ queues'[l][j] = queues[l][j])
        BY <4>1, <4>2
      <4>4. ASSUME NEW m \in Lanes, NEW j \in 1..Len(queues'[m])
            PROVE  queues'[m][j].hi \in 1..Len(log) /\ LaneOf(queues'[m][j].hi) = m
        <5>1. CASE m = l
          <6>1. j \in 1..(Len(queues[l]) + 1)
            BY <4>1, <4>4, <5>1
          <6>2. QED BY <3>1, <3>2, <4>3, <5>1, <6>1 DEF OwnPositions
        <5>2. CASE m # l
          BY <4>1, <4>4, <5>2 DEF OwnPositions
        <5>3. QED BY <5>1, <5>2
      <4>5. QED BY <3>4, <4>4 DEF OwnPositions, LaneOf
    <3>7. CASE \E i \in OpenAt(l, a) : Supersede(l, p, a, i)
      <4>0. PICK i \in OpenAt(l, a) : Supersede(l, p, a, i)
        BY <3>7
      <4> DEFINE n == Len(queues[l])
      <4>0a. TypeOK /\ p \in Nat
        BY <3>4
      <4>1. /\ Len(queues'[l]) = n
            /\ \A j \in 1..(n - 1) : queues'[l][j] = queues[l][IF j < i THEN j ELSE j + 1]
            /\ queues'[l][n] = [lo |-> queues[l][i].lo, hi |-> p, arm |-> a]
            /\ i \in 1..n
            /\ queues[l][i].hi = latest[l][a] /\ queues[l][i].arm = a
            /\ \A m \in Lanes : m # l => queues'[m] = queues[m]
            /\ inflight' = inflight
        BY <4>0a, <4>0, SupersededQueue
      <4>2. n \in Nat
        BY QueueType
      <4> HIDE DEF n
      <4>3. \A j \in 1..n :
              queues'[l][j].hi = p \/ \E k \in 1..n : queues'[l][j] = queues[l][k]
        <5> TAKE j \in 1..n
        <5>1. CASE j = n
          BY <4>1, <5>1
        <5>2. CASE j # n
          <6>1. j \in 1..(n - 1) /\ (IF j < i THEN j ELSE j + 1) \in 1..n
            BY <4>2, <5>2
          <6>2. QED BY <4>1, <6>1
        <5>3. QED BY <5>1, <5>2
      <4>4. \A j \in 1..n : queues'[l][j].hi \in 1..Len(log) /\ LaneOf(queues'[l][j].hi) = l
        BY <3>1, <3>2, <4>3 DEF OwnPositions, n
      <4>5. QED BY <3>4, <4>1, <4>4 DEF OwnPositions, LaneOf
    <3>8. QED BY <1>0, <3>4, <3>5, <3>6, <3>7
  <2>2. CASE ~Answered(p)
    BY <1>0, <1>3, <2>2 DEF AdmitNext
  <2>3. QED BY <2>1, <2>2
<1>4. ASSUME NEW w \in Workers, Retire(w) PROVE OwnPositions'
  <2>1. /\ wlane[w] \in Lanes
        /\ Len(queues[wlane[w]]) \in Nat
        /\ Len(queues'[wlane[w]]) = Len(queues[wlane[w]]) - 1
        /\ \A i \in 1..(Len(queues[wlane[w]]) - 1) :
             queues'[wlane[w]][i] = queues[wlane[w]][i + 1]
        /\ \A m \in Lanes : m # wlane[w] => queues'[m] = queues[m]
    BY <1>4, RetiredQueue
  <2>2. \A i \in 1..(Len(queues[wlane[w]]) - 1) : i + 1 \in 1..Len(queues[wlane[w]])
    BY <2>1
  <2>3. log' = log
    BY <1>4 DEF Retire
  <2>4. ASSUME NEW m \in Lanes, NEW i \in 1..Len(queues'[m])
        PROVE  queues'[m][i].hi \in 1..Len(log) /\ LaneOf(queues'[m][i].hi) = m
    <3>1. CASE m = wlane[w]
      <4>1. i \in 1..(Len(queues[m]) - 1)
        BY <2>1, <2>4, <3>1
      <4>2. queues'[m][i] = queues[m][i + 1] /\ i + 1 \in 1..Len(queues[m])
        BY <2>1, <2>2, <3>1, <4>1
      <4>3. QED BY <4>2 DEF OwnPositions
    <3>2. CASE m # wlane[w]
      BY <2>1, <2>4, <3>2 DEF OwnPositions
    <3>3. QED BY <3>1, <3>2
  <2>5. QED BY <2>3, <2>4 DEF OwnPositions, LaneOf
<1>5. CASE Rewind \/ RequestSkip \/ SweepInvocation \/ UNCHANGED vars
  BY <1>0, <1>5 DEF Rewind, RequestSkip, SweepInvocation, vars
<1>6. CASE \/ \E l \in Lanes : Wake(l)
           \/ Promoted \/ Poll \/ ReadMark \/ PersistMark \/ ForgetPassed \/ SweepRows
           \/ PrunePassed \/ DriverError \/ Resubscribe
  BY <1>0, <1>6 DEF Wake, Promote, PromoteMatching, Promoted, Poll, ReadMark,
                    PersistMark, ForgetPassed, SweepRows, PrunePassed, DriverError,
                    Resubscribe
<1>7. CASE \E w \in Workers :
             \/ PopLane(w) \/ ClaimLane(w) \/ TakeHead(w) \/ Begin(w) \/ SkipWedged(w)
             \/ Finish(w) \/ Fail(w) \/ LoseAnswer(w) \/ Replay(w) \/ RecordLaneRow(w)
             \/ NoteLaneRow(w) \/ ReleaseLane(w)
  BY <1>0, <1>7 DEF PopLane, ClaimLane, Claim, TakeHead, Freeze, Begin, SkipWedged,
                    Finish, Fail, LoseAnswer, Park, Defer, Replay, RecordLaneRow,
                    NoteLaneRow, ReleaseLane, Release
<1>8. QED
  BY <1>1, <1>2, <1>3, <1>4, <1>5, <1>6, <1>7 DEF Next, Reader, Worker

\* Two workers that hold heads hold different lanes and different positions.
LEMMA HoldersApart ==
    ASSUME HeadInv, OwnPositions, NEW v \in Workers, NEW w \in Workers, v # w,
           Holds(v), Holds(w)
    PROVE  /\ wlane[v] \in Lanes /\ wlane[w] \in Lanes /\ wlane[v] # wlane[w]
           /\ work[v].position # work[w].position
<1> USE DEF HeadInv
<1>1. wlane[v] \in Lanes /\ wlane[w] \in Lanes
  BY DEF TypeOK, PoolTypeOK
<1>2. wlane[v] # wlane[w]
  BY DEF Ownership, OneWorkerPerLane, Owns, Holds
<1>3. ASSUME NEW u \in Workers, Holds(u) PROVE LaneOf(work[u].position) = wlane[u]
  <2>1. wlane[u] \in Lanes /\ queues[wlane[u]] # <<>>
        /\ queues[wlane[u]][1].hi = work[u].position
    BY <1>3 DEF FrozenHead, Front, TypeOK, PoolTypeOK
  <2>2. 1 \in 1..Len(queues[wlane[u]])
    BY <2>1, QueueType
  <2>3. QED BY <2>1, <2>2 DEF OwnPositions
<1>4. QED BY <1>1, <1>2, <1>3

\* What a lane fails on stays its head, closed, whatever is admitted.
LEMMA AdmitKeepsFailing ==
    ASSUME TypeOK, QueueSound, NEW l \in Lanes, NEW p \in Nat, NEW a \in Arms,
           NEW declared \in BOOLEAN, Admit(l, p, a, declared),
           NEW m \in Lanes, HeadFails(m), stuck' = stuck, stuck[m] # 0
    PROVE  HeadFails(m)'
<1>0. /\ high[l] \in Nat /\ latest \in [Lanes -> [Arms -> Nat]] /\ stuck[m] \in Nat
  BY DEF TypeOK, LaneTypeOK, ReaderTypeOK
<1>1. CASE high[l] >= p
  BY <1>1 DEF Admit, HeadFails
<1>2. CASE ~(high[l] >= p)
  <2>1. latest' \in {latest, [latest EXCEPT ![l][a] = 0], [latest EXCEPT ![l][a] = p]}
    BY <1>2 DEF Admit
  <2>2. /\ \A k \in Lanes : k # l => latest'[k] = latest[k]
        /\ \A b \in Arms : latest'[l][b] \in {latest[l][b], 0, p}
    BY <1>0, <2>1
  <2>3. /\ Len(queues[m]) \in Nat /\ Len(queues[m]) >= 1
        /\ queues[m][1].hi \in Nat /\ queues[m][1].arm \in Arms
        /\ queues[m][1].hi # 0
        /\ queues[m][1].hi <= high[m]
    BY <1>0, QueueType DEF HeadFails, QueueSound
  <2>4. \/ Enqueue(l, p, a)
        \/ \E i \in OpenAt(l, a) : Supersede(l, p, a, i)
    BY <1>2 DEF Admit
  <2>5. queues'[m] # <<>> /\ queues'[m][1] = queues[m][1]
    <3>1. CASE Enqueue(l, p, a)
      <4>1. /\ Len(queues'[l]) = Len(queues[l]) + 1
            /\ \A j \in 1..Len(queues[l]) : queues'[l][j] = queues[l][j]
            /\ \A k \in Lanes : k # l => queues'[k] = queues[k]
        BY <3>1, EnqueuedQueue
      <4>2. CASE m = l
        BY <2>3, <4>1, <4>2, EmptySeq
      <4>3. CASE m # l
        BY <4>1, <4>3 DEF HeadFails
      <4>4. QED BY <4>2, <4>3
    <3>2. CASE \E i \in OpenAt(l, a) : Supersede(l, p, a, i)
      <4>0. PICK i \in OpenAt(l, a) : Supersede(l, p, a, i)
        BY <3>2
      <4>1. /\ Len(queues'[l]) = Len(queues[l])
            /\ \A j \in 1..(Len(queues[l]) - 1) :
                 queues'[l][j] = queues[l][IF j < i THEN j ELSE j + 1]
            /\ queues'[l][Len(queues[l])] = [lo |-> queues[l][i].lo, hi |-> p, arm |-> a]
            /\ i \in 1..Len(queues[l])
            /\ queues[l][i].hi = latest[l][a] /\ queues[l][i].arm = a
            /\ \A k \in Lanes : k # l => queues'[k] = queues[k]
            /\ inflight' = inflight
        BY <4>0, SupersededQueue
      <4>2. CASE m = l
        <5>1. i # 1
          BY <4>1, <4>2 DEF HeadFails
        <5>2. Len(queues[l]) >= 2 /\ 1 \in 1..(Len(queues[l]) - 1) /\ 1 < i
          BY <2>3, <4>1, <4>2, <5>1
        <5>3. queues'[l][1] = queues[l][1]
          BY <4>1, <5>2
        <5>4. queues'[l] # <<>>
          BY <4>1, <5>2, EmptySeq
        <5>5. QED BY <4>2, <5>3, <5>4
      <4>3. CASE m # l
        BY <4>1, <4>3 DEF HeadFails
      <4>4. QED BY <4>2, <4>3
    <3>3. QED BY <2>4, <3>1, <3>2
  <2>6. latest'[m][queues[m][1].arm] # queues[m][1].hi
    <3>1. CASE m # l
      BY <2>2, <3>1 DEF HeadFails
    <3>2. CASE m = l
      <4>1. queues[m][1].hi # p
        BY <1>0, <1>2, <2>3, <3>2
      <4>2. latest[l][queues[m][1].arm] # queues[m][1].hi
        BY <3>2 DEF HeadFails
      <4>3. QED BY <2>2, <2>3, <3>2, <4>1, <4>2
    <3>3. QED BY <3>1, <3>2
  <2>7. QED BY <2>5, <2>6 DEF HeadFails
<1>3. QED BY <1>1, <1>2

\* A lane whose queue, open groups and failure are left alone.
LEMMA HeadFailsFrame ==
    ASSUME NEW l \in Lanes, HeadFails(l), queues'[l] = queues[l],
           latest'[l] = latest[l], stuck'[l] = stuck[l]
    PROVE  HeadFails(l)'
BY DEF HeadFails

\* A worker that ends an attempt at the position it holds, either way.
LEMMA FailingEnds ==
    ASSUME HeadInv, OwnPositions, Failing, up, up' = up, NEW w \in Workers, Holds(w),
           UNCHANGED <<queues, latest>>, skips' \in {skips, skips \ {work[w].position}},
           \A v \in Workers : v # w =>
             wpc'[v] = wpc[v] /\ wlane'[v] = wlane[v] /\ work'[v] = work[v],
           \/ /\ stuck' = [stuck EXCEPT ![wlane[w]] = 0]
              /\ wlane'[w] = wlane[w] /\ wpc'[w] \in {"verify", "retire"}
           \/ /\ stuck' = [stuck EXCEPT ![wlane[w]] = work[w].position]
              /\ wpc'[w] = "idle"
    PROVE  Failing'
<1> USE DEF HeadInv
<1> DEFINE l == wlane[w]
<1>1. l \in Lanes /\ stuck \in [Lanes -> Nat]
  BY DEF TypeOK, PoolTypeOK, ReaderTypeOK
<1>2. \A m \in Lanes : m # l => stuck'[m] = stuck[m]
  BY <1>1
<1>3. stuck'[l] = 0 \/ stuck'[l] = work[w].position
  BY <1>1
<1>4. /\ queues[l] # <<>> /\ queues[l][1].hi = work[w].position
      /\ latest[l][queues[l][1].arm] # queues[l][1].hi
  BY DEF FrozenHead, Front
<1>5. ASSUME NEW m \in Lanes, stuck'[m] # 0 PROVE HeadFails(m)'
  <2>1. CASE m = l
    BY <1>3, <1>4, <1>5, <2>1 DEF HeadFails
  <2>2. CASE m # l
    BY <1>2, <1>5, <2>2, HeadFailsFrame DEF Failing
  <2>3. QED BY <2>1, <2>2
<1>6. \A v \in Workers : v # w /\ wpc'[v] \in {"verify", "retire", "skip"} =>
        /\ wlane[v] # l /\ wlane[v] \in Lanes /\ work[v].position # work[w].position
  BY HoldersApart DEF Holds
<1>7. \A v \in Workers : wpc'[v] \in {"verify", "retire"} => stuck'[wlane'[v]] = 0
  <2> TAKE v \in Workers
  <2> HAVE wpc'[v] \in {"verify", "retire"}
  <2>1. CASE v = w
    BY <1>1, <2>1
  <2>2. CASE v # w
    BY <1>2, <1>6, <2>2 DEF Failing
  <2>3. QED BY <2>1, <2>2
<1>8. \A v \in Workers : wpc'[v] = "skip" =>
        work'[v].position \in skips' /\ stuck'[wlane'[v]] = work'[v].position
  <2> TAKE v \in Workers
  <2> HAVE wpc'[v] = "skip"
  <2>1. v # w
    OBVIOUS
  <2>2. QED BY <1>2, <1>6, <2>1 DEF Failing
<1>9. QED BY <1>5, <1>7, <1>8 DEF Failing

\* A step that leaves queues, open groups and failures alone, after which a worker is
\* about to skip, to verify or to retire only if it was before.
LEMMA FailingFrame ==
    ASSUME Failing, UNCHANGED <<up, queues, latest, stuck>>, skips \subseteq skips',
           \A v \in Workers :
             /\ wpc'[v] \in {"verify", "retire"} =>
                  wpc[v] \in {"verify", "retire"} /\ wlane'[v] = wlane[v]
             /\ wpc'[v] = "skip" =>
                  wpc[v] = "skip" /\ wlane'[v] = wlane[v] /\ work'[v] = work[v]
    PROVE  Failing'
BY DEF Failing, HeadFails

LEMMA FailingReader == ASSUME HeadInv, OwnPositions, Failing, Reader PROVE Failing'
<1> USE DEF HeadInv
<1>0. UNCHANGED <<up, stuck, wpc, wlane, work>>
  BY DEF Reader, Wake, Promoted, Poll, AdmitNext, ReadMark, PersistMark, ForgetPassed,
         SweepRows, PrunePassed, DriverError, Resubscribe
<1>1. CASE AdmitNext
  <2> DEFINE p == seen + 1
  <2>0. skips' = skips
    BY <1>1 DEF AdmitNext
  <2>1. CASE Answered(p)
    <3>1. p \in 1..Len(log) /\ ArmOf(p) \in Arms
      BY <2>1 DEF Answered, AnswersUnder
    <3>2. LaneOf(p) \in Lanes /\ p \in Nat /\ Collapsible(ArmOf(p), LaneOf(p)) \in BOOLEAN
      BY <3>1, EventTypes, LogLength DEF Collapsible
    <3>3. Admit(LaneOf(p), p, ArmOf(p), Collapsible(ArmOf(p), LaneOf(p)))
      BY <1>1, <2>1 DEF AdmitNext
    <3> HIDE DEF p
    <3>4. \A m \in Lanes : stuck[m] # 0 => HeadFails(m)'
      BY <1>0, <3>1, <3>2, <3>3, AdmitKeepsFailing DEF Failing
    <3>5. QED BY <1>0, <2>0, <3>4 DEF Failing
  <2>2. CASE ~Answered(p)
    BY <1>0, <1>1, <2>0, <2>2, FailingFrame DEF AdmitNext
  <2>3. QED BY <2>1, <2>2
<1>2. CASE PersistMark
  <2>1. /\ rpc = "persist" /\ UNCHANGED <<queues, latest>>
        /\ skips' = {p \in skips : p > pub}
    BY <1>2 DEF PersistMark, Reading
  <2>2. ASSUME NEW w \in Workers, wpc[w] = "skip" PROVE work[w].position \in skips'
    <3>1. /\ wlane[w] \in Lanes /\ queues[wlane[w]] # <<>>
          /\ queues[wlane[w]][1].hi = work[w].position
      BY <2>2 DEF FrozenHead, Front, Holds, TypeOK, PoolTypeOK
    <3>2. /\ 1 \in 1..Len(queues[wlane[w]])
          /\ queues[wlane[w]][1].lo \in Nat /\ queues[wlane[w]][1].hi \in Nat
      BY <3>1, QueueType
    <3>3. /\ pub < queues[wlane[w]][1].lo
          /\ queues[wlane[w]][1].lo <= queues[wlane[w]][1].hi
      BY <2>1, <3>1, <3>2 DEF QueuedAboveMark, QueueSound
    <3>4. pub \in Nat
      BY LogLength DEF TypeOK, ReaderTypeOK
    <3>5. work[w].position > pub
      BY <3>1, <3>2, <3>3, <3>4
    <3>6. QED BY <2>1, <2>2, <3>5 DEF Failing
  <2>3. \A m \in Lanes : HeadFails(m) => HeadFails(m)'
    BY <1>0, <2>1 DEF HeadFails
  <2>4. QED BY <1>0, <2>2, <2>3 DEF Failing
<1>3. CASE \/ \E l \in Lanes : Wake(l)
           \/ Promoted \/ Poll \/ ReadMark \/ ForgetPassed \/ SweepRows
           \/ PrunePassed \/ DriverError \/ Resubscribe
  <2>1. UNCHANGED <<queues, latest, skips>>
    BY <1>3 DEF Wake, Promote, PromoteMatching, Promoted, Poll, ReadMark, ForgetPassed,
                SweepRows, PrunePassed, DriverError, Resubscribe
  <2>2. QED BY <1>0, <2>1, FailingFrame
<1>4. QED BY <1>1, <1>2, <1>3 DEF Reader

LEMMA FailingWorker ==
    ASSUME HeadInv, OwnPositions, Failing, NEW w \in Workers, Worker(w) PROVE Failing'
<1> USE DEF HeadInv
<1>0. /\ up /\ up' = up
      /\ \A v \in Workers : v # w =>
           wpc'[v] = wpc[v] /\ wlane'[v] = wlane[v] /\ work'[v] = work[v]
  BY DEF Worker, PopLane, ClaimLane, TakeHead, Begin, SkipWedged, Finish, Fail,
         LoseAnswer, Park, Replay, Retire, RecordLaneRow, NoteLaneRow, ReleaseLane,
         Unhand, Step, Go, At, TypeOK, PoolTypeOK
<1>1. CASE SkipWedged(w) \/ Finish(w)
  <2>1. /\ Holds(w) /\ UNCHANGED <<queues, latest, wlane>>
        /\ skips' \in {skips, skips \ {work[w].position}}
        /\ stuck' = [stuck EXCEPT ![wlane[w]] = 0]
        /\ wpc'[w] \in {"verify", "retire"}
    BY <1>1 DEF SkipWedged, Finish, Holds, At, Step, Go, TypeOK, PoolTypeOK
  <2>2. QED BY <1>0, <2>1, FailingEnds
<1>2. CASE Fail(w) \/ LoseAnswer(w)
  <2>1. /\ Holds(w) /\ UNCHANGED <<queues, latest, skips>>
        /\ stuck' = [stuck EXCEPT ![wlane[w]] = work[w].position]
        /\ wpc'[w] = "idle"
    BY <1>2 DEF Fail, LoseAnswer, Park, Defer, Unhand, Holds, At, Go, TypeOK, PoolTypeOK
  <2>2. QED BY <1>0, <2>1, FailingEnds
<1>3. CASE Begin(w)
  <2> DEFINE p == work[w].position
             l == wlane[w]
  <2>1. Holds(w) /\ UNCHANGED <<queues, latest, skips, wlane, work>>
    BY <1>3 DEF Begin, Holds, At, Step
  <2>2. CASE status[p] = "terminal"
    <3>1. stuck' = [stuck EXCEPT ![l] = 0] /\ wpc'[w] = "retire"
      BY <1>3, <2>2 DEF Begin, Step, Go, TypeOK, PoolTypeOK
    <3>2. QED BY <1>0, <2>1, <3>1, FailingEnds
  <2>3. CASE status[p] # "terminal"
    <3>1. stuck' = stuck /\ wpc'[w] = IF stuck[l] # 0 /\ p \in skips THEN "skip" ELSE "run"
      BY <1>3, <2>3 DEF Begin, Step, Go, TypeOK, PoolTypeOK
    <3>2. \A m \in Lanes : HeadFails(m) => HeadFails(m)'
      BY <2>1, <3>1, HeadFailsFrame
    <3>3. wpc'[w] = "skip" => p \in skips /\ stuck[l] = p
      <4>1. l \in Lanes /\ queues[l][1].hi = p
        BY <2>1 DEF FrozenHead, Front, TypeOK, PoolTypeOK
      <4>2. QED BY <3>1, <4>1 DEF Failing, HeadFails
    <3>4. wpc'[w] \notin {"verify", "retire"}
      BY <3>1
    <3>5. QED BY <1>0, <2>1, <3>1, <3>2, <3>3, <3>4 DEF Failing
  <2>4. QED BY <2>2, <2>3
<1>4. CASE TakeHead(w)
  <2> DEFINE l == wlane[w]
  <2>1. /\ l \in Lanes /\ wpc'[w] \in {"release", "begin"}
        /\ UNCHANGED <<queues, stuck, skips, wlane>>
    BY <1>4 DEF TakeHead, Freeze, Step, Go, TypeOK, PoolTypeOK
  <2>2. latest' = latest
          \/ (queues[l] # <<>> /\ latest' = [latest EXCEPT ![l][queues[l][1].arm] =
                                               IF @ = queues[l][1].hi THEN 0 ELSE @])
    BY <1>4 DEF TakeHead, Freeze, Close, Front
  <2>3. ASSUME NEW m \in Lanes, HeadFails(m), stuck[m] # 0 PROVE HeadFails(m)'
    <3>1. queues[m][1].hi = stuck[m] /\ queues[m][1].arm \in Arms
          /\ latest \in [Lanes -> [Arms -> Nat]]
      <4>1. Len(queues[m]) \in Nat /\ Len(queues[m]) # 0
        BY <2>3, QueueType, EmptySeq DEF HeadFails
      <4>2. QED BY <2>3, <4>1, QueueType DEF HeadFails, TypeOK, LaneTypeOK
    <3>2. latest'[m][queues[m][1].arm] \in {latest[m][queues[m][1].arm], 0}
      BY <2>1, <2>2, <3>1
    <3>3. queues' = queues /\ stuck' = stuck
      BY <2>1
    <3>4. QED BY <2>3, <3>1, <3>2, <3>3 DEF HeadFails
  <2>4. QED BY <1>0, <2>1, <2>3 DEF Failing
<1>5. CASE Retire(w)
  <2> DEFINE l == wlane[w]
  <2>1. /\ wpc[w] = "retire" /\ wpc'[w] \in {"row", "head"}
        /\ UNCHANGED <<stuck, skips, wlane, work>>
    BY <1>5 DEF Retire, At, Step, Go, TypeOK, PoolTypeOK
  <2>2. stuck[l] = 0
    BY <2>1 DEF Failing
  <2>3. \A m \in Lanes : m # l => queues'[m] = queues[m] /\ latest'[m] = latest[m]
    BY <1>5, RetiredQueue
  <2>4. \A m \in Lanes : stuck[m] # 0 => HeadFails(m)'
    BY <2>1, <2>2, <2>3, HeadFailsFrame DEF Failing
  <2>5. QED BY <1>0, <2>1, <2>4 DEF Failing
<1>6. CASE \/ PopLane(w) \/ ClaimLane(w) \/ Replay(w) \/ RecordLaneRow(w)
           \/ NoteLaneRow(w) \/ ReleaseLane(w)
  <2>1. UNCHANGED <<queues, latest, stuck, skips>>
    BY <1>6 DEF PopLane, ClaimLane, Claim, Replay, RecordLaneRow, NoteLaneRow,
                ReleaseLane, Release
  <2>2. /\ wpc'[w] # "skip"
        /\ wpc'[w] \in {"verify", "retire"} => wpc[w] = "verify" /\ wlane'[w] = wlane[w]
    BY <1>6 DEF PopLane, ClaimLane, Replay, RecordLaneRow, NoteLaneRow, ReleaseLane,
                Unhand, Step, Go, At, TypeOK, PoolTypeOK
  <2>3. QED BY <1>0, <2>1, <2>2, FailingFrame
<1>7. QED BY <1>1, <1>2, <1>3, <1>4, <1>5, <1>6 DEF Worker

LEMMA FailingNext == HeadInv /\ OwnPositions /\ Failing /\ [Next]_vars => Failing'
<1> SUFFICES ASSUME HeadInv, OwnPositions, Failing, [Next]_vars PROVE Failing'
  OBVIOUS
<1> USE DEF HeadInv
<1>1. CASE AppendEvent \/ Rewind \/ RequestSkip \/ SweepInvocation \/ UNCHANGED vars
  <2>1. /\ UNCHANGED <<up, queues, latest, stuck, wpc, wlane, work>>
        /\ skips \subseteq skips'
    BY <1>1 DEF AppendEvent, Rewind, RequestSkip, SweepInvocation, vars
  <2>2. QED BY <2>1, FailingFrame
<1>2. CASE Start \/ Crash
  <2>1. \A l \in Lanes : stuck'[l] = 0
    <3>1. CASE Start
      BY <3>1 DEF Start, Failing
    <3>2. CASE Crash
      BY <3>2 DEF Crash
    <3>3. QED BY <1>2, <3>1, <3>2
  <2>2. \A w \in Workers : wpc'[w] = "idle"
    <3>1. CASE Start
      BY <3>1 DEF Start, Ownership
    <3>2. CASE Crash
      BY <3>2 DEF Crash
    <3>3. QED BY <1>2, <3>1, <3>2
  <2>3. QED BY <2>1, <2>2 DEF Failing
<1>3. CASE Reader
  BY <1>3, FailingReader
<1>4. CASE \E w \in Workers : Worker(w)
  BY <1>4, FailingWorker
<1>5. QED BY <1>1, <1>2, <1>3, <1>4 DEF Next

\* A lane that has failed keeps the position it failed on at its head, and a worker
\* about to honour a skip was asked for that position (attempt, on skip_requested and tried).
THEOREM FailuresKept == Spec => []Failing
<1>1. Init => OwnPositions /\ Failing
  <2> SUFFICES ASSUME Init PROVE OwnPositions /\ Failing
    OBVIOUS
  <2>1. \A l \in Lanes : Len(queues[l]) = 0
    BY EmptySeq DEF Init
  <2>2. QED BY <2>1 DEF Init, OwnPositions, Failing
<1>2. TypeOK /\ Ownership /\ QueueSound /\ QueuedAboveMark /\ FrozenHead
        /\ OwnPositions /\ Failing /\ [Next]_vars => OwnPositions' /\ Failing'
  BY OwnPositionsNext, FailingNext DEF HeadInv
<1>3. QED
  BY <1>1, <1>2, TypeCorrect, OwnershipCorrect, QueuesAboveMark, PTL DEF Spec

\* A position that ends without a run is one an operator asked for, and the very one
\* its lane last failed on; for any number of workers, failing writes, lost answers,
\* restarts and rewinds.
THEOREM SkipsBound == Spec => SkipsOnlyTheFailing
<1>1. Failing /\ [Next]_vars =>
        [\A w \in Workers : \A p \in Positions :
           Skips(w, p) => p \in skips /\ stuck[wlane[w]] = p]_vars
  BY DEF Failing, Skips, At
<1>2. QED BY <1>1, FailuresKept, PTL DEF Spec, SkipsOnlyTheFailing

=============================================================================
