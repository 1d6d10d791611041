--------------------------- MODULE LifecycleProofs ---------------------------
(***************************************************************************)
(* Proofs about EffectLifecycle for any events, lanes, keys and pool, any  *)
(* number of starts, deploys and rewinds: its type invariant, and, when    *)
(* no deploy adds or removes an arm, that an effect resumes where it       *)
(* stopped.                                                                *)
(*                                                                         *)
(* What a row hides is not inductive by itself: a row is written at the    *)
(* position a worker ran, and says something of every older position of    *)
(* its lane.  The invariant adds what the dispatcher knows of those: below *)
(* the cursor and below a lane's high-water a position has been run or is  *)
(* in flight, and a worker holds the oldest one in flight of its lane.     *)
(***************************************************************************)
EXTENDS LifecycleSafety, TLAPS, WellFoundedInduction

USE DEF store, dispatcher, history

\* Deploys move keys, and neither add nor remove arms: a type that one program answers is
\* answered by all of them.  Types that none answers are passed by every effect.
ArmsStay == \A g, h \in Programs : \A t \in Types : g[t] = NoArm => h[t] = NoArm

-----------------------------------------------------------------------------
(* Types.                                                                  *)

\* A non-empty set of naturals has a least element.
LEMMA LeastNatural ==
    ASSUME NEW S, S \subseteq Nat, S # {}
    PROVE  \E n \in S : \A m \in S : n <= m
<1> DEFINE Less == {ss \in Nat \X Nat : ss[1] < ss[2]}
<1>1. IsWellFoundedOn(Less, Nat)
  BY NatLessThanWellFounded, Zenon DEF OpToRel
<1> HIDE DEF Less
<1>2. PICK n \in S : \A m \in S : <<m, n>> \notin Less
  BY <1>1, WFMin
<1>3. \A m \in S : ~(m < n)
  BY <1>2 DEF Less
<1>4. QED BY <1>3

LEMMA OldestIs ==
    ASSUME NEW S, S \subseteq Nat, S # {}
    PROVE  Oldest(S) \in S /\ \A q \in S : Oldest(S) <= q
  BY LeastNatural DEF Oldest

\* The low-water mark is between the start of the log and the cursor, and below
\* everything in flight.
LEMMA LowWaterIs ==
    ASSUME TypeOK, inflight \subseteq 1..cursor
    PROVE  LowWater \in 0..cursor /\ \A q \in inflight : LowWater < q
<1>1. inflight \subseteq Nat /\ cursor \in Nat
  BY DEF TypeOK
<1>2. CASE inflight = {}
  BY <1>1, <1>2 DEF LowWater
<1>3. CASE inflight # {}
  <2>1. Oldest(inflight) \in inflight /\ \A q \in inflight : Oldest(inflight) <= q
    BY <1>1, <1>3, OldestIs
  <2>2. Oldest(inflight) \in 1..cursor
    BY <2>1
  <2>3. LowWater = Oldest(inflight) - 1
    BY <1>3 DEF LowWater
  <2>4. LowWater \in 0..cursor
    BY <1>1, <2>2, <2>3
  <2>5. ASSUME NEW q \in inflight PROVE LowWater < q
    <3>1. q \in Nat /\ Oldest(inflight) <= q /\ Oldest(inflight) \in Nat
      BY <1>1, <2>1
    <3> QED BY <2>3, <3>1
  <2> QED BY <2>4, <2>5
<1> QED BY <1>2, <1>3

\* Everything below it is not in flight.
LEMMA LowWaterReaches ==
    ASSUME TypeOK, inflight \subseteq 1..cursor,
           NEW p \in 1..cursor, \A q \in inflight : p < q
    PROVE  p <= LowWater
<1>1. inflight \subseteq Nat /\ cursor \in Nat
  BY DEF TypeOK
<1>2. CASE inflight = {}
  BY <1>2 DEF LowWater
<1>3. CASE inflight # {}
  <2>1. Oldest(inflight) \in inflight
    BY <1>1, <1>3, OldestIs
  <2>2. Oldest(inflight) \in 1..cursor /\ p < Oldest(inflight)
    BY <2>1
  <2>3. LowWater = Oldest(inflight) - 1
    BY <1>3 DEF LowWater
  <2> QED BY <1>1, <2>2, <2>3
<1> QED BY <1>2, <1>3

\* What is in flight has been admitted, while the process is up.
Admitted == phase = "up" => inflight \subseteq 1..cursor

\* What a worker has in hand is a position of the log.
InHand == \A l \in Lanes : place[l] \in {"run", "ended", "owes"} => work[l] \in Positions

Typed == TypeOK /\ Admitted /\ InHand

LEMMA AppendTyped == ASSUME Typed, AppendEvent PROVE Typed'
<1> USE LifecycleAssumption
<1>1. PICK e \in Events : log' = Append(log, e)
  BY DEF AppendEvent
<1>2. log' \in Seq(Events) /\ Len(log') = Len(log) + 1
  BY <1>1 DEF Typed, TypeOK
<1>3. 0..Len(log) \subseteq 0..Len(log') /\ 1..Len(log) \subseteq 1..Len(log') /\ Len(log) \in Nat
  BY <1>2 DEF Typed, TypeOK
<1> QED
  BY <1>2, <1>3, SMTT(60) DEF AppendEvent, Typed, TypeOK, Admitted, InHand, Positions

LEMMA BootTyped == ASSUME Typed, Boot PROVE Typed'
<1>1. scheme' \in Programs \cup {NoScheme} /\ phase' \in {"blocked", "up"}
  BY DEF Typed, TypeOK, Boot, Activation
<1>2. /\ cursor' \in 0..Len(log) /\ high' \in [Lanes -> 0..Len(log)]
      /\ place' \in [Lanes -> Places] /\ work' \in [Lanes -> 0..Len(log)]
  BY DEF Typed, TypeOK, Boot, Places
<1>3. InHand'
  BY DEF Boot, InHand
<1>4. TypeOK'
  <2>1. log' = log /\ mark' = mark /\ done' = done /\ laneRow' = laneRow
    BY DEF Boot
  <2>2. program' = program /\ rewinds' = rewinds /\ boots' = boots + 1
    BY DEF Boot
  <2>3. /\ inflight' = {} /\ ended' = {} /\ unrecorded' = {}
        /\ shutdown' = FALSE /\ clean' = FALSE
    BY DEF Boot
  <2>4. cursor' \in 0..Len(log') /\ high' \in [Lanes -> 0..Len(log')]
        /\ work' \in [Lanes -> 0..Len(log')]
    BY <1>2, <2>1
  <2>5. inflight' \subseteq Positions' /\ ended' \subseteq Positions' /\ unrecorded' \subseteq Positions'
    BY <2>3
  <2>6. shutdown' \in BOOLEAN /\ clean' \in BOOLEAN
    BY <2>3, Zenon
  <2>7. /\ log' \in Seq(Events) /\ mark' \in 0..Len(log') /\ done' \subseteq Positions'
        /\ laneRow' \in [Lanes -> 0..Len(log')] /\ program' \in Programs
        /\ boots' \in Nat /\ rewinds' \in Nat
    BY <2>1, <2>2 DEF Typed, TypeOK, Positions
  <2> QED
    BY <1>1, <1>2, <2>4, <2>5, <2>6, <2>7 DEF TypeOK
<1>5. Admitted'
  BY DEF Boot, Admitted
<1> QED BY <1>3, <1>4, <1>5 DEF Typed

LEMMA AdmitTyped == ASSUME Typed, Admit PROVE Typed'
<1>1. /\ log \in Seq(Events) /\ cursor \in 0..Len(log) /\ cursor + 1 \in 1..Len(log)
      /\ inflight \subseteq 1..cursor
  BY DEF Admit, Typed, TypeOK, Admitted
<1>2. cursor' = cursor + 1 /\ inflight' \subseteq inflight \cup {cursor + 1}
  BY DEF Admit
<1>3. high' \in [Lanes -> 0..Len(log)]
  <2>1. PICK k : high' = [high EXCEPT ![k] = cursor + 1] \/ high' = high
    BY DEF Admit
  <2>2. high \in [Lanes -> 0..Len(log)] /\ cursor + 1 \in 0..Len(log)
    BY <1>1 DEF Typed, TypeOK
  <2> QED BY <2>1, <2>2
<1>4. place' \in [Lanes -> Places] /\ InHand'
  <2>1. \/ place' = place
        \/ \E k : place' = [place EXCEPT ![k] = IF @ = "none" THEN "offered" ELSE @]
    BY DEF Admit
  <2>2. \A k \in Lanes : place'[k] = place[k] \/ place'[k] = "offered"
    BY <2>1 DEF Typed, TypeOK
  <2>3. place' \in [Lanes -> Places]
    BY <2>1 DEF Typed, TypeOK, Places
  <2>4. work' = work /\ log' = log
    BY DEF Admit
  <2> QED BY <2>2, <2>3, <2>4 DEF Typed, InHand, Positions
<1> QED
  BY <1>1, <1>2, <1>3, <1>4 DEF Admit, Typed, TypeOK, Admitted, Positions

LEMMA WorkerTyped == ASSUME Typed, NEW l \in Lanes, WorkerStep(l) \/ Wake(l) PROVE Typed'
<1>1. phase = "up" /\ phase' = "up" /\ inflight \subseteq 1..cursor /\ cursor' = cursor
  BY DEF Typed, Admitted, WorkerStep, Wake, WorkerUnchanged, Claim, TakeHead, Ends, Parks,
         Retire, RecordRow
<1>2. work \in [Lanes -> 0..Len(log)] /\ Len(log) \in Nat
  BY DEF Typed, TypeOK
<1>3. CASE Claim(l) \/ Parks(l) \/ Wake(l)
  BY <1>1, <1>3 DEF Typed, TypeOK, Admitted, InHand, Positions, Claim, Parks, Wake,
     WorkerUnchanged, Places
<1>4. CASE TakeHead(l)
  <2>1. QueuedIn(l) # {} => Oldest(QueuedIn(l)) \in Positions
    <3>1. QueuedIn(l) \subseteq inflight /\ inflight \subseteq Positions
      BY DEF QueuedIn, Typed, TypeOK
    <3>2. QueuedIn(l) \subseteq Nat
      <4>1. 1..Len(log) \subseteq Nat
        BY <1>2
      <4> QED BY <3>1, <4>1, Zenon DEF Positions
    <3> QED BY <3>1, <3>2, OldestIs
  <2>2. CASE /\ Runnable /\ QueuedIn(l) # {}
             /\ work' = [work EXCEPT ![l] = Oldest(QueuedIn(l))]
             /\ place' = [place EXCEPT ![l] = "run"]
    BY <1>2, <1>4, <2>1, <2>2 DEF Typed, TypeOK, InHand, Admitted, Positions, TakeHead,
       WorkerUnchanged, Places
  <2>3. CASE place' = [place EXCEPT ![l] = Released(l)] /\ UNCHANGED work
    <3>1. Released(l) \in {"none", "offered", "unoffered"}
      BY DEF Released
    <3>2. place' \in [Lanes -> Places] /\ InHand'
      BY <1>4, <2>3, <3>1 DEF Typed, TypeOK, InHand, TakeHead, WorkerUnchanged, Places,
         Positions
    <3> QED
      BY <1>1, <1>4, <2>3, <3>2 DEF Typed, TypeOK, Admitted, Positions, TakeHead,
         WorkerUnchanged
  <2> QED BY <1>4, <2>2, <2>3 DEF TakeHead
<1>5. CASE Ends(l)
  <2>1. work[l] \in Positions
    BY <1>5 DEF Typed, InHand, Ends
  <2> QED
    BY <1>1, <1>5, <2>1 DEF Typed, TypeOK, Admitted, InHand, Positions, Ends,
       WorkerUnchanged, Places
<1>6. CASE Retire(l)
  BY <1>1, <1>6 DEF Typed, TypeOK, Admitted, InHand, Positions, Retire, WorkerUnchanged,
     Places
<1>7. CASE RecordRow(l)
  <2>1. work[l] \in Positions
    BY <1>7 DEF Typed, InHand, RecordRow
  <2>2. laneRow' \in [Lanes -> 0..Len(log)] /\ unrecorded' \subseteq Positions
    BY <1>7, <2>1 DEF Typed, TypeOK, RecordRow, Greater, Positions
  <2>3. place' \in [Lanes -> Places] /\ InHand'
    BY <1>7 DEF Typed, TypeOK, InHand, RecordRow, WorkerUnchanged, Places, Positions
  <2> QED
    BY <1>1, <1>7, <2>2, <2>3 DEF Typed, TypeOK, Admitted, Positions, RecordRow,
       WorkerUnchanged
<1> QED BY <1>3, <1>4, <1>5, <1>6, <1>7 DEF WorkerStep

LEMMA PublishTyped ==
    ASSUME Typed, phase = "up", Publish, UNCHANGED log
    PROVE  /\ mark' \in 0..Len(log) /\ mark <= mark' /\ LowWater <= mark'
           /\ laneRow' \in [Lanes -> 0..Len(log)] /\ high' \in [Lanes -> 0..Len(log)]
<1>1. LowWater \in 0..cursor
  BY LowWaterIs DEF Typed, Admitted
<1>2. mark \in 0..Len(log) /\ cursor \in 0..Len(log) /\ Len(log) \in Nat
  BY DEF Typed, TypeOK
<1>3. mark' \in 0..Len(log) /\ mark <= mark' /\ LowWater <= mark'
  BY <1>1, <1>2 DEF Publish, Greater
<1> QED
  BY <1>2, <1>3 DEF Typed, TypeOK, Publish

LEMMA MarkTyped == ASSUME Typed, PublishMark \/ Drain PROVE Typed'
<1>1. phase = "up" /\ Publish /\ UNCHANGED log
  BY DEF PublishMark, Drain
<1>2. /\ mark' \in 0..Len(log)
      /\ laneRow' \in [Lanes -> 0..Len(log)] /\ high' \in [Lanes -> 0..Len(log)]
  BY <1>1, PublishTyped
<1> QED
  BY <1>1, <1>2 DEF PublishMark, Drain, Typed, TypeOK, Admitted, InHand, Positions

LEMMA EndTyped == ASSUME Typed, Deploy \/ Stop \/ Die \/ Rewind PROVE Typed'
<1>1. CASE Deploy \/ Stop
  BY <1>1 DEF Deploy, Stop, Typed, TypeOK, Admitted, InHand, Positions
<1>2. CASE Die
  <2>1. /\ log' = log /\ mark' = mark /\ done' = done /\ laneRow' = laneRow /\ scheme' = scheme
        /\ program' = program /\ clean' = clean /\ boots' = boots /\ rewinds' = rewinds
    BY <1>2 DEF Die
  <2>2. /\ phase' = "down" /\ shutdown' = FALSE /\ cursor' = 0 /\ inflight' = {}
        /\ ended' = {} /\ unrecorded' = {}
    BY <1>2 DEF Die
  <2>3. Len(log) \in Nat
    BY DEF Typed, TypeOK
  <2>4. high' \in [Lanes -> 0..Len(log)] /\ work' \in [Lanes -> 0..Len(log)]
    BY <1>2, <2>3 DEF Die
  <2>5. place' \in [Lanes -> Places] /\ InHand'
    BY <1>2 DEF Die, Places, InHand
  <2>8. inflight' \subseteq Positions' /\ ended' \subseteq Positions' /\ unrecorded' \subseteq Positions'
    BY <2>2
  <2>9. shutdown' \in BOOLEAN /\ clean' \in BOOLEAN
    <3>1. clean \in BOOLEAN
      BY DEF Typed, TypeOK
    <3> QED BY <2>1, <2>2, <3>1, Zenon
  <2>10. /\ log' \in Seq(Events) /\ mark' \in 0..Len(log') /\ done' \subseteq Positions'
         /\ laneRow' \in [Lanes -> 0..Len(log')] /\ program' \in Programs
         /\ scheme' \in Programs \cup {NoScheme} /\ boots' \in Nat /\ rewinds' \in Nat
    BY <2>1 DEF Typed, TypeOK, Positions
  <2>11. cursor' \in 0..Len(log') /\ high' \in [Lanes -> 0..Len(log')]
         /\ work' \in [Lanes -> 0..Len(log')]
    BY <2>1, <2>2, <2>3, <2>4
  <2>6. TypeOK'
    BY <2>2, <2>5, <2>8, <2>9, <2>10, <2>11 DEF TypeOK
  <2>7. Admitted'
    BY <2>2 DEF Admitted
  <2> QED BY <2>5, <2>6, <2>7 DEF Typed
<1>3. CASE Rewind
  <2>1. /\ log' = log /\ scheme' = scheme /\ program' = program /\ phase' = phase
        /\ shutdown' = shutdown /\ cursor' = cursor /\ high' = high /\ inflight' = inflight
        /\ place' = place /\ work' = work /\ ended' = ended /\ unrecorded' = unrecorded
        /\ boots' = boots
    BY <1>3 DEF Rewind
  <2>2. Len(log) \in Nat /\ mark \in 0..Len(log) /\ done \subseteq Positions
    BY DEF Typed, TypeOK
  <2>3. PICK to \in 0..mark : mark' = to /\ done' = {p \in done : p <= to}
    BY <1>3 DEF Rewind
  <2>4. mark' \in 0..Len(log) /\ done' \subseteq Positions
    BY <2>2, <2>3
  <2>5. laneRow' \in [Lanes -> 0..Len(log)]
    BY <1>3, <2>2 DEF Rewind
  <2>6. clean' = FALSE /\ rewinds' \in Nat
    BY <1>3 DEF Rewind, Typed, TypeOK
  <2>7. TypeOK'
    BY <2>1, <2>4, <2>5, <2>6 DEF Typed, TypeOK, Positions
  <2>8. Admitted' /\ InHand'
    BY <2>1 DEF Typed, Admitted, InHand, Positions
  <2> QED BY <2>7, <2>8 DEF Typed
<1> QED BY <1>1, <1>2, <1>3

LEMMA NextTyped == ASSUME Typed, [Next]_vars PROVE Typed'
<1>1. CASE UNCHANGED vars
  BY <1>1 DEF vars, Typed, TypeOK, Admitted, InHand, Positions
<1> QED
  BY <1>1, AppendTyped, BootTyped, AdmitTyped, WorkerTyped, MarkTyped, EndTyped DEF Next

LEMMA InitTyped == ASSUME Init PROVE Typed
<1>1. log \in Seq(Events) /\ Len(log) = 0
  BY DEF Init
<1>2. /\ high \in [Lanes -> 0..Len(log)] /\ laneRow \in [Lanes -> 0..Len(log)]
      /\ work \in [Lanes -> 0..Len(log)] /\ place \in [Lanes -> Places]
  BY <1>1 DEF Init, Places
<1>3. shutdown \in BOOLEAN /\ clean \in BOOLEAN
  BY Zenon DEF Init
<1>4. TypeOK
  BY <1>1, <1>2, <1>3 DEF Init, TypeOK
<1>5. Admitted /\ InHand
  BY DEF Init, Admitted, InHand
<1> QED BY <1>4, <1>5 DEF Typed

\* Every variable keeps its type, whatever is deployed, appended, run and rewound.
THEOREM LifecycleTypes == Spec => []TypeOK
<1>1. Init => Typed
  BY InitTyped
<1>2. Typed /\ [Next]_vars => Typed'
  BY NextTyped
<1>3. Typed => TypeOK
  BY DEF Typed
<1> QED BY <1>1, <1>2, <1>3, PTL DEF Spec

-----------------------------------------------------------------------------
(* Where an effect resumes.                                                *)

\* The positions the effect answers, whichever of its programs it runs.
Answered == {p \in Positions : Answers(program, p)}

\* The lane of a position under the recorded scheme.
Home(p) == LaneUnder(scheme, p)

\* Before the first start nothing is marked and nothing runs.
Fresh == scheme = NoScheme => phase = "down" /\ mark = 0 /\ \A l \in Lanes : laneRow[l] = 0

\* What a resume passes over has been run.
RowsDone ==
    scheme # NoScheme =>
      \A p \in Answered : p <= mark \/ p <= laneRow[Home(p)] => p \in done

\* What the dispatcher passed over has been run or is in flight.
ReadDone ==
    phase = "up" =>
      /\ scheme = program
      /\ \A p \in Answered : p <= cursor \/ p <= high[Home(p)] => p \in done \cup inflight

\* A worker has the first position of its lane that may not have been run.
HandsFirst ==
    phase = "up" =>
      \A l \in Lanes : place[l] \in {"run", "ended", "owes"} =>
        /\ work[l] <= cursor /\ Home(work[l]) = l
        /\ \A p \in Answered : p < work[l] /\ Home(p) = l => p \in done
        /\ place[l] # "run" => work[l] \in done

Covered(p) == p <= mark \/ p <= laneRow[Home(p)] \/ p \in unrecorded
InHandAs(p) == \E l \in Lanes : place[l] \in {"ended", "owes"} /\ work[l] = p

\* What this process ended is covered, or below all in flight, or in a worker's hand.
EndedKept ==
    phase = "up" =>
      \A p \in ended :
        p <= cursor /\ (Covered(p) \/ (\A q \in inflight : p < q) \/ InHandAs(p))

\* What a drained process ended is covered.
LeftCovered == clean => phase = "down" /\ \A p \in ended : Covered(p)

\* Nothing but what the effect answers is admitted, run or ended.
OnlyAnswered ==
    /\ inflight \subseteq Answered /\ ended \subseteq Answered
    /\ \A l \in Lanes : place[l] \in {"run", "ended", "owes"} => work[l] \in Answered

Resumes ==
    /\ Fresh /\ RowsDone /\ ReadDone /\ HandsFirst /\ EndedKept /\ LeftCovered
    /\ OnlyAnswered

Inductive == Typed /\ Resumes

\* An event answered by one program is in a lane of every program.
LEMMA HomeIs ==
    ASSUME ArmsStay, log \in Seq(Events), program \in Programs,
           NEW g \in Programs, NEW p \in Answered
    PROVE  LaneUnder(g, p) \in Lanes /\ Answers(g, p)
<1>1. log[p] \in Events
  BY DEF Answered, Positions
<1>2. log[p].type \in Types /\ log[p].lanes \in [Keys -> Lanes]
  BY <1>1, LifecycleAssumption
<1>3. g \in [Types -> Keys \cup {NoArm}]
  BY LifecycleAssumption
<1>4. g[log[p].type] \in Keys /\ g[log[p].type] # NoArm
  BY <1>2, <1>3 DEF ArmsStay, Answered, Answers
<1> QED BY <1>2, <1>4 DEF LaneUnder, Answers

\* Between two programs that moved no key, a position keeps its lane.
LEMMA HomeKept ==
    ASSUME ArmsStay, log \in Seq(Events), program \in Programs,
           NEW g \in Programs, NEW h \in Programs,
           NEW p \in Answered, Repartitioned(g, h) = {}
    PROVE  LaneUnder(g, p) = LaneUnder(h, p)
<1>1. log[p] \in Events
  BY DEF Answered, Positions
<1>2. log[p].type \in Types
  BY <1>1, LifecycleAssumption
<1>3. g[log[p].type] # NoArm /\ h[log[p].type] # NoArm
  BY HomeIs DEF Answers
<1>4. g[log[p].type] = h[log[p].type]
  BY <1>2, <1>3 DEF Repartitioned
<1> QED BY <1>4 DEF LaneUnder

\* Which positions are answered is a matter of the log alone.
LEMMA AnsweredKept ==
    ASSUME ArmsStay, log \in Seq(Events), program \in Programs, program' \in Programs,
           log' = log
    PROVE  Answered' = Answered
<1>1. ASSUME NEW p \in Positions PROVE Answers(program', p) <=> Answers(program, p)
  <2>1. log[p] \in Events
    BY DEF Positions
  <2>2. log[p].type \in Types
    BY <2>1, LifecycleAssumption
  <2> QED BY <2>2 DEF ArmsStay, Answers
<1> QED BY <1>1 DEF Answered, Answers, Positions

\* A new position is above every mark and row; the old ones stay where they were.
LEMMA AppendResumes ==
    ASSUME ArmsStay, Inductive, AppendEvent PROVE Resumes'
<1>1. PICK e \in Events : log' = Append(log, e)
  BY DEF AppendEvent
<1>2. log \in Seq(Events) /\ Len(log) \in Nat /\ Len(log') = Len(log) + 1
  BY <1>1 DEF Inductive, Typed, TypeOK
<1>3. ASSUME NEW p \in Positions
      PROVE  p \in Positions' /\ log'[p] = log[p] /\ (p \in Answered <=> p \in Answered')
  <2>1. p \in Positions' /\ log'[p] = log[p]
    BY <1>1, <1>2 DEF Positions
  <2>2. program' = program
    BY DEF AppendEvent
  <2> QED BY <2>1, <2>2 DEF Answered, Answers
<1>4. ASSUME NEW p \in Positions', p \notin Positions PROVE p = Len(log) + 1
  BY <1>2, <1>4 DEF Positions
<1>5. /\ scheme \in Programs /\ scheme' = scheme /\ phase \in {"blocked", "up"} /\ phase' = phase
      /\ clean = FALSE /\ clean' = FALSE
  BY DEF AppendEvent, Inductive, Typed, TypeOK, Resumes, Fresh, LeftCovered
<1>6. ASSUME NEW p \in Positions PROVE Home(p)' = Home(p)
  BY <1>3, <1>5 DEF Home, LaneUnder
<1>7. ASSUME NEW p \in Answered' PROVE Home(p)' \in Lanes
  <2>1. log' \in Seq(Events)
    BY <1>1, <1>2
  <2>2. log'[p] \in Events
    BY <2>1 DEF Answered, Positions
  <2>3. log'[p].type \in Types /\ log'[p].lanes \in [Keys -> Lanes]
    BY <2>2, LifecycleAssumption
  <2>4. program[log'[p].type] # NoArm /\ program \in Programs
    BY DEF AppendEvent, Answered, Answers, Inductive, Typed, TypeOK
  <2>5. scheme[log'[p].type] \in Keys
    BY <1>5, <2>3, <2>4, LifecycleAssumption DEF ArmsStay
  <2> QED BY <1>5, <2>3, <2>5 DEF Home, LaneUnder
<1>8. /\ mark' = mark /\ done' = done /\ laneRow' = laneRow /\ program' = program
      /\ cursor' = cursor /\ high' = high /\ inflight' = inflight /\ place' = place
      /\ work' = work /\ ended' = ended /\ unrecorded' = unrecorded
  BY DEF AppendEvent
<1>9. /\ mark \in 0..Len(log) /\ cursor \in 0..Len(log)
      /\ laneRow \in [Lanes -> 0..Len(log)] /\ high \in [Lanes -> 0..Len(log)]
      /\ ended \subseteq Positions
  BY DEF Inductive, Typed, TypeOK
<1>10. ASSUME NEW p \in Answered', p \notin Answered
       PROVE  /\ ~(p <= mark) /\ ~(p <= cursor)
              /\ ~(p <= laneRow[Home(p)']) /\ ~(p <= high[Home(p)'])
  <2>1. p \in Positions' /\ p \notin Positions
    BY <1>3, <1>10 DEF Answered
  <2> QED BY <1>2, <1>4, <1>7, <1>9, <1>10, <2>1
<1>11. Fresh'
  BY <1>5, LifecycleAssumption DEF Fresh
<1>12. RowsDone'
  <2>1. ASSUME NEW p \in Answered', p <= mark \/ p <= laneRow[Home(p)'] PROVE p \in done
    <3>1. p \in Answered
      BY <1>10, <2>1
    <3>2. Home(p)' = Home(p)
      BY <1>6, <3>1 DEF Answered
    <3> QED BY <1>5, <2>1, <3>1, <3>2, LifecycleAssumption DEF Inductive, Resumes, RowsDone
  <2> QED BY <1>8, <2>1 DEF RowsDone
<1>13. ReadDone'
  <2>1. ASSUME phase = "up", NEW p \in Answered', p <= cursor \/ p <= high[Home(p)']
        PROVE  p \in done \cup inflight
    <3>1. p \in Answered
      BY <1>10, <2>1
    <3>2. Home(p)' = Home(p)
      BY <1>6, <3>1 DEF Answered
    <3> QED BY <2>1, <3>1, <3>2 DEF Inductive, Resumes, ReadDone
  <2>2. phase = "up" => scheme = program
    BY DEF Inductive, Resumes, ReadDone
  <2> QED BY <1>5, <1>8, <2>1, <2>2 DEF ReadDone
<1>14. HandsFirst'
  <2> SUFFICES ASSUME phase = "up", NEW l \in Lanes, place[l] \in {"run", "ended", "owes"}
               PROVE  /\ work[l] <= cursor /\ Home(work[l])' = l
                      /\ \A p \in Answered' : p < work[l] /\ Home(p)' = l => p \in done
                      /\ place[l] # "run" => work[l] \in done
    BY <1>5, <1>8 DEF HandsFirst
  <2>1. /\ work[l] <= cursor /\ Home(work[l]) = l
        /\ \A p \in Answered : p < work[l] /\ Home(p) = l => p \in done
        /\ place[l] # "run" => work[l] \in done
    BY DEF Inductive, Resumes, HandsFirst
  <2>2. work[l] \in Positions
    BY DEF Inductive, Typed, InHand
  <2>3. Home(work[l])' = l
    BY <1>3, <1>5, <1>8, <2>1, <2>2 DEF Home, LaneUnder
  <2>4. ASSUME NEW p \in Answered', p < work[l], Home(p)' = l PROVE p \in done
    <3>1. p \in Positions /\ p \in Answered
      <4>1. p \in Positions
        BY <1>2, <2>2, <2>4 DEF Positions, Answered
      <4> QED BY <1>3, <4>1
    <3> QED BY <1>6, <2>1, <2>4, <3>1
  <2> QED BY <2>1, <2>3, <2>4
<1>15. EndedKept'
  <2> SUFFICES ASSUME phase = "up", NEW p \in ended
               PROVE  p <= cursor /\ (Covered(p)' \/ (\A q \in inflight : p < q) \/ InHandAs(p)')
    BY <1>5, <1>8 DEF EndedKept
  <2>1. p <= cursor /\ (Covered(p) \/ (\A q \in inflight : p < q) \/ InHandAs(p))
    BY DEF Inductive, Resumes, EndedKept
  <2>2. Home(p)' = Home(p)
    BY <1>6, <1>9
  <2>3. (Covered(p) => Covered(p)') /\ (InHandAs(p) => InHandAs(p)')
    BY <1>8, <2>2 DEF Covered, InHandAs
  <2> QED BY <2>1, <2>3
<1>16. OnlyAnswered'
  <2>1. \A p \in Answered : p \in Answered'
    BY <1>3 DEF Answered
  <2> QED BY <1>8, <2>1 DEF Inductive, Resumes, OnlyAnswered
<1> QED BY <1>5, <1>11, <1>12, <1>13, <1>14, <1>15, <1>16 DEF Resumes, LeftCovered

\* The gate lets a program in that moved no key, or after which no row is above the mark.
LEMMA BootResumes ==
    ASSUME ArmsStay, Inductive, Boot PROVE Resumes'
<1>1. log \in Seq(Events) /\ program \in Programs /\ scheme \in Programs \cup {NoScheme}
  BY DEF Inductive, Typed, TypeOK
<1>2. /\ log' = log /\ mark' = mark /\ done' = done /\ laneRow' = laneRow /\ program' = program
      /\ cursor' = mark /\ high' = laneRow /\ inflight' = {} /\ place' = [l \in Lanes |-> "none"]
      /\ ended' = {} /\ clean' = FALSE
  BY DEF Boot
<1>3. /\ scheme' = IF Blocking THEN Activation ELSE program
      /\ phase' = IF Blocking THEN "blocked" ELSE "up"
  BY DEF Boot
<1>4. Activation \in Programs /\ scheme' \in Programs
  BY <1>1, <1>3 DEF Activation
<1>5. mark \in 0..Len(log) /\ laneRow \in [Lanes -> 0..Len(log)] /\ Len(log) \in Nat
  BY DEF Inductive, Typed, TypeOK
<1>6. ASSUME NEW p \in Answered, p <= mark \/ p <= laneRow[Home(p)'] PROVE p \in done
  <2>1. CASE scheme = NoScheme
    <3>1. mark = 0 /\ \A l \in Lanes : laneRow[l] = 0
      BY <2>1 DEF Inductive, Resumes, Fresh
    <3>2. LaneUnder(scheme', p) \in Lanes
      BY <1>1, <1>4, HomeIs
    <3>3. Home(p)' \in Lanes
      BY <1>2, <3>2 DEF Home, LaneUnder
    <3>4. p \in Nat \ {0}
      BY <1>5 DEF Positions, Answered
    <3> QED BY <1>6, <3>1, <3>3, <3>4
  <2>2. CASE scheme # NoScheme /\ scheme' = scheme
    <3>1. Home(p)' = Home(p)
      BY <1>2, <2>2 DEF Home, LaneUnder
    <3> QED BY <1>6, <2>2, <3>1 DEF Inductive, Resumes, RowsDone
  <2>3. CASE scheme # NoScheme /\ scheme' # scheme
    <3>1. scheme \in Programs /\ Activation = scheme /\ ~Blocking /\ scheme' = program
      BY <1>1, <1>3, <2>3 DEF Activation
    <3>2. CASE Repartitioned(scheme, program) = {}
      <4>1. LaneUnder(scheme, p) = LaneUnder(program, p)
        BY <1>1, <3>1, <3>2, HomeKept
      <4>2. Home(p)' = Home(p)
        BY <1>2, <3>1, <4>1 DEF Home, LaneUnder
      <4> QED BY <1>6, <2>3, <4>2 DEF Inductive, Resumes, RowsDone
    <3>3. CASE Outstanding = {}
      <4>1. LaneUnder(program, p) \in Lanes
        BY <1>1, HomeIs
      <4>2. Home(p)' \in Lanes
        BY <1>2, <3>1, <4>1 DEF Home, LaneUnder
      <4>3. ~(laneRow[Home(p)'] > mark)
        BY <3>3, <4>2 DEF Outstanding
      <4>4. p <= mark
        BY <1>5, <1>6, <4>2, <4>3 DEF Positions, Answered
      <4> QED BY <2>3, <4>4 DEF Inductive, Resumes, RowsDone
    <3> QED BY <3>1, <3>2, <3>3 DEF Blocking
  <2> QED BY <2>1, <2>2, <2>3
<1>7. Answered' = Answered
  BY <1>1, <1>2, AnsweredKept
<1>8. Fresh'
  BY <1>4, LifecycleAssumption DEF Fresh
<1>9. RowsDone'
  BY <1>2, <1>6, <1>7 DEF RowsDone
<1>10. ReadDone'
  <2>1. phase' = "up" => scheme' = program'
    BY <1>2, <1>3
  <2>2. \A p \in Answered' : p <= cursor' \/ p <= high'[Home(p)'] => p \in done' \cup inflight'
    BY <1>2, <1>6, <1>7
  <2> QED BY <2>1, <2>2 DEF ReadDone
<1>11. HandsFirst' /\ EndedKept' /\ LeftCovered' /\ OnlyAnswered'
  BY <1>2 DEF HandsFirst, EndedKept, LeftCovered, OnlyAnswered
<1> QED BY <1>8, <1>9, <1>10, <1>11 DEF Resumes

\* A delivered position is in flight, or its lane is recorded past it.
LEMMA AdmitResumes ==
    ASSUME ArmsStay, Inductive, Admit PROVE Resumes'
<1>1. /\ log' = log /\ mark' = mark /\ done' = done /\ laneRow' = laneRow /\ scheme' = scheme
      /\ program' = program /\ work' = work /\ ended' = ended /\ unrecorded' = unrecorded
      /\ clean' = clean /\ phase = "up" /\ phase' = "up" /\ cursor' = cursor + 1
  BY DEF Admit
<1>2. /\ log \in Seq(Events) /\ program \in Programs /\ scheme = program
      /\ cursor \in Nat /\ cursor + 1 \in Positions
      /\ high \in [Lanes -> 0..Len(log)] /\ place \in [Lanes -> Places]
      /\ inflight \subseteq Positions /\ Len(log) \in Nat /\ clean = FALSE
      /\ ended \subseteq Positions
  <2>1. scheme = program /\ clean = FALSE
    BY <1>1 DEF Inductive, Resumes, ReadDone, LeftCovered, Typed, TypeOK
  <2> QED BY <2>1 DEF Inductive, Typed, TypeOK, Admit, Positions
<1>3. /\ \A p : Home(p)' = Home(p)
      /\ \A p \in Positions : Home(p) = LaneUnder(program, p)
      /\ Answered' = Answered
  BY <1>1, <1>2 DEF Home, LaneUnder, Answered, Answers, Positions
<1>4. cursor + 1 \in Answered => Home(cursor + 1) \in Lanes
  BY <1>2, <1>3, HomeIs
<1>5. \/ /\ cursor + 1 \in Answered /\ high[Home(cursor + 1)] < cursor + 1
         /\ high' = [high EXCEPT ![Home(cursor + 1)] = cursor + 1]
         /\ inflight' = inflight \cup {cursor + 1}
         /\ place' = [place EXCEPT ![Home(cursor + 1)] = IF @ = "none" THEN "offered" ELSE @]
      \/ /\ cursor + 1 \in Answered => high[Home(cursor + 1)] >= cursor + 1
         /\ high' = high /\ inflight' = inflight /\ place' = place
  <2>1. cursor + 1 \in Answered <=> Answers(program, cursor + 1)
    BY <1>2 DEF Answered
  <2> QED BY <1>2, <1>3, <2>1 DEF Admit
<1>6. ASSUME NEW p \in Answered, p <= cursor + 1 PROVE p \in done \cup inflight'
  <2>1. p <= cursor => p \in done \cup inflight
    BY <1>1 DEF Inductive, Resumes, ReadDone
  <2>2. CASE p = cursor + 1
    <3>1. high[Home(p)] >= p => p \in done \cup inflight
      BY <1>1, <1>2, <1>4, <2>2 DEF Inductive, Resumes, ReadDone
    <3> QED BY <1>5, <2>2, <3>1
  <2>3. CASE p # cursor + 1
    <3>1. p <= cursor
      BY <1>2, <1>6, <2>3 DEF Positions, Answered
    <3> QED BY <1>5, <2>1, <3>1
  <2> QED BY <2>2, <2>3
<1>7. ReadDone'
  <2>1. ASSUME NEW p \in Answered, p <= cursor + 1 \/ p <= high'[Home(p)]
        PROVE  p \in done \cup inflight'
    <3>1. CASE p <= cursor + 1
      BY <1>6, <3>1
    <3>2. CASE p <= high[Home(p)]
      BY <1>1, <1>5, <3>2 DEF Inductive, Resumes, ReadDone
    <3>3. CASE high'[Home(p)] # high[Home(p)]
      <4>1. Home(p) \in Lanes
        BY <1>2, HomeIs DEF Home
      <4>2. high'[Home(p)] = cursor + 1
        BY <1>2, <1>4, <1>5, <3>3, <4>1
      <4> QED BY <1>6, <2>1, <4>2
    <3> QED BY <2>1, <3>1, <3>2, <3>3
  <2> QED BY <1>1, <1>2, <1>3, <2>1 DEF ReadDone
<1>8. \A l \in Lanes : place'[l] = place[l] \/ (place'[l] = "offered" /\ place[l] = "none")
  BY <1>2, <1>4, <1>5
<1>9. HandsFirst'
  <2> SUFFICES ASSUME NEW l \in Lanes, place'[l] \in {"run", "ended", "owes"}
               PROVE  /\ work[l] <= cursor + 1 /\ Home(work[l]) = l
                      /\ \A p \in Answered : p < work[l] /\ Home(p) = l => p \in done
                      /\ place'[l] # "run" => work[l] \in done
    BY <1>1, <1>3 DEF HandsFirst, Home, LaneUnder
  <2>1. place'[l] = place[l]
    BY <1>8
  <2>2. work[l] \in Positions
    BY <2>1 DEF Inductive, Typed, InHand
  <2>3. /\ work[l] <= cursor /\ Home(work[l]) = l
        /\ \A p \in Answered : p < work[l] /\ Home(p) = l => p \in done
        /\ place[l] # "run" => work[l] \in done
    BY <1>1, <2>1 DEF Inductive, Resumes, HandsFirst
  <2> QED BY <1>2, <2>1, <2>2, <2>3 DEF Positions
<1>10. EndedKept'
  <2> SUFFICES ASSUME NEW p \in ended
               PROVE  /\ p <= cursor + 1
                      /\ Covered(p)' \/ (\A q \in inflight' : p < q) \/ InHandAs(p)'
    BY <1>1 DEF EndedKept
  <2>1. p <= cursor /\ (Covered(p) \/ (\A q \in inflight : p < q) \/ InHandAs(p))
    BY <1>1 DEF Inductive, Resumes, EndedKept
  <2>2. p <= cursor + 1 /\ p < cursor + 1 /\ p \in Nat
    BY <1>2, <2>1 DEF Positions
  <2>3. Covered(p) => Covered(p)'
    BY <1>1, <1>3 DEF Covered
  <2>4. InHandAs(p) => InHandAs(p)'
    BY <1>1, <1>8 DEF InHandAs
  <2>5. (\A q \in inflight : p < q) => \A q \in inflight' : p < q
    BY <1>5, <2>2
  <2> QED BY <2>1, <2>2, <2>3, <2>4, <2>5
<1>11. Fresh' /\ RowsDone' /\ LeftCovered'
  <2>1. Fresh /\ RowsDone
    BY DEF Inductive, Resumes
  <2>2. Fresh' /\ LeftCovered'
    BY <1>1, <1>2, LifecycleAssumption DEF Fresh, LeftCovered
  <2>3. RowsDone'
    BY <1>1, <1>3, <2>1 DEF RowsDone
  <2> QED BY <2>2, <2>3
<1>12. OnlyAnswered'
  <2>1. OnlyAnswered
    BY DEF Inductive, Resumes
  <2>2. inflight' \subseteq Answered
    BY <1>5, <2>1 DEF OnlyAnswered
  <2> QED BY <1>1, <1>3, <1>8, <2>1, <2>2 DEF OnlyAnswered
<1> QED BY <1>7, <1>9, <1>10, <1>11, <1>12 DEF Resumes

\* What no step of a worker changes.
LEMMA WorkerFixed ==
    ASSUME Inductive, NEW l \in Lanes, WorkerStep(l) \/ Wake(l)
    PROVE  /\ log' = log /\ mark' = mark /\ scheme' = scheme /\ program' = program
           /\ phase = "up" /\ phase' = "up" /\ cursor' = cursor /\ high' = high
           /\ clean = FALSE /\ clean' = FALSE /\ Positions' = Positions /\ Answered' = Answered
           /\ scheme = program /\ scheme # NoScheme
           /\ \A p : Home(p)' = Home(p)
<1>1. phase = "up" /\ WorkerUnchanged
  BY DEF WorkerStep, Claim, TakeHead, Ends, Parks, Wake, Retire, RecordRow
<1>2. clean = FALSE
  BY <1>1 DEF Inductive, Typed, TypeOK, Resumes, LeftCovered
<1>3. scheme # NoScheme
  BY <1>1 DEF Inductive, Resumes, Fresh
<1>4. scheme = program
  BY <1>1 DEF Inductive, Resumes, ReadDone
<1> QED BY <1>1, <1>2, <1>3, <1>4 DEF WorkerUnchanged, Positions, Answered, Answers, Home, LaneUnder

\* A worker that runs, parks or takes up a position loses nothing of its lane.
LEMMA HeadResumes ==
    ASSUME ArmsStay, Inductive, NEW l \in Lanes,
           Claim(l) \/ TakeHead(l) \/ Parks(l) \/ Wake(l)
    PROVE  Resumes'
<1>1. /\ log' = log /\ mark' = mark /\ scheme' = scheme /\ program' = program
      /\ phase = "up" /\ phase' = "up" /\ cursor' = cursor /\ high' = high
      /\ clean = FALSE /\ clean' = FALSE /\ Positions' = Positions /\ Answered' = Answered
      /\ scheme = program /\ scheme # NoScheme /\ \A p : Home(p)' = Home(p)
  BY WorkerFixed DEF WorkerStep
<1>2. /\ done' = done /\ laneRow' = laneRow /\ inflight' = inflight
      /\ ended' = ended /\ unrecorded' = unrecorded
  BY DEF Claim, TakeHead, Parks, Wake
<1>3. /\ place \in [Lanes -> Places] /\ work \in [Lanes -> 0..Len(log)]
      /\ inflight \subseteq 1..cursor /\ inflight \subseteq Positions /\ cursor \in 0..Len(log)
      /\ Len(log) \in Nat
  BY <1>1 DEF Inductive, Typed, TypeOK, Admitted
<1>4. /\ place[l] \notin {"ended", "owes"}
      /\ \A k \in Lanes \ {l} : place'[k] = place[k] /\ work'[k] = work[k]
      /\ place'[l] \notin {"ended", "owes"}
  BY <1>3 DEF Claim, TakeHead, Parks, Wake, Released
<1>5. Fresh' /\ RowsDone' /\ ReadDone' /\ LeftCovered'
  BY <1>1, <1>2 DEF Inductive, Resumes, Fresh, RowsDone, ReadDone, LeftCovered
<1>6. EndedKept'
  <2>1. \A p : InHandAs(p) => InHandAs(p)'
    BY <1>4 DEF InHandAs
  <2>2. \A p : Covered(p) => Covered(p)'
    BY <1>1, <1>2 DEF Covered
  <2> QED BY <1>1, <1>2, <2>1, <2>2 DEF EndedKept, Inductive, Resumes
<1>7. ASSUME place'[l] = "run"
      PROVE  /\ work'[l] <= cursor /\ work'[l] \in Answered /\ Home(work'[l]) = l
             /\ \A p \in Answered : p < work'[l] /\ Home(p) = l => p \in done
  <2>1. /\ TakeHead(l) /\ QueuedIn(l) # {}
        /\ work' = [work EXCEPT ![l] = Oldest(QueuedIn(l))]
    BY <1>3, <1>7 DEF Claim, TakeHead, Parks, Wake, Released
  <2>2. QueuedIn(l) \subseteq inflight /\ QueuedIn(l) \subseteq Nat
    <3>1. QueuedIn(l) \subseteq inflight
      BY DEF QueuedIn
    <3>2. inflight \subseteq Nat
      BY <1>3 DEF Positions
    <3> QED BY <3>1, <3>2
  <2>3. work'[l] \in QueuedIn(l) /\ \A q \in QueuedIn(l) : work'[l] <= q
    BY <1>3, <2>1, <2>2, OldestIs
  <2>4. work'[l] \in inflight /\ work'[l] \in Answered /\ Home(work'[l]) = l
    BY <1>1, <2>3 DEF QueuedIn, Home, Inductive, Resumes, OnlyAnswered
  <2>5. work'[l] \in 1..cursor
    BY <1>3, <2>4
  <2>6. ASSUME NEW p \in Answered, p < work'[l], Home(p) = l PROVE p \in done
    <3>1. p <= cursor /\ p \in Nat
      BY <1>3, <2>5, <2>6 DEF Positions, Answered
    <3>2. p \in done \cup inflight
      BY <1>1, <3>1 DEF Inductive, Resumes, ReadDone
    <3>3. p \notin QueuedIn(l)
      BY <1>3, <2>3, <2>5, <2>6, <3>1
    <3> QED BY <1>1, <2>6, <3>2, <3>3 DEF QueuedIn, Home
  <2> QED BY <1>3, <2>4, <2>5, <2>6
<1>8. HandsFirst'
  <2> SUFFICES ASSUME NEW k \in Lanes, place'[k] \in {"run", "ended", "owes"}
               PROVE  /\ work'[k] <= cursor /\ Home(work'[k]) = k
                      /\ \A p \in Answered : p < work'[k] /\ Home(p) = k => p \in done
                      /\ place'[k] # "run" => work'[k] \in done
    BY <1>1, <1>2 DEF HandsFirst, Home, LaneUnder
  <2>1. CASE k = l
    BY <1>4, <1>7, <2>1
  <2>2. CASE k # l
    <3>1. place'[k] = place[k] /\ work'[k] = work[k]
      BY <1>4, <2>2
    <3>2. /\ work[k] <= cursor /\ Home(work[k]) = k
          /\ \A p \in Answered : p < work[k] /\ Home(p) = k => p \in done
          /\ place[k] # "run" => work[k] \in done
      BY <1>1, <3>1 DEF Inductive, Resumes, HandsFirst
    <3> QED BY <3>1, <3>2
  <2> QED BY <2>1, <2>2
<1>9. OnlyAnswered'
  <2>1. OnlyAnswered
    BY DEF Inductive, Resumes
  <2> QED BY <1>1, <1>2, <1>4, <1>7, <2>1 DEF OnlyAnswered
<1> QED BY <1>5, <1>6, <1>8, <1>9 DEF Resumes

\* A position a worker ended is the first of its lane that had not been run.
LEMMA EndsResumes ==
    ASSUME Inductive, NEW l \in Lanes, Ends(l) PROVE Resumes'
<1>1. /\ log' = log /\ mark' = mark /\ scheme' = scheme /\ program' = program
      /\ phase = "up" /\ phase' = "up" /\ cursor' = cursor /\ high' = high
      /\ clean = FALSE /\ clean' = FALSE /\ Positions' = Positions /\ Answered' = Answered
      /\ scheme = program /\ scheme # NoScheme /\ \A p : Home(p)' = Home(p)
  BY WorkerFixed DEF WorkerStep
<1>2. /\ laneRow' = laneRow /\ inflight' = inflight /\ unrecorded' = unrecorded /\ work' = work
      /\ done' = done \cup {work[l]} /\ ended' = ended \cup {work[l]}
      /\ place[l] = "run" /\ place' = [place EXCEPT ![l] = "ended"]
  BY DEF Ends
<1>3. place \in [Lanes -> Places]
  BY DEF Inductive, Typed, TypeOK
<1>4. Fresh' /\ RowsDone' /\ ReadDone' /\ LeftCovered'
  BY <1>1, <1>2 DEF Inductive, Resumes, Fresh, RowsDone, ReadDone, LeftCovered
<1>5. \A k \in Lanes :
        place[k] \in {"run", "ended", "owes"} =>
          /\ work[k] <= cursor /\ Home(work[k]) = k
          /\ \A p \in Answered : p < work[k] /\ Home(p) = k => p \in done
          /\ place[k] # "run" => work[k] \in done
  BY <1>1 DEF Inductive, Resumes, HandsFirst
<1>6. HandsFirst'
  <2> SUFFICES ASSUME NEW k \in Lanes, place'[k] \in {"run", "ended", "owes"}
               PROVE  /\ work[k] <= cursor /\ Home(work[k]) = k
                      /\ \A p \in Answered : p < work[k] /\ Home(p) = k => p \in done'
                      /\ place'[k] # "run" => work[k] \in done'
    BY <1>1, <1>2 DEF HandsFirst, Home, LaneUnder
  <2>1. place[k] \in {"run", "ended", "owes"} /\ (k # l => place'[k] = place[k])
    BY <1>2, <1>3
  <2> QED BY <1>2, <1>5, <2>1
<1>7. EndedKept'
  <2> SUFFICES ASSUME NEW p \in ended \cup {work[l]}
               PROVE  /\ p <= cursor
                      /\ Covered(p)' \/ (\A q \in inflight : p < q) \/ InHandAs(p)'
    BY <1>1, <1>2 DEF EndedKept
  <2>1. CASE p = work[l]
    BY <1>2, <1>3, <1>5, <2>1 DEF InHandAs
  <2>2. CASE p \in ended
    <3>1. p <= cursor /\ (Covered(p) \/ (\A q \in inflight : p < q) \/ InHandAs(p))
      BY <1>1, <2>2 DEF Inductive, Resumes, EndedKept
    <3>2. Covered(p) => Covered(p)'
      BY <1>1, <1>2 DEF Covered
    <3>3. InHandAs(p) => InHandAs(p)'
      BY <1>2, <1>3 DEF InHandAs
    <3> QED BY <3>1, <3>2, <3>3
  <2> QED BY <2>1, <2>2
<1>8. OnlyAnswered'
  <2>1. OnlyAnswered
    BY DEF Inductive, Resumes
  <2> QED BY <1>1, <1>2, <1>3, <2>1 DEF OnlyAnswered
<1> QED BY <1>4, <1>6, <1>7, <1>8 DEF Resumes

\* What is retired has been run, and a row is owed unless nothing older is in flight.
LEMMA RetireResumes ==
    ASSUME Inductive, NEW l \in Lanes, Retire(l) PROVE Resumes'
<1>1. /\ log' = log /\ mark' = mark /\ scheme' = scheme /\ program' = program
      /\ phase = "up" /\ phase' = "up" /\ cursor' = cursor /\ high' = high
      /\ clean = FALSE /\ clean' = FALSE /\ Positions' = Positions /\ Answered' = Answered
      /\ scheme = program /\ scheme # NoScheme /\ \A p : Home(p)' = Home(p)
  BY WorkerFixed DEF WorkerStep
<1>2. /\ laneRow' = laneRow /\ unrecorded' = unrecorded /\ work' = work /\ done' = done
      /\ ended' = ended /\ inflight' = inflight \ {work[l]}
      /\ place[l] = "ended"
      /\ place' = [place EXCEPT ![l] =
                     IF \E q \in inflight' : q < work[l] THEN "owes" ELSE "claimed"]
  BY DEF Retire
<1>3. /\ place \in [Lanes -> Places] /\ inflight \subseteq Positions /\ ended \subseteq Positions
      /\ work[l] \in Positions /\ Len(log) \in Nat
  BY <1>2 DEF Inductive, Typed, TypeOK, InHand
<1>4. \A k \in Lanes :
        place[k] \in {"run", "ended", "owes"} =>
          /\ work[k] <= cursor /\ Home(work[k]) = k
          /\ \A p \in Answered : p < work[k] /\ Home(p) = k => p \in done
          /\ place[k] # "run" => work[k] \in done
  BY <1>1 DEF Inductive, Resumes, HandsFirst
<1>5. Fresh' /\ RowsDone' /\ LeftCovered'
  BY <1>1, <1>2 DEF Inductive, Resumes, Fresh, RowsDone, LeftCovered
<1>6. ReadDone'
  <2>1. work[l] \in done
    BY <1>2, <1>4
  <2> QED BY <1>1, <1>2, <2>1 DEF Inductive, Resumes, ReadDone
<1>7. \A k \in Lanes : place'[k] \in {"run", "ended", "owes"} =>
        place[k] \in {"run", "ended", "owes"} /\ (place'[k] # "run" => place[k] # "run")
  BY <1>2, <1>3
<1>8. HandsFirst'
  BY <1>1, <1>2, <1>4, <1>7 DEF HandsFirst, Home, LaneUnder
<1>9. EndedKept'
  <2> SUFFICES ASSUME NEW p \in ended
               PROVE  /\ p <= cursor
                      /\ Covered(p)' \/ (\A q \in inflight' : p < q) \/ InHandAs(p)'
    BY <1>1, <1>2 DEF EndedKept
  <2>1. p <= cursor /\ (Covered(p) \/ (\A q \in inflight : p < q) \/ InHandAs(p))
    BY <1>1 DEF Inductive, Resumes, EndedKept
  <2>2. Covered(p) => Covered(p)'
    BY <1>1, <1>2 DEF Covered
  <2>3. (\A q \in inflight : p < q) => \A q \in inflight' : p < q
    BY <1>2
  <2>4. ASSUME InHandAs(p) PROVE (\A q \in inflight' : p < q) \/ InHandAs(p)'
    <3>1. PICK k \in Lanes : place[k] \in {"ended", "owes"} /\ work[k] = p
      BY <2>4 DEF InHandAs
    <3>2. CASE k # l
      BY <1>2, <1>3, <3>1, <3>2 DEF InHandAs
    <3>3. CASE k = l /\ \E q \in inflight' : q < work[l]
      BY <1>2, <1>3, <3>1, <3>3 DEF InHandAs
    <3>4. CASE k = l /\ ~\E q \in inflight' : q < work[l]
      <4>1. ASSUME NEW q \in inflight' PROVE p < q
        <5>1. q \in Nat /\ p \in Nat /\ q # p
          BY <1>2, <1>3, <3>1, <3>4 DEF Positions
        <5> QED BY <3>1, <3>4, <5>1
      <4> QED BY <4>1
    <3> QED BY <3>2, <3>3, <3>4
  <2> QED BY <2>1, <2>2, <2>3, <2>4
<1>10. OnlyAnswered'
  <2>1. OnlyAnswered
    BY DEF Inductive, Resumes
  <2> QED BY <1>1, <1>2, <1>7, <2>1 DEF OnlyAnswered
<1> QED BY <1>5, <1>6, <1>8, <1>9, <1>10 DEF Resumes

\* A row covers the position it is owed for, and every older one of its lane has been run.
LEMMA RowResumes ==
    ASSUME ArmsStay, Inductive, NEW l \in Lanes, RecordRow(l) PROVE Resumes'
<1>1. /\ log' = log /\ mark' = mark /\ scheme' = scheme /\ program' = program
      /\ phase = "up" /\ phase' = "up" /\ cursor' = cursor /\ high' = high
      /\ clean = FALSE /\ clean' = FALSE /\ Positions' = Positions /\ Answered' = Answered
      /\ scheme = program /\ scheme # NoScheme /\ \A p : Home(p)' = Home(p)
  BY WorkerFixed DEF WorkerStep
<1>2. /\ done' = done /\ ended' = ended /\ inflight' = inflight /\ work' = work
      /\ place[l] = "owes" /\ place' = [place EXCEPT ![l] = "claimed"]
      /\ \/ laneRow' = [laneRow EXCEPT ![l] = Greater(@, work[l])] /\ unrecorded' = unrecorded
         \/ unrecorded' = unrecorded \cup {work[l]} /\ laneRow' = laneRow
  BY DEF RecordRow
<1>3. /\ place \in [Lanes -> Places] /\ laneRow \in [Lanes -> 0..Len(log)]
      /\ ended \subseteq Positions /\ work[l] \in Positions /\ Len(log) \in Nat
  BY <1>2 DEF Inductive, Typed, TypeOK, InHand
<1>4. \A k \in Lanes :
        place[k] \in {"run", "ended", "owes"} =>
          /\ work[k] <= cursor /\ Home(work[k]) = k
          /\ \A p \in Answered : p < work[k] /\ Home(p) = k => p \in done
          /\ place[k] # "run" => work[k] \in done
  BY <1>1 DEF Inductive, Resumes, HandsFirst
<1>5. /\ \A k \in Lanes : laneRow[k] <= laneRow'[k]
      /\ \A k \in Lanes : laneRow'[k] = laneRow[k] \/ (k = l /\ laneRow'[k] = work[l])
      /\ work[l] <= laneRow'[l] \/ work[l] \in unrecorded'
  <2>1. CASE laneRow' = [laneRow EXCEPT ![l] = Greater(@, work[l])]
    BY <1>3, <2>1 DEF Greater, Positions
  <2>2. CASE laneRow' = laneRow /\ unrecorded' = unrecorded \cup {work[l]}
    BY <1>3, <2>2
  <2> QED BY <1>2, <2>1, <2>2
<1>6. ASSUME NEW p \in Answered PROVE Home(p) \in Lanes
  BY <1>1, HomeIs DEF Inductive, Typed, TypeOK, Home
<1>7. RowsDone'
  <2>1. ASSUME NEW p \in Answered, p <= mark \/ p <= laneRow'[Home(p)] PROVE p \in done
    <3>1. CASE p <= mark \/ p <= laneRow[Home(p)]
      BY <1>1, <3>1 DEF Inductive, Resumes, RowsDone
    <3>2. CASE laneRow'[Home(p)] # laneRow[Home(p)] /\ p <= laneRow'[Home(p)]
      <4>1. laneRow' = [laneRow EXCEPT ![l] = Greater(@, work[l])]
        BY <1>2, <3>2
      <4>2. Home(p) = l /\ laneRow'[l] = work[l]
        <5>1. Home(p) \in Lanes
          BY <1>6
        <5> QED BY <1>3, <1>5, <3>2, <5>1
      <4>3. p < work[l] \/ p = work[l]
        BY <1>3, <3>2, <4>2 DEF Positions, Answered
      <4> QED BY <1>2, <1>4, <4>2, <4>3
    <3> QED BY <2>1, <3>1, <3>2
  <2> QED BY <1>1, <1>2, <2>1 DEF RowsDone, Home, LaneUnder
<1>8. Fresh' /\ ReadDone' /\ LeftCovered'
  BY <1>1, <1>2 DEF Inductive, Resumes, Fresh, ReadDone, LeftCovered
<1>9. HandsFirst'
  <2>1. \A k \in Lanes : place'[k] \in {"run", "ended", "owes"} => place'[k] = place[k]
    BY <1>2, <1>3
  <2> QED BY <1>1, <1>2, <1>4, <2>1 DEF HandsFirst, Home, LaneUnder
<1>10. EndedKept'
  <2> SUFFICES ASSUME NEW p \in ended
               PROVE  /\ p <= cursor
                      /\ Covered(p)' \/ (\A q \in inflight : p < q) \/ InHandAs(p)'
    BY <1>1, <1>2 DEF EndedKept
  <2>1. p <= cursor /\ (Covered(p) \/ (\A q \in inflight : p < q) \/ InHandAs(p))
    BY <1>1 DEF Inductive, Resumes, EndedKept
  <2>2. Covered(p)' <=> p <= mark \/ p <= laneRow'[Home(p)] \/ p \in unrecorded'
    BY <1>1 DEF Covered
  <2>3. ASSUME Covered(p) PROVE Covered(p)'
    <3>1. CASE p <= laneRow[Home(p)]
      <4>1. Home(p) \in Lanes
        BY <1>6 DEF Inductive, Resumes, OnlyAnswered
      <4>2. p \in Nat
        BY <1>3 DEF Positions
      <4>3. laneRow[Home(p)] <= laneRow'[Home(p)] /\ laneRow[Home(p)] \in Nat
            /\ laneRow'[Home(p)] \in Nat
        BY <1>3, <1>5, <4>1 DEF Positions
      <4> QED BY <2>2, <3>1, <4>2, <4>3
    <3>2. CASE p <= mark \/ p \in unrecorded
      BY <1>2, <2>2, <3>2
    <3> QED BY <2>3, <3>1, <3>2 DEF Covered
  <2>4. ASSUME InHandAs(p) PROVE Covered(p)' \/ InHandAs(p)'
    <3>1. PICK k \in Lanes : place[k] \in {"ended", "owes"} /\ work[k] = p
      BY <2>4 DEF InHandAs
    <3>2. CASE k # l
      BY <1>2, <1>3, <3>1, <3>2 DEF InHandAs
    <3>3. CASE k = l
      <4>1. Home(p) = l
        BY <1>4, <3>1, <3>3
      <4> QED BY <1>5, <2>2, <3>1, <3>3, <4>1
    <3> QED BY <3>2, <3>3
  <2> QED BY <2>1, <2>3, <2>4
<1>11. OnlyAnswered'
  <2>1. OnlyAnswered
    BY DEF Inductive, Resumes
  <2> QED BY <1>1, <1>2, <1>3, <2>1 DEF OnlyAnswered
<1> QED BY <1>7, <1>8, <1>9, <1>10, <1>11 DEF Resumes

\* A published mark passes only what has been run, and sweeps only rows it passed.
LEMMA PublishResumes ==
    ASSUME ArmsStay, Inductive, PublishMark \/ Drain PROVE Resumes'
<1>1. /\ log' = log /\ done' = done /\ scheme' = scheme /\ program' = program
      /\ cursor' = cursor /\ inflight' = inflight /\ place' = place /\ work' = work
      /\ ended' = ended /\ unrecorded' = unrecorded /\ phase = "up" /\ Publish
  BY DEF PublishMark, Drain
<1>2. /\ scheme = program /\ scheme # NoScheme /\ program \in Programs
      /\ log \in Seq(Events) /\ Len(log) \in Nat
      /\ mark \in 0..Len(log) /\ cursor \in 0..Len(log)
      /\ laneRow \in [Lanes -> 0..Len(log)] /\ high \in [Lanes -> 0..Len(log)]
      /\ inflight \subseteq 1..cursor /\ ended \subseteq Positions
  BY <1>1 DEF Inductive, Resumes, ReadDone, Fresh, Typed, TypeOK, Admitted
<1>3. mark' \in 0..Len(log) /\ mark <= mark' /\ LowWater <= mark'
  BY <1>1, PublishTyped DEF Inductive
<1>4. LowWater \in 0..cursor /\ (\A q \in inflight : LowWater < q)
      /\ (mark' = mark \/ mark' = LowWater)
  <2>1. LowWater \in 0..cursor /\ \A q \in inflight : LowWater < q
    BY <1>2, LowWaterIs DEF Inductive, Typed
  <2> QED BY <1>1, <2>1 DEF Publish, Greater
<1>5. /\ \A p : Home(p)' = Home(p)
      /\ \A p \in Answered : Home(p) \in Lanes
      /\ Positions' = Positions /\ Answered' = Answered
  <2>1. \A p \in Answered : Home(p) \in Lanes
    BY <1>2, HomeIs DEF Home
  <2> QED BY <1>1, <2>1 DEF Home, LaneUnder, Positions, Answered, Answers
<1>6. /\ \A l \in Lanes : laneRow'[l] = laneRow[l] \/ (laneRow'[l] = 0 /\ laneRow[l] <= mark')
      /\ \A l \in Lanes : high'[l] = high[l] \/ (high'[l] = 0 /\ high[l] <= mark')
  BY <1>1 DEF Publish
<1>7. ASSUME NEW p \in Answered, p <= cursor \/ p <= high[Home(p)] PROVE p \in done \cup inflight
  BY <1>1, <1>7 DEF Inductive, Resumes, ReadDone
<1>8. ASSUME NEW p \in Answered, p <= mark' PROVE p \in done
  <2>1. CASE p <= mark
    BY <1>2, <2>1 DEF Inductive, Resumes, RowsDone
  <2>2. CASE p <= LowWater
    <3>1. p \in Nat /\ p <= cursor
      BY <1>2, <1>4, <2>2 DEF Positions, Answered
    <3>2. p \notin inflight
      BY <1>2, <1>4, <2>2, <3>1
    <3> QED BY <1>7, <3>1, <3>2
  <2> QED BY <1>4, <1>8, <2>1, <2>2
<1>9. RowsDone'
  <2>1. ASSUME NEW p \in Answered, p <= laneRow'[Home(p)] PROVE p \in done
    <3>1. laneRow'[Home(p)] = laneRow[Home(p)]
      BY <1>2, <1>5, <1>6, <2>1 DEF Positions, Answered
    <3> QED BY <1>2, <2>1, <3>1 DEF Inductive, Resumes, RowsDone
  <2> QED BY <1>1, <1>5, <1>8, <2>1 DEF RowsDone
<1>10. ReadDone'
  <2>1. ASSUME NEW p \in Answered, p <= cursor \/ p <= high'[Home(p)]
        PROVE  p \in done \cup inflight
    <3>1. p <= cursor \/ high'[Home(p)] = high[Home(p)]
      BY <1>2, <1>5, <1>6, <2>1 DEF Positions, Answered
    <3> QED BY <1>7, <2>1, <3>1
  <2> QED BY <1>1, <1>2, <1>5, <2>1 DEF ReadDone
<1>11. HandsFirst'
  <2>1. HandsFirst
    BY DEF Inductive, Resumes
  <2> QED BY <1>1, <1>5, <2>1 DEF HandsFirst, Home, LaneUnder
<1>12. ASSUME NEW p \in ended
       PROVE  /\ p <= cursor
              /\ Covered(p)' \/ InHandAs(p)
  <2>1. p <= cursor /\ (Covered(p) \/ (\A q \in inflight : p < q) \/ InHandAs(p))
    BY <1>1 DEF Inductive, Resumes, EndedKept
  <2>2. p \in Positions /\ p \in Nat /\ p \in Answered
    BY <1>2 DEF Positions, Inductive, Resumes, OnlyAnswered
  <2>3. Covered(p)' <=> p <= mark' \/ p <= laneRow'[Home(p)] \/ p \in unrecorded
    BY <1>1, <1>5 DEF Covered
  <2>4. CASE Covered(p)
    <3>1. CASE p <= laneRow[Home(p)]
      <4>1. /\ Home(p) \in Lanes /\ laneRow[Home(p)] \in Nat
        BY <1>2, <1>5, <2>2
      <4>2. p <= laneRow'[Home(p)] \/ p <= mark'
        BY <1>3, <1>6, <2>2, <3>1, <4>1
      <4> QED BY <2>1, <2>3, <4>2
    <3>2. CASE p <= mark \/ p \in unrecorded
      BY <1>2, <1>3, <2>1, <2>2, <2>3, <3>2
    <3> QED BY <2>4, <3>1, <3>2 DEF Covered
  <2>5. CASE \A q \in inflight : p < q
    <3>1. p \in 1..cursor
      BY <1>2, <2>1, <2>2 DEF Positions
    <3>2. p <= LowWater
      BY <1>2, <2>5, <3>1, LowWaterReaches DEF Inductive, Typed
    <3>3. p <= mark'
      BY <1>2, <1>3, <1>4, <2>2, <3>2
    <3> QED BY <2>1, <2>3, <3>3
  <2> QED BY <2>1, <2>4, <2>5
<1>13. EndedKept'
  BY <1>1, <1>12 DEF EndedKept, InHandAs
<1>14. LeftCovered'
  <2>1. CASE PublishMark
    BY <1>1, <2>1 DEF PublishMark, Inductive, Resumes, LeftCovered, Typed, TypeOK
  <2>2. CASE Drain
    <3>1. phase' = "down" /\ \A l \in Lanes : place[l] \notin {"ended", "owes"}
      BY <2>2 DEF Drain, Drained, Held
    <3> QED BY <1>1, <1>12, <3>1 DEF LeftCovered, InHandAs
  <2> QED BY <2>1, <2>2
<1>15. Fresh'
  BY <1>1, <1>2 DEF Fresh
<1>16. OnlyAnswered'
  BY <1>1, <1>5 DEF OnlyAnswered, Inductive, Resumes
<1> QED BY <1>9, <1>10, <1>11, <1>13, <1>14, <1>15, <1>16 DEF Resumes

\* Outside a process only a rewind touches what a resume reads, and it forgets all of it.
LEMMA EndResumes ==
    ASSUME ArmsStay, Inductive, Deploy \/ Stop \/ Die \/ Rewind PROVE Resumes'
<1>1. Answered' = Answered
  <2>1. program' \in Programs /\ log' = log
    BY DEF Deploy, Stop, Die, Rewind, Inductive, Typed, TypeOK
  <2> QED BY <2>1, AnsweredKept DEF Inductive, Typed, TypeOK
<1>2. CASE Deploy
  BY <1>2, <1>1 DEF Deploy, Inductive, Resumes, Fresh, RowsDone, ReadDone, HandsFirst,
     EndedKept, LeftCovered, OnlyAnswered, Covered, Home, LaneUnder
<1>3. CASE Stop
  BY <1>3, <1>1 DEF Stop, Inductive, Resumes, Fresh, RowsDone, ReadDone, HandsFirst,
     EndedKept, LeftCovered, OnlyAnswered, Covered, InHandAs, Home, LaneUnder
<1>4. CASE Die
  BY <1>4, <1>1 DEF Die, Inductive, Resumes, Fresh, RowsDone, ReadDone, HandsFirst,
     EndedKept, LeftCovered, OnlyAnswered, Home, LaneUnder
<1>5. CASE Rewind
  <2>1. /\ log' = log /\ scheme' = scheme /\ phase' = "down" /\ clean' = FALSE
    BY <1>5 DEF Rewind
  <2>2. PICK to \in 0..mark : mark' = to /\ done' = {p \in done : p <= to}
    BY <1>5 DEF Rewind
  <2>3. log \in Seq(Events) /\ mark \in Nat /\ Len(log) \in Nat /\ scheme \in Programs \cup {NoScheme}
    BY DEF Inductive, Typed, TypeOK
  <2>4. laneRow' = [l \in Lanes |-> 0]
    BY <1>5 DEF Rewind
  <2>5. Fresh'
    <3>1. scheme = NoScheme => mark = 0
      BY DEF Inductive, Resumes, Fresh
    <3>2. scheme = NoScheme => mark' = 0
      BY <2>2, <2>3, <3>1
    <3> QED BY <2>1, <2>4, <3>2 DEF Fresh
  <2>6. RowsDone'
    <3>1. ASSUME scheme # NoScheme, NEW p \in Answered, p <= mark' \/ p <= laneRow'[Home(p)]
          PROVE  p \in done'
      <4>1. Home(p) \in Lanes
        BY <2>3, <3>1, HomeIs DEF Home, Inductive, Typed, TypeOK
      <4>2. p <= mark'
        BY <2>3, <2>4, <3>1, <4>1 DEF Positions, Answered
      <4>3. p <= mark
        BY <2>2, <2>3, <4>2 DEF Positions, Answered
      <4>4. p \in done
        BY <3>1, <4>3 DEF Inductive, Resumes, RowsDone
      <4> QED BY <2>2, <4>2, <4>4
    <3> QED BY <1>1, <2>1, <3>1 DEF RowsDone, Home, LaneUnder
  <2>7. OnlyAnswered'
    BY <1>5, <1>1 DEF Rewind, Inductive, Resumes, OnlyAnswered
  <2> QED
    BY <2>1, <2>5, <2>6, <2>7 DEF Resumes, ReadDone, HandsFirst, EndedKept, LeftCovered
<1> QED BY <1>2, <1>3, <1>4, <1>5

LEMMA NextResumes == ASSUME ArmsStay, Inductive, [Next]_vars PROVE Inductive'
<1>1. Typed'
  BY NextTyped DEF Inductive
<1>2. ASSUME NEW l \in Lanes, WorkerStep(l) \/ Wake(l) PROVE Resumes'
  <2>1. CASE Claim(l) \/ TakeHead(l) \/ Parks(l) \/ Wake(l)
    BY <2>1, HeadResumes
  <2> QED BY <1>2, <2>1, EndsResumes, RetireResumes, RowResumes DEF WorkerStep
<1>3. ASSUME UNCHANGED vars PROVE Resumes'
  <2>1. /\ log' = log /\ mark' = mark /\ done' = done /\ laneRow' = laneRow /\ scheme' = scheme
        /\ program' = program /\ phase' = phase /\ clean' = clean
        /\ cursor' = cursor /\ high' = high /\ inflight' = inflight /\ place' = place
        /\ work' = work /\ ended' = ended /\ unrecorded' = unrecorded
    BY <1>3 DEF vars
  <2>2. Resumes
    BY DEF Inductive
  <2>3. Answered' = Answered
    BY <2>1 DEF Answered, Answers, Positions
  <2>4. Fresh' /\ RowsDone' /\ ReadDone'
    BY <2>1, <2>2, <2>3 DEF Resumes, Fresh, RowsDone, ReadDone, Home, LaneUnder
  <2>5. HandsFirst' /\ OnlyAnswered'
    BY <2>1, <2>2, <2>3 DEF Resumes, HandsFirst, OnlyAnswered, Home, LaneUnder
  <2>6. EndedKept' /\ LeftCovered'
    BY <2>1, <2>2 DEF Resumes, EndedKept, LeftCovered, Covered, InHandAs, Home, LaneUnder
  <2> QED BY <2>4, <2>5, <2>6 DEF Resumes
<1>4. Resumes'
  <2>1. CASE AppendEvent \/ Boot \/ Admit
    BY <2>1, AppendResumes, BootResumes, AdmitResumes
  <2>2. CASE PublishMark \/ Drain
    BY <2>2, PublishResumes
  <2>3. CASE Deploy \/ Stop \/ Die \/ Rewind
    BY <2>3, EndResumes
  <2> QED BY <1>2, <1>3, <2>1, <2>2, <2>3 DEF Next
<1> QED BY <1>1, <1>4 DEF Inductive

\* An effect resumes where it stopped, whatever keys its deploys move, wherever it crashes
\* and however its drain and its workers interleave, as long as no deploy adds or removes
\* an arm: a recorded lane hides only what was run, and a drained stop forgets nothing.
THEOREM ResumesExactly == ASSUME ArmsStay PROVE Spec => []ResumesWhereItStopped
<1>1. ASSUME Init PROVE Inductive
  <2>1. Typed
    BY <1>1, InitTyped
  <2>2. Resumes
    BY <1>1 DEF Init, Resumes, Fresh, RowsDone, ReadDone, HandsFirst, EndedKept, LeftCovered,
       OnlyAnswered
  <2> QED BY <2>1, <2>2 DEF Inductive
<1>2. Inductive /\ [Next]_vars => Inductive'
  BY NextResumes
<1>3. ASSUME Inductive PROVE ResumesWhereItStopped
  <2>1. SkipsOnlyWhatIsDone
    <3> SUFFICES ASSUME scheme # NoScheme, NEW p \in (mark + 1)..Len(log),
                        Answers(scheme, p), p <= laneRow[LaneUnder(scheme, p)]
                 PROVE  p \in done
      BY DEF SkipsOnlyWhatIsDone
    <3>1. p \in Answered
      <4>1. /\ p \in Positions /\ log \in Seq(Events)
            /\ scheme \in Programs /\ program \in Programs
        BY <1>3 DEF Inductive, Typed, TypeOK, Positions
      <4>2. log[p] \in Events
        BY <4>1 DEF Positions
      <4>3. log[p].type \in Types
        BY <4>2, LifecycleAssumption
      <4> QED BY <4>1, <4>3 DEF ArmsStay, Answers, Answered
    <3> QED BY <1>3, <3>1 DEF Inductive, Resumes, RowsDone, Home
  <2>2. SkipsAllThatEnded
    BY <1>3 DEF Inductive, Resumes, LeftCovered, Covered, Home, SkipsAllThatEnded
  <2> QED BY <2>1, <2>2 DEF ResumesWhereItStopped
<1> QED BY <1>1, <1>2, <1>3, PTL DEF Spec
=============================================================================
