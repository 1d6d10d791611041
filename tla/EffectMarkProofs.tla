--------------------------- MODULE EffectMarkProofs ---------------------------
(***************************************************************************)
(* Proofs about the mark of an effect and what is on record about it: the  *)
(* mark and the lane rows pass nothing that is not over with, a position   *)
(* is begun above the mark and in order, and the dispatcher implements     *)
(* EffectDelivery.  They hold for every set of lanes, arms, workers and    *)
(* events, every bound, every number of crashes, rewinds and folds, and    *)
(* with or without failing reads and writes, as long as the reader is not  *)
(* behind the persisted mark (Ahead).                                      *)
(*                                                                         *)
(* Ahead is what finding 3 of the README breaks and nothing else does:     *)
(* NeverBehind shows it holds where the store does not fail, and where one *)
(* batch reaches the end of the log.  The theorems are stated with []Ahead *)
(* as a hypothesis, so that they say what goes wrong when it fails: a      *)
(* position below the mark is admitted a second time.                      *)
(*                                                                         *)
(* The argument is an account.  Every position the dispatcher has          *)
(* considered is settled, or a group is queued that will settle it, or a   *)
(* newer event that makes it redundant is still ahead (Accounted).  The    *)
(* mark may then be read off what is queued.  The rest of MarkInv says why *)
(* the account survives: what is queued is admitted once (HighTrue), a     *)
(* position already begun is never folded away (BegunTrue, OpenTrue), what *)
(* retires is settled with all it made redundant (WorkTrue), and a crash   *)
(* leaves behind records from which the account can be taken up (Durable). *)
(*                                                                         *)
(* The last part is about what finding 2 breaks: that no first run of an   *)
(* on latest arm comes after one of a newer event, and that recorded       *)
(* ranges lie apart.  It is stated under two more hypotheses of the same   *)
(* kind: no worker begins before the reader has got to all that is on      *)
(* record (CaughtUp), and no resume is blind (Sighted).  NothingHidden     *)
(* derives both from what a stopped process leaves behind (ShortRecord):   *)
(* what was begun above the mark lies within one batch of it and is no     *)
(* more than a resume reads back.  The log may go on as far as it likes.   *)
(***************************************************************************)
EXTENDS EffectProofs

\* The tuples of variables are shorthand.
USE DEF durableVars, rowVars, readerVars, sharedVars, poolVars, budgetVars,
        laneVars, queueVars, resumeVars

\* The reader is not behind the persisted mark.
Ahead == up => mark <= seen

\* Every position up to here has been considered by this dispatcher, also after a
\* re-subscription went back to the mark.
Frontier == Greater(scanned, seen)

\* A position that no newer one makes redundant.
Plain(p) == ~Collapsible(ArmOf(p), LaneOf(p))

\* A group of lane l will run h.
ToRun(l, h) == \E i \in 1..Len(queues[l]) : queues[l][i].hi = h

\* Some group will settle p when it is run.
Pending(p) ==
    \E l \in Lanes : \E h \in 1..Len(log) : ToRun(l, h) /\ (h = p \/ Subsumes(h, p))

\* Where the reader is; and a process that never started has left nothing behind.
Phases ==
    /\ up /\ rpc # "admit" => seen = cursor /\ cursor <= scanned
    /\ up /\ rpc = "persist" => mark <= pub /\ pub <= scanned
    /\ up /\ rpc \in {"forget", "sweep", "prune"} => pub = mark
    /\ Len(log) <= MaxLog
    /\ boundary = Inactive =>
         /\ ~up /\ mark = 0 /\ settled = {} /\ quarantine = 0
         /\ \A l \in Lanes : laneRow[l] = 0
         /\ \A p \in Positions : status[p] = "none"

-----------------------------------------------------------------------------
(* What is on record, whether or not the process runs.                     *)

\* With a position everything it makes redundant is settled.
SettledDown ==
    /\ settled \subseteq 1..Len(log)
    /\ \A q \in settled : \A p \in 1..Len(log) :
         Subsumes(q, p) /\ Answered(p) => p \in settled

\* A terminal row stands for settled work and, above the mark, settled plain work for
\* a terminal row.  A running row lies above the mark and above its lane's row, so that
\* it is taken up again.
RowsTrue ==
    /\ \A p \in Positions : status[p] = "terminal" => p \in settled
    /\ \A p \in Positions : status[p] = "running" =>
         Answered(p) /\ p > mark /\ p > laneRow[LaneOf(p)]
    /\ \A p \in settled : Plain(p) /\ p > mark => status[p] = "terminal"

\* Above the mark, a plain position is over with before anything newer in its lane
\* has a row.
PlainFirst ==
    \A p, q \in 1..Len(log) :
      (/\ p < q /\ SameLane(p, q) /\ Answered(p) /\ Plain(p) /\ p > mark
       /\ status[q] # "none") => status[p] = "terminal"

\* A quarantined position is terminal and above the mark.
Pinned ==
    quarantine # 0 =>
      quarantine \in Positions /\ mark < quarantine /\ status[quarantine] = "terminal"

\* MarkLosesNothing.
MarkTrue ==
    \A p \in 1..Len(log) : p <= mark /\ Answered(p) =>
      p \in settled \/ \E q \in 1..Len(log) : mark < q /\ Subsumes(q, p)

\* RowsStrandNothing, for rows that lie within the log.
LaneRowsTrue ==
    \A l \in Lanes : laneRow[l] <= Len(log) /\ \A p \in 1..Len(log) :
      p <= laneRow[l] /\ Answered(p) /\ LaneOf(p) = l =>
        p \in settled \/ \E q \in 1..Len(log) : laneRow[l] < q /\ Subsumes(q, p)

Durable ==
    SettledDown /\ RowsTrue /\ PlainFirst /\ Pinned /\ MarkTrue /\ LaneRowsTrue

-----------------------------------------------------------------------------
(* The dispatcher of a running process.                                    *)

\* What is queued has been considered, is answered, belongs to its lane and lies
\* above its lane's row; what is in flight lies above the mark.
QueueTrue ==
    up =>
      /\ \A l \in Lanes : \A h \in Nat : ToRun(l, h) =>
           h \in 1..Frontier /\ Answered(h) /\ LaneOf(h) = l /\ laneRow[l] < h
      /\ \A p \in inflight : mark < p

\* A lane's high-water covers what was considered above the mark, and no more than
\* that and the lane's row.
HighTrue ==
    up =>
      /\ \A l \in Lanes :
           /\ high[l] <= Frontier \/ high[l] <= laneRow[l]
           /\ laneRow[l] <= high[l] \/ laneRow[l] <= mark
      /\ \A p \in 1..Frontier : Answered(p) /\ p > mark => p <= high[LaneOf(p)]

\* Nothing the dispatcher has considered is lost to it.
Accounted ==
    up => \A p \in 1..Len(log) : p <= Frontier /\ Answered(p) =>
      \/ p \in settled
      \/ Pending(p)
      \/ \E q \in 1..Len(log) : q > Frontier /\ Subsumes(q, p)

\* An open group is one no process has begun.
OpenTrue ==
    up => \A l \in Lanes : \A a \in Arms : \A o \in Nat \ {0} : latest[l][a] = o =>
      ToRun(l, o) /\ ArmOf(o) = a /\ status[o] = "none"

\* What an earlier process began and this one has not reached is known to it; and what
\* was begun and not finished is queued to be run again, as itself.
BegunTrue ==
    up =>
      /\ ~blind /\ (\E a \in Arms : Delivery[a] = "latest") =>
           \A p \in Positions : p > Frontier /\ status[p] # "none" => p \in begun
      /\ \A p \in Positions : status[p] = "running" /\ p <= Frontier =>
           \E l \in Lanes : ToRun(l, p)

\* What a worker has in hand.
HandTrue(w) ==
    \A l \in Lanes : \A p \in Nat : wlane[w] = l /\ work[w].position = p =>
      /\ wpc[w] \in {"run", "skip"} => status[p] = "running"
      /\ wpc[w] \in {"verify", "retire"} => p \in settled /\ status[p] = "terminal"
      /\ wpc[w] = "row" =>
           /\ p \in 1..Frontier /\ Answered(p) /\ LaneOf(p) = l
           /\ \A h \in Nat : ToRun(l, h) => p < h
WorkTrue == \A w \in Workers : HandTrue(w)

\* A divergence keeps its group queued and its lane unowned.
Stopped ==
    up /\ quarantine # 0 /\ rpc # "stopped" =>
      /\ halted
      /\ \E l \in Lanes : \E p \in Positions :
           /\ quarantine = p /\ ToRun(l, p)
           /\ \A w \in Workers : Holds(w) => wlane[w] # l

\* The mark about to be published loses nothing either.
Publishing ==
    up /\ rpc = "persist" =>
      /\ \A p \in 1..Len(log) : p <= pub /\ Answered(p) =>
           p \in settled \/ \E q \in 1..Len(log) : pub < q /\ Subsumes(q, p)
      /\ \A p \in Positions : status[p] = "running" => p > pub

Dispatcher ==
    /\ QueueTrue /\ HighTrue /\ Accounted /\ OpenTrue /\ BegunTrue /\ WorkTrue
    /\ Stopped /\ Publishing

\* The inductive invariant.
MarkInv == HeadInv /\ Folded /\ Phases /\ Durable /\ Dispatcher

-----------------------------------------------------------------------------
(* Facts about the operators.                                              *)

\* The frontier is the further of the scan and the reader, and within the log.
LEMMA FrontierType ==
    ASSUME TypeOK
    PROVE  /\ Frontier \in 0..Len(log) /\ Len(log) \in Nat
           /\ scanned <= Frontier /\ seen <= Frontier
           /\ scanned \in Nat /\ seen \in Nat /\ cursor \in Nat /\ mark \in Nat
           /\ pub \in Nat /\ cursor <= Len(log) /\ seen <= cursor /\ mark <= Len(log)
           /\ \A l \in Lanes : laneRow[l] \in Nat /\ high[l] \in Nat
<1>1. /\ Len(log) \in Nat /\ scanned \in 0..Len(log) /\ cursor \in 0..Len(log)
      /\ seen \in 0..cursor /\ mark \in 0..Len(log) /\ pub \in 0..Len(log)
  BY LogLength DEF TypeOK, ReaderTypeOK, StoreTypeOK
<1>2. \A l \in Lanes : laneRow[l] \in Nat /\ high[l] \in Nat
  BY DEF TypeOK, StoreTypeOK, LaneTypeOK
<1>3. QED BY <1>1, <1>2 DEF Frontier, Greater

\* Redundancy is transitive.
LEMMA SubsumesAgain ==
    ASSUME NEW p \in Nat, NEW q \in Nat, NEW r \in Nat, Subsumes(r, q), Subsumes(q, p)
    PROVE  Subsumes(r, p)
BY DEF Subsumes

\* What makes an answered position redundant is answered itself.
LEMMA SubsumerAnswered ==
    ASSUME NEW p \in Nat, NEW q \in 1..Len(log), Answered(p), Subsumes(q, p)
    PROVE  Answered(q)
BY DEF Subsumes, Answered, AnswersUnder, Collapsible

\* A newer position makes an older one redundant unless the older one is plain.
LEMMA PlainKept ==
    ASSUME NEW p, NEW q, Plain(p) PROVE ~Subsumes(q, p)
BY DEF Plain, Subsumes

\* What is read off the log stays while the log does.
LEMMA SameLog ==
    ASSUME UNCHANGED <<log, boundary>>
    PROVE  /\ \A p : /\ Answered(p)' <=> Answered(p)
                     /\ LaneOf(p)' = LaneOf(p) /\ ArmOf(p)' = ArmOf(p)
                     /\ Plain(p)' <=> Plain(p)
           /\ \A p, q : /\ Subsumes(q, p)' <=> Subsumes(q, p)
                        /\ SameLane(p, q)' <=> SameLane(p, q)
BY DEF Answered, AnswersUnder, LaneOf, ArmOf, Plain, Collapsible, Subsumes, SameLane

\* It stays for the positions there are when the log grows.
LEMMA GrownLog ==
    ASSUME TypeOK, AppendEvent
    PROVE  /\ Len(log) \in Nat /\ Len(log') = Len(log) + 1
           /\ \A p \in 1..Len(log) :
                /\ Answered(p)' <=> Answered(p)
                /\ LaneOf(p)' = LaneOf(p) /\ ArmOf(p)' = ArmOf(p)
                /\ Plain(p)' <=> Plain(p)
           /\ \A p, q \in 1..Len(log) :
                /\ Subsumes(q, p)' <=> Subsumes(q, p)
                /\ SameLane(p, q)' <=> SameLane(p, q)
<1>1. PICK e \in Events : log' = Append(log, e)
  BY DEF AppendEvent
<1>2. /\ Len(log) \in Nat /\ Len(log') = Len(log) + 1
      /\ \A p \in 1..Len(log) : log'[p] = log[p]
  BY <1>1, AppendProperties, LenProperties DEF TypeOK, StoreTypeOK
<1>3. boundary' = boundary
  BY DEF AppendEvent
<1>4. \A p \in 1..Len(log) : LaneOf(p)' = LaneOf(p) /\ ArmOf(p)' = ArmOf(p)
  BY <1>2 DEF LaneOf, ArmOf
<1>5. \A p \in 1..Len(log) : p \in 1..Len(log')
  BY <1>2
<1>6. \A p \in 1..Len(log) : Answered(p)' <=> Answered(p)
  BY <1>3, <1>4, <1>5 DEF Answered, AnswersUnder
<1>7. \A p \in 1..Len(log) : Plain(p)' <=> Plain(p)
  BY <1>4 DEF Plain, Collapsible
<1>8. \A p, q \in 1..Len(log) :
        /\ Subsumes(q, p)' <=> Subsumes(q, p)
        /\ SameLane(p, q)' <=> SameLane(p, q)
  BY <1>4 DEF Subsumes, SameLane, Collapsible
<1>9. QED BY <1>2, <1>4, <1>6, <1>7, <1>8

\* The queues say what there is to run.
LEMMA SameQueues ==
    ASSUME UNCHANGED queues
    PROVE  \A l, h : ToRun(l, h)' <=> ToRun(l, h)
BY DEF ToRun

\* A group to run is in flight by its oldest position.
LEMMA ToRunInFlight ==
    ASSUME TypeOK, QueueSound, NEW l \in Lanes, NEW h \in Nat, ToRun(l, h)
    PROVE  \E p \in inflight : p \in Nat /\ p <= h
<1>1. PICK i \in 1..Len(queues[l]) : queues[l][i].hi = h
  BY DEF ToRun
<1>2. queues[l][i].lo \in inflight /\ queues[l][i].lo <= h /\ queues[l][i].lo \in Nat
  BY <1>1, QueueType DEF QueueSound
<1>3. QED BY <1>2

\* So a mark about to be published, or just published, lies below it.
LEMMA ToRunAbovePub ==
    ASSUME TypeOK, QueueSound, QueuedAboveMark, rpc \in {"persist", "forget"},
           NEW l \in Lanes, NEW h \in Nat, ToRun(l, h)
    PROVE  pub < h
<1>1. PICK i \in 1..Len(queues[l]) : queues[l][i].hi = h
  BY DEF ToRun
<1>2. pub < queues[l][i].lo /\ queues[l][i].lo <= h /\ queues[l][i].lo \in Nat
  BY <1>1, QueueType DEF QueueSound, QueuedAboveMark
<1>3. QED BY <1>2, FrontierType

\* What a worker holds is the oldest thing to run of its lane, and not open.
LEMMA HeldFirst ==
    ASSUME HeadInv, Folded, NEW w \in Workers, Holds(w),
           NEW l \in Lanes, wlane[w] = l, NEW p, work[w].position = p
    PROVE  /\ p \in Nat /\ ToRun(l, p)
           /\ \A h \in Nat : ToRun(l, h) => p <= h
           /\ \A a \in Arms : latest[l][a] # p \/ p = 0
<1> USE DEF HeadInv
<1>1. /\ queues[l] # <<>> /\ queues[l][1].hi = p
      /\ latest[l][queues[l][1].arm] # p
  BY DEF FrozenHead, Front
<1>2. Len(queues[l]) \in Nat /\ Len(queues[l]) >= 1 /\ 1 \in 1..Len(queues[l])
  BY <1>1, QueueType
<1>3. p \in Nat /\ ToRun(l, p)
  BY <1>1, <1>2, QueueType DEF ToRun
<1>4. FoldedLane(l)
  BY DEF Folded
<1>5. \A i \in 1..Len(queues[l]) : i # 1 => p < queues[l][i].hi
  BY <1>1, <1>2, <1>4 DEF FoldedLane
<1>6. \A h \in Nat : ToRun(l, h) => p <= h
  BY <1>1, <1>3, <1>5 DEF ToRun
<1>7. ASSUME NEW a \in Arms, latest[l][a] = p, p # 0 PROVE FALSE
  <2>1. PICK i \in 1..Len(queues[l]) : queues[l][i].hi = p /\ queues[l][i].arm = a
    BY <1>4, <1>7 DEF FoldedLane
  <2>2. i = 1
    BY <1>3, <1>5, <2>1
  <2>3. QED BY <1>1, <1>7, <2>1, <2>2
<1>8. QED BY <1>3, <1>6, <1>7

\* A worker that holds a head owns its lane, so no other worker holds that lane.
LEMMA HeldAlone ==
    ASSUME Ownership, NEW v \in Workers, NEW w \in Workers, v # w, Holds(w), Owns(v)
    PROVE  wlane[v] # wlane[w]
BY DEF Ownership, OneWorkerPerLane, Holds, Owns
-----------------------------------------------------------------------------
(* The phases of the reader.                                               *)

\* low_water is not behind the mark, nor beyond the scan.
LEMMA LowWaterAhead ==
    ASSUME TypeOK, up, Ahead, Phases, QueueTrue, rpc # "admit"
    PROVE  mark <= LowWater /\ LowWater <= scanned /\ LowWater \in Nat
<1>1. /\ scanned \in Nat /\ mark \in Nat /\ inflight \subseteq Nat \ {0}
      /\ seen \in Nat /\ cursor \in Nat
  BY FrontierType DEF TypeOK, LaneTypeOK
<1>2. mark <= scanned
  BY <1>1 DEF Ahead, Phases
<1>3. CASE inflight = {}
  BY <1>1, <1>2, <1>3 DEF LowWater
<1>4. CASE inflight # {}
  <2>1. Oldest \in inflight /\ Oldest \in Nat
    BY <1>1, <1>4, OldestInFlight
  <2>2. mark < Oldest
    BY <2>1 DEF QueueTrue
  <2>3. QED BY <1>1, <1>2, <1>4, <2>1, <2>2 DEF LowWater, Lesser
<1>5. QED BY <1>3, <1>4

\* Phases speaks of the reader's variables, and of the records of an effect that has
\* not started.
LEMMA PhasesFrame ==
    ASSUME Phases, UNCHANGED <<up, log, boundary, mark, seen, cursor, scanned, pub>>,
           rpc' = rpc \/ (rpc # "admit" /\ rpc' \notin {"persist", "forget", "sweep", "prune"}),
           up \/ UNCHANGED <<settled, quarantine, laneRow, status>>
    PROVE  Phases'
BY DEF Phases

\* Every step keeps the phases.
LEMMA PhasesNext ==
    ASSUME HeadInv, Phases, QueueTrue, Ahead, [Next]_vars PROVE Phases'
<1> USE DEF HeadInv
<1>0. /\ Frontier \in 0..Len(log) /\ Len(log) \in Nat /\ scanned \in Nat /\ seen \in Nat
      /\ cursor \in Nat /\ mark \in Nat /\ pub \in Nat /\ cursor <= Len(log)
      /\ mark <= Len(log) /\ scanned <= Len(log) /\ MaxLog \in Nat
  BY FrontierType, SizesAssumption DEF TypeOK, ReaderTypeOK
<1>1. CASE AppendEvent
  <2>1. Len(log') = Len(log) + 1 /\ Len(log) < MaxLog
    BY <1>1, GrownLog DEF AppendEvent
  <2>2. UNCHANGED <<up, boundary, mark, seen, cursor, scanned, pub, rpc, settled,
                    quarantine, laneRow, status>>
    BY <1>1 DEF AppendEvent
  <2>3. QED BY <1>0, <2>1, <2>2 DEF Phases
<1>2. CASE Start
  <2>1. /\ up' = TRUE /\ cursor' = mark /\ seen' = mark /\ scanned' = mark /\ pub' = mark
        /\ log' = log /\ rpc' \in {"promote", "stopped"}
        /\ boundary' = IF boundary = Inactive THEN Len(log) ELSE boundary
    BY <1>2 DEF Start, Resuming
  <2>2. boundary' # Inactive
    BY <1>0, <2>1 DEF Inactive
  <2>3. QED BY <1>0, <2>1, <2>2 DEF Phases
<1>3. CASE Crash
  <2>1. /\ up /\ up' = FALSE /\ UNCHANGED <<log, boundary>>
    BY <1>3 DEF Crash
  <2>2. QED BY <2>1 DEF Phases
<1>4. CASE Rewind
  <2>1. PICK to \in 0..mark, live \in BOOLEAN :
          /\ mark' = to
          /\ status' = [p \in Positions |-> IF p > to THEN "none" ELSE status[p]]
          /\ quarantine' = IF quarantine > to THEN 0 ELSE quarantine
          /\ boundary' = IF live /\ boundary > to THEN to ELSE boundary
          /\ settled' = {p \in settled : p <= to}
    BY <1>4 DEF Rewind
  <2>2. /\ ~up /\ laneRow' = [l \in Lanes |-> 0]
        /\ UNCHANGED <<up, log>>
    BY <1>4 DEF Rewind
  <2>3. ASSUME boundary' = Inactive
        PROVE  /\ mark' = 0 /\ settled' = {} /\ quarantine' = 0
               /\ \A l \in Lanes : laneRow'[l] = 0
               /\ \A p \in Positions : status'[p] = "none"
    <3>1. boundary = Inactive
      BY <2>1, <2>3, <1>0 DEF Inactive
    <3>2. /\ mark = 0 /\ settled = {} /\ quarantine = 0
          /\ \A p \in Positions : status[p] = "none"
      BY <3>1 DEF Phases
    <3>3. QED BY <1>0, <2>1, <2>2, <3>2
  <2>4. QED BY <2>2, <2>3 DEF Phases
<1>5. CASE RequestSkip \/ SweepInvocation \/ UNCHANGED vars
  <2>1. /\ UNCHANGED <<up, log, boundary, mark, seen, cursor, scanned, pub>>
        /\ rpc' = rpc
    BY <1>5 DEF RequestSkip, SweepInvocation, vars
  <2>2. up \/ UNCHANGED <<settled, quarantine, laneRow, status>>
    BY <1>5 DEF RequestSkip, SweepInvocation, vars
  <2>3. QED BY <2>1, <2>2, PhasesFrame
<1>6. CASE Reader
  <2>0. up /\ up' /\ boundary # Inactive
    BY <1>6 DEF Reader, Wake, Promoted, Poll, AdmitNext, ReadMark, PersistMark,
                ForgetPassed, SweepRows, PrunePassed, DriverError, Resubscribe, Reading,
                Phases
  <2>1. CASE (\E l \in Lanes : Wake(l)) \/ Promoted
    <3>1. /\ UNCHANGED <<up, log, boundary, mark, seen, cursor, scanned, pub>>
          /\ rpc' = rpc \/ (rpc # "admit" /\ rpc' = "poll")
      BY <2>1 DEF Wake, Promoted, Reading
    <3>2. QED BY <2>0, <3>1, PhasesFrame
  <2>2. CASE Poll
    <3>1. /\ rpc = "poll" /\ UNCHANGED <<up, log, boundary, mark, seen, scanned, pub>>
          /\ \/ rpc' = "mark" /\ cursor' = cursor
             \/ rpc' = "admit"
      BY <2>2 DEF Poll, Reading
    <3>2. QED BY <2>0, <3>1 DEF Phases
  <2>3. CASE AdmitNext
    <3>1. /\ rpc = "admit" /\ UNCHANGED <<up, log, boundary, mark, cursor, pub>>
          /\ seen' = seen + 1
          /\ \/ seen + 1 = cursor /\ scanned' = Greater(scanned, cursor) /\ rpc' = "mark"
             \/ rpc' = "admit"
      BY <2>3 DEF AdmitNext, Reading, SetScanned
    <3>2. QED BY <1>0, <2>0, <3>1 DEF Phases, Greater
  <2>4. CASE ReadMark
    <3>1. /\ rpc = "mark" /\ UNCHANGED <<up, log, boundary, mark, seen, scanned, cursor>>
          /\ \/ rpc' \in {"stopped", "promote"} /\ pub' = pub
             \/ rpc' = "persist" /\ pub' = LowWater
      BY <2>4 DEF ReadMark, PassEnds, Reading
    <3>2. mark <= LowWater /\ LowWater <= scanned
      BY <2>0, <3>1, LowWaterAhead
    <3>3. QED BY <2>0, <3>1, <3>2 DEF Phases
  <2>5. CASE PersistMark
    <3>1. /\ rpc = "persist" /\ UNCHANGED <<up, log, boundary, seen, scanned, cursor, pub>>
          /\ rpc' = "forget" /\ mark' = pub
      BY <2>5 DEF PersistMark, Reading
    <3>2. QED BY <2>0, <3>1 DEF Phases
  <2>6. CASE ForgetPassed \/ SweepRows \/ PrunePassed
    <3>1. /\ rpc \in {"forget", "sweep", "prune"}
          /\ rpc' \in {"sweep", "prune", "stopped", "promote"}
          /\ UNCHANGED <<up, log, boundary, mark, seen, scanned, cursor, pub>>
      BY <2>6 DEF ForgetPassed, SweepRows, PrunePassed, PassEnds, Reading
    <3>2. QED BY <2>0, <3>1 DEF Phases
  <2>7. CASE DriverError
    <3>1. /\ rpc \in {"poll", "persist", "sweep"} /\ rpc' = "resubscribe"
          /\ UNCHANGED <<up, log, boundary, seen, scanned, cursor>>
      BY <2>7 DEF DriverError
    <3>2. QED BY <2>0, <3>1 DEF Phases
  <2>8. CASE Resubscribe
    <3>1. /\ rpc = "resubscribe" /\ UNCHANGED <<up, log, boundary, mark, pub>>
          /\ \/ rpc' = "stopped" /\ UNCHANGED <<cursor, seen, scanned>>
             \/ /\ rpc' = "promote" /\ cursor' = mark /\ seen' = mark
                /\ scanned' = Greater(scanned, mark)
      BY <2>8 DEF Resubscribe, Reading, SetScanned
    <3>2. QED BY <1>0, <2>0, <3>1 DEF Phases, Greater
  <2>9. QED
    BY <1>6, <2>1, <2>2, <2>3, <2>4, <2>5, <2>6, <2>7, <2>8 DEF Reader
<1>7. CASE \E w \in Workers : Worker(w)
  <2>1. PICK w \in Workers : Worker(w)
    BY <1>7
  <2>2. /\ up /\ UNCHANGED <<up, log, boundary, mark, seen, cursor, scanned, pub>>
        /\ rpc' = rpc
    BY <2>1 DEF Worker, PopLane, ClaimLane, TakeHead, Begin, SkipWedged, Finish, Fail,
                LoseAnswer, Park, Replay, Retire, RecordLaneRow, NoteLaneRow,
                ReleaseLane, At
  <2>3. QED BY <2>2, PhasesFrame
<1>8. QED BY <1>1, <1>2, <1>3, <1>4, <1>5, <1>6, <1>7 DEF Next

-----------------------------------------------------------------------------
(* What keeps each part of MarkInv.                                        *)

\* What is on record is read off seven variables.
LEMMA DurableFrame ==
    ASSUME Durable, UNCHANGED <<log, boundary, mark, status, laneRow, quarantine, settled>>
    PROVE  Durable'
<1>1. /\ \A p : /\ Answered(p)' <=> Answered(p)
                /\ LaneOf(p)' = LaneOf(p)
                /\ Plain(p)' <=> Plain(p)
      /\ \A p, q : /\ Subsumes(q, p)' <=> Subsumes(q, p)
                   /\ SameLane(p, q)' <=> SameLane(p, q)
  BY SameLog
<1>2. SettledDown'
  BY <1>1 DEF Durable, SettledDown
<1>3. RowsTrue'
  BY <1>1 DEF Durable, RowsTrue
<1>4. PlainFirst'
  BY <1>1 DEF Durable, PlainFirst
<1>5. Pinned'
  BY DEF Durable, Pinned
<1>6. MarkTrue'
  BY <1>1 DEF Durable, MarkTrue
<1>7. LaneRowsTrue'
  BY <1>1 DEF Durable, LaneRowsTrue
<1>8. QED BY <1>2, <1>3, <1>4, <1>5, <1>6, <1>7 DEF Durable

\* Groups may leave a queue, and lane rows be swept.
LEMMA QueueKept ==
    ASSUME QueueTrue, UNCHANGED <<log, boundary, up, mark>>, Frontier' = Frontier,
           \A l, h : ToRun(l, h)' => ToRun(l, h), inflight' \subseteq inflight,
           TypeOK, \A l \in Lanes : laneRow'[l] \in {laneRow[l], 0}
    PROVE  QueueTrue'
<1>1. \A p : (Answered(p)' <=> Answered(p)) /\ LaneOf(p)' = LaneOf(p)
  BY SameLog
<1>2. \A l \in Lanes : laneRow[l] \in Nat
  BY DEF TypeOK, StoreTypeOK
<1>3. Frontier \in Nat
  BY FrontierType
<1>4. SUFFICES ASSUME up', up
               PROVE  /\ \A l \in Lanes : \A h \in Nat : ToRun(l, h)' =>
                           /\ h \in 1..Frontier' /\ Answered(h)' /\ LaneOf(h)' = l
                           /\ laneRow'[l] < h
                      /\ \A p \in inflight' : mark' < p
  BY DEF QueueTrue
<1>5. \A p \in inflight' : mark' < p
  BY <1>4 DEF QueueTrue
<1>6. ASSUME NEW l \in Lanes, NEW h \in Nat, ToRun(l, h)'
      PROVE  /\ h \in 1..Frontier' /\ Answered(h)' /\ LaneOf(h)' = l
             /\ laneRow'[l] < h
  <2>1. h \in 1..Frontier /\ Answered(h) /\ LaneOf(h) = l /\ laneRow[l] < h
    BY <1>4, <1>6 DEF QueueTrue
  <2>2. h > 0 /\ laneRow'[l] < h
    BY <1>2, <1>3, <2>1
  <2>3. QED BY <1>1, <2>1, <2>2
<1>7. QED BY <1>5, <1>6

\* The high-water of every lane stays, and what it is compared with.
LEMMA HighKept ==
    ASSUME HighTrue, UNCHANGED <<log, boundary, up, mark, laneRow, high>>,
           Frontier' = Frontier
    PROVE  HighTrue'
<1>1. \A p : (Answered(p)' <=> Answered(p)) /\ LaneOf(p)' = LaneOf(p)
  BY SameLog
<1>2. QED BY <1>1 DEF HighTrue

\* Nothing that was settled or queued goes missing.
LEMMA AccountedKept ==
    ASSUME Accounted, UNCHANGED <<log, boundary, up>>, Frontier' = Frontier,
           settled \subseteq settled', \A l, h : ToRun(l, h) => ToRun(l, h)'
    PROVE  Accounted'
<1>1. /\ \A p : Answered(p)' <=> Answered(p)
      /\ \A p, q : Subsumes(q, p)' <=> Subsumes(q, p)
  BY SameLog
<1>2. \A p : Pending(p) => Pending(p)'
  BY <1>1 DEF Pending
<1>3. QED BY <1>1, <1>2 DEF Accounted

\* Open groups may be closed, and none of them is begun.
LEMMA OpenKept ==
    ASSUME OpenTrue, UNCHANGED <<log, boundary, up>>,
           \A l \in Lanes : \A a \in Arms : latest'[l][a] \in {latest[l][a], 0},
           \A l, h : ToRun(l, h) => ToRun(l, h)',
           \A l \in Lanes : \A a \in Arms : \A o \in Nat \ {0} :
             latest[l][a] = o => status'[o] = status[o]
    PROVE  OpenTrue'
<1>1. \A p : ArmOf(p)' = ArmOf(p)
  BY SameLog
<1>2. SUFFICES ASSUME up', up, NEW l \in Lanes, NEW a \in Arms, NEW o \in Nat \ {0},
                      latest'[l][a] = o
               PROVE  ToRun(l, o)' /\ ArmOf(o)' = a /\ status'[o] = "none"
  BY DEF OpenTrue
<1>3. latest[l][a] = o
  BY <1>2
<1>4. ToRun(l, o) /\ ArmOf(o) = a /\ status[o] = "none"
  BY <1>2, <1>3 DEF OpenTrue
<1>5. QED BY <1>1, <1>3, <1>4

\* A row appears only for what the reader has reached, and stays queued while it runs.
LEMMA BegunKept ==
    ASSUME BegunTrue, UNCHANGED <<up, begun, blind>>, Frontier' = Frontier,
           \A l, h : ToRun(l, h) => ToRun(l, h)',
           \A p \in Positions : status'[p] # "none" /\ p > Frontier => status[p] # "none",
           \A p \in Positions : status'[p] = "running" =>
             status[p] = "running" \/ \E l \in Lanes : ToRun(l, p)
    PROVE  BegunTrue'
<1> SUFFICES ASSUME up', up
             PROVE  /\ ~blind' /\ (\E a \in Arms : Delivery[a] = "latest") =>
                         \A p \in Positions :
                           p > Frontier' /\ status'[p] # "none" => p \in begun'
                    /\ \A p \in Positions : status'[p] = "running" /\ p <= Frontier' =>
                         \E l \in Lanes : ToRun(l, p)'
  BY DEF BegunTrue
<1>1. ~blind' /\ (\E a \in Arms : Delivery[a] = "latest") =>
        \A p \in Positions : p > Frontier' /\ status'[p] # "none" => p \in begun'
  BY DEF BegunTrue
<1>2. \A p \in Positions : status'[p] = "running" /\ p <= Frontier' =>
        \E l \in Lanes : ToRun(l, p)'
  BY DEF BegunTrue
<1>3. QED BY <1>1, <1>2

\* What a worker has in hand stays as it was while its row does.
LEMMA HandKept ==
    ASSUME NEW w \in Workers, HandTrue(w), UNCHANGED <<log, boundary>>,
           Frontier' = Frontier,
           settled \subseteq settled', \A l, h : ToRun(l, h)' => ToRun(l, h),
           wpc'[w] = wpc[w] /\ wlane'[w] = wlane[w] /\ work'[w] = work[w],
           \A p \in Nat : Holds(w) /\ work[w].position = p => status'[p] = status[p]
    PROVE  HandTrue(w)'
<1>1. \A p : (Answered(p)' <=> Answered(p)) /\ LaneOf(p)' = LaneOf(p)
  BY SameLog
<1>2. SUFFICES ASSUME NEW l \in Lanes, NEW p \in Nat, wlane'[w] = l, work'[w].position = p
               PROVE  /\ wpc'[w] \in {"run", "skip"} => status'[p] = "running"
                      /\ wpc'[w] \in {"verify", "retire"} =>
                           p \in settled' /\ status'[p] = "terminal"
                      /\ wpc'[w] = "row" =>
                           /\ p \in 1..Frontier' /\ Answered(p)' /\ LaneOf(p)' = l
                           /\ \A h \in Nat : ToRun(l, h)' => p < h
  BY DEF HandTrue
<1>3. wlane[w] = l /\ work[w].position = p
  BY <1>2
<1>4. /\ wpc[w] \in {"run", "skip"} => status[p] = "running"
      /\ wpc[w] \in {"verify", "retire"} => p \in settled /\ status[p] = "terminal"
      /\ wpc[w] = "row" =>
           /\ p \in 1..Frontier /\ Answered(p) /\ LaneOf(p) = l
           /\ \A h \in Nat : ToRun(l, h) => p < h
  BY <1>3, Zenon DEF HandTrue
<1>5. wpc[w] \in {"run", "skip", "verify", "retire"} => status'[p] = status[p]
  BY <1>3 DEF Holds
<1>6. QED BY <1>1, <1>4, <1>5

\* Or the worker puts it down.
LEMMA WorkKept ==
    ASSUME WorkTrue, UNCHANGED <<log, boundary, status>>, Frontier' = Frontier,
           settled \subseteq settled', \A l, h : ToRun(l, h)' => ToRun(l, h),
           \A w \in Workers :
             \/ wpc'[w] = wpc[w] /\ wlane'[w] = wlane[w] /\ work'[w] = work[w]
             \/ wpc'[w] \notin {"run", "skip", "verify", "retire", "row"}
    PROVE  WorkTrue'
<1>1. ASSUME NEW w \in Workers PROVE HandTrue(w)'
  <2>1. CASE wpc'[w] = wpc[w] /\ wlane'[w] = wlane[w] /\ work'[w] = work[w]
    BY <2>1, HandKept DEF WorkTrue
  <2>2. CASE wpc'[w] \notin {"run", "skip", "verify", "retire", "row"}
    BY <2>2 DEF HandTrue
  <2>3. QED BY <2>1, <2>2
<1>2. QED BY <1>1 DEF WorkTrue

\* Nobody takes up the lane of a divergence.
LEMMA StoppedKept ==
    ASSUME Stopped, UNCHANGED <<up, quarantine>>, halted => halted',
           rpc' # "stopped" => rpc # "stopped",
           \A l, h : ToRun(l, h) => ToRun(l, h)',
           \A w \in Workers : Holds(w)' =>
             (Holds(w) /\ wlane'[w] = wlane[w]) \/ ~halted
    PROVE  Stopped'
BY DEF Stopped

\* What the mark about to be published passes stays over with.
LEMMA PublishKept ==
    ASSUME Publishing, UNCHANGED <<log, boundary, up>>, settled \subseteq settled',
           rpc' = "persist" => rpc = "persist" /\ pub' = pub,
           \A p \in Positions : status'[p] = "running" => status[p] = "running" \/ p > pub
    PROVE  Publishing'
<1>1. /\ \A p : Answered(p)' <=> Answered(p)
      /\ \A p, q : Subsumes(q, p)' <=> Subsumes(q, p)
  BY SameLog
<1>2. QED BY <1>1 DEF Publishing

\* A step that changes neither what is on record nor what is queued nor how far the
\* reader has got, though it may close groups and put work down.
Quiet ==
    /\ UNCHANGED <<log, boundary, up, mark, status, laneRow, quarantine, settled,
                   queues, inflight, high, begun, blind>>
    /\ \A l \in Lanes : \A a \in Arms : latest'[l][a] \in {latest[l][a], 0}
    /\ halted => halted'
    /\ rpc' # "stopped" => rpc # "stopped"
    /\ rpc' = "persist" => rpc = "persist" /\ pub' = pub
    /\ \A w \in Workers :
         \/ wpc'[w] = wpc[w] /\ wlane'[w] = wlane[w] /\ work'[w] = work[w]
         \/ /\ wpc'[w] \notin {"run", "skip", "verify", "retire", "row"}
            /\ wpc'[w] = "begin" => ~halted

\* Such a step keeps all of it.
LEMMA QuietKeeps ==
    ASSUME TypeOK, Durable, Dispatcher, Quiet, Frontier' = Frontier
    PROVE  Durable' /\ Dispatcher'
<1>1. \A l, h : ToRun(l, h)' <=> ToRun(l, h)
  BY SameQueues DEF Quiet
<1>2. Durable'
  BY DurableFrame DEF Quiet
<1>3. QueueTrue'
  BY <1>1, QueueKept DEF Quiet, Dispatcher
<1>4. HighTrue'
  BY HighKept DEF Quiet, Dispatcher
<1>5. Accounted'
  BY <1>1, AccountedKept DEF Quiet, Dispatcher
<1>6. OpenTrue'
  BY <1>1, OpenKept DEF Quiet, Dispatcher
<1>7. BegunTrue'
  BY <1>1, BegunKept DEF Quiet, Dispatcher
<1>8. WorkTrue'
  BY <1>1, WorkKept DEF Quiet, Dispatcher
<1>9. \A w \in Workers : Holds(w)' => (Holds(w) /\ wlane'[w] = wlane[w]) \/ ~halted
  BY DEF Quiet, Holds
<1>10. Stopped'
  BY <1>1, <1>9, StoppedKept DEF Quiet, Dispatcher
<1>11. Publishing'
  BY PublishKept DEF Quiet, Dispatcher
<1>12. QED
  BY <1>2, <1>3, <1>4, <1>5, <1>6, <1>7, <1>8, <1>10, <1>11 DEF Dispatcher

\* The steps of the reader that are quiet: also a re-subscription, which goes back to
\* the mark with what the dispatcher knows.
LEMMA QuietReader ==
    ASSUME TypeOK, Phases, Ahead,
           \/ \E l \in Lanes : Wake(l)
           \/ Promoted \/ Poll \/ PrunePassed \/ Resubscribe
           \/ ReadMark /\ rpc' # "persist"
           \/ DriverError /\ mark' = mark /\ laneRow' = laneRow
    PROVE  Quiet /\ Frontier' = Frontier
<1>1. CASE (\E l \in Lanes : Wake(l)) \/ Promoted \/ Poll
  <2>1. /\ UNCHANGED <<log, boundary, up, mark, status, laneRow, quarantine, settled,
                       queues, latest, inflight, high, begun, blind, scanned, seen,
                       halted, wpc, wlane, work>>
        /\ rpc \in {"promote", "poll"} /\ rpc' \in {"promote", "poll", "mark", "admit"}
    BY <1>1 DEF Wake, Promote, PromoteMatching, Promoted, Poll, Reading
  <2>2. QED BY <2>1 DEF Quiet, Frontier
<1>2. CASE PrunePassed \/ (ReadMark /\ rpc' # "persist")
  <2>1. /\ UNCHANGED <<log, boundary, up, mark, status, laneRow, quarantine, settled,
                       queues, latest, inflight, high, begun, blind, scanned, seen,
                       halted, wpc, wlane, work>>
        /\ rpc \in {"prune", "mark"} /\ rpc' # "persist"
    BY <1>2 DEF PrunePassed, PassEnds, ReadMark, PruneRows, Reading
  <2>2. QED BY <2>1 DEF Quiet, Frontier
<1>3. CASE DriverError /\ mark' = mark /\ laneRow' = laneRow
  <2>1. /\ UNCHANGED <<log, boundary, up, mark, status, laneRow, quarantine, settled,
                       queues, latest, inflight, high, begun, blind, scanned, seen,
                       halted, wpc, wlane, work>>
        /\ rpc # "stopped" /\ rpc' = "resubscribe"
    BY <1>3 DEF DriverError
  <2>2. QED BY <2>1 DEF Quiet, Frontier
<1>4. CASE Resubscribe
  <2>1. /\ UNCHANGED <<log, boundary, up, mark, status, laneRow, quarantine, settled,
                       queues, latest, inflight, high, begun, blind, wpc, wlane, work>>
        /\ up /\ rpc = "resubscribe" /\ rpc' \in {"stopped", "promote"}
        /\ halted => halted'
        /\ \/ UNCHANGED <<scanned, seen>>
           \/ seen' = mark /\ scanned' = Greater(scanned, mark)
    BY <1>4 DEF Resubscribe, Reading, SetScanned
  <2>2. /\ scanned \in Nat /\ seen \in Nat /\ mark \in Nat /\ cursor \in Nat
        /\ mark <= seen /\ seen = cursor /\ cursor <= scanned
    BY <2>1, FrontierType DEF Ahead, Phases
  <2>3. Frontier' = Frontier
    BY <2>1, <2>2 DEF Frontier, Greater
  <2>4. QED BY <2>1, <2>3 DEF Quiet
<1>5. QED BY <1>1, <1>2, <1>3, <1>4

\* The steps of a worker that are quiet, and those nobody takes in the dispatcher.
LEMMA QuietWorker ==
    ASSUME TypeOK, NEW w \in Workers,
           \/ PopLane(w) \/ ClaimLane(w) \/ TakeHead(w) \/ Fail(w) \/ NoteLaneRow(w)
           \/ ReleaseLane(w)
    PROVE  Quiet /\ Frontier' = Frontier
<1>1. /\ UNCHANGED <<log, boundary, up, mark, status, laneRow, quarantine, settled,
                     queues, inflight, high, begun, blind, scanned, seen, halted, rpc, pub>>
  BY DEF PopLane, ClaimLane, Claim, TakeHead, Freeze, Fail, Park, Defer, NoteLaneRow,
         ReleaseLane, Release
<1>2. \A l \in Lanes : \A a \in Arms : latest'[l][a] \in {latest[l][a], 0}
  <2>1. CASE TakeHead(w)
    <3>1. \/ latest' = latest
          \/ Close(wlane[w], Front(wlane[w]))
      BY <2>1 DEF TakeHead, Freeze
    <3>2. wlane[w] \in Lanes /\ latest \in [Lanes -> [Arms -> Nat]]
      BY DEF TypeOK, PoolTypeOK, LaneTypeOK
    <3>3. QED BY <3>1, <3>2 DEF Close
  <2>2. CASE ~TakeHead(w)
    <3>1. latest' = latest
      BY <2>2 DEF PopLane, ClaimLane, Claim, Fail, Park, Defer, NoteLaneRow, ReleaseLane,
                  Release
    <3>2. QED BY <3>1
  <2>3. QED BY <2>1, <2>2
<1>3. /\ wpc \in [Workers -> {"idle", "popped", "head", "begin", "skip", "run",
                              "verify", "retire", "row", "noted", "release"}]
      /\ wlane \in [Workers -> Lanes]
      /\ work \in [Workers -> [position : Nat, from : Nat]]
  BY DEF TypeOK, PoolTypeOK
<1>4. \A v \in Workers : v # w =>
        wpc'[v] = wpc[v] /\ wlane'[v] = wlane[v] /\ work'[v] = work[v]
  BY <1>3 DEF PopLane, ClaimLane, TakeHead, Fail, Park, NoteLaneRow, ReleaseLane, Unhand,
              Step, Go
<1>5. /\ wpc'[w] \in {"idle", "popped", "head", "begin", "release"}
      /\ wpc'[w] = "begin" => ~halted
  BY <1>3 DEF PopLane, ClaimLane, TakeHead, Fail, Park, NoteLaneRow, ReleaseLane, Unhand,
              Step, Go
<1>6. QED BY <1>1, <1>2, <1>4, <1>5 DEF Quiet, Frontier

\* A stutter, and a request of the operator.
LEMMA QuietRest ==
    ASSUME RequestSkip \/ UNCHANGED vars
    PROVE  Quiet /\ Frontier' = Frontier
<1>1. UNCHANGED <<log, boundary, up, mark, status, laneRow, quarantine, settled, queues,
                  latest, inflight, high, begun, blind, scanned, seen, halted, rpc, pub,
                  wpc, wlane, work>>
  BY DEF RequestSkip, vars
<1>2. QED BY <1>1 DEF Quiet, Frontier

-----------------------------------------------------------------------------
(* The log grows; the process starts, dies, and is rewound.                *)

\* Only positions of the log have a row.
LEMMA RowInLog ==
    ASSUME TypeOK, Durable, NEW p \in Positions, status[p] # "none"
    PROVE  p \in 1..Len(log)
BY DEF Durable, RowsTrue, SettledDown, Answered, TypeOK, StoreTypeOK

\* What is to run lies above the mark.
LEMMA RunAboveMark ==
    ASSUME TypeOK, QueueSound, QueueTrue, up,
           NEW l \in Lanes, NEW h \in Nat, ToRun(l, h)
    PROVE  mark < h
<1>1. PICK p \in inflight : p \in Nat /\ p <= h
  BY ToRunInFlight
<1>2. mark < p /\ mark \in Nat
  BY FrontierType DEF QueueTrue
<1>3. QED BY <1>1, <1>2

\* A new event is ahead of everything on record.
LEMMA AppendKeepsRecord ==
    ASSUME TypeOK, Durable, AppendEvent PROVE Durable'
<1> DEFINE n == Len(log)
<1>1. /\ n \in Nat /\ Len(log') = n + 1
      /\ \A p \in 1..n : /\ Answered(p)' <=> Answered(p)
                         /\ LaneOf(p)' = LaneOf(p)
                         /\ Plain(p)' <=> Plain(p)
      /\ \A p, q \in 1..n : /\ Subsumes(q, p)' <=> Subsumes(q, p)
                            /\ SameLane(p, q)' <=> SameLane(p, q)
  BY GrownLog
<1>2. UNCHANGED <<mark, status, laneRow, quarantine, settled>>
  BY DEF AppendEvent
<1>3. /\ mark \in Nat /\ mark <= n
      /\ \A l \in Lanes : laneRow[l] \in Nat /\ laneRow[l] <= n
      /\ settled \subseteq 1..n
  BY FrontierType DEF Durable, LaneRowsTrue, SettledDown
<1>4. \A p \in Positions : status[p] # "none" => p \in 1..n
  BY RowInLog
<1> HIDE DEF n
<1>5. 1..n \subseteq 1..(n + 1)
  BY <1>1
<1>6. SettledDown'
  <2>1. ASSUME NEW q \in settled, NEW p \in 1..(n + 1), Subsumes(q, p)', Answered(p)'
        PROVE  p \in settled
    <3>1. q \in 1..n /\ p < q
      BY <1>3, <2>1 DEF Subsumes
    <3>2. p \in 1..n
      BY <1>1, <3>1
    <3>3. Subsumes(q, p) /\ Answered(p)
      BY <1>1, <2>1, <3>1, <3>2
    <3>4. QED BY <3>2, <3>3 DEF Durable, SettledDown, n
  <2>2. QED BY <1>1, <1>2, <1>3, <1>5, <2>1 DEF SettledDown
<1>7. RowsTrue'
  <2>1. \A p \in Positions : status[p] = "running" =>
          Answered(p)' /\ p > mark /\ p > laneRow[LaneOf(p)']
    BY <1>1, <1>4 DEF Durable, RowsTrue
  <2>2. \A p \in settled : Plain(p)' /\ p > mark => status[p] = "terminal"
    BY <1>1, <1>3 DEF Durable, RowsTrue
  <2>3. \A p \in Positions : status[p] = "terminal" => p \in settled
    BY DEF Durable, RowsTrue
  <2>4. QED BY <1>2, <2>1, <2>2, <2>3 DEF RowsTrue
<1>8. PlainFirst'
  <2>1. ASSUME NEW p \in 1..(n + 1), NEW q \in 1..(n + 1), p < q, SameLane(p, q)',
               Answered(p)', Plain(p)', p > mark, status[q] # "none"
        PROVE  status[p] = "terminal"
    <3>1. p \in 1..n
      BY <1>1, <2>1
    <3>2. CASE q \in 1..n
      BY <1>1, <2>1, <3>1, <3>2 DEF Durable, PlainFirst, n
    <3>3. CASE q \notin 1..n
      <4>1. q = Len(log')
        BY <1>1, <3>3
      <4>2. log' \in Seq(Events) /\ Len(log') <= MaxLog
        <5>1. TypeOK'
          BY TypeAppendEvent
        <5>2. Len(log) < MaxLog /\ MaxLog \in Nat
          BY SizesAssumption DEF AppendEvent
        <5>3. QED BY <1>1, <5>1, <5>2 DEF TypeOK, StoreTypeOK, n
      <4>3. q \in Positions
        BY <1>1, <4>1, <4>2, SizesAssumption DEF Positions
      <4>4. QED BY <1>4, <2>1, <3>3, <4>3
    <3>4. QED BY <3>2, <3>3
  <2>2. QED BY <1>1, <1>2, <2>1 DEF PlainFirst
<1>9. Pinned'
  BY <1>2 DEF Durable, Pinned
<1>10. MarkTrue'
  <2>1. ASSUME NEW p \in 1..(n + 1), p <= mark, Answered(p)'
        PROVE  p \in settled \/ \E q \in 1..(n + 1) : mark < q /\ Subsumes(q, p)'
    <3>1. p \in 1..n
      BY <1>1, <1>3, <2>1
    <3>2. p \in settled \/ \E q \in 1..n : mark < q /\ Subsumes(q, p)
      BY <1>1, <2>1, <3>1 DEF Durable, MarkTrue, n
    <3>3. QED BY <1>1, <1>5, <3>1, <3>2
  <2>2. QED BY <1>1, <1>2, <2>1 DEF MarkTrue
<1>11. LaneRowsTrue'
  <2>1. ASSUME NEW l \in Lanes, NEW p \in 1..(n + 1),
               p <= laneRow[l], Answered(p)', LaneOf(p)' = l
        PROVE  p \in settled \/ \E q \in 1..(n + 1) : laneRow[l] < q /\ Subsumes(q, p)'
    <3>1. p \in 1..n
      BY <1>1, <1>3, <2>1
    <3>2. p \in settled \/ \E q \in 1..n : laneRow[l] < q /\ Subsumes(q, p)
      BY <1>1, <2>1, <3>1 DEF Durable, LaneRowsTrue, n
    <3>3. QED BY <1>1, <1>5, <3>1, <3>2
  <2>2. \A l \in Lanes : laneRow[l] <= n + 1
    BY <1>1, <1>3
  <2>3. QED BY <1>1, <1>2, <2>1, <2>2 DEF LaneRowsTrue
<1>12. QED BY <1>6, <1>7, <1>8, <1>9, <1>10, <1>11 DEF Durable

\* And of everything the dispatcher has considered.
LEMMA AppendKeepsDispatcher ==
    ASSUME TypeOK, Dispatcher, AppendEvent PROVE Dispatcher'
<1> DEFINE n == Len(log)
<1>1. /\ n \in Nat /\ Len(log') = n + 1
      /\ \A p \in 1..n : /\ Answered(p)' <=> Answered(p)
                         /\ LaneOf(p)' = LaneOf(p) /\ ArmOf(p)' = ArmOf(p)
      /\ \A p, q \in 1..n : Subsumes(q, p)' <=> Subsumes(q, p)
  BY GrownLog
<1>2. UNCHANGED <<boundary, mark, status, laneRow, quarantine, settled, up, rpc, scanned,
                  seen, pub, halted, wpc, wlane, work, queues, latest, high, inflight,
                  begun, blind>>
  BY DEF AppendEvent
<1>3. Frontier' = Frontier
  BY <1>2 DEF Frontier
<1>4. Frontier \in 0..n /\ pub \in 0..n
  BY FrontierType DEF TypeOK, ReaderTypeOK
<1>5. \A l, h : ToRun(l, h)' <=> ToRun(l, h)
  BY <1>2, SameQueues
<1> HIDE DEF n
<1>6. /\ \A p \in Nat : p <= Frontier /\ p >= 1 => p \in 1..n
      /\ \A p \in Nat : p <= pub /\ p >= 1 => p \in 1..n
      /\ 1..n \subseteq 1..(n + 1) /\ 1..(n + 1) \subseteq Nat
      /\ \A p \in 1..(n + 1) : p >= 1
      /\ \A p \in 1..Frontier : p \in 1..n
  BY <1>1, <1>4
<1>7. QueueTrue'
  <2>1. ASSUME up, NEW l \in Lanes, NEW h \in Nat, ToRun(l, h)
        PROVE  h \in 1..Frontier /\ Answered(h)' /\ LaneOf(h)' = l /\ laneRow[l] < h
    <3>1. h \in 1..Frontier /\ Answered(h) /\ LaneOf(h) = l /\ laneRow[l] < h
      BY <2>1 DEF Dispatcher, QueueTrue
    <3>2. QED BY <1>1, <1>6, <3>1
  <2>2. up => \A p \in inflight : mark < p
    BY DEF Dispatcher, QueueTrue
  <2>3. QED BY <1>2, <1>3, <1>5, <2>1, <2>2 DEF QueueTrue
<1>8. HighTrue'
  <2>1. ASSUME up, NEW p \in 1..Frontier, Answered(p)', p > mark
        PROVE  p <= high[LaneOf(p)']
    BY <1>1, <1>6, <2>1 DEF Dispatcher, HighTrue
  <2>2. QED BY <1>2, <1>3, <2>1 DEF Dispatcher, HighTrue
<1>9. Accounted'
  <2>1. ASSUME up, NEW p \in 1..(n + 1), p <= Frontier, Answered(p)'
        PROVE  \/ p \in settled
               \/ Pending(p)'
               \/ \E q \in 1..(n + 1) : q > Frontier /\ Subsumes(q, p)'
    <3>1. p \in 1..n /\ Answered(p)
      BY <1>1, <1>6, <2>1
    <3>2. \/ p \in settled
          \/ \E l \in Lanes : \E h \in 1..n : ToRun(l, h) /\ (h = p \/ Subsumes(h, p))
          \/ \E q \in 1..n : q > Frontier /\ Subsumes(q, p)
      BY <2>1, <3>1 DEF Dispatcher, Accounted, Pending, n
    <3>3. CASE \E l \in Lanes : \E h \in 1..n : ToRun(l, h) /\ (h = p \/ Subsumes(h, p))
      <4>1. PICK l \in Lanes, h \in 1..n : ToRun(l, h) /\ (h = p \/ Subsumes(h, p))
        BY <3>3
      <4>2. h \in 1..Len(log') /\ ToRun(l, h)' /\ (h = p \/ Subsumes(h, p)')
        BY <1>1, <1>5, <1>6, <3>1, <4>1
      <4>3. QED BY <4>2 DEF Pending
    <3>4. QED BY <1>1, <1>6, <3>1, <3>2, <3>3
  <2>2. QED BY <1>1, <1>2, <1>3, <2>1 DEF Accounted
<1>10. OpenTrue'
  <2>1. ASSUME up, NEW l \in Lanes, NEW a \in Arms, NEW o \in Nat \ {0}, latest[l][a] = o
        PROVE  ToRun(l, o) /\ ArmOf(o)' = a /\ status[o] = "none"
    <3>1. ToRun(l, o) /\ ArmOf(o) = a /\ status[o] = "none"
      BY <2>1 DEF Dispatcher, OpenTrue
    <3>2. o \in 1..Frontier
      BY <2>1, <3>1 DEF Dispatcher, QueueTrue
    <3>3. QED BY <1>1, <1>6, <3>1, <3>2
  <2>2. QED BY <1>2, <1>5, <2>1 DEF OpenTrue
<1>11. BegunTrue'
  BY <1>2, <1>3, <1>5 DEF Dispatcher, BegunTrue
<1>12. WorkTrue'
  <2>1. ASSUME NEW w \in Workers, NEW l \in Lanes, NEW p \in Nat,
               wlane[w] = l, work[w].position = p
        PROVE  /\ wpc[w] \in {"run", "skip"} => status[p] = "running"
               /\ wpc[w] \in {"verify", "retire"} => p \in settled /\ status[p] = "terminal"
               /\ wpc[w] = "row" =>
                    /\ p \in 1..Frontier /\ Answered(p)' /\ LaneOf(p)' = l
                    /\ \A h \in Nat : ToRun(l, h) => p < h
    <3>1. /\ wpc[w] \in {"run", "skip"} => status[p] = "running"
          /\ wpc[w] \in {"verify", "retire"} => p \in settled /\ status[p] = "terminal"
          /\ wpc[w] = "row" =>
               /\ p \in 1..Frontier /\ Answered(p) /\ LaneOf(p) = l
               /\ \A h \in Nat : ToRun(l, h) => p < h
      BY <2>1, Zenon DEF Dispatcher, WorkTrue, HandTrue
    <3>2. p \in 1..Frontier => (Answered(p)' <=> Answered(p)) /\ LaneOf(p)' = LaneOf(p)
      BY <1>1, <1>6
    <3>3. QED BY <3>1, <3>2
  <2>2. QED BY <1>2, <1>3, <1>5, <2>1 DEF WorkTrue, HandTrue
<1>13. Stopped'
  BY <1>2, <1>5 DEF Dispatcher, Stopped, Holds
<1>14. Publishing'
  <2>1. ASSUME up, rpc = "persist", NEW p \in 1..(n + 1), p <= pub, Answered(p)'
        PROVE  p \in settled \/ \E q \in 1..(n + 1) : pub < q /\ Subsumes(q, p)'
    <3>1. p \in 1..n /\ Answered(p)
      BY <1>1, <1>6, <2>1
    <3>2. p \in settled \/ \E q \in 1..n : pub < q /\ Subsumes(q, p)
      BY <2>1, <3>1 DEF Dispatcher, Publishing, n
    <3>3. QED BY <1>1, <1>6, <3>1, <3>2
  <2>2. QED BY <1>1, <1>2, <2>1 DEF Dispatcher, Publishing
<1>15. QED
  BY <1>7, <1>8, <1>9, <1>10, <1>11, <1>12, <1>13, <1>14 DEF Dispatcher

\* What invocations_above reads back is everything above the mark, unless it is more
\* than the limit.
LEMMA ReadBackComplete ==
    ASSUME TypeOK, \E a \in Arms : Delivery[a] = "latest",
           ~(Cardinality(ReadBack) > RecordedMax)
    PROVE  RecordedAbove(mark) \subseteq ReadBack
<1> DEFINE R == RecordedAbove(mark)
           upTo(p) == {q \in R : q <= p}
<1>0. /\ R \subseteq Nat /\ IsFiniteSet(R)
      /\ RecordedMax \in Nat
      /\ ReadBack = {p \in R : Cardinality(upTo(p)) <= RecordedMax + 1}
  <2>1. IsFiniteSet(1..MaxLog)
    BY SizesAssumption, FS_Interval
  <2>2. R \subseteq 1..MaxLog
    BY DEF RecordedAbove, Recorded, Positions
  <2>3. QED
    BY <2>1, <2>2, FS_Subset, SizesAssumption DEF ReadBack
<1> HIDE DEF R
<1>1. SUFFICES ASSUME R \ ReadBack # {} PROVE FALSE
  BY DEF R
<1>2. PICK p \in R \ ReadBack : \A q \in R \ ReadBack : p <= q
  <2>1. R \ ReadBack \subseteq Nat
    BY <1>0
  <2>2. QED BY <1>1, <2>1, LeastNatural
<1> DEFINE B == {q \in R : q < p}
<1>3. upTo(p) = B \cup {p} /\ p \notin B /\ IsFiniteSet(B)
  <2>1. p \in Nat
    BY <1>0
  <2>2. B \subseteq R
    OBVIOUS
  <2>3. IsFiniteSet(B)
    BY <1>0, <2>2, FS_Subset
  <2>4. upTo(p) = B \cup {p}
    <3>1. p \in R /\ \A q \in R : q \in Nat /\ (q <= p <=> q < p \/ q = p)
      BY <1>0, <2>1
    <3>2. QED BY <3>1
  <2>5. QED BY <2>1, <2>3, <2>4
<1>4. B \subseteq ReadBack
  <2>1. ASSUME NEW q \in B PROVE q \in ReadBack
    <3>1. q \in R /\ q < p /\ q \in Nat /\ p \in Nat
      BY <1>0
    <3>2. QED BY <1>2, <3>1
  <2>2. QED BY <2>1
<1>5. IsFiniteSet(ReadBack)
  BY <1>0, FS_Subset
<1>6. /\ Cardinality(B) <= Cardinality(ReadBack)
      /\ Cardinality(B) \in Nat /\ Cardinality(ReadBack) \in Nat
  BY <1>3, <1>4, <1>5, FS_Subset, FS_CardinalityType
<1>7. Cardinality(upTo(p)) = Cardinality(B) + 1
  BY <1>3, FS_AddElement
<1> HIDE DEF B, upTo
<1>8. Cardinality(upTo(p)) <= RecordedMax + 1
  BY <1>0, <1>6, <1>7
<1>9. QED BY <1>0, <1>2, <1>8

\* A start leaves what is on record alone, the boundary of a first one apart.
LEMMA StartKeepsRecord ==
    ASSUME TypeOK, Phases, Durable, Start PROVE Durable'
<1>1. UNCHANGED <<log, mark, status, laneRow, quarantine, settled>>
  BY DEF Start
<1>2. CASE boundary = Inactive
  <2>1. /\ mark = 0 /\ settled = {} /\ quarantine = 0
        /\ \A l \in Lanes : laneRow[l] = 0
        /\ \A p \in Positions : status[p] = "none"
    BY <1>2 DEF Phases
  <2>2. Len(log) \in Nat /\ Len(log) <= MaxLog /\ MaxLog \in Nat
    BY LogLength, SizesAssumption DEF Phases
  <2>3. 1..Len(log) \subseteq Positions /\ \A p \in 1..Len(log) : ~(p <= 0)
    BY <2>2 DEF Positions
  <2>4. SettledDown' /\ RowsTrue' /\ Pinned' /\ MarkTrue'
    BY <1>1, <2>1, <2>3 DEF SettledDown, RowsTrue, Pinned, MarkTrue
  <2>5. PlainFirst'
    BY <1>1, <2>1, <2>3 DEF PlainFirst
  <2>6. LaneRowsTrue'
    BY <1>1, <2>1, <2>2, <2>3 DEF LaneRowsTrue
  <2>7. QED BY <2>4, <2>5, <2>6 DEF Durable
<1>3. CASE boundary # Inactive
  <2>1. boundary' = boundary
    BY <1>3 DEF Start
  <2>2. QED BY <1>1, <2>1, DurableFrame
<1>4. QED BY <1>2, <1>3

\* The account is taken up from the mark: what it passed is on record, and what lies
\* above it is still to be considered.
LEMMA StartKeepsDispatcher ==
    ASSUME TypeOK, Ownership, Durable', Start PROVE Dispatcher'
<1>1. /\ up' /\ scanned' = mark /\ seen' = mark
      /\ UNCHANGED <<log, mark, status, laneRow, quarantine, settled, wpc, wlane, work>>
      /\ rpc' = IF quarantine = 0 THEN "promote" ELSE "stopped"
      /\ high' = laneRow /\ inflight' = {}
      /\ queues' = [l \in Lanes |-> <<>>]
      /\ latest' = [l \in Lanes |-> [a \in Arms |-> 0]]
      /\ begun' = ReadBack /\ blind' = (Cardinality(ReadBack) > RecordedMax)
  BY DEF Start, Resuming
<1>2. Frontier' = mark /\ mark \in Nat /\ \A l \in Lanes : laneRow[l] \in Nat
  BY <1>1, FrontierType DEF Frontier, Greater
<1>3. \A l \in Lanes : \A h : ~ToRun(l, h)'
  <2>1. \A l \in Lanes : Len(queues'[l]) = 0
    BY <1>1, EmptySeq
  <2>2. QED BY <2>1 DEF ToRun
<1>4. QueueTrue'
  BY <1>1, <1>3 DEF QueueTrue
<1>5. HighTrue'
  <2>1. \A p \in 1..mark : ~(p > mark)
    BY <1>2
  <2>2. \A l \in Lanes : laneRow[l] <= laneRow[l]
    BY <1>2
  <2>3. QED BY <1>1, <1>2, <2>1, <2>2 DEF HighTrue
<1>6. Accounted'
  <2>1. \A p \in 1..Len(log) : p <= mark /\ Answered(p)' =>
          p \in settled \/ \E q \in 1..Len(log) : mark < q /\ Subsumes(q, p)'
    BY <1>1 DEF Durable, MarkTrue
  <2>2. \A q \in 1..Len(log) : mark < q => q > mark
    BY <1>2
  <2>3. QED BY <1>1, <1>2, <2>1, <2>2 DEF Accounted
<1>7. OpenTrue'
  BY <1>1 DEF OpenTrue
<1>8. BegunTrue'
  <2>1. ASSUME ~blind', \E a \in Arms : Delivery[a] = "latest",
               NEW p \in Positions, p > mark, status[p] # "none"
        PROVE  p \in ReadBack
    <3>1. RecordedAbove(mark) \subseteq ReadBack
      BY <1>1, <2>1, ReadBackComplete
    <3>2. QED BY <2>1, <3>1 DEF RecordedAbove, Recorded
  <2>2. \A p \in Positions : status[p] = "running" => ~(p <= mark)
    BY <1>1, <1>2 DEF Durable, RowsTrue, Positions
  <2>3. QED BY <1>1, <1>2, <2>1, <2>2 DEF BegunTrue
<1>9. WorkTrue'
  BY <1>1 DEF Start, Ownership, WorkTrue, HandTrue
<1>10. Stopped' /\ Publishing'
  BY <1>1 DEF Stopped, Publishing
<1>11. QED
  BY <1>4, <1>5, <1>6, <1>7, <1>8, <1>9, <1>10 DEF Dispatcher

\* A crash leaves the records.
LEMMA CrashKeeps ==
    ASSUME Durable, Crash PROVE Durable' /\ Dispatcher'
<1>1. /\ UNCHANGED <<log, boundary, mark, status, laneRow, quarantine, settled>>
      /\ ~up' /\ \A w \in Workers : wpc'[w] = "idle"
  BY DEF Crash
<1>2. Durable'
  BY <1>1, DurableFrame
<1>3. Dispatcher'
  BY <1>1 DEF Dispatcher, QueueTrue, HighTrue, Accounted, OpenTrue, BegunTrue, WorkTrue,
              HandTrue, Stopped, Publishing
<1>4. QED BY <1>2, <1>3

\* A rewind forgets what lies beyond its target and every lane row; what lies below
\* is answered as before, also when the live boundary moves with it.
LEMMA RewindKeeps ==
    ASSUME TypeOK, Ownership, Phases, Durable, Rewind PROVE Durable' /\ Dispatcher'
<1>1. PICK to \in 0..mark, live \in BOOLEAN :
        /\ mark' = to
        /\ status' = [p \in Positions |-> IF p > to THEN "none" ELSE status[p]]
        /\ quarantine' = IF quarantine > to THEN 0 ELSE quarantine
        /\ boundary' = IF live /\ boundary > to THEN to ELSE boundary
        /\ settled' = {p \in settled : p <= to}
  BY DEF Rewind
<1>2. /\ laneRow' = [l \in Lanes |-> 0] /\ ~up
      /\ UNCHANGED <<log, up, wpc>>
  BY DEF Rewind
<1>3. /\ mark \in Nat /\ to \in Nat /\ to <= mark /\ boundary \in Int
      /\ Len(log) \in Nat
  BY FrontierType DEF TypeOK, StoreTypeOK, Inactive
<1>4. /\ \A p : LaneOf(p)' = LaneOf(p) /\ ArmOf(p)' = ArmOf(p) /\ (Plain(p)' <=> Plain(p))
      /\ \A p, q : Subsumes(q, p)' <=> Subsumes(q, p)
  BY <1>2 DEF LaneOf, ArmOf, Plain, Collapsible, Subsumes
<1>5. \A p \in 1..Len(log) : p <= to => (Answered(p)' <=> Answered(p))
  BY <1>1, <1>2, <1>3, <1>4 DEF Answered, AnswersUnder
<1>6. SettledDown'
  <2>1. ASSUME NEW q \in settled, q <= to, NEW p \in 1..Len(log), Subsumes(q, p),
               Answered(p)'
        PROVE  p \in settled /\ p <= to
    <3>1. q \in 1..Len(log) /\ p < q
      BY <2>1 DEF Durable, SettledDown, Subsumes
    <3>2. p <= to
      BY <1>3, <2>1, <3>1
    <3>3. Answered(p)
      BY <1>5, <2>1, <3>2
    <3>4. QED BY <2>1, <3>2, <3>3 DEF Durable, SettledDown
  <2>2. QED BY <1>1, <1>2, <1>4, <2>1 DEF Durable, SettledDown
<1>7. \A p \in Positions : status'[p] # "none" => p <= to /\ status[p] = "terminal"
  <2>1. status \in [Positions -> {"none", "running", "terminal"}]
    BY DEF TypeOK, StoreTypeOK
  <2>2. \A p \in Positions : status[p] = "running" => p > mark
    BY DEF Durable, RowsTrue
  <2>3. Positions \subseteq Nat
    BY DEF Positions
  <2>4. QED BY <1>1, <1>3, <2>1, <2>2, <2>3
<1>8. RowsTrue'
  <2>1. \A p \in Positions : status'[p] # "none" => status'[p] = status[p]
    BY <1>1
  <2>2. \A p \in Positions : status'[p] = "terminal" => p \in settled'
    BY <1>1, <1>7 DEF Durable, RowsTrue
  <2>3. \A p \in Positions : status'[p] # "running"
    BY <1>7, <2>1
  <2>4. \A p \in settled' : ~(p > mark')
    BY <1>1, <1>3 DEF Durable, SettledDown
  <2>5. QED BY <2>2, <2>3, <2>4 DEF RowsTrue
<1>9. PlainFirst'
  <2>1. ASSUME NEW p \in 1..Len(log), NEW q \in 1..Len(log), p < q, p > to,
               status'[q] # "none"
        PROVE  FALSE
    <3>1. q \in Positions /\ p \in Nat /\ q \in Nat
      BY <1>3, SizesAssumption DEF Phases, Positions
    <3>2. q <= to
      BY <1>7, <2>1, <3>1
    <3>3. QED BY <1>3, <2>1, <3>1, <3>2
  <2>2. QED BY <1>1, <1>2, <2>1 DEF PlainFirst
<1>10. Pinned'
  BY <1>1, <1>3 DEF Durable, Pinned, Positions
<1>11. MarkTrue'
  <2>1. ASSUME NEW p \in 1..Len(log), p <= to, Answered(p)'
        PROVE  p \in settled' \/ \E q \in 1..Len(log) : to < q /\ Subsumes(q, p)
    <3>1. Answered(p) /\ p <= mark
      BY <1>3, <1>5, <2>1
    <3>2. p \in settled \/ \E q \in 1..Len(log) : mark < q /\ Subsumes(q, p)
      BY <3>1 DEF Durable, MarkTrue
    <3>3. QED BY <1>1, <1>3, <2>1, <3>2
  <2>2. QED BY <1>1, <1>2, <1>4, <2>1 DEF MarkTrue
<1>12. LaneRowsTrue'
  BY <1>2, <1>3 DEF LaneRowsTrue
<1>13. Dispatcher'
  BY <1>2 DEF Ownership, Dispatcher, QueueTrue, HighTrue, Accounted, OpenTrue, BegunTrue,
              WorkTrue, HandTrue, Stopped, Publishing
<1>14. QED
  BY <1>6, <1>8, <1>9, <1>10, <1>11, <1>12, <1>13 DEF Durable

-----------------------------------------------------------------------------
(* The retention sweep, and the mark's move.                               *)

\* What is to run has a place among the rows.
LEMMA RunInPositions ==
    ASSUME TypeOK, Phases, QueueTrue, up, NEW l \in Lanes, NEW h \in Nat, ToRun(l, h)
    PROVE  h \in Positions /\ h \in 1..Len(log)
<1>1. h \in 1..Frontier
  BY DEF QueueTrue
<1>2. QED BY <1>1, FrontierType, SizesAssumption DEF Phases, Positions

\* The sweep reclaims no row a worker or the dispatcher still looks at: those lie
\* above the mark.
LEMMA SweepKeeps ==
    ASSUME HeadInv, Folded, Phases, Durable, Dispatcher, SweepInvocation
    PROVE  Durable' /\ Dispatcher'
<1> USE DEF HeadInv
<1>1. PICK p \in Positions :
        /\ status[p] = "terminal" /\ p <= mark
        /\ status' = [status EXCEPT ![p] = "none"]
  BY DEF SweepInvocation
<1>2. /\ up
      /\ UNCHANGED <<log, boundary, mark, laneRow, quarantine, settled, up, rpc, scanned,
                     seen, pub, halted, wpc, wlane, work, queues, latest, high, inflight,
                     begun, blind>>
  BY DEF SweepInvocation
<1>3. /\ status'[p] = "none"
      /\ \A q \in Positions : q # p => status'[q] = status[q]
      /\ \A q \in Positions : status'[q] # "none" => status'[q] = status[q]
      /\ \A q \in Positions : q > mark => status'[q] = status[q]
  <2>1. status \in [Positions -> {"none", "running", "terminal"}]
    BY DEF TypeOK, StoreTypeOK
  <2>2. p \in Nat /\ mark \in Nat /\ \A q \in Positions : q \in Nat
    BY FrontierType DEF Positions
  <2>3. QED BY <1>1, <2>1, <2>2
<1>4. Frontier' = Frontier
  BY <1>2 DEF Frontier
<1>5. \A l, h : ToRun(l, h)' <=> ToRun(l, h)
  BY <1>2, SameQueues
<1>6. /\ \A q : (Answered(q)' <=> Answered(q)) /\ LaneOf(q)' = LaneOf(q)
                /\ (Plain(q)' <=> Plain(q))
      /\ \A q, r : /\ Subsumes(r, q)' <=> Subsumes(r, q)
                   /\ SameLane(q, r)' <=> SameLane(q, r)
  BY <1>2, SameLog
<1>7. /\ \A q \in 1..Len(log) : q \in Positions
      /\ \A q \in settled : q \in Positions
  BY FrontierType, SizesAssumption DEF Phases, Positions, Durable, SettledDown
<1>8. SettledDown'
  BY <1>2, <1>6 DEF Durable, SettledDown
<1>9. RowsTrue'
  <2>1. \A q \in Positions : status'[q] = "terminal" => q \in settled
    BY <1>3 DEF Durable, RowsTrue
  <2>2. \A q \in Positions : status'[q] = "running" =>
          Answered(q) /\ q > mark /\ q > laneRow[LaneOf(q)]
    BY <1>3 DEF Durable, RowsTrue
  <2>3. \A q \in settled : Plain(q) /\ q > mark => status'[q] = "terminal"
    BY <1>3, <1>7 DEF Durable, RowsTrue
  <2>4. QED BY <1>2, <1>6, <2>1, <2>2, <2>3 DEF RowsTrue
<1>10. PlainFirst'
  <2>1. ASSUME NEW q \in 1..Len(log), NEW r \in 1..Len(log), q < r, SameLane(q, r),
               Answered(q), Plain(q), q > mark, status'[r] # "none"
        PROVE  status'[q] = "terminal"
    <3>1. status[r] # "none" /\ status'[q] = status[q]
      BY <1>3, <1>7, <2>1
    <3>2. QED BY <2>1, <3>1 DEF Durable, PlainFirst
  <2>2. QED BY <1>2, <1>6, <2>1 DEF PlainFirst
<1>11. Pinned'
  BY <1>2, <1>3 DEF Durable, Pinned, Positions
<1>12. MarkTrue' /\ LaneRowsTrue'
  BY <1>2, <1>6 DEF Durable, MarkTrue, LaneRowsTrue
<1>13. Durable'
  BY <1>8, <1>9, <1>10, <1>11, <1>12 DEF Durable
<1>14. QueueTrue' /\ HighTrue' /\ Accounted'
  BY <1>2, <1>4, <1>5, QueueKept, HighKept, AccountedKept DEF Dispatcher
<1>15. \A l \in Lanes : \A h \in Nat : ToRun(l, h) => h \in Positions /\ h > mark
  BY <1>2, RunInPositions, RunAboveMark DEF Dispatcher, Positions
<1>16. OpenTrue'
  <2>1. \A l \in Lanes : \A a \in Arms : \A o \in Nat \ {0} :
          latest[l][a] = o => status'[o] = status[o]
    BY <1>2, <1>3, <1>15 DEF Dispatcher, OpenTrue
  <2>2. QED BY <1>2, <1>5, <2>1, OpenKept DEF Dispatcher
<1>17. BegunTrue'
  BY <1>2, <1>3, <1>4, <1>5, BegunKept DEF Dispatcher
<1>18. WorkTrue'
  <2>1. ASSUME NEW w \in Workers PROVE HandTrue(w)'
    <3>1. ASSUME NEW q \in Nat, Holds(w), work[w].position = q
          PROVE  status'[q] = status[q]
      <4>1. PICK l \in Lanes : wlane[w] = l
        BY DEF TypeOK, PoolTypeOK
      <4>2. ToRun(l, q)
        BY <3>1, <4>1, HeldFirst
      <4>3. QED BY <1>3, <1>15, <4>2
    <3>2. QED BY <1>2, <1>4, <1>5, <3>1, HandKept DEF Dispatcher, WorkTrue
  <2>2. QED BY <2>1 DEF WorkTrue
<1>19. Stopped'
  BY <1>2, <1>5, StoppedKept DEF Dispatcher, Holds
<1>20. Publishing'
  BY <1>2, <1>3, PublishKept DEF Dispatcher
<1>21. QED
  BY <1>13, <1>14, <1>16, <1>17, <1>18, <1>19, <1>20 DEF Dispatcher

\* What is to run lies above the low-water mark.
LEMMA RunAboveLowWater ==
    ASSUME TypeOK, QueueSound, NEW l \in Lanes, NEW h \in Nat, ToRun(l, h)
    PROVE  LowWater < h
<1>1. PICK p \in inflight : p \in Nat /\ p <= h
  BY ToRunInFlight
<1>2. inflight \subseteq Nat \ {0} /\ scanned \in Nat /\ inflight # {}
  BY <1>1 DEF TypeOK, LaneTypeOK
<1>3. Oldest \in Nat \ {0} /\ Oldest <= p
  BY <1>1, <1>2, OldestInFlight
<1>4. LowWater = Lesser(Oldest - 1, scanned)
  BY <1>2 DEF LowWater
<1>5. LowWater <= Oldest - 1 /\ LowWater \in Nat
  BY <1>2, <1>3, <1>4 DEF Lesser
<1>6. QED BY <1>1, <1>3, <1>5

\* The account says the low-water mark loses nothing: what it passes is not queued.
LEMMA ReadMarkKeeps ==
    ASSUME TypeOK, QueueSound, Durable, Dispatcher, ReadMark, rpc' = "persist"
    PROVE  Durable' /\ Dispatcher'
<1>1. /\ up /\ pub' = LowWater
      /\ UNCHANGED <<log, boundary, mark, status, laneRow, quarantine, settled, up, scanned,
                     seen, halted, wpc, wlane, work, queues, latest, high, inflight, begun,
                     blind>>
  BY DEF ReadMark, Reading, PassEnds
<1>2. Frontier' = Frontier
  BY <1>1 DEF Frontier
<1>3. \A l, h : ToRun(l, h)' <=> ToRun(l, h)
  BY <1>1, SameQueues
<1>4. Durable'
  BY <1>1, DurableFrame
<1>5. QueueTrue' /\ HighTrue' /\ Accounted'
  BY <1>1, <1>2, <1>3, QueueKept, HighKept, AccountedKept DEF Dispatcher
<1>6. OpenTrue' /\ BegunTrue'
  BY <1>1, <1>2, <1>3, OpenKept, BegunKept DEF Dispatcher
<1>7. WorkTrue'
  BY <1>1, <1>2, <1>3, WorkKept DEF Dispatcher
<1>8. Stopped'
  <2>1. rpc # "stopped"
    BY DEF ReadMark, Reading
  <2>2. QED BY <1>1, <1>3, <2>1, StoppedKept DEF Dispatcher, Holds
<1>9. LowWater \in Nat /\ LowWater <= Frontier /\ Frontier \in Nat
  <2>1. LowWater \in 0..scanned
    BY LowWaterBounds DEF TypeOK, LaneTypeOK
  <2>2. QED BY <2>1, FrontierType
<1>10. \A l \in Lanes : \A h \in Nat : ToRun(l, h) => LowWater < h
  BY RunAboveLowWater
<1>11. ASSUME NEW p \in 1..Len(log), p <= LowWater, Answered(p)
       PROVE  p \in settled \/ \E q \in 1..Len(log) : LowWater < q /\ Subsumes(q, p)
  <2>1. \/ p \in settled
        \/ Pending(p)
        \/ \E q \in 1..Len(log) : q > Frontier /\ Subsumes(q, p)
    BY <1>1, <1>9, <1>11 DEF Dispatcher, Accounted
  <2>2. CASE Pending(p)
    <3>1. PICK l \in Lanes, h \in 1..Len(log) : ToRun(l, h) /\ (h = p \/ Subsumes(h, p))
      BY <2>2 DEF Pending
    <3>2. LowWater < h /\ h # p
      BY <1>9, <1>10, <1>11, <3>1
    <3>3. QED BY <3>1, <3>2
  <2>3. QED BY <1>9, <2>1, <2>2
<1>12. \A p \in Positions : status[p] = "running" => p > LowWater
  <2>1. ASSUME NEW p \in Positions, status[p] = "running", ~(p > LowWater) PROVE FALSE
    <3>1. p \in Nat /\ p <= Frontier
      BY <1>9, <2>1 DEF Positions
    <3>2. PICK l \in Lanes : ToRun(l, p)
      BY <1>1, <2>1, <3>1 DEF Dispatcher, BegunTrue
    <3>3. QED BY <1>9, <1>10, <2>1, <3>1, <3>2
  <2>2. QED BY <2>1
<1>13. Publishing'
  <2>1. /\ \A p : Answered(p)' <=> Answered(p)
        /\ \A p, q : Subsumes(q, p)' <=> Subsumes(q, p)
    BY <1>1, SameLog
  <2>2. QED BY <1>1, <1>11, <1>12, <2>1 DEF Publishing
<1>14. QED
  BY <1>4, <1>5, <1>6, <1>7, <1>8, <1>13 DEF Dispatcher

\* The mark moves to what was published, or was about to be when the write's answer
\* was lost.
LEMMA MarkMoves ==
    ASSUME HeadInv, Folded, Phases, Durable, Dispatcher,
           PersistMark \/ (DriverError /\ mark' # mark)
    PROVE  Durable' /\ Dispatcher'
<1> USE DEF HeadInv
<1>1. /\ up /\ rpc = "persist" /\ mark' = pub /\ rpc' \notin {"persist", "stopped"}
      /\ UNCHANGED <<log, boundary, status, laneRow, quarantine, settled, up, scanned,
                     seen, pub, halted, wpc, wlane, work, queues, latest, high, inflight,
                     begun, blind>>
  BY DEF PersistMark, DriverError, Reading
<1>2. /\ mark \in Nat /\ pub \in Nat /\ mark <= pub
      /\ \A l \in Lanes : laneRow[l] \in Nat
  BY <1>1, FrontierType DEF Phases
<1>3. Frontier' = Frontier
  BY <1>1 DEF Frontier
<1>4. \A l, h : ToRun(l, h)' <=> ToRun(l, h)
  BY <1>1, SameQueues
<1>5. /\ \A p : (Answered(p)' <=> Answered(p)) /\ LaneOf(p)' = LaneOf(p)
                /\ (Plain(p)' <=> Plain(p))
      /\ \A p, q : /\ Subsumes(q, p)' <=> Subsumes(q, p)
                   /\ SameLane(p, q)' <=> SameLane(p, q)
  BY <1>1, SameLog
<1>6. \A l \in Lanes : \A h \in Nat : ToRun(l, h) => pub < h
  BY <1>1, ToRunAbovePub
<1>7. SettledDown' /\ LaneRowsTrue'
  BY <1>1, <1>5 DEF Durable, SettledDown, LaneRowsTrue
<1>8. RowsTrue'
  <2>1. /\ \A p \in Positions : status[p] = "terminal" => p \in settled
        /\ \A p \in Positions : status[p] = "running" =>
             Answered(p) /\ p > pub /\ p > laneRow[LaneOf(p)]
    BY <1>1 DEF Durable, RowsTrue, Dispatcher, Publishing
  <2>2. \A p \in settled : p > pub => p > mark
    BY <1>2 DEF Durable, SettledDown
  <2>3. \A p \in settled : Plain(p) /\ p > pub => status[p] = "terminal"
    BY <2>2 DEF Durable, RowsTrue
  <2>4. QED BY <1>1, <1>5, <2>1, <2>3 DEF RowsTrue
<1>9. PlainFirst'
  <2>1. \A p \in 1..Len(log) : p > pub => p > mark
    BY <1>2
  <2>2. QED BY <1>1, <1>5, <2>1 DEF Durable, PlainFirst
<1>10. Pinned'
  <2>1. ASSUME quarantine # 0
        PROVE  pub < quarantine
    <3>1. PICK l \in Lanes, p \in Positions : quarantine = p /\ ToRun(l, p)
      BY <1>1, <2>1 DEF Dispatcher, Stopped
    <3>2. QED BY <1>6, <3>1 DEF Positions
  <2>2. QED BY <1>1, <2>1 DEF Durable, Pinned
<1>11. MarkTrue'
  BY <1>1, <1>5 DEF Dispatcher, Publishing, MarkTrue
<1>12. QueueTrue'
  <2>1. \A p \in inflight : pub < p
    <3> TAKE p \in inflight
    <3>1. PICK l \in Lanes : \E i \in 1..Len(queues[l]) : queues[l][i].lo = p
      BY DEF Folded, Held
    <3>2. QED BY <1>1, <3>1 DEF QueuedAboveMark
  <2>2. QED BY <1>1, <1>3, <1>4, <1>5, <2>1 DEF Dispatcher, QueueTrue
<1>13. HighTrue'
  <2>1. /\ \A l \in Lanes : laneRow[l] <= mark => laneRow[l] <= pub
        /\ \A p \in 1..Frontier : p > pub => p > mark
    BY <1>2, FrontierType
  <2>2. QED BY <1>1, <1>3, <1>5, <2>1 DEF Dispatcher, HighTrue
<1>14. Accounted' /\ OpenTrue' /\ BegunTrue' /\ WorkTrue'
  BY <1>1, <1>3, <1>4, AccountedKept, OpenKept, BegunKept, WorkKept DEF Dispatcher
<1>15. Stopped' /\ Publishing'
  BY <1>1, <1>4, StoppedKept DEF Dispatcher, Holds, Publishing
<1>16. QED
  BY <1>7, <1>8, <1>9, <1>10, <1>11, <1>12, <1>13, <1>14, <1>15 DEF Durable, Dispatcher

\* The dispatcher forgets only what the mark has passed.
LEMMA ForgetKeeps ==
    ASSUME TypeOK, Ahead, Phases, Durable, Dispatcher, ForgetPassed
    PROVE  Durable' /\ Dispatcher'
<1>1. /\ up /\ rpc = "forget" /\ rpc' # "persist"
      /\ high' = [l \in Lanes |-> IF high[l] > pub THEN high[l] ELSE 0]
      /\ begun' = {p \in begun : p > pub}
      /\ UNCHANGED <<log, boundary, mark, status, laneRow, quarantine, settled, up, scanned,
                     seen, halted, wpc, wlane, work, queues, latest, inflight, blind>>
  BY DEF ForgetPassed, Forget, Reading, PassEnds
<1>2. /\ pub = mark /\ mark \in Nat /\ Frontier \in Nat /\ mark <= Frontier
      /\ \A l \in Lanes : laneRow[l] \in Nat /\ high[l] \in Nat
  BY <1>1, FrontierType DEF Phases, Ahead
<1>3. Frontier' = Frontier
  BY <1>1 DEF Frontier
<1>4. \A l, h : ToRun(l, h)' <=> ToRun(l, h)
  BY <1>1, SameQueues
<1>5. \A p : (Answered(p)' <=> Answered(p)) /\ LaneOf(p)' = LaneOf(p)
  BY <1>1, SameLog
<1>6. Durable'
  BY <1>1, DurableFrame
<1>7. HighTrue'
  <2>1. ASSUME NEW l \in Lanes
        PROVE  /\ high'[l] <= Frontier \/ high'[l] <= laneRow[l]
               /\ laneRow[l] <= high'[l] \/ laneRow[l] <= mark
    <3>1. /\ high[l] <= Frontier \/ high[l] <= laneRow[l]
          /\ laneRow[l] <= high[l] \/ laneRow[l] <= mark
      BY <1>1 DEF Dispatcher, HighTrue
    <3>2. QED BY <1>1, <1>2, <3>1
  <2>2. ASSUME NEW p \in 1..Frontier, Answered(p), p > mark
        PROVE  p <= high'[LaneOf(p)]
    <3>1. p <= high[LaneOf(p)]
      BY <1>1, <2>2 DEF Dispatcher, HighTrue
    <3>2. LaneOf(p) \in Lanes
      BY <2>2, EventTypes DEF Answered
    <3>3. QED BY <1>1, <1>2, <2>2, <3>1, <3>2
  <2>3. QED BY <1>1, <1>3, <1>5, <2>1, <2>2 DEF HighTrue
<1>8. QueueTrue' /\ Accounted' /\ OpenTrue' /\ WorkTrue'
  BY <1>1, <1>3, <1>4, QueueKept, AccountedKept, OpenKept, WorkKept DEF Dispatcher
<1>9. BegunTrue'
  <2>1. \A p \in Positions : p > Frontier => p > pub
    BY <1>2 DEF Positions
  <2>2. QED BY <1>1, <1>3, <1>4, <2>1 DEF Dispatcher, BegunTrue
<1>10. Stopped' /\ Publishing'
  <2>1. rpc # "stopped"
    BY <1>1
  <2>2. QED BY <1>1, <1>4, <2>1, StoppedKept DEF Dispatcher, Holds, Publishing
<1>11. QED
  BY <1>6, <1>7, <1>8, <1>9, <1>10 DEF Dispatcher

\* So does the sweep of the lane rows.
LEMMA RowsSwept ==
    ASSUME TypeOK, Ahead, Phases, Durable, Dispatcher,
           SweepRows \/ (DriverError /\ laneRow' # laneRow)
    PROVE  Durable' /\ Dispatcher'
<1>1. /\ up /\ rpc = "sweep" /\ rpc' \notin {"persist", "stopped"}
      /\ laneRow' = [l \in Lanes |-> IF laneRow[l] > pub THEN laneRow[l] ELSE 0]
      /\ UNCHANGED <<log, boundary, mark, status, quarantine, settled, up, scanned, seen,
                     halted, wpc, wlane, work, queues, latest, high, inflight, begun,
                     blind>>
  BY DEF SweepRows, DriverError, RowsAbove, Reading
<1>2. /\ pub = mark /\ mark \in Nat /\ Frontier \in Nat /\ mark <= Frontier
      /\ \A l \in Lanes : laneRow[l] \in Nat /\ high[l] \in Nat
      /\ Len(log) \in Nat
  BY <1>1, FrontierType DEF Phases, Ahead
<1>3. Frontier' = Frontier
  BY <1>1 DEF Frontier
<1>4. \A l, h : ToRun(l, h)' <=> ToRun(l, h)
  BY <1>1, SameQueues
<1>5. /\ \A p : (Answered(p)' <=> Answered(p)) /\ LaneOf(p)' = LaneOf(p)
                /\ (Plain(p)' <=> Plain(p))
      /\ \A p, q : /\ Subsumes(q, p)' <=> Subsumes(q, p)
                   /\ SameLane(p, q)' <=> SameLane(p, q)
  BY <1>1, SameLog
<1>6. \A l \in Lanes : laneRow'[l] = laneRow[l] \/ (laneRow'[l] = 0 /\ laneRow[l] <= mark)
  BY <1>1, <1>2
<1>7. SettledDown' /\ PlainFirst' /\ Pinned' /\ MarkTrue'
  BY <1>1, <1>5 DEF Durable, SettledDown, PlainFirst, Pinned, MarkTrue
<1>8. RowsTrue'
  <2>1. ASSUME NEW p \in Positions, status[p] = "running"
        PROVE  p > laneRow'[LaneOf(p)]
    <3>1. Answered(p) /\ p > laneRow[LaneOf(p)]
      BY <2>1 DEF Durable, RowsTrue
    <3>2. LaneOf(p) \in Lanes /\ p \in Nat /\ p > 0
      BY <1>2, <3>1, EventTypes DEF Answered
    <3>3. QED BY <1>6, <3>1, <3>2
  <2>2. QED BY <1>1, <1>5, <2>1 DEF Durable, RowsTrue
<1>9. LaneRowsTrue'
  <2>1. ASSUME NEW l \in Lanes, NEW p \in 1..Len(log), p <= laneRow'[l]
        PROVE  laneRow'[l] = laneRow[l]
    BY <1>2, <1>6, <2>1
  <2>2. \A l \in Lanes : laneRow'[l] <= Len(log)
    BY <1>2, <1>6 DEF Durable, LaneRowsTrue
  <2>3. ASSUME NEW l \in Lanes, NEW p \in 1..Len(log), p <= laneRow'[l], Answered(p),
               LaneOf(p) = l
        PROVE  p \in settled \/ \E q \in 1..Len(log) : laneRow'[l] < q /\ Subsumes(q, p)
    BY <2>1, <2>3 DEF Durable, LaneRowsTrue
  <2>4. QED BY <1>1, <1>5, <2>2, <2>3 DEF LaneRowsTrue
<1>10. HighTrue'
  <2>1. ASSUME NEW l \in Lanes
        PROVE  /\ high[l] <= Frontier \/ high[l] <= laneRow'[l]
               /\ laneRow'[l] <= high[l] \/ laneRow'[l] <= mark
    <3>1. /\ high[l] <= Frontier \/ high[l] <= laneRow[l]
          /\ laneRow[l] <= high[l] \/ laneRow[l] <= mark
      BY <1>1 DEF Dispatcher, HighTrue
    <3>2. QED BY <1>2, <1>6, <3>1
  <2>2. QED BY <1>1, <1>3, <1>5, <2>1 DEF Dispatcher, HighTrue
<1>11. QueueTrue'
  <2>1. \A l \in Lanes : laneRow'[l] \in {laneRow[l], 0}
    BY <1>6
  <2>2. QED BY <1>1, <1>3, <1>4, <2>1, QueueKept DEF Dispatcher
<1>12. Accounted' /\ OpenTrue' /\ BegunTrue' /\ WorkTrue'
  BY <1>1, <1>3, <1>4, AccountedKept, OpenKept, BegunKept, WorkKept DEF Dispatcher
<1>13. Stopped' /\ Publishing'
  BY <1>1, <1>4, StoppedKept DEF Dispatcher, Holds, Publishing
<1>14. QED
  BY <1>7, <1>8, <1>9, <1>10, <1>11, <1>12, <1>13 DEF Durable, Dispatcher

-----------------------------------------------------------------------------
(* Admission.                                                              *)

\* What LaneState::admit changes of what there is to run: p is added, and the open
\* group o of its arm leaves for it if p folds; 0 stands for no such group.
Replaces(l, a, p, o) ==
    /\ \A m \in Lanes : \A h \in Nat : ToRun(m, h)' => ToRun(m, h) \/ (m = l /\ h = p)
    /\ \A m \in Lanes : \A h \in Nat \ {0} :
         ToRun(m, h) => ToRun(m, h)' \/ (m = l /\ h = o)
    /\ ToRun(l, p)'
    /\ o # 0 => latest[l][a] = o /\ Collapsible(a, l)
    /\ \A m \in Lanes : \A b \in Arms :
         \/ latest'[m][b] = latest[m][b] /\ ~(m = l /\ b = a /\ o # 0)
         \/ latest'[m][b] = 0
         \/ /\ m = l /\ b = a /\ latest'[m][b] = p
            /\ p \notin begun /\ ~blind /\ Collapsible(a, l)
    /\ inflight' \subseteq inflight \cup {p}
    /\ high'[l] = p /\ \A m \in Lanes : m # l => high'[m] = high[m]

\* A group of its own is put behind the others.
LEMMA EnqueuedRuns ==
    ASSUME TypeOK, NEW l \in Lanes, NEW p \in Nat \ {0}, NEW a \in Arms, Enqueue(l, p, a)
    PROVE  /\ \A m \in Lanes : \A h \in Nat :
                ToRun(m, h)' => ToRun(m, h) \/ (m = l /\ h = p)
           /\ \A m \in Lanes : \A h \in Nat : ToRun(m, h) => ToRun(m, h)'
           /\ ToRun(l, p)'
           /\ inflight' \subseteq inflight \cup {p}
<1> DEFINE n == Len(queues[l])
<1>1. /\ Len(queues'[l]) = n + 1 /\ n \in Nat
      /\ \A j \in 1..n : queues'[l][j] = queues[l][j]
      /\ queues'[l][n + 1] = [lo |-> p, hi |-> p, arm |-> a]
      /\ \A m \in Lanes : m # l => queues'[m] = queues[m]
      /\ inflight' = inflight \cup {p}
  BY EnqueuedQueue, QueueType
<1>2. \A m \in Lanes : \A h \in Nat : m # l => (ToRun(m, h)' <=> ToRun(m, h))
  BY <1>1 DEF ToRun
<1> HIDE DEF n
<1>3. queues'[l][n + 1].hi = p /\ n + 1 \in 1..(n + 1)
  BY <1>1
<1>4. \A j \in 1..(n + 1) : j \in 1..n \/ j = n + 1
  BY <1>1
<1>5. \A j \in 1..n : j \in 1..(n + 1)
  BY <1>1
<1>6. \A h \in Nat : ToRun(l, h)' <=> \E j \in 1..(n + 1) : queues'[l][j].hi = h
  BY <1>1 DEF ToRun
<1>7. \A h \in Nat : ToRun(l, h) <=> \E j \in 1..n : queues[l][j].hi = h
  BY DEF ToRun, n
<1>8. \A h \in Nat : ToRun(l, h)' => ToRun(l, h) \/ h = p
  BY <1>1, <1>3, <1>4, <1>6, <1>7
<1>9. \A h \in Nat : ToRun(l, h) => ToRun(l, h)'
  BY <1>1, <1>5, <1>6, <1>7
<1>10. ToRun(l, p)'
  BY <1>3, <1>6
<1>11. QED BY <1>1, <1>2, <1>8, <1>9, <1>10

\* A takeover leaves all but the group it takes over.
LEMMA SupersededRuns ==
    ASSUME TypeOK, NEW l \in Lanes, NEW p \in Nat \ {0}, NEW a \in Arms,
           NEW i \in OpenAt(l, a), Supersede(l, p, a, i)
    PROVE  /\ \A m \in Lanes : \A h \in Nat :
                ToRun(m, h)' => ToRun(m, h) \/ (m = l /\ h = p)
           /\ \A m \in Lanes : \A h \in Nat :
                ToRun(m, h) => ToRun(m, h)' \/ (m = l /\ h = latest[l][a])
           /\ ToRun(l, p)'
           /\ inflight' = inflight
<1> DEFINE n == Len(queues[l])
           k(j) == IF j < i THEN j ELSE j + 1
<1>1. /\ Len(queues'[l]) = n /\ n \in Nat /\ i \in 1..n
      /\ \A j \in 1..(n - 1) : queues'[l][j] = queues[l][k(j)]
      /\ queues'[l][n] = [lo |-> queues[l][i].lo, hi |-> p, arm |-> a]
      /\ queues[l][i].hi = latest[l][a]
      /\ \A m \in Lanes : m # l => queues'[m] = queues[m]
      /\ inflight' = inflight
  <2>1. p \in Nat /\ n \in Nat
    BY QueueType
  <2>2. QED BY <2>1, SupersededQueue
<1>2. \A m \in Lanes : \A h \in Nat : m # l => (ToRun(m, h)' <=> ToRun(m, h))
  BY <1>1 DEF ToRun
<1>3. \A j \in 1..(n - 1) : k(j) \in 1..n /\ j \in 1..n
  BY <1>1
<1>4. \A j \in 1..n : j # i => \E h \in 1..(n - 1) : k(h) = j
  <2> TAKE j \in 1..n
  <2> HAVE j # i
  <2>1. CASE j < i
    BY <1>1, <2>1
  <2>2. CASE ~(j < i)
    <3>1. j - 1 \in 1..(n - 1) /\ k(j - 1) = j
      BY <1>1, <2>2
    <3>2. QED BY <3>1
  <2>3. QED BY <2>1, <2>2
<1>5. \A j \in 1..n : j \in 1..(n - 1) \/ j = n
  BY <1>1
<1>6. n \in 1..n
  BY <1>1
<1> HIDE DEF n, k
<1>7. queues'[l][n].hi = p
  BY <1>1
<1>8. \A h \in Nat : ToRun(l, h)' <=> \E j \in 1..n : queues'[l][j].hi = h
  BY <1>1 DEF ToRun
<1>9. \A h \in Nat : ToRun(l, h) <=> \E j \in 1..n : queues[l][j].hi = h
  BY DEF ToRun, n
<1>10. ASSUME NEW h \in Nat, ToRun(l, h)' PROVE ToRun(l, h) \/ h = p
  <2>1. PICK j \in 1..n : queues'[l][j].hi = h
    BY <1>8, <1>10
  <2>2. CASE j \in 1..(n - 1)
    <3>1. queues[l][k(j)].hi = h /\ k(j) \in 1..n
      BY <1>1, <1>3, <2>1, <2>2
    <3>2. QED BY <1>9, <3>1
  <2>3. QED BY <1>5, <1>7, <2>1, <2>2
<1>11. ASSUME NEW h \in Nat, ToRun(l, h) PROVE ToRun(l, h)' \/ h = latest[l][a]
  <2>1. PICK j \in 1..n : queues[l][j].hi = h
    BY <1>9, <1>11
  <2>2. CASE j # i
    <3>1. PICK g \in 1..(n - 1) : k(g) = j
      BY <1>4, <2>2
    <3>2. g \in 1..n /\ queues'[l][g].hi = h
      BY <1>1, <1>3, <2>1, <3>1
    <3>3. QED BY <1>8, <3>2
  <2>3. QED BY <1>1, <2>1, <2>2
<1>12. ToRun(l, p)'
  BY <1>6, <1>7, <1>8
<1>13. QED BY <1>1, <1>2, <1>10, <1>11, <1>12

\* LaneState::admit above the high-water of the lane.
LEMMA AdmittedRuns ==
    ASSUME TypeOK, NEW l \in Lanes, NEW p \in Nat \ {0}, NEW a \in Arms,
           ~(high[l] >= p), Admit(l, p, a, Collapsible(a, l))
    PROVE  \E o \in Nat : Replaces(l, a, p, o)
<1> DEFINE folds == Collapsible(a, l) /\ ~blind
<1>1. /\ high' = [high EXCEPT ![l] = p]
      /\ \/ \E i \in OpenAt(l, a) :
              folds /\ latest[l][a] # 0 /\ Supersede(l, p, a, i)
         \/ /\ ~folds \/ latest[l][a] = 0 \/ OpenAt(l, a) = {}
            /\ Enqueue(l, p, a)
      /\ latest' = IF folds
                     THEN [latest EXCEPT ![l][a] = IF p \in begun THEN 0 ELSE p]
                     ELSE latest
  BY DEF Admit
<1>2. /\ latest \in [Lanes -> [Arms -> Nat]] /\ high \in [Lanes -> Nat]
  BY DEF TypeOK, LaneTypeOK
<1>3. high'[l] = p /\ \A m \in Lanes : m # l => high'[m] = high[m]
  BY <1>1, <1>2
<1>4. \A m \in Lanes : \A b \in Arms :
        \/ latest'[m][b] = latest[m][b] /\ ~(m = l /\ b = a /\ folds)
        \/ latest'[m][b] = 0
        \/ m = l /\ b = a /\ latest'[m][b] = p /\ p \notin begun /\ folds
  <2>1. CASE folds
    <3>1. latest' = [latest EXCEPT ![l][a] = IF p \in begun THEN 0 ELSE p]
      BY <1>1, <2>1
    <3>2. \A m \in Lanes : \A b \in Arms :
            latest'[m][b] = IF m = l /\ b = a THEN (IF p \in begun THEN 0 ELSE p)
                                              ELSE latest[m][b]
      BY <1>2, <3>1
    <3>3. QED BY <2>1, <3>2
  <2>2. CASE ~folds
    BY <1>1, <2>2
  <2>3. QED BY <2>1, <2>2
<1>5. CASE \E i \in OpenAt(l, a) : folds /\ latest[l][a] # 0 /\ Supersede(l, p, a, i)
  <2>1. PICK i \in OpenAt(l, a) : folds /\ latest[l][a] # 0 /\ Supersede(l, p, a, i)
    BY <1>5
  <2>2. latest[l][a] \in Nat
    BY <1>2
  <2>3. /\ \A m \in Lanes : \A h \in Nat :
             ToRun(m, h)' => ToRun(m, h) \/ (m = l /\ h = p)
        /\ \A m \in Lanes : \A h \in Nat :
             ToRun(m, h) => ToRun(m, h)' \/ (m = l /\ h = latest[l][a])
        /\ ToRun(l, p)' /\ inflight' = inflight
    BY <2>1, SupersededRuns
  <2>4. Replaces(l, a, p, latest[l][a])
    BY <1>3, <1>4, <2>1, <2>3 DEF Replaces
  <2>5. QED BY <2>2, <2>4
<1>6. CASE Enqueue(l, p, a)
  <2>1. /\ \A m \in Lanes : \A h \in Nat :
             ToRun(m, h)' => ToRun(m, h) \/ (m = l /\ h = p)
        /\ \A m \in Lanes : \A h \in Nat : ToRun(m, h) => ToRun(m, h)'
        /\ ToRun(l, p)' /\ inflight' \subseteq inflight \cup {p}
    BY <1>6, EnqueuedRuns
  <2>2. Replaces(l, a, p, 0)
    BY <1>3, <1>4, <2>1 DEF Replaces
  <2>3. QED BY <2>2
<1>7. QED BY <1>1, <1>5, <1>6

\* The frontier is where the reader is once it has gone past what it considered before.
LEMMA AdmitReach ==
    ASSUME TypeOK, Ahead, AdmitNext, NEW p, p = seen + 1
    PROVE  /\ p \in 1..Len(log) /\ p \in Nat \ {0} /\ mark < p
           /\ Frontier \in Nat /\ Len(log) \in Nat /\ Frontier <= Len(log)
           /\ p <= Frontier => Frontier' = Frontier
           /\ ~(p <= Frontier) => p = Frontier + 1 /\ Frontier' = p
           /\ up /\ rpc = "admit" /\ rpc' \notin {"persist", "stopped"}
           /\ UNCHANGED <<log, boundary, mark, status, laneRow, quarantine, settled, up,
                          halted, wpc, wlane, work, begun, blind, pub>>
           /\ IF Answered(p)
                THEN Admit(LaneOf(p), p, ArmOf(p), Collapsible(ArmOf(p), LaneOf(p)))
                ELSE UNCHANGED queueVars
<1>1. /\ up /\ rpc = "admit" /\ seen' = p /\ cursor' = cursor
      /\ \/ p = cursor /\ scanned' = Greater(scanned, cursor) /\ rpc' = "mark"
         \/ UNCHANGED <<scanned, rpc>>
  BY DEF AdmitNext, Reading, SetScanned
<1>2. UNCHANGED <<log, boundary, mark, status, laneRow, quarantine, settled, up,
                  halted, wpc, wlane, work, begun, blind, pub>>
  BY DEF AdmitNext
<1>3. IF Answered(p)
        THEN Admit(LaneOf(p), p, ArmOf(p), Collapsible(ArmOf(p), LaneOf(p)))
        ELSE UNCHANGED queueVars
  BY DEF AdmitNext
<1>4. /\ seen \in Nat /\ scanned \in Nat /\ cursor \in Nat /\ mark \in Nat
      /\ Frontier \in 0..Len(log) /\ Len(log) \in Nat
      /\ cursor <= Len(log) /\ seen < cursor /\ mark <= seen
  BY <1>1, FrontierType DEF Ahead, TypeOK, ReaderTypeOK
<1>5. p \in 1..Len(log) /\ p \in Nat \ {0} /\ mark < p
  BY <1>4
<1>6. Frontier' = Greater(Frontier, p)
  BY <1>1, <1>4 DEF Frontier, Greater
<1>7. ~(p <= Frontier) => p = Frontier + 1
  BY <1>4 DEF Frontier, Greater
<1>8. (p <= Frontier => Frontier' = Frontier) /\ (~(p <= Frontier) => Frontier' = p)
  BY <1>4, <1>6 DEF Greater
<1>9. QED BY <1>1, <1>2, <1>3, <1>4, <1>5, <1>7, <1>8

\* A position that is not queued: the effect does not answer it, or its lane is past
\* it, because it was considered before or because of the lane's row.
LEMMA DroppedKeeps ==
    ASSUME TypeOK, Ahead, Durable, Dispatcher, AdmitNext,
           NEW p, p = seen + 1, UNCHANGED queueVars,
           Answered(p) => high[LaneOf(p)] >= p
    PROVE  Durable' /\ Dispatcher'
<1>1. /\ p \in 1..Len(log) /\ p \in Nat \ {0} /\ mark < p
      /\ Frontier \in Nat /\ Len(log) \in Nat
      /\ p <= Frontier => Frontier' = Frontier
      /\ ~(p <= Frontier) => p = Frontier + 1 /\ Frontier' = p
      /\ up /\ rpc = "admit" /\ rpc' \notin {"persist", "stopped"}
      /\ UNCHANGED <<log, boundary, mark, status, laneRow, quarantine, settled, up,
                     halted, wpc, wlane, work, begun, blind, pub>>
  BY AdmitReach
<1>2. CASE p <= Frontier
  <2>1. Quiet /\ Frontier' = Frontier
    BY <1>1, <1>2 DEF Quiet
  <2>2. QED BY <2>1, QuietKeeps
<1>3. CASE ~(p <= Frontier)
  <2>1. p = Frontier + 1 /\ Frontier' = p
    BY <1>1, <1>3
  <2>2. /\ \A q : (Answered(q)' <=> Answered(q)) /\ LaneOf(q)' = LaneOf(q)
        /\ \A q, r : Subsumes(r, q)' <=> Subsumes(r, q)
    BY <1>1, SameLog
  <2>3. \A l, h : ToRun(l, h)' <=> ToRun(l, h)
    BY SameQueues
  <2>4. \A q \in Nat : /\ q <= p => q <= Frontier \/ q = p
                       /\ q <= Frontier => q <= p
                       /\ q > Frontier => q > p \/ q = p
                       /\ q > p => q > Frontier
    BY <1>1, <2>1
  <2>5. 1..Frontier \subseteq 1..p /\ 1..p \subseteq Nat
    BY <1>1, <2>1
  <2>6. Answered(p) =>
          LaneOf(p) \in Lanes /\ laneRow[LaneOf(p)] \in Nat /\ p <= laneRow[LaneOf(p)]
    <3>1. ASSUME Answered(p)
          PROVE  LaneOf(p) \in Lanes /\ laneRow[LaneOf(p)] \in Nat /\ p <= laneRow[LaneOf(p)]
      <4>1. LaneOf(p) \in Lanes
        BY <1>1, EventTypes
      <4>2. high[LaneOf(p)] \in Nat /\ laneRow[LaneOf(p)] \in Nat
        BY <4>1, FrontierType
      <4>3. high[LaneOf(p)] <= Frontier \/ high[LaneOf(p)] <= laneRow[LaneOf(p)]
        BY <1>1, <4>1 DEF Dispatcher, HighTrue
      <4>4. QED BY <1>1, <1>3, <3>1, <4>1, <4>2, <4>3
    <3>2. QED BY <3>1
  <2>7. Answered(p) => p \in settled \/ \E q \in 1..Len(log) : q > p /\ Subsumes(q, p)
    <3>1. ASSUME Answered(p)
          PROVE  p \in settled \/ \E q \in 1..Len(log) : laneRow[LaneOf(p)] < q /\ Subsumes(q, p)
      BY <1>1, <2>6, <3>1 DEF Durable, LaneRowsTrue
    <3>2. QED BY <3>1 DEF Subsumes
  <2>8. Durable'
    BY <1>1, DurableFrame
  <2>9. QueueTrue'
    BY <1>1, <2>1, <2>2, <2>3, <2>5 DEF Dispatcher, QueueTrue
  <2>10. HighTrue'
    <3>1. ASSUME NEW l \in Lanes
          PROVE  /\ high[l] <= p \/ high[l] <= laneRow[l]
                 /\ laneRow[l] <= high[l] \/ laneRow[l] <= mark
      <4>1. high[l] \in Nat
        BY FrontierType
      <4>2. QED BY <1>1, <2>4, <4>1 DEF Dispatcher, HighTrue
    <3>2. ASSUME NEW q \in 1..p, Answered(q), q > mark
          PROVE  q <= high[LaneOf(q)]
      <4>1. CASE q = p
        <5>1. LaneOf(p) \in Lanes /\ high[LaneOf(p)] \in Nat
          BY <2>6, <3>2, <4>1, FrontierType
        <5>2. QED BY <1>1, <3>2, <4>1, <5>1
      <4>2. CASE q # p
        <5>1. q \in 1..Frontier
          BY <1>1, <2>1, <4>2
        <5>2. QED BY <1>1, <3>2, <5>1 DEF Dispatcher, HighTrue
      <4>3. QED BY <4>1, <4>2
    <3>3. QED BY <1>1, <2>1, <2>2, <3>1, <3>2 DEF HighTrue
  <2>11. Accounted'
    <3>1. ASSUME NEW r \in 1..Len(log), r <= p, Answered(r)
          PROVE  \/ r \in settled
                 \/ Pending(r)
                 \/ \E q \in 1..Len(log) : q > p /\ Subsumes(q, r)
      <4>1. CASE r = p
        BY <2>7, <3>1, <4>1
      <4>2. CASE r # p
        <5>1. \/ r \in settled
              \/ Pending(r)
              \/ \E q \in 1..Len(log) : q > Frontier /\ Subsumes(q, r)
          BY <1>1, <2>4, <3>1, <4>2 DEF Dispatcher, Accounted
        <5>2. CASE \E q \in 1..Len(log) : q > Frontier /\ Subsumes(q, r)
          <6>1. PICK q \in 1..Len(log) : q > Frontier /\ Subsumes(q, r)
            BY <5>2
          <6>2. CASE q = p
            <7>1. Answered(p)
              BY <3>1, <6>1, <6>2, SubsumerAnswered
            <7>2. CASE p \in settled
              BY <3>1, <6>1, <6>2, <7>2 DEF Durable, SettledDown
            <7>3. CASE \E s \in 1..Len(log) : s > p /\ Subsumes(s, p)
              BY <6>1, <6>2, <7>3, SubsumesAgain
            <7>4. QED BY <2>7, <7>1, <7>2, <7>3
          <6>3. QED BY <2>4, <6>1, <6>2
        <5>3. QED BY <5>1, <5>2
      <4>3. QED BY <4>1, <4>2
    <3>2. \A r : Pending(r) => Pending(r)'
      BY <1>1, <2>2, <2>3 DEF Pending
    <3>3. QED BY <1>1, <2>1, <2>2, <3>1, <3>2 DEF Accounted
  <2>12. OpenTrue'
    <3>1. \A l \in Lanes : \A a \in Arms : latest'[l][a] \in {latest[l][a], 0}
      OBVIOUS
    <3>2. QED BY <1>1, <2>3, <3>1, OpenKept DEF Dispatcher
  <2>13. BegunTrue'
    <3>1. \A q \in Positions : q > p => q > Frontier
      BY <2>4 DEF Positions
    <3>2. ASSUME NEW q \in Positions, status[q] = "running", q <= p
          PROVE  \E l \in Lanes : ToRun(l, q)
      <4>1. CASE q = p
        <5>1. Answered(p) /\ p > laneRow[LaneOf(p)]
          BY <3>2, <4>1 DEF Durable, RowsTrue
        <5>2. QED BY <1>1, <2>6, <5>1
      <4>2. CASE q # p
        BY <1>1, <2>4, <3>2, <4>2 DEF Dispatcher, BegunTrue, Positions
      <4>3. QED BY <4>1, <4>2
    <3>3. QED BY <1>1, <2>1, <2>3, <3>1, <3>2 DEF Dispatcher, BegunTrue
  <2>14. WorkTrue'
    <3>1. ASSUME NEW w \in Workers, NEW l \in Lanes, NEW q \in Nat,
                 wlane[w] = l, work[w].position = q
          PROVE  /\ wpc[w] \in {"run", "skip"} => status[q] = "running"
                 /\ wpc[w] \in {"verify", "retire"} => q \in settled /\ status[q] = "terminal"
                 /\ wpc[w] = "row" =>
                      /\ q \in 1..Frontier /\ Answered(q) /\ LaneOf(q) = l
                      /\ \A h \in Nat : ToRun(l, h) => q < h
      BY <3>1, Zenon DEF Dispatcher, WorkTrue, HandTrue
    <3>2. QED BY <1>1, <2>1, <2>2, <2>3, <2>5, <3>1 DEF WorkTrue, HandTrue
  <2>15. Stopped' /\ Publishing'
    BY <1>1, <2>3, StoppedKept DEF Dispatcher, Holds, Publishing
  <2>16. QED
    BY <2>8, <2>9, <2>10, <2>11, <2>12, <2>13, <2>14, <2>15 DEF Dispatcher
<1>4. QED BY <1>2, <1>3

\* A position that is queued: it is the first beyond the frontier, what it takes over
\* it also makes redundant, and no process has begun what it leaves open.
LEMMA AdmittedKeeps ==
    ASSUME TypeOK, Ahead, Phases, Durable, Dispatcher, AdmitNext,
           NEW p, p = seen + 1, Answered(p),
           NEW l \in Lanes, LaneOf(p) = l, NEW a \in Arms, ArmOf(p) = a,
           ~(high[l] >= p)
    PROVE  Durable' /\ Dispatcher'
<1>1. /\ p \in 1..Len(log) /\ p \in Nat \ {0} /\ mark < p
      /\ Frontier \in Nat /\ Len(log) \in Nat /\ Frontier <= Len(log)
      /\ ~(p <= Frontier) => p = Frontier + 1 /\ Frontier' = p
      /\ up /\ rpc = "admit" /\ rpc' \notin {"persist", "stopped"}
      /\ UNCHANGED <<log, boundary, mark, status, laneRow, quarantine, settled, up,
                     halted, wpc, wlane, work, begun, blind, pub>>
  BY AdmitReach
<1>2. Admit(l, p, a, Collapsible(a, l))
  BY AdmitReach
<1>3. PICK o \in Nat : Replaces(l, a, p, o)
  BY <1>1, <1>2, AdmittedRuns
<1>4. high[l] \in Nat /\ laneRow[l] \in Nat /\ mark \in Nat
  BY FrontierType
<1>5. p = Frontier + 1 /\ Frontier' = p
  <2>1. ~(p <= Frontier)
    <3>1. ASSUME p <= Frontier PROVE FALSE
      <4>1. p \in 1..Frontier
        BY <1>1, <3>1
      <4>2. p <= high[l]
        BY <1>1, <4>1 DEF Dispatcher, HighTrue
      <4>3. QED BY <1>1, <1>4, <4>2
    <3>2. QED BY <3>1
  <2>2. QED BY <1>1, <2>1
<1>6. laneRow[l] < p
  <2>1. laneRow[l] <= high[l] \/ laneRow[l] <= mark
    BY <1>1 DEF Dispatcher, HighTrue
  <2>2. QED BY <1>1, <1>4, <2>1
<1>7. /\ \A q : /\ Answered(q)' <=> Answered(q)
                /\ LaneOf(q)' = LaneOf(q) /\ ArmOf(q)' = ArmOf(q)
      /\ \A q, r : Subsumes(r, q)' <=> Subsumes(r, q)
  BY <1>1, SameLog
<1>8. \A m \in Lanes : \A h \in Nat : ToRun(m, h) =>
        h \in 1..Frontier /\ Answered(h) /\ LaneOf(h) = m /\ laneRow[m] < h
  BY <1>1 DEF Dispatcher, QueueTrue
<1>9. \A q \in Nat : /\ q <= p => q <= Frontier \/ q = p
                     /\ q <= Frontier => q <= p /\ q # p /\ q < p
                     /\ q > Frontier => q > p \/ q = p
                     /\ q > p => q > Frontier
  BY <1>1, <1>5
<1>10. 1..Frontier \subseteq 1..p /\ p \in 1..p /\ 1..p \subseteq Nat
  BY <1>1, <1>5
\* The group that leaves.
<1>11. ASSUME o # 0
       PROVE  /\ latest[l][a] = o /\ ToRun(l, o) /\ status[o] = "none"
              /\ o \in 1..Frontier /\ Subsumes(p, o)
  <2>1. latest[l][a] = o /\ Collapsible(a, l)
    BY <1>3, <1>11 DEF Replaces
  <2>2. ToRun(l, o) /\ ArmOf(o) = a /\ status[o] = "none"
    BY <1>1, <1>11, <2>1 DEF Dispatcher, OpenTrue
  <2>3. o \in 1..Frontier /\ LaneOf(o) = l
    BY <1>8, <2>2
  <2>4. Subsumes(p, o)
    BY <1>9, <1>10, <2>1, <2>2, <2>3 DEF Subsumes
  <2>5. QED BY <2>1, <2>2, <2>3, <2>4
<1>12. \A m \in Lanes : \A h \in Nat : ToRun(m, h) => ToRun(m, h)' \/ (o # 0 /\ m = l /\ h = o)
  BY <1>3, <1>8 DEF Replaces
<1>13. \A m \in Lanes : \A h \in Nat : ToRun(m, h)' => ToRun(m, h) \/ (m = l /\ h = p)
  BY <1>3 DEF Replaces
<1>14. ToRun(l, p)' /\ inflight' \subseteq inflight \cup {p}
  BY <1>3 DEF Replaces
<1>15. Durable'
  BY <1>1, DurableFrame
<1>16. QueueTrue'
  <2>1. ASSUME NEW m \in Lanes, NEW h \in Nat, ToRun(m, h)'
        PROVE  h \in 1..p /\ Answered(h) /\ LaneOf(h) = m /\ laneRow[m] < h
    BY <1>6, <1>8, <1>10, <1>13, <2>1
  <2>2. \A q \in inflight' : mark < q
    BY <1>1, <1>14 DEF Dispatcher, QueueTrue
  <2>3. QED BY <1>1, <1>5, <1>7, <2>1, <2>2 DEF QueueTrue
<1>17. HighTrue'
  <2>1. high'[l] = p /\ \A m \in Lanes : m # l => high'[m] = high[m]
    BY <1>3 DEF Replaces
  <2>2. ASSUME NEW m \in Lanes
        PROVE  /\ high'[m] <= p \/ high'[m] <= laneRow[m]
               /\ laneRow[m] <= high'[m] \/ laneRow[m] <= mark
    <3>1. CASE m = l
      BY <1>1, <1>4, <1>6, <2>1, <3>1
    <3>2. CASE m # l
      <4>1. high[m] \in Nat
        BY FrontierType
      <4>2. QED BY <1>1, <1>9, <2>1, <3>2, <4>1 DEF Dispatcher, HighTrue
    <3>3. QED BY <3>1, <3>2
  <2>3. ASSUME NEW q \in 1..p, Answered(q), q > mark
        PROVE  q <= high'[LaneOf(q)]
    <3>1. CASE LaneOf(q) = l
      BY <1>1, <2>1, <2>3, <3>1
    <3>2. CASE LaneOf(q) # l
      <4>1. q \in 1..Frontier /\ q \in 1..Len(log)
        BY <1>1, <1>5, <3>2
      <4>2. LaneOf(q) \in Lanes
        BY <4>1, EventTypes
      <4>3. q <= high[LaneOf(q)]
        BY <1>1, <2>3, <4>1 DEF Dispatcher, HighTrue
      <4>4. QED BY <2>1, <3>2, <4>2, <4>3
    <3>3. QED BY <3>1, <3>2
  <2>4. QED BY <1>1, <1>5, <1>7, <2>2, <2>3 DEF HighTrue
<1>18. Accounted'
  <2>1. \A r : Answered(r) /\ (r = p \/ Subsumes(p, r)) => Pending(r)'
    BY <1>1, <1>7, <1>14 DEF Pending
  <2>2. ASSUME NEW r \in 1..Len(log), r <= p, Answered(r)
        PROVE  \/ r \in settled
               \/ Pending(r)'
               \/ \E q \in 1..Len(log) : q > p /\ Subsumes(q, r)
    <3>1. CASE r = p
      BY <2>1, <2>2, <3>1
    <3>2. CASE r # p
      <4>1. \/ r \in settled
            \/ Pending(r)
            \/ \E q \in 1..Len(log) : q > Frontier /\ Subsumes(q, r)
        BY <1>1, <1>9, <2>2, <3>2 DEF Dispatcher, Accounted
      <4>2. CASE Pending(r)
        <5>1. PICK m \in Lanes, h \in 1..Len(log) : ToRun(m, h) /\ (h = r \/ Subsumes(h, r))
          BY <4>2 DEF Pending
        <5>2. CASE ToRun(m, h)'
          BY <1>1, <1>7, <5>1, <5>2 DEF Pending
        <5>3. CASE o # 0 /\ m = l /\ h = o
          <6>1. Subsumes(p, o) /\ o \in Nat
            BY <1>11, <5>3
          <6>2. r = o \/ Subsumes(o, r)
            BY <5>1, <5>3
          <6>3. Subsumes(p, r)
            BY <1>1, <6>1, <6>2, SubsumesAgain
          <6>4. QED BY <2>1, <2>2, <6>3
        <5>4. h \in Nat
          BY <5>1
        <5>5. QED BY <1>12, <5>1, <5>2, <5>3, <5>4
      <4>3. CASE \E q \in 1..Len(log) : q > Frontier /\ Subsumes(q, r)
        <5>1. PICK q \in 1..Len(log) : q > Frontier /\ Subsumes(q, r)
          BY <4>3
        <5>2. q > p \/ q = p
          BY <1>9, <5>1
        <5>3. QED BY <2>1, <2>2, <5>1, <5>2
      <4>4. QED BY <4>1, <4>2, <4>3
    <3>3. QED BY <3>1, <3>2
  <2>3. QED BY <1>1, <1>5, <1>7, <2>2 DEF Accounted
<1>19. OpenTrue'
  <2>1. SUFFICES ASSUME NEW m \in Lanes, NEW b \in Arms, NEW g \in Nat \ {0},
                        latest'[m][b] = g
                 PROVE  ToRun(m, g)' /\ ArmOf(g) = b /\ status[g] = "none"
    BY <1>1, <1>7 DEF OpenTrue
  <2>2. CASE latest'[m][b] = latest[m][b] /\ ~(m = l /\ b = a /\ o # 0)
    <3>1. ToRun(m, g) /\ ArmOf(g) = b /\ status[g] = "none"
      BY <1>1, <2>1, <2>2 DEF Dispatcher, OpenTrue
    <3>2. ~(o # 0 /\ m = l /\ g = o)
      <4>1. ASSUME o # 0, m = l, g = o PROVE FALSE
        <5>1. ArmOf(o) = a
          BY <1>1, <1>11, <4>1 DEF Dispatcher, OpenTrue
        <5>2. QED BY <2>2, <3>1, <4>1, <5>1
      <4>2. QED BY <4>1
    <3>3. QED BY <1>12, <3>1, <3>2
  <2>3. CASE /\ m = l /\ b = a /\ latest'[m][b] = p
             /\ p \notin begun /\ ~blind /\ Collapsible(a, l)
    <3>1. Delivery[a] = "latest" /\ p \in Positions /\ p > Frontier
      <4>1. Len(log) <= MaxLog /\ MaxLog \in Nat
        BY SizesAssumption DEF Phases
      <4>2. QED BY <1>1, <1>5, <2>3, <4>1 DEF Collapsible, Positions
    <3>2. status[p] = "none"
      BY <1>1, <2>3, <3>1 DEF Dispatcher, BegunTrue
    <3>3. QED BY <1>14, <2>1, <2>3, <3>2
  <2>4. QED
    <3>1. \/ latest'[m][b] = latest[m][b] /\ ~(m = l /\ b = a /\ o # 0)
          \/ latest'[m][b] = 0
          \/ /\ m = l /\ b = a /\ latest'[m][b] = p
             /\ p \notin begun /\ ~blind /\ Collapsible(a, l)
      BY <1>3 DEF Replaces
    <3>2. QED BY <2>1, <2>2, <2>3, <3>1
<1>20. BegunTrue'
  <2>1. \A q \in Positions : q \in Nat
    BY DEF Positions
  <2>2. ASSUME NEW q \in Positions, status[q] = "running", q <= p
        PROVE  \E m \in Lanes : ToRun(m, q)'
    <3>1. CASE q = p
      BY <1>14, <3>1
    <3>2. CASE q # p
      <4>1. PICK m \in Lanes : ToRun(m, q)
        BY <1>1, <1>9, <2>1, <2>2, <3>2 DEF Dispatcher, BegunTrue
      <4>2. QED BY <1>11, <1>12, <2>1, <2>2, <4>1
    <3>3. QED BY <3>1, <3>2
  <2>3. QED BY <1>1, <1>5, <1>9, <2>1, <2>2 DEF Dispatcher, BegunTrue
<1>21. WorkTrue'
  <2>1. ASSUME NEW w \in Workers, NEW m \in Lanes, NEW q \in Nat,
               wlane[w] = m, work[w].position = q
        PROVE  /\ wpc[w] \in {"run", "skip"} => status[q] = "running"
               /\ wpc[w] \in {"verify", "retire"} => q \in settled /\ status[q] = "terminal"
               /\ wpc[w] = "row" =>
                    /\ q \in 1..Frontier /\ Answered(q) /\ LaneOf(q) = m
                    /\ \A h \in Nat : ToRun(m, h) => q < h
    BY <2>1, Zenon DEF Dispatcher, WorkTrue, HandTrue
  <2>2. ASSUME NEW w \in Workers, NEW m \in Lanes, NEW q \in Nat,
               wlane[w] = m, work[w].position = q, wpc[w] = "row"
        PROVE  /\ q \in 1..p /\ Answered(q) /\ LaneOf(q) = m
               /\ \A h \in Nat : ToRun(m, h)' => q < h
    <3>1. /\ q \in 1..Frontier /\ Answered(q) /\ LaneOf(q) = m
          /\ \A h \in Nat : ToRun(m, h) => q < h
      BY <2>1, <2>2
    <3>2. q < p /\ q \in 1..p
      BY <1>1, <1>5, <3>1
    <3>3. QED BY <1>13, <3>1, <3>2
  <2>3. QED BY <1>1, <1>5, <1>7, <2>1, <2>2 DEF WorkTrue, HandTrue
<1>22. Stopped'
  <2>1. ASSUME quarantine # 0
        PROVE  /\ halted
               /\ \E m \in Lanes : \E q \in Positions :
                    /\ quarantine = q /\ ToRun(m, q)'
                    /\ \A w \in Workers : Holds(w) => wlane[w] # m
    <3>1. /\ halted
          /\ status[quarantine] = "terminal"
      BY <1>1, <2>1 DEF Dispatcher, Stopped, Durable, Pinned
    <3>2. PICK m \in Lanes, q \in Positions :
            /\ quarantine = q /\ ToRun(m, q)
            /\ \A w \in Workers : Holds(w) => wlane[w] # m
      BY <1>1, <2>1 DEF Dispatcher, Stopped
    <3>3. (q \in Nat /\ q # o) \/ o = 0
      BY <1>11, <3>1, <3>2 DEF Positions
    <3>4. q \in Nat
      BY DEF Positions
    <3>5. QED BY <1>12, <3>1, <3>2, <3>3, <3>4
  <2>2. QED BY <1>1, <2>1 DEF Stopped, Holds
<1>23. Publishing'
  BY <1>1 DEF Publishing
<1>24. QED
  BY <1>15, <1>16, <1>17, <1>18, <1>19, <1>20, <1>21, <1>22, <1>23 DEF Dispatcher

\* So admission keeps the account.
LEMMA AdmitKeepsRecords ==
    ASSUME TypeOK, Ahead, Phases, Durable, Dispatcher, AdmitNext
    PROVE  Durable' /\ Dispatcher'
<1>1. PICK p : p = seen + 1
  OBVIOUS
<1>2. IF Answered(p)
        THEN Admit(LaneOf(p), p, ArmOf(p), Collapsible(ArmOf(p), LaneOf(p)))
        ELSE UNCHANGED queueVars
  BY <1>1, AdmitReach
<1>3. CASE ~Answered(p) \/ high[LaneOf(p)] >= p
  <2>1. UNCHANGED queueVars
    BY <1>2, <1>3 DEF Admit
  <2>2. QED BY <1>1, <1>3, <2>1, DroppedKeeps
<1>4. CASE Answered(p) /\ ~(high[LaneOf(p)] >= p)
  <2>1. PICK l \in Lanes : LaneOf(p) = l
    BY <1>4, EventTypes DEF Answered
  <2>2. PICK a \in Arms : ArmOf(p) = a
    BY <1>4 DEF Answered, AnswersUnder
  <2>3. QED BY <1>1, <1>4, <2>1, <2>2, AdmittedKeeps
<1>5. QED BY <1>3, <1>4

-----------------------------------------------------------------------------
(* The workers.                                                            *)

\* Every position of the log has a row, and what is settled is one.
LEMMA LogInPositions ==
    ASSUME TypeOK, Phases, Durable
    PROVE  /\ \A q \in 1..Len(log) : q \in Positions /\ q \in Nat
           /\ \A q \in settled : q \in Positions /\ q \in 1..Len(log)
<1>1. Len(log) \in Nat /\ Len(log) <= MaxLog /\ MaxLog \in Nat
  BY FrontierType, SizesAssumption DEF Phases
<1>2. settled \subseteq 1..Len(log)
  BY DEF Durable, SettledDown
<1>3. QED BY <1>1, <1>2 DEF Positions

\* What a worker holds: the oldest thing to run of its lane, known to nobody else and
\* open to nobody, with every older plain position of the lane over with.
LEMMA HeldFacts ==
    ASSUME HeadInv, Folded, Phases, Durable, Dispatcher, up, NEW w \in Workers, Holds(w),
           NEW l \in Lanes, wlane[w] = l, NEW p, work[w].position = p
    PROVE  /\ p \in Positions /\ p \in 1..Len(log) /\ p \in 1..Frontier /\ p \in Nat
           /\ Answered(p) /\ LaneOf(p) = l /\ ToRun(l, p)
           /\ mark < p /\ laneRow[l] < p
           /\ rpc = "persist" => pub < p
           /\ \A h \in Nat : ToRun(l, h) => p <= h
           /\ \A m \in Lanes : \A b \in Arms : latest[m][b] # p
           /\ \A v \in Workers : v # w /\ Holds(v) => work[v].position # p /\ wlane[v] # l
           /\ \A r \in 1..Len(log) :
                r < p /\ LaneOf(r) = l /\ Answered(r) /\ Plain(r) => r \in settled
<1> USE DEF HeadInv
<1>1. /\ p \in Nat /\ ToRun(l, p)
      /\ \A h \in Nat : ToRun(l, h) => p <= h
      /\ \A a \in Arms : latest[l][a] # p \/ p = 0
  BY HeldFirst
<1>2. \A m \in Lanes : \A h \in Nat : ToRun(m, h) =>
        h \in 1..Frontier /\ Answered(h) /\ LaneOf(h) = m /\ laneRow[m] < h
  BY DEF Dispatcher, QueueTrue
<1>3. p \in Positions /\ p \in 1..Len(log) /\ mark < p
  BY <1>1, RunInPositions, RunAboveMark DEF Dispatcher
<1>4. rpc = "persist" => pub < p
  BY <1>1, ToRunAbovePub
<1>5. p # 0
  BY <1>3 DEF Positions
<1>6. ASSUME NEW m \in Lanes, NEW b \in Arms, latest[m][b] = p PROVE FALSE
  <2>1. ToRun(m, p)
    BY <1>1, <1>5, <1>6 DEF Dispatcher, OpenTrue
  <2>2. m = l
    BY <1>1, <1>2, <2>1
  <2>3. QED BY <1>1, <1>5, <1>6, <2>2
<1>7. ASSUME NEW v \in Workers, v # w, Holds(v)
      PROVE  work[v].position # p /\ wlane[v] # l
  <2>1. wlane[v] # l
    BY <1>7, HeldAlone DEF Holds, Owns
  <2>2. PICK m \in Lanes : wlane[v] = m
    BY DEF TypeOK, PoolTypeOK
  <2>3. PICK q : work[v].position = q
    OBVIOUS
  <2>4. q \in Nat /\ ToRun(m, q)
    BY <1>7, <2>2, <2>3, HeldFirst
  <2>5. LaneOf(q) = m /\ LaneOf(p) = l
    BY <1>1, <1>2, <2>4
  <2>6. QED BY <2>1, <2>2, <2>3, <2>5
<1>8. ASSUME NEW r \in 1..Len(log), r < p, LaneOf(r) = l, Answered(r), Plain(r)
      PROVE  r \in settled
  <2>1. r <= Frontier /\ r \in Nat
    BY <1>1, <1>2, <1>3, <1>8, FrontierType
  <2>2. /\ \A q : ~Subsumes(q, r)
        /\ r \in settled \/ Pending(r) \/ \E q \in 1..Len(log) : q > Frontier /\ Subsumes(q, r)
    BY <1>8, <2>1, PlainKept DEF Dispatcher, Accounted
  <2>3. ASSUME Pending(r) PROVE FALSE
    <3>1. PICK m \in Lanes : ToRun(m, r)
      BY <2>2, <2>3 DEF Pending
    <3>2. m = l
      BY <1>2, <1>8, <2>1, <3>1
    <3>3. QED BY <1>1, <1>8, <2>1, <3>1, <3>2
  <2>4. QED BY <2>2, <2>3
<1>9. QED
  BY <1>1, <1>2, <1>3, <1>4, <1>6, <1>7, <1>8

\* A worker begins the oldest thing to run of its lane.
LEMMA BeginKeeps ==
    ASSUME HeadInv, Folded, Phases, Durable, Dispatcher, NEW w \in Workers, Begin(w)
    PROVE  Durable' /\ Dispatcher'
<1> USE DEF HeadInv
<1>1. /\ up /\ Holds(w) /\ wpc[w] = "begin"
      /\ UNCHANGED <<log, boundary, mark, laneRow, quarantine, settled, up, rpc, scanned,
                     seen, pub, halted, wlane, work, queues, latest, high, inflight, begun,
                     blind>>
  BY DEF Begin, At, Holds, Step
<1>2. PICK l \in Lanes : wlane[w] = l
  BY DEF TypeOK, PoolTypeOK
<1>3. PICK p : work[w].position = p
  OBVIOUS
<1>4. /\ p \in Positions /\ p \in 1..Len(log) /\ p \in 1..Frontier /\ p \in Nat
      /\ Answered(p) /\ LaneOf(p) = l /\ ToRun(l, p)
      /\ mark < p /\ laneRow[l] < p
      /\ rpc = "persist" => pub < p
      /\ \A m \in Lanes : \A b \in Arms : latest[m][b] # p
      /\ \A v \in Workers : v # w /\ Holds(v) => work[v].position # p
      /\ \A r \in 1..Len(log) :
           r < p /\ LaneOf(r) = l /\ Answered(r) /\ Plain(r) => r \in settled
  BY <1>1, <1>2, <1>3, HeldFacts
<1>5. /\ status \in [Positions -> {"none", "running", "terminal"}]
      /\ wpc \in [Workers -> {"idle", "popped", "head", "begin", "skip", "run",
                              "verify", "retire", "row", "noted", "release"}]
  BY DEF TypeOK, StoreTypeOK, PoolTypeOK
<1>6. \/ status[p] = "terminal" /\ status' = status /\ wpc' = [wpc EXCEPT ![w] = "retire"]
      \/ /\ status[p] # "terminal"
         /\ status' = [status EXCEPT ![p] = "running"]
         /\ wpc' = [wpc EXCEPT ![w] = "skip"] \/ wpc' = [wpc EXCEPT ![w] = "run"]
  BY <1>2, <1>3 DEF Begin, Step, Go
<1>7. /\ \A q \in Positions : q # p => status'[q] = status[q]
      /\ \A q \in Positions : status[q] = "terminal" <=> status'[q] = "terminal"
      /\ \A q \in Positions : status[q] = "running" => status'[q] = "running"
      /\ \A v \in Workers : v # w => wpc'[v] = wpc[v]
      /\ \/ status[p] = "terminal" /\ status'[p] = "terminal" /\ wpc'[w] = "retire"
         \/ status'[p] = "running" /\ wpc'[w] \in {"skip", "run"}
  BY <1>4, <1>5, <1>6
<1>8. Frontier' = Frontier
  BY <1>1 DEF Frontier
<1>9. \A m, h : ToRun(m, h)' <=> ToRun(m, h)
  BY <1>1, SameQueues
<1>10. /\ \A q : (Answered(q)' <=> Answered(q)) /\ LaneOf(q)' = LaneOf(q)
                 /\ (Plain(q)' <=> Plain(q))
       /\ \A q, r : /\ Subsumes(r, q)' <=> Subsumes(r, q)
                    /\ SameLane(q, r)' <=> SameLane(q, r)
  BY <1>1, SameLog
<1>11. /\ \A q \in 1..Len(log) : q \in Positions /\ q \in Nat
       /\ \A q \in settled : q \in Positions /\ q \in 1..Len(log)
       /\ mark \in Nat
  BY LogInPositions, FrontierType
<1>12. SettledDown' /\ MarkTrue' /\ LaneRowsTrue'
  BY <1>1, <1>10 DEF Durable, SettledDown, MarkTrue, LaneRowsTrue
<1>13. RowsTrue'
  <2>1. \A q \in Positions : status'[q] = "terminal" => q \in settled
    BY <1>7 DEF Durable, RowsTrue
  <2>2. \A q \in Positions : status'[q] = "running" =>
          Answered(q) /\ q > mark /\ q > laneRow[LaneOf(q)]
    <3>1. \A q \in Positions : status[q] = "running" =>
            Answered(q) /\ q > mark /\ q > laneRow[LaneOf(q)]
      BY DEF Durable, RowsTrue
    <3>2. p > mark /\ p > laneRow[LaneOf(p)]
      BY <1>4, <1>11, FrontierType
    <3>3. QED BY <1>4, <1>7, <3>1, <3>2
  <2>3. \A q \in settled : Plain(q) /\ q > mark => status'[q] = "terminal"
    BY <1>7, <1>11 DEF Durable, RowsTrue
  <2>4. QED BY <1>1, <1>10, <2>1, <2>2, <2>3 DEF RowsTrue
<1>14. PlainFirst'
  <2>1. ASSUME NEW q \in 1..Len(log), NEW r \in 1..Len(log), q < r, SameLane(q, r),
               Answered(q), Plain(q), q > mark, status'[r] # "none"
        PROVE  status'[q] = "terminal"
    <3>1. CASE r = p
      <4>1. q \in settled
        BY <1>4, <2>1, <3>1 DEF SameLane
      <4>2. status[q] = "terminal"
        BY <2>1, <4>1 DEF Durable, RowsTrue
      <4>3. QED BY <1>7, <1>11, <4>2
    <3>2. CASE r # p
      <4>1. status[q] = "terminal"
        BY <1>7, <1>11, <2>1, <3>2 DEF Durable, PlainFirst
      <4>2. QED BY <1>7, <1>11, <4>1
    <3>3. QED BY <3>1, <3>2
  <2>2. QED BY <1>1, <1>10, <2>1 DEF PlainFirst
<1>15. Pinned'
  BY <1>1, <1>7 DEF Durable, Pinned
<1>16. QueueTrue' /\ HighTrue' /\ Accounted'
  BY <1>1, <1>8, <1>9, QueueKept, HighKept, AccountedKept DEF Dispatcher
<1>17. OpenTrue'
  <2>1. \A m \in Lanes : \A b \in Arms : \A o \in Nat \ {0} :
          latest[m][b] = o => status'[o] = status[o]
    <3> TAKE m \in Lanes
    <3> TAKE b \in Arms
    <3> TAKE o \in Nat \ {0}
    <3> HAVE latest[m][b] = o
    <3>1. ToRun(m, o) /\ o # p
      BY <1>1, <1>4 DEF Dispatcher, OpenTrue
    <3>2. o \in Positions
      BY <1>1, <3>1, RunInPositions DEF Dispatcher
    <3>3. QED BY <1>7, <3>1, <3>2
  <2>2. QED BY <1>1, <1>9, <2>1, OpenKept DEF Dispatcher
<1>18. BegunTrue'
  <2>1. \A q \in Positions : status'[q] # "none" /\ q > Frontier => status[q] # "none"
    <3>1. ~(p > Frontier)
      BY <1>4, FrontierType
    <3>2. QED BY <1>7, <3>1
  <2>2. \A q \in Positions : status'[q] = "running" =>
          status[q] = "running" \/ \E m \in Lanes : ToRun(m, q)
    BY <1>4, <1>7
  <2>3. QED BY <1>1, <1>8, <1>9, <2>1, <2>2, BegunKept DEF Dispatcher
<1>19. WorkTrue'
  <2>1. HandTrue(w)'
    <3>1. status'[p] = "terminal" => p \in settled
      BY <1>4, <1>7 DEF Durable, RowsTrue
    <3>2. \/ status'[p] = "terminal" /\ wpc'[w] = "retire"
          \/ status'[p] = "running" /\ wpc'[w] \in {"skip", "run"}
      BY <1>7
    <3>3. work'[w].position = p /\ settled' = settled
      BY <1>1, <1>3
    <3>4. QED BY <3>1, <3>2, <3>3 DEF HandTrue
  <2>2. ASSUME NEW v \in Workers, v # w PROVE HandTrue(v)'
    <3>1. ASSUME NEW q \in Nat, Holds(v), work[v].position = q
          PROVE  status'[q] = status[q]
      <4>1. PICK m \in Lanes : wlane[v] = m
        BY DEF TypeOK, PoolTypeOK
      <4>2. q \in Positions /\ q # p
        BY <1>1, <1>4, <2>2, <3>1, <4>1, HeldFacts
      <4>3. QED BY <1>7, <4>2
    <3>2. wpc'[v] = wpc[v] /\ wlane'[v] = wlane[v] /\ work'[v] = work[v]
      BY <1>1, <1>7, <2>2
    <3>3. QED BY <1>1, <1>8, <1>9, <3>1, <3>2, HandKept DEF Dispatcher, WorkTrue
  <2>3. QED BY <2>1, <2>2 DEF WorkTrue
<1>20. Stopped'
  <2>1. \A v \in Workers : Holds(v)' => Holds(v) /\ wlane'[v] = wlane[v]
    BY <1>1, <1>7 DEF Holds
  <2>2. QED BY <1>1, <1>9, <2>1, StoppedKept DEF Dispatcher
<1>21. Publishing'
  <2>1. CASE rpc = "persist"
    <3>1. p > pub
      BY <1>4, <2>1, FrontierType
    <3>2. \A q \in Positions : status'[q] = "running" => status[q] = "running" \/ q > pub
      BY <1>7, <3>1
    <3>3. QED BY <1>1, <3>2, PublishKept DEF Dispatcher
  <2>2. CASE rpc # "persist"
    BY <1>1, <2>2 DEF Publishing
  <2>3. QED BY <2>1, <2>2
<1>22. QED
  BY <1>12, <1>13, <1>14, <1>15, <1>16, <1>17, <1>18, <1>19, <1>20, <1>21
     DEF Durable, Dispatcher

\* A run settles its position and all it makes redundant, in one statement.
LEMMA TerminalKeeps ==
    ASSUME HeadInv, Folded, Phases, Durable, Dispatcher, NEW w \in Workers, up, Holds(w),
           MakeTerminal(w), status[work[w].position] = "running",
           UNCHANGED <<log, boundary, mark, laneRow, quarantine, up, rpc, scanned, seen, pub,
                       halted, queues, latest, high, inflight, begun, blind>>,
           \/ wpc'[w] \in {"verify", "retire"} /\ wlane' = wlane /\ work' = work
           \/ wpc'[w] = "idle",
           \A v \in Workers : v # w =>
             wpc'[v] = wpc[v] /\ wlane'[v] = wlane[v] /\ work'[v] = work[v]
    PROVE  Durable' /\ Dispatcher'
<1> USE DEF HeadInv
<1>2. PICK l \in Lanes : wlane[w] = l
  BY DEF TypeOK, PoolTypeOK
<1>3. PICK p : work[w].position = p
  OBVIOUS
<1>4. /\ p \in Positions /\ p \in 1..Len(log) /\ p \in Nat /\ Answered(p)
      /\ \A m \in Lanes : \A b \in Arms : latest[m][b] # p
  BY <1>2, <1>3, HeldFacts
<1>5. status \in [Positions -> {"none", "running", "terminal"}]
  BY DEF TypeOK, StoreTypeOK
<1>6. /\ status' = [status EXCEPT ![p] = "terminal"]
      /\ settled' = settled \cup Settles(p)
      /\ status[p] = "running"
  BY <1>3 DEF MakeTerminal
<1>7. /\ \A q \in Positions : q # p => status'[q] = status[q]
      /\ status'[p] = "terminal"
      /\ \A q \in Positions : status[q] = "terminal" => status'[q] = "terminal"
      /\ \A q \in Positions : status'[q] = "terminal" => status[q] = "terminal" \/ q = p
      /\ \A q \in Positions : status'[q] = "running" => status[q] = "running"
      /\ \A q \in Positions : status'[q] # "none" <=> status[q] # "none"
  BY <1>4, <1>5, <1>6
<1>8. /\ Frontier' = Frontier
      /\ settled \subseteq settled' /\ p \in settled'
  BY <1>6 DEF Frontier, Settles
<1>9. \A m, h : ToRun(m, h)' <=> ToRun(m, h)
  BY SameQueues
<1>10. /\ \A q : (Answered(q)' <=> Answered(q)) /\ LaneOf(q)' = LaneOf(q)
                 /\ (Plain(q)' <=> Plain(q))
       /\ \A q, r : /\ Subsumes(r, q)' <=> Subsumes(r, q)
                    /\ SameLane(q, r)' <=> SameLane(q, r)
  BY SameLog
<1>11. /\ \A q \in 1..Len(log) : q \in Positions /\ q \in Nat
       /\ \A q \in settled : q \in Positions /\ q \in 1..Len(log)
  BY LogInPositions
<1>12. \A q : q \in settled' <=>
         q \in settled \/ q = p \/ (q \in 1..p /\ Answered(q) /\ Subsumes(p, q))
  BY <1>6 DEF Settles
<1>13. SettledDown'
  <2>1. \A q \in settled' : q \in 1..Len(log)
    BY <1>4, <1>11, <1>12 DEF Answered
  <2>2. ASSUME NEW q \in settled', NEW r \in 1..Len(log), Subsumes(q, r), Answered(r)
        PROVE  r \in settled'
    <3>1. CASE q \in settled
      BY <1>8, <2>2, <3>1 DEF Durable, SettledDown
    <3>2. CASE q \notin settled
      <4>1. Subsumes(p, r)
        <5>1. q \in Nat /\ r \in Nat
          BY <1>11, <2>1, <2>2
        <5>2. q = p \/ Subsumes(p, q)
          BY <1>12, <3>2
        <5>3. QED BY <1>4, <2>2, <5>1, <5>2, SubsumesAgain
      <4>2. r \in 1..p
        BY <1>4, <2>2, <4>1 DEF Subsumes
      <4>3. QED BY <1>12, <2>2, <4>1, <4>2
    <3>3. QED BY <3>1, <3>2
  <2>3. QED BY <1>10, <2>1, <2>2 DEF SettledDown
<1>14. RowsTrue'
  <2>1. \A q \in Positions : status'[q] = "terminal" => q \in settled'
    BY <1>7, <1>8 DEF Durable, RowsTrue
  <2>2. \A q \in Positions : status'[q] = "running" =>
          Answered(q) /\ q > mark /\ q > laneRow[LaneOf(q)]
    BY <1>7 DEF Durable, RowsTrue
  <2>3. ASSUME NEW q \in settled', Plain(q), q > mark
        PROVE  status'[q] = "terminal"
    <3>1. ~Subsumes(p, q)
      BY <2>3, PlainKept
    <3>2. q \in settled \/ q = p
      BY <1>12, <3>1
    <3>3. QED BY <1>7, <1>11, <2>3, <3>2 DEF Durable, RowsTrue
  <2>4. QED BY <1>10, <2>1, <2>2, <2>3 DEF RowsTrue
<1>15. PlainFirst'
  BY <1>7, <1>10, <1>11 DEF Durable, PlainFirst
<1>16. Pinned'
  BY <1>7 DEF Durable, Pinned
<1>17. MarkTrue' /\ LaneRowsTrue'
  BY <1>8, <1>10 DEF Durable, MarkTrue, LaneRowsTrue
<1>18. QueueTrue' /\ HighTrue' /\ Accounted'
  BY <1>8, <1>9, QueueKept, HighKept, AccountedKept DEF Dispatcher
<1>19. OpenTrue'
  <2>1. \A m \in Lanes : \A b \in Arms : \A o \in Nat \ {0} :
          latest[m][b] = o => status'[o] = status[o]
    <3> TAKE m \in Lanes
    <3> TAKE b \in Arms
    <3> TAKE o \in Nat \ {0}
    <3> HAVE latest[m][b] = o
    <3>1. ToRun(m, o) /\ o # p
      BY <1>4 DEF Dispatcher, OpenTrue
    <3>2. o \in Positions
      BY <3>1, RunInPositions DEF Dispatcher
    <3>3. QED BY <1>7, <3>1, <3>2
  <2>2. QED BY <1>9, <2>1, OpenKept DEF Dispatcher
<1>20. BegunTrue'
  BY <1>7, <1>8, <1>9, BegunKept DEF Dispatcher
<1>21. WorkTrue'
  <2>1. HandTrue(w)'
    <3>1. CASE wpc'[w] \in {"verify", "retire"} /\ wlane' = wlane /\ work' = work
      <4>1. work'[w].position = p
        BY <1>3, <3>1
      <4>2. QED BY <1>7, <1>8, <3>1, <4>1 DEF HandTrue
    <3>2. CASE wpc'[w] = "idle"
      BY <3>2 DEF HandTrue
    <3>3. QED BY <3>1, <3>2
  <2>2. ASSUME NEW v \in Workers, v # w PROVE HandTrue(v)'
    <3>1. ASSUME NEW q \in Nat, Holds(v), work[v].position = q
          PROVE  status'[q] = status[q]
      <4>1. PICK m \in Lanes : wlane[v] = m
        BY DEF TypeOK, PoolTypeOK
      <4>2. q \in Positions
        BY <3>1, <4>1, HeldFacts
      <4>3. q # p
        BY <1>2, <1>3, <2>2, <3>1, HeldFacts
      <4>4. QED BY <1>7, <4>2, <4>3
    <3>2. QED BY <1>8, <1>9, <2>2, <3>1, HandKept DEF Dispatcher, WorkTrue
  <2>3. QED BY <2>1, <2>2 DEF WorkTrue
<1>22. Stopped'
  <2>1. \A v \in Workers : Holds(v)' => Holds(v) /\ wlane'[v] = wlane[v]
    BY DEF Holds
  <2>2. QED BY <1>9, <2>1, StoppedKept DEF Dispatcher
<1>23. Publishing'
  BY <1>7, <1>8, PublishKept DEF Dispatcher
<1>24. QED
  BY <1>13, <1>14, <1>15, <1>16, <1>17, <1>18, <1>19, <1>20, <1>21, <1>22, <1>23
     DEF Durable, Dispatcher

\* It does by finishing, by a skip, and when the answer of its last write is lost.
LEMMA SettlingKeeps ==
    ASSUME HeadInv, Folded, Phases, Durable, Dispatcher, NEW w \in Workers,
           SkipWedged(w) \/ Finish(w) \/ LoseAnswer(w)
    PROVE  Durable' /\ Dispatcher'
<1> USE DEF HeadInv
<1>1. /\ up /\ wpc[w] \in {"run", "skip"} /\ Holds(w) /\ MakeTerminal(w)
      /\ UNCHANGED <<log, boundary, mark, laneRow, quarantine, up, rpc, scanned, seen, pub,
                     halted, queues, latest, high, inflight, begun, blind>>
  BY DEF SkipWedged, Finish, LoseAnswer, Park, Defer, At, Holds
<1>2. status[work[w].position] = "running"
  <2>1. PICK l \in Lanes : wlane[w] = l
    BY DEF TypeOK, PoolTypeOK
  <2>2. PICK p \in Nat : work[w].position = p
    BY DEF TypeOK, PoolTypeOK
  <2>3. QED BY <1>1, <2>1, <2>2, Zenon DEF Dispatcher, WorkTrue, HandTrue
<1>3. /\ wpc \in [Workers -> {"idle", "popped", "head", "begin", "skip", "run",
                              "verify", "retire", "row", "noted", "release"}]
      /\ wlane \in [Workers -> Lanes]
      /\ work \in [Workers -> [position : Nat, from : Nat]]
  BY DEF TypeOK, PoolTypeOK
<1>4. /\ \/ wpc'[w] \in {"verify", "retire"} /\ wlane' = wlane /\ work' = work
         \/ wpc'[w] = "idle"
      /\ \A v \in Workers : v # w =>
           wpc'[v] = wpc[v] /\ wlane'[v] = wlane[v] /\ work'[v] = work[v]
  BY <1>3 DEF SkipWedged, Finish, LoseAnswer, Park, Unhand, Step, Go
<1>5. QED BY <1>1, <1>2, <1>4, TerminalKeeps

\* A divergence is recorded for a position that is terminal and queued, and its lane
\* is let go.
LEMMA ReplayKeeps ==
    ASSUME HeadInv, Folded, Phases, Durable, Dispatcher, NEW w \in Workers, Replay(w)
    PROVE  Durable' /\ Dispatcher'
<1> USE DEF HeadInv
<1>1. /\ up /\ wpc[w] = "verify" /\ Holds(w)
      /\ UNCHANGED <<log, boundary, mark, status, laneRow, settled, up, rpc, scanned, seen,
                     pub, wlane, work, queues, latest, high, inflight, begun, blind>>
  BY DEF Replay, At, Holds, Step
<1>2. PICK l \in Lanes : wlane[w] = l
  BY DEF TypeOK, PoolTypeOK
<1>3. PICK p \in Nat : work[w].position = p
  BY DEF TypeOK, PoolTypeOK
<1>4. /\ p \in Positions /\ mark < p /\ ToRun(l, p)
      /\ \A v \in Workers : v # w /\ Holds(v) => wlane[v] # l
  BY <1>1, <1>2, <1>3, HeldFacts
<1>5. p \in settled /\ status[p] = "terminal"
  BY <1>1, <1>2, <1>3, Zenon DEF Dispatcher, WorkTrue, HandTrue
<1>6. wpc \in [Workers -> {"idle", "popped", "head", "begin", "skip", "run",
                           "verify", "retire", "row", "noted", "release"}]
  BY DEF TypeOK, PoolTypeOK
<1>7. /\ \A v \in Workers : v # w => wpc'[v] = wpc[v]
      /\ \/ wpc'[w] = "retire" /\ UNCHANGED <<quarantine, halted>>
         \/ wpc'[w] = "release" /\ halted' = TRUE /\ quarantine' \in {p, quarantine}
  BY <1>3, <1>6 DEF Replay, Step, Go
<1>8. Frontier' = Frontier
  BY <1>1 DEF Frontier
<1>9. \A m, h : ToRun(m, h)' <=> ToRun(m, h)
  BY <1>1, SameQueues
<1>10. /\ \A q : (Answered(q)' <=> Answered(q)) /\ LaneOf(q)' = LaneOf(q)
                 /\ (Plain(q)' <=> Plain(q))
       /\ \A q, r : /\ Subsumes(r, q)' <=> Subsumes(r, q)
                    /\ SameLane(q, r)' <=> SameLane(q, r)
  BY <1>1, SameLog
<1>11. SettledDown' /\ RowsTrue' /\ PlainFirst'
  BY <1>1, <1>10 DEF Durable, SettledDown, RowsTrue, PlainFirst
<1>12. MarkTrue' /\ LaneRowsTrue'
  BY <1>1, <1>10 DEF Durable, MarkTrue, LaneRowsTrue
<1>13. Pinned'
  BY <1>1, <1>4, <1>5, <1>7 DEF Durable, Pinned
<1>14. QueueTrue' /\ HighTrue' /\ Accounted' /\ OpenTrue' /\ BegunTrue'
  BY <1>1, <1>8, <1>9, QueueKept, HighKept, AccountedKept, OpenKept, BegunKept
     DEF Dispatcher
<1>15. WorkTrue'
  <2>1. HandTrue(w)'
    <3>1. work'[w].position = p
      BY <1>1, <1>3
    <3>2. QED BY <1>1, <1>5, <1>7, <3>1 DEF HandTrue
  <2>2. ASSUME NEW v \in Workers, v # w PROVE HandTrue(v)'
    BY <1>1, <1>7, <1>8, <1>9, <2>2, HandKept DEF Dispatcher, WorkTrue
  <2>3. QED BY <2>1, <2>2 DEF WorkTrue
<1>16. Stopped'
  <2>1. \A v \in Workers : Holds(v)' => Holds(v) /\ wlane'[v] = wlane[v]
    BY <1>1, <1>7 DEF Holds
  <2>2. CASE quarantine' = quarantine
    BY <1>1, <1>7, <1>9, <2>1, <2>2, StoppedKept DEF Dispatcher
  <2>3. CASE quarantine' # quarantine
    <3>1. quarantine' = p /\ halted' = TRUE /\ wpc'[w] = "release"
      BY <1>7, <2>3
    <3>2. \A v \in Workers : Holds(v)' => wlane'[v] # l
      BY <1>4, <2>1, <3>1 DEF Holds
    <3>3. QED BY <1>4, <1>9, <3>1, <3>2 DEF Stopped
  <2>4. QED BY <2>2, <2>3
<1>17. Publishing'
  BY <1>1, PublishKept DEF Dispatcher
<1>18. QED
  BY <1>11, <1>12, <1>13, <1>14, <1>15, <1>16, <1>17 DEF Durable, Dispatcher

\* What retiring changes of what there is to run: the head leaves, nothing else.
LEMMA RetiredRuns ==
    ASSUME TypeOK, QueueSound, FrozenHead, Folded, NEW w \in Workers, Retire(w),
           NEW l \in Lanes, wlane[w] = l, NEW p, work[w].position = p
    PROVE  /\ \A m \in Lanes : \A h \in Nat : ToRun(m, h)' => ToRun(m, h)
           /\ \A h \in Nat : ToRun(l, h)' => p < h
           /\ \A m \in Lanes : \A h \in Nat : ToRun(m, h) => ToRun(m, h)' \/ (m = l /\ h = p)
           /\ inflight' \subseteq inflight
           /\ \A m \in Lanes : \A b \in Arms : latest'[m][b] \in {latest[m][b], 0}
<1> DEFINE n == Len(queues[l])
<1>1. /\ n \in Nat /\ n >= 1 /\ Len(queues'[l]) = n - 1
      /\ \A i \in 1..(n - 1) : queues'[l][i] = queues[l][i + 1]
      /\ \A m \in Lanes : m # l => queues'[m] = queues[m]
      /\ inflight' \subseteq inflight
  BY RetiredQueue
<1>2. queues[l] # <<>> /\ queues[l][1].hi = p
  BY DEF Retire, At, Holds, FrozenHead, Front
<1>3. \A i, j \in 1..n : i < j => queues[l][i].hi < queues[l][j].hi
  BY DEF Folded, FoldedLane
<1>4. \A m \in Lanes : \A h \in Nat : m # l => (ToRun(m, h)' <=> ToRun(m, h))
  BY <1>1 DEF ToRun
<1>5. \A m \in Lanes : \A b \in Arms : latest'[m][b] \in {latest[m][b], 0}
  <2>1. Close(l, Front(l)) \/ latest' = latest
    BY DEF Retire, Complete
  <2>2. latest \in [Lanes -> [Arms -> Nat]]
    BY DEF TypeOK, LaneTypeOK
  <2>3. QED BY <2>1, <2>2 DEF Close
<1> HIDE DEF n
<1>6. /\ \A h \in Nat : ToRun(l, h)' <=> \E i \in 1..(n - 1) : queues'[l][i].hi = h
      /\ \A h \in Nat : ToRun(l, h) <=> \E i \in 1..n : queues[l][i].hi = h
  BY <1>1 DEF ToRun, n
<1>7. /\ 1 \in 1..n
      /\ \A i \in 1..(n - 1) : i + 1 \in 1..n /\ 1 < i + 1
      /\ \A i \in 1..n : i # 1 => i - 1 \in 1..(n - 1) /\ (i - 1) + 1 = i
  BY <1>1
<1>8. ASSUME NEW h \in Nat, ToRun(l, h)' PROVE ToRun(l, h) /\ p < h
  <2>1. PICK i \in 1..(n - 1) : queues'[l][i].hi = h
    BY <1>6, <1>8
  <2>2. queues[l][i + 1].hi = h /\ i + 1 \in 1..n
    BY <1>1, <1>7, <2>1
  <2>3. p < h
    BY <1>2, <1>3, <1>7, <2>2
  <2>4. QED BY <1>6, <2>2, <2>3
<1>9. ASSUME NEW h \in Nat, ToRun(l, h), h # p PROVE ToRun(l, h)'
  <2>1. PICK i \in 1..n : queues[l][i].hi = h
    BY <1>6, <1>9
  <2>2. i # 1
    BY <1>2, <1>9, <2>1
  <2>3. i - 1 \in 1..(n - 1) /\ queues'[l][i - 1].hi = h
    BY <1>1, <1>7, <2>1, <2>2
  <2>4. QED BY <1>6, <2>3
<1>10. QED BY <1>1, <1>4, <1>5, <1>8, <1>9

\* What leaves a queue is settled, and with it what it made redundant.
LEMMA RetireKeeps ==
    ASSUME HeadInv, Folded, Phases, Durable, Dispatcher, NEW w \in Workers, Retire(w)
    PROVE  Durable' /\ Dispatcher'
<1> USE DEF HeadInv
<1>1. /\ up /\ wpc[w] = "retire" /\ Holds(w)
      /\ UNCHANGED <<log, boundary, mark, status, laneRow, quarantine, settled, up, rpc,
                     scanned, seen, pub, halted, wlane, high, begun, blind>>
      /\ work' = work
  BY DEF Retire, Complete, At, Holds, Step
<1>2. PICK l \in Lanes : wlane[w] = l
  BY DEF TypeOK, PoolTypeOK
<1>3. PICK p \in Nat : work[w].position = p
  BY DEF TypeOK, PoolTypeOK
<1>4. /\ p \in Positions /\ p \in 1..Frontier /\ p \in 1..Len(log)
      /\ Answered(p) /\ LaneOf(p) = l
      /\ \A m \in Lanes : \A b \in Arms : latest[m][b] # p
  BY <1>1, <1>2, <1>3, HeldFacts
<1>5. p \in settled /\ status[p] = "terminal"
  BY <1>1, <1>2, <1>3, Zenon DEF Dispatcher, WorkTrue, HandTrue
<1>6. /\ \A m \in Lanes : \A h \in Nat : ToRun(m, h)' => ToRun(m, h)
      /\ \A h \in Nat : ToRun(l, h)' => p < h
      /\ \A m \in Lanes : \A h \in Nat : ToRun(m, h) => ToRun(m, h)' \/ (m = l /\ h = p)
      /\ inflight' \subseteq inflight
      /\ \A m \in Lanes : \A b \in Arms : latest'[m][b] \in {latest[m][b], 0}
  BY <1>2, <1>3, RetiredRuns
<1>7. wpc \in [Workers -> {"idle", "popped", "head", "begin", "skip", "run",
                           "verify", "retire", "row", "noted", "release"}]
  BY DEF TypeOK, PoolTypeOK
<1>8. wpc'[w] \in {"row", "head"} /\ \A v \in Workers : v # w => wpc'[v] = wpc[v]
  BY <1>7 DEF Retire, Step, Go
<1>9. Frontier' = Frontier
  BY <1>1 DEF Frontier
<1>10. /\ \A q : /\ Answered(q)' <=> Answered(q)
                 /\ LaneOf(q)' = LaneOf(q) /\ ArmOf(q)' = ArmOf(q)
       /\ \A q, r : Subsumes(r, q)' <=> Subsumes(r, q)
  BY <1>1, SameLog
<1>11. Durable'
  BY <1>1, DurableFrame
<1>12. QueueTrue'
  <2>1. \A m \in Lanes : \A h \in Nat : ToRun(m, h)' =>
          h \in 1..Frontier /\ Answered(h) /\ LaneOf(h) = m /\ laneRow[m] < h
    BY <1>1, <1>6 DEF Dispatcher, QueueTrue
  <2>2. \A q \in inflight' : mark < q
    BY <1>1, <1>6 DEF Dispatcher, QueueTrue
  <2>3. QED BY <1>1, <1>9, <1>10, <2>1, <2>2 DEF QueueTrue
<1>13. HighTrue'
  BY <1>1, <1>9, HighKept DEF Dispatcher
<1>14. Accounted'
  <2>1. ASSUME NEW r \in 1..Len(log), r <= Frontier, Answered(r)
        PROVE  \/ r \in settled
               \/ Pending(r)'
               \/ \E q \in 1..Len(log) : q > Frontier /\ Subsumes(q, r)
    <3>1. \/ r \in settled
          \/ Pending(r)
          \/ \E q \in 1..Len(log) : q > Frontier /\ Subsumes(q, r)
      BY <1>1, <2>1 DEF Dispatcher, Accounted
    <3>2. CASE Pending(r)
      <4>1. PICK m \in Lanes, h \in 1..Len(log) : ToRun(m, h) /\ (h = r \/ Subsumes(h, r))
        BY <3>2 DEF Pending
      <4>2. CASE ToRun(m, h)'
        BY <1>1, <1>10, <4>1, <4>2 DEF Pending
      <4>3. CASE h = p
        BY <1>5, <2>1, <4>1, <4>3 DEF Durable, SettledDown
      <4>4. h \in Nat
        BY <4>1
      <4>5. QED BY <1>6, <4>1, <4>2, <4>3, <4>4
    <3>3. QED BY <3>1, <3>2
  <2>2. QED BY <1>1, <1>9, <1>10, <2>1 DEF Accounted
<1>15. OpenTrue'
  <2>1. ASSUME NEW m \in Lanes, NEW b \in Arms, NEW o \in Nat \ {0}, latest'[m][b] = o
        PROVE  ToRun(m, o)' /\ ArmOf(o) = b /\ status[o] = "none"
    <3>1. latest[m][b] = o
      BY <1>6, <2>1
    <3>2. ToRun(m, o) /\ ArmOf(o) = b /\ status[o] = "none"
      BY <1>1, <3>1 DEF Dispatcher, OpenTrue
    <3>3. o # p
      BY <1>4, <3>1
    <3>4. QED BY <1>6, <3>2, <3>3
  <2>2. QED BY <1>1, <1>10, <2>1 DEF OpenTrue
<1>16. BegunTrue'
  <2>1. ASSUME NEW q \in Positions, status[q] = "running", q <= Frontier
        PROVE  \E m \in Lanes : ToRun(m, q)'
    <3>1. PICK m \in Lanes : ToRun(m, q)
      BY <1>1, <2>1 DEF Dispatcher, BegunTrue
    <3>2. q # p /\ q \in Nat
      BY <1>5, <2>1 DEF Positions
    <3>3. QED BY <1>6, <3>1, <3>2
  <2>2. QED BY <1>1, <1>9, <2>1 DEF Dispatcher, BegunTrue
<1>17. WorkTrue'
  <2>1. HandTrue(w)'
    <3>1. work'[w].position = p /\ wlane'[w] = l
      BY <1>1, <1>2, <1>3
    <3>2. QED BY <1>4, <1>6, <1>8, <1>9, <1>10, <3>1 DEF HandTrue
  <2>2. ASSUME NEW v \in Workers, v # w PROVE HandTrue(v)'
    <3>1. PICK m \in Lanes : wlane[v] = m
      BY DEF TypeOK, PoolTypeOK
    <3>2. PICK q \in Nat : work[v].position = q
      BY DEF TypeOK, PoolTypeOK
    <3>3. /\ wpc[v] \in {"run", "skip"} => status[q] = "running"
          /\ wpc[v] \in {"verify", "retire"} => q \in settled /\ status[q] = "terminal"
          /\ wpc[v] = "row" =>
               /\ q \in 1..Frontier /\ Answered(q) /\ LaneOf(q) = m
               /\ \A h \in Nat : ToRun(m, h) => q < h
      BY <3>1, <3>2, Zenon DEF Dispatcher, WorkTrue, HandTrue
    <3>4. wpc'[v] = wpc[v] /\ wlane'[v] = m /\ work'[v].position = q
      BY <1>1, <1>8, <2>2, <3>1, <3>2
    <3>5. QED BY <1>1, <1>6, <1>9, <1>10, <3>3, <3>4 DEF HandTrue
  <2>3. QED BY <2>1, <2>2 DEF WorkTrue
<1>18. Stopped'
  <2>1. ASSUME quarantine # 0, rpc # "stopped"
        PROVE  /\ halted
               /\ \E m \in Lanes : \E q \in Positions :
                    /\ quarantine = q /\ ToRun(m, q)'
                    /\ \A v \in Workers : Holds(v)' => wlane[v] # m
    <3>1. halted
      BY <1>1, <2>1 DEF Dispatcher, Stopped
    <3>2. PICK m \in Lanes, q \in Positions :
            /\ quarantine = q /\ ToRun(m, q)
            /\ \A v \in Workers : Holds(v) => wlane[v] # m
      BY <1>1, <2>1 DEF Dispatcher, Stopped
    <3>3. m # l /\ q \in Nat
      BY <1>1, <1>2, <3>2 DEF Positions
    <3>4. \A v \in Workers : Holds(v)' => Holds(v)
      BY <1>8 DEF Holds
    <3>5. QED BY <1>6, <3>1, <3>2, <3>3, <3>4
  <2>2. QED BY <1>1, <2>1 DEF Stopped
<1>19. Publishing'
  BY <1>1, PublishKept DEF Dispatcher
<1>20. QED
  BY <1>11, <1>12, <1>13, <1>14, <1>15, <1>16, <1>17, <1>18, <1>19 DEF Dispatcher

\* A lane's row passes only what is settled, or made redundant by what is still queued
\* or ahead: nothing to run of the lane is older than what has retired.
LEMMA RowKeeps ==
    ASSUME HeadInv, Folded, Phases, Durable, Dispatcher, NEW w \in Workers,
           RecordLaneRow(w)
    PROVE  Durable' /\ Dispatcher'
<1> USE DEF HeadInv
<1>1. /\ up /\ wpc[w] = "row"
      /\ UNCHANGED <<log, boundary, mark, status, quarantine, settled, up, rpc, scanned,
                     seen, pub, halted, wlane, work, queues, latest, high, inflight, begun,
                     blind>>
  BY DEF RecordLaneRow, At, Step
<1>2. PICK l \in Lanes : wlane[w] = l
  BY DEF TypeOK, PoolTypeOK
<1>3. PICK p \in Nat : work[w].position = p
  BY DEF TypeOK, PoolTypeOK
<1>4. /\ p \in 1..Frontier /\ Answered(p) /\ LaneOf(p) = l
      /\ \A h \in Nat : ToRun(l, h) => p < h
  BY <1>1, <1>2, <1>3, Zenon DEF Dispatcher, WorkTrue, HandTrue
<1>5. /\ wpc \in [Workers -> {"idle", "popped", "head", "begin", "skip", "run",
                              "verify", "retire", "row", "noted", "release"}]
      /\ laneRow \in [Lanes -> Nat]
  BY DEF TypeOK, PoolTypeOK, StoreTypeOK
<1>6. /\ wpc'[w] \in {"noted", "head"} /\ \A v \in Workers : v # w => wpc'[v] = wpc[v]
      /\ laneRow' = laneRow \/ laneRow' = [laneRow EXCEPT ![l] = Greater(@, p)]
  BY <1>2, <1>3, <1>5 DEF RecordLaneRow, Step, Go
<1>7. Frontier' = Frontier
  BY <1>1 DEF Frontier
<1>8. CASE laneRow' = laneRow
  <2>1. Quiet
    BY <1>1, <1>6, <1>8 DEF Quiet
  <2>2. QED BY <1>7, <2>1, QuietKeeps
<1>9. CASE laneRow' = [laneRow EXCEPT ![l] = Greater(@, p)]
  <2>1. /\ \A m \in Lanes : m # l => laneRow'[m] = laneRow[m]
        /\ \/ laneRow'[l] = laneRow[l]
           \/ laneRow'[l] = p /\ laneRow[l] <= p
        /\ \A m \in Lanes : laneRow[m] \in Nat /\ laneRow[m] <= laneRow'[m]
    BY <1>5, <1>9 DEF Greater
  <2>2. \A m, h : ToRun(m, h)' <=> ToRun(m, h)
    BY <1>1, SameQueues
  <2>3. /\ \A q : (Answered(q)' <=> Answered(q)) /\ LaneOf(q)' = LaneOf(q)
                  /\ (Plain(q)' <=> Plain(q))
        /\ \A q, r : /\ Subsumes(r, q)' <=> Subsumes(r, q)
                     /\ SameLane(q, r)' <=> SameLane(q, r)
    BY <1>1, SameLog
  <2>4. \A m \in Lanes : \A h \in Nat : ToRun(m, h) =>
          h \in 1..Frontier /\ Answered(h) /\ LaneOf(h) = m /\ laneRow[m] < h
    BY <1>1 DEF Dispatcher, QueueTrue
  <2>5. Frontier \in Nat /\ Len(log) \in Nat /\ Frontier <= Len(log) /\ mark \in Nat
    BY FrontierType
  <2>6. SettledDown' /\ PlainFirst' /\ Pinned' /\ MarkTrue'
    BY <1>1, <2>3 DEF Durable, SettledDown, PlainFirst, Pinned, MarkTrue
  <2>7. RowsTrue'
    <3>1. ASSUME NEW q \in Positions, status[q] = "running"
          PROVE  q > laneRow'[LaneOf(q)]
      <4>1. Answered(q) /\ q > laneRow[LaneOf(q)] /\ q \in Nat
        BY <3>1 DEF Durable, RowsTrue, Positions
      <4>2. LaneOf(q) \in Lanes
        BY <4>1, EventTypes DEF Answered
      <4>3. CASE LaneOf(q) = l
        <5>1. q > p
          <6>1. CASE q <= Frontier
            <7>1. PICK m \in Lanes : ToRun(m, q)
              BY <1>1, <3>1, <6>1 DEF Dispatcher, BegunTrue
            <7>2. m = l
              BY <2>4, <4>1, <4>3, <7>1
            <7>3. QED BY <1>4, <4>1, <7>1, <7>2
          <6>2. CASE ~(q <= Frontier)
            BY <1>4, <2>5, <4>1, <6>2
          <6>3. QED BY <6>1, <6>2
        <5>2. QED BY <2>1, <4>1, <4>3, <5>1
      <4>4. CASE LaneOf(q) # l
        BY <2>1, <4>1, <4>2, <4>4
      <4>5. QED BY <4>3, <4>4
    <3>2. QED BY <1>1, <2>3, <3>1 DEF Durable, RowsTrue
  <2>8. LaneRowsTrue'
    <3>1. ASSUME NEW m \in Lanes PROVE laneRow'[m] <= Len(log)
      <4>1. laneRow[m] <= Len(log) /\ p <= Len(log)
        BY <1>4, <2>5 DEF Durable, LaneRowsTrue
      <4>2. QED BY <2>1, <4>1
    <3>2. ASSUME NEW m \in Lanes, NEW r \in 1..Len(log), r <= laneRow'[m], Answered(r),
                 LaneOf(r) = m
          PROVE  r \in settled \/ \E q \in 1..Len(log) : laneRow'[m] < q /\ Subsumes(q, r)
      <4>1. CASE laneRow'[m] = laneRow[m]
        BY <3>2, <4>1 DEF Durable, LaneRowsTrue
      <4>2. CASE laneRow'[m] # laneRow[m]
        <5>1. m = l /\ laneRow'[m] = p /\ r <= p /\ r <= Frontier /\ r \in Nat
          BY <1>4, <2>1, <2>5, <3>2, <4>2
        <5>2. \/ r \in settled
              \/ Pending(r)
              \/ \E q \in 1..Len(log) : q > Frontier /\ Subsumes(q, r)
          BY <1>1, <3>2, <5>1 DEF Dispatcher, Accounted
        <5>3. CASE Pending(r)
          <6>1. PICK k \in Lanes, h \in 1..Len(log) : ToRun(k, h) /\ (h = r \/ Subsumes(h, r))
            BY <5>3 DEF Pending
          <6>2. LaneOf(h) = k /\ h \in Nat
            BY <2>4, <6>1
          <6>3. k = l
            BY <3>2, <5>1, <6>1, <6>2 DEF Subsumes
          <6>4. p < h
            BY <1>4, <6>1, <6>2, <6>3
          <6>5. h # r
            BY <5>1, <6>2, <6>4
          <6>6. QED BY <5>1, <6>1, <6>4, <6>5
        <5>4. CASE \E q \in 1..Len(log) : q > Frontier /\ Subsumes(q, r)
          <6>1. PICK q \in 1..Len(log) : q > Frontier /\ Subsumes(q, r)
            BY <5>4
          <6>2. p < q
            BY <1>4, <2>5, <6>1
          <6>3. QED BY <5>1, <6>1, <6>2
        <5>5. QED BY <5>2, <5>3, <5>4
      <4>3. QED BY <4>1, <4>2
    <3>3. QED BY <1>1, <2>3, <3>1, <3>2 DEF LaneRowsTrue
  <2>9. QueueTrue'
    <3>1. ASSUME NEW m \in Lanes, NEW h \in Nat, ToRun(m, h)
          PROVE  h \in 1..Frontier /\ Answered(h) /\ LaneOf(h) = m /\ laneRow'[m] < h
      <4>1. laneRow'[m] < h
        BY <1>4, <2>1, <2>4, <3>1
      <4>2. QED BY <2>4, <3>1, <4>1
    <3>2. QED BY <1>1, <1>7, <2>2, <2>3, <3>1 DEF Dispatcher, QueueTrue
  <2>10. HighTrue'
    <3>1. ASSUME NEW m \in Lanes
          PROVE  /\ high[m] <= Frontier \/ high[m] <= laneRow'[m]
                 /\ laneRow'[m] <= high[m] \/ laneRow'[m] <= mark
      <4>1. /\ high[m] <= Frontier \/ high[m] <= laneRow[m]
            /\ laneRow[m] <= high[m] \/ laneRow[m] <= mark
            /\ high[m] \in Nat /\ laneRow'[m] \in Nat
        BY <1>1, <2>1, FrontierType DEF Dispatcher, HighTrue
      <4>2. p <= mark \/ p <= high[l]
        BY <1>1, <1>4, <2>5 DEF Dispatcher, HighTrue
      <4>3. QED BY <2>1, <2>5, <4>1, <4>2
    <3>2. QED BY <1>1, <1>7, <2>3, <3>1 DEF Dispatcher, HighTrue
  <2>11. Accounted' /\ OpenTrue' /\ BegunTrue'
    BY <1>1, <1>7, <2>2, AccountedKept, OpenKept, BegunKept DEF Dispatcher
  <2>12. WorkTrue'
    <3>1. \A v \in Workers :
            \/ wpc'[v] = wpc[v] /\ wlane'[v] = wlane[v] /\ work'[v] = work[v]
            \/ wpc'[v] \notin {"run", "skip", "verify", "retire", "row"}
      BY <1>1, <1>6
    <3>2. QED BY <1>1, <1>7, <2>2, <3>1, WorkKept DEF Dispatcher
  <2>13. Stopped'
    <3>1. \A v \in Workers : Holds(v)' => Holds(v) /\ wlane'[v] = wlane[v]
      BY <1>1, <1>6 DEF Holds
    <3>2. QED BY <1>1, <2>2, <3>1, StoppedKept DEF Dispatcher
  <2>14. Publishing'
    BY <1>1, PublishKept DEF Dispatcher
  <2>15. QED
    BY <2>6, <2>7, <2>8, <2>9, <2>10, <2>11, <2>12, <2>13, <2>14 DEF Durable, Dispatcher
<1>10. QED BY <1>6, <1>8, <1>9

-----------------------------------------------------------------------------
(* The invariant.                                                          *)

LEMMA MarkInit == Init => Phases /\ Durable /\ Dispatcher
<1> SUFFICES ASSUME Init PROVE Phases /\ Durable /\ Dispatcher
  OBVIOUS
<1>1. Len(log) = 0 /\ MaxLog \in Nat
  BY EmptySeq, SizesAssumption DEF Init
<1>2. Phases
  BY <1>1 DEF Init, Phases
<1>3. SettledDown /\ RowsTrue /\ Pinned
  BY <1>1 DEF Init, SettledDown, RowsTrue, Pinned
<1>4. PlainFirst /\ MarkTrue /\ LaneRowsTrue
  BY <1>1 DEF Init, PlainFirst, MarkTrue, LaneRowsTrue
<1>5. Dispatcher
  BY DEF Init, Dispatcher, QueueTrue, HighTrue, Accounted, OpenTrue, BegunTrue, WorkTrue,
         HandTrue, Stopped, Publishing
<1>6. QED BY <1>2, <1>3, <1>4, <1>5 DEF Durable

\* Every step from a state with the reader ahead of the mark keeps the account.
LEMMA MarkNext ==
    ASSUME MarkInv, Ahead, [Next]_vars PROVE Phases' /\ Durable' /\ Dispatcher'
<1> USE DEF MarkInv
<1>1. HeadInv /\ TypeOK /\ Ownership /\ QueueSound /\ QueueTrue
  BY DEF HeadInv, Dispatcher
<1>2. Phases'
  BY <1>1, PhasesNext
<1>3. CASE AppendEvent
  BY <1>1, <1>2, <1>3, AppendKeepsRecord, AppendKeepsDispatcher
<1>4. CASE Start
  BY <1>1, <1>2, <1>4, StartKeepsRecord, StartKeepsDispatcher
<1>5. CASE Crash \/ Rewind \/ SweepInvocation
  BY <1>1, <1>2, <1>5, CrashKeeps, RewindKeeps, SweepKeeps
<1>6. CASE RequestSkip \/ UNCHANGED vars
  BY <1>1, <1>2, <1>6, QuietRest, QuietKeeps
<1>7. CASE Reader
  <2>1. CASE \/ \E l \in Lanes : Wake(l)
             \/ Promoted \/ Poll \/ PrunePassed \/ Resubscribe
             \/ ReadMark /\ rpc' # "persist"
             \/ DriverError /\ mark' = mark /\ laneRow' = laneRow
    BY <1>1, <1>2, <2>1, QuietReader, QuietKeeps
  <2>2. CASE AdmitNext
    BY <1>1, <1>2, <2>2, AdmitKeepsRecords
  <2>3. CASE ReadMark /\ rpc' = "persist"
    BY <1>1, <1>2, <2>3, ReadMarkKeeps
  <2>4. CASE PersistMark \/ (DriverError /\ mark' # mark)
    BY <1>1, <1>2, <2>4, MarkMoves
  <2>5. CASE ForgetPassed
    BY <1>1, <1>2, <2>5, ForgetKeeps
  <2>6. CASE SweepRows \/ (DriverError /\ laneRow' # laneRow)
    BY <1>1, <1>2, <2>6, RowsSwept
  <2>7. QED
    BY <1>7, <2>1, <2>2, <2>3, <2>4, <2>5, <2>6 DEF Reader
<1>8. CASE \E w \in Workers : Worker(w)
  <2>1. PICK w \in Workers : Worker(w)
    BY <1>8
  <2>2. CASE \/ PopLane(w) \/ ClaimLane(w) \/ TakeHead(w) \/ Fail(w) \/ NoteLaneRow(w)
             \/ ReleaseLane(w)
    BY <1>1, <1>2, <2>2, QuietWorker, QuietKeeps
  <2>3. CASE Begin(w)
    BY <1>1, <1>2, <2>3, BeginKeeps
  <2>4. CASE SkipWedged(w) \/ Finish(w) \/ LoseAnswer(w)
    BY <1>1, <1>2, <2>4, SettlingKeeps
  <2>5. CASE Replay(w) \/ Retire(w) \/ RecordLaneRow(w)
    BY <1>1, <1>2, <2>5, ReplayKeeps, RetireKeeps, RowKeeps
  <2>6. QED BY <2>1, <2>2, <2>3, <2>4, <2>5 DEF Worker
<1>9. QED BY <1>3, <1>4, <1>5, <1>6, <1>7, <1>8 DEF Next

\* While the reader is not behind the persisted mark, everything the mark, the lane
\* rows and the invocation rows say is true, and the dispatcher has lost nothing.
THEOREM AccountKept == Spec /\ []Ahead => []MarkInv
<1>1. Init => Phases /\ Durable /\ Dispatcher
  BY MarkInit
<1>2. /\ TypeOK /\ Ownership /\ QueueSound /\ QueuedAboveMark /\ FrozenHead
      /\ Folded /\ Ahead /\ Phases /\ Durable /\ Dispatcher /\ [Next]_vars
      => (Phases /\ Durable /\ Dispatcher)'
  BY MarkNext DEF MarkInv, HeadInv
<1>3. /\ TypeOK /\ Ownership /\ QueueSound /\ QueuedAboveMark /\ FrozenHead
      /\ Folded /\ Phases /\ Durable /\ Dispatcher
      => MarkInv
  BY DEF MarkInv, HeadInv
<1>4. QED
  BY <1>1, <1>2, <1>3, TypeCorrect, OwnershipCorrect, QueuesAboveMark, QueuesFolded, PTL
     DEF Spec

-----------------------------------------------------------------------------
(* What the account is kept for.                                           *)

\* The mark passes nothing that is not over with: what lies behind it is settled or
\* will be made redundant, no invocation it has passed is still running, and a
\* divergence holds it.
THEOREM MarkIsSound == Spec /\ []Ahead => []MarkSound
<1>1. ASSUME TypeOK, MarkInv PROVE MarkSound
  <2>1. mark \in Nat /\ Len(log) \in Nat /\ mark <= Len(log)
    BY <1>1, FrontierType
  <2>2. ASSUME NEW p \in 1..Lesser(mark, Len(log)), Answered(p)
        PROVE  p \in settled \/ \E q \in (mark + 1)..Len(log) : Subsumes(q, p)
    <3>1. p \in 1..Len(log) /\ p <= mark
      BY <2>1 DEF Lesser
    <3>2. p \in settled \/ \E q \in 1..Len(log) : mark < q /\ Subsumes(q, p)
      BY <1>1, <2>2, <3>1 DEF MarkInv, Durable, MarkTrue
    <3>3. \A q \in 1..Len(log) : mark < q => q \in (mark + 1)..Len(log)
      BY <2>1
    <3>4. QED BY <3>2, <3>3
  <2>3. MarkLosesNothing
    BY <2>2 DEF MarkLosesNothing
  <2>4. NoAbandonedRun /\ QuarantinePins
    BY <1>1 DEF NoAbandonedRun, QuarantinePins, MarkInv, Durable, RowsTrue, Pinned
  <2>5. QED BY <2>3, <2>4 DEF MarkSound
<1>2. QED BY <1>1, TypeCorrect, AccountKept, PTL

\* A resume that starts a lane at its row skips nothing that is not settled and that no
\* newer event will settle (the first half of RecordsSound; RecordsAreSound has both).
THEOREM RowsAreSound == Spec /\ []Ahead => []RowsStrandNothing
<1>1. ASSUME TypeOK, MarkInv PROVE RowsStrandNothing
  <2>1. Len(log) \in Nat /\ \A l \in Lanes : laneRow[l] \in Nat
    BY <1>1, FrontierType
  <2>2. ASSUME NEW l \in Lanes, NEW p \in 1..Lesser(laneRow[l], Len(log)),
               Answered(p), LaneOf(p) = l
        PROVE  p \in settled \/ \E q \in (laneRow[l] + 1)..Len(log) : Subsumes(q, p)
    <3>1. p \in 1..Len(log) /\ p <= laneRow[l]
      BY <2>1 DEF Lesser
    <3>2. p \in settled \/ \E q \in 1..Len(log) : laneRow[l] < q /\ Subsumes(q, p)
      BY <1>1, <2>2, <3>1 DEF MarkInv, Durable, LaneRowsTrue
    <3>3. \A q \in 1..Len(log) : laneRow[l] < q => q \in (laneRow[l] + 1)..Len(log)
      BY <2>1
    <3>4. QED BY <3>2, <3>3
  <2>3. QED BY <2>2 DEF RowsStrandNothing
<1>2. QED BY <1>1, TypeCorrect, AccountKept, PTL

-----------------------------------------------------------------------------
(* Reservations.                                                           *)

\* Only a worker's begin_invocation makes a row running.
LEMMA OnlyBeginReserves ==
    ASSUME TypeOK, [Next]_vars, ~(\E w \in Workers : Begin(w)), NEW p \in Positions
    PROVE  ~Reserves(p)
<1> USE DEF Reserves
<1>1. CASE UNCHANGED status
  BY <1>1
<1>2. CASE Rewind \/ SweepInvocation
  BY <1>2 DEF Rewind, SweepInvocation, TypeOK, StoreTypeOK
<1>3. CASE \E w \in Workers : MakeTerminal(w)
  BY <1>3 DEF MakeTerminal, TypeOK, StoreTypeOK
<1>4. CASE AppendEvent \/ Start \/ Crash \/ RequestSkip \/ UNCHANGED vars
  BY <1>1, <1>4 DEF AppendEvent, Start, Crash, RequestSkip, vars
<1>5. CASE Reader
  BY <1>1, <1>5 DEF Reader, Wake, Promoted, Poll, AdmitNext, ReadMark, PersistMark,
     ForgetPassed, SweepRows, PrunePassed, DriverError, Resubscribe
<1>6. ASSUME NEW w \in Workers, Worker(w) PROVE ~Reserves(p)
  <2>1. CASE SkipWedged(w) \/ Finish(w) \/ LoseAnswer(w)
    BY <1>3, <2>1 DEF SkipWedged, Finish, LoseAnswer
  <2>2. CASE \/ PopLane(w) \/ ClaimLane(w) \/ TakeHead(w) \/ Fail(w) \/ Replay(w)
             \/ Retire(w) \/ RecordLaneRow(w) \/ NoteLaneRow(w) \/ ReleaseLane(w)
    BY <1>1, <2>2 DEF PopLane, ClaimLane, TakeHead, Fail, Replay, Retire, RecordLaneRow,
       NoteLaneRow, ReleaseLane
  <2>3. QED BY <1>6, <2>1, <2>2 DEF Worker
<1>7. QED BY <1>2, <1>4, <1>5, <1>6 DEF Next

\* What begin_invocation reserves lies above the mark, and a plain position is
\* reserved before anything newer in its lane.
LEMMA BeginReserves ==
    ASSUME MarkInv, NEW w \in Workers, Begin(w), NEW p \in Positions, Reserves(p)
    PROVE  p > mark /\ InOrder(p)
<1>1. HeadInv /\ TypeOK /\ Folded /\ Phases /\ Durable /\ Dispatcher /\ up /\ Holds(w)
  BY DEF MarkInv, HeadInv, Begin, At, Holds
<1>2. work[w].position = p
  BY <1>1 DEF Begin, Reserves, TypeOK, StoreTypeOK
<1>3. PICK l \in Lanes : wlane[w] = l
  BY <1>1 DEF TypeOK, PoolTypeOK
<1>4. /\ p \in 1..Len(log) /\ p \in Nat /\ Answered(p) /\ mark < p /\ mark \in Nat
      /\ Len(log) \in Nat
  BY <1>1, <1>2, <1>3, HeldFacts, FrontierType
<1>5. ASSUME ~Collapsible(ArmOf(p), LaneOf(p)), NEW q \in (p + 1)..Len(log), SameLane(p, q)
      PROVE  status[q] = "none"
  <2>1. q \in 1..Len(log) /\ p < q /\ Plain(p)
    BY <1>4, <1>5 DEF Plain
  <2>2. status[q] # "none" => status[p] = "terminal"
    BY <1>1, <1>4, <1>5, <2>1 DEF Durable, PlainFirst
  <2>3. QED BY <2>2 DEF Reserves
<1>6. QED BY <1>4, <1>5 DEF InOrder

\* A position is begun above the mark, where its records are safe from the sweep, and a
\* plain one before anything newer in its lane (begin_invocation, run_lane).
THEOREM ReservedInOrder == Spec /\ []Ahead => ReservesSoundly
<1>1. TypeOK /\ MarkInv /\ [Next]_vars =>
        [\A p \in Positions : Reserves(p) => p > mark /\ InOrder(p)]_vars
  BY OnlyBeginReserves, BeginReserves
<1>2. QED
  BY <1>1, TypeCorrect, AccountKept, PTL DEF Spec, ReservesSoundly

-----------------------------------------------------------------------------
(* The promise.                                                            *)

\* The two modules read the log alike.
LEMMA SameReading ==
    /\ \A p : Delivered!Answered(p) <=> Answered(p)
    /\ \A p : Delivered!Folds(p) <=> ~Plain(p)
    /\ \A p : Delivered!LaneOf(p) = LaneOf(p)
    /\ \A p \in Nat : \A q : q \in Delivered!Folded(p) <=>
         q \in 1..p /\ Answered(q) /\ Subsumes(p, q)
<1>1. \A p : Delivered!Answered(p) <=> Answered(p)
  BY DEF Delivered!Answered, Delivered!ArmOf, Answered, AnswersUnder, ArmOf
<1>2. \A p : Delivered!Folds(p) <=> ~Plain(p)
  BY DEF Delivered!Folds, Delivered!ArmOf, Delivered!LaneOf, Plain, Collapsible, ArmOf, LaneOf
<1>3. \A p : Delivered!LaneOf(p) = LaneOf(p) /\ Delivered!ArmOf(p) = ArmOf(p)
  BY DEF Delivered!LaneOf, Delivered!ArmOf, LaneOf, ArmOf
<1>4. \A p \in Nat : \A q : q \in Delivered!Folded(p) <=>
        q \in 1..p /\ Answered(q) /\ Subsumes(p, q)
  <2> SUFFICES ASSUME NEW p \in Nat, NEW q
               PROVE  q \in Delivered!Folded(p) <=>
                        q \in 1..p /\ Answered(q) /\ Subsumes(p, q)
    OBVIOUS
  <2>1. q \in 1..(p - 1) <=> q \in 1..p /\ p > q
    OBVIOUS
  <2>2. q \in Delivered!Folded(p) <=>
          /\ q \in 1..(p - 1) /\ Answered(q) /\ ~Plain(q)
          /\ ArmOf(q) = ArmOf(p) /\ LaneOf(q) = LaneOf(p)
    BY <1>1, <1>2, <1>3 DEF Delivered!Folded
  <2>3. QED
    BY <2>1, <2>2 DEF Subsumes, Plain
<1>5. QED BY <1>1, <1>2, <1>3, <1>4

\* Making a row terminal settles its position and all it makes redundant, in order, or
\* nothing that was not settled already.
LEMMA TerminalDelivers ==
    ASSUME MarkInv, NEW w \in Workers, up, Holds(w), MakeTerminal(w),
           UNCHANGED <<log, boundary, mark>>
    PROVE  [Delivered!Next]_Delivered!vars
<1>1. HeadInv /\ TypeOK /\ Folded /\ Phases /\ Durable /\ Dispatcher
  BY DEF MarkInv, HeadInv
<1>2. PICK l \in Lanes : wlane[w] = l
  BY <1>1 DEF TypeOK, PoolTypeOK
<1>3. PICK p : work[w].position = p
  OBVIOUS
<1>4. /\ p \in 1..Len(log) /\ p \in Nat /\ Answered(p) /\ LaneOf(p) = l
      /\ \A r \in 1..Len(log) :
           r < p /\ LaneOf(r) = l /\ Answered(r) /\ Plain(r) => r \in settled
  BY <1>1, <1>2, <1>3, HeldFacts
<1>5. settled' = settled \cup Settles(p)
  BY <1>3 DEF MakeTerminal
<1>6. CASE p \in settled
  <2>1. \A q \in 1..p : Answered(q) /\ Subsumes(p, q) => q \in settled
    BY <1>1, <1>6 DEF Durable, SettledDown, Answered
  <2>2. settled' = settled
    BY <1>5, <1>6, <2>1 DEF Settles
  <2>3. QED BY <2>2 DEF Delivered!vars
<1>7. CASE p \notin settled
  <2>1. boundary # -1 /\ Delivered!Answered(p)
    BY <1>1, <1>4, SameReading DEF Phases, Inactive
  <2>2. Settles(p) = {p} \cup Delivered!Folded(p)
    <3>1. \A q : q \in Delivered!Folded(p) <=>
            q \in 1..p /\ Answered(q) /\ Subsumes(p, q)
      BY <1>4, SameReading
    <3>2. QED BY <3>1 DEF Settles
  <2>3. ASSUME NEW q \in 1..(p - 1), Delivered!Answered(q), ~Delivered!Folds(q),
               Delivered!LaneOf(q) = Delivered!LaneOf(p)
        PROVE  q \in settled
    <3>1. Answered(q) /\ Plain(q) /\ LaneOf(q) = l
      BY <1>4, <2>3, SameReading
    <3>2. q \in 1..Len(log) /\ q < p
      BY <1>4, <3>1 DEF Answered
    <3>3. QED BY <1>4, <3>1, <3>2
  <2>4. settled' = settled \cup {p} \cup Delivered!Folded(p)
    BY <1>5, <2>2
  <2>5. Delivered!Settle(p)
    BY <1>7, <2>1, <2>3, <2>4 DEF Delivered!Settle
  <2>6. QED BY <1>4, <2>5 DEF Delivered!Next
<1>8. QED BY <1>6, <1>7

\* A mark that moves advances over what is over with.
LEMMA MarkDelivers ==
    ASSUME MarkInv, up, rpc = "persist", mark' = pub, UNCHANGED <<log, boundary, settled>>
    PROVE  [Delivered!Next]_Delivered!vars
<1>1. HeadInv /\ TypeOK /\ Folded /\ Phases /\ Durable /\ Dispatcher
  BY DEF MarkInv, HeadInv
<1>2. /\ mark <= pub /\ pub <= Len(log) /\ pub \in Nat /\ mark \in Nat /\ Len(log) \in Nat
  BY <1>1, FrontierType DEF Phases, TypeOK, ReaderTypeOK
<1>3. CASE pub = mark
  BY <1>3 DEF Delivered!vars
<1>4. CASE pub # mark
  <2>1. ASSUME NEW p \in 1..pub, Delivered!Answered(p)
        PROVE  p \in settled \/ \E q \in (pub + 1)..Len(log) : p \in Delivered!Folded(q)
    <3>1. p \in 1..Len(log) /\ p <= pub /\ p \in Nat /\ Answered(p)
      BY <1>2, <2>1, SameReading
    <3>2. p \in settled \/ \E q \in 1..Len(log) : pub < q /\ Subsumes(q, p)
      BY <1>1, <3>1 DEF Dispatcher, Publishing
    <3>3. ASSUME NEW q \in 1..Len(log), pub < q, Subsumes(q, p)
          PROVE  q \in (pub + 1)..Len(log) /\ p \in Delivered!Folded(q)
      <4>1. q \in Nat /\ q \in (pub + 1)..Len(log) /\ p \in 1..q
        BY <1>2, <3>1, <3>3
      <4>2. QED BY <3>1, <3>3, <4>1, SameReading
    <3>4. QED BY <3>2, <3>3
  <2>2. Delivered!Advance(pub)
    BY <1>2, <1>4, <2>1 DEF Delivered!Advance
  <2>3. pub \in 1..Len(log)
    BY <1>2, <1>4
  <2>4. QED BY <2>2, <2>3 DEF Delivered!Next
<1>5. QED BY <1>3, <1>4

\* The process and its surroundings: the boundary is resolved, an event arrives, an
\* operator goes back.
LEMMA OutsideDelivers ==
    ASSUME TypeOK, Start \/ AppendEvent \/ Rewind
    PROVE  [Delivered!Next]_Delivered!vars
<1>1. CASE Start
  <2>1. CASE boundary = Inactive
    <3>1. Delivered!Activate
      BY <1>1, <2>1 DEF Start, Delivered!Activate, Inactive
    <3>2. QED BY <3>1 DEF Delivered!Next
  <2>2. CASE boundary # Inactive
    BY <1>1, <2>2 DEF Start, Delivered!vars
  <2>3. QED BY <2>1, <2>2
<1>2. CASE AppendEvent
  <2>1. Delivered!AppendEvent
    BY <1>2 DEF AppendEvent, Delivered!AppendEvent
  <2>2. QED BY <2>1 DEF Delivered!Next
<1>3. CASE Rewind
  <2>1. PICK to \in 0..mark, live \in BOOLEAN :
          /\ mark' = to /\ settled' = {p \in settled : p <= to}
          /\ boundary' = IF live /\ boundary > to THEN to ELSE boundary
    BY <1>3 DEF Rewind
  <2>2. log' = log /\ to <= mark
    BY <1>3, FrontierType DEF Rewind
  <2>3. Delivered!Rewind(to, live)
    BY <2>1, <2>2 DEF Delivered!Rewind
  <2>4. QED BY <2>3 DEF Delivered!Next
<1>4. QED BY <1>1, <1>2, <1>3

\* Every step of the dispatcher, the pool and the operator is one of EffectDelivery or
\* changes none of what it speaks of.
LEMMA StepDelivers ==
    ASSUME MarkInv, [Next]_vars PROVE [Delivered!Next]_Delivered!vars
<1>1. TypeOK
  BY DEF MarkInv, HeadInv
<1>2. CASE UNCHANGED <<log, boundary, settled, mark>>
  BY <1>2 DEF Delivered!vars
<1>3. CASE Start \/ AppendEvent \/ Rewind
  BY <1>1, <1>3, OutsideDelivers
<1>4. CASE Crash \/ RequestSkip \/ SweepInvocation \/ UNCHANGED vars
  BY <1>2, <1>4 DEF Crash, RequestSkip, SweepInvocation, vars
<1>5. CASE Reader
  <2>1. CASE PersistMark
    BY <2>1, MarkDelivers DEF PersistMark, Reading
  <2>2. CASE DriverError
    <3>1. up /\ (mark' = mark \/ (rpc = "persist" /\ mark' = pub))
          /\ UNCHANGED <<log, boundary, settled>>
      BY <2>2 DEF DriverError
    <3>2. QED BY <1>2, <3>1, MarkDelivers
  <2>3. CASE \/ \E l \in Lanes : Wake(l)
             \/ Promoted \/ Poll \/ AdmitNext \/ ReadMark \/ ForgetPassed
             \/ SweepRows \/ PrunePassed \/ Resubscribe
    BY <1>2, <2>3 DEF Wake, Promoted, Poll, AdmitNext, ReadMark, ForgetPassed, SweepRows,
       PrunePassed, Resubscribe
  <2>4. QED BY <1>5, <2>1, <2>2, <2>3 DEF Reader
<1>6. ASSUME NEW w \in Workers, Worker(w) PROVE [Delivered!Next]_Delivered!vars
  <2>1. CASE SkipWedged(w) \/ Finish(w) \/ LoseAnswer(w)
    <3>1. /\ up /\ Holds(w) /\ MakeTerminal(w) /\ UNCHANGED <<log, boundary, mark>>
      BY <2>1 DEF SkipWedged, Finish, LoseAnswer, At, Holds, Park
    <3>2. QED BY <3>1, TerminalDelivers
  <2>2. CASE \/ PopLane(w) \/ ClaimLane(w) \/ TakeHead(w) \/ Begin(w) \/ Fail(w)
             \/ Replay(w) \/ Retire(w) \/ RecordLaneRow(w) \/ NoteLaneRow(w)
             \/ ReleaseLane(w)
    BY <1>2, <2>2 DEF PopLane, ClaimLane, TakeHead, Begin, Fail, Park, Replay, Retire,
       RecordLaneRow, NoteLaneRow, ReleaseLane
  <2>3. QED BY <1>6, <2>1, <2>2 DEF Worker
<1>7. QED BY <1>3, <1>4, <1>5, <1>6 DEF Next

\* The dispatcher keeps the promise: every answered event is settled, plain arms in log
\* order within their lane, and the mark passes an unsettled one only if a newer event
\* that settles it too is still ahead.
THEOREM DeliveryRefinement == Spec /\ []Ahead => ImplementsDelivery
<1>1. Init => Delivered!Init
  BY DEF Init, Delivered!Init, Inactive
<1>2. MarkInv /\ [Next]_vars => [Delivered!Next]_Delivered!vars
  BY StepDelivers
<1>3. QED
  BY <1>1, <1>2, AccountKept, PTL DEF Spec, ImplementsDelivery, Delivered!Spec

\* Rewinds and skips, at any time, keep the promise, and a skip ends only a position
\* that was asked for and that its lane is failing on (skip_requested, attempt).
THEOREM OperatorKept == Spec /\ []Ahead => OperatorBound
BY DeliveryRefinement, SkipsBound DEF OperatorBound

-----------------------------------------------------------------------------
(* When the reader is not behind the mark.                                 *)
(*                                                                         *)
(* Only a re-subscription puts the reader back, to the persisted mark, and *)
(* the scan stays where it was.  The mark may then be read off the scan    *)
(* before the reader is back there.  It cannot where no read or write      *)
(* fails, so that there is no re-subscription, nor where one batch reaches *)
(* the end of the log and the pool is never too full to fetch it.          *)

OneBatch == BatchCap >= MaxLog /\ MaxInflight > MaxLog

\* The inductive invariant behind Ahead.
Reached ==
    /\ Len(log) <= MaxLog
    /\ up =>
         /\ mark <= seen
         /\ rpc # "admit" => seen = cursor
         /\ rpc \in {"admit", "mark", "persist"} => scanned <= cursor
         /\ rpc = "persist" => pub <= cursor
         /\ ~StoreFails => scanned <= cursor /\ rpc # "resubscribe"

\* No more is in flight than there are events.
LEMMA InflightBound ==
    ASSUME TypeOK, QueueSound, Held, Len(log) <= MaxLog
    PROVE  Cardinality(inflight) \in Nat /\ Cardinality(inflight) <= MaxLog
<1>1. Len(log) \in Nat /\ MaxLog \in Nat
  BY LogLength, SizesAssumption
<1>2. inflight \subseteq 1..Len(log)
  BY DEF Held, QueueSound
<1>3. IsFiniteSet(1..Len(log)) /\ Cardinality(1..Len(log)) = Len(log)
  <2>1. 1 \in Int /\ Len(log) \in Int
    BY <1>1
  <2>2. /\ IsFiniteSet(1..Len(log))
        /\ Cardinality(1..Len(log)) = IF 1 > Len(log) THEN 0 ELSE Len(log) - 1 + 1
    BY <2>1, FS_Interval
  <2>3. QED BY <1>1, <2>2
<1>4. /\ IsFiniteSet(inflight) /\ Cardinality(inflight) <= Cardinality(1..Len(log))
  BY <1>2, <1>3, FS_Subset
<1>5. Cardinality(inflight) \in Nat
  BY <1>4, FS_CardinalityType
<1>6. QED BY <1>1, <1>3, <1>4, <1>5

\* Steps that leave the reader alone keep it where it is.
LEMMA ReachedFrame ==
    ASSUME Reached,
           UNCHANGED <<log, up, mark, rpc, cursor, seen, scanned, pub>>
    PROVE  Reached'
BY DEF Reached

LEMMA ReachedNext ==
    ASSUME ~StoreFails \/ OneBatch, HeadInv, Folded, Reached, [Next]_vars
    PROVE  Reached'
<1> USE DEF HeadInv
<1>0. /\ Len(log) \in Nat /\ scanned \in Nat /\ seen \in Nat /\ cursor \in Nat
      /\ mark \in Nat /\ pub \in Nat /\ cursor <= Len(log) /\ scanned <= Len(log)
      /\ MaxLog \in Nat /\ BatchCap \in Nat /\ MaxInflight \in Nat
      /\ Len(log) <= MaxLog
  BY FrontierType, SizesAssumption DEF TypeOK, ReaderTypeOK, Reached
<1>1. CASE AppendEvent
  <2>1. Len(log') = Len(log) + 1 /\ Len(log) < MaxLog
    BY <1>1, GrownLog DEF AppendEvent
  <2>2. UNCHANGED <<up, mark, seen, cursor, scanned, pub, rpc>>
    BY <1>1 DEF AppendEvent
  <2>3. QED BY <1>0, <2>1, <2>2 DEF Reached
<1>2. CASE Start
  <2>1. /\ cursor' = mark /\ seen' = mark /\ scanned' = mark /\ mark' = mark
        /\ log' = log /\ rpc' \in {"promote", "stopped"}
    BY <1>2 DEF Start, Resuming
  <2>2. QED BY <1>0, <2>1 DEF Reached
<1>3. CASE Crash \/ Rewind
  <2>1. CASE Crash
    BY <1>0, <2>1 DEF Crash, Reached
  <2>2. CASE Rewind
    BY <1>0, <2>2 DEF Rewind, Reached
  <2>3. QED BY <1>3, <2>1, <2>2
<1>4. CASE RequestSkip \/ SweepInvocation \/ UNCHANGED vars
  <2>1. UNCHANGED <<log, up, mark, rpc, cursor, seen, scanned, pub>>
    BY <1>4 DEF RequestSkip, SweepInvocation, vars
  <2>2. QED BY <2>1, ReachedFrame
<1>5. CASE Reader
  <2>1. CASE (\E l \in Lanes : Wake(l)) \/ Promoted
    <3>1. /\ UNCHANGED <<log, up, mark, cursor, seen, scanned, pub>> /\ up
          /\ rpc = "promote" /\ rpc' \in {"promote", "poll"}
      BY <2>1 DEF Wake, Promoted, Reading
    <3>2. QED BY <3>1 DEF Reached
  <2>2. CASE Poll
    <3>1. /\ up /\ rpc = "poll" /\ UNCHANGED <<log, up, mark, seen, scanned, pub>>
          /\ \/ /\ Cardinality(inflight) >= MaxInflight \/ cursor = Len(log)
                /\ rpc' = "mark" /\ cursor' = cursor
             \/ rpc' = "admit" /\ cursor' = Lesser(Len(log), cursor + BatchCap)
      BY <2>2 DEF Poll, Reading
    <3>2. Cardinality(inflight) \in Nat /\ Cardinality(inflight) <= MaxLog
      BY <1>0, InflightBound DEF Folded
    <3>3. scanned <= cursor'
      <4>1. CASE ~StoreFails
        <5>1. scanned <= cursor
          BY <3>1, <4>1 DEF Reached
        <5>2. QED BY <1>0, <3>1, <5>1 DEF Lesser
      <4>2. CASE OneBatch
        BY <1>0, <3>1, <3>2, <4>2 DEF OneBatch, Lesser
      <4>3. QED BY <4>1, <4>2
    <3>4. QED BY <3>1, <3>3 DEF Reached
  <2>3. CASE AdmitNext
    <3>1. /\ up /\ rpc = "admit" /\ UNCHANGED <<log, up, mark, cursor, pub>>
          /\ seen' = seen + 1
          /\ \/ seen + 1 = cursor /\ scanned' = Greater(scanned, cursor) /\ rpc' = "mark"
             \/ rpc' = "admit" /\ scanned' = scanned
      BY <2>3 DEF AdmitNext, Reading, SetScanned
    <3>2. QED BY <1>0, <3>1 DEF Reached, Greater
  <2>4. CASE ReadMark
    <3>1. /\ up /\ rpc = "mark" /\ UNCHANGED <<log, up, mark, seen, scanned, cursor>>
          /\ \/ rpc' \in {"stopped", "promote"}
             \/ rpc' = "persist" /\ pub' = LowWater
      BY <2>4 DEF ReadMark, PassEnds, Reading
    <3>2. LowWater \in Nat /\ LowWater <= scanned
      BY <1>0, LowWaterBounds DEF TypeOK, LaneTypeOK
    <3>3. QED BY <1>0, <3>1, <3>2 DEF Reached
  <2>5. CASE PersistMark
    <3>1. /\ up /\ rpc = "persist" /\ rpc' = "forget" /\ mark' = pub
          /\ UNCHANGED <<log, up, seen, scanned, cursor, pub>>
      BY <2>5 DEF PersistMark, Reading
    <3>2. QED BY <3>1 DEF Reached
  <2>6. CASE ForgetPassed \/ SweepRows \/ PrunePassed
    <3>1. /\ up /\ rpc \in {"forget", "sweep", "prune"}
          /\ rpc' \in {"sweep", "prune", "stopped", "promote"}
          /\ UNCHANGED <<up, log, mark, seen, scanned, cursor, pub>>
      BY <2>6 DEF ForgetPassed, SweepRows, PrunePassed, PassEnds, Reading
    <3>2. QED BY <3>1 DEF Reached
  <2>7. CASE DriverError
    <3>1. /\ up /\ StoreFails /\ rpc \in {"poll", "persist", "sweep"}
          /\ mark' = mark \/ (rpc = "persist" /\ mark' = pub)
          /\ rpc' = "resubscribe" /\ UNCHANGED <<log, up, seen, scanned, cursor>>
      BY <2>7 DEF DriverError
    <3>2. QED BY <3>1 DEF Reached
  <2>8. CASE Resubscribe
    <3>1. /\ up /\ rpc = "resubscribe" /\ UNCHANGED <<log, up, mark>>
          /\ \/ rpc' = "stopped" /\ UNCHANGED <<cursor, seen, scanned>>
             \/ rpc' = "promote" /\ cursor' = mark /\ seen' = mark
      BY <2>8 DEF Resubscribe, Reading
    <3>2. QED BY <1>0, <3>1 DEF Reached
  <2>9. QED
    BY <1>5, <2>1, <2>2, <2>3, <2>4, <2>5, <2>6, <2>7, <2>8 DEF Reader
<1>6. CASE \E w \in Workers : Worker(w)
  <2>1. PICK w \in Workers : Worker(w)
    BY <1>6
  <2>2. UNCHANGED <<log, up, mark, rpc, cursor, seen, scanned, pub>>
    BY <2>1 DEF Worker, PopLane, ClaimLane, TakeHead, Begin, SkipWedged, Finish, Fail,
                LoseAnswer, Park, Replay, Retire, RecordLaneRow, NoteLaneRow,
                ReleaseLane, At
  <2>3. QED BY <2>2, ReachedFrame
<1>7. QED BY <1>1, <1>2, <1>3, <1>4, <1>5, <1>6 DEF Next

\* The reader is never behind the persisted mark where nothing makes supervise run the
\* driver again, and where a re-subscription is followed by a batch that reaches the
\* end of the log.
THEOREM NeverBehind ==
    ASSUME ~StoreFails \/ OneBatch PROVE Spec => []Ahead
<1>1. Init => Reached
  BY EmptySeq, SizesAssumption DEF Init, Reached
<1>2. /\ TypeOK /\ Ownership /\ QueueSound /\ QueuedAboveMark /\ FrozenHead
      /\ Folded /\ Reached /\ [Next]_vars
      => Reached'
  BY ReachedNext DEF HeadInv
<1>3. Reached => Ahead
  BY DEF Reached, Ahead
<1>4. QED
  BY <1>1, <1>2, <1>3, TypeCorrect, OwnershipCorrect, QueuesAboveMark, QueuesFolded, PTL
     DEF Spec

\* There the mark, the reservations and the promise hold with no further hypothesis.
THEOREM DispatcherSound ==
    ASSUME ~StoreFails \/ OneBatch
    PROVE  Spec => []MarkSound /\ []RowsStrandNothing /\ ReservesSoundly /\ ImplementsDelivery
BY NeverBehind, MarkIsSound, RowsAreSound, ReservedInOrder, DeliveryRefinement, PTL

-----------------------------------------------------------------------------
(* Folding across a restart.                                               *)
(*                                                                         *)
(* What an earlier process began is known to the dispatcher but queued     *)
(* only when the reader gets there.  A worker that begins before that may  *)
(* run a position a recorded newer one made redundant long ago, and a      *)
(* dispatcher that is blind to what was recorded folds nothing.  This is   *)
(* finding 2 of the README.  CaughtUp and Sighted say that neither is the  *)
(* case, as Ahead does for finding 3; under them no run of an on latest    *)
(* arm is followed by a first run of anything older, and the ranges of     *)
(* terminal invocations are disjoint.                                      *)

\* The reader has got to everything an earlier process began.
AllReached == \A q \in Positions : status[q] # "none" => q <= Frontier

\* No worker owns a lane before it has.
CaughtUp == up /\ (\E w \in Workers : Owns(w)) => AllReached

\* The dispatcher knows all that was begun.
Sighted == up => ~blind

\* Events of one arm in one lane.
Alike(p, q) == SameLane(p, q) /\ ArmOf(p) = ArmOf(q)

\* A group of lane l and arm a covers k to h.
Grouped(l, k, h, a) ==
    \E i \in 1..Len(queues[l]) :
      queues[l][i].lo = k /\ queues[l][i].hi = h /\ queues[l][i].arm = a

\* While a position runs nothing newer of its arm and lane has a row.
RunningLast ==
    \A p, q \in Positions :
      status[p] = "running" /\ p < q /\ q <= Len(log) /\ Alike(p, q) => status[q] = "none"

\* A group runs an event of its arm, and what it folds has no row.
GroupsTrue ==
    up => \A l \in Lanes : \A k, h \in Nat : \A a \in Arms : Grouped(l, k, h, a) =>
      /\ ArmOf(h) = a
      /\ \A x \in 1..Len(log) : k <= x /\ x < h /\ Alike(x, h) => status[x] = "none"

\* An open group runs the newest event of its arm and lane that was considered.
OpenLast ==
    up => \A l \in Lanes : \A a \in Arms : \A o \in Nat \ {0} : latest[l][a] = o =>
      \A x \in 1..Len(log) : o < x /\ x <= Frontier => ~(LaneOf(x) = l /\ ArmOf(x) = a)

\* What the dispatcher takes for begun has a row.
BegunReal == up => \A p \in Positions : p \in begun /\ p > mark => status[p] # "none"

\* What is queued to be run for the first time is not made redundant by anything on
\* record, unless that is still ahead and the group is open to it.
Newest ==
    up => \A l \in Lanes : \A h \in Nat : ToRun(l, h) /\ status[h] = "none" =>
      \A q \in 1..Len(log) : Subsumes(q, h) /\ status[q] # "none" =>
        q > Frontier /\ latest[l][ArmOf(h)] = h

\* The inductive invariant, given MarkInv, CaughtUp and Sighted.
LatestInv ==
    RunningLast /\ CoveredOnce /\ GroupsTrue /\ OpenLast /\ BegunReal /\ Newest

\* What is to run is the end of a group, and what a group ends in is to run.
LEMMA GroupedRuns ==
    ASSUME TypeOK, NEW l \in Lanes
    PROVE  /\ \A k, h, a : Grouped(l, k, h, a) =>
                k \in Nat /\ h \in Nat /\ a \in Arms /\ ToRun(l, h)
           /\ \A h : ToRun(l, h) => \E k \in Nat : \E a \in Arms : Grouped(l, k, h, a)
BY QueueType DEF Grouped, ToRun

\* Groups of one arm lie apart.
LEMMA GroupsApart ==
    ASSUME TypeOK, Folded, NEW l \in Lanes, NEW a, NEW k, NEW h, NEW j, NEW g,
           Grouped(l, k, h, a), Grouped(l, j, g, a), h < g
    PROVE  h < j
<1>1. PICK i \in 1..Len(queues[l]) :
        queues[l][i].lo = k /\ queues[l][i].hi = h /\ queues[l][i].arm = a
  BY DEF Grouped
<1>2. PICK n \in 1..Len(queues[l]) :
        queues[l][n].lo = j /\ queues[l][n].hi = g /\ queues[l][n].arm = a
  BY DEF Grouped
<1>3. FoldedLane(l) /\ h \in Nat /\ g \in Nat /\ Len(queues[l]) \in Nat
  BY <1>1, <1>2, QueueType DEF Folded
<1>4. CASE i < n
  BY <1>1, <1>2, <1>3, <1>4 DEF FoldedLane
<1>5. CASE ~(i < n)
  <2>1. n < i \/ n = i
    BY <1>3, <1>5
  <2>2. n < i => g < h
    BY <1>1, <1>2, <1>3 DEF FoldedLane
  <2>3. QED BY <1>1, <1>2, <1>3, <2>1, <2>2
<1>6. QED BY <1>4, <1>5

\* What LaneState::admit adds: a group of p alone, or one that inherits the range of
\* the open group.
LEMMA AdmittedGroups ==
    ASSUME TypeOK, NEW l \in Lanes, NEW p \in Nat \ {0}, NEW a \in Arms,
           ~(high[l] >= p), Admit(l, p, a, Collapsible(a, l)),
           NEW m \in Lanes, NEW k, NEW h, NEW b, Grouped(m, k, h, b)'
    PROVE  \/ Grouped(m, k, h, b)
           \/ /\ m = l /\ h = p /\ b = a
              /\ k = p \/ (latest[l][a] # 0 /\ Grouped(l, k, latest[l][a], a))
<1> DEFINE n == Len(queues[l])
<1>0. p \in Nat /\ n \in Nat
  BY QueueType
<1>1. PICK j \in 1..Len(queues'[m]) :
        queues'[m][j].lo = k /\ queues'[m][j].hi = h /\ queues'[m][j].arm = b
  BY DEF Grouped
<1>2. CASE \E i \in OpenAt(l, a) : latest[l][a] # 0 /\ Supersede(l, p, a, i)
  <2>1. PICK i \in OpenAt(l, a) : latest[l][a] # 0 /\ Supersede(l, p, a, i)
    BY <1>2
  <2>2. /\ Len(queues'[l]) = n
        /\ \A c \in 1..(n - 1) : queues'[l][c] = queues[l][IF c < i THEN c ELSE c + 1]
        /\ queues'[l][n] = [lo |-> queues[l][i].lo, hi |-> p, arm |-> a]
        /\ i \in 1..n /\ queues[l][i].hi = latest[l][a] /\ queues[l][i].arm = a
        /\ \A o \in Lanes : o # l => queues'[o] = queues[o]
    BY <1>0, <2>1, SupersededQueue
  <2>3. CASE m # l
    BY <1>1, <2>2, <2>3 DEF Grouped
  <2>4. CASE m = l /\ j = n
    <3>1. k = queues[l][i].lo /\ h = p /\ b = a
      BY <1>1, <2>2, <2>4
    <3>2. Grouped(l, k, latest[l][a], a)
      BY <2>2, <3>1 DEF Grouped
    <3>3. QED BY <2>1, <2>4, <3>1, <3>2
  <2>5. CASE m = l /\ j # n
    <3>1. j \in 1..(n - 1)
      BY <1>0, <1>1, <2>2, <2>5
    <3>2. PICK c \in 1..n : c = IF j < i THEN j ELSE j + 1
      BY <1>0, <2>2, <3>1
    <3>3. queues'[l][j] = queues[l][c]
      BY <2>2, <3>1, <3>2
    <3>4. QED BY <1>1, <2>5, <3>2, <3>3 DEF Grouped
  <2>6. QED BY <2>3, <2>4, <2>5
<1>3. CASE Enqueue(l, p, a)
  <2>1. /\ Len(queues'[l]) = n + 1
        /\ \A c \in 1..n : queues'[l][c] = queues[l][c]
        /\ queues'[l][n + 1] = [lo |-> p, hi |-> p, arm |-> a]
        /\ \A o \in Lanes : o # l => queues'[o] = queues[o]
    BY <1>0, <1>3, EnqueuedQueue
  <2>2. CASE m # l
    BY <1>1, <2>1, <2>2 DEF Grouped
  <2>3. CASE m = l /\ j = n + 1
    BY <1>1, <2>1, <2>3
  <2>4. CASE m = l /\ j # n + 1
    <3>1. j \in 1..n
      BY <1>0, <1>1, <2>1, <2>4
    <3>2. QED BY <1>1, <2>1, <2>4, <3>1 DEF Grouped
  <2>5. QED BY <2>2, <2>3, <2>4
<1>4. QED BY <1>2, <1>3 DEF Admit

\* A newer event of the arm takes the open group's place.
LEMMA AdmitTakesOver ==
    ASSUME TypeOK, Folded, NEW l \in Lanes, NEW p \in Nat \ {0}, NEW a \in Arms,
           ~(high[l] >= p), Admit(l, p, a, Collapsible(a, l)),
           NEW o, latest[l][a] = o, o # 0, o # p
    PROVE  ~ToRun(l, o)'
<1> DEFINE n == Len(queues[l])
<1>0. p \in Nat /\ n \in Nat
  BY QueueType
<1>1. FoldedLane(l) /\ Collapsible(a, l) /\ ~blind /\ OpenAt(l, a) # {}
  BY <1>0 DEF Folded, FoldedLane, OpenAt
<1>2. PICK i \in OpenAt(l, a) : Supersede(l, p, a, i)
  BY <1>1 DEF Admit
<1>3. /\ Len(queues'[l]) = n
      /\ \A c \in 1..(n - 1) : queues'[l][c] = queues[l][IF c < i THEN c ELSE c + 1]
      /\ queues'[l][n] = [lo |-> queues[l][i].lo, hi |-> p, arm |-> a]
      /\ i \in 1..n /\ queues[l][i].hi = o
  <2>1. /\ Len(queues'[l]) = n
        /\ \A c \in 1..(n - 1) : queues'[l][c] = queues[l][IF c < i THEN c ELSE c + 1]
        /\ queues'[l][n] = [lo |-> queues[l][i].lo, hi |-> p, arm |-> a]
        /\ i \in 1..n /\ queues[l][i].hi = latest[l][a]
    BY ONLY TypeOK, <1>0, <1>2, SupersededQueue
  <2>2. QED BY <2>1
<1>4. SUFFICES ASSUME NEW j \in 1..n, queues'[l][j].hi = o PROVE FALSE
  BY <1>3 DEF ToRun
<1>5. j \in 1..(n - 1)
  BY <1>0, <1>3, <1>4
<1>6. PICK c \in 1..n : c # i /\ queues[l][c] = queues'[l][j]
  BY <1>0, <1>3, <1>5
<1>7. c < i \/ i < c
  BY <1>0, <1>3, <1>6
<1>8. o \in Nat
  BY DEF TypeOK, LaneTypeOK
<1>9. QED BY <1>1, <1>3, <1>4, <1>6, <1>7, <1>8 DEF FoldedLane

-----------------------------------------------------------------------------
(* What leaves the queues and the rows alone.                              *)

\* The arms and lanes of events are read off the log.
LEMMA SameEvents ==
    ASSUME UNCHANGED log
    PROVE  /\ \A p : LaneOf(p)' = LaneOf(p) /\ ArmOf(p)' = ArmOf(p)
           /\ \A p, q : /\ Subsumes(q, p)' <=> Subsumes(q, p)
                        /\ SameLane(p, q)' <=> SameLane(p, q)
                        /\ Alike(p, q)' <=> Alike(p, q)
BY DEF LaneOf, ArmOf, Collapsible, Subsumes, SameLane, Alike

\* An open group may be closed once the reader has reached all that is on record.
LEMMA LatestFrame ==
    ASSUME TypeOK, Phases, Durable, LatestInv,
           UNCHANGED <<log, up, status, from, queues>>, Frontier' = Frontier,
           mark' \in Nat, mark <= mark', begun' \subseteq begun,
           \A l \in Lanes : \A a \in Arms : latest'[l][a] \in {latest[l][a], 0},
           up => latest' = latest \/ AllReached
    PROVE  LatestInv'
<1>0. /\ \A p : LaneOf(p)' = LaneOf(p) /\ ArmOf(p)' = ArmOf(p)
      /\ \A p, q : /\ Subsumes(q, p)' <=> Subsumes(q, p)
                   /\ SameLane(p, q)' <=> SameLane(p, q)
                   /\ Alike(p, q)' <=> Alike(p, q)
  BY SameEvents
<1>1. RunningLast'
  BY <1>0 DEF LatestInv, RunningLast
<1>2. CoveredOnce'
  BY <1>0 DEF LatestInv, CoveredOnce
<1>3. GroupsTrue'
  <2>1. \A l, k, h, a : Grouped(l, k, h, a)' <=> Grouped(l, k, h, a)
    BY DEF Grouped
  <2>2. QED BY <1>0, <2>1 DEF LatestInv, GroupsTrue
<1>4. OpenLast'
  <2> SUFFICES ASSUME up, NEW l \in Lanes, NEW a \in Arms, NEW o \in Nat \ {0},
                      latest'[l][a] = o, NEW x \in 1..Len(log), o < x, x <= Frontier
               PROVE  ~(LaneOf(x) = l /\ ArmOf(x) = a)
    BY <1>0 DEF OpenLast
  <2>1. latest[l][a] = o
    OBVIOUS
  <2>2. QED BY <2>1 DEF LatestInv, OpenLast
<1>5. BegunReal'
  <2>1. \A p \in Positions : p > mark' => p > mark
    BY FrontierType DEF Positions
  <2>2. QED BY <2>1 DEF LatestInv, BegunReal
<1>6. Newest'
  <2> SUFFICES ASSUME up, NEW l \in Lanes, NEW h \in Nat, ToRun(l, h), status[h] = "none",
                      NEW q \in 1..Len(log), Subsumes(q, h), status[q] # "none"
               PROVE  q > Frontier /\ latest'[l][ArmOf(h)] = h
    <3>1. \A l, h : ToRun(l, h)' <=> ToRun(l, h)
      BY SameQueues
    <3>2. QED BY <1>0, <3>1 DEF Newest
  <2>1. q > Frontier /\ latest[l][ArmOf(h)] = h
    BY DEF LatestInv, Newest
  <2>2. ~AllReached
    BY <2>1, LogInPositions, FrontierType DEF AllReached
  <2>3. QED BY <2>1, <2>2
<1>7. QED BY <1>1, <1>2, <1>3, <1>4, <1>5, <1>6 DEF LatestInv

\* A new event has no row and is beyond what was considered.
LEMMA LatestAppend ==
    ASSUME TypeOK, Phases, Durable, QueueTrue, LatestInv, AppendEvent
    PROVE  LatestInv'
<1>1. /\ UNCHANGED <<up, status, from, queues, latest, begun, mark>>
      /\ Frontier' = Frontier
  BY DEF AppendEvent, Frontier
<1>2. /\ Len(log) \in Nat /\ Len(log') = Len(log) + 1
      /\ \A p \in 1..Len(log) : LaneOf(p)' = LaneOf(p) /\ ArmOf(p)' = ArmOf(p)
      /\ \A p, q \in 1..Len(log) :
           /\ Subsumes(q, p)' <=> Subsumes(q, p)
           /\ SameLane(p, q)' <=> SameLane(p, q)
  BY GrownLog
<1>3. Frontier \in 0..Len(log)
  BY FrontierType
<1>4. \A p \in Positions : status[p] # "none" => p \in 1..Len(log)
  BY RowInLog
<1>5. \A p, q \in 1..Len(log) : Alike(p, q)' <=> Alike(p, q)
  BY <1>2 DEF Alike
<1>6. \A q \in 1..Len(log') : q \in Positions /\ q \in Nat
  BY <1>2, SizesAssumption DEF AppendEvent, Positions
<1>7. RunningLast'
  BY <1>1, <1>4, <1>5 DEF LatestInv, RunningLast
<1>8. CoveredOnce'
  BY <1>1, <1>2, <1>4 DEF LatestInv, CoveredOnce
<1>9. GroupsTrue'
  <2> SUFFICES ASSUME up, NEW l \in Lanes, NEW k \in Nat, NEW h \in Nat, NEW a \in Arms,
                      Grouped(l, k, h, a)
               PROVE  /\ ArmOf(h)' = a
                      /\ \A x \in 1..Len(log') :
                           k <= x /\ x < h /\ Alike(x, h)' => status[x] = "none"
    <3>1. \A l, k, h, a : Grouped(l, k, h, a)' <=> Grouped(l, k, h, a)
      BY <1>1 DEF Grouped
    <3>2. QED BY <1>1, <3>1 DEF GroupsTrue
  <2>1. h \in 1..Len(log)
    BY <1>2, <1>3, GroupedRuns DEF QueueTrue
  <2>2. ArmOf(h) = a /\ \A x \in 1..Len(log) :
          k <= x /\ x < h /\ Alike(x, h) => status[x] = "none"
    BY DEF LatestInv, GroupsTrue
  <2>3. \A x \in 1..Len(log') : x < h => x \in 1..Len(log)
    BY <1>2, <2>1
  <2>4. QED BY <1>2, <1>5, <2>1, <2>2, <2>3
<1>10. OpenLast'
  <2> SUFFICES ASSUME up, NEW l \in Lanes, NEW a \in Arms, NEW o \in Nat \ {0},
                      latest[l][a] = o, NEW x \in 1..Len(log'), o < x, x <= Frontier
               PROVE  ~(LaneOf(x)' = l /\ ArmOf(x)' = a)
    BY <1>1 DEF OpenLast
  <2>1. x \in 1..Len(log)
    BY <1>2, <1>3
  <2>2. QED BY <1>2, <2>1 DEF LatestInv, OpenLast
<1>11. BegunReal'
  BY <1>1 DEF LatestInv, BegunReal
<1>12. Newest'
  <2> SUFFICES ASSUME up, NEW l \in Lanes, NEW h \in Nat, ToRun(l, h), status[h] = "none",
                      NEW q \in 1..Len(log'), Subsumes(q, h)', status[q] # "none"
               PROVE  q > Frontier /\ latest[l][ArmOf(h)'] = h
    <3>1. \A l, h : ToRun(l, h)' <=> ToRun(l, h)
      BY <1>1, SameQueues
    <3>2. QED BY <1>1, <3>1 DEF Newest
  <2>1. h \in 1..Len(log) /\ q \in 1..Len(log)
    BY <1>2, <1>3, <1>4, <1>6 DEF QueueTrue
  <2>2. Subsumes(q, h) /\ ArmOf(h)' = ArmOf(h)
    BY <1>2, <2>1
  <2>3. QED BY <2>1, <2>2 DEF LatestInv, Newest
<1>13. QED BY <1>7, <1>8, <1>9, <1>10, <1>11, <1>12 DEF LatestInv

\* A process starts with nothing queued; a dead one has nothing; rewinding takes rows
\* away.
LEMMA LatestOutside ==
    ASSUME TypeOK, LatestInv, Start \/ Crash \/ Rewind
    PROVE  LatestInv'
<1>1. log' = log
  BY DEF Start, Crash, Rewind
<1>2. \A p, q : /\ SameLane(p, q)' <=> SameLane(p, q)
                /\ Alike(p, q)' <=> Alike(p, q)
                /\ ArmOf(p)' = ArmOf(p)
  BY <1>1, SameEvents
<1>3. \A p \in Positions :
        /\ status'[p] \in {status[p], "none"}
        /\ status'[p] # "none" => from'[p] = from[p]
  <2>1. CASE Start \/ Crash
    BY <2>1 DEF Start, Crash
  <2>2. CASE Rewind
    BY <2>2 DEF Rewind
  <2>3. QED BY <2>1, <2>2
<1>4. RunningLast'
  BY <1>1, <1>2, <1>3 DEF LatestInv, RunningLast
<1>5. CoveredOnce'
  BY <1>2, <1>3 DEF LatestInv, CoveredOnce
<1>6. CASE Crash \/ Rewind
  <2>1. ~up'
    BY <1>6 DEF Crash, Rewind
  <2>2. QED BY <1>4, <1>5, <2>1 DEF LatestInv, GroupsTrue, OpenLast, BegunReal, Newest
<1>7. CASE Start
  <2>1. /\ \A l \in Lanes : queues'[l] = <<>> /\ \A a \in Arms : latest'[l][a] = 0
        /\ begun' = ReadBack /\ UNCHANGED <<mark, status>>
    BY <1>7 DEF Start, Resuming
  <2>2. \A l \in Lanes : Len(queues'[l]) = 0
    BY <2>1, EmptySeq
  <2>3. /\ \A l \in Lanes : \A k, h, a : ~Grouped(l, k, h, a)'
        /\ \A l \in Lanes : \A h : ~ToRun(l, h)'
    BY <2>2 DEF Grouped, ToRun
  <2>4. GroupsTrue' /\ OpenLast' /\ Newest'
    BY <2>1, <2>3 DEF GroupsTrue, OpenLast, Newest
  <2>5. BegunReal'
    BY <2>1 DEF BegunReal, ReadBack, RecordedAbove, Recorded
  <2>6. QED BY <1>4, <1>5, <2>4, <2>5 DEF LatestInv
<1>8. QED BY <1>6, <1>7

\* The sweep reclaims what lies below everything queued.
LEMMA LatestSwept ==
    ASSUME TypeOK, QueueSound, QueueTrue, LatestInv, SweepInvocation
    PROVE  LatestInv'
<1>1. /\ UNCHANGED <<log, up, queues, latest, begun, mark>> /\ Frontier' = Frontier /\ up
  BY DEF SweepInvocation, Frontier
<1>2. PICK p \in Positions :
        /\ p <= mark
        /\ status' = [status EXCEPT ![p] = "none"]
        /\ from' = [from EXCEPT ![p] = 0]
  BY DEF SweepInvocation
<1>3. \A r \in Positions :
        /\ status'[r] = IF r = p THEN "none" ELSE status[r]
        /\ r # p => from'[r] = from[r]
  BY <1>2 DEF TypeOK, StoreTypeOK
<1>4. \A r : status'[r] = "none" => status[r] = "none" \/ r = p
  BY <1>2 DEF TypeOK, StoreTypeOK
<1>5. \A r : status[r] = "none" => status'[r] = "none"
  BY <1>2 DEF TypeOK, StoreTypeOK
<1>6. /\ \A r : LaneOf(r)' = LaneOf(r) /\ ArmOf(r)' = ArmOf(r)
      /\ \A r, q : /\ Subsumes(q, r)' <=> Subsumes(q, r)
                   /\ SameLane(r, q)' <=> SameLane(r, q)
                   /\ Alike(r, q)' <=> Alike(r, q)
  BY <1>1, SameEvents
<1>7. RunningLast'
  BY <1>1, <1>3, <1>6 DEF LatestInv, RunningLast
<1>8. CoveredOnce'
  BY <1>3, <1>6 DEF LatestInv, CoveredOnce
<1>9. GroupsTrue'
  <2>1. \A l, k, h, a : Grouped(l, k, h, a)' <=> Grouped(l, k, h, a)
    BY <1>1 DEF Grouped
  <2>2. QED BY <1>1, <1>5, <1>6, <2>1 DEF LatestInv, GroupsTrue
<1>10. OpenLast'
  BY <1>1, <1>6 DEF LatestInv, OpenLast
<1>11. BegunReal'
  <2>1. mark \in Nat
    BY FrontierType
  <2>2. QED BY <1>1, <1>2, <1>3, <2>1 DEF LatestInv, BegunReal, Positions
<1>12. Newest'
  <2> SUFFICES ASSUME NEW l \in Lanes, NEW h \in Nat, ToRun(l, h), status'[h] = "none",
                      NEW q \in 1..Len(log), Subsumes(q, h), status'[q] # "none"
               PROVE  q > Frontier /\ latest[l][ArmOf(h)] = h
    <3>1. \A l, h : ToRun(l, h)' <=> ToRun(l, h)
      BY <1>1, SameQueues
    <3>2. QED BY <1>1, <1>6, <3>1 DEF Newest
  <2>1. mark < h /\ mark \in Nat
    BY <1>1, RunAboveMark, FrontierType
  <2>2. status[h] = "none" /\ status[q] # "none"
    BY <1>2, <1>4, <1>5, <2>1
  <2>3. QED BY <1>1, <2>2 DEF LatestInv, Newest
<1>13. QED BY <1>7, <1>8, <1>9, <1>10, <1>11, <1>12 DEF LatestInv

-----------------------------------------------------------------------------
(* Admission.                                                              *)

\* An event of an arm and lane with an open group is answered, and not dropped when
\* it is considered for the first time.
LEMMA OpenTakes ==
    ASSUME TypeOK, Ahead, Folded, Dispatcher, AdmitNext, NEW p, p = seen + 1,
           ~(p <= Frontier), NEW l \in Lanes, NEW a \in Arms, latest[l][a] # 0,
           LaneOf(p) = l, ArmOf(p) = a
    PROVE  Answered(p) /\ ~(high[l] >= p)
<1>1. /\ p \in 1..Len(log) /\ up /\ p = Frontier + 1 /\ Frontier \in Nat
      /\ p \in Nat
  BY AdmitReach
<1>2. Collapsible(a, l)
  BY DEF Folded, FoldedLane
<1>3. Answered(p)
  BY <1>1, <1>2 DEF Answered, AnswersUnder, Collapsible
<1>4. ASSUME high[l] >= p PROVE FALSE
  <2>1. high[l] \in Nat /\ laneRow[l] \in Nat
    BY FrontierType
  <2>2. high[l] <= laneRow[l]
    BY <1>1, <1>4, <2>1 DEF Dispatcher, HighTrue
  <2>3. PICK o \in Nat \ {0} : latest[l][a] = o
    BY DEF TypeOK, LaneTypeOK
  <2>4. ToRun(l, o)
    BY <1>1, <2>3 DEF Dispatcher, OpenTrue
  <2>5. laneRow[l] < o /\ o <= Frontier
    BY <1>1, <2>4 DEF Dispatcher, QueueTrue
  <2>6. QED BY <1>1, <1>4, <2>1, <2>2, <2>5
<1>5. QED BY <1>3, <1>4

\* Positions that are not queued are of no arm and lane with an open group.
LEMMA LatestDropped ==
    ASSUME TypeOK, Ahead, Phases, Durable, Folded, Dispatcher, LatestInv, AdmitNext,
           NEW p, p = seen + 1, ~(p <= Frontier), UNCHANGED queueVars,
           Answered(p) => high[LaneOf(p)] >= p
    PROVE  LatestInv'
<1>1. /\ p \in 1..Len(log) /\ p \in Nat /\ Frontier \in Nat /\ Len(log) \in Nat
      /\ p = Frontier + 1 /\ Frontier' = p /\ up
      /\ UNCHANGED <<log, mark, status, up, begun>>
  BY AdmitReach
<1>2. from' = from
  BY DEF AdmitNext
<1>3. /\ \A r : LaneOf(r)' = LaneOf(r) /\ ArmOf(r)' = ArmOf(r)
      /\ \A r, q : /\ Subsumes(q, r)' <=> Subsumes(q, r)
                   /\ SameLane(r, q)' <=> SameLane(r, q)
                   /\ Alike(r, q)' <=> Alike(r, q)
  BY <1>1, SameEvents
<1>4. \A l \in Lanes : \A a \in Arms :
        latest[l][a] # 0 => ~(LaneOf(p) = l /\ ArmOf(p) = a)
  BY <1>1, OpenTakes
<1>5. \A x \in Nat : /\ x <= p => x <= Frontier \/ x = p
                     /\ x > Frontier => x > p \/ x = p
  BY <1>1
<1>6. RunningLast' /\ CoveredOnce'
  BY <1>1, <1>2, <1>3 DEF LatestInv, RunningLast, CoveredOnce
<1>7. GroupsTrue'
  <2>1. \A l, k, h, a : Grouped(l, k, h, a)' <=> Grouped(l, k, h, a)
    BY DEF Grouped
  <2>2. QED BY <1>1, <1>3, <2>1 DEF LatestInv, GroupsTrue
<1>8. OpenLast'
  <2> SUFFICES ASSUME NEW l \in Lanes, NEW a \in Arms, NEW o \in Nat \ {0},
                      latest[l][a] = o, NEW x \in 1..Len(log), o < x, x <= p
               PROVE  ~(LaneOf(x) = l /\ ArmOf(x) = a)
    BY <1>1, <1>3 DEF OpenLast
  <2>1. CASE x = p
    BY <1>4, <2>1
  <2>2. CASE x # p
    BY <1>1, <1>5, <2>2 DEF LatestInv, OpenLast
  <2>3. QED BY <2>1, <2>2
<1>9. BegunReal'
  BY <1>1 DEF LatestInv, BegunReal
<1>10. Newest'
  <2> SUFFICES ASSUME NEW l \in Lanes, NEW h \in Nat, ToRun(l, h), status[h] = "none",
                      NEW q \in 1..Len(log), Subsumes(q, h), status[q] # "none"
               PROVE  q > p /\ latest[l][ArmOf(h)] = h
    <3>1. \A l, h : ToRun(l, h)' <=> ToRun(l, h)
      BY SameQueues
    <3>2. QED BY <1>1, <1>3, <3>1 DEF Newest
  <2>1. q > Frontier /\ latest[l][ArmOf(h)] = h
    BY <1>1 DEF LatestInv, Newest
  <2>2. LaneOf(h) = l /\ Answered(h) /\ h # 0
    BY <1>1 DEF Dispatcher, QueueTrue
  <2>3. ArmOf(h) \in Arms
    BY <2>2 DEF Answered, AnswersUnder
  <2>4. CASE q = p
    <3>1. LaneOf(p) = l /\ ArmOf(p) = ArmOf(h)
      BY <2>2, <2>4 DEF Subsumes
    <3>2. QED BY <1>4, <2>1, <2>2, <2>3, <3>1
  <2>5. QED BY <1>5, <2>1, <2>4
<1>11. QED BY <1>6, <1>7, <1>8, <1>9, <1>10 DEF LatestInv

\* A position that is queued takes the place of what it makes redundant.
LEMMA LatestAdmitted ==
    ASSUME TypeOK, QueueSound, Ahead, Phases, Durable, Folded, Dispatcher, Sighted,
           LatestInv, AdmitNext, NEW p, p = seen + 1, ~(p <= Frontier), Answered(p),
           NEW l \in Lanes, LaneOf(p) = l, NEW a \in Arms, ArmOf(p) = a,
           ~(high[l] >= p)
    PROVE  LatestInv'
<1>1. /\ p \in 1..Len(log) /\ p \in Nat \ {0} /\ Frontier \in Nat /\ Len(log) \in Nat
      /\ p = Frontier + 1 /\ Frontier' = p /\ up /\ mark < p /\ mark \in Nat
      /\ UNCHANGED <<log, mark, status, up, begun>>
      /\ Admit(l, p, a, Collapsible(a, l))
  BY AdmitReach, FrontierType
<1>2. from' = from /\ ~blind /\ p \in Positions
  BY <1>1, LogInPositions DEF AdmitNext, Sighted
<1>3. /\ \A r : LaneOf(r)' = LaneOf(r) /\ ArmOf(r)' = ArmOf(r)
      /\ \A r, q : /\ Subsumes(q, r)' <=> Subsumes(q, r)
                   /\ SameLane(r, q)' <=> SameLane(r, q)
                   /\ Alike(r, q)' <=> Alike(r, q)
  BY <1>1, SameEvents
<1>4. PICK o \in Nat : Replaces(l, a, p, o)
  BY <1>1, AdmittedRuns
<1>5. \A x \in Nat : /\ x <= p => x <= Frontier \/ x = p
                     /\ x > Frontier => x > p \/ x = p
                     /\ x <= Frontier => x < p
  BY <1>1
<1>6. RunningLast' /\ CoveredOnce'
  BY <1>1, <1>2, <1>3 DEF LatestInv, RunningLast, CoveredOnce
<1>7. BegunReal'
  BY <1>1 DEF LatestInv, BegunReal
<1>8. \A m \in Lanes : \A b \in Arms : \A g \in Nat \ {0} : latest[m][b] = g =>
        /\ ToRun(m, g) /\ ArmOf(g) = b /\ status[g] = "none" /\ LaneOf(g) = m
        /\ g <= Frontier
  BY <1>1 DEF Dispatcher, OpenTrue, QueueTrue
<1>9. GroupsTrue'
  <2> SUFFICES ASSUME NEW m \in Lanes, NEW k \in Nat, NEW h \in Nat, NEW b \in Arms,
                      Grouped(m, k, h, b)'
               PROVE  /\ ArmOf(h) = b
                      /\ \A x \in 1..Len(log) :
                           k <= x /\ x < h /\ Alike(x, h) => status[x] = "none"
    BY <1>1, <1>3 DEF GroupsTrue
  <2>1. CASE Grouped(m, k, h, b)
    BY <1>1, <2>1 DEF LatestInv, GroupsTrue
  <2>2. CASE m = l /\ h = p /\ b = a /\ k = p
    BY <1>1, <2>2
  <2>3. CASE m = l /\ h = p /\ b = a /\ latest[l][a] # 0 /\ Grouped(l, k, latest[l][a], a)
    <3>1. PICK g \in Nat \ {0} : latest[l][a] = g
      BY <2>3 DEF TypeOK, LaneTypeOK
    <3>2. \A x \in 1..Len(log) : k <= x /\ x < g /\ Alike(x, g) => status[x] = "none"
      BY <1>1, <2>3, <3>1 DEF LatestInv, GroupsTrue
    <3>3. ArmOf(g) = a /\ LaneOf(g) = l /\ status[g] = "none"
      BY <1>8, <3>1
    <3>4. ASSUME NEW x \in 1..Len(log), k <= x, x < p, Alike(x, p)
          PROVE  status[x] = "none"
      <4>1. LaneOf(x) = l /\ ArmOf(x) = a /\ Alike(x, g)
        BY <3>3, <3>4 DEF Alike, SameLane
      <4>2. CASE g < x
        BY <1>1, <3>1, <3>4, <4>1, <4>2 DEF LatestInv, OpenLast
      <4>3. CASE x = g
        BY <3>3, <4>3
      <4>4. CASE x < g
        BY <3>2, <3>4, <4>1, <4>4
      <4>5. QED BY <4>2, <4>3, <4>4
    <3>5. QED BY <2>3, <3>4
  <2>4. QED BY <1>1, <2>1, <2>2, <2>3, AdmittedGroups
<1>10. OpenLast'
  <2> SUFFICES ASSUME NEW m \in Lanes, NEW b \in Arms, NEW g \in Nat \ {0},
                      latest'[m][b] = g, NEW x \in 1..Len(log), g < x, x <= p
               PROVE  ~(LaneOf(x) = m /\ ArmOf(x) = b)
    BY <1>1, <1>3 DEF OpenLast
  <2>1. CASE latest'[m][b] = p
    BY <1>1, <2>1
  <2>2. CASE latest'[m][b] # p
    <3>1. latest[m][b] = g
      BY <1>4, <2>2 DEF Replaces
    <3>2. CASE x = p
      <4>1. SUFFICES ASSUME m = l, b = a PROVE FALSE
        BY <3>2
      <4>2. FoldedLane(l) /\ latest[l][a] # 0
        BY <3>1, <4>1 DEF Folded
      <4>3. Collapsible(a, l) /\ latest \in [Lanes -> [Arms -> Nat]]
        BY <4>2 DEF FoldedLane, TypeOK, LaneTypeOK
      <4>4. latest' = [latest EXCEPT ![l][a] = IF p \in begun THEN 0 ELSE p]
        BY <1>1, <1>2, <4>3 DEF Admit
      <4>5. latest'[l][a] \in {0, p}
        BY <4>3, <4>4
      <4>6. QED BY <2>2, <4>1, <4>5
    <3>3. CASE x # p
      BY <1>1, <1>5, <3>1, <3>3 DEF LatestInv, OpenLast
    <3>4. QED BY <3>2, <3>3
  <2>3. QED BY <2>1, <2>2
<1>11. Newest'
  <2> SUFFICES ASSUME NEW m \in Lanes, NEW h \in Nat, ToRun(m, h)', status[h] = "none",
                      NEW q \in 1..Len(log), Subsumes(q, h), status[q] # "none"
               PROVE  q > p /\ latest'[m][ArmOf(h)] = h
    BY <1>1, <1>3 DEF Newest
  <2>1. CASE ToRun(m, h) /\ h # p
    <3>1. q > Frontier /\ latest[m][ArmOf(h)] = h
      BY <1>1, <2>1 DEF LatestInv, Newest
    <3>2. LaneOf(h) = m /\ Answered(h) /\ h # 0
      BY <1>1, <2>1 DEF Dispatcher, QueueTrue
    <3>3. ArmOf(h) \in Arms
      BY <3>2 DEF Answered, AnswersUnder
    <3>4. ~(m = l /\ ArmOf(h) = a)
      <4>1. SUFFICES ASSUME m = l, ArmOf(h) = a PROVE FALSE
        OBVIOUS
      <4>2. ~ToRun(l, h)'
        BY <1>1, <2>1, <3>1, <3>2, <4>1, AdmitTakesOver
      <4>3. QED BY <4>1, <4>2
    <3>5. q # p
      BY <3>2, <3>4 DEF Subsumes
    <3>6. latest'[m][ArmOf(h)] = latest[m][ArmOf(h)]
      <4>1. CASE Collapsible(a, l)
        <5>1. latest' = [latest EXCEPT ![l][a] = IF p \in begun THEN 0 ELSE p]
          BY <1>1, <1>2, <4>1 DEF Admit
        <5>2. latest \in [Lanes -> [Arms -> Nat]]
          BY DEF TypeOK, LaneTypeOK
        <5>3. QED BY <3>3, <3>4, <5>1, <5>2
      <4>2. CASE ~Collapsible(a, l)
        BY <1>1, <4>2 DEF Admit
      <4>3. QED BY <4>1, <4>2
    <3>7. QED BY <1>5, <3>1, <3>5, <3>6
  <2>2. CASE h = p
    <3>1. m = l
      <4>1. SUFFICES ASSUME m # l PROVE FALSE
        OBVIOUS
      <4>2. ToRun(m, h)
        BY <1>4, <4>1 DEF Replaces
      <4>3. LaneOf(h) = m
        BY <1>1, <4>2 DEF Dispatcher, QueueTrue
      <4>4. QED BY <2>2, <4>1, <4>3
    <3>2. Collapsible(a, l) /\ q > p
      BY <2>2 DEF Subsumes
    <3>3. p \notin begun
      BY <1>1, <1>2, <2>2 DEF LatestInv, BegunReal
    <3>4. latest' = [latest EXCEPT ![l][a] = p]
      BY <1>1, <1>2, <3>2, <3>3 DEF Admit
    <3>5. latest \in [Lanes -> [Arms -> Nat]]
      BY DEF TypeOK, LaneTypeOK
    <3>6. QED BY <2>2, <3>1, <3>2, <3>4, <3>5
  <2>3. QED BY <1>4, <2>1, <2>2 DEF Replaces
<1>12. QED BY <1>6, <1>7, <1>9, <1>10, <1>11 DEF LatestInv

\* Admitting keeps all of it.
LEMMA LatestAdmit ==
    ASSUME HeadInv, Folded, Phases, Ahead, Durable, Dispatcher, Sighted, LatestInv,
           AdmitNext
    PROVE  LatestInv'
<1> USE DEF HeadInv
<1>1. PICK p : p = seen + 1
  OBVIOUS
<1>2. /\ p \in 1..Len(log) /\ p \in Nat /\ mark < p /\ mark \in Nat /\ up
      /\ Frontier \in Nat
      /\ p <= Frontier => Frontier' = Frontier
      /\ UNCHANGED <<log, mark, status, up, begun>>
      /\ IF Answered(p)
           THEN Admit(LaneOf(p), p, ArmOf(p), Collapsible(ArmOf(p), LaneOf(p)))
           ELSE UNCHANGED queueVars
  BY <1>1, AdmitReach, FrontierType
<1>3. from' = from
  BY DEF AdmitNext
<1>4. CASE p <= Frontier
  <2>1. Answered(p) => p <= high[LaneOf(p)]
    BY <1>2, <1>4 DEF Dispatcher, HighTrue
  <2>2. Answered(p) => LaneOf(p) \in Lanes /\ high[LaneOf(p)] \in Nat
    BY <1>2, EventTypes, FrontierType
  <2>3. UNCHANGED queueVars
    <3>1. CASE Answered(p)
      <4>1. high[LaneOf(p)] >= p
        BY <1>2, <2>1, <2>2, <3>1
      <4>2. QED BY <1>2, <3>1, <4>1 DEF Admit
    <3>2. QED BY <1>2, <3>1
  <2>4. QED BY <1>2, <1>3, <1>4, <2>3, LatestFrame
<1>5. CASE ~(p <= Frontier)
  <2>1. CASE Answered(p) /\ ~(high[LaneOf(p)] >= p)
    <3>1. PICK l \in Lanes : LaneOf(p) = l
      BY <1>2, EventTypes
    <3>2. PICK a \in Arms : ArmOf(p) = a
      BY <2>1 DEF Answered, AnswersUnder
    <3>3. QED BY <1>1, <1>5, <2>1, <3>1, <3>2, LatestAdmitted
  <2>2. CASE ~(Answered(p) /\ ~(high[LaneOf(p)] >= p))
    <3>1. UNCHANGED queueVars
      BY <1>2, <2>2 DEF Admit
    <3>2. QED BY <1>1, <1>5, <2>2, <3>1, LatestDropped
  <2>3. QED BY <2>1, <2>2
<1>6. QED BY <1>4, <1>5

-----------------------------------------------------------------------------
(* A run begins, ends, and is retired.                                     *)

\* Nothing newer than what a worker is about to begin for the first time has a row.
LEMMA BeginsNewest ==
    ASSUME MarkInv, CaughtUp, LatestInv, up, NEW w \in Workers, Holds(w),
           NEW l \in Lanes, wlane[w] = l, NEW p, work[w].position = p,
           status[p] = "none", NEW q \in 1..Len(log), p < q, Alike(p, q)
    PROVE  status[q] = "none"
<1>1. HeadInv /\ TypeOK /\ Folded /\ Phases /\ Durable /\ Dispatcher
  BY DEF MarkInv, HeadInv
<1>2. /\ p \in 1..Len(log) /\ p \in Nat /\ Answered(p) /\ LaneOf(p) = l /\ ToRun(l, p)
      /\ mark < p
  BY <1>1, HeldFacts
<1>3. AllReached
  BY DEF CaughtUp, Holds, Owns
<1>4. SUFFICES ASSUME status[q] # "none" PROVE FALSE
  OBVIOUS
<1>5. CASE Plain(p)
  BY <1>1, <1>2, <1>4, <1>5 DEF Durable, PlainFirst, Alike
<1>6. CASE ~Plain(p)
  <2>1. Subsumes(q, p)
    BY <1>6 DEF Subsumes, Plain, Alike, SameLane
  <2>2. q > Frontier
    BY <1>2, <1>4, <2>1 DEF LatestInv, Newest
  <2>3. q <= Frontier /\ Frontier \in Nat
    BY <1>1, <1>3, <1>4, LogInPositions, FrontierType DEF AllReached
  <2>4. QED BY <2>2, <2>3
<1>7. QED BY <1>5, <1>6

\* begin_invocation reserves the newest of its kind that has a row.
LEMMA LatestBegin ==
    ASSUME MarkInv, CaughtUp, LatestInv, NEW w \in Workers, Begin(w)
    PROVE  LatestInv'
<1>1. /\ HeadInv /\ TypeOK /\ Folded /\ Phases /\ Durable /\ Dispatcher
      /\ up /\ Holds(w) /\ UNCHANGED <<log, up, queues, latest, begun, mark>>
      /\ Frontier' = Frontier
  BY DEF MarkInv, HeadInv, Begin, At, Holds, Frontier
<1>2. PICK l \in Lanes : wlane[w] = l
  BY <1>1 DEF TypeOK, PoolTypeOK
<1>3. PICK p : work[w].position = p
  OBVIOUS
<1>4. /\ p \in Positions /\ p \in 1..Len(log) /\ p \in 1..Frontier /\ p \in Nat
      /\ LaneOf(p) = l /\ ToRun(l, p)
      /\ \A h \in Nat : ToRun(l, h) => p <= h
  BY <1>1, <1>2, <1>3, HeldFacts
<1>5. CASE status[p] = "terminal"
  <2>1. UNCHANGED <<status, from>>
    BY <1>3, <1>5 DEF Begin
  <2>2. QED BY <1>1, <2>1, LatestFrame, FrontierType
<1>6. CASE status[p] # "terminal"
  <2>1. /\ status' = [status EXCEPT ![p] = "running"]
        /\ from' = [from EXCEPT ![p] = IF @ = 0 THEN p ELSE @]
    BY <1>3, <1>6 DEF Begin
  <2>2. /\ \A r \in Positions : status'[r] = IF r = p THEN "running" ELSE status[r]
        /\ \A r : r # p => status'[r] = status[r]
        /\ status'[p] = "running"
        /\ \A r \in Positions : r # p => from'[r] = from[r]
    BY <1>1, <1>4, <2>1 DEF TypeOK, StoreTypeOK
  <2>3. /\ \A r : LaneOf(r)' = LaneOf(r) /\ ArmOf(r)' = ArmOf(r)
        /\ \A r, q : /\ Subsumes(q, r)' <=> Subsumes(q, r)
                     /\ SameLane(r, q)' <=> SameLane(r, q)
                     /\ Alike(r, q)' <=> Alike(r, q)
    BY <1>1, SameEvents
  <2>4. \A m \in Lanes : \A h \in Nat : ToRun(m, h) => LaneOf(h) = m /\ h <= Frontier
    BY <1>1 DEF Dispatcher, QueueTrue
  <2>5. AllReached
    BY <1>1 DEF CaughtUp, Holds, Owns
  <2>6. \A q \in 1..Len(log) : q \in Positions /\ q \in Nat
    BY <1>1, LogInPositions
  <2>7. RunningLast'
    <3> SUFFICES ASSUME NEW r \in Positions, NEW q \in Positions, status'[r] = "running",
                        r < q, q <= Len(log), Alike(r, q)
                 PROVE  status'[q] = "none"
      BY <1>1, <2>3 DEF RunningLast
    <3>1. CASE r = p
      <4>1. q # p /\ q \in 1..Len(log)
        BY <1>4, <3>1, FrontierType DEF Positions
      <4>2. status[q] = "none"
        <5>1. CASE status[p] = "none"
          BY <1>1, <1>2, <1>3, <3>1, <4>1, <5>1, BeginsNewest
        <5>2. CASE status[p] # "none"
          <6>1. status[p] = "running"
            BY <1>1, <1>4, <1>6, <5>2 DEF TypeOK, StoreTypeOK
          <6>2. QED BY <3>1, <6>1 DEF LatestInv, RunningLast
        <5>3. QED BY <5>1, <5>2
      <4>3. QED BY <2>2, <4>1, <4>2
    <3>2. CASE r # p
      <4>1. status[r] = "running"
        BY <2>2, <3>2
      <4>2. status[q] = "none"
        BY <4>1 DEF LatestInv, RunningLast
      <4>3. q # p
        <5>1. SUFFICES ASSUME q = p PROVE FALSE
          OBVIOUS
        <5>2. r <= Frontier /\ r \in Nat
          BY <2>5, <4>1 DEF AllReached, Positions
        <5>3. PICK m \in Lanes : ToRun(m, r)
          BY <1>1, <4>1, <5>2 DEF Dispatcher, BegunTrue
        <5>4. m = l
          BY <1>4, <2>4, <5>1, <5>2, <5>3 DEF Alike, SameLane
        <5>5. QED BY <1>4, <5>1, <5>2, <5>3, <5>4
      <4>4. QED BY <2>2, <4>2, <4>3
    <3>3. QED BY <3>1, <3>2
  <2>8. CoveredOnce'
    BY <2>2, <2>3 DEF LatestInv, CoveredOnce
  <2>9. GroupsTrue'
    <3> SUFFICES ASSUME NEW m \in Lanes, NEW k \in Nat, NEW h \in Nat, NEW a \in Arms,
                        Grouped(m, k, h, a)
                 PROVE  /\ ArmOf(h) = a
                        /\ \A x \in 1..Len(log) :
                             k <= x /\ x < h /\ Alike(x, h) => status'[x] = "none"
      <4>1. \A m, k, h, a : Grouped(m, k, h, a)' <=> Grouped(m, k, h, a)
        BY <1>1 DEF Grouped
      <4>2. QED BY <1>1, <2>3, <4>1 DEF GroupsTrue
    <3>1. ArmOf(h) = a /\ \A x \in 1..Len(log) :
            k <= x /\ x < h /\ Alike(x, h) => status[x] = "none"
      BY <1>1 DEF LatestInv, GroupsTrue
    <3>2. ASSUME k <= p, p < h, Alike(p, h) PROVE FALSE
      <4>1. m = l
        BY <1>1, <1>4, <2>4, <3>2, GroupedRuns DEF Alike, SameLane
      <4>2. PICK j \in Nat, b \in Arms : Grouped(l, j, p, b)
        BY <1>1, <1>4, GroupedRuns
      <4>3. b = a
        BY <1>1, <1>4, <3>1, <3>2, <4>2 DEF LatestInv, GroupsTrue, Alike
      <4>4. p < k
        BY <1>1, <3>2, <4>1, <4>2, <4>3, GroupsApart
      <4>5. QED BY <1>4, <3>2, <4>4
    <3>3. QED BY <2>2, <3>1, <3>2
  <2>10. OpenLast'
    BY <1>1, <2>3 DEF LatestInv, OpenLast
  <2>11. BegunReal'
    BY <1>1, <2>2 DEF LatestInv, BegunReal
  <2>12. Newest'
    <3> SUFFICES ASSUME NEW m \in Lanes, NEW h \in Nat, ToRun(m, h), status'[h] = "none",
                        NEW q \in 1..Len(log), Subsumes(q, h), status'[q] # "none"
                 PROVE  FALSE
      <4>1. \A m, h : ToRun(m, h)' <=> ToRun(m, h)
        BY <1>1, SameQueues
      <4>2. QED BY <1>1, <2>3, <4>1 DEF Newest
    <3>1. h # p /\ status[h] = "none"
      BY <2>2
    <3>2. CASE q = p
      <4>1. m = l /\ h < p
        BY <1>4, <2>4, <3>2 DEF Subsumes
      <4>2. QED BY <1>4, <4>1
    <3>3. CASE q # p
      <4>1. status[q] # "none"
        BY <2>2, <3>3
      <4>2. q > Frontier
        BY <1>1, <3>1, <4>1 DEF LatestInv, Newest
      <4>3. q <= Frontier /\ Frontier \in Nat
        BY <1>1, <2>5, <2>6, <4>1, FrontierType DEF AllReached
      <4>4. QED BY <2>6, <4>2, <4>3
    <3>4. QED BY <3>2, <3>3
  <2>13. QED BY <2>7, <2>8, <2>9, <2>10, <2>11, <2>12 DEF LatestInv
<1>7. QED BY <1>5, <1>6

\* A run that ends covers nothing that has a row, and nothing newer has one.
LEMMA LatestTerminal ==
    ASSUME MarkInv, LatestInv, up, NEW w \in Workers, wpc[w] \in {"run", "skip"},
           MakeTerminal(w), UNCHANGED <<log, up, queues, latest, begun, mark>>,
           Frontier' = Frontier
    PROVE  LatestInv'
<1>1. /\ HeadInv /\ TypeOK /\ Folded /\ Phases /\ Durable /\ Dispatcher /\ Holds(w)
  BY DEF MarkInv, HeadInv, Holds
<1>2. PICK l \in Lanes : wlane[w] = l
  BY <1>1 DEF TypeOK, PoolTypeOK
<1>3. PICK p : work[w].position = p
  OBVIOUS
<1>4. /\ p \in Positions /\ p \in 1..Len(log) /\ p \in Nat
      /\ LaneOf(p) = l /\ Answered(p)
  BY <1>1, <1>2, <1>3, HeldFacts
<1>5. status[p] = "running"
  BY <1>1, <1>2, <1>3, <1>4 DEF Dispatcher, WorkTrue, HandTrue
<1>6. PICK k \in Nat : work[w].from = k /\ \E a \in Arms : Grouped(l, k, p, a)
  <2>1. /\ queues[l] # <<>> /\ queues[l][1].hi = p /\ queues[l][1].lo = work[w].from
    BY <1>1, <1>2, <1>3 DEF HeadInv, FrozenHead, Front
  <2>2. 1 \in 1..Len(queues[l]) /\ queues[l][1].lo \in Nat /\ queues[l][1].arm \in Arms
    BY <1>1, <2>1, QueueType
  <2>3. Grouped(l, work[w].from, p, queues[l][1].arm)
    BY <2>1, <2>2 DEF Grouped
  <2>4. QED BY <2>1, <2>2, <2>3
<1>7. /\ status' = [status EXCEPT ![p] = "terminal"]
      /\ from' = [from EXCEPT ![p] = k]
  BY <1>3, <1>6 DEF MakeTerminal
<1>8. /\ \A r \in Positions : status'[r] = IF r = p THEN "terminal" ELSE status[r]
      /\ \A r : status'[r] = "none" <=> status[r] = "none"
      /\ \A r \in Positions : from'[r] = IF r = p THEN k ELSE from[r]
  BY <1>1, <1>4, <1>5, <1>7 DEF TypeOK, StoreTypeOK
<1>9. /\ \A r : LaneOf(r)' = LaneOf(r) /\ ArmOf(r)' = ArmOf(r)
      /\ \A r, q : /\ Subsumes(q, r)' <=> Subsumes(q, r)
                   /\ SameLane(r, q)' <=> SameLane(r, q)
                   /\ Alike(r, q)' <=> Alike(r, q)
  BY SameEvents
<1>10. RunningLast'
  BY <1>8, <1>9 DEF LatestInv, RunningLast
<1>11. CoveredOnce'
  <2> SUFFICES ASSUME NEW r \in Positions, NEW q \in Positions, r < q,
                      status'[r] = "terminal", status'[q] = "terminal", Alike(r, q)
               PROVE  r < from'[q]
    BY <1>9 DEF CoveredOnce, Alike
  <2>1. CASE q = p
    <3>1. r # p /\ r \in 1..Len(log) /\ status[r] # "none" /\ r \in Nat
      BY <1>4, <1>8, <2>1 DEF Positions
    <3>2. ~(k <= r)
      BY <1>1, <1>4, <1>6, <2>1, <3>1 DEF LatestInv, GroupsTrue
    <3>3. QED BY <1>8, <2>1, <3>1, <3>2
  <2>2. CASE r = p
    <3>1. q # p /\ status[q] # "none"
      BY <1>4, <1>8, <2>2 DEF Positions
    <3>2. q <= Len(log)
      BY <1>1, <3>1, RowInLog
    <3>3. QED BY <1>5, <2>2, <3>1, <3>2 DEF LatestInv, RunningLast
  <2>3. CASE r # p /\ q # p
    BY <1>8, <2>3 DEF LatestInv, CoveredOnce, Alike
  <2>4. QED BY <2>1, <2>2, <2>3
<1>12. GroupsTrue'
  <2>1. \A m, j, h, a : Grouped(m, j, h, a)' <=> Grouped(m, j, h, a)
    BY DEF Grouped
  <2>2. QED BY <1>8, <1>9, <2>1 DEF LatestInv, GroupsTrue
<1>13. OpenLast'
  BY <1>9 DEF LatestInv, OpenLast
<1>14. BegunReal'
  BY <1>8 DEF LatestInv, BegunReal
<1>15. Newest'
  <2>1. \A m, h : ToRun(m, h)' <=> ToRun(m, h)
    BY SameQueues
  <2>2. QED BY <1>8, <1>9, <2>1 DEF LatestInv, Newest
<1>16. QED BY <1>10, <1>11, <1>12, <1>13, <1>14, <1>15 DEF LatestInv

\* The head leaves, and nothing is added.
LEMMA LatestRetire ==
    ASSUME MarkInv, CaughtUp, LatestInv, NEW w \in Workers, Retire(w)
    PROVE  LatestInv'
<1>1. /\ HeadInv /\ TypeOK /\ QueueSound /\ FrozenHead /\ Folded /\ Phases /\ Durable
      /\ up /\ wpc[w] = "retire"
      /\ UNCHANGED <<log, up, status, from, begun, mark>> /\ Frontier' = Frontier
  BY DEF MarkInv, HeadInv, Retire, Complete, At, Frontier
<1>2. PICK l \in Lanes : wlane[w] = l
  BY <1>1 DEF TypeOK, PoolTypeOK
<1>3. PICK p : work[w].position = p
  OBVIOUS
<1>4. /\ \A m \in Lanes : \A h \in Nat : ToRun(m, h)' => ToRun(m, h)
      /\ \A m \in Lanes : \A b \in Arms : latest'[m][b] \in {latest[m][b], 0}
  BY <1>1, <1>2, <1>3, RetiredRuns
<1>5. ASSUME NEW m \in Lanes, NEW k, NEW h, NEW a, Grouped(m, k, h, a)'
      PROVE  Grouped(m, k, h, a)
  <2>1. /\ Len(queues[l]) \in Nat /\ Len(queues'[l]) = Len(queues[l]) - 1
        /\ \A i \in 1..(Len(queues[l]) - 1) : queues'[l][i] = queues[l][i + 1]
        /\ \A o \in Lanes : o # l => queues'[o] = queues[o]
    BY <1>1, <1>2, RetiredQueue
  <2>2. CASE m # l
    BY <1>5, <2>1, <2>2 DEF Grouped
  <2>3. CASE m = l
    <3>1. PICK i \in 1..Len(queues'[l]) :
            queues'[l][i].lo = k /\ queues'[l][i].hi = h /\ queues'[l][i].arm = a
      BY <1>5, <2>3 DEF Grouped
    <3>2. i + 1 \in 1..Len(queues[l]) /\ queues'[l][i] = queues[l][i + 1]
      BY <2>1, <3>1
    <3>3. QED BY <2>3, <3>1, <3>2 DEF Grouped
  <2>4. QED BY <2>2, <2>3
<1>6. /\ \A r : LaneOf(r)' = LaneOf(r) /\ ArmOf(r)' = ArmOf(r)
      /\ \A r, q : /\ Subsumes(q, r)' <=> Subsumes(q, r)
                   /\ SameLane(r, q)' <=> SameLane(r, q)
                   /\ Alike(r, q)' <=> Alike(r, q)
  BY <1>1, SameEvents
<1>7. RunningLast' /\ CoveredOnce' /\ BegunReal'
  BY <1>1, <1>6 DEF LatestInv, RunningLast, CoveredOnce, BegunReal
<1>8. GroupsTrue'
  BY <1>1, <1>5, <1>6 DEF LatestInv, GroupsTrue
<1>9. OpenLast'
  <2> SUFFICES ASSUME NEW m \in Lanes, NEW a \in Arms, NEW o \in Nat \ {0},
                      latest'[m][a] = o, NEW x \in 1..Len(log), o < x, x <= Frontier
               PROVE  ~(LaneOf(x) = m /\ ArmOf(x) = a)
    BY <1>1, <1>6 DEF OpenLast
  <2>1. latest[m][a] = o
    BY <1>4
  <2>2. QED BY <1>1, <2>1 DEF LatestInv, OpenLast
<1>10. Newest'
  <2> SUFFICES ASSUME NEW m \in Lanes, NEW h \in Nat, ToRun(m, h)', status[h] = "none",
                      NEW q \in 1..Len(log), Subsumes(q, h), status[q] # "none"
               PROVE  FALSE
    BY <1>1, <1>6 DEF Newest
  <2>1. q > Frontier
    BY <1>1, <1>4 DEF LatestInv, Newest
  <2>2. AllReached
    BY <1>1 DEF CaughtUp, Owns
  <2>3. q <= Frontier /\ Frontier \in Nat /\ q \in Nat
    BY <1>1, <2>2, LogInPositions, FrontierType DEF AllReached
  <2>4. QED BY <2>1, <2>3
<1>11. QED BY <1>7, <1>8, <1>9, <1>10 DEF LatestInv

\* The steps of the reader that admit nothing.
LEMMA LatestReader ==
    ASSUME MarkInv, Ahead, LatestInv, Reader, ~AdmitNext
    PROVE  LatestInv'
<1>1. TypeOK /\ HeadInv /\ Phases /\ Durable /\ mark \in Nat /\ pub \in Nat
  BY FrontierType DEF MarkInv, HeadInv
<1>2. /\ UNCHANGED <<log, up, status, from, queues, latest>>
      /\ begun' \subseteq begun
  BY DEF Reader, Wake, Promote, PromoteMatching, Promoted, Poll, ReadMark, PersistMark,
         ForgetPassed, Forget, SweepRows, PrunePassed, DriverError, Resubscribe
<1>3. CASE Resubscribe
  <2>1. Frontier' = Frontier /\ mark' = mark
    BY <1>1, <1>3, QuietReader DEF Quiet
  <2>2. QED BY <1>1, <1>2, <2>1, LatestFrame
<1>4. CASE ~Resubscribe
  <2>1. Frontier' = Frontier
    BY <1>4 DEF Reader, Wake, Promoted, Poll, ReadMark, PersistMark, ForgetPassed,
                SweepRows, PrunePassed, DriverError, Frontier
  <2>2. mark' = mark \/ (up /\ rpc = "persist" /\ mark' = pub)
    BY <1>4 DEF Reader, Wake, Promoted, Poll, ReadMark, PersistMark, ForgetPassed,
                SweepRows, PrunePassed, DriverError, Reading
  <2>3. mark' \in Nat /\ mark <= mark'
    BY <1>1, <2>2 DEF Phases
  <2>4. QED BY <1>1, <1>2, <2>1, <2>3, LatestFrame
<1>5. QED BY <1>3, <1>4

\* Every step of a worker.
LEMMA LatestWorker ==
    ASSUME MarkInv, CaughtUp, LatestInv, NEW w \in Workers, Worker(w)
    PROVE  LatestInv'
<1>1. TypeOK /\ HeadInv /\ Phases /\ Durable /\ mark \in Nat
  BY FrontierType DEF MarkInv, HeadInv
<1>2. CASE Begin(w)
  BY <1>2, LatestBegin
<1>3. CASE SkipWedged(w) \/ Finish(w) \/ LoseAnswer(w)
  <2>1. /\ up /\ wpc[w] \in {"run", "skip"} /\ MakeTerminal(w)
        /\ UNCHANGED <<log, up, queues, latest, begun, mark>> /\ Frontier' = Frontier
    BY <1>3 DEF SkipWedged, Finish, LoseAnswer, Park, Defer, At, Frontier
  <2>2. QED BY <2>1, LatestTerminal
<1>4. CASE Retire(w)
  BY <1>4, LatestRetire
<1>5. CASE \/ PopLane(w) \/ ClaimLane(w) \/ TakeHead(w) \/ Fail(w) \/ NoteLaneRow(w)
           \/ ReleaseLane(w)
  <2>1. /\ UNCHANGED <<log, up, status, queues, begun, mark>> /\ Frontier' = Frontier
        /\ \A l \in Lanes : \A a \in Arms : latest'[l][a] \in {latest[l][a], 0}
    BY <1>1, <1>5, QuietWorker DEF Quiet
  <2>2. from' = from
    BY <1>5 DEF PopLane, ClaimLane, TakeHead, Fail, NoteLaneRow, ReleaseLane
  <2>3. up => latest' = latest \/ AllReached
    <3>1. CASE TakeHead(w)
      BY <3>1 DEF TakeHead, At, CaughtUp, Owns
    <3>2. CASE ~TakeHead(w)
      BY <1>5, <3>2 DEF PopLane, ClaimLane, Claim, Fail, Park, Defer, NoteLaneRow,
                        ReleaseLane, Release
    <3>3. QED BY <3>1, <3>2
  <2>4. QED BY <1>1, <2>1, <2>2, <2>3, LatestFrame
<1>6. CASE Replay(w) \/ RecordLaneRow(w)
  <2>1. /\ UNCHANGED <<log, up, status, from, queues, latest, begun, mark>>
        /\ Frontier' = Frontier
    BY <1>6 DEF Replay, RecordLaneRow, Frontier
  <2>2. QED BY <1>1, <2>1, LatestFrame
<1>7. QED BY <1>2, <1>3, <1>4, <1>5, <1>6 DEF Worker

\* Every step, from a state in which nothing hides what was recorded.
LEMMA LatestNext ==
    ASSUME MarkInv, Ahead, CaughtUp, Sighted, LatestInv, [Next]_vars PROVE LatestInv'
<1>1. /\ TypeOK /\ HeadInv /\ QueueSound /\ Folded /\ Phases /\ Durable /\ Dispatcher
      /\ QueueTrue /\ mark \in Nat
  BY FrontierType DEF MarkInv, HeadInv, Dispatcher
<1>2. CASE AppendEvent
  BY <1>1, <1>2, LatestAppend
<1>3. CASE Start \/ Crash \/ Rewind
  BY <1>1, <1>3, LatestOutside
<1>4. CASE SweepInvocation
  BY <1>1, <1>4, LatestSwept
<1>5. CASE RequestSkip \/ UNCHANGED vars
  <2>1. /\ UNCHANGED <<log, up, status, from, queues, latest, begun, mark>>
        /\ Frontier' = Frontier
    BY <1>5 DEF RequestSkip, vars, Frontier
  <2>2. QED BY <1>1, <2>1, LatestFrame
<1>6. CASE Reader
  BY <1>1, <1>6, LatestAdmit, LatestReader
<1>7. CASE \E w \in Workers : Worker(w)
  BY <1>7, LatestWorker
<1>8. QED BY <1>2, <1>3, <1>4, <1>5, <1>6, <1>7 DEF Next

\* Nothing that was recorded hides an event or is overtaken by an older one.
THEOREM RecordsInOrder == Spec /\ []Ahead /\ []CaughtUp /\ []Sighted => []LatestInv
<1>1. Init => LatestInv
  <2> SUFFICES ASSUME Init PROVE LatestInv
    OBVIOUS
  <2>1. RunningLast /\ CoveredOnce
    BY DEF Init, RunningLast, CoveredOnce
  <2>2. QED BY <2>1 DEF Init, LatestInv, GroupsTrue, OpenLast, BegunReal, Newest
<1>2. MarkInv /\ Ahead /\ CaughtUp /\ Sighted /\ LatestInv /\ [Next]_vars => LatestInv'
  BY LatestNext
<1>3. QED BY <1>1, <1>2, AccountKept, PTL DEF Spec

\* What is on record about a lane neither hides an event nor runs one twice: the rows
\* make a resume skip only what is over with or will be made redundant, and the ranges
\* a replay reads off the terminal invocations (effect_invocation.collapsed_from) never
\* overlap.
THEOREM RecordsAreSound ==
    Spec /\ []Ahead /\ []CaughtUp /\ []Sighted => []RecordsSound
<1>1. RowsStrandNothing /\ LatestInv => RecordsSound
  BY DEF LatestInv, RecordsSound
<1>2. QED BY <1>1, RowsAreSound, RecordsInOrder, PTL

\* No first run of an on latest arm follows a finished run of a newer event of that arm
\* and lane, so the outside world is never set back (LaneState::admit, begin_invocation).
THEOREM NeverSetBack ==
    Spec /\ []Ahead /\ []CaughtUp /\ []Sighted => LatestNeverOlder
<1> DEFINE Kept(p) ==
      Reserves(p) /\ Collapsible(ArmOf(p), LaneOf(p)) =>
        \A q \in Positions :
          status[q] = "terminal" => q <= Len(log) /\ ~Subsumes(q, p)
<1>1. ASSUME TypeOK, MarkInv, CaughtUp, LatestInv, [Next]_vars, NEW p \in Positions,
             Reserves(p), NEW q \in Positions, status[q] = "terminal"
      PROVE  q <= Len(log) /\ ~Subsumes(q, p)
  <2>1. PICK w \in Workers : Begin(w)
    BY <1>1, OnlyBeginReserves
  <2>2. up /\ Holds(w)
    BY <2>1 DEF Begin, At, Holds
  <2>3. work[w].position = p
    BY <1>1, <2>1 DEF Begin, Reserves, StoreTypeOK, TypeOK
  <2>4. PICK l \in Lanes : wlane[w] = l
    BY <1>1 DEF TypeOK, PoolTypeOK
  <2>5. q \in 1..Len(log) /\ Len(log) \in Nat
    BY <1>1, RowInLog, FrontierType DEF MarkInv
  <2>6. ASSUME Subsumes(q, p) PROVE FALSE
    <3>1. p < q /\ Alike(p, q)
      BY <2>6 DEF Subsumes, Alike, SameLane, Positions
    <3>2. status[p] = "none"
      BY <1>1 DEF Reserves
    <3>3. status[q] = "none"
      BY <1>1, <2>2, <2>3, <2>4, <2>5, <3>1, <3>2, BeginsNewest
    <3>4. QED BY <1>1, <3>3
  <2>7. QED BY <2>5, <2>6
<1>2. TypeOK /\ MarkInv /\ CaughtUp /\ LatestInv /\ [Next]_vars =>
        [\A p \in Positions : Kept(p)]_vars
  BY <1>1
<1>3. QED
  BY <1>2, TypeCorrect, AccountKept, RecordsInOrder, PTL DEF Spec, LatestNeverOlder

-----------------------------------------------------------------------------
(* When nothing that was recorded is hidden.                               *)

\* What a process left on record when it stopped lies within one batch of the mark, and
\* is no more than a resume reads back.  Nothing is said of the rest of the log.
ShortRecord ==
    ~up => /\ \A q \in Positions : status[q] # "none" => q <= mark + BatchCap
           /\ Cardinality(RecordedAbove(mark)) <= RecordedMax

\* The inductive invariant behind CaughtUp: until the reader has got to all that is on
\* record there is no lane to take and one batch holds the rest, or that batch is being
\* admitted under the lane lock.
Resumed ==
    up => AllReached \/
      /\ \A w \in Workers : ~Owns(w)
      /\ rpc = "admit" => \A q \in Positions : status[q] # "none" => q <= cursor
      /\ rpc # "admit" =>
           /\ \A l \in Lanes : place[l] = "None"
           /\ \A q \in Positions : status[q] # "none" => q <= mark + BatchCap

\* The frontier does not recede while the process runs, and a row appears behind it.
LEMMA FrontierGrows ==
    ASSUME MarkInv, Ahead, [Next]_vars, up, up'
    PROVE  /\ Frontier' \in Nat /\ Frontier <= Frontier'
           /\ \A q \in Positions : status'[q] # "none" => status[q] # "none" \/ q <= Frontier
<1>1. /\ HeadInv /\ TypeOK /\ Folded /\ Phases /\ Durable /\ Dispatcher
      /\ Frontier \in Nat
  BY FrontierType DEF MarkInv, HeadInv
<1>2. CASE AdmitNext
  <2>1. PICK p : p = seen + 1
    OBVIOUS
  <2>2. /\ p \in Nat /\ status' = status
        /\ p <= Frontier => Frontier' = Frontier
        /\ ~(p <= Frontier) => p = Frontier + 1 /\ Frontier' = p
    BY <1>1, <1>2, <2>1, AdmitReach
  <2>3. QED BY <1>1, <2>2
<1>3. CASE Resubscribe
  <2>1. Frontier' = Frontier /\ status' = status
    BY <1>1, <1>3, QuietReader DEF Quiet
  <2>2. QED BY <1>1, <2>1
<1>4. CASE AppendEvent \/ RequestSkip \/ UNCHANGED vars
  <2>1. Frontier' = Frontier /\ status' = status
    BY <1>4 DEF AppendEvent, RequestSkip, vars, Frontier
  <2>2. QED BY <1>1, <2>1
<1>5. CASE SweepInvocation
  <2>1. Frontier' = Frontier
    BY <1>5 DEF SweepInvocation, Frontier
  <2>2. PICK p \in Positions : status' = [status EXCEPT ![p] = "none"]
    BY <1>5 DEF SweepInvocation
  <2>3. \A q \in Positions : status'[q] # "none" => status[q] # "none"
    BY <1>1, <2>2 DEF TypeOK, StoreTypeOK
  <2>4. QED BY <1>1, <2>1, <2>3
<1>6. CASE Reader /\ ~AdmitNext /\ ~Resubscribe
  <2>1. Frontier' = Frontier /\ status' = status
    BY <1>6 DEF Reader, Wake, Promoted, Poll, ReadMark, PersistMark, ForgetPassed,
                SweepRows, PrunePassed, DriverError, Frontier
  <2>2. QED BY <1>1, <2>1
<1>7. ASSUME NEW w \in Workers, Worker(w)
      PROVE  /\ Frontier' = Frontier
             /\ \A q \in Positions : status'[q] # "none" => status[q] # "none" \/ q <= Frontier
  <2>1. Frontier' = Frontier
    BY <1>7 DEF Worker, PopLane, ClaimLane, TakeHead, Begin, SkipWedged, Finish, Fail,
                LoseAnswer, Park, Replay, Retire, RecordLaneRow, NoteLaneRow,
                ReleaseLane, Frontier
  <2>2. CASE Begin(w) \/ SkipWedged(w) \/ Finish(w) \/ LoseAnswer(w)
    <3>1. Holds(w)
      BY <2>2 DEF Begin, SkipWedged, Finish, LoseAnswer, At, Holds
    <3>2. PICK l \in Lanes : wlane[w] = l
      BY <1>1 DEF TypeOK, PoolTypeOK
    <3>3. PICK p : work[w].position = p
      OBVIOUS
    <3>4. p \in 1..Frontier
      BY <1>1, <3>1, <3>2, <3>3, HeldFacts
    <3>5. \A q \in Positions : q # p => status'[q] = status[q]
      BY <1>1, <2>2, <3>3 DEF Begin, SkipWedged, Finish, LoseAnswer, MakeTerminal, TypeOK,
         StoreTypeOK
    <3>6. QED BY <1>1, <2>1, <3>4, <3>5
  <2>3. CASE ~(Begin(w) \/ SkipWedged(w) \/ Finish(w) \/ LoseAnswer(w))
    <3>1. status' = status
      BY <1>7, <2>3 DEF Worker, PopLane, ClaimLane, TakeHead, Fail, Replay, Retire,
         RecordLaneRow, NoteLaneRow, ReleaseLane
    <3>2. QED BY <2>1, <3>1
  <2>4. QED BY <2>2, <2>3
<1>8. CASE Start \/ Crash \/ Rewind
  BY <1>8 DEF Start, Crash, Rewind
<1>9. QED BY <1>1, <1>2, <1>3, <1>4, <1>5, <1>6, <1>7, <1>8 DEF Next

\* Once all that is on record is reached it stays so.
LEMMA AllReachedKept ==
    ASSUME MarkInv, Ahead, [Next]_vars, up, up', AllReached PROVE AllReached'
<1>1. /\ Frontier' \in Nat /\ Frontier <= Frontier' /\ Frontier \in Nat
      /\ \A q \in Positions : status'[q] # "none" => status[q] # "none" \/ q <= Frontier
  BY FrontierGrows, FrontierType DEF MarkInv, HeadInv
<1>2. \A q \in Positions : status'[q] # "none" => q <= Frontier /\ q \in Nat
  BY <1>1 DEF AllReached, Positions
<1>3. QED BY <1>1, <1>2 DEF AllReached

\* A resume has no lane to run before one batch has brought it past all that is on record.
LEMMA ResumedNext ==
    ASSUME ShortRecord, MarkInv, Ahead, Resumed, [Next]_vars PROVE Resumed'
<1>1. /\ HeadInv /\ TypeOK /\ Folded /\ Phases /\ Durable /\ Ownership /\ QueueSound
      /\ Len(log) \in Nat /\ Len(log) <= MaxLog /\ cursor \in Nat /\ seen \in Nat
      /\ cursor <= Len(log) /\ Held /\ mark \in Nat /\ BatchCap \in Nat \ {0}
      /\ Dispatcher
  BY FrontierType, SizesAssumption DEF MarkInv, HeadInv, Phases, Folded
<1>2. \A q \in Positions : status[q] # "none" => q \in 1..Len(log)
  BY <1>1, RowInLog
<1>3. CASE ~up'
  BY <1>3 DEF Resumed
<1>4. CASE up' /\ ~up
  <2>1. Start
    <3>1. ~(AppendEvent \/ Crash \/ Rewind \/ RequestSkip \/ SweepInvocation \/ UNCHANGED vars)
      BY <1>4 DEF AppendEvent, Crash, Rewind, RequestSkip, SweepInvocation, vars
    <3>2. ~Reader
      BY <1>4 DEF Reader, Wake, Promoted, Poll, AdmitNext, ReadMark, PersistMark,
         ForgetPassed, SweepRows, PrunePassed, DriverError, Resubscribe, Reading
    <3>3. \A w \in Workers : ~Worker(w)
      BY <1>4 DEF Worker, PopLane, ClaimLane, TakeHead, Begin, SkipWedged, Finish, Fail,
         LoseAnswer, Replay, Retire, RecordLaneRow, NoteLaneRow, ReleaseLane, At
    <3>4. QED BY <3>1, <3>2, <3>3 DEF Next
  <2>2. /\ \A w \in Workers : wpc'[w] = "idle"
        /\ rpc' # "admit" /\ \A l \in Lanes : place'[l] = "None"
        /\ mark' = mark /\ status' = status
    BY <1>1, <1>4, <2>1 DEF Start, Resuming, Ownership
  <2>3. \A q \in Positions : status[q] # "none" => q <= mark + BatchCap
    BY <1>4 DEF ShortRecord
  <2>4. QED BY <2>2, <2>3 DEF Resumed, Owns
<1>5. CASE up' /\ up /\ AllReached
  BY <1>5, AllReachedKept DEF Resumed
<1>6. CASE up' /\ up /\ ~AllReached
  <2>1. /\ \A w \in Workers : ~Owns(w)
        /\ rpc = "admit" => \A q \in Positions : status[q] # "none" => q <= cursor
        /\ rpc # "admit" =>
             /\ \A l \in Lanes : place[l] = "None"
             /\ \A q \in Positions : status[q] # "none" => q <= mark + BatchCap
    BY <1>6 DEF Resumed
  <2>2. CASE AppendEvent \/ RequestSkip \/ UNCHANGED vars
    <3>1. UNCHANGED <<status, wpc, place, rpc, cursor, mark>>
      BY <2>2 DEF AppendEvent, RequestSkip, vars
    <3>2. QED BY <2>1, <3>1 DEF Resumed, Owns
  <2>3. CASE SweepInvocation
    <3>1. UNCHANGED <<wpc, place, rpc, cursor, mark>>
      BY <2>3 DEF SweepInvocation
    <3>2. PICK p \in Positions : status' = [status EXCEPT ![p] = "none"]
      BY <2>3 DEF SweepInvocation
    <3>3. \A q \in Positions : status'[q] # "none" => status[q] # "none"
      BY <1>1, <3>2 DEF TypeOK, StoreTypeOK
    <3>4. QED BY <2>1, <3>1, <3>3 DEF Resumed, Owns
  <2>4. CASE \E l \in Lanes : Wake(l)
    BY <2>1, <2>4 DEF Wake, Promote, PromoteMatching, SkipWakes, Reading
  <2>5. CASE Poll
    <3>1. /\ UNCHANGED <<status, wpc, place, mark>> /\ rpc = "poll"
          /\ \/ /\ Cardinality(inflight) >= MaxInflight \/ cursor = Len(log)
                /\ rpc' = "mark" /\ cursor' = cursor
             \/ rpc' = "admit" /\ cursor' = Lesser(Len(log), cursor + BatchCap)
      BY <2>5 DEF Poll, Reading
    <3>2. mark <= cursor
      BY <1>1, <1>6, <3>1 DEF Ahead, Phases
    <3>3. \A q \in Positions : status[q] # "none" =>
             q \in Nat /\ q <= Len(log) /\ q <= cursor + BatchCap
      BY <1>1, <1>2, <2>1, <3>1, <3>2
    <3>4. rpc' = "admit" => \A q \in Positions : status'[q] # "none" => q <= cursor'
      BY <1>1, <3>1, <3>3 DEF Lesser
    <3>5. rpc' # "admit" =>
             /\ \A l \in Lanes : place'[l] = "None"
             /\ \A q \in Positions : status'[q] # "none" => q <= mark' + BatchCap
      BY <2>1, <3>1
    <3>6. QED BY <2>1, <3>1, <3>4, <3>5 DEF Resumed, Owns
  <2>6. CASE AdmitNext
    <3>1. /\ rpc = "admit" /\ seen' = seen + 1 /\ UNCHANGED <<status, wpc, cursor>>
          /\ \/ seen + 1 = cursor
             \/ rpc' = "admit"
      BY <2>6 DEF AdmitNext, Reading
    <3>2. CASE rpc' = "admit"
      BY <2>1, <3>1, <3>2 DEF Resumed, Owns
    <3>3. CASE rpc' # "admit"
      <4>1. seen' = cursor
        BY <3>1, <3>3
      <4>2. Frontier' \in Nat /\ cursor <= Frontier'
        BY <1>1, <1>6, <4>1, FrontierGrows DEF Frontier, Greater
      <4>3. \A q \in Positions : status'[q] # "none" => q <= cursor /\ q \in Nat
        BY <2>1, <3>1 DEF Positions
      <4>4. AllReached'
        BY <1>1, <4>2, <4>3 DEF AllReached
      <4>5. QED BY <4>4 DEF Resumed
    <3>4. QED BY <3>2, <3>3
  <2>7. CASE \/ Promoted \/ ReadMark \/ PersistMark \/ ForgetPassed \/ SweepRows
             \/ PrunePassed \/ DriverError \/ Resubscribe
    <3>1. UNCHANGED <<status, wpc, place>> /\ rpc # "admit" /\ rpc' # "admit"
      BY <2>7 DEF Promoted, ReadMark, PersistMark, ForgetPassed, Forget, SweepRows,
         PrunePassed, PruneRows, PassEnds, DriverError, Resubscribe, Reading
    <3>2. mark' = mark \/ (rpc = "persist" /\ mark' = pub)
      BY <2>7 DEF Promoted, ReadMark, PersistMark, ForgetPassed, SweepRows, PrunePassed,
         DriverError, Resubscribe, Reading
    <3>3. mark <= mark' /\ mark' \in Nat
      BY <1>1, <1>6, <3>2 DEF Phases, TypeOK, ReaderTypeOK
    <3>4. \A q \in Positions : status[q] # "none" => q \in Nat /\ q <= mark' + BatchCap
      BY <1>1, <1>2, <2>1, <3>1, <3>3
    <3>5. QED BY <2>1, <3>1, <3>4 DEF Resumed, Owns
  <2>8. ASSUME NEW w \in Workers, Worker(w) PROVE Resumed'
    <3>1. wpc[w] \in {"idle", "popped"}
      BY <2>1 DEF Owns
    <3>2. PopLane(w) \/ ClaimLane(w)
      BY <2>8, <3>1 DEF Worker, TakeHead, Begin, SkipWedged, Finish, Fail, LoseAnswer,
         Replay, Retire, RecordLaneRow, NoteLaneRow, ReleaseLane, At
    <3>3. ~(place[wlane[w]] = "Queued" /\ LockFree)
      BY <1>1, <2>1 DEF LockFree, TypeOK, PoolTypeOK
    <3>4. /\ UNCHANGED <<status, place, rpc, cursor, mark>>
          /\ Go(w, "popped") \/ Go(w, "idle")
      BY <3>2, <3>3 DEF PopLane, ClaimLane, Unhand
    <3>5. \A v \in Workers : wpc'[v] \in {wpc[v], "popped", "idle"}
      BY <1>1, <3>4 DEF Go, TypeOK, PoolTypeOK
    <3>6. \A v \in Workers : ~Owns(v)'
      BY <2>1, <3>5 DEF Owns
    <3>7. QED BY <2>1, <3>4, <3>6 DEF Resumed
  <2>9. CASE Start \/ Crash \/ Rewind
    BY <1>6, <2>9 DEF Start, Crash, Rewind
  <2>10. QED
    BY <2>2, <2>3, <2>4, <2>5, <2>6, <2>7, <2>8, <2>9 DEF Next, Reader
<1>7. QED BY <1>3, <1>4, <1>5, <1>6

\* What is read back is complete where no more was left on record.
LEMMA SightedNext ==
    ASSUME ShortRecord, Sighted, [Next]_vars PROVE Sighted'
<1>1. CASE Start
  <2>1. IsFiniteSet(RecordedAbove(mark))
    <3>1. 1 \in Int /\ MaxLog \in Int
      BY SizesAssumption
    <3>2. IsFiniteSet(1..MaxLog)
      BY <3>1, FS_Interval
    <3>3. RecordedAbove(mark) \subseteq 1..MaxLog
      BY DEF RecordedAbove, Recorded, Positions
    <3>4. QED BY <3>2, <3>3, FS_Subset
  <2>2. ReadBack \subseteq RecordedAbove(mark)
    BY DEF ReadBack
  <2>3. /\ Cardinality(ReadBack) <= Cardinality(RecordedAbove(mark))
        /\ Cardinality(ReadBack) \in Nat /\ Cardinality(RecordedAbove(mark)) \in Nat
    BY <2>1, <2>2, FS_Subset, FS_CardinalityType
  <2>4. Cardinality(RecordedAbove(mark)) <= RecordedMax
    BY <1>1 DEF Start, ShortRecord
  <2>5. ~(Cardinality(ReadBack) > RecordedMax)
    BY <2>3, <2>4, SizesAssumption
  <2>6. QED BY <1>1, <2>5 DEF Start, Resuming, Sighted
<1>2. CASE Crash
  BY <1>2 DEF Crash, Sighted
<1>3. CASE ~Start /\ ~Crash
  <2>1. up' = up /\ blind' = blind
    BY <1>3 DEF Next, AppendEvent, Rewind, RequestSkip, SweepInvocation,
       Reader, Wake, Promoted, Poll, AdmitNext, ReadMark, PersistMark, ForgetPassed,
       SweepRows, PrunePassed, PruneRows, DriverError, Resubscribe, Worker, PopLane,
       ClaimLane, TakeHead, Begin, SkipWedged, Finish, Fail, LoseAnswer, Park, Replay,
       Retire, RecordLaneRow, NoteLaneRow, RecordRow, ReleaseLane, vars
  <2>2. QED BY <2>1 DEF Sighted
<1>4. QED BY <1>1, <1>2, <1>3

\* Where a stopped process leaves no more on record than one batch reaches and a resume
\* reads back, no worker begins before the reader has got to all of it, and no resume
\* gives up folding: however long the log behind it, wherever the process died.
THEOREM NothingHidden == Spec /\ []Ahead /\ []ShortRecord => []CaughtUp /\ []Sighted
<1>1. Init => Resumed /\ Sighted
  BY DEF Init, Resumed, Sighted
<1>2. MarkInv /\ Ahead /\ ShortRecord /\ Resumed /\ [Next]_vars => Resumed'
  BY ResumedNext
<1>3. ShortRecord /\ Sighted /\ [Next]_vars => Sighted'
  BY SightedNext
<1>4. Resumed => CaughtUp
  BY DEF Resumed, CaughtUp
<1>5. QED BY <1>1, <1>2, <1>3, <1>4, AccountKept, PTL DEF Spec

\* There what is on record hides no event and runs none twice, and nothing is set back
\* (LaneState::resuming, invocations_above).
THEOREM RecordsKept ==
    Spec /\ []Ahead /\ []ShortRecord => []RecordsSound /\ LatestNeverOlder
<1>1. QED BY NothingHidden, RecordsAreSound, NeverSetBack, PTL

=============================================================================
