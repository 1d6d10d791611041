---------------------------- MODULE EffectRuntime ----------------------------
(***************************************************************************)
(* One effect of a running hekla process: the reader thread that           *)
(* subscribes to the log, the pool of workers that run its lanes, the      *)
(* operational database (hekla.db) they both write, and the crashes,       *)
(* restarts, failed writes, operator skips and rewinds they must survive.  *)
(*                                                                         *)
(* The reader is run_inner in src/src/effect.rs cut at every durable write *)
(* and every release of the lane lock; a worker is run_lane cut the same   *)
(* way.  The lane lock is held by the reader exactly while a batch is      *)
(* being admitted.  What an invocation does (its journal, its calls) is    *)
(* one step with three outcomes: it ends, it fails, or it ends and the     *)
(* answer of the write that says so is lost.                               *)
(***************************************************************************)
EXTENDS LaneState

CONSTANTS
    Workers,       \* the pool's threads
    Delivery,      \* arm -> "on", "live" or "latest"
    Unreadable,    \* the lane of every event whose key could not be read
    Flaky,         \* lanes on which an attempt or a write may fail
    Wedged,        \* lanes on which no attempt succeeds, until it is skipped
    NoArm,         \* the arm of an event whose type no arm of the effect answers
    Events,        \* what the log may hold: records of a lane and an arm
    MaxLog,        \* bound: length of the log
    BatchCap,      \* the most events poll_batch returns
    MaxInflight,   \* MAX_INFLIGHT: groups in flight before the reader pauses
    RecordedMax,   \* RECORDED_MAX: recorded positions read back at a resume
    Skippable,     \* positions an operator may ask to skip
    Verify,        \* whether a completed invocation is replayed and compared
    StoreFails,    \* whether a read of the log or a write of hekla.db may fail
    MaxCrashes,    \* bound: crashes
    MaxRewinds     \* bound: rewinds

ASSUME SizesAssumption ==
    /\ MaxLog \in Nat /\ BatchCap \in Nat \ {0} /\ MaxInflight \in Nat \ {0}
    /\ RecordedMax \in Nat /\ MaxCrashes \in Nat /\ MaxRewinds \in Nat
    /\ Skippable \subseteq Nat \ {0}
    /\ Verify \in BOOLEAN /\ StoreFails \in BOOLEAN

ASSUME DeliveryAssumption ==
    /\ Lanes # {}
    /\ Delivery \in [Arms -> {"on", "live", "latest"}]
    /\ Wedged \subseteq Flaky /\ Flaky \subseteq Lanes
    /\ Unreadable \in Lanes => Unreadable \in Wedged

ASSUME EventsAssumption ==
    /\ NoArm \notin Arms
    /\ Events \subseteq [lane : Lanes, arm : Arms \cup {NoArm}]

VARIABLES
    \* The store and hekla.db: what a crash leaves behind.
    log,           \* the event log
    mark,          \* effect_cursor.watermark
    boundary,      \* effect_activation.live_boundary, or Inactive
    status,        \* effect_invocation.status by position, "none" without a row
    from,          \* effect_invocation.collapsed_from, the position itself for NULL
    laneRow,       \* effect_lane.position by lane, or 0
    quarantine,    \* effect_quarantine.position, or 0
    \* The reader and EffectShared.
    up,            \* the process runs
    rpc,           \* where the reader is
    cursor,        \* the subscription's position
    seen,          \* the last position of the batch already admitted
    pub,           \* the mark being published
    position,      \* EffectShared.position: the mark as published
    skips,         \* EffectShared.skips
    stuck,         \* EffectShared.stuck: the position a lane fails on, or 0
    halted,        \* EffectShared.quarantined
    \* The pool.
    ready,         \* LanePool.ready
    wpc,           \* worker -> where it is
    wlane,         \* worker -> the lane it was handed
    work,          \* worker -> the position it runs and the oldest it covers
    \* Bookkeeping: budgets, and the history the properties speak of.
    crashes, rewinds,
    settled        \* answered positions whose work is done, since any rewind

durableVars == <<log, mark, boundary, status, from, laneRow, quarantine>>
rowVars == <<status, from>>
readerVars == <<rpc, cursor, seen, pub, position>>
sharedVars == <<skips, stuck, halted>>
poolVars == <<ready, wpc, wlane, work>>
budgetVars == <<crashes, rewinds>>
vars == <<durableVars, up, readerVars, sharedVars, poolVars, laneVars,
          budgetVars, settled>>

Inactive == -1
Positions == 1..MaxLog
NoWork == [position |-> 0, from |-> 0]
AnyLane == CHOOSE l \in Lanes : TRUE

-----------------------------------------------------------------------------
(* Which positions the effect answers, and which it may fold.              *)

ArmOf(p) == log[p].arm
LaneOf(p) == log[p].lane

\* An on live arm declines everything at or below the boundary.
AnswersUnder(p, live) ==
    /\ ArmOf(p) \in Arms
    /\ Delivery[ArmOf(p)] = "live" => p > live
Answered(p) == p \in 1..Len(log) /\ AnswersUnder(p, boundary)

\* Rule 15: an on latest arm, in a lane whose key was read.
Collapsible(a, l) == Delivery[a] = "latest" /\ l # Unreadable

\* q is a newer position whose run makes one at p redundant.
Subsumes(q, p) ==
    /\ q > p /\ LaneOf(q) = LaneOf(p) /\ ArmOf(q) = ArmOf(p)
    /\ Collapsible(ArmOf(p), LaneOf(p))

\* The positions whose work a run at p leaves done.
Settles(p) == {p} \cup {q \in 1..p : Answered(q) /\ Subsumes(p, q)}

Recorded == {p \in Positions : status[p] # "none"}
RecordedAbove(m) == {p \in Recorded : p > m}

StoreTypeOK ==
    /\ log \in Seq(Events)
    /\ mark \in 0..Len(log)
    /\ boundary \in Nat \cup {Inactive}
    /\ status \in [Positions -> {"none", "running", "terminal"}]
    /\ from \in [Positions -> Nat]
    /\ laneRow \in [Lanes -> Nat]
    /\ quarantine \in Nat

\* While a batch is being admitted there is something left of it.
ReaderTypeOK ==
    /\ up \in BOOLEAN
    /\ rpc \in {"promote", "poll", "admit", "mark", "persist", "forget",
                "sweep", "prune", "resubscribe", "stopped"}
    /\ cursor \in 0..Len(log) /\ seen \in 0..cursor
    /\ rpc = "admit" => seen < cursor
    /\ scanned \in 0..Len(log) /\ pub \in 0..Len(log)
    /\ position \in Nat
    /\ skips \subseteq Skippable
    /\ stuck \in [Lanes -> Nat]
    /\ halted \in BOOLEAN

PoolTypeOK ==
    /\ ready \in Seq(Lanes)
    /\ wpc \in [Workers -> {"idle", "popped", "head", "begin", "skip", "run",
                            "verify", "retire", "row", "noted", "release"}]
    /\ wlane \in [Workers -> Lanes]
    /\ work \in [Workers -> [position : Nat, from : Nat]]

TypeOK ==
    /\ LaneTypeOK /\ StoreTypeOK /\ ReaderTypeOK /\ PoolTypeOK
    /\ crashes \in Nat /\ rewinds \in Nat /\ settled \subseteq Nat

-----------------------------------------------------------------------------
(* The process: start, crash, rewind; and the log growing underneath.      *)

\* Nothing has run yet, and the process is not up.
Init ==
    /\ log = <<>> /\ mark = 0 /\ boundary = Inactive
    /\ status = [p \in Positions |-> "none"]
    /\ from = [p \in Positions |-> 0]
    /\ laneRow = [l \in Lanes |-> 0]
    /\ quarantine = 0
    /\ up = FALSE /\ rpc = "stopped"
    /\ cursor = 0 /\ seen = 0 /\ pub = 0 /\ position = 0
    /\ skips = {} /\ stuck = [l \in Lanes |-> 0] /\ halted = FALSE
    /\ ready = <<>>
    /\ wpc = [w \in Workers |-> "idle"]
    /\ wlane = [w \in Workers |-> AnyLane]
    /\ work = [w \in Workers |-> NoWork]
    /\ queues = [l \in Lanes |-> <<>>]
    /\ latest = [l \in Lanes |-> [a \in Arms |-> 0]]
    /\ high = [l \in Lanes |-> 0] /\ place = [l \in Lanes |-> "None"]
    /\ inflight = {} /\ scanned = 0 /\ rows = [l \in Lanes |-> 0]
    /\ begun = {} /\ blind = FALSE /\ skipPromoted = {}
    /\ crashes = 0 /\ rewinds = 0 /\ settled = {}

\* A command appends an event.
AppendEvent ==
    /\ Len(log) < MaxLog
    /\ \E e \in Events : log' = Append(log, e)
    /\ UNCHANGED <<mark, boundary, rowVars, laneRow, quarantine, up, readerVars,
                   sharedVars, poolVars, laneVars, budgetVars, settled>>

\* What invocations_above answers a dispatcher that can fold: the oldest
\* RecordedMax + 1 recorded positions above the mark.
ReadBack ==
    IF \E a \in Arms : Delivery[a] = "latest"
      THEN {p \in RecordedAbove(mark) :
              Cardinality({q \in RecordedAbove(mark) : q <= p}) <= RecordedMax + 1}
      ELSE {}

\* The effect's thread starts: the live boundary is resolved once, a recorded
\* quarantine keeps the reader from running, and otherwise the dispatcher is
\* built from the mark and what is recorded above it.
Start ==
    /\ ~up /\ up' = TRUE
    /\ boundary' = IF boundary = Inactive THEN Len(log) ELSE boundary
    /\ halted' = (quarantine # 0)
    /\ rpc' = IF quarantine = 0 THEN "promote" ELSE "stopped"
    /\ position' = IF quarantine = 0 THEN mark ELSE quarantine
    /\ cursor' = mark /\ seen' = mark /\ pub' = mark
    /\ Resuming(mark, laneRow, ReadBack, Cardinality(ReadBack) > RecordedMax)
    /\ UNCHANGED <<log, mark, rowVars, laneRow, quarantine, skips, stuck,
                   poolVars, budgetVars, settled>>

\* The process dies: every thread and everything in memory goes.
Crash ==
    /\ up /\ crashes < MaxCrashes
    /\ crashes' = crashes + 1
    /\ up' = FALSE /\ rpc' = "stopped"
    /\ cursor' = 0 /\ seen' = 0 /\ pub' = 0 /\ position' = 0
    /\ skips' = {} /\ stuck' = [l \in Lanes |-> 0] /\ halted' = FALSE
    /\ ready' = <<>> /\ wpc' = [w \in Workers |-> "idle"]
    /\ wlane' = [w \in Workers |-> AnyLane]
    /\ work' = [w \in Workers |-> NoWork]
    /\ Resuming(0, [l \in Lanes |-> 0], {}, FALSE)
    /\ UNCHANGED <<durableVars, rewinds, settled>>

\* hekla rewind, against a stopped process: one transaction.
Rewind ==
    /\ ~up /\ rewinds < MaxRewinds
    /\ rewinds' = rewinds + 1
    /\ \E to \in 0..mark, live \in BOOLEAN :
         /\ live => \E a \in Arms : Delivery[a] = "live"
         /\ mark' = to
         /\ status' = [p \in Positions |-> IF p > to THEN "none" ELSE status[p]]
         /\ from' = [p \in Positions |-> IF p > to THEN 0 ELSE from[p]]
         /\ quarantine' = IF quarantine > to THEN 0 ELSE quarantine
         /\ boundary' = IF live /\ boundary > to THEN to ELSE boundary
         /\ settled' = {p \in settled : p <= to}
    /\ laneRow' = [l \in Lanes |-> 0]
    /\ UNCHANGED <<log, up, readerVars, sharedVars, poolVars, laneVars, crashes>>

\* An operator asks for a position to be skipped.
RequestSkip ==
    /\ up
    /\ \E p \in Skippable : p <= Len(log) /\ skips' = skips \cup {p}
    /\ UNCHANGED <<durableVars, up, readerVars, stuck, halted, poolVars, laneVars,
                   budgetVars, settled>>

\* The retention sweeper reclaims one finished invocation below the mark.
SweepInvocation ==
    /\ up
    /\ \E p \in Positions :
         /\ status[p] = "terminal" /\ p <= mark
         /\ status' = [status EXCEPT ![p] = "none"]
         /\ from' = [from EXCEPT ![p] = 0]
    /\ UNCHANGED <<log, mark, boundary, laneRow, quarantine, up, readerVars,
                   sharedVars, poolVars, laneVars, budgetVars, settled>>

-----------------------------------------------------------------------------
(* The reader.                                                             *)

Reading(pc) == up /\ rpc = pc

\* Nothing but the batch being admitted holds the lane lock across steps.
LockFree == rpc # "admit"

\* Wake a lane whose backoff expired, or whose head an operator wants skipped.
Wake(l) ==
    /\ Reading("promote")
    /\ Promote(l) \/ PromoteMatching(l, skips)
    /\ ready' = Append(ready, l)
    /\ UNCHANGED <<durableVars, up, readerVars, sharedVars, wpc, wlane, work,
                   scanned, resumeVars, budgetVars, settled>>

\* The promote pass ends with every skip it saw honoured.
Promoted ==
    /\ Reading("promote")
    /\ \A l \in Lanes : ~SkipWakes(l, skips)
    /\ rpc' = "poll"
    /\ UNCHANGED <<durableVars, up, cursor, seen, pub, position, sharedVars,
                   poolVars, laneVars, budgetVars, settled>>

\* Seeded defect of Poll: the cursor moves by the batch asked for, not the one read.
PollBlindly ==
    /\ Reading("poll")
    /\ IF Cardinality(inflight) >= MaxInflight \/ cursor = Len(log)
         THEN rpc' = "mark" /\ UNCHANGED cursor
         ELSE rpc' = "admit" /\ cursor' = cursor + BatchCap
    /\ UNCHANGED <<durableVars, up, seen, pub, position, sharedVars, poolVars,
                   laneVars, budgetVars, settled>>

\* Fetch a batch, unless too much is in flight already.
Poll ==
    /\ Reading("poll")
    /\ IF Cardinality(inflight) >= MaxInflight \/ cursor = Len(log)
         THEN rpc' = "mark" /\ UNCHANGED cursor
         ELSE rpc' = "admit" /\ cursor' = Lesser(Len(log), cursor + BatchCap)
    /\ UNCHANGED <<durableVars, up, seen, pub, position, sharedVars, poolVars,
                   laneVars, budgetVars, settled>>

\* Admit the next position of the batch; the scan moves with the last one,
\* before the lock is given up.
AdmitNext ==
    /\ Reading("admit")
    /\ LET p == seen + 1 IN
       /\ seen' = p
       /\ IF Answered(p)
            THEN /\ Admit(LaneOf(p), p, ArmOf(p), Collapsible(ArmOf(p), LaneOf(p)))
                 /\ ready' = IF NeedsOffer(LaneOf(p), p)
                               THEN Append(ready, LaneOf(p)) ELSE ready
            ELSE UNCHANGED <<queueVars, ready>>
       /\ IF p = cursor
            THEN SetScanned(cursor) /\ rpc' = "mark"
            ELSE UNCHANGED <<scanned, rpc>>
    /\ UNCHANGED <<durableVars, up, cursor, pub, position, sharedVars, wpc, wlane,
                   work, resumeVars, skipPromoted, budgetVars, settled>>

\* A quarantine stops the reader at the end of a pass.
PassEnds == rpc' = IF halted THEN "stopped" ELSE "promote"

\* publish_mark reads the low-water mark and gives up unless it moved.
ReadMark ==
    /\ Reading("mark")
    /\ IF LowWater <= position
         THEN PassEnds /\ UNCHANGED pub
         ELSE pub' = LowWater /\ rpc' = "persist"
    /\ UNCHANGED <<durableVars, up, cursor, seen, position, sharedVars, poolVars,
                   laneVars, budgetVars, settled>>

\* Seeded defect of PersistMark: every skip request is dropped with the mark's move.
PersistMarkDroppingSkips ==
    /\ Reading("persist")
    /\ mark' = pub /\ position' = pub /\ skips' = {}
    /\ rpc' = "forget"
    /\ UNCHANGED <<log, boundary, rowVars, laneRow, quarantine, up, cursor, seen,
                   pub, stuck, halted, poolVars, laneVars, budgetVars, settled>>

\* The mark is durable before it is published.
PersistMark ==
    /\ Reading("persist")
    /\ mark' = pub /\ position' = pub
    /\ skips' = {p \in skips : p > pub}
    /\ rpc' = "forget"
    /\ UNCHANGED <<log, boundary, rowVars, laneRow, quarantine, up, cursor, seen,
                   pub, stuck, halted, poolVars, laneVars, budgetVars, settled>>

ForgetPassed ==
    /\ Reading("forget")
    /\ Forget(pub)
    /\ IF RowsToSweep(pub) THEN rpc' = "sweep" ELSE PassEnds
    /\ UNCHANGED <<durableVars, up, cursor, seen, pub, position, sharedVars,
                   poolVars, queues, latest, place, inflight, scanned, rows, blind,
                   skipPromoted, budgetVars, settled>>

RowsAbove(m) == [l \in Lanes |-> IF laneRow[l] > m THEN laneRow[l] ELSE 0]

SweepRows ==
    /\ Reading("sweep")
    /\ laneRow' = RowsAbove(pub)
    /\ rpc' = "prune"
    /\ UNCHANGED <<log, mark, boundary, rowVars, quarantine, up, cursor, seen, pub,
                   position, sharedVars, poolVars, laneVars, budgetVars, settled>>

PrunePassed ==
    /\ Reading("prune")
    /\ PruneRows(pub)
    /\ PassEnds
    /\ UNCHANGED <<durableVars, up, cursor, seen, pub, position, sharedVars,
                   poolVars, queueVars, scanned, begun, blind, skipPromoted,
                   budgetVars, settled>>

\* Reading the log or a write of the mark or of the sweep fails; a failed write
\* may have landed.
DriverError ==
    /\ up /\ StoreFails /\ rpc \in {"poll", "persist", "sweep"}
    /\ mark' \in {mark} \cup (IF rpc = "persist" THEN {pub} ELSE {})
    /\ laneRow' \in {laneRow} \cup (IF rpc = "sweep" THEN {RowsAbove(pub)} ELSE {})
    /\ rpc' = "resubscribe"
    /\ UNCHANGED <<log, boundary, rowVars, quarantine, up, cursor, seen, pub,
                   position, sharedVars, poolVars, laneVars, budgetVars, settled>>

\* supervise runs the driver again, from the persisted mark but with the same
\* dispatcher, unless a quarantine was recorded meanwhile.
Resubscribe ==
    /\ Reading("resubscribe")
    /\ IF quarantine # 0
         THEN /\ halted' = TRUE /\ position' = quarantine /\ rpc' = "stopped"
              /\ UNCHANGED <<cursor, seen, scanned>>
         ELSE /\ SetScanned(mark) /\ cursor' = mark /\ seen' = mark
              /\ rpc' = "promote"
              /\ UNCHANGED <<halted, position>>
    /\ UNCHANGED <<durableVars, up, pub, skips, stuck, poolVars, queueVars,
                   resumeVars, skipPromoted, budgetVars, settled>>

-----------------------------------------------------------------------------
(* A worker.  At(w, pc) holds when it is about to take the step named pc.  *)

At(w, pc) == up /\ wpc[w] = pc
Go(w, pc) == wpc' = [wpc EXCEPT ![w] = pc]
Step(w, pc) == Go(w, pc) /\ UNCHANGED <<ready, wlane, work>>

\* Put the lane down and wait for the next one.
Unhand(w) ==
    /\ Go(w, "idle")
    /\ wlane' = [wlane EXCEPT ![w] = AnyLane]
    /\ work' = [work EXCEPT ![w] = NoWork]

\* Take the next offered lane from the pool.
PopLane(w) ==
    /\ At(w, "idle") /\ ready # <<>>
    /\ wlane' = [wlane EXCEPT ![w] = Head(ready)]
    /\ ready' = Tail(ready)
    /\ Go(w, "popped")
    /\ UNCHANGED <<durableVars, up, readerVars, sharedVars, work, laneVars,
                   budgetVars, settled>>

\* Own the lane, or decline an entry that is not waiting to be claimed.
ClaimLane(w) ==
    /\ At(w, "popped") /\ LockFree
    /\ IF place[wlane[w]] = "Queued"
         THEN Claim(wlane[w]) /\ Step(w, "head")
         ELSE Unhand(w) /\ UNCHANGED <<queueVars, ready>>
    /\ UNCHANGED <<durableVars, up, readerVars, sharedVars, scanned, resumeVars,
                   skipPromoted, budgetVars, settled>>

\* The top of the loop: stop on a quarantine or an empty lane, else take the head.
TakeHead(w) ==
    /\ At(w, "head") /\ LockFree
    /\ LET l == wlane[w] IN
       IF halted \/ queues[l] = <<>>
         THEN Step(w, "release") /\ UNCHANGED queueVars
         ELSE /\ Freeze(l)
              /\ work' = [work EXCEPT ![w] = [position |-> Front(l).hi,
                                              from |-> Front(l).lo]]
              /\ Go(w, "begin") /\ UNCHANGED <<ready, wlane>>
    /\ UNCHANGED <<durableVars, up, readerVars, sharedVars, scanned, resumeVars,
                   skipPromoted, budgetVars, settled>>

\* Seeded defect of Begin: a skip is honoured on a lane that has not failed.
BeginSkippingAny(w) ==
    /\ At(w, "begin")
    /\ LET p == work[w].position
           l == wlane[w] IN
       IF status[p] = "terminal"
         THEN /\ stuck' = [stuck EXCEPT ![l] = 0]
              /\ Step(w, "retire") /\ UNCHANGED rowVars
         ELSE /\ status' = [status EXCEPT ![p] = "running"]
              /\ from' = [from EXCEPT ![p] = IF @ = 0 THEN p ELSE @]
              /\ Step(w, IF p \in skips THEN "skip" ELSE "run")
              /\ UNCHANGED stuck
    /\ UNCHANGED <<log, mark, boundary, laneRow, quarantine, up, readerVars, skips,
                   halted, laneVars, budgetVars, settled>>

\* begin_invocation reserves the position, or reports it already terminal.  A
\* skip is honoured only on a lane that has failed.
Begin(w) ==
    /\ At(w, "begin")
    /\ LET p == work[w].position
           l == wlane[w] IN
       IF status[p] = "terminal"
         THEN /\ stuck' = [stuck EXCEPT ![l] = 0]
              /\ Step(w, "retire") /\ UNCHANGED rowVars
         ELSE /\ status' = [status EXCEPT ![p] = "running"]
              /\ from' = [from EXCEPT ![p] = IF @ = 0 THEN p ELSE @]
              /\ Step(w, IF stuck[l] # 0 /\ p \in skips THEN "skip" ELSE "run")
              /\ UNCHANGED stuck
    /\ UNCHANGED <<log, mark, boundary, laneRow, quarantine, up, readerVars, skips,
                   halted, laneVars, budgetVars, settled>>

\* The statement that makes a row terminal, and the range with it.
MakeTerminal(w) ==
    LET p == work[w].position IN
    /\ status' = [status EXCEPT ![p] = "terminal"]
    /\ from' = [from EXCEPT ![p] = work[w].from]
    /\ settled' = settled \cup Settles(p)

\* Honour an operator skip: durable first, the request forgotten after.
SkipWedged(w) ==
    /\ At(w, "skip")
    /\ MakeTerminal(w)
    /\ skips' = skips \ {work[w].position}
    /\ stuck' = [stuck EXCEPT ![wlane[w]] = 0]
    /\ Step(w, "retire")
    /\ UNCHANGED <<log, mark, boundary, laneRow, quarantine, up, readerVars, halted,
                   laneVars, budgetVars>>

\* The invocation ends, by itself or by a terminal failure, and is recorded.
Finish(w) ==
    /\ At(w, "run") /\ wlane[w] \notin Wedged
    /\ MakeTerminal(w)
    /\ stuck' = [stuck EXCEPT ![wlane[w]] = 0]
    /\ Step(w, IF Verify THEN "verify" ELSE "retire")
    /\ UNCHANGED <<log, mark, boundary, laneRow, quarantine, up, readerVars, skips,
                   halted, laneVars, budgetVars>>

\* Seeded defect of Park: the worker waits the backoff out with the lane in hand.
ParkInHand(w) ==
    /\ LockFree
    /\ stuck' = [stuck EXCEPT ![wlane[w]] = work[w].position]
    /\ Step(w, "begin")
    /\ UNCHANGED <<log, mark, boundary, laneRow, quarantine, up, readerVars, skips,
                   halted, laneVars, budgetVars>>

\* Record the failure against the lane and park it; the worker goes free.
Park(w) ==
    /\ LockFree
    /\ stuck' = [stuck EXCEPT ![wlane[w]] = work[w].position]
    /\ Defer(wlane[w])
    /\ Unhand(w)
    /\ UNCHANGED <<log, mark, boundary, laneRow, quarantine, up, readerVars, skips,
                   halted, ready, scanned, resumeVars, skipPromoted,
                   budgetVars>>

\* The attempt fails, or a write it makes does, with nothing changed.
Fail(w) ==
    /\ \/ At(w, "run") /\ (wlane[w] \in Flaky \/ StoreFails)
       \/ up /\ wpc[w] \in {"begin", "skip"} /\ StoreFails
    /\ Park(w)
    /\ UNCHANGED <<rowVars, settled>>

\* The write that ends the invocation lands but its answer is lost.
LoseAnswer(w) ==
    /\ \/ At(w, "run") /\ wlane[w] \notin Wedged
       \/ At(w, "skip")
    /\ StoreFails
    /\ MakeTerminal(w)
    /\ Park(w)

\* Verify mode replays the invocation just completed; a divergence stops the
\* whole effect, and is recorded unless that write fails.
Replay(w) ==
    /\ At(w, "verify")
    /\ \/ Step(w, "retire") /\ UNCHANGED <<quarantine, halted>>
       \/ /\ halted' = TRUE
          /\ quarantine' \in {work[w].position} \cup
                             (IF StoreFails THEN {quarantine} ELSE {})
          /\ Step(w, "release")
    /\ UNCHANGED <<log, mark, boundary, rowVars, laneRow, up, readerVars, skips,
                   stuck, laneVars, budgetVars, settled>>

\* Retire the position in the lane state; a row may be owed.
Retire(w) ==
    /\ At(w, "retire") /\ LockFree
    /\ Complete(wlane[w], work[w].position)
    /\ Step(w, IF Owed(work[w].position) THEN "row" ELSE "head")
    /\ UNCHANGED <<durableVars, up, readerVars, sharedVars, scanned, resumeVars,
                   budgetVars, settled>>

\* Record how far the lane has got; a write that fails is dropped, landed or not.
RecordLaneRow(w) ==
    /\ At(w, "row")
    /\ LET row == [laneRow EXCEPT ![wlane[w]] = Greater(@, work[w].position)] IN
       \/ laneRow' = row /\ Step(w, "noted")
       \/ StoreFails /\ laneRow' \in {laneRow, row} /\ Step(w, "head")
    /\ UNCHANGED <<log, mark, boundary, rowVars, quarantine, up, readerVars,
                   sharedVars, laneVars, budgetVars, settled>>

\* Only then does the lane state learn of the row.
NoteLaneRow(w) ==
    /\ At(w, "noted") /\ LockFree
    /\ RecordRow(wlane[w], work[w].position)
    /\ Step(w, "head")
    /\ UNCHANGED <<durableVars, up, readerVars, sharedVars, queueVars, scanned,
                   begun, blind, skipPromoted, budgetVars, settled>>

\* Seeded defect of ReleaseLane: work that arrived meanwhile is not offered.
ReleaseLaneSilently(w) ==
    /\ At(w, "release") /\ LockFree
    /\ Release(wlane[w])
    /\ Unhand(w)
    /\ UNCHANGED <<durableVars, up, readerVars, sharedVars, ready, scanned,
                   resumeVars, skipPromoted, budgetVars, settled>>

\* Give the lane back, and offer it again if work arrived meanwhile.
ReleaseLane(w) ==
    /\ At(w, "release") /\ LockFree
    /\ LET l == wlane[w] IN
       /\ Release(l)
       /\ ready' = IF queues[l] # <<>> /\ ~halted THEN Append(ready, l) ELSE ready
    /\ Unhand(w)
    /\ UNCHANGED <<durableVars, up, readerVars, sharedVars, scanned,
                   resumeVars, skipPromoted, budgetVars, settled>>

-----------------------------------------------------------------------------
Reader ==
    \/ \E l \in Lanes : Wake(l)
    \/ Promoted \/ Poll \/ AdmitNext \/ ReadMark \/ PersistMark
    \/ ForgetPassed \/ SweepRows \/ PrunePassed \/ DriverError \/ Resubscribe

Worker(w) ==
    \/ PopLane(w) \/ ClaimLane(w) \/ TakeHead(w) \/ Begin(w) \/ SkipWedged(w)
    \/ Finish(w) \/ Fail(w) \/ LoseAnswer(w) \/ Replay(w) \/ Retire(w)
    \/ RecordLaneRow(w) \/ NoteLaneRow(w) \/ ReleaseLane(w)

Next ==
    \/ AppendEvent \/ Start \/ Crash \/ Rewind \/ RequestSkip \/ SweepInvocation
    \/ Reader
    \/ \E w \in Workers : Worker(w)

Spec == Init /\ [][Next]_vars

-----------------------------------------------------------------------------
(* Fairness: what the threads and the clock owe.                           *)

\* The reader's own steps; waking a lane also needs its deadline to pass.
ReaderStep ==
    \/ Promoted \/ Poll \/ AdmitNext \/ ReadMark \/ PersistMark
    \/ ForgetPassed \/ SweepRows \/ PrunePassed \/ Resubscribe

\* A worker's steps, but for failures a retry may avoid.
WorkerStep(w) ==
    \/ PopLane(w) \/ ClaimLane(w) \/ TakeHead(w) \/ Begin(w) \/ SkipWedged(w)
    \/ wlane[w] \in Wedged /\ Fail(w)
    \/ Replay(w) \/ Retire(w) \/ RecordLaneRow(w) \/ NoteLaneRow(w) \/ ReleaseLane(w)

\* Threads are scheduled and their waits time out.  A parked lane's backoff
\* expires and stays expired, so that some later promote pass finds it.  Attempts
\* on a lane that can succeed do not fail for ever.
FairSpec ==
    /\ Spec
    /\ WF_vars(Start) /\ WF_vars(ReaderStep)
    /\ \A w \in Workers : WF_vars(WorkerStep(w))
    /\ \A l \in Lanes : SF_vars(Wake(l))
    /\ \A l \in Lanes \ Wedged : SF_vars(\E w \in Workers : wlane[w] = l /\ Finish(w))

=============================================================================
