--------------------------- MODULE EffectLifecycle ---------------------------
(***************************************************************************)
(* One effect across deploys: the program it is deployed with, the lane    *)
(* scheme and the lane rows an earlier program left in hekla.db, the gate  *)
(* that compares them when the effect is spawned, and the graceful stop    *)
(* that drains the lanes workers hold before the last mark is written      *)
(* (src/src/effect.rs: spawn, run_inner, run_lane, shutdown_and_join).     *)
(*                                                                         *)
(* EffectRuntime fixes the program and cuts the reader and the workers     *)
(* finer; here a lane has one position in hand, every arm is a plain `on`, *)
(* and a mark is read, written and swept behind in one step.               *)
(***************************************************************************)
EXTENDS Integers, Sequences, FiniteSets

CONSTANTS
    Types,         \* event types
    Keys,          \* the @keys an arm may declare
    NoArm,         \* stands for the key of a type no arm answers
    Lanes,         \* lane ids: the values of keys
    Events,        \* what may be appended: a type, and the lane under each key
    Programs,      \* what may be deployed: for each type, the key of its arm
    NoScheme,      \* no effect_activation row yet
    PoolSize,      \* [effects] pool_size
    MaxLog,        \* bound: length of the log
    MaxBoots,      \* bound: starts of the process
    MaxRewinds     \* bound: rewinds

ASSUME LifecycleAssumption ==
    /\ NoArm \notin Keys /\ NoScheme \notin Programs
    /\ Events \subseteq [type : Types, lanes : [Keys -> Lanes]]
    /\ Programs \subseteq [Types -> Keys \cup {NoArm}]
    /\ PoolSize \in Nat \ {0}
    /\ MaxLog \in Nat /\ MaxBoots \in Nat /\ MaxRewinds \in Nat

VARIABLES
    \* The store and hekla.db.
    log,           \* the event log
    mark,          \* effect_cursor.watermark
    done,          \* positions with a terminal effect_invocation row
    laneRow,       \* effect_lane.position by lane, or 0
    scheme,        \* effect_activation.lane_scheme
    \* The deployment.
    program,       \* the program on disk
    \* The process.
    phase,         \* "down", "blocked" by the gate, or "up"
    shutdown,      \* EffectShared.shutdown
    cursor,        \* LaneState.scanned: how far the log was admitted
    high,          \* LaneState.high by lane
    inflight,      \* positions admitted and not retired
    place,         \* where each lane is
    work,          \* the position a lane's worker has in hand, or 0
    \* History and budgets.
    ended,         \* positions this process ended
    unrecorded,    \* those whose lane row could not be written
    clean,         \* the last process drained and nothing happened since
    boots, rewinds

store == <<log, mark, done, laneRow, scheme>>
dispatcher == <<cursor, high, inflight, place, work>>
history == <<ended, unrecorded>>
vars == <<store, program, phase, shutdown, dispatcher, history, clean, boots, rewinds>>

Positions == 1..Len(log)
Places == {"none", "offered", "unoffered", "claimed", "run", "ended", "owes", "parked"}
Held == {"claimed", "run", "ended", "owes"}

-----------------------------------------------------------------------------
(* The scheme and the gate.                                                *)

Answers(g, p) == g[log[p].type] # NoArm
LaneUnder(g, p) == log[p].lanes[g[log[p].type]]

\* loader::repartitioned: the types both schemes know whose key moved.
Repartitioned(before, after) ==
    {t \in Types : before[t] # NoArm /\ after[t] # NoArm /\ before[t] # after[t]}

\* effect_lanes_outstanding: the lanes recorded ahead of the mark.
Outstanding == {l \in Lanes : laneRow[l] > mark}

\* INSERT OR IGNORE, then the row read back.
Activation == IF scheme = NoScheme THEN program ELSE scheme

\* Seeded defect: any lane scheme is accepted once the mark has moved at all.
BlockingOnce == Repartitioned(Activation, program) # {} /\ Outstanding # {} /\ mark = 0

Blocking == Repartitioned(Activation, program) # {} /\ Outstanding # {}

-----------------------------------------------------------------------------
(* The dispatcher.                                                         *)

QueuedIn(l) == {p \in inflight : LaneUnder(program, p) = l}
Oldest(S) == CHOOSE p \in S : \A q \in S : p <= q
Greater(a, b) == IF a >= b THEN a ELSE b

\* Seeded defect of LowWater: the cursor is taken for the next position to read.
LowWaterPast == IF inflight = {} THEN cursor + 1 ELSE Oldest(inflight) - 1

LowWater == IF inflight = {} THEN cursor ELSE Oldest(inflight) - 1

Runnable == ~shutdown

Init ==
    /\ log = <<>> /\ mark = 0 /\ done = {} /\ laneRow = [l \in Lanes |-> 0]
    /\ scheme = NoScheme /\ program \in Programs
    /\ phase = "down" /\ shutdown = FALSE
    /\ cursor = 0 /\ high = [l \in Lanes |-> 0] /\ inflight = {}
    /\ place = [l \in Lanes |-> "none"] /\ work = [l \in Lanes |-> 0]
    /\ ended = {} /\ unrecorded = {} /\ clean = FALSE
    /\ boots = 0 /\ rewinds = 0

\* A command of the running process appends, whether or not the effect was blocked.
AppendEvent ==
    /\ phase # "down" /\ Len(log) < MaxLog
    /\ \E e \in Events : log' = Append(log, e)
    /\ UNCHANGED <<mark, done, laneRow, scheme, program, phase, shutdown, dispatcher,
                   history, clean, boots, rewinds>>

Deploy ==
    /\ phase = "down" /\ boots < MaxBoots
    /\ \E g \in Programs \ {program} : program' = g
    /\ UNCHANGED <<store, phase, shutdown, dispatcher, history, clean, boots, rewinds>>

\* spawn: the scheme is recorded whenever it moves, and an effect whose key moved
\* with lanes outstanding is not started.
Boot ==
    /\ phase = "down" /\ boots < MaxBoots
    /\ scheme' = IF Blocking THEN Activation ELSE program
    /\ phase' = IF Blocking THEN "blocked" ELSE "up"
    /\ shutdown' = FALSE
    /\ cursor' = mark /\ high' = laneRow /\ inflight' = {}
    /\ place' = [l \in Lanes |-> "none"] /\ work' = [l \in Lanes |-> 0]
    /\ ended' = {} /\ unrecorded' = {} /\ clean' = FALSE
    /\ boots' = boots + 1
    /\ UNCHANGED <<log, mark, done, laneRow, program, rewinds>>

\* The reader delivers the next position of the log: to its lane, unless that lane is
\* recorded past it, or past it when no arm answers.
Admit ==
    /\ phase = "up" /\ ~shutdown /\ cursor < Len(log)
    /\ LET p == cursor + 1
           l == LaneUnder(program, p)
       IN /\ cursor' = p
          /\ \/ /\ Answers(program, p) /\ high[l] < p
                /\ high' = [high EXCEPT ![l] = p]
                /\ inflight' = inflight \cup {p}
                /\ place' = [place EXCEPT ![l] = IF @ = "none" THEN "offered" ELSE @]
             \/ /\ Answers(program, p) => high[l] >= p
                /\ UNCHANGED <<high, inflight, place>>
    /\ UNCHANGED <<store, program, phase, shutdown, work, history, clean, boots, rewinds>>

WorkerUnchanged == UNCHANGED <<log, mark, scheme, program, phase, shutdown, cursor, high,
                               clean, boots, rewinds>>

\* A worker takes an offered lane from the pool and owns it.
Claim(l) ==
    /\ phase = "up" /\ place[l] = "offered"
    /\ Cardinality({k \in Lanes : place[k] \in Held}) < PoolSize
    /\ place' = [place EXCEPT ![l] = "claimed"]
    /\ WorkerUnchanged /\ UNCHANGED <<done, laneRow, inflight, work, history>>

\* Seeded defect of Released: a lane given back is offered whether or not anyone may
\* still run it.
ReleasedAlways(l) == IF QueuedIn(l) = {} THEN "none" ELSE "offered"

\* Where a lane goes that a worker gives back.
Released(l) ==
    IF QueuedIn(l) = {} THEN "none" ELSE IF Runnable THEN "offered" ELSE "unoffered"

\* The top of run_lane's loop: the head of the lane, or the lane is given back.
TakeHead(l) ==
    /\ phase = "up" /\ place[l] = "claimed"
    /\ \/ /\ Runnable /\ QueuedIn(l) # {}
          /\ work' = [work EXCEPT ![l] = Oldest(QueuedIn(l))]
          /\ place' = [place EXCEPT ![l] = "run"]
       \/ /\ ~Runnable \/ QueuedIn(l) = {}
          /\ place' = [place EXCEPT ![l] = Released(l)]
          /\ UNCHANGED work
    /\ WorkerUnchanged /\ UNCHANGED <<done, laneRow, inflight, history>>

\* The attempt ends the invocation, runs an operator's skip, or finds it terminal.
Ends(l) ==
    /\ phase = "up" /\ place[l] = "run"
    /\ done' = done \cup {work[l]}
    /\ ended' = ended \cup {work[l]}
    /\ place' = [place EXCEPT ![l] = "ended"]
    /\ WorkerUnchanged /\ UNCHANGED <<laneRow, inflight, work, unrecorded>>

\* The attempt fails and the lane waits for its backoff.
Parks(l) ==
    /\ phase = "up" /\ place[l] = "run"
    /\ place' = [place EXCEPT ![l] = "parked"]
    /\ WorkerUnchanged /\ UNCHANGED <<done, laneRow, inflight, work, history>>

\* The reader promotes it when the backoff is over, also while draining.
Wake(l) ==
    /\ phase = "up" /\ place[l] = "parked"
    /\ place' = [place EXCEPT ![l] = "offered"]
    /\ WorkerUnchanged /\ UNCHANGED <<done, laneRow, inflight, work, history>>

\* LaneState::complete: a row is owed when an older position holds the mark.
Retire(l) ==
    /\ phase = "up" /\ place[l] = "ended"
    /\ inflight' = inflight \ {work[l]}
    /\ place' = [place EXCEPT ![l] =
                   IF \E q \in inflight' : q < work[l] THEN "owes" ELSE "claimed"]
    /\ WorkerUnchanged /\ UNCHANGED <<done, laneRow, work, history>>

\* record_lane_row: the row is written, or the failure is logged and dropped.
RecordRow(l) ==
    /\ phase = "up" /\ place[l] = "owes"
    /\ \/ /\ laneRow' = [laneRow EXCEPT ![l] = Greater(@, work[l])]
          /\ UNCHANGED unrecorded
       \/ /\ unrecorded' = unrecorded \cup {work[l]}
          /\ UNCHANGED laneRow
    /\ place' = [place EXCEPT ![l] = "claimed"]
    /\ WorkerUnchanged /\ UNCHANGED <<done, inflight, work, ended>>

\* publish_mark: forward only, then the rows it passed are swept and forgotten.
Publish ==
    /\ mark' = Greater(mark, LowWater)
    /\ laneRow' = [l \in Lanes |-> IF laneRow[l] <= mark' THEN 0 ELSE laneRow[l]]
    /\ high' = [l \in Lanes |-> IF high[l] <= mark' THEN 0 ELSE high[l]]

PublishMark ==
    /\ phase = "up" /\ LowWater > mark
    /\ Publish
    /\ UNCHANGED <<log, done, scheme, program, phase, shutdown, cursor, inflight, place,
                   work, history, clean, boots, rewinds>>

-----------------------------------------------------------------------------
(* The end of a process, and what an operator does between two.            *)

\* EffectRuntime::shutdown_and_join signals the readers first.
Stop ==
    /\ phase = "up" /\ ~shutdown
    /\ shutdown' = TRUE
    /\ UNCHANGED <<store, program, phase, dispatcher, history, clean, boots, rewinds>>

\* The reader has stopped and no worker owns a lane of it.
Drained == shutdown /\ \A l \in Lanes : place[l] \notin Held

\* The reader breaks out of its loop, publishes a last mark, and the pool is joined.
Drain ==
    /\ phase = "up" /\ Drained
    /\ Publish
    /\ phase' = "down" /\ clean' = TRUE
    /\ UNCHANGED <<log, done, scheme, program, shutdown, cursor, inflight, place, work,
                   history, boots, rewinds>>

\* The drain times out, the process dies, or a blocked effect's process ends.
Die ==
    /\ phase # "down"
    /\ phase' = "down" /\ shutdown' = FALSE
    /\ cursor' = 0 /\ high' = [l \in Lanes |-> 0] /\ inflight' = {}
    /\ place' = [l \in Lanes |-> "none"] /\ work' = [l \in Lanes |-> 0]
    /\ ended' = {} /\ unrecorded' = {}
    /\ UNCHANGED <<store, program, clean, boots, rewinds>>

\* OpDb::rewind_effect, while no process runs.
Rewind ==
    /\ phase = "down" /\ boots < MaxBoots /\ rewinds < MaxRewinds
    /\ \E to \in 0..mark :
         /\ mark' = to
         /\ done' = {p \in done : p <= to}
    /\ laneRow' = [l \in Lanes |-> 0]
    /\ clean' = FALSE /\ rewinds' = rewinds + 1
    /\ UNCHANGED <<log, scheme, program, phase, shutdown, dispatcher, history, boots>>

WorkerStep(l) ==
    Claim(l) \/ TakeHead(l) \/ Ends(l) \/ Parks(l) \/ Retire(l) \/ RecordRow(l)

Next ==
    \/ AppendEvent \/ Deploy \/ Boot \/ Admit \/ PublishMark
    \/ Stop \/ Drain \/ Die \/ Rewind
    \/ \E l \in Lanes : WorkerStep(l) \/ Wake(l)

Spec == Init /\ [][Next]_vars

\* Threads are scheduled and an attempt returns: its calls have time limits.  Nothing is
\* assumed of the operator, and the drain's own time limit is not relied on.
FairSpec ==
    /\ Spec
    /\ WF_vars(Drain)
    /\ \A l \in Lanes : WF_vars(WorkerStep(l))

=============================================================================
