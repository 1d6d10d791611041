----------------------------- MODULE EffectSafety ----------------------------
(***************************************************************************)
(* What must be true of EffectRuntime.                                     *)
(***************************************************************************)
EXTENDS EffectRuntime

\* A worker owns the lane it was handed once it has claimed it.
Owns(w) == wpc[w] \notin {"idle", "popped"}

\* It holds the head of that lane from the moment it takes it until it retires it.
Holds(w) == wpc[w] \in {"begin", "skip", "run", "verify", "retire"}

\* A step that reserves p for the first time.
Reserves(p) == status[p] = "none" /\ status'[p] = "running"

SameLane(p, q) == LaneOf(p) = LaneOf(q)

-----------------------------------------------------------------------------
(* The mark.                                                               *)

\* Nothing the effect answers is behind the persisted mark unless it has been run, or
\* made redundant by a newer run, or a newer event that makes it redundant is still to
\* be delivered (publish_mark, LaneState::low_water).
MarkLosesNothing ==
    \A p \in 1..Lesser(mark, Len(log)) : Answered(p) =>
      p \in settled \/ \E q \in (mark + 1)..Len(log) : Subsumes(q, p)

\* No invocation row is left `running` below the mark, where neither the sweep nor a
\* resume would ever reach it again (LaneState::begun).
NoAbandonedRun == \A p \in Positions : status[p] = "running" => p > mark

\* A quarantine holds the mark below the invocation that diverged, although that
\* invocation is already terminal (attempt leaves it in flight on purpose).
QuarantinePins == quarantine # 0 => mark < quarantine

\* What the mark passes is over with: folded positions, begun runs, failed writes and a
\* divergence each hold it in a way of their own, across crashes and re-deliveries.
MarkSound == MarkLosesNothing /\ NoAbandonedRun /\ QuarantinePins

\* Nothing is reserved at or below the mark: its rows may have been swept, so the
\* calls recorded for it would be performed again.
ReservesAboveMark == [][\A p \in Positions : Reserves(p) => p > mark]_vars

-----------------------------------------------------------------------------
(* Lanes and workers.                                                      *)

\* No two workers run the same lane, even if the pool held a stale entry.
OneWorkerPerLane ==
    \A v, w \in Workers : v # w /\ Owns(v) /\ Owns(w) => wlane[v] # wlane[w]

\* The group a worker holds is the head of its lane and stays as it was taken: no
\* position admitted meanwhile joins or replaces it (LaneState::head).
FrozenHead ==
    \A w \in Workers : Holds(w) =>
      LET l == wlane[w] IN
      /\ queues[l] # <<>>
      /\ Front(l).hi = work[w].position /\ Front(l).lo = work[w].from
      /\ latest[l][Front(l).arm] # Front(l).hi

\* A waiting lane is in the pool exactly once, a running one has its worker, and only
\* an empty one has no place.
PlacesTrue ==
    up /\ ~halted =>
      \A l \in Lanes :
        /\ place[l] = "None" => queues[l] = <<>>
        /\ place[l] = "Deferred" => queues[l] # <<>>
        /\ place[l] = "Running" => \E w \in Workers : Owns(w) /\ wlane[w] = l
        /\ place[l] = "Queued" =>
             Cardinality({i \in 1..Len(ready) : ready[i] = l})
               + Cardinality({w \in Workers : wpc[w] = "popped" /\ wlane[w] = l}) = 1

\* Queues ascend, the groups of one arm cover disjoint ranges, the open group is
\* queued, and what holds the mark is exactly what is queued.
GroupsSound ==
    /\ \A l \in Lanes :
         /\ \A i, j \in 1..Len(queues[l]) : i < j =>
              /\ queues[l][i].hi < queues[l][j].hi
              /\ queues[l][i].arm = queues[l][j].arm => queues[l][i].hi < queues[l][j].lo
         /\ \A a \in Arms : latest[l][a] # 0 => OpenAt(l, a) # {}
    /\ inflight = UNION {{g.lo : g \in Groups(l)} : l \in Lanes}

\* No lane with work is forgotten, and no position of it: a lane that holds events has
\* exactly one place from which a worker will take it, the groups of its queue are
\* those the events were folded into, and what holds the mark is exactly what is queued.
NoLaneLost == PlacesTrue /\ GroupsSound

\* Nothing newer in the lane of a plain position p has been begun.
InOrder(p) ==
    ~Collapsible(ArmOf(p), LaneOf(p)) =>
      \A q \in (p + 1)..Len(log) : SameLane(p, q) => status[q] = "none"

\* A position is begun above the mark, where its records are safe from the sweep, and a
\* plain one before anything newer in its lane: a retry after a failure, a lost answer
\* or a crash is of the same position, across folds and re-deliveries.
ReservesSoundly ==
    [][\A p \in Positions : Reserves(p) => p > mark /\ InOrder(p)]_vars

-----------------------------------------------------------------------------
(* Records.                                                                *)

\* A lane row strands nothing: what it makes a resume skip is settled, or a newer
\* event of the same arm and lane beyond the row is still to be delivered.
RowsStrandNothing ==
    \A l \in Lanes : \A p \in 1..Lesser(laneRow[l], Len(log)) :
      (Answered(p) /\ LaneOf(p) = l) =>
        \/ p \in settled
        \/ \E q \in (laneRow[l] + 1)..Len(log) : Subsumes(q, p)

\* The ranges of two terminal invocations of one arm and lane never overlap, so a
\* replay attributes every position once.
CoveredOnce ==
    \A p, q \in Positions :
      (/\ p < q /\ status[p] = "terminal" /\ status[q] = "terminal"
       /\ SameLane(p, q) /\ ArmOf(p) = ArmOf(q)) => p < from[q]

\* What is on record about a lane neither hides an event nor runs one twice: a resume
\* skips only what is settled or will be made redundant, and a replay of the terminal
\* invocations attributes every position once.
RecordsSound == RowsStrandNothing /\ CoveredOnce

\* A run of an on latest arm is never followed by a first run of an older position
\* of that arm and lane, which would leave the outside world with older state.
LatestNeverOlder ==
    [][\A p \in Positions :
         Reserves(p) /\ Collapsible(ArmOf(p), LaneOf(p)) =>
           \A q \in Positions :
             status[q] = "terminal" => q <= Len(log) /\ ~Subsumes(q, p)]_vars

-----------------------------------------------------------------------------
(* The operator.                                                           *)

\* A worker makes p terminal without a run of its arm.
Skips(w, p) ==
    /\ At(w, "skip") /\ p = work[w].position
    /\ status[p] # "terminal" /\ status'[p] = "terminal"

\* A position that ends without a run is one an operator asked for, and the very
\* one its lane last failed on: not the next of a lane whose failure is over, and
\* not one asked for ahead of any failure (attempt, on skip_requested and tried).
SkipsOnlyTheFailing ==
    [][\A w \in Workers : \A p \in Positions :
         Skips(w, p) => p \in skips /\ stuck[wlane[w]] = p]_vars

-----------------------------------------------------------------------------
(* Progress, under FairSpec.                                               *)

\* With no lane wedged for good, the effect catches up with the log and stays
\* there: no lane is left unoffered, and no crash or failure holds the mark.
Drains == <>[](up /\ mark = Len(log))

\* The groups of wedged lanes alone are as many as the reader lets be in flight.
Jammed == Cardinality({p \in inflight : LaneOf(p) \in Wedged}) >= MaxInflight

\* Until its groups jam the reader, a wedged lane costs its own events only: with one
\* worker for all the lanes, every event of another lane is settled (run_lane parks the
\* lane, not the worker), save one the reader has not read while it is jammed.
HealthyLanesFlow ==
    \A p \in Positions :
      (p <= Len(log) /\ Answered(p) /\ LaneOf(p) \notin Wedged)
        ~> (p \in settled \/ (p > cursor /\ Jammed))

\* What ARCHITECTURE.md says of a wedged lane: every event of every other lane is
\* settled.  The reader's pause at MAX_INFLIGHT denies it.
HealthyLanesAlwaysFlow ==
    \A p \in Positions :
      (p <= Len(log) /\ Answered(p) /\ LaneOf(p) \notin Wedged) ~> p \in settled

\* A skip asked for the position a lane is failing on retires it, ahead of or at
\* its next attempt, unless the process dies first and forgets the request.
SkipsRelease ==
    \A p \in Skippable :
      (p \in skips /\ \E l \in Lanes : stuck[l] = p) ~> (p \in settled \/ ~up)

-----------------------------------------------------------------------------
(* The promise the dispatcher implements.                                  *)

Delivered == INSTANCE EffectDelivery
    WITH log <- log, boundary <- boundary, settled <- settled, mark <- mark

\* Every step of the dispatcher, the pool and the operator is a step of
\* EffectDelivery or changes none of what it speaks of.
ImplementsDelivery == Delivered!Spec

\* An operator's rewinds and skips keep that promise, and a skip takes nothing but
\* what was asked for and is failing, which the promise cannot see: it does not
\* tell a skip from a run.
OperatorBound == ImplementsDelivery /\ SkipsOnlyTheFailing

=============================================================================
