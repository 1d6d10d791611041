--------------------------- MODULE LifecycleSafety ---------------------------
(***************************************************************************)
(* What must be true of an effect from one deploy to the next.             *)
(***************************************************************************)
EXTENDS EffectLifecycle

\* Every variable has its type, and a lane in a worker's hand is within the pool.
TypeOK ==
    /\ log \in Seq(Events)
    /\ mark \in 0..Len(log)
    /\ done \subseteq Positions
    /\ laneRow \in [Lanes -> 0..Len(log)]
    /\ scheme \in Programs \cup {NoScheme}
    /\ program \in Programs
    /\ phase \in {"down", "blocked", "up"}
    /\ shutdown \in BOOLEAN /\ clean \in BOOLEAN
    /\ cursor \in 0..Len(log)
    /\ high \in [Lanes -> 0..Len(log)]
    /\ inflight \subseteq Positions
    /\ place \in [Lanes -> Places]
    /\ work \in [Lanes -> 0..Len(log)]
    /\ ended \subseteq Positions /\ unrecorded \subseteq Positions
    /\ boots \in Nat /\ rewinds \in Nat

\* A resume hides nothing: a position above the mark that the recorded lane of the
\* program in force makes it skip has been run.  The rows are keyed by lane alone, so a
\* row one scheme wrote would silence an event another scheme puts into a lane of the
\* same value (LaneState::resuming, src/src/lanes.rs).
SkipsOnlyWhatIsDone ==
    scheme # NoScheme =>
      \A p \in (mark + 1)..Len(log) :
        Answers(scheme, p) /\ p <= laneRow[LaneUnder(scheme, p)] => p \in done

\* A drained stop forgets nothing: whatever the process ended is at or below the mark or
\* its lane's row, so that the next start does not dispatch it again; an exception is a
\* row that could not be written (run_inner: "a worker that stopped between positions
\* may have retired one since the last pass published").
SkipsAllThatEnded ==
    clean => \A p \in ended :
      p <= mark \/ p <= laneRow[LaneUnder(scheme, p)] \/ p \in unrecorded

\* Where an effect stopped is where it resumes, across key changes, crashes, rewinds and
\* the races of a drain with the workers.
ResumesWhereItStopped == SkipsOnlyWhatIsDone /\ SkipsAllThatEnded

\* A stop ends although lanes hold work nobody will run: no lane goes back and forth
\* between the pool and a worker that may not run it (src/src/effect.rs, runnable).
DrainEnds == shutdown /\ phase = "up" ~> phase = "down"

=============================================================================
