--------------------------- MODULE EffectDelivery ----------------------------
(***************************************************************************)
(* What an effect promises about the log, without threads, lanes, rows or  *)
(* crashes: every event it answers is settled, plain arms in log order     *)
(* within their lane, and the mark passes an unsettled one only if a newer  *)
(* event that will settle it too is still ahead.                           *)
(*                                                                         *)
(* Settling a position of an on latest arm settles the older positions of  *)
(* the same arm and lane with it: that one run has seen every event before *)
(* it (docs, rule 15).                                                     *)
(***************************************************************************)
EXTENDS Integers, Sequences

CONSTANTS Lanes, Arms, Delivery, Unreadable, Events

VARIABLES log,        \* the event log
          boundary,   \* what on live arms decline, -1 before the first start
          settled,    \* answered positions whose work is done
          mark        \* where the effect resumes

vars == <<log, boundary, settled, mark>>

ArmOf(p) == log[p].arm
LaneOf(p) == log[p].lane

Answered(p) ==
    /\ p \in 1..Len(log) /\ ArmOf(p) \in Arms
    /\ Delivery[ArmOf(p)] = "live" => p > boundary

Folds(p) == Delivery[ArmOf(p)] = "latest" /\ LaneOf(p) # Unreadable

\* The older positions a run at p makes redundant.
Folded(p) ==
    {q \in 1..(p - 1) : /\ Answered(q) /\ Folds(q)
                        /\ ArmOf(q) = ArmOf(p) /\ LaneOf(q) = LaneOf(p)}

Init ==
    log = <<>> /\ boundary = -1 /\ settled = {} /\ mark = 0

AppendEvent ==
    /\ \E e \in Events : log' = Append(log, e)
    /\ UNCHANGED <<boundary, settled, mark>>

\* The live boundary is resolved once, at the head of the log.
Activate ==
    /\ boundary = -1 /\ boundary' = Len(log)
    /\ UNCHANGED <<log, settled, mark>>

\* A position is settled once.  A plain one waits for the plain ones before it
\* in its lane.
Settle(p) ==
    /\ boundary # -1 /\ Answered(p) /\ p \notin settled
    /\ ~Folds(p) => \A q \in 1..(p - 1) :
          (Answered(q) /\ ~Folds(q) /\ LaneOf(q) = LaneOf(p)) => q \in settled
    /\ settled' = settled \cup {p} \cup Folded(p)
    /\ UNCHANGED <<log, boundary, mark>>

Advance(m) ==
    /\ m > mark /\ m <= Len(log)
    /\ \A p \in 1..m : Answered(p) =>
         p \in settled \/ \E q \in (m + 1)..Len(log) : p \in Folded(q)
    /\ mark' = m
    /\ UNCHANGED <<log, boundary, settled>>

\* The operator's way back to history.
Rewind(to, live) ==
    /\ to <= mark /\ mark' = to
    /\ settled' = {p \in settled : p <= to}
    /\ boundary' = IF live /\ boundary > to THEN to ELSE boundary
    /\ UNCHANGED log

Next ==
    \/ AppendEvent \/ Activate
    \/ \E p \in 1..Len(log) : Settle(p) \/ Advance(p)
    \/ \E to \in 0..mark, live \in BOOLEAN : Rewind(to, live)

Spec == Init /\ [][Next]_vars
=============================================================================
