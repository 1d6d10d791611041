------------------------------- MODULE LogView -------------------------------
(***************************************************************************)
(* What a projector promises of the read model that other components read: *)
(* it is what one definition makes of a prefix of the log, every event of  *)
(* the prefix handled once, and the prefix only grows, through batches,    *)
(* rebuilds, crashes and deploys.                                          *)
(*                                                                         *)
(* Two things set it back to nothing.  A deploy of a binary that stores    *)
(* models in another format empties it.  And while a model that takes the  *)
(* place of another is still covered by what the former one left, it reads *)
(* as neither of them; a crash then loses it, until it is built again.     *)
(***************************************************************************)
EXTENDS ReadModels

CONSTANT Formats

VARIABLES
  log,
  view,     \* the model, as it reads once nothing covers it
  state,    \* whether it is whole, covered or lost
  format    \* how it is stored; zero, before it is ever opened

Init ==
  /\ log = <<>>
  /\ view = Blank /\ state = "whole"
  /\ format = 0

Grow(k) ==
  /\ Len(log) < MaxLog
  /\ log' = Append(log, k)
  /\ UNCHANGED <<view, state, format>>

\* The model becomes that of definition d over n events, no fewer than before.
Extended(d, n) ==
  /\ n \in view.upto..Len(log)
  /\ view' = Projected(log, d, n)
  /\ UNCHANGED <<log, format>>

\* The model takes in more of the log.
Advance(d, n) == state = "whole" /\ Extended(d, n) /\ UNCHANGED state

\* A model built from the start takes its place.
Swap(d, n) == Extended(d, n) /\ state' \in {"whole", "covered"}

Uncover ==
  /\ state = "covered"
  /\ state' = "whole"
  /\ UNCHANGED <<log, view, format>>

Lose ==
  /\ state = "covered"
  /\ state' = "lost"
  /\ view' = Blank
  /\ UNCHANGED <<log, format>>

Reformat(f) ==
  /\ f # format
  /\ format' = f
  /\ view' = Blank /\ state' = "whole"
  /\ UNCHANGED log

Next ==
  \/ \E k \in Kinds : Grow(k)
  \/ \E d \in Definitions : \E n \in 0..MaxLog : Advance(d, n) \/ Swap(d, n)
  \/ Uncover \/ Lose
  \/ \E f \in Formats : Reformat(f)

Spec == Init /\ [][Next]_<<log, view, state, format>>

=============================================================================
