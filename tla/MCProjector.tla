----------------------------- MODULE MCProjector -----------------------------
(***************************************************************************)
(* A small instance of a projector: a definition whose handler fails on a  *)
(* kind of event, and the one that corrects it and handles another kind.   *)
(***************************************************************************)
EXTENDS ProjectorSafety, TLC

CONSTANTS Old, New, Plain, Other, Odd

MCSelects == (Old :> {Plain, Odd}) @@ (New :> {Plain, Other})
MCFails == (Old :> {Odd}) @@ (New :> {})

=============================================================================
