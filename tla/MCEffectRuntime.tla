--------------------------- MODULE MCEffectRuntime ---------------------------
(***************************************************************************)
(* Small instances of EffectRuntime: an arm is named by its delivery.      *)
(***************************************************************************)
EXTENDS EffectSafety, TLC

CONSTANTS LaneA, LaneB, W1, W2

Symmetry == Permutations(Workers)

DeliveryByName == [a \in Arms |-> a]

On(l) == [lane |-> l, arm |-> "on"]
Live(l) == [lane |-> l, arm |-> "live"]
Latest(l) == [lane |-> l, arm |-> "latest"]
Other == [lane |-> LaneA, arm |-> NoArm]

\* A lane shared by a plain and a collapsing arm, and a lane beside it.
MixedEvents == {On(LaneA), Latest(LaneA), On(LaneB)}
\* History an on live arm declines, and events the effect does not answer.
LiveEvents == {On(LaneA), Live(LaneA), Live(LaneB), Other}
\* One lane each, all plain.
PlainEvents == {On(LaneA), On(LaneB)}
\* A collapsing lane and a plain one.
TwoLaneEvents == {Latest(LaneA), On(LaneB)}
=============================================================================
