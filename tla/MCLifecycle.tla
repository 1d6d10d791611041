----------------------------- MODULE MCLifecycle -----------------------------
(***************************************************************************)
(* Small instances of EffectLifecycle: an event is its lane under each of  *)
(* two keys.                                                               *)
(***************************************************************************)
EXTENDS LifecycleSafety, TLC

CONSTANTS Order, Refund, L1, L2

KeyedEvents == [type : Types, lanes : [Keys -> Lanes]]

\* Every Order, and a Refund, which no program of KeyChanges answers.
MixedEvents ==
    {e \in KeyedEvents : e.type = Order \/ \A k \in Keys : e.lanes[k] = L1}

\* Deploys that only move the key of Order, and deploys that add and remove arms.
KeyChanges == {[t \in Types |-> IF t = Order THEN k ELSE NoArm] : k \in Keys}
ArmChanges == [Types -> Keys \cup {NoArm}]
=============================================================================
