----------------------------- MODULE MCCommands -----------------------------
(***************************************************************************)
(* A small instance of the commands and the effect that share a log.       *)
(*                                                                         *)
(* Two requests repeat one key on a slice with a cap, a third has no key   *)
(* and takes places under the same cap, a fourth has a key and no          *)
(* boundary.  An invocation calls the far side and then runs a command on  *)
(* the capped slice.                                                       *)
(***************************************************************************)
EXTENDS CommandSafety

CONSTANTS First, Again, Rival, Blind, Post, Invoke, Trigger, Seats, Notes,
          K1, K2, T1, T2

Shape(reads, writes, emits, cap, full, key) ==
  [reads |-> reads, writes |-> writes, emits |-> emits, cap |-> cap, full |-> full, key |-> key]

Places(key) == Shape({Seats}, Seats, 1, 2, "reject", key)

Shapes(d) ==
  CASE d = First  -> Places(K1)
    [] d = Again  -> Places(K1)
    [] d = Rival  -> Shape({Seats}, Seats, 1, 2, "invalid", NoTag)
    [] d = Blind  -> Shape({}, Notes, 2, 1, "nothing", K2)
    [] d = Invoke -> Shape({Seats}, Seats, 1, 2, "reject", T2)

MCReads == [d \in Deciders |-> Shapes(d).reads]
MCWrites == [d \in Deciders |-> Shapes(d).writes]
MCEmits == [d \in Deciders |-> Shapes(d).emits]
MCCap == [d \in Deciders |-> Shapes(d).cap]
MCFull == [d \in Deciders |-> Shapes(d).full]
MCKey == [d \in Requests \cup Calls |-> IF d = Post THEN T1 ELSE Shapes(d).key]
MCScript == [i \in Invocations |-> <<Post, Invoke>>]

=============================================================================
