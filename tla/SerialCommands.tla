--------------------------- MODULE SerialCommands ---------------------------
(***************************************************************************)
(* What command dispatch promises of the log, whatever runs concurrently   *)
(* and however often a request or an invocation is repeated: it grows as   *)
(* if each command had read everything its boundary selects, decided and   *)
(* appended in one step, and no key ever appends twice.                    *)
(***************************************************************************)
EXTENDS CommandLog

VARIABLE log

Init == log = <<>>

Commit(d) ==
  /\ Decision(d, Cardinality(Matching(log, d, 0))) = "emit"
  /\ ~Duplicate(log, Key[d])
  /\ log' = log \o Batch(log, d, Key[d])

Next == \E d \in Deciders : Commit(d)

Spec == Init /\ [][Next]_log

=============================================================================
