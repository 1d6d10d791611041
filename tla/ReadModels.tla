----------------------------- MODULE ReadModels -----------------------------
(***************************************************************************)
(* What a projector's read model holds, and what it should hold.           *)
(*                                                                         *)
(* A row is reduced to the events that made it: a model remembers, for     *)
(* each event of the log, which definitions have handled it.  A skipped    *)
(* event, one handled twice and one handled by a former definition are     *)
(* all different from what `Projected` says.                               *)
(***************************************************************************)
EXTENDS Naturals, Sequences

CONSTANTS
  Definitions,    \* the versions of the projector that are ever deployed
  NoDefinition,   \* what a model that was never built records
  Kinds,          \* the event types of the log
  Selects,        \* the types each definition handles
  MaxLog          \* bound: how many events are ever appended

ASSUME ModelAssumption ==
  /\ NoDefinition \notin Definitions
  /\ Selects \in [Definitions -> SUBSET Kinds]
  /\ MaxLog \in Nat

Positions == 1..MaxLog

\* A read model: the definition it records, the position it stands at, and
\* for each event which definitions have handled it, in that order.
Model == [def : Definitions \cup {NoDefinition},
          upto : 0..MaxLog,
          handled : [Positions -> Seq(Definitions)]]

\* A database just created: its internal tables and no rows.
Blank == [def |-> NoDefinition, upto |-> 0, handled |-> [p \in Positions |-> <<>>]]

\* What definition d makes of the first n events of l.
Rows(l, d, n) ==
  [p \in Positions |-> IF p <= n /\ l[p] \in Selects[d] THEN <<d>> ELSE <<>>]

Projected(l, d, n) == [def |-> d, upto |-> n, handled |-> Rows(l, d, n)]

=============================================================================
