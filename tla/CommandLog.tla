----------------------------- MODULE CommandLog -----------------------------
(***************************************************************************)
(* What a command sees of the event log, what it decides from it and what  *)
(* it appends: the part that a request (dispatch.rs) and an effect's       *)
(* invoke (heklang_host.rs, through the interpreter) have in common.       *)
(*                                                                         *)
(* A command is reduced to a shape.  It folds the events of the slices it  *)
(* reads into a count; below its cap it emits events into one slice, and   *)
(* from the cap on it rejects, finds its input invalid, or does nothing.   *)
(* An empty set of slices is a command without a boundary.                 *)
(***************************************************************************)
EXTENDS Naturals, Sequences, FiniteSets

CONSTANTS
  Requests,   \* the requests clients make
  Calls,      \* the journaled calls of effect invocations
  Invokes,    \* those of them that run a command; the others are http calls
  Slices,     \* what an event type and its filters select
  Tags,       \* hashes of a command's name and a key, or of a call's identity
  NoTag,      \* what an append without a key is guarded against
  Reads,      \* the slices a command folds
  Writes,     \* the slice of the events it emits
  Emits,      \* how many it emits
  Cap,        \* how many events it finds at most and still emits
  Full,       \* what it does otherwise
  Key         \* its idempotency tag

\* What runs a command.
Deciders == Requests \cup Invokes

Refusals == {"reject", "invalid", "nothing"}

ASSUME ShapeAssumption ==
  /\ Reads \in [Deciders -> SUBSET Slices]
  /\ Writes \in [Deciders -> Slices]
  /\ Emits \in [Deciders -> Nat \ {0}]
  /\ Cap \in [Deciders -> Nat]
  /\ Full \in [Deciders -> Refusals]

\* Requests may share a key: the client repeats itself.  A call's key is the
\* hash of its effect, position, call and ordinal, and is nobody else's.
ASSUME KeyAssumption ==
  /\ NoTag \notin Tags
  /\ Invokes \subseteq Calls
  /\ Requests \cap Calls = {}
  /\ Key \in [Requests \cup Calls -> Tags \cup {NoTag}]
  /\ \A c \in Calls : /\ Key[c] # NoTag
                      /\ \A d \in Requests \cup Calls : Key[d] = Key[c] => d = c

\* An event of the log: the slice that selects it, the tag it carries, and
\* the execution that appended it, named by the position its events start at.
Record == [slice : Slices, tag : Tags \cup {NoTag}, batch : Nat \ {0}]

-----------------------------------------------------------------------------

\* The positions past `from` that the command's query selects.
Matching(log, d, from) ==
  {p \in 1..Len(log) : p > from /\ log[p].slice \in Reads[d]}

\* The positions that carry a tag.
Bearing(log, tag) == {p \in 1..Len(log) : log[p].tag = tag}

\* What the command decides, having folded n events.
Decision(d, n) == IF n < Cap[d] THEN "emit" ELSE Full[d]

\* The events of one execution, when they land behind the log.
Batch(log, d, tag) ==
  [k \in 1..Emits[d] |-> [slice |-> Writes[d], tag |-> tag, batch |-> Len(log) + 1]]

\* The two clauses of an append condition: the boundary must not have moved
\* past what was folded, and the tag must not exist anywhere.
Moved(log, d, after) == Matching(log, d, after) # {}
Duplicate(log, tag) == tag # NoTag /\ Bearing(log, tag) # {}

\* Seeded defect of Admissible: the tag is looked for past the folded position
\* only, as the boundary is.
AdmissibleScoped(log, d, tag, after) ==
  ~Moved(log, d, after) /\ \A p \in Bearing(log, tag) : tag = NoTag \/ p <= after

\* The append condition holds.
Admissible(log, d, tag, after) == ~Moved(log, d, after) /\ ~Duplicate(log, tag)

=============================================================================
