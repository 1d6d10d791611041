---------------------------- MODULE DerivedTables ----------------------------
(***************************************************************************)
(* The derived tables: one column per named fold, in one SQLite file with  *)
(* one checkpoint.  A boot compares the program's columns with the file's  *)
(* catalog and marks what has to be folded again; the thread it starts     *)
(* replays the log into those columns, and then follows the log.  A read   *)
(* is served when nothing is being folded.  The process may die between    *)
(* any two transactions and boot with another program.                     *)
(*                                                                         *)
(* One table is modelled, since the checkpoint and the gate are the whole  *)
(* file's.  A cell says how often each record was folded into it; the      *)
(* order is that of the log.  What an arm does is heklang's: a pinned arm  *)
(* reaches the key its event names, creating the row, and a range arm      *)
(* every row there is.  Left out: side tables, indexes, sealed cells and   *)
(* folds that look others up.                                              *)
(***************************************************************************)
EXTENDS Integers, Sequences

CONSTANTS
    Keys,        \* keys of the table
    Columns,     \* column names
    Programs,    \* each a function from some of the columns to folds
    Kinds,       \* kinds of event
    MaxLog,      \* bound: events
    MaxBoots,    \* bound: boots
    MaxReformats \* bound: boots of a build that stores cells in another format

\* A fold: its shape, and which kinds its pinned arms and its range arms answer.
IsFold(f) == f.pinned \subseteq Kinds /\ f.ranged \subseteq Kinds

ASSUME TablesAssumption ==
    /\ \A prog \in Programs : DOMAIN prog \subseteq Columns /\ \A c \in DOMAIN prog : IsFold(prog[c])
    /\ {MaxLog, MaxBoots, MaxReformats} \subseteq Nat

VARIABLES
    log,        \* the events
    \* tables.db: the catalog's folds and how far each is built, the rows, their cells
    \* and the checkpoint.
    catalog, built, rows, cells, checkpoint,
    \* The process: where its thread is, its program, and what FoldShared publishes.
    pc, program, head, behind, fillingTo,
    \* History: whether a deploy changed which events create rows, and the length of the
    \* log when the store was last empty.
    drifted, owed,
    \* What the bounds count.
    boots, reformats

file == <<catalog, built, rows, cells, checkpoint>>
shared == <<program, head, behind, fillingTo>>
history == <<drifted, owed>>
counts == <<boots, reformats>>
vars == <<log, catalog, built, rows, cells, checkpoint, pc, program, head, behind,
          fillingTo, drifted, owed, boots, reformats>>

Positions == 1..MaxLog
Event == [kind : Kinds, key : Keys]
Nothing == [c \in {} |-> 0]
Seed == [k \in Keys |-> [p \in Positions |-> 0]]
Stages == {"down", "open", "reconcile", "backfill", "follow", "publish", "stopped"}

-----------------------------------------------------------------------------
\* heklang's Tables::apply, on a store of rows and cells: pinned arms go first.

Store == [rows : SUBSET Keys, cells : [Columns -> [Keys -> [Positions -> Nat]]]]
Empty == [rows |-> {}, cells |-> [c \in Columns |-> Seed]]

Minters(prog) == UNION {prog[c].pinned : c \in DOMAIN prog}

\* The rows that the records from lo to hi create.
Minted(prog, lo, hi) == {log[p].key : p \in {q \in lo..hi : log[q].kind \in Minters(prog)}}

Reached(prog, c, e, there) ==
    IF c \notin DOMAIN prog THEN {}
    ELSE (IF e.kind \in prog[c].pinned THEN {e.key} ELSE {})
             \cup (IF e.kind \in prog[c].ranged THEN there ELSE {})

\* How often the record at p is folded into the cell of c and k.
Takes(prog, c, k, p, there) == IF k \in Reached(prog, c, log[p], there) THEN 1 ELSE 0

\* The records from lo to hi applied in order to s: each sees the rows there were and
\* those the records up to it create.
Applied(prog, s, lo, hi) ==
    [rows |-> s.rows \cup Minted(prog, lo, hi),
     cells |-> [c \in Columns |-> [k \in Keys |-> [p \in Positions |->
                  IF p \in lo..hi
                  THEN s.cells[c][k][p] + Takes(prog, c, k, p, s.rows \cup Minted(prog, lo, p))
                  ELSE s.cells[c][k][p]]]]]

\* A store that followed the log from its start with the program as it is.
Replayed(prog, hi) == Applied(prog, Empty, 1, hi)

-----------------------------------------------------------------------------
\* FoldStore.

Behind == {c \in DOMAIN catalog : built[c] < checkpoint}

Refills(prog) == {c \in DOMAIN prog : c \notin DOMAIN catalog \/ catalog[c] # prog[c]}

\* A column whose shape moved is dropped and added; one that does something else keeps
\* its values until the backfill resets it.
Reshaped(prog) ==
    {c \in Refills(prog) : c \in DOMAIN catalog /\ catalog[c].shape # prog[c].shape}

Init ==
    /\ log = <<>>
    /\ catalog = Nothing /\ built = Nothing /\ rows = {} /\ checkpoint = 0
    /\ cells = [c \in Columns |-> Seed]
    /\ pc = "down" /\ program = Nothing /\ head = 0 /\ behind = {} /\ fillingTo = 0
    /\ drifted = FALSE /\ owed = 0 /\ boots = 0 /\ reformats = 0

\* Events are appended while the process runs.
AppendEvent(e) ==
    /\ pc \notin {"down", "open", "reconcile"} /\ Len(log) < MaxLog
    /\ log' = Append(log, e)
    /\ UNCHANGED <<file, pc, shared, history, counts>>

Boot(prog) ==
    /\ pc = "down" /\ boots < MaxBoots /\ DOMAIN prog # {}
    /\ pc' = "open" /\ program' = prog /\ boots' = boots + 1
    /\ UNCHANGED <<log, file, head, behind, fillingTo, history, reformats>>

\* FoldStore::open: a store of another format is emptied, catalog and checkpoint too.
OpenStore ==
    /\ pc = "open" /\ pc' = "reconcile"
    /\ UNCHANGED <<log, file, shared, history, counts>>

\* Mutant: the tables are dropped and the catalog is not.
ReformatTables ==
    /\ pc = "open" /\ reformats < MaxReformats
    /\ pc' = "reconcile" /\ reformats' = reformats + 1
    /\ rows' = {} /\ checkpoint' = 0 /\ cells' = [c \in Columns |-> Seed]
    /\ drifted' = FALSE /\ owed' = 0
    /\ UNCHANGED <<log, catalog, built, shared, boots>>

Reformat ==
    /\ pc = "open" /\ reformats < MaxReformats
    /\ pc' = "reconcile" /\ reformats' = reformats + 1
    /\ catalog' = Nothing /\ built' = Nothing /\ rows' = {} /\ checkpoint' = 0
    /\ cells' = [c \in Columns |-> Seed]
    /\ drifted' = FALSE /\ owed' = 0
    /\ UNCHANGED <<log, shared, boots>>

Added(prog) == [c \in DOMAIN prog |->
                   IF c \in Refills(prog) THEN 0 ELSE built[c]]

\* Mutant: what has to be folded is what this boot's comparison found.
PublishedFromChanges(prog) == IF checkpoint = 0 THEN {} ELSE Refills(prog)

\* FoldShared's columns that are not at the checkpoint, off the catalog.
Published(prog) == {c \in DOMAIN prog : Added(prog)[c] < checkpoint}

\* FoldStore::apply, in one transaction, and what start then publishes.
Reconcile ==
    /\ pc = "reconcile" /\ pc' = "backfill"
    /\ catalog' = program /\ built' = Added(program)
    /\ cells' = [c \in Columns |->
                    IF c \in (DOMAIN program \cap DOMAIN catalog) \ Reshaped(program)
                    THEN cells[c] ELSE Seed]
    /\ head' = checkpoint
    /\ behind' = Published(program)
    /\ fillingTo' = IF checkpoint = 0 THEN Len(log) ELSE 0
    /\ drifted' = (drifted \/ (checkpoint > 0 /\ Minters(catalog) # Minters(program)))
    /\ owed' = IF checkpoint = 0 THEN Len(log) ELSE owed
    /\ UNCHANGED <<log, rows, checkpoint, program, counts>>

\* Mutant: the columns that are behind are not reset first.
ReplayedOn(prog, s, hi) == Applied(prog, [s EXCEPT !.rows = {}], 1, hi)

\* What backfill replays: the columns that are behind from their seed and, in memory,
\* those beside them from theirs.  A range arm reaches the rows the replay created.
Refolded(prog, s, hi) == Replayed(prog, hi)

\* backfill, in one transaction: the log up to the checkpoint is replayed, and of the
\* columns only those that are behind are written.
Backfill ==
    /\ pc = "backfill" /\ pc' = "follow"
    /\ LET replay == Refolded(program, [rows |-> rows, cells |-> cells], checkpoint)
       IN  /\ cells' = [c \in Columns |-> IF c \in Behind THEN replay.cells[c] ELSE cells[c]]
           /\ rows' = rows \cup {k \in Keys : \E c \in Behind : replay.cells[c][k] # Seed[k]}
    /\ built' = [c \in DOMAIN built |-> IF c \in Behind THEN checkpoint ELSE built[c]]
    /\ behind' = {}
    /\ UNCHANGED <<log, catalog, checkpoint, program, head, fillingTo, history, counts>>

\* Mutant: nothing moves while no record of the log is one a fold answers.
FollowToMatching(h) ==
    /\ pc = "follow" /\ h \in checkpoint + 1..Len(log)
    /\ \E p \in checkpoint + 1..h : \E c \in DOMAIN program :
           log[p].kind \in program[c].pinned \cup program[c].ranged
    /\ LET s == Applied(program, [rows |-> rows, cells |-> cells], checkpoint + 1, h)
       IN  rows' = s.rows /\ cells' = s.cells
    /\ built' = [c \in DOMAIN built |-> IF built[c] >= checkpoint THEN h ELSE built[c]]
    /\ checkpoint' = h
    /\ pc' = "publish"
    /\ UNCHANGED <<log, catalog, program, head, behind, fillingTo, history, counts>>

\* apply_batch, in one transaction: the records up to h go on what the cells hold, and
\* the checkpoint moves with the columns that were at it.
FollowTo(h) ==
    /\ pc = "follow" /\ h \in checkpoint + 1..Len(log)
    /\ LET s == Applied(program, [rows |-> rows, cells |-> cells], checkpoint + 1, h)
       IN  rows' = s.rows /\ cells' = s.cells
    /\ built' = [c \in DOMAIN built |-> IF built[c] >= checkpoint THEN h ELSE built[c]]
    /\ checkpoint' = h
    /\ pc' = "publish"
    /\ UNCHANGED <<log, catalog, program, head, behind, fillingTo, history, counts>>

\* shared.head, after the commit.
Publish ==
    /\ pc = "publish" /\ pc' = "follow"
    /\ head' = checkpoint
    /\ UNCHANGED <<log, file, program, behind, fillingTo, history, counts>>

\* A pass that fails ends the thread; the reads it made possible go on.
Fail ==
    /\ pc \in {"backfill", "follow"} /\ pc' = "stopped"
    /\ UNCHANGED <<log, file, shared, history, counts>>

Crash ==
    /\ pc # "down" /\ pc' = "down"
    /\ program' = Nothing /\ head' = 0 /\ behind' = {} /\ fillingTo' = 0
    /\ UNCHANGED <<log, file, history, counts>>

\* table_unready: every table is served or none is.
Served == pc \in {"backfill", "follow", "publish", "stopped"} /\ behind = {} /\ head >= fillingTo

Next ==
    \/ \E e \in Event : AppendEvent(e)
    \/ \E prog \in Programs : Boot(prog)
    \/ OpenStore \/ Reformat \/ Reconcile \/ Backfill
    \/ \E h \in Positions : FollowTo(h)
    \/ Publish \/ Fail \/ Crash

Spec == Init /\ [][Next]_vars

\* The boot and the thread go on; nothing makes the process die or a pass fail.
FairSpec ==
    /\ Spec
    /\ WF_vars(OpenStore) /\ WF_vars(Reconcile) /\ WF_vars(Backfill)
    /\ WF_vars(\E h \in Positions : FollowTo(h)) /\ WF_vars(Publish)
=============================================================================
