---------------------------- MODULE TablesSafety ----------------------------
(***************************************************************************)
(* What the derived tables promise a read.                                 *)
(***************************************************************************)
EXTENDS DerivedTables

\* The file records the columns of one program, none built past the checkpoint, and the
\* process publishes no more than was committed.
TypeOK ==
    /\ log \in Seq(Event)
    /\ catalog \in Programs \cup {Nothing} /\ program \in Programs \cup {Nothing}
    /\ DOMAIN built = DOMAIN catalog /\ \A c \in DOMAIN built : built[c] \in 0..checkpoint
    /\ rows \subseteq Keys /\ cells \in [Columns -> [Keys -> [Positions -> Nat]]]
    /\ checkpoint \in 0..Len(log) /\ head \in 0..checkpoint
    /\ pc \in Stages /\ behind \subseteq DOMAIN program /\ fillingTo \in 0..Len(log)
    /\ drifted \in BOOLEAN /\ owed \in 0..Len(log)

\* A column at the checkpoint holds what a store that followed the log from its start
\* with this fold would: no record is folded twice or left out by a deploy, by a crash
\* between the catalog and the backfill, or by a batch.  What a range arm of it reached
\* is as good as the rows, which remember the folds that created them.
ColumnsTrue ==
    \A c \in DOMAIN catalog :
        built[c] = checkpoint /\ (catalog[c].ranged = {} \/ ~drifted)
            => cells[c] = Replayed(catalog, checkpoint).cells[c]

\* "Its fold does the same thing, so its values still stand" (src/src/fold_store.rs,
\* Verdict::UpToDate), whatever other columns a deploy added or dropped.
ValuesStand ==
    \A c \in DOMAIN catalog :
        built[c] = checkpoint => cells[c] = Replayed(catalog, checkpoint).cells[c]

\* What is served is the program's own columns, every one at the file's checkpoint and
\* at least at the position a read waited for: no seed is served for a value.
ServesTrue ==
    Served =>
        /\ catalog = program /\ head <= checkpoint
        /\ \A c \in DOMAIN catalog : built[c] = checkpoint

\* "A store folded from empty over a populated log [...] answers 503 rebuilding rather
\* than a 404 for a key that exists" (src/ROADMAP.md, phase 43).
ServesWhole == Served => checkpoint >= owed

\* What is appended while the thread runs is served, unless a pass fails or the process
\* dies: filling from empty and folding a deploy's columns come to an end.
CatchesUp ==
    \A n \in Positions :
        Len(log) >= n /\ pc \notin {"down", "stopped"}
            ~> (Served /\ head >= n) \/ pc \in {"down", "stopped"}
=============================================================================
