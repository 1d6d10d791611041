---------------------------- MODULE TablesProofs ----------------------------
(***************************************************************************)
(* A read of the derived tables is served only the program's own columns,  *)
(* all of them at the file's checkpoint, and a column at the checkpoint is *)
(* the fold of the log, for any programs, log and bounds.  The first part  *)
(* says what the process believes of the file; the second what the file    *)
(* holds; the third that a cell is what a replay would make of it.         *)
(***************************************************************************)
EXTENDS TablesSafety, TLAPS

Running == {"backfill", "follow", "publish", "stopped"}

\* The catalog records how far each of its columns is built, never past the checkpoint.
Recorded ==
    /\ checkpoint \in Nat /\ head \in Nat /\ head <= checkpoint
    /\ DOMAIN built = DOMAIN catalog
    /\ \A c \in DOMAIN catalog : built[c] \in Nat /\ built[c] <= checkpoint

\* The process knows what is behind, and follows the log when nothing is.
Informed ==
    /\ pc \notin Running => head = 0
    /\ pc \in Running => catalog = program /\ behind = Behind
    /\ pc \in {"follow", "publish"} => Behind = {}

Inv == Recorded /\ Informed

LEMMA InitInv == Init => Inv
  BY DEF Init, Inv, Recorded, Informed, Running, Nothing

LEMMA OpenKeeps == ASSUME Inv, OpenStore \/ \E prog \in Programs : Boot(prog) PROVE Inv'
  BY DEF Inv, Recorded, Informed, Running, OpenStore, Boot, file, shared, history

LEMMA AppendKeeps == ASSUME Inv, NEW e \in Event, AppendEvent(e) PROVE Inv'
  BY DEF Inv, Recorded, Informed, Running, Behind, AppendEvent, file, shared

LEMMA StopKeeps == ASSUME Inv, Fail \/ Crash PROVE Inv'
  BY DEF Inv, Recorded, Informed, Running, Behind, Fail, Crash, file, shared

LEMMA PublishKeeps == ASSUME Inv, Publish PROVE Inv'
  BY DEF Inv, Recorded, Informed, Running, Behind, Publish, file

LEMMA StutterKeeps == ASSUME Inv, UNCHANGED vars PROVE Inv'
  BY DEF Inv, Recorded, Informed, Running, Behind, vars

\* Emptying a store of another format takes the catalog with it.
LEMMA ReformatKeeps == ASSUME Inv, Reformat PROVE Inv'
  BY DEF Inv, Recorded, Informed, Running, Reformat, Nothing, shared

\* A column is recorded as it was, or anew and built to nothing.
LEMMA ReconcileKeeps == ASSUME Inv, Reconcile PROVE Inv'
<1>1. /\ pc' = "backfill" /\ catalog' = program /\ program' = program
      /\ built' = Added(program) /\ checkpoint' = checkpoint /\ head' = checkpoint
      /\ behind' = Published(program)
  BY DEF Reconcile
<1>2. \A c \in DOMAIN program : Added(program)[c] \in Nat /\ Added(program)[c] <= checkpoint
  BY DEF Inv, Recorded, Added, Refills
<1>3. DOMAIN Added(program) = DOMAIN program
  BY DEF Added
<1>4. Recorded'
  BY <1>1, <1>2, <1>3 DEF Inv, Recorded
<1>5. behind' = Behind'
  BY <1>1 DEF Published, Behind
<1> QED
  BY <1>1, <1>4, <1>5 DEF Inv, Informed, Running

\* The backfill brings what is behind to the checkpoint.
LEMMA BackfillKeeps == ASSUME Inv, Backfill PROVE Inv'
<1>1. /\ pc = "backfill" /\ pc' = "follow" /\ catalog' = catalog /\ program' = program
      /\ built' = [c \in DOMAIN built |-> IF c \in Behind THEN checkpoint ELSE built[c]]
      /\ checkpoint' = checkpoint /\ head' = head /\ behind' = {}
  BY DEF Backfill
<1>2. /\ DOMAIN built' = DOMAIN catalog
      /\ \A c \in DOMAIN catalog : built'[c] = checkpoint
  BY <1>1 DEF Inv, Recorded, Behind
<1>3. Behind' = {}
  BY <1>1, <1>2 DEF Inv, Recorded, Behind
<1>4. Recorded'
  BY <1>1, <1>2 DEF Inv, Recorded
<1> QED
  BY <1>1, <1>3, <1>4 DEF Inv, Informed, Running

\* A batch moves every column, for none is behind when the log is followed.
LEMMA FollowKeeps == ASSUME Inv, NEW h \in Positions, FollowTo(h) PROVE Inv'
<1>1. /\ pc = "follow" /\ pc' = "publish" /\ h \in checkpoint + 1..Len(log)
      /\ catalog' = catalog /\ program' = program
      /\ built' = [c \in DOMAIN built |-> IF built[c] >= checkpoint THEN h ELSE built[c]]
      /\ checkpoint' = h /\ head' = head /\ behind' = behind
  BY DEF FollowTo
<1>2. h \in Nat /\ h > checkpoint
  BY <1>1 DEF Inv, Recorded, Positions
<1>3. \A c \in DOMAIN catalog : built[c] >= checkpoint
  BY <1>1 DEF Inv, Recorded, Informed, Behind
<1>4. /\ DOMAIN built' = DOMAIN catalog
      /\ \A c \in DOMAIN catalog : built'[c] = h
  BY <1>1, <1>3 DEF Inv, Recorded
<1>5. Behind' = {} /\ behind' = {}
  BY <1>1, <1>2, <1>4 DEF Inv, Informed, Running, Behind
<1>6. Recorded'
  BY <1>1, <1>2, <1>4 DEF Inv, Recorded
<1> QED
  BY <1>1, <1>5, <1>6 DEF Inv, Informed, Running

LEMMA NextKeeps == ASSUME Inv, [Next]_vars PROVE Inv'
  BY OpenKeeps, AppendKeeps, StopKeeps, PublishKeeps, StutterKeeps, ReformatKeeps,
     ReconcileKeeps, BackfillKeeps, FollowKeeps DEF Next

LEMMA InvServes == Inv => ServesTrue
  BY DEF Inv, Recorded, Informed, Running, ServesTrue, Served, Behind

\* A read of the derived tables is answered from the program's own columns, every one of
\* them folded up to the checkpoint that the file records, and a read that waited for a
\* position finds the file at it or beyond (table_unready, table_wait).
THEOREM TablesServeTrue == Spec => []ServesTrue
<1>1. Init => Inv
  BY InitInv
<1>2. Inv /\ [Next]_vars => Inv'
  BY NextKeeps
<1>3. Inv => ServesTrue
  BY InvServes
<1> QED
  BY <1>1, <1>2, <1>3, PTL DEF Spec

-----------------------------------------------------------------------------
(* Types.                                                                  *)

\* What is folded lies in the log, and a process that has not compared its columns with
\* the file's has published nothing.
Typed ==
    /\ TypeOK /\ Inv
    /\ Len(log) <= MaxLog
    /\ pc \notin Running => behind = {}

\* The records of the log are events.
LEMMA Records ==
    ASSUME TypeOK
    PROVE  /\ Len(log) \in Nat /\ checkpoint \in Nat /\ checkpoint <= Len(log)
           /\ \A p \in 1..Len(log) : log[p].key \in Keys
<1>1. log \in Seq(Event) /\ checkpoint \in 0..Len(log)
  BY DEF TypeOK
<1>2. Len(log) \in Nat /\ \A p \in 1..Len(log) : log[p] \in Event
  BY <1>1
<1>3. \A e \in Event : e.key \in Keys
  BY DEF Event
<1>4. QED BY <1>1, <1>2, <1>3

\* Folding leaves rows and cells what they are.
LEMMA AppliedType ==
    ASSUME TypeOK, NEW prog, NEW lo \in Nat \ {0}, NEW hi \in Nat, hi <= Len(log),
           NEW r \in SUBSET Keys, NEW x \in [Columns -> [Keys -> [Positions -> Nat]]]
    PROVE  /\ Applied(prog, [rows |-> r, cells |-> x], lo, hi).rows \subseteq Keys
           /\ Applied(prog, [rows |-> r, cells |-> x], lo, hi).cells
                \in [Columns -> [Keys -> [Positions -> Nat]]]
<1> DEFINE s == [rows |-> r, cells |-> x]
<1>1. Minted(prog, lo, hi) \subseteq Keys
  BY Records DEF Minted
<1>2. Applied(prog, s, lo, hi).rows = r \cup Minted(prog, lo, hi)
  BY DEF Applied
<1>3. Applied(prog, s, lo, hi).cells =
        [c \in Columns |-> [k \in Keys |-> [p \in Positions |->
           IF p \in lo..hi
           THEN x[c][k][p] + Takes(prog, c, k, p, r \cup Minted(prog, lo, p))
           ELSE x[c][k][p]]]]
  BY DEF Applied
<1>4. \A c \in Columns, k \in Keys, p \in Positions : x[c][k][p] \in Nat
  OBVIOUS
<1>5. \A c, k, p, there : Takes(prog, c, k, p, there) \in Nat
  BY DEF Takes
<1> DEFINE v(c, k, p) == IF p \in lo..hi
                          THEN x[c][k][p] + Takes(prog, c, k, p, r \cup Minted(prog, lo, p))
                          ELSE x[c][k][p]
<1>6. Applied(prog, s, lo, hi).cells \in [Columns -> [Keys -> [Positions -> Nat]]]
  <2>1. \A c \in Columns, k \in Keys, p \in Positions : v(c, k, p) \in Nat
    BY <1>4, <1>5
  <2>2. Applied(prog, s, lo, hi).cells =
          [c \in Columns |-> [k \in Keys |-> [p \in Positions |-> v(c, k, p)]]]
    BY <1>3
  <2> HIDE DEF v
  <2>3. QED BY <2>1, <2>2
<1>7. QED BY <1>1, <1>2, <1>6

LEMMA ReplayedType ==
    ASSUME TypeOK, NEW prog, NEW n \in Nat, n <= Len(log)
    PROVE  /\ Replayed(prog, n).rows \subseteq Keys
           /\ Replayed(prog, n).cells \in [Columns -> [Keys -> [Positions -> Nat]]]
<1>1. [c \in Columns |-> Seed] \in [Columns -> [Keys -> [Positions -> Nat]]]
  BY DEF Seed
<1> DEFINE x == [c \in Columns |-> Seed]
<1>2. Replayed(prog, n) = Applied(prog, [rows |-> {}, cells |-> x], 1, n)
  BY DEF Replayed, Empty
<1> HIDE DEF x
<1>3. x \in [Columns -> [Keys -> [Positions -> Nat]]] /\ {} \in SUBSET Keys /\ 1 \in Nat \ {0}
  BY <1>1 DEF x
<1>4. QED BY <1>2, <1>3, AppliedType

LEMMA TypedInit == Init => Typed
<1> SUFFICES ASSUME Init PROVE Typed
  OBVIOUS
<1>1. Inv
  BY InitInv
<1>2. Len(log) = 0 /\ log \in Seq(Event) /\ MaxLog \in Nat
  BY TablesAssumption DEF Init
<1>3. cells \in [Columns -> [Keys -> [Positions -> Nat]]]
  BY DEF Init, Seed
<1>4. TypeOK
  <2>1. DOMAIN Nothing = {}
    BY DEF Nothing
  <2>2. catalog \in Programs \cup {Nothing} /\ program \in Programs \cup {Nothing}
    BY DEF Init
  <2>3. /\ DOMAIN built = DOMAIN catalog /\ \A c \in DOMAIN built : built[c] \in 0..checkpoint
        /\ behind \subseteq DOMAIN program
    BY <2>1 DEF Init
  <2>4. /\ checkpoint \in 0..Len(log) /\ head \in 0..checkpoint /\ fillingTo \in 0..Len(log)
        /\ owed \in 0..Len(log)
    BY <1>2 DEF Init
  <2>5. rows \subseteq Keys /\ pc \in Stages /\ drifted \in BOOLEAN
    BY DEF Init, Stages
  <2>6. QED BY <1>2, <1>3, <2>2, <2>3, <2>4, <2>5 DEF TypeOK
<1>5. QED BY <1>1, <1>2, <1>4 DEF Typed, Init

LEMMA TypedAppend == ASSUME Typed, NEW e \in Event, AppendEvent(e) PROVE Typed'
<1>1. Inv'
  BY AppendKeeps DEF Typed
<1>2. /\ log \in Seq(Event) /\ log' = Append(log, e) /\ Len(log) < MaxLog
      /\ UNCHANGED <<file, pc, shared, history>>
  BY DEF AppendEvent, Typed, TypeOK
<1>3. log' \in Seq(Event) /\ Len(log') = Len(log) + 1 /\ Len(log) \in Nat /\ MaxLog \in Nat
  BY <1>2, TablesAssumption
<1>4. TypeOK'
  BY <1>2, <1>3 DEF Typed, TypeOK, file, shared, history
<1>5. QED BY <1>1, <1>2, <1>3, <1>4 DEF Typed, shared

LEMMA TypedStays ==
    ASSUME Typed, OpenStore \/ Publish \/ Fail \/ Crash \/ (\E prog \in Programs : Boot(prog))
                  \/ UNCHANGED vars
    PROVE  Typed'
<1>1. Inv'
  BY OpenKeeps, PublishKeeps, StopKeeps, StutterKeeps DEF Typed
<1>2. UNCHANGED <<log, catalog, built, rows, cells, checkpoint, drifted, owed>>
  BY DEF OpenStore, Publish, Fail, Crash, Boot, vars, file, history
<1>3. /\ program' \in Programs \cup {Nothing} /\ pc' \in Stages
      /\ behind' \subseteq DOMAIN program' /\ fillingTo' \in 0..Len(log)
      /\ pc' \notin Running => behind' = {}
  BY DEF Typed, TypeOK, OpenStore, Publish, Fail, Crash, Boot, vars, file, shared, Stages,
         Running
<1>4. head' \in 0..checkpoint
  BY <1>1, <1>2 DEF Inv, Recorded
<1>5. TypeOK'
  BY <1>2, <1>3, <1>4 DEF Typed, TypeOK
<1>6. QED BY <1>1, <1>2, <1>3, <1>5 DEF Typed

LEMMA TypedReformat == ASSUME Typed, Reformat PROVE Typed'
<1>1. Inv'
  BY ReformatKeeps DEF Typed
<1>2. /\ catalog' = Nothing /\ built' = Nothing /\ rows' = {} /\ checkpoint' = 0
      /\ cells' = [c \in Columns |-> Seed] /\ drifted' = FALSE /\ owed' = 0
      /\ pc = "open" /\ pc' = "reconcile" /\ UNCHANGED <<log, shared>>
  BY DEF Reformat
<1>3. cells' \in [Columns -> [Keys -> [Positions -> Nat]]]
  BY <1>2 DEF Seed
<1>4. head' = 0 /\ Len(log) \in Nat
  BY <1>2 DEF Typed, TypeOK, Inv, Informed, Running, shared
<1>5. TypeOK'
  <2>1. DOMAIN Nothing = {}
    BY DEF Nothing
  <2>2. catalog' \in Programs \cup {Nothing} /\ program' \in Programs \cup {Nothing}
    BY <1>2 DEF Typed, TypeOK, shared
  <2>3. /\ DOMAIN built' = DOMAIN catalog' /\ \A c \in DOMAIN built' : built'[c] \in 0..0
    BY <1>2, <2>1
  <2>4. /\ behind' \subseteq DOMAIN program' /\ fillingTo' \in 0..Len(log)
        /\ owed' \in 0..Len(log) /\ head' \in 0..0
    BY <1>2, <1>4 DEF Typed, TypeOK, shared
  <2>5. rows' \subseteq Keys /\ pc' \in Stages /\ drifted' \in BOOLEAN
    BY <1>2 DEF Stages
  <2>6. QED BY <1>2, <1>3, <1>4, <2>2, <2>3, <2>4, <2>5 DEF Typed, TypeOK
<1>6. QED BY <1>1, <1>2, <1>5 DEF Typed, Running, shared

LEMMA TypedReconcile == ASSUME Typed, Reconcile PROVE Typed'
<1>1. Inv'
  BY ReconcileKeeps DEF Typed
<1>2. /\ pc' = "backfill" /\ catalog' = program /\ built' = Added(program)
      /\ behind' = Published(program) /\ head' = checkpoint
      /\ drifted' \in BOOLEAN
      /\ UNCHANGED <<log, rows, checkpoint, program>>
  BY DEF Reconcile, Typed, TypeOK
<1>3. fillingTo' \in 0..Len(log) /\ owed' \in 0..Len(log)
  BY DEF Reconcile, Typed, TypeOK
<1>4. cells' \in [Columns -> [Keys -> [Positions -> Nat]]]
  BY DEF Reconcile, Typed, TypeOK, Seed
<1>5. DOMAIN built' = DOMAIN catalog' /\ \A c \in DOMAIN built' : built'[c] \in 0..checkpoint
  BY <1>1, <1>2 DEF Inv, Recorded
<1>6. TypeOK'
  BY <1>2, <1>3, <1>4, <1>5 DEF Typed, TypeOK, Published, Stages
<1>7. QED BY <1>1, <1>2, <1>6 DEF Typed, Running

LEMMA TypedBackfill == ASSUME Typed, Backfill PROVE Typed'
<1>1. Inv'
  BY BackfillKeeps DEF Typed
<1> DEFINE replay == Replayed(program, checkpoint)
<1>2. /\ pc' = "follow" /\ behind' = {}
      /\ cells' = [c \in Columns |-> IF c \in Behind THEN replay.cells[c] ELSE cells[c]]
      /\ rows' = rows \cup {k \in Keys : \E c \in Behind : replay.cells[c][k] # Seed[k]}
      /\ UNCHANGED <<log, catalog, checkpoint, program, head, fillingTo, history>>
  BY DEF Backfill, Refolded
<1>3. replay.cells \in [Columns -> [Keys -> [Positions -> Nat]]]
  BY Records, ReplayedType DEF Typed
<1> HIDE DEF replay
<1>4. cells' \in [Columns -> [Keys -> [Positions -> Nat]]] /\ rows' \subseteq Keys
  BY <1>2, <1>3 DEF Typed, TypeOK
<1>5. DOMAIN built' = DOMAIN catalog' /\ \A c \in DOMAIN built' : built'[c] \in 0..checkpoint
  BY <1>1, <1>2 DEF Inv, Recorded
<1>6. TypeOK'
  BY <1>2, <1>4, <1>5 DEF Typed, TypeOK, Stages, history
<1>7. QED BY <1>1, <1>2, <1>6 DEF Typed

LEMMA TypedFollow == ASSUME Typed, NEW h \in Positions, FollowTo(h) PROVE Typed'
<1>1. Inv'
  BY FollowKeeps DEF Typed
<1> DEFINE s == Applied(program, [rows |-> rows, cells |-> cells], checkpoint + 1, h)
<1>2. /\ pc = "follow" /\ pc' = "publish" /\ h \in checkpoint + 1..Len(log) /\ checkpoint' = h
      /\ rows' = s.rows /\ cells' = s.cells
      /\ UNCHANGED <<log, catalog, program, head, behind, fillingTo, history>>
  BY DEF FollowTo
<1>3. checkpoint \in Nat /\ h \in Nat /\ h <= Len(log) /\ checkpoint < h
      /\ checkpoint + 1 \in Nat \ {0} /\ Len(log) \in Nat
  BY <1>2, Records DEF Typed
<1>4. s.rows \subseteq Keys /\ s.cells \in [Columns -> [Keys -> [Positions -> Nat]]]
  BY <1>3, AppliedType DEF Typed, TypeOK
<1> HIDE DEF s
<1>5. DOMAIN built' = DOMAIN catalog' /\ \A c \in DOMAIN built' : built'[c] \in 0..h
  BY <1>1, <1>2 DEF Inv, Recorded
<1>6. head' \in 0..h /\ h \in 0..Len(log)
  BY <1>2, <1>3 DEF Typed, TypeOK
<1>7. TypeOK'
  BY <1>2, <1>4, <1>5, <1>6 DEF Typed, TypeOK, Stages, history
<1>8. QED BY <1>1, <1>2, <1>7 DEF Typed, Running

LEMMA TypedNext == ASSUME Typed, [Next]_vars PROVE Typed'
  BY TypedAppend, TypedStays, TypedReformat, TypedReconcile, TypedBackfill, TypedFollow
     DEF Next

\* Every variable of the derived tables keeps its type, for any programs, columns, keys,
\* kinds of event and bounds; with it no column is built past the checkpoint, nor the
\* checkpoint past the log.
THEOREM TablesTypes == Spec => []TypeOK
<1>1. Typed => TypeOK
  BY DEF Typed
<1>2. QED BY <1>1, TypedInit, TypedNext, PTL DEF Spec

-----------------------------------------------------------------------------
(* Columns.                                                                *)
(*                                                                         *)
(* A column at the checkpoint is the fold of the log.  A pinned arm sees   *)
(* the records alone, so what a batch adds to its column is what a replay  *)
(* would have added.  A range arm also sees the rows, so the invariant     *)
(* follows them: as long as no deploy has changed what creates rows, they  *)
(* are those that the log up to the checkpoint creates.                    *)

\* The column c holds what a replay of the log up to the checkpoint would fold into it.
Folded(c) ==
    \A k \in Keys, p \in Positions :
        cells[c][k][p] =
            IF p \in 1..checkpoint THEN Takes(catalog, c, k, p, Minted(catalog, 1, p)) ELSE 0

\* The inductive invariant behind ColumnsTrue, given Typed.
Columnar ==
    /\ checkpoint = 0 => rows = {} /\ \A c \in Columns : cells[c] = Seed
    /\ ~drifted => rows = Minted(catalog, 1, checkpoint)
    /\ \A c \in DOMAIN catalog :
           built[c] = checkpoint /\ (catalog[c].ranged = {} \/ ~drifted) => Folded(c)

\* What a replay of the log up to n folds into a cell.
LEMMA ReplayedCells ==
    ASSUME NEW prog, NEW n \in Nat, NEW c \in Columns, NEW x,
           \A k \in Keys, p \in Positions :
             x[k][p] = IF p \in 1..n THEN Takes(prog, c, k, p, Minted(prog, 1, p)) ELSE 0,
           x \in [Keys -> [Positions -> Nat]]
    PROVE  x = Replayed(prog, n).cells[c]
<1> DEFINE v(k, p) == IF p \in 1..n THEN 0 + Takes(prog, c, k, p, {} \cup Minted(prog, 1, p)) ELSE 0
<1>1. Replayed(prog, n).cells[c] = [k \in Keys |-> [p \in Positions |-> v(k, p)]]
  <2>1. Empty.rows = {} /\ \A k \in Keys, p \in Positions : Empty.cells[c][k][p] = 0
    BY DEF Empty, Seed
  <2>2. QED BY <2>1 DEF Replayed, Applied
<1>2. \A k \in Keys, p \in Positions : v(k, p) = x[k][p]
  <2> TAKE k \in Keys, p \in Positions
  <2>1. {} \cup Minted(prog, 1, p) = Minted(prog, 1, p)
    OBVIOUS
  <2>2. Takes(prog, c, k, p, Minted(prog, 1, p)) \in Nat
    BY DEF Takes
  <2>3. QED BY <2>1, <2>2
<1> HIDE DEF v
<1>3. [k \in Keys |-> [p \in Positions |-> v(k, p)]] = [k \in Keys |-> [p \in Positions |-> x[k][p]]]
  BY <1>2
<1>4. QED BY <1>1, <1>3

LEMMA CellsReplayed ==
    ASSUME NEW prog, NEW n \in Nat, NEW c \in Columns, NEW k \in Keys, NEW p \in Positions
    PROVE  Replayed(prog, n).cells[c][k][p] =
             IF p \in 1..n THEN Takes(prog, c, k, p, Minted(prog, 1, p)) ELSE 0
<1>1. Empty.rows = {} /\ Empty.cells[c][k][p] = 0
  BY DEF Empty, Seed
<1>2. {} \cup Minted(prog, 1, p) = Minted(prog, 1, p)
  OBVIOUS
<1>3. Takes(prog, c, k, p, Minted(prog, 1, p)) \in Nat
  BY DEF Takes
<1>4. Replayed(prog, n).cells[c][k][p] =
        IF p \in 1..n THEN 0 + Takes(prog, c, k, p, {} \cup Minted(prog, 1, p)) ELSE 0
  BY <1>1 DEF Replayed, Applied
<1>5. QED BY <1>2, <1>3, <1>4

\* What is folded into a pinned column does not turn on the rows.
LEMMA TakesPinned ==
    ASSUME NEW prog, NEW other, NEW c \in DOMAIN prog, c \in DOMAIN other, prog[c] = other[c],
           prog[c].ranged = {}, NEW k, NEW p, NEW x, NEW y
    PROVE  Takes(prog, c, k, p, x) = Takes(other, c, k, p, y)
BY DEF Takes, Reached

LEMMA TakesSame ==
    ASSUME NEW prog, NEW other, NEW c \in DOMAIN prog, c \in DOMAIN other, prog[c] = other[c],
           NEW k, NEW p, NEW x
    PROVE  Takes(prog, c, k, p, x) = Takes(other, c, k, p, x)
BY DEF Takes, Reached

\* The rows of a longer stretch of the log.
LEMMA MintedSplit ==
    ASSUME NEW prog, NEW n \in Nat, NEW m \in Nat, n <= m
    PROVE  /\ Minted(prog, 1, m) = Minted(prog, 1, n) \cup Minted(prog, n + 1, m)
           /\ Minted(prog, 1, n) \subseteq Minted(prog, 1, m)
<1>1. \A q : q \in 1..m <=> q \in 1..n \/ q \in (n + 1)..m
  OBVIOUS
<1>2. QED BY <1>1 DEF Minted

\* What a replay folds lies in rows that the log creates.
LEMMA TakenMinted ==
    ASSUME NEW prog, NEW n \in Nat, NEW c, NEW k, NEW p \in 1..n,
           Takes(prog, c, k, p, Minted(prog, 1, p)) # 0
    PROVE  k \in Minted(prog, 1, n)
<1>1. c \in DOMAIN prog /\ k \in Reached(prog, c, log[p], Minted(prog, 1, p))
  BY DEF Takes, Reached
<1>2. p \in Nat /\ p <= n
  OBVIOUS
<1>3. CASE k \in Minted(prog, 1, p)
  BY <1>2, <1>3, MintedSplit
<1>4. CASE k \notin Minted(prog, 1, p)
  <2>1. log[p].kind \in prog[c].pinned /\ k = log[p].key
    BY <1>1, <1>4 DEF Reached
  <2>2. log[p].kind \in Minters(prog)
    BY <1>1, <2>1 DEF Minters
  <2>3. QED BY <2>1, <2>2 DEF Minted
<1>5. QED BY <1>3, <1>4
\* What a record of the log creates and folds is settled once it is there.
LEMMA TakesStays ==
    ASSUME NEW prog, NEW c, NEW k, NEW p, NEW there, log'[p] = log[p]
    PROVE  Takes(prog, c, k, p, there)' = Takes(prog, c, k, p, there)
BY DEF Takes, Reached

LEMMA MintedStays ==
    ASSUME NEW prog, NEW lo \in Nat, NEW hi \in Nat, \A q \in lo..hi : log'[q] = log[q]
    PROVE  Minted(prog, lo, hi)' = Minted(prog, lo, hi)
BY DEF Minted

LEMMA MintedNone == ASSUME NEW prog PROVE Minted(prog, 1, 0) = {}
<1>1. 1..0 = {}
  OBVIOUS
<1>2. QED BY <1>1 DEF Minted

\* Both at once: what the record at p folds, given the rows it finds.
LEMMA FoldStays ==
    ASSUME NEW prog, NEW c, NEW k, NEW n \in Nat, NEW p \in 1..n,
           \A q \in 1..n : log'[q] = log[q]
    PROVE  Takes(prog, c, k, p, Minted(prog, 1, p))' = Takes(prog, c, k, p, Minted(prog, 1, p))
<1>1. p \in Nat /\ 1 \in Nat /\ log'[p] = log[p] /\ \A q \in 1..p : log'[q] = log[q]
  OBVIOUS
<1>2. Minted(prog, 1, p)' = Minted(prog, 1, p)
  BY <1>1, MintedStays
<1>3. PICK there : there = Minted(prog, 1, p)
  OBVIOUS
<1>4. Takes(prog, c, k, p, there)' = Takes(prog, c, k, p, there)
  BY <1>1, TakesStays
<1>5. QED BY <1>2, <1>3, <1>4

\* The columns of a program are columns.
LEMMA Named == ASSUME TypeOK PROVE DOMAIN catalog \subseteq Columns /\ DOMAIN program \subseteq Columns
<1>1. DOMAIN Nothing = {}
  BY DEF Nothing
<1>2. QED BY <1>1, TablesAssumption DEF TypeOK

LEMMA ColumnsFolded == ASSUME Typed, Columnar PROVE ColumnsTrue
<1> SUFFICES ASSUME NEW c \in DOMAIN catalog, built[c] = checkpoint,
                    catalog[c].ranged = {} \/ ~drifted
             PROVE  cells[c] = Replayed(catalog, checkpoint).cells[c]
  BY DEF ColumnsTrue
<1>1. Folded(c)
  BY DEF Columnar
<1>2. c \in Columns /\ checkpoint \in Nat
  BY Named, Records DEF Typed
<1>3. cells[c] \in [Keys -> [Positions -> Nat]]
  BY <1>2 DEF Typed, TypeOK
<1>4. PICK x : x = cells[c]
  OBVIOUS
<1>5. QED BY <1>1, <1>2, <1>3, <1>4, ReplayedCells DEF Folded

LEMMA ColumnarInit == Init => Columnar
<1> SUFFICES ASSUME Init PROVE Columnar
  OBVIOUS
<1>1. DOMAIN Nothing = {}
  BY DEF Nothing
<1>2. /\ checkpoint = 0 /\ rows = {} /\ catalog = Nothing /\ \A c \in Columns : cells[c] = Seed
  BY DEF Init
<1>3. QED BY <1>1, <1>2, MintedNone DEF Columnar

\* A step that leaves the file alone, and of the log what lies before the checkpoint.
LEMMA ColumnarStays ==
    ASSUME Typed, Columnar, \A q \in 1..checkpoint : log'[q] = log[q],
           UNCHANGED <<catalog, built, rows, cells, checkpoint, drifted>>
    PROVE  Columnar'
<1> SUFFICES ASSUME NEW prog, prog = catalog, NEW n, n = checkpoint
             PROVE  Columnar'
  OBVIOUS
<1>1. n \in Nat /\ 1 \in Nat /\ \A q \in 1..n : log'[q] = log[q]
  BY Records DEF Typed
<1>2. Minted(prog, 1, n)' = Minted(prog, 1, n)
  BY <1>1, MintedStays
<1>3. ASSUME NEW c, Folded(c)
      PROVE  Folded(c)'
  <2> SUFFICES ASSUME NEW k \in Keys, NEW p \in Positions
               PROVE  cells'[c][k][p] =
                        IF p \in 1..n THEN Takes(prog, c, k, p, Minted(prog, 1, p))' ELSE 0
    BY DEF Folded
  <2>1. CASE p \in 1..n
    <3>1. Takes(prog, c, k, p, Minted(prog, 1, p))' = Takes(prog, c, k, p, Minted(prog, 1, p))
      BY <1>1, <2>1, FoldStays
    <3>2. cells[c][k][p] = Takes(prog, c, k, p, Minted(prog, 1, p))
      BY <1>3, <2>1 DEF Folded
    <3>3. QED BY <2>1, <3>1, <3>2
  <2>2. CASE p \notin 1..n
    BY <1>3, <2>2 DEF Folded
  <2>3. QED BY <2>1, <2>2
<1>4. QED BY <1>2, <1>3 DEF Columnar

LEMMA ColumnarAppend == ASSUME Typed, Columnar, NEW e \in Event, AppendEvent(e) PROVE Columnar'
<1>1. /\ log \in Seq(Event) /\ log' = Append(log, e)
      /\ UNCHANGED <<catalog, built, rows, cells, checkpoint, drifted>>
  BY DEF AppendEvent, Typed, TypeOK, file, history
<1>2. \A q \in 1..Len(log) : log'[q] = log[q]
  BY <1>1
<1>3. \A q \in 1..checkpoint : log'[q] = log[q]
  BY <1>2, Records DEF Typed
<1>4. QED BY <1>1, <1>3, ColumnarStays

LEMMA ColumnarStill ==
    ASSUME Typed, Columnar,
           OpenStore \/ Publish \/ Fail \/ Crash \/ (\E prog \in Programs : Boot(prog))
           \/ UNCHANGED vars
    PROVE  Columnar'
<1>1. UNCHANGED <<log, catalog, built, rows, cells, checkpoint, drifted>>
  BY DEF OpenStore, Publish, Fail, Crash, Boot, vars, file, history
<1>2. QED BY <1>1, ColumnarStays

LEMMA ColumnarReformat == ASSUME Typed, Columnar, Reformat PROVE Columnar'
<1>1. /\ catalog' = Nothing /\ rows' = {} /\ checkpoint' = 0
      /\ cells' = [c \in Columns |-> Seed] /\ UNCHANGED log
  BY DEF Reformat
<1>2. DOMAIN Nothing = {}
  BY DEF Nothing
<1>3. Minted(Nothing, 1, 0)' = {}
  <2>1. 1..0 = {}
    OBVIOUS
  <2>2. QED BY <2>1 DEF Minted
<1>4. QED BY <1>1, <1>2, <1>3 DEF Columnar
\* Between deploys that create the same rows, a column that is kept goes on as it was.
LEMMA ColumnarReconcile == ASSUME Typed, Columnar, Reconcile PROVE Columnar'
<1> SUFFICES ASSUME NEW prog, prog = program, NEW old, old = catalog,
                    NEW n, n = checkpoint
             PROVE  Columnar'
  OBVIOUS
<1>1. /\ catalog' = prog /\ built' = Added(prog) /\ UNCHANGED <<log, rows, checkpoint>>
      /\ cells' = [c \in Columns |->
                      IF c \in (DOMAIN prog \cap DOMAIN old) \ Reshaped(prog)
                      THEN cells[c] ELSE Seed]
      /\ drifted' = (drifted \/ (n > 0 /\ Minters(old) # Minters(prog)))
  BY DEF Reconcile
<1>2. n \in Nat /\ 1 \in Nat /\ \A q \in 1..n : log'[q] = log[q]
  BY <1>1, Records DEF Typed
<1>3. n = 0 => rows' = {} /\ \A c \in Columns : cells'[c] = Seed
  BY <1>1 DEF Columnar
<1>4. ASSUME ~drifted'
      PROVE  ~drifted /\ (n = 0 \/ Minters(old) = Minters(prog))
  <2>1. ~drifted /\ ~(n > 0 /\ Minters(old) # Minters(prog))
    BY <1>1, <1>4
  <2>2. n > 0 \/ n = 0
    BY <1>2
  <2>3. QED BY <2>1, <2>2
<1>5. ASSUME ~drifted'
      PROVE  rows' = Minted(prog, 1, n)'
  <2>1. Minted(prog, 1, n)' = Minted(prog, 1, n)
    BY <1>2, MintedStays
  <2>2. rows = Minted(old, 1, n)
    BY <1>4, <1>5 DEF Columnar
  <2>3. Minted(old, 1, n) = Minted(prog, 1, n)
    BY <1>4, <1>5, MintedNone DEF Minted
  <2>4. QED BY <1>1, <2>1, <2>2, <2>3
<1>6. ASSUME NEW c \in DOMAIN prog, built'[c] = n, prog[c].ranged = {} \/ ~drifted'
      PROVE  Folded(c)'
  <2> SUFFICES ASSUME NEW k \in Keys, NEW p \in Positions
               PROVE  cells'[c][k][p] =
                        IF p \in 1..n THEN Takes(prog, c, k, p, Minted(prog, 1, p))' ELSE 0
    BY <1>1 DEF Folded
  <2>1. c \in Columns
    BY Named DEF Typed
  <2>2. CASE c \in Refills(prog)
    <3>1. n = 0
      BY <1>1, <1>6, <2>2 DEF Added
    <3>2. cells'[c] = Seed
      BY <1>3, <2>1, <3>1
    <3>3. p \notin 1..n
      BY <3>1
    <3>4. QED BY <3>2, <3>3 DEF Seed
  <2>3. CASE c \notin Refills(prog)
    <3>1. c \in DOMAIN old /\ old[c] = prog[c] /\ built[c] = n
      BY <1>1, <1>6, <2>3 DEF Refills, Added
    <3>2. cells'[c] = cells[c]
      BY <1>1, <2>1, <2>3, <3>1 DEF Reshaped
    <3>3. Folded(c)
      BY <1>4, <1>6, <3>1 DEF Columnar
    <3>4. CASE p \in 1..n
      <4>1. cells[c][k][p] = Takes(old, c, k, p, Minted(old, 1, p))
        BY <3>3, <3>4 DEF Folded
      <4>2. Takes(old, c, k, p, Minted(old, 1, p)) = Takes(prog, c, k, p, Minted(prog, 1, p))
        <5>1. CASE prog[c].ranged = {}
          BY <3>1, <5>1, TakesPinned
        <5>2. CASE ~drifted'
          <6>1. Minted(old, 1, p) = Minted(prog, 1, p)
            BY <1>2, <1>4, <3>4, <5>2 DEF Minted
          <6>2. QED BY <3>1, <6>1, TakesSame
        <5>3. QED BY <1>6, <5>1, <5>2
      <4>3. Takes(prog, c, k, p, Minted(prog, 1, p))' = Takes(prog, c, k, p, Minted(prog, 1, p))
        BY <1>2, <3>4, FoldStays
      <4>4. QED BY <3>2, <3>4, <4>1, <4>2, <4>3
    <3>5. CASE p \notin 1..n
      BY <3>2, <3>3, <3>5 DEF Folded
    <3>6. QED BY <3>4, <3>5
  <2>4. QED BY <2>2, <2>3
<1>7. QED BY <1>1, <1>3, <1>5, <1>6 DEF Columnar

\* What was behind becomes what the log says; what was not is let be.  The rows the replay
\* fills were there, unless a deploy changed what creates them.
LEMMA ColumnarBackfill == ASSUME Typed, Columnar, Backfill PROVE Columnar'
<1> SUFFICES ASSUME NEW prog, prog = catalog, NEW n, n = checkpoint
             PROVE  Columnar'
  OBVIOUS
<1>1. program = prog
  BY DEF Backfill, Typed, Inv, Informed, Running
<1> DEFINE replay == Replayed(prog, n).cells
<1>2. /\ cells' = [c \in Columns |-> IF c \in Behind THEN replay[c] ELSE cells[c]]
      /\ rows' = rows \cup {k \in Keys : \E c \in Behind : replay[c][k] # Seed[k]}
      /\ built' = [c \in DOMAIN built |-> IF c \in Behind THEN n ELSE built[c]]
      /\ UNCHANGED <<log, catalog, checkpoint, drifted>>
  BY <1>1 DEF Backfill, Refolded, history
<1>3. n \in Nat /\ 1 \in Nat /\ n <= Len(log) /\ \A q \in 1..n : log'[q] = log[q]
  BY <1>2, Records DEF Typed
<1>4. Behind \subseteq Columns /\ \A c \in Behind : c \in DOMAIN prog
  BY Named DEF Typed, Behind
<1>5. \A c \in Columns, k \in Keys, p \in Positions :
        replay[c][k][p] = IF p \in 1..n THEN Takes(prog, c, k, p, Minted(prog, 1, p)) ELSE 0
  BY <1>3, CellsReplayed
<1>6. replay \in [Columns -> [Keys -> [Positions -> Nat]]]
  BY <1>3, ReplayedType DEF Typed
<1> HIDE DEF replay
<1>7. n = 0 => rows' = {} /\ \A c \in Columns : cells'[c] = Seed
  <2>1. n = 0 => Behind = {}
    BY DEF Typed, Inv, Recorded, Behind
  <2>2. QED BY <1>2, <2>1 DEF Columnar
<1>8. ASSUME ~drifted'
      PROVE  rows' = Minted(prog, 1, n)'
  <2>1. Minted(prog, 1, n)' = Minted(prog, 1, n)
    BY <1>3, MintedStays
  <2>2. rows = Minted(prog, 1, n)
    BY <1>2, <1>8 DEF Columnar
  <2>3. ASSUME NEW k \in Keys, NEW c \in Behind, replay[c][k] # Seed[k]
        PROVE  k \in Minted(prog, 1, n)
    <3>1. c \in Columns /\ replay[c][k] \in [Positions -> Nat]
      BY <1>4, <1>6
    <3>2. PICK p \in Positions : replay[c][k][p] # 0
      <4>1. Seed[k] = [p \in Positions |-> 0]
        BY DEF Seed
      <4>2. QED BY <2>3, <3>1, <4>1
    <3>3. p \in 1..n /\ Takes(prog, c, k, p, Minted(prog, 1, p)) # 0
      BY <1>5, <3>1, <3>2
    <3>4. QED BY <1>3, <3>3, TakenMinted
  <2>4. QED BY <1>2, <2>1, <2>2, <2>3
<1>9. ASSUME NEW c \in DOMAIN prog, prog[c].ranged = {} \/ ~drifted'
      PROVE  Folded(c)'
  <2> SUFFICES ASSUME NEW k \in Keys, NEW p \in Positions
               PROVE  cells'[c][k][p] =
                        IF p \in 1..n THEN Takes(prog, c, k, p, Minted(prog, 1, p))' ELSE 0
    BY <1>2 DEF Folded
  <2>1. c \in Columns
    BY Named DEF Typed
  <2>2. cells[c][k][p] = replay[c][k][p] \/ c \in Behind
    <3>1. CASE c \notin Behind
      <4>1. built[c] = n
        BY <3>1 DEF Typed, Inv, Recorded, Behind
      <4>2. Folded(c)
        BY <1>2, <1>9, <4>1 DEF Columnar
      <4>3. QED BY <1>5, <2>1, <4>2 DEF Folded
    <3>2. QED BY <3>1
  <2>3. cells'[c][k][p] = replay[c][k][p]
    BY <1>2, <2>1, <2>2
  <2>4. p \in 1..n =>
          Takes(prog, c, k, p, Minted(prog, 1, p))' = Takes(prog, c, k, p, Minted(prog, 1, p))
    BY <1>3, FoldStays
  <2>5. QED BY <1>5, <2>1, <2>3, <2>4
<1>10. QED BY <1>2, <1>7, <1>8, <1>9 DEF Columnar

\* A batch goes on from what the log up to the checkpoint made of rows and cells.
LEMMA ColumnarFollow == ASSUME Typed, Columnar, NEW h \in Positions, FollowTo(h) PROVE Columnar'
<1> SUFFICES ASSUME NEW prog, prog = catalog, NEW n, n = checkpoint
             PROVE  Columnar'
  OBVIOUS
<1>1. program = prog
  BY DEF FollowTo, Typed, Inv, Informed, Running
<1> DEFINE there(p) == rows \cup Minted(prog, n + 1, p)
           s == Applied(prog, [rows |-> rows, cells |-> cells], n + 1, h)
<1>2. /\ pc = "follow" /\ h \in n + 1..Len(log) /\ rows' = s.rows /\ cells' = s.cells
      /\ checkpoint' = h /\ UNCHANGED <<log, catalog, drifted>>
  BY <1>1 DEF FollowTo, history
<1>3. /\ n \in Nat /\ h \in Nat /\ n < h /\ n <= h /\ 1 \in Nat
      /\ \A q \in 1..h : log'[q] = log[q]
  BY <1>2, Records DEF Typed, Positions
<1>4. rows' = there(h)
  BY <1>2 DEF Applied
<1>5. \A c \in Columns, k \in Keys, p \in Positions :
        cells'[c][k][p] = IF p \in n + 1..h THEN cells[c][k][p] + Takes(prog, c, k, p, there(p))
                          ELSE cells[c][k][p]
  BY <1>2 DEF Applied
<1>6. ~drifted => \A p \in n + 1..h : there(p) = Minted(prog, 1, p)
  <2> SUFFICES ASSUME ~drifted, NEW p \in n + 1..h
               PROVE  there(p) = Minted(prog, 1, p)
    OBVIOUS
  <2>1. p \in Nat /\ n <= p
    BY <1>3
  <2>2. rows = Minted(prog, 1, n)
    BY DEF Columnar
  <2>3. QED BY <1>3, <2>1, <2>2, MintedSplit
<1>7. ASSUME ~drifted'
      PROVE  rows' = Minted(prog, 1, h)'
  <2>1. Minted(prog, 1, h)' = Minted(prog, 1, h)
    BY <1>3, MintedStays
  <2>2. h \in n + 1..h
    BY <1>3
  <2>3. QED BY <1>2, <1>4, <1>6, <1>7, <2>1, <2>2
<1> HIDE DEF there, s
<1>8. ASSUME NEW c \in DOMAIN prog, prog[c].ranged = {} \/ ~drifted'
      PROVE  Folded(c)'
  <2> SUFFICES ASSUME NEW k \in Keys, NEW p \in Positions
               PROVE  cells'[c][k][p] =
                        IF p \in 1..h THEN Takes(prog, c, k, p, Minted(prog, 1, p))' ELSE 0
    BY <1>2 DEF Folded
  <2>1. c \in Columns
    BY Named DEF Typed
  <2>2. built[c] = n
    BY <1>2 DEF Typed, Inv, Recorded, Informed, Behind
  <2>3. Folded(c)
    BY <1>2, <1>8, <2>2 DEF Columnar
  <2>4. p \in 1..h =>
          Takes(prog, c, k, p, Minted(prog, 1, p))' = Takes(prog, c, k, p, Minted(prog, 1, p))
    BY <1>3, FoldStays
  <2>5. CASE p \in n + 1..h
    <3>1. p \notin 1..n /\ p \in 1..h
      BY <1>3, <2>5
    <3>2. cells[c][k][p] = 0
      BY <2>3, <3>1 DEF Folded
    <3>3. Takes(prog, c, k, p, there(p)) = Takes(prog, c, k, p, Minted(prog, 1, p))
      <4>1. CASE prog[c].ranged = {}
        BY <4>1, TakesPinned
      <4>2. CASE ~drifted'
        BY <1>2, <1>6, <2>5, <4>2
      <4>3. QED BY <1>8, <4>1, <4>2
    <3>4. Takes(prog, c, k, p, Minted(prog, 1, p)) \in Nat
      BY DEF Takes
    <3>5. QED BY <1>5, <2>1, <2>4, <2>5, <3>1, <3>2, <3>3, <3>4
  <2>6. CASE p \notin n + 1..h
    <3>1. p \in 1..h <=> p \in 1..n
      BY <1>3, <2>6
    <3>2. cells'[c][k][p] = cells[c][k][p]
      BY <1>5, <2>1, <2>6
    <3>3. QED BY <2>3, <2>4, <3>1, <3>2 DEF Folded
  <2>7. QED BY <2>5, <2>6
<1>9. QED BY <1>2, <1>3, <1>7, <1>8 DEF Columnar

\* A column of the derived tables that is at the checkpoint holds what a store that
\* followed the log from its start with that fold would hold: whatever the deploys, the
\* crashes between the catalog and the backfill and the batches, no record is folded twice
\* or left out (FoldStore::apply, backfill, apply_batch).
THEOREM ColumnsAreTrue == Spec => []ColumnsTrue
<1>1. Init => Typed /\ Columnar
  BY TypedInit, ColumnarInit
<1>2. Typed /\ Columnar /\ [Next]_vars => (Typed /\ Columnar)'
  <2>1. ASSUME Typed, Columnar, [Next]_vars PROVE Columnar'
    BY <2>1, ColumnarAppend, ColumnarStill, ColumnarReformat, ColumnarReconcile,
       ColumnarBackfill, ColumnarFollow DEF Next
  <2>2. QED BY <2>1, TypedNext
<1>3. Typed /\ Columnar => ColumnsTrue
  BY ColumnsFolded
<1>4. QED BY <1>1, <1>2, <1>3, PTL DEF Spec

=============================================================================
