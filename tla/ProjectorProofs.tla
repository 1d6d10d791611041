--------------------------- MODULE ProjectorProofs ---------------------------
(***************************************************************************)
(* Proofs about Projector for every set of definitions, kinds of events,   *)
(* formats and readers and every bound: its type invariant, that reads are *)
(* true, that no checkpoint regresses, and that the live model implements  *)
(* LogView.                                                                *)
(*                                                                         *)
(* None of these but the first is inductive.  Inv ties the live model, the *)
(* file being built, the subscription and the published position together, *)
(* place by place of the thread.  What holds of a model that is not whole  *)
(* (Bounds) is kept apart from what holds once it is (Whole): a swap that  *)
(* is left half done keeps the first only, and the next swap or a reformat *)
(* restores the second from it.                                            *)
(***************************************************************************)
EXTENDS ProjectorSafety, TLAPS, SequenceTheorems

\* The tuples of variables are shorthand.
USE DEF files, disk, shared, reads, bounds

-----------------------------------------------------------------------------
(* Models.                                                                 *)

LEMMA BlankType == Blank \in Model
<1>1. <<>> \in Seq(Definitions)
  BY EmptySeq
<1>2. 0 \in 0..MaxLog
  BY ModelAssumption
<1>3. QED BY <1>1, <1>2 DEF Blank, Model

\* The live model is put together from two models, page by page.
LEMMA LiveType ==
    ASSUME main \in Model, wal \in Model
    PROVE  Live \in Model
BY DEF Live, Model

\* What a batch makes of a model is a model.
LEMMA AppliedType ==
    ASSUME NEW m \in Model, def \in Definitions, NEW from, NEW to \in 0..MaxLog
    PROVE  Applied(m, from, to) \in Model
<1> DEFINE rows == [p \in Positions |-> IF p \in Selected(from, to)
                                        THEN Append(m.handled[p], def)
                                        ELSE m.handled[p]]
<1>1. \A p \in Positions : m.handled[p] \in Seq(Definitions)
  BY DEF Model
<1>2. \A p \in Positions : Append(m.handled[p], def) \in Seq(Definitions)
  BY <1>1, AppendProperties
<1>3. rows \in [Positions -> Seq(Definitions)]
  BY <1>1, <1>2
<1>4. QED
  BY <1>3 DEF Applied, Model

\* Closing the live model leaves models in its files.
LEMMA CloseType ==
    ASSUME TypeOK, CloseLive
    PROVE  main' \in Model /\ wal' \in Model /\ frames' \subseteq Pages
BY LiveType, BlankType DEF CloseLive, TypeOK

\* So does a commit.
LEMMA CommitType ==
    ASSUME TypeOK, NEW m \in Model, NEW pages \in SUBSET Pages, Commit(m, pages)
    PROVE  main' \in Model /\ wal' \in Model /\ frames' \subseteq Pages
BY DEF Commit, TypeOK

LEMMA LogLength == TypeOK => Len(log) \in 0..MaxLog /\ MaxLog \in Nat
BY ModelAssumption, LenProperties DEF TypeOK

-----------------------------------------------------------------------------
(* Types, one action at a time.                                            *)

LEMMA TypeInit == Init => TypeOK
<1> SUFFICES ASSUME Init PROVE TypeOK
  OBVIOUS
<1>1. 0 \in 0..MaxLog
  BY ModelAssumption
<1>2. log \in Seq(Kinds) /\ Len(log) <= MaxLog
  BY EmptySeq, ModelAssumption DEF Init
<1>3. /\ reader \in [Readers -> {"idle", "waiting", "reached", "reading"}]
      /\ after \in [Readers -> 0..MaxLog]
  BY <1>1 DEF Init
<1>4. boots \in Nat /\ replays \in Nat /\ faults \in Nat
  BY ProjectorAssumption DEF Init
<1>5. QED
  BY <1>1, <1>2, <1>3, <1>4, BlankType DEF Init, TypeOK, Pages, Places

LEMMA TypeThread ==
    ASSUME TypeOK, Thread
    PROVE  TypeOK'
<1> USE LogLength
<1>0. Live \in Model /\ Live.upto \in 0..MaxLog /\ fresh.upto \in 0..MaxLog
  BY LiveType DEF TypeOK, Model
<1>1. CASE Start
  <2>1. CASE readiness = "ready" /\ Live.def = NoDefinition
    <3>1. [Live EXCEPT !.def = def] \in Model
      BY <1>0 DEF TypeOK, Model
    <3>2. QED BY <1>0, <1>1, <2>1, <3>1, CommitType DEF Start, TypeOK, Places, Pages
  <2>2. CASE ~(readiness = "ready" /\ Live.def = NoDefinition)
    BY <1>0, <1>1, <2>2 DEF Start, TypeOK, Places
  <2>3. QED BY <2>1, <2>2
<1>2. CASE AdvanceCheckpoint
  <2>1. [Live EXCEPT !.upto = Len(log)] \in Model
    BY <1>0 DEF TypeOK, Model
  <2>2. QED BY <1>2, <2>1, CommitType DEF AdvanceCheckpoint, TypeOK, Places, Pages
<1>3. CASE AdvancePosition
  BY <1>3 DEF AdvancePosition, TypeOK, Places
<1>4. CASE Leave
  BY <1>4, CloseType DEF Leave, TypeOK, Places
<1>5. CASE ClearRunning
  BY <1>5 DEF ClearRunning, TypeOK, Places
<1>6. ASSUME NEW to \in Positions, ApplyBatch(to)
      PROVE  TypeOK'
  <2>1. to \in 0..MaxLog
    BY DEF Positions
  <2>2. Applied(Live, sub, to) \in Model
    BY <1>0, <2>1, AppliedType DEF TypeOK
  <2>3. QED BY <1>6, <2>1, <2>2, CommitType DEF ApplyBatch, TypeOK, Places, Pages
<1>7. ASSUME NEW to \in Positions, BatchFails(to)
      PROVE  TypeOK'
  BY <1>7, CloseType DEF BatchFails, TypeOK, Places
<1>8. ASSUME NEW to \in Positions, BuildBatch(to)
      PROVE  TypeOK'
  <2>1. to \in 0..MaxLog
    BY DEF Positions
  <2>2. Applied(fresh, fresh.upto, to) \in Model
    BY <2>1, AppliedType DEF TypeOK
  <2>3. QED BY <1>8, <2>2 DEF BuildBatch, TypeOK, Places
<1>9. CASE BeginRebuild
  BY <1>9, BlankType DEF BeginRebuild, TypeOK, Places
<1>10. CASE Seal
  <2>1. [fresh EXCEPT !.upto = Len(log), !.def = def] \in Model
    BY DEF TypeOK, Model
  <2>2. QED BY <1>10, <2>1, CloseType DEF Seal, TypeOK, Places
<1>11. CASE Rename
  BY <1>11, BlankType DEF Rename, TypeOK, Places
<1>12. CASE RemoveSidecars
  BY <1>12, BlankType DEF RemoveSidecars, TypeOK, Places
<1>13. CASE Reopen
  BY <1>0, <1>13 DEF Reopen, TypeOK, Places
<1>14. CASE RebuildDone
  BY <1>0, <1>14 DEF RebuildDone, TypeOK, Places
<1>15. CASE RebuildFails
  <2>1. main' \in Model /\ wal' \in Model /\ frames' \subseteq Pages
    BY <1>15, CloseType DEF RebuildFails, TypeOK
  <2>2. faults' \in Nat
    BY <1>15 DEF RebuildFails, TypeOK
  <2>3. QED BY <1>15, <2>1, <2>2 DEF RebuildFails, TypeOK, Places, Mixed, Unswept, At
<1>16. CASE Degrade
  BY <1>16 DEF Degrade, TypeOK, Places
<1>17. CASE Restore
  BY <1>0, <1>17 DEF Restore, TypeOK, Places
<1>18. CASE DegradeFails
  BY <1>18 DEF DegradeFails, TypeOK, Places
<1>19. QED
  BY <1>1, <1>2, <1>3, <1>4, <1>5, <1>6, <1>7, <1>8, <1>9, <1>10, <1>11, <1>12, <1>13,
     <1>14, <1>15, <1>16, <1>17, <1>18 DEF Thread

LEMMA TypeEnvironment ==
    ASSUME TypeOK, Environment
    PROVE  TypeOK'
<1>1. ASSUME NEW k \in Kinds, AppendEvent(k)
      PROVE  TypeOK'
  <2>1. log' \in Seq(Kinds) /\ Len(log') = Len(log) + 1
    BY <1>1, AppendProperties DEF AppendEvent, TypeOK
  <2>2. QED BY <1>1, <2>1, LogLength DEF AppendEvent, TypeOK
<1>2. ASSUME NEW d \in Definitions, NEW auto \in BOOLEAN, NEW f \in Formats, Spawn(d, auto, f)
      PROVE  TypeOK'
  <2>1. Reformatted(f) \in Model
    BY LiveType, BlankType DEF Reformatted, TypeOK
  <2>2. Reformatted(f).upto \in 0..MaxLog
    BY <2>1 DEF Model
  <2>3. ReadinessOf(Reconcile(Reformatted(f), d, auto)) \in {"ready", "rebuilding", "stale"}
    BY DEF ReadinessOf, Reconcile
  <2>4. /\ main' \in Model /\ wal' \in Model /\ frames' \subseteq Pages
        /\ format' \in Formats \cup {0} /\ stranded' \in BOOLEAN
    BY <1>2, BlankType, CommitType DEF Spawn, Reformat, TypeOK
  <2>5. QED BY <1>2, <2>2, <2>3, <2>4 DEF Spawn, TypeOK, Places
<1>3. CASE Crash
  <2>1. 0 \in 0..MaxLog
    BY LogLength
  <2>2. /\ reader' \in [Readers -> {"idle", "waiting", "reached", "reading"}]
        /\ after' \in [Readers -> 0..MaxLog]
    BY <1>3, <2>1 DEF Crash
  <2>3. QED BY <1>3, <2>1, <2>2 DEF Crash, TypeOK, Places, Mixed, Unswept, At
<1>4. CASE RequestReplay
  BY <1>4 DEF RequestReplay, TypeOK
<1>5. CASE Stop
  BY <1>5 DEF Stop, TypeOK
<1>6. QED BY <1>1, <1>2, <1>3, <1>4, <1>5 DEF Environment

LEMMA TypeRead ==
    ASSUME TypeOK, Read
    PROVE  TypeOK'
<1>1. PICK r \in Readers :
        \/ \E a \in 0..MaxLog : ResolveEntity(r, a)
        \/ HonorWait(r) \/ NotCaughtUp(r) \/ Snapshot(r) \/ Respond(r)
  BY DEF Read
<1>2. ASSUME NEW a \in 0..MaxLog, ResolveEntity(r, a)
      PROVE  TypeOK'
  BY <1>2 DEF ResolveEntity, ReadIs, TypeOK
<1>3. CASE HonorWait(r)
  BY <1>3 DEF HonorWait, ReadIs, TypeOK
<1>4. CASE NotCaughtUp(r)
  BY <1>4 DEF NotCaughtUp, ReadIs, TypeOK
<1>5. CASE Snapshot(r)
  BY <1>5, LiveType DEF Snapshot, ReadIs, TypeOK
<1>6. CASE Respond(r)
  BY <1>6, BlankType, LogLength DEF Respond, ReadIs, TypeOK
<1>7. QED BY <1>1, <1>2, <1>3, <1>4, <1>5, <1>6

\* Every variable keeps its type through every step of the projector.
THEOREM ProjectorTypes == Spec => []TypeOK
<1>1. ASSUME TypeOK, Next PROVE TypeOK'
  BY <1>1, TypeThread, TypeEnvironment, TypeRead DEF Next
<1>2. ASSUME TypeOK, UNCHANGED vars PROVE TypeOK'
  BY <1>2 DEF vars, TypeOK
<1>3. QED BY <1>1, <1>2, TypeInit, PTL DEF Spec

-----------------------------------------------------------------------------
(* The inductive invariant.                                                *)

\* A model is what one definition makes of a prefix of the log.
Sound(m) ==
  /\ m.upto <= Len(log)
  /\ m.def = NoDefinition => m = Blank
  /\ m.def # NoDefinition => m.handled = Rows(log, m.def, m.upto)

\* The model is of the running definition, or is to take it.
Current == Seen.def = def \/ (At("start") /\ Seen = Blank)

\* No position lies past the log.
Behind ==
  /\ Live.upto <= Len(log)
  /\ Up => position <= Len(log)
  /\ \A r \in Readers : after[r] <= Len(log)

\* What the handle and the subscription say of a database, whole or not.
TailTrue ==
  /\ At("start") \/ At("rebuilt") => position = Live.upto
  /\ pc \in {"loop", "publish"} => sub = Live.upto /\ position <= sub
  /\ pc \in {"loop", "publish", "degrade", "restore"} => readiness # "rebuilding"
  /\ At("publish") => readiness = "ready"
  /\ readiness # "quarantined"

\* What the sibling file holds until it is the live model.
FreshTrue ==
  /\ At("build") => fresh.def = NoDefinition
  /\ At("swap") =>
       /\ fresh.def = def
       /\ position <= fresh.upto
       /\ \A r \in Readers : reader[r] = "reached" => after[r] <= fresh.upto
  /\ pc \in {"build", "swap"} => /\ fresh.upto <= Len(log)
                                /\ fresh.handled = Rows(log, def, fresh.upto)
  /\ pc \in {"sweep", "reopen", "rebuilt"} => ~stranded

\* The reads of a process go with it.
Idle == ~Up => \A r \in Readers : reader[r] = "idle"

Bounds == Behind /\ TailTrue /\ FreshTrue /\ Idle

\* What the handle says of the model, and where a swap leaves it.
HandleTrue ==
  /\ Up => position <= Seen.upto
  /\ Up /\ readiness = "ready" => Current
  /\ Up /\ (~At("start") \/ readiness # "ready") => Seen.def \in Definitions
  /\ At("publish") => Seen.def = def
  /\ At("swap") => Seen.upto <= fresh.upto
  /\ pc \in {"sweep", "reopen", "rebuilt"} => Seen.def = def

ReaderTrue(r) ==
  /\ reader[r] # "idle" => Up /\ Current
  /\ reader[r] = "reached" => after[r] <= Seen.upto

Whole == Sound(Seen) /\ HandleTrue /\ \A r \in Readers : ReaderTrue(r)

Inv == Bounds /\ (~stranded => Whole)

-----------------------------------------------------------------------------
(* What the actions do to the live model.                                  *)

LEMMA LiveKept == UNCHANGED files => Live' = Live
BY DEF Live

\* A commit of all pages that differ leaves the model committed.
LEMMA CommitLive ==
    ASSUME TypeOK, NEW m \in Model, NEW pages, Commit(m, pages),
           \/ pages = {"def"} /\ m.upto = Live.upto /\ m.handled = Live.handled
           \/ pages = {"upto"} /\ m.def = Live.def /\ m.handled = Live.handled
           \/ pages = {"upto", "handled"} /\ m.def = Live.def
           \/ pages = Pages
    PROVE  Live'.def = m.def /\ Live'.upto = m.upto /\ Live'.handled = m.handled
BY DEF Commit, Live, TypeOK, Model, Pages

\* Closing folds the WAL or leaves it: what is seen is the same.
LEMMA CloseKeeps ==
    ASSUME CloseLive
    PROVE  Live' = Live
<1>1. CASE \E r \in Readers : Open(r)
  BY <1>1, LiveKept DEF CloseLive
<1>2. CASE ~\E r \in Readers : Open(r)
  <2>1. main' = Live /\ frames' = {}
    BY <1>2 DEF CloseLive
  <2>2. Live' = [def |-> main'.def, upto |-> main'.upto, handled |-> main'.handled]
    BY <2>1 DEF Live
  <2>3. QED BY <2>1, <2>2 DEF Live
<1>3. QED BY <1>1, <1>2

-----------------------------------------------------------------------------
(* Rows.                                                                   *)

LEMMA RowsOfNothing == \A l, d : Rows(l, d, 0) = Blank.handled
BY ModelAssumption DEF Rows, Blank, Positions

\* An append does not change what was made of the log before.
LEMMA RowsGrow ==
    ASSUME TypeOK, NEW k \in Kinds, log' = Append(log, k), NEW d, NEW n \in 0..MaxLog, n <= Len(log)
    PROVE  Rows(log', d, n) = Rows(log, d, n)
<1>1. \A p \in 1..Len(log) : log'[p] = log[p]
  BY AppendProperties DEF TypeOK
<1>2. \A p \in Positions : p <= n => p \in 1..Len(log)
  BY LogLength DEF Positions
<1>3. QED BY <1>1, <1>2 DEF Rows

\* A batch takes a model of the prefix to a model of the longer prefix.
LEMMA AppliedRows ==
    ASSUME TypeOK, NEW m \in Model, m.handled = Rows(log, def, m.upto), NEW to \in BatchEnds(m.upto)
    PROVE  /\ Applied(m, m.upto, to).handled = Rows(log, def, to)
           /\ Applied(m, m.upto, to).upto = to
           /\ Applied(m, m.upto, to).def = m.def
<1>1. to \in (m.upto + 1)..Len(log) /\ m.upto \in Nat /\ Len(log) \in Nat
  BY LogLength DEF BatchEnds, Model
<1>2. ASSUME NEW p \in Positions
      PROVE  (IF p \in Selected(m.upto, to) THEN Append(m.handled[p], def) ELSE m.handled[p])
               = Rows(log, def, to)[p]
  <2>0. p \in Nat \ {0}
    BY DEF Positions
  <2>1. m.handled[p] = (IF p <= m.upto /\ log[p] \in Selects[def] THEN <<def>> ELSE <<>>)
    BY DEF Rows
  <2>2. Rows(log, def, to)[p] = (IF p <= to /\ log[p] \in Selects[def] THEN <<def>> ELSE <<>>)
    BY DEF Rows
  <2>3. CASE p \in Selected(m.upto, to)
    <3>1. p > m.upto /\ p <= to /\ log[p] \in Selects[def]
      BY <1>1, <2>3 DEF Selected
    <3>2. Append(<<>>, def) = <<def>>
      OBVIOUS
    <3>3. m.handled[p] = <<>> /\ Rows(log, def, to)[p] = <<def>>
      BY <1>1, <2>0, <2>1, <2>2, <3>1
    <3>4. QED BY <2>3, <3>2, <3>3
  <2>4. CASE p \notin Selected(m.upto, to)
    <3>1. ~(p > m.upto /\ p <= to /\ log[p] \in Selects[def])
      BY <1>1, <2>0, <2>4 DEF Selected
    <3>2. QED BY <1>1, <2>0, <2>1, <2>2, <2>4, <3>1
  <2>5. QED BY <2>3, <2>4
<1>3. Rows(log, def, to) = [p \in Positions |-> Rows(log, def, to)[p]]
  BY DEF Rows
<1>4. QED BY <1>2, <1>3 DEF Applied, Model

\* Events nobody handles leave no rows.
LEMMA CaughtUpRows ==
    ASSUME TypeOK, NEW n \in 0..MaxLog, n <= Len(log), CaughtUp(n)
    PROVE  Rows(log, def, Len(log)) = Rows(log, def, n)
<1>1. \A p \in (n + 1)..Len(log) : log[p] \notin Selects[def]
  BY DEF CaughtUp, Selected
<1>2. \A p \in Positions : p <= Len(log) => p <= n \/ p \in (n + 1)..Len(log)
  BY LogLength DEF Positions
<1>3. \A p \in Positions : p <= n => p <= Len(log)
  BY LogLength DEF Positions
<1>4. QED BY <1>1, <1>2, <1>3 DEF Rows

-----------------------------------------------------------------------------
(* The invariant, one action at a time.                                    *)

LEMMA InvInit == Init => Inv
<1> SUFFICES ASSUME Init PROVE Inv
  OBVIOUS
<1>1. Live = Blank /\ Seen = Blank /\ Blank.upto = 0 /\ Len(log) = 0
  BY EmptySeq DEF Init, Live, Blank, Seen, At
<1>2. Bounds
  BY <1>1 DEF Init, Bounds, Idle, Behind, TailTrue, FreshTrue, Up, At
<1>3. Whole
  BY <1>1 DEF Init, Whole, Sound, HandleTrue, ReaderTrue, Up, At, Blank
<1>4. QED BY <1>2, <1>3 DEF Inv

\* The facts every step starts from.
LEMMA Facts ==
    ASSUME TypeOK, Inv
    PROVE  /\ Live \in Model /\ Live.upto \in 0..MaxLog /\ Live.upto <= Len(log)
           /\ fresh \in Model /\ fresh.upto \in 0..MaxLog
           /\ position \in Nat /\ Len(log) \in 0..MaxLog /\ MaxLog \in Nat
           /\ \A r \in Readers : after[r] \in Nat
           /\ NoDefinition \notin Definitions /\ def \in Definitions
<1>1. Live \in Model /\ Live.upto \in 0..MaxLog /\ fresh.upto \in 0..MaxLog
  BY LiveType DEF TypeOK, Model
<1>2. def \in Definitions /\ NoDefinition \notin Definitions /\ position \in 0..MaxLog
  BY ModelAssumption DEF TypeOK
<1>3. Live.upto <= Len(log)
  BY DEF Inv, Bounds, Behind
<1>4. QED BY <1>1, <1>2, <1>3, LogLength DEF TypeOK

\* And of a model that is whole.
LEMMA WholeFacts ==
    ASSUME TypeOK, Inv, ~stranded
    PROVE  /\ Seen \in Model /\ Seen.upto \in 0..MaxLog /\ Seen.upto <= Len(log)
           /\ ~At("sweep") => Seen = Live
           /\ Seen.def = def => Seen.handled = Rows(log, def, Seen.upto)
           /\ Seen = Blank => Seen.def = NoDefinition /\ Seen.upto = 0
           /\ Current => Seen.handled = Rows(log, def, Seen.upto)
<1>1. Seen \in Model /\ Seen.upto \in 0..MaxLog
  BY LiveType DEF TypeOK, Model, Seen
<1>2. Seen.upto <= Len(log)
  BY DEF Inv, Whole, Sound
<1>3. Seen.def = def => Seen.handled = Rows(log, def, Seen.upto)
  BY Facts DEF Inv, Whole, Sound
<1>4. Seen = Blank => Seen.def = NoDefinition /\ Seen.upto = 0 /\ Seen.handled = Blank.handled
  BY DEF Blank
<1>5. Current => Seen.handled = Rows(log, def, Seen.upto)
  BY <1>3, <1>4, RowsOfNothing DEF Current
<1>6. QED BY <1>1, <1>2, <1>3, <1>4, <1>5 DEF Seen

\* A step that leaves the log, the definition and the readers alone, and the
\* model either alone or at a later position under the running definition,
\* keeps every reader true while the process is up.
LEMMA ReadersKept ==
    ASSUME TypeOK, Inv, ~stranded, Up', UNCHANGED <<log, def, reads>>,
           Seen'.upto \in Nat, Seen.upto <= Seen'.upto,
           \/ Seen' = Seen /\ (At("start") => At("start")')
           \/ Seen'.def = def
           \/ \A r \in Readers : reader[r] = "idle"
    PROVE  \A r \in Readers : ReaderTrue(r)'
<1> SUFFICES ASSUME NEW r \in Readers PROVE ReaderTrue(r)'
  OBVIOUS
<1> USE Facts, WholeFacts
<1>1. ReaderTrue(r)
  BY DEF Inv, Whole
<1>2. reader[r] # "idle" => Current'
  BY <1>1 DEF ReaderTrue, Current
<1>3. reader[r] = "reached" => after[r] <= Seen'.upto
  BY <1>1 DEF ReaderTrue
<1>4. QED BY <1>1, <1>2, <1>3 DEF ReaderTrue

\* A step that leaves the model, what is known of it and the readers alone.
LEMMA WholeKept ==
    ASSUME TypeOK, Inv, ~stranded, Up', UNCHANGED <<log, def, reads>>, Seen' = Seen,
           At("start") => At("start")', HandleTrue'
    PROVE  Whole'
<1>1. Sound(Seen)'
  BY DEF Inv, Whole, Sound, Rows
<1>2. \A r \in Readers : ReaderTrue(r)'
  BY ReadersKept, WholeFacts
<1>3. QED BY <1>1, <1>2 DEF Whole

LEMMA InvStart ==
    ASSUME TypeOK, Inv, Start
    PROVE  Inv'
<1> USE Facts
<1>0. At("start") /\ pc' = "loop" /\ sub' = Live.upto /\ readiness # "rebuilding"
      /\ UNCHANGED <<log, stranded, fresh, def, position, readiness, reads>>
  BY DEF Start
<1>1. CASE readiness = "ready" /\ Live.def = NoDefinition
  <2> DEFINE m == [Live EXCEPT !.def = def]
  <2>1. m \in Model /\ m.def = def /\ m.upto = Live.upto /\ m.handled = Live.handled
    BY DEF Model
  <2>2. Commit(m, {"def"})
    BY <1>1 DEF Start
  <2> HIDE DEF m
  <2>3. Live'.def = def /\ Live'.upto = Live.upto /\ Live'.handled = Live.handled
    BY <2>1, <2>2, CommitLive
  <2>4. Bounds'
    BY <1>0, <2>3 DEF Inv, Bounds, Idle, Behind, TailTrue, FreshTrue, Up, At
  <2>5. ASSUME ~stranded'
        PROVE  Whole'
    <3> USE <1>0, <2>5, WholeFacts
    <3>1. Seen = Live /\ Seen' = Live'
      BY DEF Seen, At
    <3>2. Current
      BY <1>1 DEF Inv, Whole, HandleTrue, Up, At
    <3>3. Sound(Seen)'
      BY <2>3, <3>1, <3>2 DEF Sound, Rows
    <3>4. HandleTrue'
      BY <2>3, <3>1 DEF Inv, Whole, HandleTrue, Up, At, Current
    <3>5. \A r \in Readers : ReaderTrue(r)'
      BY <2>3, <3>1, ReadersKept DEF Up, At
    <3>6. QED BY <3>3, <3>4, <3>5 DEF Whole
  <2>6. QED BY <2>4, <2>5 DEF Inv
<1>2. CASE ~(readiness = "ready" /\ Live.def = NoDefinition)
  <2>1. Live' = Live
    BY <1>2, LiveKept DEF Start
  <2>2. Bounds'
    BY <1>0, <2>1 DEF Inv, Bounds, Idle, Behind, TailTrue, FreshTrue, Up, At
  <2>3. ASSUME ~stranded'
        PROVE  Whole'
    <3> USE <1>0, <2>3, WholeFacts
    <3>1. Seen = Live /\ Seen' = Seen
      BY <2>1 DEF Seen, At
    <3>2. Seen.def \in Definitions /\ Seen # Blank
      BY <1>2, <3>1 DEF Inv, Whole, HandleTrue, Current, Up, At
    <3>3. Sound(Seen)'
      BY <3>1 DEF Inv, Whole, Sound, Rows
    <3>4. HandleTrue'
      BY <3>1, <3>2 DEF Inv, Whole, HandleTrue, Up, At, Current
    <3>5. (\A r \in Readers : reader[r] = "idle") \/ Seen'.def = def
      BY <3>1, <3>2 DEF Inv, Whole, ReaderTrue, Current
    <3>6. \A r \in Readers : ReaderTrue(r)'
      BY <3>1, <3>5, ReadersKept DEF Up, At
    <3>7. QED BY <3>3, <3>4, <3>6 DEF Whole
  <2>4. QED BY <2>2, <2>3 DEF Inv
<1>3. QED BY <1>1, <1>2

LEMMA InvApplyBatch ==
    ASSUME TypeOK, Inv, NEW to \in Positions, ApplyBatch(to)
    PROVE  Inv'
<1> USE Facts
<1>1. /\ At("loop") /\ readiness = "ready" /\ sub = Live.upto /\ position <= sub
      /\ pc' = "publish" /\ sub' = to
      /\ UNCHANGED <<log, stranded, fresh, def, position, readiness, reads>>
  BY DEF ApplyBatch, Tailing, AppliesBatches, Inv, Bounds, TailTrue, At
<1>2. to \in BatchEnds(Live.upto) /\ to \in 0..MaxLog /\ to > Live.upto /\ to <= Len(log)
  BY <1>1 DEF ApplyBatch, BatchEnds
<1> DEFINE m == Applied(Live, Live.upto, to)
<1>3. m \in Model /\ m.def = Live.def /\ m.upto = to
  <2>1. m \in Model
    BY <1>2, AppliedType
  <2>2. QED BY <2>1 DEF Applied, Model
<1>4. Commit(m, {"upto", "handled"})
  BY <1>1 DEF ApplyBatch
<1>5. Live.handled = Rows(log, def, Live.upto) => m.handled = Rows(log, def, to)
  BY <1>2, AppliedRows
<1> HIDE DEF m
<1>6. Live'.def = Live.def /\ Live'.upto = to /\ Live'.handled = m.handled
  BY <1>3, <1>4, CommitLive
<1>7. Bounds'
  BY <1>1, <1>2, <1>6 DEF Inv, Bounds, Idle, Behind, TailTrue, FreshTrue, Up, At
<1>8. ASSUME ~stranded'
      PROVE  Whole'
  <2> USE <1>1, <1>8, WholeFacts
  <2>1. Seen = Live /\ Seen' = Live' /\ Seen.def = def
    BY DEF Seen, Inv, Whole, HandleTrue, Current, Up, At
  <2>2. Live'.handled = Rows(log, def, to)
    BY <1>5, <1>6, <2>1
  <2>3. Sound(Seen)'
    BY <1>2, <1>6, <2>1, <2>2 DEF Sound, Rows
  <2>4. HandleTrue'
    BY <1>2, <1>6, <2>1 DEF HandleTrue, Up, At, Current
  <2>5. \A r \in Readers : ReaderTrue(r)'
    BY <1>2, <1>6, <2>1, ReadersKept DEF Up, At
  <2>6. QED BY <2>3, <2>4, <2>5 DEF Whole
<1>9. QED BY <1>7, <1>8 DEF Inv

LEMMA InvAdvanceCheckpoint ==
    ASSUME TypeOK, Inv, AdvanceCheckpoint
    PROVE  Inv'
<1> USE Facts
<1>1. /\ At("loop") /\ readiness = "ready" /\ sub = Live.upto /\ position <= sub
      /\ pc' = "publish" /\ sub' = Len(log)
      /\ UNCHANGED <<log, stranded, fresh, def, position, readiness, reads>>
  BY DEF AdvanceCheckpoint, Tailing, AppliesBatches, Inv, Bounds, TailTrue, At
<1> DEFINE m == [Live EXCEPT !.upto = Len(log)]
<1>2. m \in Model /\ m.def = Live.def /\ m.upto = Len(log) /\ m.handled = Live.handled
  BY <1>1 DEF Model
<1>3. Commit(m, {"upto"})
  BY DEF AdvanceCheckpoint
<1> HIDE DEF m
<1>4. Live'.def = Live.def /\ Live'.upto = Len(log) /\ Live'.handled = Live.handled
  BY <1>1, <1>2, <1>3, CommitLive
<1>5. Bounds'
  BY <1>1, <1>4 DEF Inv, Bounds, Idle, Behind, TailTrue, FreshTrue, Up, At
<1>6. ASSUME ~stranded'
      PROVE  Whole'
  <2> USE <1>1, <1>6, WholeFacts
  <2>1. Seen = Live /\ Seen' = Live' /\ Seen.def = def
    BY DEF Seen, Inv, Whole, HandleTrue, Current, Up, At
  <2>2. Live.handled = Rows(log, def, Len(log))
    BY <2>1, CaughtUpRows DEF AdvanceCheckpoint
  <2>3. Sound(Seen)'
    BY <1>4, <2>1, <2>2 DEF Sound, Rows
  <2>4. HandleTrue'
    BY <1>4, <2>1 DEF HandleTrue, Up, At, Current
  <2>5. \A r \in Readers : ReaderTrue(r)'
    BY <1>4, <2>1, ReadersKept DEF Up, At
  <2>6. QED BY <2>3, <2>4, <2>5 DEF Whole
<1>7. QED BY <1>5, <1>6 DEF Inv

\* A step of the thread that leaves the model alone, and does not sweep.
LEMMA InvQuiet ==
    ASSUME TypeOK, Inv, Live' = Live, Up', pc # "start", pc # "sweep", pc' # "sweep",
           UNCHANGED <<log, stranded, def, reads>>, Bounds',
           ~stranded => HandleTrue'
    PROVE  Inv'
<1>1. ~stranded => Seen' = Seen
  BY DEF Seen, At
<1>2. QED BY <1>1, WholeKept DEF Inv, At

LEMMA InvAdvancePosition ==
    ASSUME TypeOK, Inv, AdvancePosition
    PROVE  Inv'
<1> USE Facts
<1>1. /\ At("publish") /\ pc' = "loop" /\ sub = Live.upto /\ position <= sub
      /\ position' = sub /\ Live' = Live
      /\ UNCHANGED <<log, stranded, fresh, def, sub, readiness, reads>>
  BY LiveKept DEF AdvancePosition, Inv, Bounds, TailTrue, At, TypeOK
<1>2. Bounds'
  BY <1>1 DEF Inv, Bounds, Idle, Behind, TailTrue, FreshTrue, Up, At
<1>3. ~stranded => HandleTrue'
  BY <1>1 DEF Inv, Whole, HandleTrue, Up, At, Current, Seen
<1>4. QED BY <1>1, <1>2, <1>3, InvQuiet DEF Up, At

\* The thread closes the live model and leaves.
LEMMA InvCloses ==
    ASSUME TypeOK, Inv, CloseLive, At("loop"), pc' = "exit",
           UNCHANGED <<log, stranded, fresh, def, sub, shared, reads, bounds>>
    PROVE  Inv'
<1> USE Facts
<1>1. Live' = Live
  BY CloseKeeps
<1>2. Bounds'
  BY <1>1 DEF Inv, Bounds, Idle, Behind, TailTrue, FreshTrue, Up, At
<1>3. ~stranded => HandleTrue'
  BY <1>1 DEF Inv, Whole, HandleTrue, Up, At, Current, Seen
<1>4. QED BY <1>1, <1>2, <1>3, InvQuiet DEF Up, At

LEMMA InvClearRunning ==
    ASSUME TypeOK, Inv, ClearRunning
    PROVE  Inv'
<1> USE Facts
<1>1. Live' = Live /\ At("exit") /\ pc' = "stopped"
      /\ UNCHANGED <<log, stranded, fresh, def, sub, shared, reads>>
  BY LiveKept DEF ClearRunning
<1>2. Bounds'
  BY <1>1 DEF Inv, Bounds, Idle, Behind, TailTrue, FreshTrue, Up, At
<1>3. ~stranded => HandleTrue'
  BY <1>1 DEF Inv, Whole, HandleTrue, Up, At, Current, Seen
<1>4. QED BY <1>1, <1>2, <1>3, InvQuiet DEF Up, At

LEMMA InvBeginRebuild ==
    ASSUME TypeOK, Inv, BeginRebuild
    PROVE  Inv'
<1> USE Facts
<1>1. Live' = Live /\ fresh' = Blank /\ pc' = "build" /\ pc \in {"start", "loop"}
  BY LiveKept DEF BeginRebuild, At
<1>2. UNCHANGED <<log, stranded, def, position, readiness, reads>> /\ (At("start") => readiness = "rebuilding")
  BY DEF BeginRebuild, At
<1>3. Bounds'
  <2>1. FreshTrue'
    BY <1>1, <1>2, RowsOfNothing DEF FreshTrue, At, Blank
  <2>2. Behind' /\ TailTrue' /\ Idle'
    BY <1>1, <1>2 DEF Inv, Bounds, Idle, Behind, TailTrue, Up, At
  <2>3. QED BY <2>1, <2>2 DEF Bounds
<1>4. ASSUME ~stranded'
      PROVE  Whole'
  <2> USE <1>1, <1>2, <1>4, WholeFacts
  <2>1. Seen' = Seen
    BY DEF Seen, At
  <2>2. Seen.def \in Definitions /\ Seen # Blank
    BY DEF Inv, Whole, HandleTrue, Up, At
  <2>3. Sound(Seen)'
    BY <2>1 DEF Inv, Whole, Sound, Rows
  <2>4. HandleTrue'
    BY <2>1, <2>2 DEF Inv, Whole, HandleTrue, Up, At, Current
  <2>5. (\A r \in Readers : reader[r] = "idle") \/ Seen'.def = def
    BY <2>1, <2>2 DEF Inv, Whole, ReaderTrue, Current
  <2>6. \A r \in Readers : ReaderTrue(r)'
    BY <2>1, <2>5, ReadersKept DEF Up, At
  <2>7. QED BY <2>3, <2>4, <2>6 DEF Whole
<1>5. QED BY <1>3, <1>4 DEF Inv

LEMMA InvBuildBatch ==
    ASSUME TypeOK, Inv, NEW to \in Positions, BuildBatch(to)
    PROVE  Inv'
<1> USE Facts
<1>1. /\ Live' = Live /\ At("build") /\ fresh' = Applied(fresh, fresh.upto, to)
      /\ UNCHANGED <<log, stranded, pc, def, sub, position, readiness, reads>>
  BY LiveKept DEF BuildBatch
<1>2. to \in BatchEnds(fresh.upto) /\ to <= Len(log)
  BY DEF BuildBatch, BatchEnds
<1>3. fresh.def = NoDefinition /\ fresh.handled = Rows(log, def, fresh.upto)
  BY <1>1 DEF Inv, Bounds, FreshTrue, At
<1>4. fresh'.def = NoDefinition /\ fresh'.upto = to /\ fresh'.handled = Rows(log, def, to)
  BY <1>1, <1>2, <1>3, AppliedRows
<1>5. Bounds'
  <2>1. FreshTrue'
    BY <1>1, <1>2, <1>4 DEF FreshTrue, At, Rows
  <2>2. Behind' /\ TailTrue' /\ Idle'
    BY <1>1 DEF Inv, Bounds, Idle, Behind, TailTrue, Up, At
  <2>3. QED BY <2>1, <2>2 DEF Bounds
<1>6. ~stranded => HandleTrue'
  BY <1>1 DEF Inv, Whole, HandleTrue, Up, At, Current, Seen
<1>7. QED BY <1>1, <1>5, <1>6, InvQuiet DEF Up, At

LEMMA InvSeal ==
    ASSUME TypeOK, Inv, Seal
    PROVE  Inv'
<1> USE Facts
<1>1. /\ At("build") /\ pc' = "swap" /\ fresh' = [fresh EXCEPT !.upto = Len(log), !.def = def]
      /\ UNCHANGED <<log, stranded, def, sub, position, readiness, reads>>
  BY DEF Seal
<1>2. Live' = Live
  BY CloseKeeps DEF Seal
<1>3. fresh.handled = Rows(log, def, Len(log))
  BY <1>1, CaughtUpRows DEF Seal, Inv, Bounds, FreshTrue, At
<1>4. fresh'.upto = Len(log) /\ fresh'.def = def /\ fresh'.handled = fresh.handled
  BY <1>1 DEF TypeOK, Model
<1>5. Bounds'
  <2>1. position <= Len(log) /\ \A r \in Readers : after[r] <= Len(log)
    BY <1>1 DEF Inv, Bounds, Behind, Up, At
  <2>2. FreshTrue'
    BY <1>1, <1>2, <1>3, <1>4, <2>1 DEF FreshTrue, At, Rows
  <2>3. Behind' /\ TailTrue' /\ Idle'
    BY <1>1, <1>2 DEF Inv, Bounds, Idle, Behind, TailTrue, Up, At
  <2>4. QED BY <2>2, <2>3 DEF Bounds
<1>6. ASSUME ~stranded
      PROVE  HandleTrue'
  <2>1. Seen' = Seen /\ Seen.upto <= Len(log)
    BY <1>1, <1>2, <1>6, WholeFacts DEF Seen, At
  <2>2. QED BY <1>1, <1>4, <1>6, <2>1 DEF Inv, Whole, HandleTrue, Up, At, Current
<1>7. QED BY <1>1, <1>2, <1>5, <1>6, InvQuiet DEF Up, At

\* The swap makes the model whole, whatever it was before.
LEMMA InvRename ==
    ASSUME TypeOK, Inv, Rename
    PROVE  Inv'
<1> USE Facts
<1>1. /\ At("swap") /\ pc' = "sweep" /\ main' = fresh /\ ~stranded' /\ UNCHANGED <<wal, frames>>
      /\ UNCHANGED <<log, def, sub, position, readiness, reads>>
  BY DEF Rename
<1>2. /\ fresh.def = def /\ fresh.handled = Rows(log, def, fresh.upto)
      /\ position <= fresh.upto /\ fresh.upto <= Len(log)
      /\ \A r \in Readers : reader[r] = "reached" => after[r] <= fresh.upto
  BY <1>1 DEF Inv, Bounds, FreshTrue, At
<1>3. Live'.upto = Live.upto \/ Live'.upto = fresh.upto
  BY <1>1 DEF Live
<1>4. Bounds'
  BY <1>1, <1>2, <1>3 DEF Inv, Bounds, Idle, Behind, TailTrue, FreshTrue, Up, At
<1>5. Seen' = fresh
  BY <1>1 DEF Seen, At
<1>6. Sound(Seen)'
  BY <1>1, <1>2, <1>5 DEF Sound, Rows
<1>7. HandleTrue'
  BY <1>1, <1>2, <1>5 DEF HandleTrue, Up, At, Current
<1>8. \A r \in Readers : ReaderTrue(r)'
  BY <1>1, <1>2, <1>5 DEF ReaderTrue, Up, At, Current
<1>9. QED BY <1>4, <1>6, <1>7, <1>8 DEF Inv, Whole

\* Once the WAL is gone the main file is the model.
LEMMA InvRemoveSidecars ==
    ASSUME TypeOK, Inv, RemoveSidecars
    PROVE  Inv' /\ Seen' = Seen
<1> USE Facts
<1>1. /\ At("sweep") /\ pc' = "reopen" /\ frames' = {} /\ main' = main /\ ~stranded
      /\ UNCHANGED <<log, stranded, fresh, def, sub, position, readiness, reads>>
  BY DEF RemoveSidecars, Inv, Bounds, FreshTrue, At
<1> USE WholeFacts
<1>2. Seen = main /\ Live' = main /\ Seen' = Seen
  BY <1>1 DEF Seen, Live, At, TypeOK, Model
<1>3. Bounds'
  BY <1>1, <1>2 DEF Inv, Bounds, Idle, Behind, TailTrue, FreshTrue, Up, At
<1>4. HandleTrue'
  BY <1>1, <1>2 DEF Inv, Whole, HandleTrue, Up, At, Current
<1>5. Whole'
  BY <1>1, <1>2, <1>4, WholeKept DEF Up, At
<1>6. QED BY <1>2, <1>3, <1>5 DEF Inv

LEMMA InvReopen ==
    ASSUME TypeOK, Inv, Reopen
    PROVE  Inv'
<1> USE Facts
<1>1. Live' = Live /\ At("reopen") /\ pc' = "rebuilt" /\ position' = Live.upto
      /\ UNCHANGED <<log, stranded, fresh, def, sub, readiness, reads>>
  BY LiveKept DEF Reopen
<1>2. Bounds'
  BY <1>1 DEF Inv, Bounds, Idle, Behind, TailTrue, FreshTrue, Up, At
<1>3. ~stranded => HandleTrue'
  BY <1>1 DEF Inv, Whole, HandleTrue, Up, At, Current, Seen
<1>4. QED BY <1>1, <1>2, <1>3, InvQuiet DEF Up, At

LEMMA InvRebuildDone ==
    ASSUME TypeOK, Inv, RebuildDone
    PROVE  Inv'
<1> USE Facts
<1>1. Live' = Live /\ At("rebuilt") /\ pc' = "loop" /\ sub' = Live.upto /\ readiness' = "ready"
      /\ UNCHANGED <<log, stranded, fresh, def, position, reads>>
  BY LiveKept DEF RebuildDone
<1>2. Bounds'
  BY <1>1 DEF Inv, Bounds, Idle, Behind, TailTrue, FreshTrue, Up, At
<1>3. ~stranded => HandleTrue'
  BY <1>1 DEF Inv, Whole, HandleTrue, Up, At, Current, Seen
<1>4. QED BY <1>1, <1>2, <1>3, InvQuiet DEF Up, At

\* A rebuild that fails between the rename and the removal of a WAL leaves a
\* model that is not whole.
LEMMA InvRebuildFails ==
    ASSUME TypeOK, Inv, RebuildFails
    PROVE  Inv' /\ (~stranded' => Seen' = Seen)
<1> USE Facts
<1>1. pc \in {"build", "swap", "sweep", "reopen"} /\ pc' = "degrade" /\ readiness' = "failed"
      /\ stranded' = Mixed /\ UNCHANGED <<log, fresh, def, sub, position, reads>>
  BY DEF RebuildFails, At
<1>2. Live' = Live
  BY CloseKeeps, LiveKept DEF RebuildFails
<1>3. Bounds'
  BY <1>1, <1>2 DEF Inv, Bounds, Idle, Behind, TailTrue, FreshTrue, Up, At
<1>4. ASSUME ~stranded'
      PROVE  Whole' /\ Seen' = Seen
  <2> USE <1>1, <1>4, WholeFacts
  <2>1. ~stranded /\ (At("sweep") => frames = {})
    BY DEF Mixed, Unswept
  <2>2. Seen' = Seen
    BY <1>2, <2>1 DEF Seen, Live, At, TypeOK, Model
  <2>3. HandleTrue'
    BY <2>1, <2>2 DEF Inv, Whole, HandleTrue, Up, At, Current
  <2>4. QED BY <2>1, <2>2, <2>3, WholeKept DEF Up, At
<1>5. QED BY <1>3, <1>4 DEF Inv

LEMMA InvDegrade ==
    ASSUME TypeOK, Inv, Degrade
    PROVE  Inv'
<1> USE Facts
<1>1. Live' = Live /\ At("degrade") /\ pc' = "restore"
      /\ readiness' = (IF Reconcile(Live, def, FALSE) # "stale" THEN "ready" ELSE readiness)
      /\ UNCHANGED <<log, stranded, fresh, def, sub, position, reads>>
  BY LiveKept DEF Degrade
<1>2. Bounds'
  BY <1>1 DEF Inv, Bounds, Idle, Behind, TailTrue, FreshTrue, Up, At
<1>3. ~stranded => HandleTrue'
  BY <1>1 DEF Inv, Whole, HandleTrue, Up, At, Current, Seen, Reconcile
<1>4. QED BY <1>1, <1>2, <1>3, InvQuiet DEF Up, At

LEMMA InvRestore ==
    ASSUME TypeOK, Inv, Restore
    PROVE  Inv'
<1> USE Facts
<1>1. Live' = Live /\ At("restore") /\ pc' = "loop" /\ position' = Live.upto /\ sub' = Live.upto
      /\ UNCHANGED <<log, stranded, fresh, def, readiness, reads>>
  BY LiveKept DEF Restore
<1>2. Bounds'
  BY <1>1 DEF Inv, Bounds, Idle, Behind, TailTrue, FreshTrue, Up, At
<1>3. ~stranded => HandleTrue'
  BY <1>1 DEF Inv, Whole, HandleTrue, Up, At, Current, Seen
<1>4. QED BY <1>1, <1>2, <1>3, InvQuiet DEF Up, At

LEMMA InvDegradeFails ==
    ASSUME TypeOK, Inv, DegradeFails
    PROVE  Inv'
<1> USE Facts
<1>1. Live' = Live /\ At("degrade") /\ pc' = "exit"
      /\ UNCHANGED <<log, stranded, fresh, def, sub, shared, reads>>
  BY LiveKept DEF DegradeFails
<1>2. Bounds'
  BY <1>1 DEF Inv, Bounds, Idle, Behind, TailTrue, FreshTrue, Up, At
<1>3. ~stranded => HandleTrue'
  BY <1>1 DEF Inv, Whole, HandleTrue, Up, At, Current, Seen
<1>4. QED BY <1>1, <1>2, <1>3, InvQuiet DEF Up, At

LEMMA InvThread ==
    ASSUME TypeOK, Inv, Thread
    PROVE  Inv'
<1>1. ASSUME NEW to \in Positions, BatchFails(to)
      PROVE  Inv'
  BY <1>1, InvCloses DEF BatchFails, Tailing
<1>2. CASE Leave
  BY <1>2, InvCloses DEF Leave
<1>3. QED
  BY <1>1, <1>2, InvStart, InvApplyBatch, InvAdvanceCheckpoint, InvAdvancePosition,
     InvClearRunning, InvBeginRebuild, InvBuildBatch, InvSeal, InvRename,
     InvRemoveSidecars, InvReopen, InvRebuildDone, InvRebuildFails, InvDegrade,
     InvRestore, InvDegradeFails
  DEF Thread

LEMMA InvEnvironment ==
    ASSUME TypeOK, Inv, Environment
    PROVE  Inv'
<1> USE Facts
<1>1. ASSUME NEW k \in Kinds, AppendEvent(k)
      PROVE  Inv'
  <2>1. log' = Append(log, k) /\ Len(log') = Len(log) + 1
    BY <1>1, AppendProperties DEF AppendEvent, TypeOK
  <2>2. UNCHANGED <<files, fresh, stranded, pc, def, sub, shared, reads>> /\ Live' = Live /\ Seen' = Seen
    BY <1>1, LiveKept DEF AppendEvent, Seen, At
  <2>3. \A d : \A n \in 0..MaxLog : n <= Len(log) => Rows(log', d, n) = Rows(log, d, n)
    BY <2>1, RowsGrow
  <2>4. Rows(log, def, fresh.upto)' = Rows(log', def, fresh.upto)
    BY <2>2 DEF Rows
  <2>5. FreshTrue'
    BY <2>1, <2>2, <2>3, <2>4 DEF Inv, Bounds, FreshTrue, At
  <2>6. Behind' /\ TailTrue' /\ Idle'
    BY <2>1, <2>2 DEF Inv, Bounds, Idle, Behind, TailTrue, Up, At
  <2>7. ASSUME ~stranded'
        PROVE  Whole'
    <3> USE <2>2, <2>7, WholeFacts
    <3>1. Rows(log, Seen.def, Seen.upto)' = Rows(log', Seen.def, Seen.upto)
      BY DEF Rows
    <3>2. Sound(Seen)'
      BY <2>1, <2>3, <3>1 DEF Inv, Whole, Sound
    <3>3. HandleTrue'
      BY DEF Inv, Whole, HandleTrue, Up, At, Current
    <3>4. \A r \in Readers : ReaderTrue(r)'
      BY DEF Inv, Whole, ReaderTrue, Up, At, Current
    <3>5. QED BY <3>2, <3>3, <3>4 DEF Whole
  <2>8. QED BY <2>5, <2>6, <2>7 DEF Inv, Bounds
<1>2. ASSUME NEW d \in Definitions, NEW auto \in BOOLEAN, NEW f \in Formats, Spawn(d, auto, f)
      PROVE  Inv'
  <2> DEFINE m == Reformatted(f)
  <2>1. /\ ~Up /\ pc' = "start" /\ def' = d /\ position' = m.upto
        /\ readiness' = ReadinessOf(Reconcile(m, d, auto))
        /\ UNCHANGED <<log, fresh, reads>>
    BY <1>2 DEF Spawn, At, Up
  <2>2. Live'.def = m.def /\ Live'.upto = m.upto /\ Live'.handled = m.handled
        /\ m.upto \in Nat /\ m.upto <= Len(log)
    <3>1. CASE f = format
      BY <1>2, <3>1, LiveKept DEF Spawn, Reformat, Reformatted
    <3>2. CASE f # format
      <4>1. Commit(Blank, Pages) /\ m = Blank
        BY <1>2, <3>2 DEF Spawn, Reformat, Reformatted
      <4>2. QED BY <4>1, BlankType, CommitLive DEF Blank
    <3>3. QED BY <3>1, <3>2
  <2>3. readiness' \in {"ready", "rebuilding", "stale"}
    BY <2>1 DEF ReadinessOf, Reconcile
  <2>4. Bounds'
    BY <2>1, <2>2, <2>3 DEF Inv, Bounds, Idle, Behind, TailTrue, FreshTrue, Up, At
  <2>5. ASSUME ~stranded'
        PROVE  Whole'
    <3>1. Seen' = Live'
      BY <2>1, <2>5 DEF Seen, At
    <3>2. Seen' = m /\ (m.def \in Definitions \/ m = Blank) /\ Sound(m)
      <4>1. CASE f = format
        <5>1. Live' = Live /\ m = Live /\ ~stranded
          BY <1>2, <2>5, <4>1, LiveKept DEF Spawn, Reformat, Reformatted
        <5>2. Seen = Live
          BY <2>1, <5>1 DEF Seen, Up, At
        <5>3. QED BY <3>1, <5>1, <5>2 DEF Inv, Whole, Sound, Model
      <4>2. CASE f # format
        <5>1. m = Blank
          BY <4>2 DEF Reformatted
        <5>2. Live' = [def |-> Live'.def, upto |-> Live'.upto, handled |-> Live'.handled]
          BY DEF Live
        <5>3. QED BY <2>2, <3>1, <5>1, <5>2 DEF Sound, Blank
      <4>3. QED BY <4>1, <4>2
    <3> HIDE DEF m
    <3>3. Sound(Seen)'
      BY <2>1, <3>2 DEF Sound, Rows
    <3>4. HandleTrue'
      <4>0. Blank.def = NoDefinition /\ Blank.upto = 0
        BY DEF Blank
      <4>1. CASE m.def = d
        BY <2>1, <2>2, <3>2, <4>1 DEF HandleTrue, Up, At, Current, Reconcile, ReadinessOf
      <4>2. CASE m = Blank
        BY <2>1, <2>2, <3>2, <4>0, <4>2 DEF HandleTrue, Up, At, Current, Reconcile, ReadinessOf
      <4>3. CASE m.def # d /\ m.def \in Definitions
        BY <2>1, <2>2, <3>2, <4>3 DEF HandleTrue, Up, At, Current, Reconcile, ReadinessOf
      <4>4. QED BY <3>2, <4>1, <4>2, <4>3
    <3>5. \A r \in Readers : ReaderTrue(r)'
      <4>1. \A r \in Readers : reader[r] = "idle"
        BY <2>1 DEF Inv, Bounds, Idle
      <4>2. QED BY <2>1, <4>1 DEF ReaderTrue
    <3>6. QED BY <3>3, <3>4, <3>5 DEF Whole
  <2>6. QED BY <2>4, <2>5 DEF Inv
<1>3. CASE Crash
  <2>1. Live' = Live /\ pc' = "down" /\ readiness' = "ready" /\ log' = log
        /\ reader' = [r \in Readers |-> "idle"] /\ after' = [r \in Readers |-> 0]
        /\ stranded' = Mixed
    BY <1>3, LiveKept DEF Crash
  <2>2. Bounds'
    BY <2>1 DEF Inv, Bounds, Idle, Behind, TailTrue, FreshTrue, Up, At
  <2>3. ASSUME ~stranded'
        PROVE  Whole'
    <3>1. ~stranded /\ (At("sweep") => frames = {})
      BY <2>1, <2>3 DEF Mixed, Unswept
    <3>2. Seen' = Seen
      BY <2>1, <2>3, <3>1 DEF Seen, Live, At, TypeOK, Model
    <3>3. Sound(Seen)'
      BY <2>1, <3>1, <3>2 DEF Inv, Whole, Sound, Rows
    <3>4. HandleTrue' /\ \A r \in Readers : ReaderTrue(r)'
      BY <2>1 DEF HandleTrue, ReaderTrue, Up, At
    <3>5. QED BY <3>3, <3>4 DEF Whole
  <2>4. QED BY <2>2, <2>3 DEF Inv
<1>4. CASE RequestReplay \/ Stop
  <2>1. /\ Live' = Live /\ Seen' = Seen
        /\ UNCHANGED <<log, stranded, fresh, pc, def, sub, position, readiness, reads>>
    BY <1>4, LiveKept DEF RequestReplay, Stop, Seen, At
  <2>2. Bounds'
    BY <2>1 DEF Inv, Bounds, Idle, Behind, TailTrue, FreshTrue, Up, At, Rows
  <2>3. ~stranded => Whole'
    BY <2>1 DEF Inv, Whole, Sound, HandleTrue, ReaderTrue, Up, At, Current, Rows
  <2>4. QED BY <2>1, <2>2, <2>3 DEF Inv
<1>5. QED BY <1>1, <1>2, <1>3, <1>4 DEF Environment

\* A read changes nothing but itself.
LEMMA InvRead ==
    ASSUME TypeOK, Inv, Read
    PROVE  Inv'
<1> USE Facts
<1>1. PICK r \in Readers :
        \/ \E a \in 0..MaxLog : ResolveEntity(r, a)
        \/ HonorWait(r) \/ NotCaughtUp(r) \/ Snapshot(r) \/ Respond(r)
  BY DEF Read
<1>2. Up /\ UNCHANGED <<log, files, fresh, stranded, pc, def, sub, shared>>
  BY <1>1 DEF ResolveEntity, HonorWait, NotCaughtUp, Snapshot, Respond, ReadIs
<1>3. Live' = Live /\ Seen' = Seen
  BY <1>2, LiveKept DEF Seen, At
<1>4. \A s \in Readers : s # r => reader'[s] = reader[s] /\ after'[s] = after[s]
  BY <1>1 DEF ResolveEntity, HonorWait, NotCaughtUp, Snapshot, Respond, ReadIs, TypeOK
<1>5. after'[r] <= Len(log) /\ (reader'[r] = "reached" => after'[r] <= position)
  BY <1>1 DEF ResolveEntity, HonorWait, NotCaughtUp, Snapshot, Respond, ReadIs, TypeOK,
              Inv, Bounds, Behind
<1>6. \A s \in Readers : after'[s] <= Len(log)
  BY <1>4, <1>5 DEF Inv, Bounds, Behind
<1>7. ASSUME At("swap"), NEW s \in Readers, reader'[s] = "reached"
      PROVE  after'[s] <= fresh.upto
  <2>1. position <= fresh.upto /\ after'[s] \in Nat
    BY <1>7, <1>1, TypeRead DEF Inv, Bounds, FreshTrue, TypeOK
  <2>2. CASE s = r
    BY <1>5, <1>7, <2>1, <2>2
  <2>3. CASE s # r
    BY <1>4, <1>7, <2>3 DEF Inv, Bounds, FreshTrue
  <2>4. QED BY <2>2, <2>3
<1>8. Bounds'
  BY <1>2, <1>3, <1>6, <1>7, <1>1 DEF Inv, Bounds, Idle, Behind, TailTrue, FreshTrue, Up, At, Rows, Idle
<1>9. ASSUME ~stranded'
      PROVE  Whole'
  <2> USE <1>2, <1>3, <1>9, WholeFacts
  <2>1. Sound(Seen)' /\ HandleTrue'
    BY DEF Inv, Whole, Sound, HandleTrue, Up, At, Current, Rows
  <2>2. ASSUME NEW s \in Readers, s # r
        PROVE  ReaderTrue(s)'
    BY <1>4, <2>2 DEF Inv, Whole, ReaderTrue, Up, At, Current
  <2>3. ReaderTrue(r)'
    <3>1. Current
      BY <1>1 DEF ResolveEntity, HonorWait, NotCaughtUp, Snapshot, Respond, ReadIs,
                  Inv, Whole, HandleTrue, ReaderTrue
    <3>2. position <= Seen.upto /\ after'[r] \in Nat
      BY <1>1, TypeRead DEF Inv, Whole, HandleTrue, TypeOK
    <3>3. QED BY <1>5, <3>1, <3>2 DEF ReaderTrue, Up, At, Current
  <2>4. QED BY <2>1, <2>2, <2>3 DEF Whole
<1>10. QED BY <1>8, <1>9 DEF Inv

LEMMA ProjectorInv == Spec => [](TypeOK /\ Inv)
<1>1. Init => TypeOK /\ Inv
  BY TypeInit, InvInit
<1>2. ASSUME TypeOK /\ Inv, Next PROVE (TypeOK /\ Inv)'
  BY <1>2, TypeThread, TypeEnvironment, TypeRead, InvThread, InvEnvironment, InvRead DEF Next
<1>3. ASSUME TypeOK /\ Inv, UNCHANGED vars PROVE (TypeOK /\ Inv)'
  <2>1. TypeOK'
    BY <1>3 DEF vars, TypeOK
  <2>2. Live' = Live /\ Seen' = Seen
    BY <1>3, LiveKept DEF vars, Seen, At
  <2>3. Inv'
    BY <1>3, <2>2 DEF vars, Inv, Bounds, Idle, Behind, Whole, Sound, HandleTrue, TailTrue, FreshTrue,
                      ReaderTrue, Up, At, Current, Rows
  <2>4. QED BY <2>1, <2>3
<1>4. QED BY <1>1, <1>2, <1>3, PTL DEF Spec

\* A read whose wait has ended finds what the running definition makes of a
\* prefix of the log that covers the position it waited for, unless the model
\* is not whole: whatever connections other reads hold across a swap.
THEOREM ReadsAreTrue == Spec => []ReadsTrue
<1>1. TypeOK /\ Inv => ReadsTrue
  <2> SUFFICES ASSUME TypeOK, Inv, NEW r \in Readers, reader[r] = "reached", ~Mixed
               PROVE  FindsItsOwn(r)
    BY DEF ReadsTrue
  <2> USE Facts
  <2>1. ~stranded /\ (At("sweep") => frames = {})
    BY DEF Mixed, Unswept
  <2> USE WholeFacts
  <2>2. Seen = Live
    BY <2>1 DEF Seen, Live, At, TypeOK, Model
  <2>3. Current /\ after[r] <= Seen.upto
    BY <2>1 DEF Inv, Whole, ReaderTrue
  <2>4. QED BY <2>1, <2>2, <2>3 DEF FindsItsOwn
<1>2. QED BY <1>1, ProjectorInv, PTL

\* The subscription never falls behind what was published, so that the check
\* of advance_position never stops a projector, whole model or not.
THEOREM NoRegression == Spec => []NeverQuarantined
<1>1. TypeOK /\ Inv => NeverQuarantined
  BY DEF Inv, Bounds, TailTrue, NeverQuarantined
<1>2. QED BY <1>1, ProjectorInv, PTL

-----------------------------------------------------------------------------
(* The live model implements LogView.                                      *)

Unseen == UNCHANGED <<log, Seen, ViewState, format>>

LEMMA ViewStates ==
  /\ stranded => ViewState = "lost" /\ Seen = Blank
  /\ ~stranded /\ Unswept => ViewState = "covered"
  /\ ~stranded /\ ~Unswept => ViewState = "whole"
BY DEF ViewState, Seen, Mixed

\* A model that is whole, and that a step leaves as what a definition makes of
\* a prefix no shorter than before, is an Advance of LogView.
LEMMA ViewExtends ==
    ASSUME TypeOK, TypeOK', Inv, Inv', ~stranded', UNCHANGED <<log, format>>,
           Seen.upto <= Seen'.upto, Seen'.def \in Definitions
    PROVE  \E d \in Definitions : \E n \in 0..MaxLog : View!Extended(d, n)
<1>1. Seen \in Model /\ Seen' \in Model
  <2>1. main \in Model /\ Live \in Model
    BY LiveType DEF TypeOK
  <2>2. main' \in Model /\ wal' \in Model
    BY DEF TypeOK
  <2>3. Live' \in Model
    BY <2>2 DEF Live, Model
  <2>4. QED BY <2>1, <2>2, <2>3, BlankType DEF Seen
<1>2. Seen'.upto \in 0..MaxLog /\ Seen.upto \in Nat /\ Len(log) \in Nat
  BY <1>1, LogLength DEF Model
<1>3. Seen'.upto <= Len(log) /\ Seen'.handled = Rows(log, Seen'.def, Seen'.upto)
  BY ModelAssumption DEF Inv, Whole, Sound, Rows
<1>4. PICK n \in 0..MaxLog : n = Seen'.upto
  BY <1>2
<1>5. PICK d \in Definitions : d = Seen'.def
  OBVIOUS
<1>6. Seen' = [def |-> d, upto |-> n, handled |-> Rows(log, d, n)]
  BY <1>1, <1>3, <1>4, <1>5 DEF Model
<1>7. Seen' = View!Projected(log, d, n)
  BY <1>6 DEF View!Projected, View!Rows, View!Positions, Rows, Positions
<1>8. View!Extended(d, n)
  BY <1>2, <1>3, <1>4, <1>7 DEF View!Extended
<1>9. QED BY <1>8

\* What a step that is no swap makes of a model that is not covered.
LEMMA ViewTail ==
    ASSUME TypeOK, TypeOK', Inv, Inv', UNCHANGED <<log, format, stranded>>,
           pc # "sweep", pc' # "sweep",
           ~stranded => Seen' = Seen \/ (Seen.upto <= Seen'.upto /\ Seen'.def \in Definitions)
    PROVE  View!Next \/ Unseen
<1>1. CASE stranded
  BY <1>1, ViewStates DEF Unseen, ViewState, Seen
<1>2. CASE ~stranded /\ Seen' = Seen
  BY <1>2 DEF Unseen, ViewState, Mixed, Unswept, At
<1>3. CASE ~stranded /\ Seen' # Seen
  <2>1. PICK d \in Definitions : \E n \in 0..MaxLog : View!Extended(d, n)
    BY <1>3, ViewExtends
  <2>2. PICK n \in 0..MaxLog : View!Extended(d, n)
    BY <2>1
  <2>3. ViewState = "whole" /\ ViewState' = "whole"
    BY <1>3 DEF ViewState, Mixed, Unswept, At
  <2>4. View!Advance(d, n)
    BY <2>2, <2>3 DEF View!Advance
  <2>5. QED BY <2>4 DEF View!Next
<1>4. QED BY <1>1, <1>2, <1>3

\* The thread or the process ends: a model that was covered is lost.
LEMMA ViewEnds ==
    ASSUME UNCHANGED <<log, format>>, stranded' = Mixed, pc' # "sweep",
           ~stranded' => Seen' = Seen
    PROVE  View!Next \/ Unseen
<1> USE DEF ViewState, Mixed, Unswept, At
<1>1. CASE stranded
  BY <1>1 DEF Unseen, Seen
<1>2. CASE ~stranded /\ Unswept
  <2>1. ViewState = "covered" /\ ViewState' = "lost" /\ Seen' = View!Blank
    BY <1>2 DEF Seen, Blank, View!Blank, Positions, View!Positions
  <2>2. View!Lose
    BY <2>1 DEF View!Lose
  <2>3. QED BY <2>2 DEF View!Next
<1>3. CASE ~stranded /\ ~Unswept
  BY <1>3 DEF Unseen
<1>4. QED BY <1>1, <1>2, <1>3

LEMMA ViewThread ==
    ASSUME TypeOK, Inv, Inv', TypeOK', Thread
    PROVE  View!Next \/ Unseen
<1> USE Facts
<1>0. log' = log /\ def' = def /\ format' = format
  BY DEF Thread, Start, AdvanceCheckpoint, AdvancePosition, Leave, ClearRunning, ApplyBatch,
         BatchFails, BuildBatch, BeginRebuild, Seal, Rename, RemoveSidecars, Reopen,
         RebuildDone, RebuildFails, Degrade, Restore, DegradeFails
<1>1. CASE Start
  <2>1. stranded' = stranded /\ pc = "start" /\ pc' = "loop"
    BY <1>1 DEF Start, At
  <2>2. ASSUME ~stranded
        PROVE  Seen.upto <= Seen'.upto /\ Seen'.def \in Definitions
    <3>1. Seen = Live /\ Seen' = Live'
      BY <2>1, <2>2 DEF Seen, At
    <3>2. Seen'.def \in Definitions
      BY <2>1, <2>2 DEF Inv, Whole, HandleTrue, Up, At
    <3>3. sub' = Live.upto /\ sub' = Live'.upto
      BY <1>1, <2>1 DEF Start, Inv, Bounds, TailTrue
    <3>4. QED BY <3>1, <3>2, <3>3
  <2>3. QED BY <1>0, <2>1, <2>2, ViewTail
<1>2. ASSUME NEW to \in Positions, ApplyBatch(to)
      PROVE  View!Next \/ Unseen
  <2>1. stranded' = stranded /\ pc = "loop" /\ pc' = "publish" /\ sub' = to
        /\ to \in (sub + 1)..Len(log)
    BY <1>2 DEF ApplyBatch, Tailing, BatchEnds, At
  <2>2. Live'.upto = to /\ sub = Live.upto
    BY <2>1 DEF Inv, Bounds, TailTrue
  <2>3. ASSUME ~stranded
        PROVE  Seen.upto <= Seen'.upto /\ Seen'.def \in Definitions
    <3>1. Seen = Live /\ Seen' = Live'
      BY <2>1, <2>3 DEF Seen, At
    <3>2. Seen'.def \in Definitions
      BY <2>1, <2>3 DEF Inv, Whole, HandleTrue, Up, At
    <3>3. QED BY <2>1, <2>2, <3>1, <3>2
  <2>4. QED BY <1>0, <2>1, <2>3, ViewTail
<1>3. CASE AdvanceCheckpoint
  <2>1. stranded' = stranded /\ pc = "loop" /\ pc' = "publish" /\ sub' = Len(log)
    BY <1>3 DEF AdvanceCheckpoint, Tailing, At
  <2>2. Live'.upto = Len(log)
    BY <2>1 DEF Inv, Bounds, TailTrue
  <2>3. ASSUME ~stranded
        PROVE  Seen.upto <= Seen'.upto /\ Seen'.def \in Definitions
    <3>1. Seen = Live /\ Seen' = Live'
      BY <2>1, <2>3 DEF Seen, At
    <3>2. Seen'.def \in Definitions
      BY <2>1, <2>3 DEF Inv, Whole, HandleTrue, Up, At
    <3>3. QED BY <2>2, <3>1, <3>2
  <2>4. QED BY <1>0, <2>1, <2>3, ViewTail
<1>4. CASE Rename
  <2>1. At("swap") /\ pc' = "sweep" /\ main' = fresh /\ ~stranded'
    BY <1>4 DEF Rename
  <2>2. Seen' = fresh /\ fresh.def = def
    BY <2>1 DEF Seen, At, Inv, Bounds, FreshTrue
  <2>3. Seen.upto <= fresh.upto
    <3>1. CASE stranded
      BY <3>1 DEF Seen, Blank
    <3>2. CASE ~stranded
      BY <2>1, <3>2 DEF Inv, Whole, HandleTrue
    <3>3. QED BY <3>1, <3>2
  <2>4. PICK d \in Definitions : \E n \in 0..MaxLog : View!Extended(d, n)
    BY <1>0, <2>1, <2>2, <2>3, ViewExtends
  <2>5. PICK n \in 0..MaxLog : View!Extended(d, n)
    BY <2>4
  <2>6. ViewState' \in {"whole", "covered"}
    BY <2>1 DEF ViewState, Mixed
  <2>7. View!Swap(d, n)
    BY <2>5, <2>6 DEF View!Swap
  <2>8. QED BY <2>7 DEF View!Next
<1>5. CASE RemoveSidecars
  <2>1. Seen' = Seen /\ ~stranded /\ ~stranded' /\ pc' = "reopen"
    BY <1>5, InvRemoveSidecars DEF RemoveSidecars, Inv, Bounds, FreshTrue, At
  <2>2. ViewState' = "whole"
    BY <2>1 DEF ViewState, Mixed, Unswept, At
  <2>3. CASE Unswept
    <3>1. View!Uncover
      BY <1>0, <2>1, <2>2, <2>3, ViewStates DEF View!Uncover
    <3>2. QED BY <3>1 DEF View!Next
  <2>4. CASE ~Unswept
    BY <1>0, <2>1, <2>2, <2>4, ViewStates DEF Unseen
  <2>5. QED BY <2>3, <2>4
<1>6. CASE RebuildFails
  <2>1. stranded' = Mixed /\ pc' = "degrade"
    BY <1>6 DEF RebuildFails
  <2>2. QED BY <1>0, <1>6, <2>1, InvRebuildFails, ViewEnds
\* The other steps leave the model alone.
<1>7. ASSUME \/ Leave \/ Seal \/ AdvancePosition \/ ClearRunning \/ BeginRebuild \/ Reopen
             \/ RebuildDone \/ Degrade \/ Restore \/ DegradeFails
             \/ \E to \in Positions : BatchFails(to) \/ BuildBatch(to)
      PROVE  View!Next \/ Unseen
  <2>1. Live' = Live /\ stranded' = stranded /\ pc # "sweep" /\ pc' # "sweep"
    BY <1>7, CloseKeeps, LiveKept DEF Leave, Seal, AdvancePosition, ClearRunning, BeginRebuild,
       Reopen, RebuildDone, Degrade, Restore, DegradeFails, BatchFails, BuildBatch, Tailing, At
  <2>2. Seen' = Seen
    BY <2>1 DEF Seen, At
  <2>3. QED BY <1>0, <2>1, <2>2, ViewTail
<1>8. QED
  BY <1>1, <1>2, <1>3, <1>4, <1>5, <1>6, <1>7 DEF Thread

LEMMA ViewEnvironment ==
    ASSUME TypeOK, Inv, Inv', TypeOK', Environment
    PROVE  View!Next \/ Unseen
<1>1. ASSUME NEW k \in Kinds, AppendEvent(k)
      PROVE  View!Next \/ Unseen
  <2>1. UNCHANGED <<Seen, ViewState, format>>
    BY <1>1, LiveKept DEF AppendEvent, Seen, ViewState, Mixed, Unswept, At
  <2>2. View!Grow(k)
    BY <1>1, <2>1 DEF AppendEvent, View!Grow
  <2>3. QED BY <2>2 DEF View!Next
<1>2. ASSUME NEW d \in Definitions, NEW auto \in BOOLEAN, NEW f \in Formats, Spawn(d, auto, f)
      PROVE  View!Next \/ Unseen
  <2>1. log' = log /\ pc = "down" /\ pc' = "start"
    BY <1>2 DEF Spawn, At
  <2>2. CASE f = format
    <3>1. Live' = Live /\ stranded' = stranded /\ format' = format
      BY <1>2, <2>2, LiveKept DEF Spawn, Reformat
    <3>2. QED BY <2>1, <3>1 DEF Unseen, Seen, ViewState, Mixed, Unswept, At
  <2>3. CASE f # format
    <3>1. Commit(Blank, Pages) /\ format' = f /\ ~stranded'
      BY <1>2, <2>3 DEF Spawn, Reformat
    <3>2. Live'.def = Blank.def /\ Live'.upto = Blank.upto /\ Live'.handled = Blank.handled
      BY <3>1, BlankType, CommitLive
    <3>3. Live' = [def |-> Live'.def, upto |-> Live'.upto, handled |-> Live'.handled]
      BY DEF Live
    <3>4. Seen' = View!Blank /\ ViewState' = "whole"
      BY <2>1, <3>1, <3>2, <3>3 DEF Seen, ViewState, Mixed, Unswept, At, Blank, View!Blank,
                                    Positions, View!Positions
    <3>5. View!Reformat(f)
      BY <2>1, <2>3, <3>1, <3>4 DEF View!Reformat
    <3>6. QED BY <3>5 DEF View!Next
  <2>4. QED BY <2>2, <2>3
<1>3. CASE Crash
  <2>1. log' = log /\ format' = format /\ stranded' = Mixed /\ pc' = "down" /\ Live' = Live
    BY <1>3, LiveKept DEF Crash
  <2>2. ~stranded' => Seen' = Seen
    BY <1>3, <2>1 DEF Crash, Seen, Live, Mixed, Unswept, At, TypeOK, Model
  <2>3. QED BY <2>1, <2>2, ViewEnds
<1>4. CASE RequestReplay \/ Stop
  BY <1>4, LiveKept DEF RequestReplay, Stop, Unseen, Seen, ViewState, Mixed, Unswept, At
<1>5. QED BY <1>1, <1>2, <1>3, <1>4 DEF Environment

\* What a connection sees of the live model is one definition's view of a
\* prefix of the log that only grows, until a binary of another format empties
\* it or a swap is left half done beside a WAL.
THEOREM ProjectorView == Spec => ImplementsView
<1>1. Init => View!Init
  BY DEF Init, View!Init, Seen, ViewState, Mixed, Unswept, At, Live, Blank, View!Blank,
         Positions, View!Positions
<1>2. ASSUME TypeOK /\ Inv, (TypeOK /\ Inv)', [Next]_vars
      PROVE  [View!Next]_<<log, Seen, ViewState, format>>
  <2>1. CASE Read \/ UNCHANGED vars
    BY <2>1, LiveKept DEF Read, ResolveEntity, HonorWait, NotCaughtUp, Snapshot, Respond, vars,
       Seen, ViewState, Mixed, Unswept, At
  <2>2. QED BY <1>2, <2>1, ViewThread, ViewEnvironment DEF Next, Unseen
<1>3. Spec => [](TypeOK /\ Inv)
  BY ProjectorInv
<1>4. QED BY <1>1, <1>2, <1>3, PTL DEF Spec, ImplementsView, View!Spec

=============================================================================
