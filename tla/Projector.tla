------------------------------ MODULE Projector ------------------------------
(***************************************************************************)
(* One projector: the thread that keeps a read model at the head of the    *)
(* log, the replays that build the model again beside the live one and     *)
(* swap it in by rename, the handle it shares with the read API, and the   *)
(* reads that wait for a position.                                         *)
(*                                                                         *)
(* The live model is a SQLite database in WAL mode: a main file, and a WAL *)
(* that holds the pages committed since the database was last closed by    *)
(* its only connection.  A model has three pages: its definition, its      *)
(* checkpoint and its rows.  What a connection sees of a page is the WAL's *)
(* copy when there is one, whichever main file the WAL lies beside.  A     *)
(* read that holds its connection while the projector closes its own leaves *)
(* WAL behind, so that between the rename of a swap and the removal of the *)
(* side files the new main file lies beside the old one's WAL (Mixed).     *)
(***************************************************************************)
EXTENDS ReadModels, FiniteSets

CONSTANTS
  Fails,        \* the event types a definition's handler fails on
  Readers,      \* requests of the read API
  Formats,      \* the ways binaries store a model's cells (FORMAT)
  BatchCap,     \* how many events a poll returns at most
  MaxBoots,     \* bound: how often the process starts
  MaxReplays,   \* bound: how many replays are requested
  MaxFaults     \* bound: how often the file system fails a rebuild

ASSUME ProjectorAssumption ==
  /\ Fails \in [Definitions -> SUBSET Kinds]
  /\ Formats \subseteq Nat \ {0}
  /\ BatchCap \in Nat \ {0}
  /\ MaxBoots \in Nat /\ MaxReplays \in Nat /\ MaxFaults \in Nat

VARIABLES
  log,        \* the event types appended, in order
  main,       \* the live model's main file
  wal,        \* the last committed copy of each page
  frames,     \* the pages the WAL holds
  format,     \* how the model on disk stores its cells (PRAGMA user_version)
  stranded,   \* history: a thread ended between a rename and the removal of a
              \* WAL that was left, and no swap or reformat followed
  fresh,      \* the sibling file a rebuild writes
  pc,         \* where the projector's thread is
  def,        \* the definition this process was started with
  sub,        \* the position of the thread's subscription
  position,   \* ProjectorShared: the published checkpoint
  readiness,  \* ProjectorShared: whether the model may be read and extended
  replay,     \* ProjectorShared: a replay is asked for
  shutdown,   \* ProjectorShared: the thread is asked to stop
  owed,       \* a replay was accepted and no rebuild has begun since
  reader,     \* where each read is
  after,      \* the position each read waits for
  boots, replays, faults  \* what is left of the bounds

files == <<main, wal, frames>>
disk == <<files, fresh, format, stranded>>
shared == <<position, readiness, replay, shutdown, owed>>
reads == <<reader, after>>
bounds == <<boots, replays, faults>>
vars == <<log, disk, pc, def, sub, shared, reads, bounds>>

Pages == {"def", "upto", "handled"}

\* What a connection opened now sees.
Live == [def |-> IF "def" \in frames THEN wal.def ELSE main.def,
         upto |-> IF "upto" \in frames THEN wal.upto ELSE main.upto,
         handled |-> IF "handled" \in frames THEN wal.handled ELSE main.handled]

\* The thread is alive; the process is up.
Running == pc \notin {"down", "stopped"}
Up == pc # "down"

At(place) == pc = place

\* The WAL beside the main file was left by the model before it.
Unswept == At("sweep") /\ frames # {}
Mixed == stranded \/ Unswept

-----------------------------------------------------------------------------
(* The database.                                                           *)

\* A transaction that leaves the live model as `model`, writing some pages.
Commit(model, pages) ==
  /\ wal' = model
  /\ frames' = frames \cup pages
  /\ UNCHANGED main

\* A read is inside its transaction.
Open(r) == reader[r] = "reading"

\* The last connection to close folds the WAL into the main file and removes
\* it; any other leaves it.
CloseLive ==
  IF \E r \in Readers : Open(r)
  THEN UNCHANGED files
  ELSE /\ main' = Live
       /\ wal' = Blank
       /\ frames' = {}

\* The events past `from` and up to `to` that the subscription delivers.
Selected(from, to) == {p \in (from + 1)..to : log[p] \in Selects[def]}

CaughtUp(from) == Selected(from, Len(log)) = {}

\* Where the poll of a subscription at `from` may leave it.
BatchEnds(from) ==
  {to \in (from + 1)..Len(log) : Cardinality(Selected(from, to)) \in 1..BatchCap}

Poisoned(from, to) == \E p \in Selected(from, to) : log[p] \in Fails[def]

\* A model after the handlers of one batch, with the checkpoint that commits
\* with their rows.
Applied(model, from, to) ==
  [model EXCEPT
     !.upto = to,
     !.handled = [p \in Positions |-> IF p \in Selected(from, to)
                                      THEN Append(model.handled[p], def)
                                      ELSE model.handled[p]]]

-----------------------------------------------------------------------------
(* Boot.                                                                   *)

\* What the recorded definition and checkpoint ask for.
Reconcile(model, d, auto) ==
  IF model.def = d THEN "upToDate"
  ELSE IF model.def = NoDefinition /\ model.upto = 0 THEN "stamp"
  ELSE IF auto THEN "rebuild" ELSE "stale"

ReadinessOf(plan) ==
  CASE plan \in {"upToDate", "stamp"} -> "ready"
    [] plan = "rebuild" -> "rebuilding"
    [] plan = "stale" -> "stale"

\* A model of another definition is extended all the same.
AppliesUnlessFailed == readiness \in {"ready", "rebuilding", "stale"}

AppliesBatches == readiness \in {"ready", "rebuilding"}

Init ==
  /\ log = <<>>
  /\ main = Blank /\ wal = Blank /\ frames = {} /\ fresh = Blank
  /\ format = 0 /\ stranded = FALSE
  /\ pc = "down"
  /\ def \in Definitions
  /\ sub = 0 /\ position = 0 /\ readiness = "ready"
  /\ replay = FALSE /\ shutdown = FALSE /\ owed = FALSE
  /\ reader = [r \in Readers |-> "idle"]
  /\ after = [r \in Readers |-> 0]
  /\ boots = MaxBoots /\ replays = MaxReplays /\ faults = MaxFaults

AppendEvent(k) ==
  /\ Len(log) < MaxLog
  /\ log' = Append(log, k)
  /\ UNCHANGED <<disk, pc, def, sub, shared, reads, bounds>>

\* Opening a model that is stored in another format than the binary's drops
\* its tables, the checkpoint and the definition with them.
Reformatted(f) == IF f = format THEN Live ELSE Blank

Reformat(f) ==
  /\ format' = f
  /\ IF f = format
     THEN UNCHANGED <<files, stranded>>
     ELSE /\ Commit(Blank, Pages)
          /\ stranded' = FALSE

\* The process starts with a definition and a format: the model is opened, and
\* the handle is published with its checkpoint and with what it may be read
\* as, before the thread runs.
Spawn(d, auto, f) ==
  /\ At("down") /\ boots > 0
  /\ boots' = boots - 1
  /\ Reformat(f)
  /\ def' = d
  /\ position' = Reformatted(f).upto
  /\ readiness' = ReadinessOf(Reconcile(Reformatted(f), d, auto))
  /\ pc' = "start"
  /\ UNCHANGED <<log, fresh, sub, replay, shutdown, owed, reads, replays, faults>>

\* The process dies, or exits once its thread has stopped.  Its memory and
\* its reads are gone, and what was not committed.
Crash ==
  /\ Up
  /\ pc' = "down"
  /\ sub' = 0 /\ position' = 0 /\ readiness' = "ready"
  /\ replay' = FALSE /\ shutdown' = FALSE /\ owed' = FALSE
  /\ reader' = [r \in Readers |-> "idle"]
  /\ after' = [r \in Readers |-> 0]
  /\ stranded' = Mixed
  /\ UNCHANGED <<log, files, fresh, format, def, bounds>>

\* The thread acts on the plan and subscribes from the checkpoint.
Start ==
  /\ At("start") /\ readiness # "rebuilding"
  /\ IF readiness = "ready" /\ Live.def = NoDefinition
     THEN Commit([Live EXCEPT !.def = def], {"def"})
     ELSE UNCHANGED files
  /\ sub' = Live.upto
  /\ pc' = "loop"
  /\ UNCHANGED <<log, fresh, format, stranded, def, shared, reads, bounds>>

-----------------------------------------------------------------------------
(* Tailing.                                                                *)

Tailing == At("loop") /\ ~replay /\ AppliesBatches

\* A batch's rows and its checkpoint commit together.
ApplyBatch(to) ==
  /\ Tailing
  /\ to \in BatchEnds(sub) /\ ~Poisoned(sub, to)
  /\ Commit(Applied(Live, sub, to), {"upto", "handled"})
  /\ sub' = to
  /\ pc' = "publish"
  /\ UNCHANGED <<log, fresh, format, stranded, def, shared, reads, bounds>>

\* A handler fails: nothing of the batch commits and the thread stops.
BatchFails(to) ==
  /\ Tailing
  /\ to \in BatchEnds(sub) /\ Poisoned(sub, to)
  /\ CloseLive
  /\ pc' = "exit"
  /\ UNCHANGED <<log, fresh, format, stranded, def, sub, shared, reads, bounds>>

\* The watermark is kept and not published.
AdvanceCheckpointUnseen ==
  /\ Tailing /\ CaughtUp(sub)
  /\ Len(log) > position
  /\ Commit([Live EXCEPT !.upto = Len(log)], {"upto"})
  /\ sub' = Len(log)
  /\ UNCHANGED <<log, fresh, format, stranded, pc, def, shared, reads, bounds>>

\* Caught up: the checkpoint moves past the events nobody handles.
AdvanceCheckpoint ==
  /\ Tailing /\ CaughtUp(sub)
  /\ Len(log) > position
  /\ Commit([Live EXCEPT !.upto = Len(log)], {"upto"})
  /\ sub' = Len(log)
  /\ pc' = "publish"
  /\ UNCHANGED <<log, fresh, format, stranded, def, shared, reads, bounds>>

\* What has committed is published, unless it is behind what was.
AdvancePosition ==
  /\ At("publish")
  /\ IF sub < position
     THEN readiness' = "quarantined" /\ UNCHANGED position
     ELSE position' = sub /\ UNCHANGED readiness
  /\ pc' = "loop"
  /\ UNCHANGED <<log, disk, def, sub, replay, shutdown, owed, reads, bounds>>

\* The thread looks at the shutdown flag where it has nothing to apply: the
\* replay flag, which it looked at before, may have been raised since.
Leave ==
  /\ At("loop") /\ shutdown
  /\ AppliesBatches => CaughtUp(sub) /\ Len(log) <= position
  /\ CloseLive
  /\ pc' = "exit"
  /\ UNCHANGED <<log, fresh, format, stranded, def, sub, shared, reads, bounds>>

\* The last thing the thread does: from here on a replay is refused.
ClearRunning ==
  /\ At("exit")
  /\ pc' = "stopped"
  /\ UNCHANGED <<log, disk, def, sub, shared, reads, bounds>>

-----------------------------------------------------------------------------
(* Rebuild and swap.                                                       *)

\* The definition changed, or a replay is asked for: the sibling file of an
\* earlier attempt is removed and a new one opened.
BeginRebuild ==
  /\ \/ At("start") /\ readiness = "rebuilding" /\ UNCHANGED <<replay, owed>>
     \/ At("loop") /\ replay /\ replay' = FALSE /\ owed' = FALSE
  /\ fresh' = Blank
  /\ pc' = "build"
  /\ UNCHANGED <<log, files, format, stranded, def, sub, position, readiness, shutdown, reads, bounds>>

BuildBatch(to) ==
  /\ At("build")
  /\ to \in BatchEnds(fresh.upto) /\ ~Poisoned(fresh.upto, to)
  /\ fresh' = Applied(fresh, fresh.upto, to)
  /\ UNCHANGED <<log, files, format, stranded, pc, def, sub, shared, reads, bounds>>

\* The new model is at the head: it takes the watermark and the definition,
\* and both databases are closed.
Seal ==
  /\ At("build") /\ CaughtUp(fresh.upto)
  /\ fresh' = [fresh EXCEPT !.upto = Len(log), !.def = def]
  /\ CloseLive
  /\ pc' = "swap"
  /\ UNCHANGED <<log, format, stranded, def, sub, shared, reads, bounds>>

Rename ==
  /\ At("swap")
  /\ main' = fresh
  /\ fresh' = Blank
  /\ stranded' = FALSE
  /\ pc' = "sweep"
  /\ UNCHANGED <<log, wal, frames, format, def, sub, shared, reads, bounds>>

\* The WAL beside the new main file is left where it is.
RemoveSidecarsButWal ==
  /\ At("sweep")
  /\ pc' = "reopen"
  /\ UNCHANGED <<log, disk, def, sub, shared, reads, bounds>>

RemoveSidecars ==
  /\ At("sweep")
  /\ wal' = Blank
  /\ frames' = {}
  /\ pc' = "reopen"
  /\ UNCHANGED <<log, main, fresh, format, stranded, def, sub, shared, reads, bounds>>

\* The position published is the next to read.
ReopenAtNext ==
  /\ At("reopen")
  /\ position' = Live.upto + 1
  /\ pc' = "rebuilt"
  /\ UNCHANGED <<log, disk, def, sub, readiness, replay, shutdown, owed, reads, bounds>>

Reopen ==
  /\ At("reopen")
  /\ position' = Live.upto
  /\ pc' = "rebuilt"
  /\ UNCHANGED <<log, disk, def, sub, readiness, replay, shutdown, owed, reads, bounds>>

\* The thread goes on with the subscription it had.
RebuildDoneKeeping ==
  /\ At("rebuilt")
  /\ readiness' = "ready"
  /\ pc' = "loop"
  /\ UNCHANGED <<log, disk, def, sub, position, replay, shutdown, owed, reads, bounds>>

\* Whatever was asked for is taken as done.
RebuildDoneClearing ==
  /\ At("rebuilt")
  /\ readiness' = "ready"
  /\ replay' = FALSE
  /\ sub' = Live.upto
  /\ pc' = "loop"
  /\ UNCHANGED <<log, disk, def, position, shutdown, owed, reads, bounds>>

\* The rebuilt model is served, and the thread subscribes from its checkpoint.
RebuildDone ==
  /\ At("rebuilt")
  /\ readiness' = "ready"
  /\ sub' = Live.upto
  /\ pc' = "loop"
  /\ UNCHANGED <<log, disk, def, position, replay, shutdown, owed, reads, bounds>>

\* A step of the rebuild fails: on a handler, or on the file system.  The
\* live model is closed, if it was not yet.
RebuildFails ==
  /\ \/ /\ At("build")
        /\ \E to \in BatchEnds(fresh.upto) : Poisoned(fresh.upto, to)
        /\ UNCHANGED faults
     \/ /\ pc \in {"build", "swap", "sweep", "reopen"}
        /\ faults > 0
        /\ faults' = faults - 1
  /\ IF At("build") THEN CloseLive ELSE UNCHANGED files
  /\ stranded' = Mixed
  /\ readiness' = "failed"
  /\ pc' = "degrade"
  /\ UNCHANGED <<log, fresh, format, def, sub, position, replay, shutdown, owed, reads, boots, replays>>

\* Whatever survived on disk is opened, and served if it is current after all.
Degrade ==
  /\ At("degrade")
  /\ readiness' = IF Reconcile(Live, def, FALSE) # "stale" THEN "ready" ELSE readiness
  /\ pc' = "restore"
  /\ UNCHANGED <<log, disk, def, sub, position, replay, shutdown, owed, reads, bounds>>

Restore ==
  /\ At("restore")
  /\ position' = Live.upto
  /\ sub' = Live.upto
  /\ pc' = "loop"
  /\ UNCHANGED <<log, disk, def, readiness, replay, shutdown, owed, reads, bounds>>

\* Nothing can be opened: the thread stops.
DegradeFails ==
  /\ At("degrade") /\ faults > 0
  /\ faults' = faults - 1
  /\ pc' = "exit"
  /\ UNCHANGED <<log, disk, def, sub, shared, reads, boots, replays>>

-----------------------------------------------------------------------------
(* What others ask of the projector.                                       *)

\* A replay is accepted while the thread runs.
RequestReplay ==
  /\ Running /\ replays > 0
  /\ replays' = replays - 1
  /\ replay' = TRUE
  /\ owed' = TRUE
  /\ UNCHANGED <<log, disk, pc, def, sub, position, readiness, shutdown, reads, boots, faults>>

Stop ==
  /\ Up /\ ~shutdown
  /\ shutdown' = TRUE
  /\ UNCHANGED <<log, disk, pc, def, sub, position, readiness, replay, owed, reads, bounds>>

ReadIs(r, from, to) ==
  /\ Up
  /\ reader[r] = from
  /\ reader' = [reader EXCEPT ![r] = to]

\* A read of a model that may be served; `after` is zero when it asks for none.
ResolveEntity(r, a) ==
  /\ ReadIs(r, "idle", "waiting")
  /\ readiness = "ready"
  /\ a \in 0..Len(log)
  /\ after' = [after EXCEPT ![r] = a]
  /\ UNCHANGED <<log, disk, pc, def, sub, shared, bounds>>

HonorWait(r) ==
  /\ ReadIs(r, "waiting", "reached")
  /\ position >= after[r]
  /\ UNCHANGED <<log, disk, pc, def, sub, shared, after, bounds>>

NotCaughtUp(r) ==
  /\ ReadIs(r, "waiting", "idle")
  /\ position < after[r]
  /\ UNCHANGED <<log, disk, pc, def, sub, shared, after, bounds>>

\* The read opens the model and takes its snapshot.
Snapshot(r) ==
  /\ ReadIs(r, "reached", "reading")
  /\ UNCHANGED <<log, disk, pc, def, sub, shared, after, bounds>>

Respond(r) ==
  /\ ReadIs(r, "reading", "idle")
  /\ after' = [after EXCEPT ![r] = 0]
  /\ UNCHANGED <<log, disk, pc, def, sub, shared, bounds>>

-----------------------------------------------------------------------------

\* What the thread does by itself.
Thread ==
  \/ Start \/ AdvanceCheckpoint \/ AdvancePosition \/ Leave \/ ClearRunning
  \/ \E to \in Positions : ApplyBatch(to) \/ BatchFails(to) \/ BuildBatch(to)
  \/ BeginRebuild \/ Seal \/ Rename \/ RemoveSidecars \/ Reopen \/ RebuildDone
  \/ RebuildFails \/ Degrade \/ Restore \/ DegradeFails

\* Formats are numbered in the order in which binaries bring them.
Environment ==
  \/ \E k \in Kinds : AppendEvent(k)
  \/ \E d \in Definitions : \E auto \in BOOLEAN : \E f \in Formats :
       f <= format + 1 /\ Spawn(d, auto, f)
  \/ Crash \/ RequestReplay \/ Stop

Read ==
  \E r \in Readers :
    \/ \E a \in 0..MaxLog : ResolveEntity(r, a)
    \/ HonorWait(r) \/ NotCaughtUp(r) \/ Snapshot(r) \/ Respond(r)

Next == Thread \/ Environment \/ Read

Spec == Init /\ [][Next]_vars

\* The thread runs whenever it has something to do.
FairSpec == Spec /\ WF_vars(Thread)

=============================================================================
