------------------------------- MODULE Backup -------------------------------
(***************************************************************************)
(* `hekla backup`: a data directory copied while a server writes it, into  *)
(* a target that the next run updates in place and that a restore serves   *)
(* from.  The log is copied first, a segment file at a time; the           *)
(* operational database is snapshotted after it and lowered to the head of *)
(* the log it is paired with; the manifest says when the two agree.  A run *)
(* may die between any two steps.                                          *)
(*                                                                         *)
(* A segment file is the sequence of events under its base position, and   *)
(* its extent the bytes they take; the operational database is its subject *)
(* keys, the invocations that are terminal and one effect's mark.  What is *)
(* left out: the index files, which an open rebuilds, and the torn tail an *)
(* open discards.                                                          *)
(***************************************************************************)
EXTENDS Integers, Sequences, FiniteSets, FiniteSetsExt

CONSTANTS
    Secrets,       \* subject keys
    NoSecret,      \* the secret of an event with nothing sealed
    SegmentBytes,  \* a segment this long is sealed
    SourceSize,    \* bytes of an event appended to the source
    RestoredSize,  \* bytes of an event appended by a server on the target
    Lead,          \* bound: how far past the mark an invocation may finish
    MaxEvents,     \* bound: events appended to the source
    MaxRestored,   \* bound: how far past those the target's log may reach
    MaxRuns,       \* bound: backups begun
    MaxServes      \* bound: servers started on the target

ASSUME BackupAssumption ==
    /\ NoSecret \notin Secrets
    /\ {SegmentBytes, SourceSize, RestoredSize, Lead} \subseteq Nat \ {0}
    /\ {MaxEvents, MaxRestored, MaxRuns, MaxServes} \subseteq Nat

VARIABLES
    \* The source: its log and its hekla.db.
    log, db,
    \* The target: its log, its hekla.db, what is staged beside it and its manifest, and
    \* the events its read models and its tables.db were built from.
    copy, copyDb, staged, manifest, models, tables,
    \* The process on the target, if any, and where a backup is.
    lock, run,
    \* History: the secrets erased, those that were when the last run to finish began,
    \* and whether the target was served from since.
    erased, carried, served,
    \* What the bounds count.
    runs, serves

source == <<log, db>>
derived == <<models, tables>>
target == <<copy, copyDb, staged, manifest, models, tables>>
history == <<erased, carried, served>>
counts == <<runs, serves>>
vars == <<log, db, copy, copyDb, staged, manifest, models, tables, lock, run,
          erased, carried, served, runs, serves>>

MaxPosition == MaxEvents + MaxRestored
Positions == 1..MaxPosition

\* An event is what its position and its writer make it: the source, or one of the
\* servers started on the target.
Writers == 0..MaxServes
Source == 0
Event == [by : Writers, secret : Secrets \cup {NoSecret}]

\* hekla.db; a terminal row also remembers, as history, who wrote the event.
Database == [keys : SUBSET Secrets, terminal : SUBSET (Positions \X Writers),
             mark : 0..MaxPosition]
Fresh == [keys |-> {}, terminal |-> {}, mark |-> 0]
NoDatabase == [keys |-> {}, terminal |-> {}, mark |-> MaxPosition + 1]

-----------------------------------------------------------------------------
\* A log directory: base position -> the events of the segment.

Own(events) == {i \in DOMAIN events : events[i].by = Source}
Bytes(events) == SourceSize * Cardinality(Own(events))
                   + RestoredSize * Cardinality(DOMAIN events \ Own(events))
Active(files) == Max(DOMAIN files)
NextPosition(files) == Active(files) + Len(files[Active(files)])
Holds(files, b, p) == b <= p /\ p < b + Len(files[b])
Present(files, p) == \E b \in DOMAIN files : Holds(files, b, p)
EventAt(files, p) ==
    LET b == Max({c \in DOMAIN files : Holds(files, c, p)}) IN files[b][p - b + 1]

\* log_head: how far the segments reach without a gap.
LogHead(files) == Max({0} \cup {h \in Positions : \A p \in 1..h : Present(files, p)})

\* An append goes to the active segment, or to a new one when that is full.
Appended(files, e) ==
    LET b == Active(files)
        c == NextPosition(files)
    IN  IF Bytes(files[b]) >= SegmentBytes
        THEN [d \in DOMAIN files \cup {c} |-> IF d = c THEN <<e>> ELSE files[d]]
        ELSE [files EXCEPT ![b] = Append(@, e)]

NoFiles == [b \in {} |-> <<>>]
FirstSegment == [b \in {1} |-> <<>>]
Idle == [pc |-> "idle", before |-> 0, gone |-> {}, listed |-> {}, plan |-> NoFiles]

Init ==
    /\ log = FirstSegment /\ db = Fresh
    /\ copy = NoFiles /\ copyDb = NoDatabase /\ staged = NoDatabase /\ manifest = "none"
    /\ models = <<>> /\ tables = <<>>
    /\ lock = "free" /\ run = Idle
    /\ erased = {} /\ carried = {} /\ served = FALSE
    /\ runs = 0 /\ serves = 0

-----------------------------------------------------------------------------
\* The source's server.  A key is committed before an event is sealed under it.

Mint(s) ==
    /\ s \notin db.keys \cup erased
    /\ db' = [db EXCEPT !.keys = @ \cup {s}]
    /\ UNCHANGED <<log, target, lock, run, history, counts>>

AppendEvent(s) ==
    /\ NextPosition(log) <= MaxEvents
    /\ s \in db.keys \cup erased \cup {NoSecret}
    /\ log' = Appended(log, [by |-> Source, secret |-> s])
    /\ UNCHANGED <<db, target, lock, run, history, counts>>

EraseKey(s) ==
    /\ s \in db.keys
    /\ db' = [db EXCEPT !.keys = @ \ {s}]
    /\ erased' = erased \cup {s}
    /\ UNCHANGED <<log, target, lock, run, carried, served, counts>>

\* An invocation becomes terminal unless it is already, and the mark follows.
Settled(d, files, p) ==
    IF \E w \in Writers : <<p, w>> \in d.terminal THEN d
    ELSE [d EXCEPT !.terminal = @ \cup {<<p, EventAt(files, p).by>>}]
Follows(d) == \E w \in Writers : <<d.mark + 1, w>> \in d.terminal

RunEffect(p) ==
    /\ p <= LogHead(log) /\ p \in db.mark + 1..db.mark + Lead
    /\ db' = Settled(db, log, p) /\ db' # db
    /\ UNCHANGED <<log, target, lock, run, history, counts>>

AdvanceMark ==
    /\ Follows(db)
    /\ db' = [db EXCEPT !.mark = @ + 1]
    /\ UNCHANGED <<log, target, lock, run, history, counts>>

-----------------------------------------------------------------------------
\* backup::run.

Go(pc) == run' = [run EXCEPT !.pc = pc]

\* Under the target's lock: a target ahead of its source is refused, what a dead run
\* staged is swept, and the manifest says that this is not a backup for now.
Begin ==
    /\ lock = "free" /\ runs < MaxRuns
    /\ LogHead(copy) <= LogHead(log)
    /\ lock' = "backup" /\ runs' = runs + 1
    /\ run' = [Idle EXCEPT !.pc = "list", !.before = LogHead(log), !.gone = erased]
    /\ staged' = NoDatabase /\ manifest' = "partial"
    /\ UNCHANGED <<source, derived, copy, copyDb, history, serves>>

\* copy_log: the source's files are listed,
List ==
    /\ run.pc = "list"
    /\ run' = [run EXCEPT !.pc = "plan", !.listed = DOMAIN log]
    /\ UNCHANGED <<source, target, lock, history, counts>>

\* Mutant: a file of the right name is a copy, for every one has the same length.
ReusedByLength(b) == b # Max(run.listed) /\ b \in DOMAIN copy

\* A copy is kept if it is of a sealed file and has its extent.
Reused(b) ==
    /\ b # Max(run.listed)
    /\ b \in DOMAIN copy /\ Bytes(copy[b]) = Bytes(log[b])

\* measured and compared, and what the source does not have is removed from the target.
Plan ==
    /\ run.pc = "plan"
    /\ run' = [run EXCEPT !.pc = "copy",
                          !.plan = [b \in {c \in run.listed : ~Reused(c)} |-> log[b]]]
    /\ copy' = [b \in DOMAIN copy \cap run.listed |-> copy[b]]
    /\ UNCHANGED <<source, derived, copyDb, staged, manifest, lock, history, counts>>

\* The files are copied in the order of their names, as far as they were measured.
CopyFile ==
    /\ run.pc = "copy"
    /\ IF DOMAIN run.plan = {}
       THEN Go("snapshot") /\ UNCHANGED copy
       ELSE LET b == Min(DOMAIN run.plan)
            IN  /\ copy' = [c \in DOMAIN copy \cup {b} |-> IF c = b THEN run.plan[b] ELSE copy[c]]
                /\ run' = [run EXCEPT !.plan = [c \in DOMAIN @ \ {b} |-> @[c]]]
    /\ UNCHANGED <<source, derived, copyDb, staged, manifest, lock, history, counts>>

\* Mutant: the key store is topped up instead of replaced.
SnapshotOnto ==
    /\ run.pc = "snapshot" /\ Go("clamp")
    /\ staged' = [db EXCEPT !.keys = @ \cup copyDb.keys]
    /\ UNCHANGED <<source, derived, copy, copyDb, manifest, lock, history, counts>>

\* snapshot_state: one committed moment of the source's hekla.db.
Snapshot ==
    /\ run.pc = "snapshot" /\ Go("clamp")
    /\ staged' = db
    /\ UNCHANGED <<source, derived, copy, copyDb, manifest, lock, history, counts>>

\* Mutant: the mark is lowered and the rows are left.
LoweredMark(d, h) == [d EXCEPT !.mark = Min({@, h})]

\* clamp_to_log: rows above the head go, and a mark above it comes down to it.
Lowered(d, h) ==
    [d EXCEPT !.terminal = {r \in @ : r[1] <= h}, !.mark = Min({@, h})]

\* The copied log must reach what was committed when the run began.  A restore builds
\* its read models anew.
Clamp ==
    /\ run.pc = "clamp"
    /\ IF LogHead(copy) >= run.before
       THEN /\ Go("install") /\ UNCHANGED lock
            /\ models' = <<>> /\ staged' = Lowered(staged, LogHead(copy))
       ELSE run' = Idle /\ lock' = "free" /\ UNCHANGED <<models, staged>>
    /\ UNCHANGED <<source, copy, copyDb, manifest, tables, history, counts>>

Install ==
    /\ run.pc = "install" /\ Go("finish")
    /\ copyDb' = staged /\ staged' = NoDatabase
    /\ UNCHANGED <<source, derived, copy, manifest, lock, history, counts>>

Finish ==
    /\ run.pc = "finish"
    /\ manifest' = "complete" /\ lock' = "free" /\ run' = Idle
    /\ carried' = run.gone /\ served' = FALSE
    /\ UNCHANGED <<source, derived, copy, copyDb, staged, erased, counts>>

\* Mutant: the lock is a file that a dead run leaves behind.
CrashLocked ==
    /\ lock = "backup"
    /\ run' = Idle
    /\ UNCHANGED <<source, target, lock, history, counts>>

\* The run dies: the lock goes with it and what it wrote stays.
Crash ==
    /\ lock = "backup"
    /\ lock' = "free" /\ run' = Idle
    /\ UNCHANGED <<source, target, history, counts>>

-----------------------------------------------------------------------------
\* A restore: a server on the target, which appends to it and runs its effects.

Serve ==
    /\ lock = "free" /\ serves < MaxServes /\ copy # NoFiles
    /\ lock' = "server" /\ serves' = serves + 1 /\ served' = TRUE
    /\ copyDb' = IF copyDb = NoDatabase THEN Fresh ELSE copyDb
    /\ UNCHANGED <<source, derived, copy, staged, manifest, run, erased, carried, runs>>

AppendRestored ==
    /\ lock = "server"
    /\ NextPosition(copy) <= MaxPosition
    /\ copy' = Appended(copy, [by |-> serves, secret |-> NoSecret])
    /\ UNCHANGED <<source, derived, copyDb, staged, manifest, lock, run, history, counts>>

RunRestored(p) ==
    /\ lock = "server" /\ p <= LogHead(copy) /\ p \in copyDb.mark + 1..copyDb.mark + Lead
    /\ copyDb' = Settled(copyDb, copy, p) /\ copyDb' # copyDb
    /\ UNCHANGED <<source, derived, copy, staged, manifest, lock, run, history, counts>>

AdvanceRestored ==
    /\ lock = "server" /\ Follows(copyDb)
    /\ copyDb' = [copyDb EXCEPT !.mark = @ + 1]
    /\ UNCHANGED <<source, derived, copy, staged, manifest, lock, run, history, counts>>

\* The projectors and the derived tables follow the log from where they were.
Followed(events) ==
    events \o [i \in 1..LogHead(copy) - Len(events) |-> EventAt(copy, Len(events) + i)]

Follow ==
    /\ lock = "server"
    /\ models' = Followed(models) /\ tables' = Followed(tables)
    /\ derived' # derived
    /\ UNCHANGED <<source, copy, copyDb, staged, manifest, lock, run, history, counts>>

StopServing ==
    /\ lock = "server" /\ lock' = "free"
    /\ UNCHANGED <<source, target, run, history, counts>>

-----------------------------------------------------------------------------
Next ==
    \/ \E s \in Secrets : Mint(s) \/ EraseKey(s)
    \/ \E s \in Secrets \cup {NoSecret} : AppendEvent(s)
    \/ \E p \in Positions : RunEffect(p) \/ RunRestored(p)
    \/ AdvanceMark \/ AdvanceRestored
    \/ Begin \/ List \/ Plan \/ CopyFile \/ Snapshot \/ Clamp \/ Install
    \/ Finish \/ Crash
    \/ Serve \/ AppendRestored \/ Follow \/ StopServing

Spec == Init /\ [][Next]_vars
=============================================================================
