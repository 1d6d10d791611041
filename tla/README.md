# hekla in TLA+

hekla runs a *project* (commands, projectors, effects and derived tables
written in heklang) over an append-only event log. This directory holds a
formal development of it: modules translated from the Rust source, TLC runs on
small instances, and theorems checked by TLAPS. `PROJECT.json` maps every
definition to the lines it stands for; this file says what the parts are, what
is claimed, on which assumptions, and what is still missing.

Run a check with `tlc -config effect_lanes.cfg MCEffectRuntime.tla` (the other
`.cfg` files likewise); check the proofs with `tlapm` on each of
`EffectProofs`, `EffectMarkProofs`, `LifecycleProofs`, `CommandProofs`,
`ProjectorProofs`, `SubjectKeysProofs`, `BackupProofs` and `TablesProofs`.

## 1. Inventory

Paths are under `src/src/`. "State" names what survives a step.

| Component | Where | State | Operations |
|---|---|---|---|
| Effect runtime | `effect.rs` | the subscription, `EffectShared` (position, skips, stuck lanes, quarantine flag), the `LanePool` queue | start, poll and admit a batch, publish the mark, re-subscribe after an error, run a lane, park it, skip, verify, quarantine, sweep, drain |
| Lane scheduling | `lanes.rs` | `LaneState`: queues, open groups, high-waters, places, in-flight set, scanned cursor, lane rows, recorded positions | admit, claim, head, complete, release, defer, promote, low_water, forget |
| Operational database | `opdb.rs` | `hekla.db`: effect_cursor, effect_invocation, effect_lane, effect_activation, effect_quarantine, effect_journal, subject_key, declarations | one transaction per operation |
| Invocation journal | `heklang_host.rs`, `effect.rs` | effect_journal rows, the in-memory call index, the current call's idempotency tag | journaled call (answer from the row, or perform and record), invoke a command, read |
| Command dispatch | `dispatch.rs`, `runtime.rs` | none of its own; the log | fold the boundary, decide, append under a condition, recover a committed outcome, retry on conflict |
| Projectors | `projector.rs`, `read_model.rs` | a SQLite file with a checkpoint, a rebuild beside it, readiness | apply a batch, rebuild and swap, replay on request, wait for a position |
| Derived tables | `fold_runtime.rs`, `fold_store.rs`, `fold_sink.rs`, `tables.rs` | columns with `built_to`, a checkpoint | apply a batch, follow, backfill, reconcile a new program |
| Key store | `crypto.rs`, `adopt.rs` | subject keys and their parents; wrapped key material | mint along a chain, erase, adopt, sweep orphans, rotate the master key |
| Backup | `backup.rs` | a target directory with a marker | copy the log, snapshot the state, clamp it to the copied head, finish |
| Data directory lock | `lock.rs` | an open exclusive transaction | take, hold, release with the process |
| Process | `runtime.rs`, `context.rs` | thread handles, the shutdown signal | start in order, the lane-scheme gate, drain in order |
| Project loading | `loader.rs`, `validate.rs`, `schema.rs` | the program | read, check; nothing runs meanwhile |
| Offline tools | `plan.rs`, `verify.rs`, `history.rs`, `projection.rs`, `invariant.rs`, `cli.rs` | none | read and compare; `rewind` writes one transaction |
| Service surface | `server.rs`, `http.rs`, `read_api.rs`, `table_read.rs`, `openapi.rs`, `ui.rs`, `introspect.rs`, `metrics.rs` | counters | route, read, serialise |
| Encodings | `lane.rs`, `tags.rs`, `envelope.rs`, `hash.rs` | none | pure functions |

How they meet:

- A command appends to the log under an append condition of the store; effects,
  projectors and derived tables each read the log through a subscription of
  their own and keep a position of their own. Nothing else orders them.
- One reader thread per effect admits events into its `LaneState` under a lock
  the workers share. Workers of a pool shared by all effects take lanes, not
  events. Both write `hekla.db` outside that lock.
- An invocation may invoke commands. It is made idempotent by a row per call
  (journal) and, for appends, by a tag in the log that an existence clause of
  the append condition checks.
- Keys live in `hekla.db`; erasing a subject removes a key the log's events
  still refer to. Reads of such events degrade, which projectors and effects
  see as unreadable fields (and the lane of an unreadable key is one of its
  own).
- A backup copies log and databases from a live process, in that order.

What is hard, and what makes each part correct:

- **Effect runtime.** Threads interleave on the lane state; a crash can fall
  between any two durable writes; a failed write may have landed; the
  subscription may deliver again what the surviving dispatcher holds.
  Correct when every answered event is settled, plain arms in order within
  their lane, `on latest` arms never going back to older state; when the mark
  never hides unsettled work; when lanes are exclusive and none is forgotten;
  and when one failing lane costs only its own events, as long as what waits
  behind its failure leaves the reader room to read on.
- **Journal.** A crash between an effect's append and its journal row. Correct
  when each call of an invocation takes effect at most once however often the
  invocation is replayed, and a replay sees the outcome of the first run.
- **Command dispatch.** Concurrent appends inside a decision's boundary, the
  same keyed request twice. Correct when every committed decision was taken
  from a state that includes everything its boundary matches, and a key commits
  once, with both callers told the same outcome.
- **Deploys and stops.** Lane rows outlive the program that wrote them, and
  a drain races the workers. Correct when a row hides nothing that was not
  run, a drained stop leaves nothing to be run again, and a stop ends.
- **Projectors.** Rebuild beside live reads, a crash between swap and cleanup,
  a replay asked for during a rebuild. Correct when a checkpoint names exactly
  what the file contains, a read that waited for p sees p, and a replay that was
  accepted happens.
- **Derived tables.** Columns at different positions after a deploy. Correct
  when a column at the checkpoint equals the fold of the log up to there, and
  no other column is served.
- **Keys.** Minting races erasure, adoption, rotation and the orphan sweep.
  Correct when what an erasure took never reads again, and nothing else is lost.
- **Backup.** A log copied before the state that refers to it, from a live
  source, over a target that may have lived. Correct when the copy is a prefix
  of one log, the state beside it speaks of that log alone, and an erasure that
  preceded the run is an erasure of the copy.

## 2. Plan

Modules, in the order of what depends on them:

| Specification | Abstract specification | Properties | Instance | Proofs |
|---|---|---|---|---|
| `LaneState`, `EffectRuntime` | `EffectDelivery` | `EffectSafety` | `MCEffectRuntime` | `EffectProofs`, `EffectMarkProofs` |
| `EffectLifecycle` | | `LifecycleSafety` | `MCLifecycle` | `LifecycleProofs` |
| `CommandLog`, `CommandDispatch`, `EffectJournal` | `SerialCommands` | `CommandSafety` | `MCCommands` | `CommandProofs` |
| `ReadModels`, `Projector` | `LogView` | `ProjectorSafety` | `MCProjector` | `ProjectorProofs` |
| `SubjectKeys` | | `SubjectKeysSafety` | `MCSubjectKeys` | `SubjectKeysProofs` |
| `DerivedTables` | | `TablesSafety` | `MCTables` | `TablesProofs` |
| `Backup` | | `BackupSafety` | `MCBackup` | `BackupProofs` |

`EffectJournal` extends `CommandDispatch`: requests and invocations share one
log. `EffectRuntime` and `EffectLifecycle` are two cuts of one effect: the
first fixes the program and cuts every write and every release of the lane
lock, the second changes the program from one boot to the next and stops
gracefully. `Backup` puts a log, a key store, an effect's rows and the stores
derived from the log together, as one directory.

Left to do, in this order: `unique` tags and the keys an append spends; the adoption
run over all rows; several effects that compete for one pool; `on latest` arms
in `EffectLifecycle`.

## 3. What models what

### LaneState

The struct `LaneState`: its fields are the variables, its methods the operators.

| Code | Here |
|---|---|
| `queues`, `latest`, `high`, `place`, `inflight`, `scanned`, `rows`, `begun`, `blind`, `skip_promoted` | the variables of nearly the same names |
| `admit` | `Admit`: ignored at or below the high-water; `Supersede` when the arm collapses and its open group may absorb the position, else `Enqueue`; `NeedsOffer` is its answer |
| `head` | `Freeze` (the caller then owns the front and nothing joins it) |
| `complete` | `Complete` and `Owed`, the answer whether a lane row is due |
| `claim`, `release`, `defer` | `Claim`, `Release`, `Defer` |
| `promote`, `promote_matching` | `Promote`, `SkipWakes`, `PromoteMatching` |
| `low_water`, `set_scanned`, `forget` | `LowWater`, `SetScanned`, `Forget` |
| `record_row`, `rows_to_sweep`, `prune_rows` | `RecordRow`, `RowsToSweep`, `PruneRows` |
| `resuming` | `Resuming` |

Abstracted: instants (a parked lane may be woken by any promote pass), key
bytes (a lane is an opaque value), map entries at zero. Entries of the deferred
heap that a later wake made stale are not kept; they wake nothing in the code.

### EffectRuntime

One effect of a process, with its database. The actions are the code cut at
every durable write and every release of the lane lock:

- `Start`, `Crash`, `Rewind`, `RequestSkip`, `SweepInvocation`, `AppendEvent`:
  the surroundings. `AppendEvent` and `Crash` have no counterpart in the source.
- The reader, `run_inner`: `Wake`/`Promoted`, `Poll`, `AdmitNext` (the lane lock
  is held from the first position of a batch to the last), then `publish_mark`
  cut in five: `ReadMark`, `PersistMark`, `ForgetPassed`, `SweepRows`,
  `PrunePassed`. `DriverError` fails a read or a write, which may have landed,
  and `Resubscribe` is `supervise` running the driver again with the dispatcher
  it left and the persisted mark.
- A worker, `run_lane` and `attempt`: `PopLane`, `ClaimLane`, `TakeHead`,
  `Begin`, then one of `SkipWedged`, `Finish`, `Fail`, `LoseAnswer`; `Replay` in
  verify mode; `Retire`, `RecordLaneRow`, `NoteLaneRow`; `ReleaseLane`.

The durable variables are the rows of `hekla.db`: `mark` (effect_cursor),
`boundary` (effect_activation), `status` and `from` (effect_invocation),
`laneRow` (effect_lane), `quarantine`. `settled` is a history variable: the
answered positions some run has dealt with, by running at them or, for an
`on latest` arm, at a newer position of the same arm and lane. A rewind takes
out what it asks to have done again.

Abstractions, and why they are sound for the properties:

- What an invocation does is one step with three outcomes: it ends, it fails,
  or it ends and the write's answer is lost. Its calls belong to EffectJournal.
- A pass of `promote` may wake any subset of the parked lanes, one step each;
  workers may run between those steps. The code wakes them under one lock. The
  model has more behaviours, so safety carries over.
- A terminal failure of the project's code ends like a success and goes through
  `verify` too; a begin whose write landed and whose answer was lost is `Begin`
  followed by `Fail`.
- The keys of a batch are resolved before the lock in the code and with the
  admission here: an event's lane does not change between the two in the model.
  An erasure in between can change it.
- The retention sweep removes rows one at a time, at any moment, and only at or
  below the mark; the code's age limit is a choice.

### EffectDelivery and the refinement

`EffectDelivery` says what an effect owes the log in four variables and four
actions: settle a position, plain ones in log order within their lane; settle
with an `on latest` position every older one of its arm and lane; advance the
mark over what is settled or will be by a newer event still ahead; rewind.
`EffectSafety` instantiates it as `Delivered`, with the mapping that takes
`log`, `boundary`, `settled` and `mark` to themselves and forgets the rest, and
`ImplementsDelivery == Delivered!Spec` is checked as a property.

`EffectDelivery` makes no difference between a position that a run settled and one
that a skip settled. What a skip may end is an action property of its own,
`SkipsOnlyTheFailing`: a position an operator asked for, which is the one its lane
last failed on (`stuck`). `OperatorBound` is both.

### CommandLog

What a request and an effect's invoke have in common. A command is a shape: the
slices its boundary selects (`Reads`), and below a cap of folded events it emits
`Emits` events into the slice `Writes`, from the cap on it rejects, finds its
input invalid or does nothing (`Full`). That is the least that makes a decision
depend on all of the boundary and turn against a repetition of itself. A command
without `state` has no slices.

| Code | Here |
|---|---|
| `query_of`, `item_of`, the read after a position | `Matching` |
| `idem_item` | `Bearing` |
| the boundary clause, the existence clause, both | `Moved`, `Duplicate`, `Admissible` |
| the events of one append, their tag and causation id | `Batch`; `batch` stands for the causation id |
| `idempotency_tag` | the constant `Key`: shared by requests that repeat each other, and a call's own |

### CommandDispatch

The life of a request, `run_command` under `run_with_retry`, cut where another
execution can get in: `Send`; `Fold` (an attempt: read past the position held,
add to the count held, decide); `Land`, `FindDuplicate`, `Beaten`, `ShutOut`, the
four answers of the append; `Answer`; `Recover` and `Check` with `Recovered`
(`find_committed_outcome`). `Fault` fails a read or the append, which may have
landed. `Drain` is the end of `serve`. When both clauses of a condition fail the
store may name either, so `FindDuplicate` and `Beaten` are both possible. An
answer reports its positions as a set. Left out: input that does not bind (400
before anything runs) and the sleep between attempts.

A command that reads in several stages is taken as one boundary: heklang resolves
the stages into the slices and the one position that the append condition gets.

### EffectJournal

The inside of an invocation, beside the requests and over the same log. An arm
is a fixed sequence of calls, each an http request or a command, and runs from
the first call again in every attempt.

| Code | Here |
|---|---|
| `try_invocation` | `Attempt` |
| `Journal::recorded` | `Ask`: the tag is published (`held`), then the row is read |
| `Http::send` | `Request`, `NoResponse` |
| an invoke's fold and append through the host | `InvokeFold`, `InvokeLand`, `InvokeRefused` |
| `Journal::record`, `journal_put` | `RecordCall`, `RecordRow` |
| the ends in `attempt` | `Complete`, `FailTerminally`, `SkipWedged`, else `Wedge` |

An invoke gets one attempt: a conflict, a duplicate and a shut writer are all
errors that wedge the invocation. The writer may be shut while an invocation
runs, since the drain of effects gives up after a while. The reclaiming of rows
of terminal invocations belongs to EffectRuntime, and so do lanes: here
invocations run side by side, which is more than the lanes allow.

### SerialCommands and the refinement

`SerialCommands` has one variable, the log, and one action: a command reads all
its boundary selects, decides to emit, finds its key nowhere and appends, in one
step. `CommandSafety` instantiates it as `Serial`, the log mapped to itself, and
`ImplementsSerial == Serial!Spec` is checked and proved.

### EffectLifecycle

One effect over several boots, programs and stops. Only plain `on` arms, and one
position in hand per lane: what `on latest` and the cuts inside a step add is
`EffectRuntime`'s.

| Code | Here |
|---|---|
| `spawn`: the stored scheme, `repartitioned`, rows above the mark | `Boot` with `Repartitioned`, `Outstanding`, `Blocking` |
| `run_inner`: a poll admitted position by position; the mark published | `Admit`; `PublishMark` |
| `run_lane` | `Claim`, `TakeHead`, then `Ends` or `Parks`, `Retire`, `RecordRow` |
| `promote` (also while draining) | `Wake` |
| `shutdown_and_join`, the end of `run_inner` | `Stop`, `Drain` (with the last mark), `Die` when the drain times out |
| `OpDb::rewind_effect` | `Rewind` |

`Deploy` replaces the program while the process is down. An event has a lane
under every key an arm may declare, so that a deploy that moves a key moves the
event. `ended` holds what this process ended, `unrecorded` the rows that could
not be written, `clean` that the last stop was a drain: history variables.

### ReadModels, Projector and LogView

A model is three pages: its definition, its checkpoint (`upto`) and its rows, and
a row is reduced to which definitions have handled each event. So a skipped
event, one handled twice and one handled by a former definition all differ from
`Projected`.

The live model is a SQLite file in WAL mode: `main`, and `wal` with the pages
committed since (`frames`). `Live` is what a connection sees: the WAL's copy of a
page where there is one, *whichever main file it lies beside*. That is what makes
a swap by rename a matter of order.

| Code | Here |
|---|---|
| `ReadModel::open` with `reformat` | `Reformat`, part of `Spawn` |
| `spawn`, `reconcile_from`, `reconcile_plan` | `Spawn`, `Reconcile`, `ReadinessOf`; then `Start` or `BeginRebuild` on the thread |
| the loop: a polled batch, its handlers, its checkpoint, the published position | `ApplyBatch`, `BatchFails`, `AdvanceCheckpoint`, `AdvancePosition` |
| `rebuild`, `project_to_head` | `BeginRebuild`, `BuildBatch`, `Seal`, `Rename`, `RemoveSidecars`, `Reopen`, `RebuildDone` |
| `rebuild_or_degrade` when the rebuild fails | `RebuildFails`, `Degrade`, `Restore` or `DegradeFails` |
| `request_replay`, the shutdown flag, the end of the thread | `RequestReplay`, `Stop`, `Leave`, `ClearRunning` |
| `server.rs`: the readiness gate, the wait for `after`, the read | `ResolveEntity`, `HonorWait`, `NotCaughtUp`, `Snapshot`, `Respond` |

A binary brings a format (`FORMAT`), and a boot that finds the model in another
one empties it, its checkpoint and its definition with it. Formats are numbered in
the order in which binaries bring them; a deploy may go back to an older one.

A read may hold its connection when the projector closes its own before a
swap. The projector is then not the last to close, and the WAL stays: from the rename to
the removal of the side files the new main file lies beside the old one's pages
(`Unswept`), and a thread that ends in between leaves it so (`stranded`) until
another swap or format (finding 6). `Mixed` is either.

`LogView` has the log, one view, whether it is whole, and its format. A step takes
the view to a definition's projection of a longer prefix; two things set it back to nothing,
another format and a swap that stays half done beside a WAL that was kept. `ProjectorSafety`
instantiates it as `View`, with `view <- Seen`: the live model, or the new main file
where the WAL beside it is about to be removed.

### SubjectKeys

The rows of `subject_key` and everything that changes them: the writers of a live
process, `hekla erase`, the orphan sweep, `hekla adopt` and `hekla rotate`. A
secret and its wrapped bytes are numbers from one counter, so that no two draws
agree; a row holds both, the master it is wrapped under or the parent and
the parent's fingerprint. A cipher is reduced to who can open what: `Readable`.

A step is what runs under one take of the lock on the operational database.
Opening a child takes one step per link of its chain, and an erasure, an adoption
or a sweep may come between any two.

| Code | Here |
|---|---|
| `mint_secret_in`, with its retries | `BeginWrite`, `ReadRow`, `Insert`, `LookAgain`, `Seal`; `MintAttempts` is MINT_ATTEMPTS |
| `open_row` | `OpenRow`, `Climb`, `ClimbTo`, `Yield` |
| `erase`, the sweeper's deletion of orphans | `Erase`, `Sweep` |
| `adopt_in`: move, read back, undo | `BeginAdoption`, `MoveRow`, `ReadBack`, `RestoreRoot` |
| `rotate`: snapshot, one transaction of compare-and-sets | `BeginRotation`, `Rewrap` |

`ServerMaster` is the primary master of the live process: whether it was
restarted with the new one before the rotation. `erased` (secrets an
erasure deleted), `kin` (the secrets a secret hung from when it was drawn)
and `strayed` (the rows an adoption moved and has not read back) are history.
`strayed` holds rows, told apart by their bytes, because a later adoption of the same
secret that succeeds says nothing for the rows an earlier one led astray.

### DerivedTables

One table, with its checkpoint and its gate, which the code keeps for the
whole file. A cell says how often each position was folded into it. A *pinned* arm
reaches the key its event names and creates the row; a *range* arm reaches every
row there is. `Replayed` folds a prefix from nothing and is the reference.

| Code | Here |
|---|---|
| the store is opened, or made anew for another format | `OpenStore`, `Reformat` |
| `reconcile` | `Refills`, `Reshaped`, `Added`, `Published`, `Reconcile` |
| the backfill of what is behind | `Refolded`, `Backfill` |
| a batch and the columns that advance with it; the published head | `FollowTo`, `Publish` |
| a pass that fails | `Fail` |
| the gate of a read | `Served` |

`drifted` (a deploy changed which events create rows) and `owed` (the length of
the log when the store was last empty) are history.

### Backup

A directory copied from a live one: the log as segment files (a base position
and the events under it), then the key store and the effect's rows, then the manifest.

| Code | Here |
|---|---|
| the target's lock, the refusal of a target that is ahead, the claim of the target (`claim`) | `Begin` |
| `copy_log`: the listing, the comparison with what the target holds, the copies | `List`, `Plan` with `Reused`, `CopyFile` |
| `snapshot_state`, `clamp_to_log`, the removal of read models | `Snapshot`, `Clamp` with `Lowered` |
| the install of the database, the manifest | `Install`, `Finish` |

The source goes on meanwhile: `Mint`, `AppendEvent`, `EraseKey`, `RunEffect`,
`AdvanceMark`. So may a server on the target between two runs, which is how a
restore works: `Serve`, `AppendRestored`, `RunRestored`, `AdvanceRestored`,
`Follow`, `StopServing`. A row of a terminal invocation remembers which log wrote its event
(`by`), so that a row of one timeline beside an event of another is seen.
`Crash` gives back the lock and leaves what was written.

A segment is kept when it is sealed and as long in bytes. `SourceSize` and
`RestoredSize` are the bytes of an event of either log: with different sizes two
timelines cannot have segments of one base and one length (finding 9). The bytes of a
segment are counted by writer, so that no sum over a sequence has to be taken.
The target's log may grow `MaxRestored` events longer than the source's ever does.

### The properties, the instances and the proofs

Per component one module of properties (`...Safety`), one small instance
(`MC...`) and one of proofs (`...Proofs`), as in the table of the plan.
Definitions that a comment calls a seeded defect or a mutant are wrong variants
of the definition after them. They are used nowhere in the specification:
substituted for it, each makes one property fail, which shows that the property
depends on the code's care at that place.

## 4. Runs

| Run | Instance | Shows |
|---|---|---|
| `effect_lanes` | 2 workers, 2 lanes, `on` and `on latest` in one lane, log of 3, 1 crash | lanes exclusive and never lost (`NoLaneLost`: places are true, groups are sound); heads frozen; rows strand nothing and recorded ranges are covered once (`RecordsSound`); `on latest` never goes back; EffectDelivery implemented |
| `effect_faults` | 1 worker, an `on latest` lane beside a plain one, every store operation may fail, verify mode, 1 crash, blind resumes | the mark loses nothing, abandons no run and is pinned by a divergence (`MarkSound`); nothing reserved behind the mark or out of plain order (`ReservesSoundly`) |
| `effect_operator` | 1 worker, `on` and `on live`, unanswered events, skip, rewind, failing writes, batches of 1, in-flight bound 2, 1 crash; 1.5 million states | `OperatorBound`: EffectDelivery implemented, so that only a rewind takes the mark back, and a skip ends only the position its lane is failing on |
| `effect_drains` | `FairSpec`, 1 worker, flaky lane, in-flight bound 1, 1 crash | the effect comes to rest at the head of the log |
| `effect_wedge` | `FairSpec`, 1 worker, a lane that never succeeds (also the unreadable lane), log of 3, batches of 1, in-flight bound 2, skips; 181 thousand states | events of healthy lanes are settled, unless the wedged lane's groups fill the in-flight bound and the event is not read yet (`HealthyLanesFlow`); a skip of the failing position retires it |
| `lifecycle` | `FairSpec`, 1 type under 2 keys and 1 type no program answers, 2 lanes, pool of 2, log of 3, 2 boots, 1 rewind; 2.1 million states | a resume hides nothing that was not run and a drained stop forgets nothing that was (`ResumesWhereItStopped`); a stop ends |
| `commands` | `FairSpec`, 4 requests (2 repeat one key on a capped slice, one without a key competes for it, one with a key and no boundary), 2 sends, an invocation of an http call and a command, 2 attempts, 2 faults, shutdown | a key commits once; the log is serial; answers and rows are true (`AnswersTrue`), agree and are final (`AnswersStand`), and deny no commit; every request is answered |
| `projector` | `FairSpec`, 2 definitions (the old one fails on a kind of event), 3 kinds, 1 read, log of 2, batches of 2, 2 formats, 2 boots, 1 replay, 1 fault; 693 thousand states | a read finds its definition's projection of the log up to the position it is told, and reaches the one it waited for, unless the model is `Mixed`; no checkpoint regresses; LogView implemented; a replay happens; the model catches up |
| `keys` | a chain of 3 subjects, 2 writers (one names the root alone), an adopter, 2 looks per link, sweeps of 1, 8 numbers, 2 writes, 2 erasures, 2 adoptions, 1 rotation, `ServerMaster = New`; 0.86 million states | an erasure is final (`ErasedStays`); nothing else is lost (`NoLoss`) |
| `tables` | `FairSpec`, 3 programs over 2 columns, 2 keys, log of 3, 3 boots, 1 reformat; 249 thousand states | a column at the checkpoint is the fold of the log (`ColumnsTrue`); only such columns are served (`ServesTrue`); the store catches up |
| `backup` | 1 key, segments of 2 events, `SourceSize` 2, `RestoredSize` 3, logs of up to 3 events, 2 backups, 1 server on the target; 3.5 million states | the copy is a prefix of one log; the state beside it speaks of that log; erasures carry |
| `lifecycle_f_arms` | 2 types, programs that add and remove arms, 1 key | finding 1, a violation |

Nine more configurations are kept for the other findings (section 5); each finds
its one property violated.

Why the bounds are enough. Effects: collisions between groups need one lane with
two collapsing events and a plain one between them, or two lanes: a log of three
has both. Two workers are enough for every race over a lane, as a lane has one
owner and one contender; the runs with one worker keep all races between that
worker and the reader. One crash reaches every state that differs between two
processes; a second one starts again from a state the first could have left,
except for a chain of crashes inside successive recoveries, which the runs do
not cover. `RECORDED_MAX` is 3 (never reached), or 0 (blind as soon as a row is
above the mark). With three events and batches of three the cursor cannot lag
the mark; that case has runs of its own (`effect_operator`, `effect_f_resub`).

`lifecycle`: a row that hides too much takes an older event held back, a newer one
of its lane that ended, and a restart: three positions in two lanes, two boots.

`commands`: a cap of two on one slice lets two of its writers through, so that
a duplicate meets its own event with and without room left. Two sends are the
original and its repetition, in parallel or in turn, or two competitors; the
invocation always competes with them. Two attempts give one retry with a state
carried over. Two faults are a failed append that landed and the loss of its
repetition, or a crash between an append and its row and one more.

`effect_wedge`: the in-flight bound is met by two events of the wedged lane, and a
third event, of either lane, is then out of the reader's reach; with one of each
lane in flight it is not, although the bound is met. It has no crash, which with three
events would make it too large: progress over a restart is left to `effect_drains`.

`projector`: two boots are the old definition and the new one, one format and the
other, or one definition and what a crash left of a swap; one fault interrupts a swap at any place and a
second, the crash, interrupts the recovery. Two events are one in the model and one it
has yet to see. `keys`: two writers are the winner and the loser of an insert, at
the top of the chain and in the middle; two erasures take a link and what was
minted in its place; seven numbers are enough for three levels minted twice.
`tables`: three boots add a column, change its fold and drop the one that created
its rows. `backup`: with segments of two events a log of three has a sealed one
and an active one; two runs are a dead one or a finished one, and the next. A server
on a target that holds less than three events may roll its segment as well. The sizes
satisfy `ExtentsTell`, the hypothesis of the proofs.

All runs but `effect_lanes`, `effect_operator`, `effect_drains` and `effect_wedge` set
`CHECK_DEADLOCK FALSE`. A quarantined effect stops until an operator intervenes
(`effect_faults`). In the others the bounds are used up: no send, boot, run or
write is left, and the process may be down. In the four the system never stops
while the log may grow or the reader polls.

### Fairness

Effects: `FairSpec` assumes that threads are scheduled and that their waits time
out: the reader polls with a timeout, a worker waits on the pool's condition
variable with work in it. This is weak fairness of the reader's steps, of each
worker's steps and of the start. Waking a parked lane needs strong fairness: it is
possible only in the promote part of a pass, and the reader passes there again
and again with the deadline expired for good. `Finish` on a lane outside
`Wedged` has strong fairness: such an attempt fails finitely often. Nothing is
assumed of commands, skips, crashes (bounded), or failures.

`EffectLifecycle`: weak fairness of `Drain` and of each lane's `WorkerStep`. An
attempt returns, since its calls have time limits. The drain's own timeout
(`Die`) is not relied on, and nothing is assumed of the operator.

`CommandDispatch`: weak fairness of what a process does about one request
(`Progress`): a request runs on a thread of its own and waits for nobody but the
writer. `EveryAnswer` needs no more, because conflicts are counted and everything
else ends the loop. Nothing is assumed of invocations, which may wedge for ever.

`Projector`: weak fairness of the projector's thread as a whole, which takes its
steps one after the other. Nothing is assumed of appends, replays, reads or boots.

`DerivedTables`: weak fairness of the steps of the boot and of the thread
(`OpenStore`, `Reconcile`, `Backfill`, `FollowTo`, `Publish`). `CatchesUp` allows
for a pass that fails and a process that dies.

## 5. Findings

1. `lifecycle_f_arms` violates `SkipsOnlyWhatIsDone`. A lane row says that its
   lane is done up to a position, and is keyed by the effect and the lane's value.
   `loader.rs` (744-746) compares two programs' keys only for the types both
   answer: "A newly declared type has no prior positions and a removed one has
   no future ones, so neither can strand a lane row". An event of a type the
   old program scanned past does have a prior position, and a
   row above the mark makes `resuming` take it for settled once a deploy answers
   its type: it never runs, and the mark passes it. `opdb.rs:705` ("may lag the truth but must never lead it") and
   `effect.rs:1305` ("purely a shortcut") are what does not hold. The
   same rows are why the gate on a moved key is needed: `effect.rs` (1050-1058) and
   `ARCHITECTURE.md` (780-785) call it an operator signal, not a correctness gate,
   but without it (the mutant `BlockingOnce`) a row of the old key hides
   positions of the new one, which `begin_invocation` never sees.

Other disagreements, each with a configuration:

2. `effect_f_batch`, `LatestNeverOlder`. An `on latest` group built from two poll
   batches and completed just before a crash is not rebuilt as it was: a worker
   of the next process takes the older position as soon as the first batch is in,
   and runs it after the newer one has run. With one batch (`effect_lanes`) the
   property holds. The same happens after a *blind* resume (more than
   `RECORDED_MAX` positions recorded above the mark), which folds nothing.
3. `effect_f_resub`, `ReservesAboveMark`. After an error the driver re-subscribes
   at the persisted mark, workers go on, the mark overtakes the cursor, `forget`
   drops the guard, and the subscription delivers positions behind the mark that
   the dispatcher takes for new. Their rows may be swept by then.
   `NoAbandonedRun` and `QuarantinePins` break for the same reason in such an
   instance, which is why `effect_faults` checks them where the cursor does not
   lag.
4. `effect_f_invoke`, `InvokeRecovers`. `ARCHITECTURE.md` (writing outcomes) and
   the head of `effect.rs` say that an invoke replayed after a crash between its
   append and its journal row recovers the committed outcome, as a request does.
   The flag the existence clause sets is read by `run_command` only. A replayed
   invoke decides again: a command that reads its own events may reject, and that
   is recorded as the call's outcome; one that emits again is refused by the
   existence clause, and the invocation wedges until it is skipped. The events
   land once in both cases (`KeyCommitsOnce`).
5. `keys_f_rotate`, `ErasedStays` with `ServerMaster = Old`. The rotation's
   compare-and-set is on the master's name, and `opdb.rs` (1388-1393) and
   `crypto.rs` (273-275) argue that a subject erased and minted again meanwhile sits
   under the new master. A live process that still has the old one as its primary
   mints under the old name, and the stale rewrap puts the erased secret back.
6. `projector_f_swap`, `ReadsAlwaysTrue`: `ReadsTrue` without its exception. `projector.rs`
   (1016-1017) and `read_model.rs` (207-209) count on a sealed file ignoring a WAL left
   beside it. When a read holds a connection the old WAL outlives the close, and
   between the rename and the removal of the side files the new main file lies
   beside the old pages. Whether a reader then takes them rests on SQLite's
   treatment of a WAL beside a file in rollback mode, outside this code; the model takes
   the pages as valid.
7. `keys_f_adopt`, `AdoptionLosesNothing`. `crypto.rs` (370-374) says the undo of an
   adoption "cannot lose data an erase did not ask for". Between the move and the
   undo the row hangs from a parent that is gone: a writer that looks at it
   replaces it, and the sweep deletes it. The undo then finds other bytes and
   gives up.
8. `tables_f_refill`, `ServesWhole`. A store that is folded from empty is not served
   until it has reached the head (`filling_to`, `fold_runtime.rs` 232-236;
   `ROADMAP.md`, phase 43). The target is in memory: a process that dies on
   the way leaves a store with a checkpoint, which the next one serves at once.
9. `backup_f_splice`, `CopyIsPrefix` with equal sizes. A segment is reused by base
   and length. The refusal of a target that is ahead (`backup.rs` 323-328,
   `tests/backup.rs` 744-746) does not see one that was served, appended to and
   overtaken since: its sealed segments stay when they are as long as the
   source's.
10. `backup_f_tables`, `TablesTrue`. A backup over a target that was served removes
    its read models (`backup.rs` 365-372) and leaves its `tables.db`, whose
    checkpoint may be of a log the backup has overwritten.

11. `effect_f_inflight`, `HealthyLanesAlwaysFlow`. `ARCHITECTURE.md` (731-736) says that
    "a wedged lane costs one entry in a map rather than a thread". It also costs
    its share of what may be in flight: the reader stops reading at `MAX_INFLIGHT`
    groups (`effect.rs` 1388-1393, the bound at 1229), and those of a lane that fails
    for ever never leave. Once they fill it no event of any lane is read. In the run two events of the wedged
    lane fill a bound of two and the third, of a healthy lane, stays unread.

Observations without a run:

- Two comments in `opdb.rs` (692, 730) say that the mark, and a lane row, cover
  terminal positions only. A row is written at a plain position while an older
  one of the lane is folded into a group queued behind it; after a crash the mark
  passes that older position. The newer event that settles it is still ahead, so
  nothing is lost: `MarkLosesNothing` and `RowsStrandNothing` are what is true.
- `replays_completed` is said to tell a caller that its replay is done when it
  moves (`projector.rs` 170-171); it also moves when a rebuild that was in flight
  before the request ends. A replay accepted as the thread exits is dropped.
- `crypto.rs` (737-743) means a write never to land unreadable; an erasure after
  the last look still makes it so. A crash between the move and the undo of
  an adoption leaves the row under a parent that is gone. An undo after the new parent was
  erased brings back a child that erasure had shredded with it.
- `fold_store.rs` calls a column of an unchanged fold up to date. A range arm
  depends also on which folds created rows, in this program and in those before
  (`fold_sink.rs` 82-86 says how a replay sees it): `ValuesStand` is the claim,
  `ColumnsTrue` what holds.
- When the thread of the derived tables fails, its last head is served for good.

## 6. What is proved

For every set of lanes, arms and workers, every log length, every number of
crashes and rewinds, and every choice of failures, from the assumptions
`SizesAssumption`, `DeliveryAssumption` and `EventsAssumption` of EffectRuntime
(bounds are naturals, the wedged lanes are flaky lanes, the unreadable lane is
one that never succeeds, events name a lane and an arm or none):

- `TypeCorrect`: `Spec => []TypeOK`. TypeOK is inductive as it stands. It holds
  more than types: the cursor, the scan and the mark stay inside the log, and a
  batch being admitted has something left.
- `LaneExclusion`: `Spec => []OneWorkerPerLane`. The property is not inductive:
  a second worker may hold a stale offer of a lane. `Ownership` adds that every
  owner's lane is marked `Running`, so a claim, which needs `Queued`, cannot
  take it (`OwnershipCorrect`).
- `HeadsFrozen`: `Spec => []FrozenHead`. The danger is an admission that absorbs
  the group a worker runs. `Freeze` closes the group; what has to be shown is
  that no later admission supersedes it and that retiring removes that group
  and no other. The second needs that no two groups of a lane share their oldest
  position, which rests on the high-water outliving every queued group, and that
  on the mark: `Forget` drops only what the mark has passed, and the mark, from
  its reading to the end of its publication, stays below every queued group
  although workers and the operator move meanwhile. `HeadInv` is the conjunction
  (`QueuesAboveMark`).

- `LanesKept`: `Spec => []NoLaneLost`. A lane with work is announced, held or
  stuck, once (`Placed`, which `Ownership` is not enough for: the pool's queue
  is a sequence and a stop empties it), and an open group is the last of its arm
  in its lane and its members are what it says (`Folded`, `QueuesFolded`).
- `SkipsBound`: `Spec => SkipsOnlyTheFailing`. A lane's count of failures does not
  say which position failed. The invariant (`Failing`, with `OwnPositions`) is that
  the head a lane failed on stays its head: nothing joins it, for it was closed when
  it was taken in hand (`HeadFails`, `AdmitKeepsFailing`), and no worker retires it
  before the count is back at zero. A request survives until it is honoured because
  the mark, which alone forgets requests, stays below every queued group.

These hold with failing writes, lagging cursors and blind resumes: none of
them leans on finding 2 or 3 not happening.

The mark (`EffectMarkProofs`), on the same assumptions and one more. Finding 3
breaks what follows, so it is stated under `[]Ahead`, where `Ahead` says that the
reader is not behind the persisted mark; and `NeverBehind` shows that
`Spec => []Ahead` where the store does not fail, or where one batch reaches the
end of the log (`OneBatch`). `DispatcherSound` puts the two together.

- `AccountKept`: `Spec /\ []Ahead => []MarkInv`. Every position considered so
  far is settled, or some queued group will settle it, or a newer event that
  makes it redundant is still to be read (`Accounted`). That is what the mark is
  read from. It survives because a position is admitted once (`HighTrue`), one
  already begun is never folded away (`BegunTrue`, `OpenTrue`), what retires is
  settled with all it made redundant (`WorkTrue`), and what a crash leaves behind
  is enough to take the account up again (`Durable`).
- `MarkIsSound`, `RowsAreSound`, `ReservedInOrder`: `[]MarkSound`,
  `[]RowsStrandNothing` (half of `RecordsSound`) and `ReservesSoundly` follow.
- `DeliveryRefinement`: `Spec /\ []Ahead => ImplementsDelivery`, step by step:
  reserving, settling, a mark that moves, a rewind; all else is a stutter.
  `OperatorKept` adds `SkipsBound` to it: `Spec /\ []Ahead => OperatorBound`.
- `RecordsAreSound` and `NeverSetBack`: `[]RecordsSound` and `LatestNeverOlder`.
  Finding 2 breaks both, in two ways, and each is a hypothesis beside `[]Ahead`:
  `CaughtUp`, no worker owns a lane before the reader has got to all that an
  earlier process began, and `Sighted`, no resume is blind. `LatestInv`
  (`RecordsInOrder`), on top of `MarkInv`, says why a group never runs behind a
  newer one: while a position runs nothing newer of its arm and lane has a row
  (`RunningLast`); what a group folds has none (`GroupsTrue`), and an open group runs
  the newest event considered (`OpenLast`); what the dispatcher takes for begun was
  begun (`BegunReal`); and what is queued for a first run is redundant only to an
  event still ahead that its group is open to (`Newest`).
- `NothingHidden` and `RecordsKept`: `CaughtUp` and `Sighted`, and with them the two
  properties, follow from `[]Ahead` and `[]ShortRecord`. `ShortRecord` speaks of the
  moments the process is down: what the rows have on record above the mark
  lies within one batch of it and is no more than a resume may read back
  (`RECORDED_MAX`, `1 << 16`). Nothing is asked of the log: it may be any number of batches ahead
  of the mark, and grow. In the code it is the rule, since workers start as soon as a
  batch is in and the mark follows, and not assured: a lane that fails while others go
  on holds the mark back, and what ended beyond a batch from it is finding 2.
  `Resumed` is the invariant: until the reader has got to all that is on
  record, no lane is there to take.

For every set of events, lanes, keys and programs and every number of boots and
rewinds, from `LifecycleAssumption` (events have a lane under every key,
programs give each type a key or no arm):

- `LifecycleTypes`: `Spec => []TypeOK`. What is held is in flight and at most
  the pool's size is held; `Typed` is what is inductive.
- `ResumesExactly`: where deploys move keys and neither add nor remove an arm
  (`ArmsStay`: what one program leaves unanswered they all do),
  `Spec => []ResumesWhereItStopped`. `ArmsStay` is what finding 1
  says is needed. Events without an arm stay: cursor and mark pass them, and only what
  all programs answer is ever in flight (`OnlyAnswered`, `AnsweredKept`). What a row hides is not inductive: a row is written at the
  position a worker ran and speaks of every older one of its lane. The invariant
  is `Typed /\ Fresh /\ RowsDone /\ ReadDone /\ HandsFirst /\ EndedKept /\
  LeftCovered`: below the cursor and a lane's high-water a position has been run
  or is in flight (`ReadDone`), a worker holds the oldest one in flight of its lane
  (`HandsFirst`), so all older ones have been run when its row is written
  (`RowsDone`); what ended is covered by a row or the mark, lies below all in flight, or is
  in a worker's hand (`EndedKept`), and a drain, which finds no lane held, leaves it so (`LeftCovered`). A deploy that moves
  a key meets rows above the mark only at the gate, which keeps the scheme in force.

For every set of requests, invocations and calls, every shape and key, every
script and every number of attempts, sends and faults, from `ShapeAssumption`,
`KeyAssumption` (requests may share keys, a call's key is its own),
`BudgetAssumption` and `ScriptAssumption` (a call has one place in one script):

- `CommandTypesOK`: `Spec => []TypeOK`. A row gets its type from a call that is
  being performed, so the invariant (`TypeInv`) also says that an attempt which
  performs a call is inside its script and holds the tag of that call, and that
  an execution about to append decided to.
- `FoldsCorrect`: `Spec => []FoldInv`. The count an execution carries is the
  number of events of its boundary up to the position it carries. It is what a
  retry relies on when it reads only what landed since: `Continued` adds the two
  parts up, and `Stable` says that appends of others leave the first part alone.
- `KeyCommits`: `Spec => []KeyCommitsOnce`. Every step leaves the log or is the
  append of one command under its own tag and its append condition
  (`StepAppends`); under the existence clause no other event carries the tag.
- `SerialRefinement`: `Spec => ImplementsSerial`. The append condition says that
  nothing of the boundary landed past the folded position, so the folded count is
  that of the whole log, and the append is a `Commit`; all else is a stutter.
- `AnswersAreTrue` and `AnswersDoStand`: `Spec => []AnswersTrue` and
  `AnswersStand`. `AnswerInv` adds to `FoldInv` what an execution knows between its
  append and its answer (`Telling`) and between a call and its row
  (`Recording`): what is told names positions that are in the log under the tag,
  and a journal row is written once, at the call the script has come to.
- `CommitsNeverDenied`: `Spec => NeverDenied`, where requests that share a key and
  read nothing repeat one input (`Repeats`). A command that reads nothing rejects on
  its input alone, before any tag is looked at; one key sent with two inputs
  is then told both.

For every set of definitions, kinds and readers and every bound, from
`ModelAssumption` and `ProjectorAssumption`:

- `ProjectorTypes`: `Spec => []TypeOK`; no position published or committed is
  past the log.
- `ReadsAreTrue`, `NoRegression`, `ProjectorView`: `Spec => []ReadsTrue`,
  `[]NeverQuarantined`, `ImplementsView`, whatever reads hold the live model while
  the projector closes its own and whatever formats binaries bring. `Inv` ties the
  live model, the file being built, the subscription and the published position
  together, place by place of the thread: no position is past the log (`Behind`), the
  subscription is where the checkpoint is (`TailTrue`), and the file being built is a
  projection of what was read, no shorter than what was promised to reads once sealed
  (`FreshTrue`). That holds of any database (`Bounds`). Of one that no swap left half
  done (`~stranded`) it says more (`Whole`): what reads once the side files are gone is
  a projection (`Sound(Seen)`), the handle publishes no more than it holds
  (`HandleTrue`), and reads find what they were promised (`ReaderTrue`). The refinement maps a
  commit to `Advance`, `Rename` to `Swap`, the removal of side files to `Uncover`, a
  thread that ends before it to `Lose`, a boot with another format to `Reformat` and
  all else to a stutter.

For every set of subjects, writers and chains and every bound, from
`SubjectAssumption` and the assumptions on chains and bounds beside it:

- `KeysTypes`: `Spec => []TypeOK`.
- `ErasedForGood`: where every process writes under the new master
  (`ServerMaster = New`, finding 5), `Spec => []ErasedStays`. A secret lives in
  one row and, once erased, in none (`Lives`); every compare-and-set names the row
  whose secret the process holds (`Held`, `Snapped`); and what a readable row is
  kin to is held by the rows it hangs from (`KinWithin`), stated for chains that may be
  broken at some rows, because an adoption breaks one and mends it again.
- `NothingElseLost`: under the same hypothesis, `Spec => []NoLoss`. The
  invariant (`Whole`, given the one before) is about secrets in no row. Such a secret is
  `Gone` for a reason that lasts: something it hangs from was erased, or belongs
  to a row an adoption moved and did not read back. All others are `Kept`: whatever they hang
  from is in rows. A row that a writer looked at and could not open is `Gone`
  (`Lapsed`), although the look took many steps, because every walk stays
  on the way up what the row hangs from (`Leads`); so the replacement loses nothing
  more, and neither does the sweep (`OrphansGone`). While a moved row is being
  read back, what hangs from it may read under its old parent or its new one; `Moved`
  keeps such a row apart from the other strayed ones until the read-back decides.

For every number of keys, events, runs, crashes and restores, every length of a
segment and every lead of an invocation over the mark, from `BackupAssumption`:

- `BackupTypes`: `Spec => []TypeOK`. A segment ends within the bound because an
  append goes to the active one, which is the last, and starts the next one where
  that ends (`Extends`).
- `ErasuresCarry`: `Spec => []ErasureCarries`. The invariant follows
  the key store from the source through what is staged to the target (`Gone`),
  and says that a run has the target to itself and has withdrawn its manifest
  (`Alone`).
- `CopiesArePrefixes` and `StateIsTrue`: `Spec => []CopyIsPrefix` and
  `[]StateFollowsLog`, where `ExtentsTell`: no segment that a restored server wrote
  to is as long as one the source fills, which the code does not see to (finding 9). Of a
  source that goes on, each file is copied at another time. What makes them one log is
  that a listing takes a first part of the bases (`Initial`), that all but the
  last listed are sealed and whole, and that every copy, of whatever time, agrees
  with the source since (`Snap`); a directory of such copies is contiguous and ends
  where its last one does (`TakenIs`). A segment that an earlier run left, or a
  server wrote to, is kept only if it is the source's: what the source wrote of it
  stands where it stood (`Matches`), and by `ExtentsTell` it wrote all of it
  (`ReusedIs`). The database is of a later time than the log beside it: it speaks of the
  source's log (`RowsOf`), the clamp takes what is past the copied head, and the keys of
  what is sealed were there before it was appended (`Covered`), so they are in
  the snapshot or erased. A restored server only adds to both (`ExtendsAt`, `RowsExtend`).

For every set of programs and every log, from `TablesAssumption`:
`TablesServeTrue`, `Spec => []ServesTrue`. The invariant says that the catalog
records how far every column is built (`Recorded`) and that what the process believes
is behind is what the file says is behind (`Informed`).
`TablesTypes` and `ColumnsAreTrue`: `Spec => []TypeOK` and `[]ColumnsTrue`.
What a fold adds to a cell has a closed form (`Applied`: which keys exist when a
position is reached, and whether the column takes it), so no induction over the
log is needed: the invariant (`Columnar`) says that a column at the checkpoint has
each position up to there as often as the closed form says, and that the rows are
those the log mints unless a deploy changed which events mint (`drifted`).

So every invariant and every action property of a passing run is stated by a
theorem, some of them under the hypotheses named above. Where such a hypothesis fails
the run is all there is: `effect_operator` checks `OperatorBound` with failing
writes and batches of one, for whose refinement half `NeverBehind` does not see to `Ahead`. Only model-checked is
all liveness (`Drains`, `HealthyLanesFlow`, `SkipsRelease`, `DrainEnds`, `EveryAnswer`,
`ReplayHonoured`, and `CatchesUp` of projectors and of tables), which
TLAPS does not prove under fairness. No module declares a
recursive operator: sequences are folded with the community modules' folds, and a
least element is taken by well-founded minimality (`WellFoundedInduction`).

## 7. What is not modelled

In the modelled parts: panics as a path of their own (they end as a failed
attempt); the size of a backoff; several effects competing for one pool (workers
of a pool are modelled, other effects only as their absence); `on latest` arms
across deploys; the reporting side of `EffectShared` and `ProjectorShared`;
binding of a command's input; the re-sends inside one http call; the sealed
replay; the keys an append spends and `unique` tags; what a projector's handler
writes; side tables, indexes and lookups of derived tables; the row decryptor's
cache; the adoption run over all rows; the index files of a log and its torn tail.

Components that `PROJECT.json` lists as `not_modelled` are there with their
reasons. Most of the repository's lines are of that kind. The generated interface
description, the query building and paging of the read API, the operator UI, the loader
and its validation, parsing and printing in the CLI, `plan`, `verify` and
`history`, and the test harness are sequential: they keep no state from one
call to the next, or only read it. A model of them would restate their text.
The map therefore covers a small share of all lines (about a tenth) and most of those at
which two actors, two processes or two boots meet.
