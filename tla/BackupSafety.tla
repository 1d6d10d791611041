----------------------------- MODULE BackupSafety -----------------------------
(***************************************************************************)
(* What a finished backup promises, and a restore from one.                *)
(***************************************************************************)
EXTENDS Backup, SequencesExt

IsLog(f) ==
    /\ DOMAIN f \subseteq 1..(MaxPosition + 1)
    /\ \A b \in DOMAIN f : \A i \in DOMAIN f[b] : f[b][i] \in Event

\* The directories hold segments and databases, and one process at a time is on the target.
TypeOK ==
    /\ IsLog(log) /\ IsLog(copy) /\ IsLog(run.plan)
    /\ models \in Seq(Event) /\ tables \in Seq(Event)
    /\ db \in Database
    /\ {copyDb, staged} \subseteq Database \cup {NoDatabase}
    /\ manifest \in {"none", "partial", "complete"}
    /\ lock \in {"free", "backup", "server"} /\ (lock = "backup" <=> run.pc # "idle")
    /\ run.before \in 0..MaxPosition /\ run.gone \subseteq erased
    /\ run.listed \subseteq DOMAIN log
    /\ erased \subseteq Secrets /\ carried \subseteq erased /\ served \in BOOLEAN

\* A backup that says it is complete holds its source's own log up to some head,
\* whatever was copied of a segment before it was sealed, whichever runs died over
\* it, and although a server may have appended to the target between two runs.
CopyIsPrefix ==
    manifest = "complete" /\ ~served =>
        /\ LogHead(copy) <= LogHead(log)
        /\ \A b \in DOMAIN copy : b + Len(copy[b]) - 1 <= LogHead(copy)
        /\ \A p \in 1..LogHead(copy) : EventAt(copy, p) = EventAt(log, p)

\* Its key store is at least as new as its log: what is sealed in it and was not
\* erased at the source has its key, so that nothing reads as erased that was not.
KeysCover ==
    manifest = "complete" =>
        \A p \in 1..LogHead(copy) :
            EventAt(copy, p).secret \in copyDb.keys \cup erased \cup {NoSecret}

\* The events of the target's log, up to its head.
EventsOfCopy == [p \in 1..LogHead(copy) |-> EventAt(copy, p)]

\* No row, no mark and no read model of a restore speaks of an event other than the
\* one it has at that position: what the restored server appends is never taken for
\* handled.
RowsTrue ==
    manifest = "complete" =>
        /\ \A r \in copyDb.terminal :
               r[1] <= LogHead(copy) /\ EventAt(copy, r[1]).by = r[2]
        /\ \A p \in 1..copyDb.mark : \E w \in Writers : <<p, w>> \in copyDb.terminal
        /\ IsPrefix(models, EventsOfCopy)

\* What is restored beside a log speaks of that log, whole and alone, although it was
\* taken from a source that went on and written over a target that had lived.
StateFollowsLog == KeysCover /\ RowsTrue

\* "A derived store holds nothing the log does not, which is why a backup leaves it
\* out" (src/src/fold_store.rs, reformat): no more do the tables of a restore.
TablesTrue == manifest = "complete" => IsPrefix(tables, EventsOfCopy)

\* An erasure that was over when a run began has reached the target when it ends.
ErasureCarries == manifest = "complete" => copyDb.keys \cap carried = {}
=============================================================================
