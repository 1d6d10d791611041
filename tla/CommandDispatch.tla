--------------------------- MODULE CommandDispatch ---------------------------
(***************************************************************************)
(* The life of a request: dispatch::run_command under the retry budget of  *)
(* Runtime::run_with_retry, against a log other requests and effects append*)
(* to.  The cycle of fold, decide and append is cut where another          *)
(* execution can get in between.                                           *)
(***************************************************************************)
EXTENDS CommandLog

CONSTANTS
  MaxAttempts,   \* HEKLA_MAX_ATTEMPTS after its clamping, at least 1
  MaxSends,      \* bound on requests sent, repeats included
  MaxFaults      \* bound on crashes, failed reads and failed writes

ASSUME BudgetAssumption == MaxAttempts \in Nat \ {0} /\ MaxSends \in Nat /\ MaxFaults \in Nat

VARIABLES
  log,        \* the committed events
  drained,    \* the write coordinator has shut down
  faults,     \* how often something failed
  sends,      \* how many requests were sent
  exec,       \* the execution of each request, as far as it is
  reply       \* what the client was told last

dispatchVars == <<sends, exec, reply>>

Stages == {"idle", "fold", "append", "landed", "recover", "check"}

\* Where an execution is; the position its folded state covers and that state,
\* the number of events folded; how many of its appends conflicted; and where
\* the events it appended start.
Execution == [stage : Stages, after : Nat, seen : Nat, tries : Nat, first : Nat]
Idle == [stage |-> "idle", after |-> 0, seen |-> 0, tries |-> 0, first |-> 0]

NoReply == [kind |-> "none"]
Committed(positions) == [kind |-> "committed", positions |-> positions]
Said(kind) == [kind |-> kind]

Replies == [kind : {"committed"}, positions : SUBSET Nat]
           \cup [kind : Refusals \cup {"none", "conflict", "unavailable", "error"}]

DispatchInit ==
  /\ sends = 0
  /\ exec = [r \in Requests |-> Idle]
  /\ reply = [r \in Requests |-> NoReply]

-----------------------------------------------------------------------------

At(r, stage) == exec[r].stage = stage
To(r, stage) == exec' = [exec EXCEPT ![r].stage = stage]

\* The client is told, and nothing of the execution is left.
Tell(r, answer) ==
  /\ reply' = [reply EXCEPT ![r] = answer]
  /\ exec' = [exec EXCEPT ![r] = Idle]

\* A client sends a request, for the first time or again.
Send(r) ==
  /\ At(r, "idle")
  /\ sends < MaxSends
  /\ sends' = sends + 1
  /\ To(r, "fold")
  /\ UNCHANGED <<log, drained, faults, reply>>

\* Seeded defect of Fold: an attempt starts from nothing, but reads only what
\* the last one did not.
FoldAnew(r) ==
  /\ At(r, "fold")
  /\ LET seen == Cardinality(Matching(log, r, exec[r].after))
     IN  exec' = [exec EXCEPT
           ![r].seen = seen,
           ![r].after = Len(log),
           ![r].stage = IF Decision(r, seen) = "emit" THEN "append" ELSE "check"]
  /\ UNCHANGED <<log, drained, faults, sends, reply>>

\* An attempt: fold what landed past the state held so far, and decide.
Fold(r) ==
  /\ At(r, "fold")
  /\ LET seen == exec[r].seen + Cardinality(Matching(log, r, exec[r].after))
     IN  exec' = [exec EXCEPT
           ![r].seen = seen,
           ![r].after = Len(log),
           ![r].stage = IF Decision(r, seen) = "emit" THEN "append" ELSE "check"]
  /\ UNCHANGED <<log, drained, faults, sends, reply>>

\* The events join the log under the two clauses of the append condition.
AppendBatch(r) ==
  /\ ~drained
  /\ Admissible(log, r, Key[r], exec[r].after)
  /\ log' = log \o Batch(log, r, Key[r])

Land(r) ==
  /\ At(r, "append")
  /\ AppendBatch(r)
  /\ exec' = [exec EXCEPT ![r].stage = "landed", ![r].first = Len(log) + 1]
  /\ UNCHANGED <<drained, faults, sends, reply>>

\* Seeded defect of FindDuplicate: retried like a conflict, but not counted.
FindDuplicateAgain(r) ==
  /\ At(r, "append")
  /\ ~drained
  /\ Duplicate(log, Key[r])
  /\ To(r, "fold")
  /\ UNCHANGED <<log, drained, faults, sends, reply>>

\* The existence clause failed.  The attempt loop ends, since the error is
\* not a conflict, and the outcome is looked up.
FindDuplicate(r) ==
  /\ At(r, "append")
  /\ ~drained
  /\ Duplicate(log, Key[r])
  /\ To(r, "recover")
  /\ UNCHANGED <<log, drained, faults, sends, reply>>

\* Seeded defect of Beaten: the budget is counted down from where it starts.
BeatenDown(r) ==
  /\ At(r, "append")
  /\ ~drained
  /\ Moved(log, r, exec[r].after)
  /\ exec' = [exec EXCEPT ![r].stage = "fold", ![r].tries = @ - 1]
  /\ UNCHANGED <<log, drained, faults, sends, reply>>

\* The boundary clause failed.  When both clauses fail, the store may name
\* either.
Beaten(r) ==
  /\ At(r, "append")
  /\ ~drained
  /\ Moved(log, r, exec[r].after)
  /\ \/ /\ exec[r].tries + 1 < MaxAttempts
        /\ exec' = [exec EXCEPT ![r].stage = "fold", ![r].tries = @ + 1]
        /\ UNCHANGED reply
     \/ /\ exec[r].tries + 1 >= MaxAttempts
        /\ Tell(r, Said("conflict"))
  /\ UNCHANGED <<log, drained, faults, sends>>

\* The write coordinator is gone.
ShutOut(r) ==
  /\ At(r, "append")
  /\ drained
  /\ Tell(r, Said("unavailable"))
  /\ UNCHANGED <<log, drained, faults, sends>>

\* The client is told where its events landed.
Answer(r) ==
  /\ At(r, "landed")
  /\ Tell(r, Committed(exec[r].first..(exec[r].first + Emits[r] - 1)))
  /\ UNCHANGED <<log, drained, faults, sends>>

\* Seeded defect of Recovered: the first event found is taken for the outcome.
RecoveredFirst(tag) ==
  LET found == Bearing(log, tag)
  IN  IF found = {} THEN Said("error") ELSE Committed({CHOOSE p \in found : TRUE})

\* find_committed_outcome: the positions that carry the tag, unless they are
\* of more than one execution.
Recovered(tag) ==
  LET found == Bearing(log, tag)
  IN  IF found = {} \/ \E p, q \in found : log[p].batch # log[q].batch
        THEN Said("error")
        ELSE Committed(found)

Recover(r) ==
  /\ At(r, "recover")
  /\ Tell(r, Recovered(Key[r]))
  /\ UNCHANGED <<log, drained, faults, sends>>

\* Seeded defect of Check: only a decision to do nothing is looked up.
CheckNothingOnly(r) ==
  /\ At(r, "check")
  /\ Tell(r, IF Full[r] = "nothing" /\ Duplicate(log, Key[r])
               THEN Recovered(Key[r])
               ELSE Said(Decision(r, exec[r].seen)))
  /\ UNCHANGED <<log, drained, faults, sends>>

\* Nothing is to be appended.  A request with a key and a boundary may have
\* folded its own duplicate, so the tag is looked up before it is answered.
Check(r) ==
  /\ At(r, "check")
  /\ Tell(r, IF Reads[r] # {} /\ Duplicate(log, Key[r])
               THEN Recovered(Key[r])
               ELSE Said(Decision(r, exec[r].seen)))
  /\ UNCHANGED <<log, drained, faults, sends>>

\* A read or the append fails.  A failed append may have landed.
Fault(r) ==
  /\ exec[r].stage \in {"fold", "append", "recover", "check"}
  /\ faults < MaxFaults
  /\ faults' = faults + 1
  /\ \/ UNCHANGED log
     \/ At(r, "append") /\ AppendBatch(r)
  /\ Tell(r, Said("error"))
  /\ UNCHANGED <<drained, sends>>

\* Graceful shutdown joins the writer; what is in flight still runs.
Drain ==
  /\ ~drained
  /\ drained' = TRUE
  /\ UNCHANGED <<log, faults, dispatchVars>>

\* The process goes away with every execution in it.
DispatchStops ==
  /\ exec' = [r \in Requests |-> Idle]
  /\ UNCHANGED <<sends, reply>>

\* What the process does about a request it has.
Progress(r) ==
  \/ Fold(r)
  \/ Land(r)
  \/ FindDuplicate(r)
  \/ Beaten(r)
  \/ ShutOut(r)
  \/ Answer(r)
  \/ Recover(r)
  \/ Check(r)

=============================================================================
