--------------------------- MODULE EffectJournal ---------------------------
(***************************************************************************)
(* The inside of an effect's invocations, beside the requests of           *)
(* CommandDispatch and over the same log: every call of an arm is looked   *)
(* up in the journal, and performed and recorded when it is not there.     *)
(* Calls that run a command append under a tag that names the call.        *)
(*                                                                         *)
(* An arm is a fixed sequence of calls.  It runs again from the first one  *)
(* after every failure and every crash, until its invocation is terminal.  *)
(***************************************************************************)
EXTENDS CommandDispatch

CONSTANTS
  Invocations,   \* the positions that trigger an arm
  Script         \* the calls of each, in order

ASSUME ScriptAssumption ==
  /\ Script \in [Invocations -> Seq(Calls)]
  /\ \A i, j \in Invocations : \A m \in DOMAIN Script[i], n \in DOMAIN Script[j] :
       Script[i][m] = Script[j][n] => i = j /\ m = n

VARIABLES
  journal,    \* the recorded answer of each call, or "none"
  done,       \* how an invocation ended, or "no"
  attempt,    \* the attempt at an invocation that is running
  wedged,     \* an attempt failed in this process
  sent        \* how often the far side got an http call

journalVars == <<journal, done, attempt, wedged, sent>>
vars == <<log, drained, faults, dispatchVars, journalVars>>

Outcomes == Refusals \cup {"committed", "response"}

\* Where an attempt is; the call it is at; the tag of the call last asked
\* about; the position the current command's fold covers; and the answer
\* about to be recorded.
AttemptStages == {"idle", "ask", "send", "fold", "append", "record"}
AttemptState == [stage : AttemptStages, at : Nat \ {0}, held : Tags \cup {NoTag},
                 after : Nat, outcome : Outcomes \cup {"none"}]
NoAttempt == [stage |-> "idle", at |-> 1, held |-> NoTag, after |-> 0, outcome |-> "none"]

JournalInit ==
  /\ journal = [c \in Calls |-> "none"]
  /\ done = [i \in Invocations |-> "no"]
  /\ attempt = [i \in Invocations |-> NoAttempt]
  /\ wedged = [i \in Invocations |-> FALSE]
  /\ sent = [c \in Calls |-> 0]

-----------------------------------------------------------------------------

In(i, stage) == attempt[i].stage = stage
Call(i) == Script[i][attempt[i].at]

\* The attempt failed: the lane parks and the whole arm runs again.
Wedge(i) ==
  /\ attempt' = [attempt EXCEPT ![i] = NoAttempt]
  /\ wedged' = [wedged EXCEPT ![i] = TRUE]

\* try_invocation: a world of its own, and the arm from its first call.
Attempt(i) ==
  /\ done[i] = "no"
  /\ In(i, "idle")
  /\ attempt' = [attempt EXCEPT ![i].stage = "ask"]
  /\ UNCHANGED <<log, drained, faults, dispatchVars, journal, done, wedged, sent>>

\* Journal::recorded: publish the call's tag, then read its row.  A call with
\* a row is answered from it.
Ask(i) ==
  /\ In(i, "ask")
  /\ attempt[i].at <= Len(Script[i])
  /\ attempt' = [attempt EXCEPT
       ![i].held = Key[Call(i)],
       ![i].at = IF journal[Call(i)] = "none" THEN @ ELSE @ + 1,
       ![i].stage = IF journal[Call(i)] # "none" THEN "ask"
                    ELSE IF Call(i) \in Invokes THEN "fold" ELSE "send"]
  /\ UNCHANGED <<log, drained, faults, dispatchVars, journal, done, wedged, sent>>

\* An http call that is answered, or is not although it may have arrived.
Request(i) ==
  /\ In(i, "send")
  /\ sent' = [sent EXCEPT ![Call(i)] = @ + 1]
  /\ attempt' = [attempt EXCEPT ![i].stage = "record", ![i].outcome = "response"]
  /\ UNCHANGED <<log, drained, faults, dispatchVars, journal, done, wedged>>

NoResponse(i) ==
  /\ In(i, "send")
  /\ faults < MaxFaults
  /\ faults' = faults + 1
  /\ \E arrived \in {0, 1} : sent' = [sent EXCEPT ![Call(i)] = @ + arrived]
  /\ Wedge(i)
  /\ UNCHANGED <<log, drained, dispatchVars, journal, done>>

\* The command of an invoke folds its boundary and decides.
InvokeFold(i) ==
  /\ In(i, "fold")
  /\ LET decision == Decision(Call(i), Cardinality(Matching(log, Call(i), 0)))
     IN  attempt' = [attempt EXCEPT
           ![i].after = Len(log),
           ![i].stage = IF decision = "emit" THEN "append" ELSE "record",
           ![i].outcome = IF decision = "emit" THEN "none" ELSE decision]
  /\ UNCHANGED <<log, drained, faults, dispatchVars, journal, done, wedged, sent>>

\* It appends under the tag the journal published.
InvokeAppend(i) ==
  /\ ~drained
  /\ Admissible(log, Call(i), attempt[i].held, attempt[i].after)
  /\ log' = log \o Batch(log, Call(i), attempt[i].held)

InvokeLand(i) ==
  /\ In(i, "append")
  /\ InvokeAppend(i)
  /\ attempt' = [attempt EXCEPT ![i].stage = "record", ![i].outcome = "committed"]
  /\ UNCHANGED <<drained, faults, dispatchVars, journal, done, wedged, sent>>

\* Seeded defect of InvokeRefused: a failed clause is taken for a duplicate
\* and the call for done.
InvokeRefusedDone(i) ==
  /\ In(i, "append")
  /\ drained \/ ~Admissible(log, Call(i), attempt[i].held, attempt[i].after)
  /\ attempt' = [attempt EXCEPT ![i].stage = "record", ![i].outcome = "committed"]
  /\ UNCHANGED <<log, drained, faults, dispatchVars, journal, done, wedged, sent>>

\* A failed clause, the existence clause included, and a shut writer leave as
\* errors: an invoke gets one attempt, and the invocation wedges.
InvokeRefused(i) ==
  /\ In(i, "append")
  /\ drained \/ ~Admissible(log, Call(i), attempt[i].held, attempt[i].after)
  /\ Wedge(i)
  /\ UNCHANGED <<log, drained, faults, dispatchVars, journal, done, sent>>

\* Journal::record: the row is written by itself, and the arm goes on.
RecordRow(i) == journal' = [journal EXCEPT ![Call(i)] = attempt[i].outcome]

RecordCall(i) ==
  /\ In(i, "record")
  /\ RecordRow(i)
  /\ attempt' = [attempt EXCEPT ![i].stage = "ask", ![i].at = @ + 1]
  /\ UNCHANGED <<log, drained, faults, dispatchVars, done, wedged, sent>>

\* A read, the append or the journal's write fails; the writes may have landed.
JournalFault(i) ==
  /\ attempt[i].stage \in {"ask", "fold", "append", "record"}
  /\ faults < MaxFaults
  /\ faults' = faults + 1
  /\ \/ UNCHANGED <<log, journal>>
     \/ In(i, "append") /\ InvokeAppend(i) /\ UNCHANGED journal
     \/ In(i, "record") /\ RecordRow(i) /\ UNCHANGED log
  /\ Wedge(i)
  /\ UNCHANGED <<drained, dispatchVars, done, sent>>

End(i, how) ==
  /\ done' = [done EXCEPT ![i] = how]
  /\ attempt' = [attempt EXCEPT ![i] = NoAttempt]
  /\ UNCHANGED <<log, drained, faults, dispatchVars, journal, wedged, sent>>

\* The arm ran to its end.
Complete(i) ==
  /\ In(i, "ask")
  /\ attempt[i].at > Len(Script[i])
  /\ End(i, "completed")

\* The arm fails by its author's decision, or needs an erased subject.
FailTerminally(i) ==
  /\ In(i, "ask")
  /\ End(i, "failed")

\* An operator gives a wedged invocation up.
SkipWedged(i) ==
  /\ done[i] = "no"
  /\ In(i, "idle")
  /\ wedged[i]
  /\ End(i, "skipped")

\* The process goes away and comes back.
Crash ==
  /\ faults < MaxFaults
  /\ faults' = faults + 1
  /\ drained' = FALSE
  /\ attempt' = [i \in Invocations |-> NoAttempt]
  /\ wedged' = [i \in Invocations |-> FALSE]
  /\ DispatchStops
  /\ UNCHANGED <<log, journal, done, sent>>

-----------------------------------------------------------------------------

Init ==
  /\ log = <<>>
  /\ drained = FALSE
  /\ faults = 0
  /\ DispatchInit
  /\ JournalInit

RequestStep(r) == (Send(r) \/ Progress(r) \/ Fault(r)) /\ UNCHANGED journalVars

InvocationStep(i) ==
  \/ Attempt(i)
  \/ Ask(i)
  \/ Request(i)
  \/ NoResponse(i)
  \/ InvokeFold(i)
  \/ InvokeLand(i)
  \/ InvokeRefused(i)
  \/ RecordCall(i)
  \/ JournalFault(i)
  \/ Complete(i)
  \/ FailTerminally(i)
  \/ SkipWedged(i)

Next ==
  \/ \E r \in Requests : RequestStep(r)
  \/ \E i \in Invocations : InvocationStep(i)
  \/ Drain /\ UNCHANGED journalVars
  \/ Crash

\* A request is a thread of its own, and a thread that can run does.
Fairness == \A r \in Requests : WF_vars(Progress(r) /\ UNCHANGED journalVars)

Spec == Init /\ [][Next]_vars
FairSpec == Spec /\ Fairness

=============================================================================
