---------------------------- MODULE CommandSafety ----------------------------
(***************************************************************************)
(* What dispatch and the journal owe clients, effects and the log.         *)
(***************************************************************************)
EXTENDS EffectJournal

TypeOK ==
  /\ log \in Seq(Record)
  /\ drained \in BOOLEAN
  /\ faults \in Nat
  /\ sends \in Nat
  /\ exec \in [Requests -> Execution]
  /\ reply \in [Requests -> Replies]
  /\ journal \in [Calls -> Outcomes \cup {"none"}]
  /\ done \in [Invocations -> {"no", "completed", "failed", "skipped"}]
  /\ attempt \in [Invocations -> AttemptState]
  /\ wedged \in [Invocations -> BOOLEAN]
  /\ sent \in [Calls -> Nat]

\* A key commits once, whatever is sent twice, retried, crashed or replayed:
\* all events of a tag are of one execution.  dispatch.rs reads them back as
\* one outcome and calls a second execution a double commit.
KeyCommitsOnce ==
  \A tag \in Tags : \A p, q \in Bearing(log, tag) : log[p].batch = log[q].batch

\* Every command that appended decided on everything its boundary selects at
\* the moment its events landed: the log is one that commands run one after
\* the other could have written.  A fold that is carried over attempts, a
\* boundary position or a lost clause may break it.
Serial == INSTANCE SerialCommands WITH log <- log
ImplementsSerial == Serial!Spec

Succeeded(r) == reply[r].kind = "committed"

\* No answer denies a commit: from the moment a key is in the log, its
\* requests are told of the commit, or that they may try again, and never that
\* the command refused or had nothing to do.  A duplicate folds the events of
\* the execution it repeats, and then decides against itself.
Denies(r) ==
  /\ ~At(r, "idle") /\ At(r, "idle")'
  /\ UNCHANGED faults
  /\ reply'[r].kind \in Refusals
NeverDenied == [][\A r \in Requests : Denies(r) => ~Duplicate(log, Key[r])]_vars

\* Every request is answered or lost with the process: no sequence of
\* conflicts, duplicates and failures keeps one running.
EveryAnswer == \A r \in Requests : ~At(r, "idle") ~> At(r, "idle")

\* What a client is told landed is in the log, under its key.
RepliesTrue ==
  \A r \in Requests : Succeeded(r) =>
    \A p \in reply[r].positions :
      p \in 1..Len(log) /\ log[p].tag = Key[r]

\* The rows of an invocation are those of a prefix of its calls.
ResumesAtTail ==
  \A i \in Invocations : \A m, n \in DOMAIN Script[i] :
    m < n /\ journal[Script[i][n]] # "none" => journal[Script[i][m]] # "none"

\* A recorded answer is of a call that took effect.
RowsTell ==
  \A c \in Calls :
    /\ journal[c] = "committed" => Bearing(log, Key[c]) # {}
    /\ journal[c] = "response" => sent[c] > 0

\* What is on record happened, through conflicts, retries and crashes: the events a
\* client was told of are in the log under its key, and so are those of an invoke whose
\* row says it committed; the http request of a row with a response arrived.  The rows
\* leave no gap, so an attempt replays what is done and resumes at the first call that
\* is not, and an invocation that ran to its end has recorded every call.
AnswersTrue ==
  /\ RepliesTrue /\ RowsTell /\ ResumesAtTail
  /\ \A i \in Invocations : done[i] = "completed" =>
       \A n \in DOMAIN Script[i] : journal[Script[i][n]] # "none"

\* Two requests of one key are told of the same commit.
Agree(r, s) ==
  Succeeded(r) /\ Succeeded(s)' /\ Key[r] = Key[s] /\ Key[r] # NoTag => reply'[s] = reply[r]

\* The call c is neither performed again nor recorded anew.
Stays(c) ==
  /\ journal'[c] = journal[c]
  /\ sent'[c] = sent[c]
  /\ Bearing(log', Key[c]) = Bearing(log, Key[c])

\* What was answered stands.  Clients of one key that are told of a commit are told of
\* the same one, by the execution itself or from the log, to a request sent again or to
\* several; and a call with a row keeps it and is never performed again, in any attempt
\* of any process.
AnswersStand ==
  [][/\ \A r, s \in Requests : Agree(r, s)
     /\ \A c \in Calls : journal[c] # "none" => Stays(c)]_vars

\* What the documentation says of an invoke whose row was lost: the replay
\* finds the commit by its tag and records its outcome, so no row tells the
\* arm that a command refused whose events are in the log.
InvokeRecovers ==
  \A c \in Invokes : journal[c] \in Refusals => Bearing(log, Key[c]) = {}

=============================================================================
