---------------------------- MODULE CommandProofs ----------------------------
(***************************************************************************)
(* Proofs about requests and effect invocations over one log, for every    *)
(* set of them, every shape of command, every key and every number of      *)
(* retries, faults and crashes: types, that a key commits once, that the   *)
(* log is one that commands run one at a time could have written, and that *)
(* what clients and rows were told is true, stands and is not denied.      *)
(*                                                                         *)
(* A key and the serial log need what an execution knows between its fold  *)
(* and its append.  Folding says that the state it holds counts exactly the*)
(* events of its boundary up to the position it holds, also when the count *)
(* was put together over several attempts; Asking says that a call is      *)
(* performed under its own tag.  The answers need what is known between    *)
(* the append and the answer or the row: Telling and Recording.            *)
(***************************************************************************)
EXTENDS CommandSafety, TLAPS, SequenceTheorems, FiniteSetTheorems

-----------------------------------------------------------------------------
(* Facts about the log.                                                    *)

\* The events of the boundary up to a position.
Upto(history, d, n) == {p \in 1..Len(history) : p <= n /\ history[p].slice \in Reads[d]}

\* A batch joins the log behind what is there, which it leaves alone.
LEMMA Growth ==
  ASSUME NEW history \in Seq(Record), NEW d \in Deciders, NEW tag \in Tags \cup {NoTag}
  PROVE  LET grown == history \o Batch(history, d, tag)
         IN  /\ grown \in Seq(Record)
             /\ Len(grown) = Len(history) + Emits[d]
             /\ \A p \in 1..Len(history) : grown[p] = history[p]
             /\ \A p \in Len(history) + 1..Len(history) + Emits[d] :
                  grown[p] = [slice |-> Writes[d], tag |-> tag, batch |-> Len(history) + 1]
<1> DEFINE batch == Batch(history, d, tag)
<1>1. Emits[d] \in Nat \ {0} /\ Writes[d] \in Slices
  BY ShapeAssumption
<1>2. /\ batch \in Seq(Record)
      /\ Len(batch) = Emits[d]
      /\ \A k \in 1..Emits[d] :
           batch[k] = [slice |-> Writes[d], tag |-> tag, batch |-> Len(history) + 1]
  <2> DEFINE event == [slice |-> Writes[d], tag |-> tag, batch |-> Len(history) + 1]
  <2>1. event \in Record
    BY <1>1 DEF Record
  <2>2. batch = [k \in 1..Emits[d] |-> event]
    BY DEF Batch
  <2> HIDE DEF batch, event
  <2>3. batch \in Seq(Record) /\ Len(batch) = Emits[d]
    <3>1. PICK n \in Nat : n = Emits[d]
      BY <1>1
    <3>2. batch = [k \in 1..n |-> event]
      BY <2>2, <3>1
    <3>3. batch \in [1..n -> Record]
      BY <2>1, <3>2
    <3>4. batch \in Seq(Record) /\ Len(batch) = n
      BY <3>1, <3>2, <3>3
    <3>5. QED BY <3>1, <3>4
  <2>4. \A k \in 1..Emits[d] : batch[k] = event
    BY <2>2
  <2>5. QED
    BY <2>3, <2>4 DEF event
<1> HIDE DEF batch
<1>3. /\ history \o batch \in Seq(Record)
      /\ Len(history \o batch) = Len(history) + Emits[d]
      /\ \A p \in 1..Len(history) : (history \o batch)[p] = history[p]
      /\ \A p \in Len(history) + 1..Len(history) + Emits[d] :
           (history \o batch)[p] = batch[p - Len(history)]
  BY <1>1, <1>2, SMTT(20)
<1>4. QED
  BY <1>1, <1>2, <1>3 DEF batch

\* What a fold counts is a number.
LEMMA Countable ==
  ASSUME NEW history \in Seq(Record), NEW d, NEW n \in Nat
  PROVE  /\ IsFiniteSet(Matching(history, d, n)) /\ Cardinality(Matching(history, d, n)) \in Nat
         /\ IsFiniteSet(Upto(history, d, n)) /\ Cardinality(Upto(history, d, n)) \in Nat
<1>1. IsFiniteSet(1..Len(history))
  BY FS_Interval
<1>2. Matching(history, d, n) \subseteq 1..Len(history) /\ Upto(history, d, n) \subseteq 1..Len(history)
  BY DEF Matching, Upto
<1>3. QED
  BY <1>1, <1>2, FS_Subset, FS_CardinalityType

\* A fold that continues where the last one stopped counts each event once.
LEMMA Continued ==
  ASSUME NEW history \in Seq(Record), NEW d, NEW n \in Nat, n <= Len(history)
  PROVE  Cardinality(Upto(history, d, n)) + Cardinality(Matching(history, d, n))
           = Cardinality(Upto(history, d, Len(history)))
<1>1. Upto(history, d, Len(history)) = Upto(history, d, n) \cup Matching(history, d, n)
  BY DEF Upto, Matching
<1>2. Upto(history, d, n) \cap Matching(history, d, n) = {}
  BY DEF Upto, Matching
<1>3. Cardinality({}) = 0
  BY FS_EmptySet
<1> DEFINE old == Upto(history, d, n)
           new == Matching(history, d, n)
<1>4. /\ IsFiniteSet(old) /\ Cardinality(old) \in Nat
      /\ IsFiniteSet(new) /\ Cardinality(new) \in Nat
  BY Countable
<1> HIDE DEF old, new
<1>5. Cardinality(old \cup new) = Cardinality(old) + Cardinality(new) - Cardinality(old \cap new)
  BY <1>4, FS_Union
<1>6. Cardinality(old \cap new) = 0 /\ old \cup new = Upto(history, d, Len(history))
  BY <1>1, <1>2, <1>3 DEF old, new
<1>7. Cardinality(old) + Cardinality(new) = Cardinality(old \cup new)
  BY <1>4, <1>5, <1>6
<1>8. QED
  BY <1>6, <1>7 DEF old, new

\* Whatever joins the log leaves what was folded as it is.
LEMMA Stable ==
  ASSUME NEW history \in Seq(Record), NEW c \in Deciders, NEW tag \in Tags \cup {NoTag}
  PROVE  /\ Len(history) \in Nat /\ Len(history \o Batch(history, c, tag)) \in Nat
         /\ Len(history) <= Len(history \o Batch(history, c, tag))
         /\ \A d : \A n \in Nat : n <= Len(history) =>
              Upto(history \o Batch(history, c, tag), d, n) = Upto(history, d, n)
<1> DEFINE grown == history \o Batch(history, c, tag)
<1>1. Emits[c] \in Nat
  BY ShapeAssumption
<1>2. Len(grown) \in Nat /\ Len(history) \in Nat /\ Len(grown) >= Len(history)
      /\ \A p \in 1..Len(history) : grown[p] = history[p]
  BY Growth, <1>1
<1> HIDE DEF grown
<1>3. \A d : \A n \in Nat : n <= Len(history) => Upto(grown, d, n) = Upto(history, d, n)
  BY <1>2 DEF Upto
<1>4. QED
  BY <1>2, <1>3 DEF grown

-----------------------------------------------------------------------------
(* Types.                                                                  *)

\* A call that is being performed is a call of the arm, is performed under
\* its own tag, and appends only if it runs a command.
Performing(i) == attempt[i].stage \in {"send", "fold", "append", "record"}

Asking ==
  \A i \in Invocations :
    /\ Performing(i) => /\ attempt[i].at \in DOMAIN Script[i]
                        /\ attempt[i].held = Key[Call(i)]
    /\ attempt[i].stage \in {"fold", "append"} => Call(i) \in Invokes

\* What a request is about to do is what it decided.
Deciding ==
  \A r \in Requests :
    /\ At(r, "append") => Decision(r, exec[r].seen) = "emit"
    /\ At(r, "check") => Decision(r, exec[r].seen) # "emit"

TypeInv == TypeOK /\ Asking /\ Deciding

USE DEF dispatchVars, journalVars

LEMMA KeyType ==
  /\ \A d \in Deciders : Key[d] \in Tags \cup {NoTag}
  /\ \A c \in Calls : Key[c] \in Tags \cup {NoTag}
BY KeyAssumption DEF Deciders

LEMMA DecisionType ==
  \A d \in Deciders, n \in Nat : Decision(d, n) # "emit" => Decision(d, n) \in Refusals
BY ShapeAssumption DEF Decision

LEMMA CallType ==
  ASSUME TypeOK, NEW i \in Invocations, attempt[i].at \in DOMAIN Script[i]
  PROVE  Call(i) \in Calls
<1>1. Script[i] \in Seq(Calls)
  BY ScriptAssumption
<1>2. QED
  BY <1>1, ElementOfSeq DEF Call

LEMMA RecoveredType == ASSUME TypeOK, NEW tag PROVE Recovered(tag) \in Replies
<1>1. Bearing(log, tag) \subseteq Nat
  BY DEF Bearing
<1>2. QED
  BY <1>1 DEF Recovered, Said, Committed, Replies

LEMMA TypeInit == Init => TypeInv
<1> SUFFICES ASSUME Init PROVE TypeInv
  OBVIOUS
<1>1. Idle \in Execution /\ NoReply \in Replies /\ NoAttempt \in AttemptState
  BY DEF Idle, Execution, Stages, NoReply, Replies, NoAttempt, AttemptState, AttemptStages
<1>2. TypeOK
  <2>0. drained \in BOOLEAN
    BY Zenon DEF Init
  <2>1. log \in Seq(Record) /\ faults \in Nat
    BY DEF Init
  <2>2. sends \in Nat /\ exec \in [Requests -> Execution] /\ reply \in [Requests -> Replies]
    BY <1>1 DEF Init, DispatchInit
  <2>3. /\ journal \in [Calls -> Outcomes \cup {"none"}]
        /\ done \in [Invocations -> {"no", "completed", "failed", "skipped"}]
        /\ attempt \in [Invocations -> AttemptState]
        /\ wedged \in [Invocations -> BOOLEAN]
        /\ sent \in [Calls -> Nat]
    BY <1>1 DEF Init, JournalInit
  <2>4. QED
    BY <2>0, <2>1, <2>2, <2>3 DEF TypeOK
<1>3. Asking /\ Deciding
  BY DEF Init, DispatchInit, JournalInit, Asking, Performing, Deciding, At, Idle, NoAttempt
<1>4. QED
  BY <1>2, <1>3 DEF TypeInv

\* Telling a client ends the execution.
LEMMA TypeTell ==
  ASSUME TypeOK, Deciding, NEW r \in Requests, NEW answer \in Replies, Tell(r, answer)
  PROVE  exec' \in [Requests -> Execution] /\ reply' \in [Requests -> Replies] /\ Deciding'
BY DEF TypeOK, Tell, Idle, Execution, Stages, Deciding, At

\* An execution goes on as another one.
LEMMA TypeStep ==
  ASSUME TypeOK, Deciding, NEW r \in Requests, NEW next \in Execution,
         exec' = [exec EXCEPT ![r] = next],
         next.stage = "append" => Decision(r, next.seen) = "emit",
         next.stage = "check" => Decision(r, next.seen) # "emit"
  PROVE  exec' \in [Requests -> Execution] /\ Deciding'
BY DEF TypeOK, Deciding, At

\* Requests append typed events.
LEMMA TypeAppendBatch ==
  ASSUME TypeOK, NEW r \in Requests, AppendBatch(r)
  PROVE  log' \in Seq(Record)
<1>1. r \in Deciders /\ Key[r] \in Tags \cup {NoTag}
  BY KeyType DEF Deciders
<1>2. QED
  BY <1>1, Growth DEF AppendBatch, TypeOK

LEMMA TypeRequest ==
  ASSUME TypeInv, NEW r \in Requests, RequestStep(r)
  PROVE  TypeInv'
<1>0. r \in Deciders /\ exec[r] \in Execution /\ Len(log) \in Nat
  BY DEF Deciders, TypeInv, TypeOK
<1>1. Asking'
  BY DEF RequestStep, TypeInv, Asking, Performing, Call
<1>2. CASE Send(r) \/ FindDuplicate(r)
  <2> PICK stage \in {"fold", "recover"} : exec' = [exec EXCEPT ![r].stage = stage]
    BY <1>2 DEF Send, FindDuplicate, To
  <2> DEFINE next == [exec[r] EXCEPT !.stage = stage]
  <2>1. next \in Execution /\ next.stage = stage
    BY <1>0 DEF Execution, Stages
  <2>2. exec' = [exec EXCEPT ![r] = next]
    BY <1>0 DEF TypeInv, TypeOK
  <2> HIDE DEF next
  <2>3. exec' \in [Requests -> Execution] /\ Deciding'
    BY <2>1, <2>2, TypeStep DEF TypeInv
  <2>4. QED
    BY <1>1, <1>2, <2>3 DEF RequestStep, Send, FindDuplicate, TypeInv, TypeOK
<1>3. CASE Fold(r)
  <2> DEFINE seen == exec[r].seen + Cardinality(Matching(log, r, exec[r].after))
             stage == IF Decision(r, seen) = "emit" THEN "append" ELSE "check"
             next == [exec[r] EXCEPT !.seen = seen, !.after = Len(log), !.stage = stage]
  <2>1. seen \in Nat
    BY <1>0, Countable DEF TypeInv, TypeOK, Execution
  <2>2. exec' = [exec EXCEPT ![r] = next]
    BY <1>0, <1>3 DEF Fold, TypeInv, TypeOK
  <2> HIDE DEF seen
  <2>3. next \in Execution /\ next.stage = stage /\ next.seen = seen
    BY <1>0, <2>1 DEF Execution, Stages
  <2>4. exec' \in [Requests -> Execution] /\ Deciding'
    <3>1. /\ stage = "append" => Decision(r, seen) = "emit"
          /\ stage = "check" => Decision(r, seen) # "emit"
      OBVIOUS
    <3> HIDE DEF next, stage
    <3>2. QED
      BY <2>2, <2>3, <3>1, TypeStep DEF TypeInv
  <2>5. QED
    BY <1>1, <1>3, <2>4 DEF RequestStep, Fold, TypeInv, TypeOK
<1>4. CASE Land(r)
  <2> PICK first \in Nat : first = Len(log) + 1
    BY <1>0
  <2> DEFINE next == [exec[r] EXCEPT !.stage = "landed", !.first = first]
  <2>1. log' \in Seq(Record)
    BY <1>4, TypeAppendBatch DEF Land, TypeInv
  <2>2. exec' = [exec EXCEPT ![r] = next]
    BY <1>0, <1>4 DEF Land, TypeInv, TypeOK
  <2>3. next \in Execution /\ next.stage = "landed"
    BY <1>0 DEF Execution, Stages
  <2> HIDE DEF next
  <2>4. exec' \in [Requests -> Execution] /\ Deciding'
    BY <2>2, <2>3, TypeStep DEF TypeInv
  <2>5. QED
    BY <1>1, <1>4, <2>1, <2>4 DEF RequestStep, Land, TypeInv, TypeOK
<1>5. CASE Beaten(r)
  <2>1. CASE exec' = [exec EXCEPT ![r].stage = "fold", ![r].tries = @ + 1] /\ UNCHANGED reply
    <3> PICK tries \in Nat : tries = exec[r].tries + 1
      BY <1>0 DEF Execution
    <3> DEFINE next == [exec[r] EXCEPT !.stage = "fold", !.tries = tries]
    <3>1. exec' = [exec EXCEPT ![r] = next]
      BY <1>0, <2>1 DEF TypeInv, TypeOK
    <3>2. next \in Execution /\ next.stage = "fold"
      BY <1>0 DEF Execution, Stages
    <3> HIDE DEF next
    <3>3. exec' \in [Requests -> Execution] /\ Deciding'
      BY <3>1, <3>2, TypeStep DEF TypeInv
    <3>4. QED
      BY <1>1, <1>5, <2>1, <3>3 DEF RequestStep, Beaten, TypeInv, TypeOK
  <2>2. CASE Tell(r, Said("conflict"))
    <3>1. Said("conflict") \in Replies
      BY DEF Said, Replies
    <3>2. QED
      BY <1>1, <1>5, <2>2, <3>1, TypeTell DEF RequestStep, Beaten, TypeInv, TypeOK
  <2>3. QED BY <1>5, <2>1, <2>2 DEF Beaten
<1>6. CASE ShutOut(r) \/ Answer(r) \/ Recover(r) \/ Check(r)
  <2>1. Said("unavailable") \in Replies /\ Recovered(Key[r]) \in Replies
    BY RecoveredType DEF TypeInv, Said, Replies
  <2>2. Committed(exec[r].first..(exec[r].first + Emits[r] - 1)) \in Replies
    <3>1. exec[r].first \in Nat /\ Emits[r] \in Nat \ {0}
      BY <1>0, ShapeAssumption DEF Execution
    <3>2. exec[r].first..(exec[r].first + Emits[r] - 1) \subseteq Nat
      BY <3>1
    <3>3. QED BY <3>2 DEF Committed, Replies
  <2>3. Check(r) => Said(Decision(r, exec[r].seen)) \in Replies
    BY <1>0, DecisionType DEF Check, TypeInv, Deciding, Execution, Said, Replies
  <2>4. PICK answer \in Replies : Tell(r, answer)
    BY <1>6, <2>1, <2>2, <2>3 DEF ShutOut, Answer, Recover, Check
  <2>5. exec' \in [Requests -> Execution] /\ reply' \in [Requests -> Replies] /\ Deciding'
    BY <2>4, TypeTell DEF TypeInv
  <2>6. UNCHANGED <<log, drained, faults, sends, journalVars>>
    BY <1>6 DEF RequestStep, ShutOut, Answer, Recover, Check
  <2>7. QED
    BY <1>1, <2>5, <2>6 DEF TypeInv, TypeOK
<1>7. CASE Fault(r)
  <2>1. Said("error") \in Replies
    BY DEF Said, Replies
  <2>2. log' \in Seq(Record)
    BY <1>7, TypeAppendBatch DEF Fault, TypeInv, TypeOK
  <2>3. QED
    BY <1>1, <1>7, <2>1, <2>2, TypeTell DEF RequestStep, Fault, TypeInv, TypeOK
<1>8. QED
  BY <1>2, <1>3, <1>4, <1>5, <1>6, <1>7 DEF RequestStep, Progress

\* Invocations append typed events, under the tag of the call.
LEMMA TypeInvokeAppend ==
  ASSUME TypeInv, NEW i \in Invocations, In(i, "append"), InvokeAppend(i)
  PROVE  log' \in Seq(Record)
<1>1. Call(i) \in Deciders /\ attempt[i].held \in Tags \cup {NoTag}
  BY DEF In, TypeInv, TypeOK, Asking, Deciders, AttemptState
<1>2. QED
  BY <1>1, Growth DEF InvokeAppend, TypeInv, TypeOK

\* An attempt goes on as another one.
LEMMA AttemptStep ==
  ASSUME TypeInv, NEW i \in Invocations, NEW next \in AttemptState,
         attempt' = [attempt EXCEPT ![i] = next],
         next.stage \in {"send", "fold", "append", "record"} =>
           next.at \in DOMAIN Script[i] /\ next.held = Key[Script[i][next.at]],
         next.stage \in {"fold", "append"} => Script[i][next.at] \in Invokes
  PROVE  attempt' \in [Invocations -> AttemptState] /\ Asking'
<1>1. attempt' \in [Invocations -> AttemptState]
  BY DEF TypeInv, TypeOK
<1>2. \A j \in Invocations : attempt'[j] = IF j = i THEN next ELSE attempt[j]
  BY DEF TypeInv, TypeOK
<1>3. Asking'
  BY <1>2 DEF TypeInv, Asking, Performing, Call
<1>4. QED
  BY <1>1, <1>3

\* A failed attempt leaves nothing behind but the mark that it failed.
LEMMA TypeWedge ==
  ASSUME TypeInv, NEW i \in Invocations, Wedge(i)
  PROVE  /\ attempt' \in [Invocations -> AttemptState] /\ Asking'
         /\ wedged' \in [Invocations -> BOOLEAN]
<1>1. NoAttempt \in AttemptState /\ NoAttempt.stage = "idle"
  BY DEF NoAttempt, AttemptState, AttemptStages
<1>2. attempt' \in [Invocations -> AttemptState] /\ Asking'
  BY <1>1, AttemptStep DEF Wedge
<1>3. wedged' \in [Invocations -> BOOLEAN]
  BY Zenon DEF Wedge, TypeInv, TypeOK
<1>4. QED
  BY <1>2, <1>3

\* A row is an answer.
LEMMA TypeRow ==
  ASSUME TypeInv, NEW i \in Invocations, In(i, "record"), RecordRow(i)
  PROVE  journal' \in [Calls -> Outcomes \cup {"none"}]
<1>1. Call(i) \in Calls
  BY CallType DEF In, TypeInv, Asking, Performing
<1>2. attempt[i].outcome \in Outcomes \cup {"none"}
  BY DEF TypeInv, TypeOK, AttemptState
<1>3. QED
  BY <1>1, <1>2 DEF RecordRow, TypeInv, TypeOK

LEMMA TypeInvocation ==
  ASSUME TypeInv, NEW i \in Invocations, InvocationStep(i)
  PROVE  TypeInv'
<1>0. /\ attempt[i] \in AttemptState /\ Len(log) \in Nat
      /\ attempt \in [Invocations -> AttemptState]
  BY DEF TypeInv, TypeOK
<1>a. Deciding'
  BY DEF InvocationStep, TypeInv, Deciding, At, Attempt, Ask, Request, NoResponse, InvokeFold, InvokeLand,
         InvokeRefused, RecordCall, JournalFault, Complete, FailTerminally, SkipWedged, End
<1>b. Performing(i) => Call(i) \in Calls
  BY CallType DEF TypeInv, Asking
<1>1. CASE Attempt(i)
  <2> DEFINE next == [attempt[i] EXCEPT !.stage = "ask"]
  <2>1. next \in AttemptState /\ next.stage = "ask"
    BY <1>0 DEF AttemptState, AttemptStages
  <2>2. attempt' = [attempt EXCEPT ![i] = next]
    BY <1>0, <1>1 DEF Attempt
  <2> HIDE DEF next
  <2>3. attempt' \in [Invocations -> AttemptState] /\ Asking'
    BY <2>1, <2>2, AttemptStep
  <2>4. QED
    BY <1>1, <1>a, <2>3 DEF Attempt, TypeInv, TypeOK
<1>2. CASE Ask(i)
  <2> DEFINE call == Script[i][attempt[i].at]
             hit == journal[call] # "none"
  <2>1. attempt[i].at \in DOMAIN Script[i] /\ call \in Calls /\ Key[call] \in Tags \cup {NoTag}
    <3>1. Script[i] \in Seq(Calls)
      BY ScriptAssumption
    <3>2. attempt[i].at \in 1..Len(Script[i])
      BY <1>0, <1>2, <3>1 DEF Ask, AttemptState
    <3>3. QED
      BY <3>1, <3>2, ElementOfSeq, KeyType
  <2>2. PICK at \in Nat \ {0} : at = IF hit THEN attempt[i].at + 1 ELSE attempt[i].at
    BY <1>0 DEF AttemptState
  <2>3. PICK stage \in {"ask", "fold", "send"} :
          stage = IF hit THEN "ask" ELSE IF call \in Invokes THEN "fold" ELSE "send"
    OBVIOUS
  <2> DEFINE next == [attempt[i] EXCEPT !.held = Key[call], !.at = at, !.stage = stage]
  <2>4. attempt' = [attempt EXCEPT ![i] = next]
    BY <1>0, <1>2, <2>2, <2>3 DEF Ask, Call
  <2>5. next \in AttemptState /\ next.stage = stage /\ next.at = at /\ next.held = Key[call]
    BY <1>0, <2>1 DEF AttemptState, AttemptStages
  <2>6. stage # "ask" => at = attempt[i].at /\ (stage = "fold" => call \in Invokes)
    BY <2>2, <2>3
  <2> HIDE DEF next
  <2>7. /\ next.stage \in {"send", "fold", "append", "record"} =>
             next.at \in DOMAIN Script[i] /\ next.held = Key[Script[i][next.at]]
        /\ next.stage \in {"fold", "append"} => Script[i][next.at] \in Invokes
    BY <2>1, <2>3, <2>5, <2>6
  <2>8. attempt' \in [Invocations -> AttemptState] /\ Asking'
    BY <2>4, <2>5, <2>7, AttemptStep
  <2>9. QED
    BY <1>2, <1>a, <2>8 DEF Ask, TypeInv, TypeOK
<1>3. CASE Request(i) \/ InvokeLand(i)
  <2>1. PICK outcome \in {"response", "committed"} :
          attempt' = [attempt EXCEPT ![i].stage = "record", ![i].outcome = outcome]
    BY <1>3 DEF Request, InvokeLand
  <2> DEFINE next == [attempt[i] EXCEPT !.stage = "record", !.outcome = outcome]
  <2>2. /\ next \in AttemptState /\ next.stage = "record"
        /\ next.at = attempt[i].at /\ next.held = attempt[i].held
    BY <1>0 DEF AttemptState, AttemptStages, Outcomes
  <2>3. attempt' = [attempt EXCEPT ![i] = next]
    BY <1>0, <2>1
  <2> HIDE DEF next
  <2>4. attempt[i].at \in DOMAIN Script[i] /\ attempt[i].held = Key[Script[i][attempt[i].at]]
    BY <1>3 DEF Request, InvokeLand, In, TypeInv, Asking, Performing, Call
  <2>5. attempt' \in [Invocations -> AttemptState] /\ Asking'
    BY <2>2, <2>3, <2>4, AttemptStep
  <2>6. log' \in Seq(Record)
    BY <1>3, TypeInvokeAppend DEF Request, InvokeLand, TypeInv, TypeOK
  <2>7. sent' \in [Calls -> Nat]
    BY <1>3, <1>b DEF Request, InvokeLand, In, Performing, TypeInv, TypeOK
  <2>8. UNCHANGED <<drained, faults, dispatchVars, journal, done, wedged>>
    BY <1>3 DEF Request, InvokeLand
  <2>9. QED
    BY <1>a, <2>5, <2>6, <2>7, <2>8 DEF TypeInv, TypeOK
<1>4. CASE NoResponse(i)
  <2>1. sent' \in [Calls -> Nat]
    BY <1>4, <1>b DEF NoResponse, In, Performing, TypeInv, TypeOK
  <2>2. QED
    BY <1>4, <1>a, <2>1, TypeWedge DEF NoResponse, TypeInv, TypeOK
<1>5. CASE InvokeFold(i)
  <2> DEFINE decision == Decision(Call(i), Cardinality(Matching(log, Call(i), 0)))
  <2>1. Call(i) \in Deciders /\ Cardinality(Matching(log, Call(i), 0)) \in Nat
    BY <1>5, Countable DEF InvokeFold, In, TypeInv, TypeOK, Asking, Deciders
  <2>2. decision = "emit" \/ decision \in Refusals
    BY <2>1, DecisionType
  <2> HIDE DEF decision
  <2>3. PICK stage \in {"append", "record"}, outcome \in Refusals \cup {"none"} :
          attempt' = [attempt EXCEPT ![i].after = Len(log), ![i].stage = stage, ![i].outcome = outcome]
    BY <1>5, <2>2 DEF InvokeFold, decision
  <2> DEFINE next == [attempt[i] EXCEPT !.after = Len(log), !.stage = stage, !.outcome = outcome]
  <2>4. /\ next \in AttemptState /\ next.stage = stage
        /\ next.at = attempt[i].at /\ next.held = attempt[i].held
    BY <1>0 DEF AttemptState, AttemptStages, Outcomes
  <2>5. attempt' = [attempt EXCEPT ![i] = next]
    BY <1>0, <2>3
  <2> HIDE DEF next
  <2>6. /\ attempt[i].at \in DOMAIN Script[i] /\ attempt[i].held = Key[Script[i][attempt[i].at]]
        /\ Script[i][attempt[i].at] \in Invokes
    BY <1>5 DEF InvokeFold, In, TypeInv, Asking, Performing, Call
  <2>7. attempt' \in [Invocations -> AttemptState] /\ Asking'
    BY <2>4, <2>5, <2>6, AttemptStep
  <2>8. QED
    BY <1>5, <1>a, <2>7 DEF InvokeFold, TypeInv, TypeOK
<1>6. CASE InvokeRefused(i)
  BY <1>6, <1>a, TypeWedge DEF InvokeRefused, TypeInv, TypeOK
<1>7. CASE RecordCall(i)
  <2>1. PICK at \in Nat \ {0} : at = attempt[i].at + 1
    BY <1>0 DEF AttemptState
  <2> DEFINE next == [attempt[i] EXCEPT !.stage = "ask", !.at = at]
  <2>2. next \in AttemptState /\ next.stage = "ask"
    BY <1>0 DEF AttemptState, AttemptStages
  <2>3. attempt' = [attempt EXCEPT ![i] = next]
    BY <1>0, <1>7, <2>1 DEF RecordCall
  <2> HIDE DEF next
  <2>4. attempt' \in [Invocations -> AttemptState] /\ Asking'
    BY <2>2, <2>3, AttemptStep
  <2>5. journal' \in [Calls -> Outcomes \cup {"none"}]
    BY <1>7, TypeRow DEF RecordCall
  <2>6. QED
    BY <1>7, <1>a, <2>4, <2>5 DEF RecordCall, TypeInv, TypeOK
<1>8. CASE JournalFault(i)
  <2>1. log' \in Seq(Record)
    BY <1>8, TypeInvokeAppend DEF JournalFault, TypeInv, TypeOK
  <2>2. journal' \in [Calls -> Outcomes \cup {"none"}]
    BY <1>8, TypeRow DEF JournalFault, TypeInv, TypeOK
  <2>3. QED
    BY <1>8, <1>a, <2>1, <2>2, TypeWedge DEF JournalFault, TypeInv, TypeOK
<1>9. CASE Complete(i) \/ FailTerminally(i) \/ SkipWedged(i)
  <2>1. PICK how \in {"completed", "failed", "skipped"} : End(i, how)
    BY <1>9 DEF Complete, FailTerminally, SkipWedged
  <2>2. NoAttempt \in AttemptState /\ NoAttempt.stage = "idle"
    BY DEF NoAttempt, AttemptState, AttemptStages
  <2>3. attempt' \in [Invocations -> AttemptState] /\ Asking'
    BY <2>1, <2>2, AttemptStep DEF End
  <2>4. QED
    BY <1>a, <2>1, <2>3 DEF End, TypeInv, TypeOK
<1>10. QED
  BY <1>1, <1>2, <1>3, <1>4, <1>5, <1>6, <1>7, <1>8, <1>9 DEF InvocationStep

LEMMA TypePreserved ==
  ASSUME TypeInv, [Next]_vars
  PROVE  TypeInv'
<1>1. CASE \E r \in Requests : RequestStep(r)
  BY <1>1, TypeRequest
<1>2. CASE \E i \in Invocations : InvocationStep(i)
  BY <1>2, TypeInvocation
<1>3. CASE Drain /\ UNCHANGED journalVars
  BY <1>3 DEF Drain, TypeInv, TypeOK, Asking, Performing, Call, Deciding, At
<1>4. CASE Crash
  <2>1. Idle \in Execution /\ Idle.stage = "idle" /\ NoAttempt \in AttemptState /\ NoAttempt.stage = "idle"
    BY DEF Idle, Execution, Stages, NoAttempt, AttemptState, AttemptStages
  <2>2. /\ exec' \in [Requests -> Execution] /\ attempt' \in [Invocations -> AttemptState]
        /\ Asking' /\ Deciding'
    BY <1>4, <2>1 DEF Crash, DispatchStops, Asking, Performing, Call, Deciding, At
  <2>3. wedged' \in [Invocations -> BOOLEAN] /\ drained' \in BOOLEAN
    BY <1>4, Zenon DEF Crash
  <2>4. QED
    BY <1>4, <2>2, <2>3 DEF Crash, DispatchStops, TypeInv, TypeOK
<1>5. CASE UNCHANGED vars
  BY <1>5 DEF vars, TypeInv, TypeOK, Asking, Performing, Call, Deciding, At
<1>6. QED
  BY <1>1, <1>2, <1>3, <1>4, <1>5 DEF Next

\* Every variable keeps its type, and what a call or a request is about to do
\* is its own and as decided.
THEOREM CommandTypes == Spec => []TypeInv
<1>1. TypeInv /\ [Next]_vars => TypeInv'
  BY TypePreserved
<1>2. QED
  BY <1>1, TypeInit, PTL DEF Spec

\* The types alone, as the runs check them.
THEOREM CommandTypesOK == Spec => []TypeOK
<1>1. TypeInv => TypeOK
  BY DEF TypeInv
<1>2. QED
  BY <1>1, CommandTypes, PTL

-----------------------------------------------------------------------------
(* What is folded.                                                         *)

\* The state an execution holds counts the events of its boundary up to the
\* position it holds, and an effect's command is about to append because it
\* decided so on that state.
Folding ==
  /\ \A r \in Requests :
       /\ exec[r].after <= Len(log)
       /\ exec[r].seen = Cardinality(Upto(log, r, exec[r].after))
  /\ \A i \in Invocations :
       /\ attempt[i].after <= Len(log)
       /\ In(i, "append") =>
            Decision(Call(i), Cardinality(Upto(log, Call(i), attempt[i].after))) = "emit"

FoldInv == TypeInv /\ Folding

\* A command appends what it decided on the events up to n.
Appends(d, n) ==
  /\ n <= Len(log)
  /\ Decision(d, Cardinality(Upto(log, d, n))) = "emit"
  /\ Admissible(log, d, Key[d], n)
  /\ log' = log \o Batch(log, d, Key[d])

LEMMA NothingFolded == \A history, d : Cardinality(Upto(history, d, 0)) = 0
<1> SUFFICES ASSUME NEW history, NEW d PROVE Cardinality(Upto(history, d, 0)) = 0
  OBVIOUS
<1>1. Upto(history, d, 0) = {}
  BY DEF Upto
<1>2. QED
  BY <1>1, FS_EmptySet

\* Every step leaves the log or is an append of one command.
LEMMA StepAppends ==
  ASSUME FoldInv, [Next]_vars
  PROVE  log' = log \/ \E d \in Deciders, n \in Nat : Appends(d, n)
<1>1. ASSUME NEW r \in Requests, At(r, "append"), AppendBatch(r)
      PROVE  Appends(r, exec[r].after) /\ r \in Deciders /\ exec[r].after \in Nat
  <2>1. exec[r].after \in Nat /\ r \in Deciders
    BY DEF FoldInv, TypeInv, TypeOK, Execution, Deciders
  <2>2. Decision(r, Cardinality(Upto(log, r, exec[r].after))) = "emit"
    BY <1>1 DEF FoldInv, Folding, TypeInv, Deciding
  <2>3. QED
    BY <1>1, <2>1, <2>2 DEF Appends, AppendBatch, FoldInv, Folding
<1>2. ASSUME NEW i \in Invocations, In(i, "append"), InvokeAppend(i)
      PROVE  Appends(Call(i), attempt[i].after) /\ Call(i) \in Deciders /\ attempt[i].after \in Nat
  <2>1. attempt[i].after \in Nat /\ Call(i) \in Deciders /\ attempt[i].held = Key[Call(i)]
    BY <1>2 DEF FoldInv, TypeInv, TypeOK, AttemptState, Asking, Performing, In, Deciders
  <2>2. QED
    BY <1>2, <2>1 DEF Appends, InvokeAppend, FoldInv, Folding
<1>3. CASE \E r \in Requests : RequestStep(r)
  <2> PICK r \in Requests : RequestStep(r)
    BY <1>3
  <2>1. log' = log \/ (At(r, "append") /\ AppendBatch(r))
    BY DEF RequestStep, Progress, Send, Fold, Land, FindDuplicate, Beaten, ShutOut, Answer, Recover, Check, Fault
  <2>2. QED
    BY <1>1, <2>1
<1>4. CASE \E i \in Invocations : InvocationStep(i)
  <2> PICK i \in Invocations : InvocationStep(i)
    BY <1>4
  <2>1. log' = log \/ (In(i, "append") /\ InvokeAppend(i))
    BY DEF InvocationStep, Attempt, Ask, Request, NoResponse, InvokeFold, InvokeLand, InvokeRefused,
           RecordCall, JournalFault, Complete, FailTerminally, SkipWedged, End
  <2>2. QED
    BY <1>2, <2>1
<1>5. CASE (Drain /\ UNCHANGED journalVars) \/ Crash \/ UNCHANGED vars
  BY <1>5 DEF Drain, Crash, vars
<1>6. QED
  BY <1>3, <1>4, <1>5 DEF Next

\* A step leaves what was folded as it is.
LEMMA FoldedStays ==
  ASSUME FoldInv, [Next]_vars
  PROVE  /\ Len(log) <= Len(log') /\ Len(log) \in Nat /\ Len(log') \in Nat
         /\ \A d : \A n \in Nat : n <= Len(log) => Upto(log', d, n) = Upto(log, d, n)
<1>1. log \in Seq(Record)
  BY DEF FoldInv, TypeInv, TypeOK
<1>2. CASE log' = log
  BY <1>1, <1>2
<1>3. CASE \E d \in Deciders, n \in Nat : Appends(d, n)
  <2> PICK d \in Deciders : log' = log \o Batch(log, d, Key[d])
    BY <1>3 DEF Appends
  <2>1. Key[d] \in Tags \cup {NoTag}
    BY KeyType
  <2>2. QED
    BY <1>1, <2>1, Stable
<1>4. QED
  BY <1>2, <1>3, StepAppends

\* What an execution holds after a step is what it
\* held, or nothing, or what it held and the rest of its boundary.
LEMMA RequestFolds ==
  ASSUME FoldInv, NEW r \in Requests, RequestStep(r), NEW s \in Requests
  PROVE  \/ exec'[s].after = exec[s].after /\ exec'[s].seen = exec[s].seen
         \/ exec'[s].after = 0 /\ exec'[s].seen = 0
         \/ /\ log' = log
            /\ exec'[s].after = Len(log)
            /\ exec'[s].seen = exec[s].seen + Cardinality(Matching(log, s, exec[s].after))
<1>1. exec \in [Requests -> Execution] /\ exec[s] \in Execution /\ exec[r] \in Execution
  BY DEF FoldInv, TypeInv, TypeOK
<1>2. CASE Send(r) \/ FindDuplicate(r)
  <2> PICK stage : exec' = [exec EXCEPT ![r].stage = stage]
    BY <1>2 DEF Send, FindDuplicate, To
  <2>1. QED
    BY <1>1 DEF Execution
<1>3. CASE Fold(r)
  BY <1>1, <1>3 DEF Fold, Execution
<1>4. CASE Land(r)
  BY <1>1, <1>4 DEF Land, Execution
<1>5. CASE Beaten(r) /\ ~Tell(r, Said("conflict"))
  BY <1>1, <1>5 DEF Beaten, Execution
<1>6. CASE \E answer : Tell(r, answer)
  BY <1>1, <1>6 DEF Tell, Idle
<1>7. QED
  BY <1>2, <1>3, <1>4, <1>5, <1>6
  DEF RequestStep, Progress, Beaten, ShutOut, Answer, Recover, Check, Fault

\* An effect's command folds its whole boundary in every attempt.
LEMMA InvocationFolds ==
  ASSUME FoldInv, NEW i \in Invocations, InvocationStep(i), NEW j \in Invocations
  PROVE  \/ /\ attempt'[j].after = attempt[j].after /\ attempt'[j].at = attempt[j].at
            /\ In(j, "append")' => In(j, "append")
         \/ ~In(j, "append")' /\ attempt'[j].after \in {0, attempt[j].after}
         \/ /\ log' = log
            /\ attempt'[j].after = Len(log) /\ attempt'[j].at = attempt[j].at
            /\ In(j, "append")' =>
                 Decision(Call(j), Cardinality(Matching(log, Call(j), 0))) = "emit"
<1>1. attempt \in [Invocations -> AttemptState] /\ attempt[i] \in AttemptState
  BY DEF FoldInv, TypeInv, TypeOK
<1>2. CASE attempt' = [attempt EXCEPT ![i] = NoAttempt]
  BY <1>1, <1>2 DEF NoAttempt, In
<1>3. CASE Attempt(i) \/ RecordCall(i)
  BY <1>1, <1>3 DEF Attempt, RecordCall, In, AttemptState
<1>4. CASE Ask(i)
  <2>1. \E held, at : \E stage \in {"ask", "fold", "send"} :
          attempt' = [attempt EXCEPT ![i].held = held, ![i].at = at, ![i].stage = stage]
    BY <1>4 DEF Ask
  <2> PICK held, at : \E stage \in {"ask", "fold", "send"} :
        attempt' = [attempt EXCEPT ![i].held = held, ![i].at = at, ![i].stage = stage]
    BY <2>1
  <2> PICK stage \in {"ask", "fold", "send"} :
        attempt' = [attempt EXCEPT ![i].held = held, ![i].at = at, ![i].stage = stage]
    OBVIOUS
  <2>2. QED
    BY <1>1 DEF In, AttemptState
<1>5. CASE Request(i) \/ InvokeLand(i)
  <2> PICK outcome : attempt' = [attempt EXCEPT ![i].stage = "record", ![i].outcome = outcome]
    BY <1>5 DEF Request, InvokeLand
  <2>1. QED
    BY <1>1 DEF In, AttemptState
<1>6. CASE InvokeFold(i)
  BY <1>1, <1>6 DEF InvokeFold, In, Call, AttemptState
<1>7. QED
  BY <1>2, <1>3, <1>4, <1>5, <1>6
  DEF InvocationStep, NoResponse, InvokeRefused, JournalFault, Wedge, Complete, FailTerminally, SkipWedged, End

\* All of the log is what lies past nothing.
LEMMA Whole ==
  ASSUME NEW history \in Seq(Record), NEW d
  PROVE  Matching(history, d, 0) = Upto(history, d, Len(history))
BY DEF Matching, Upto

LEMMA FoldingInit == Init => Folding
<1> SUFFICES ASSUME Init PROVE Folding
  OBVIOUS
<1>1. Len(log) = 0
  BY DEF Init
<1>2. ASSUME NEW r \in Requests
      PROVE  exec[r].after <= Len(log) /\ exec[r].seen = Cardinality(Upto(log, r, exec[r].after))
  BY <1>1, NothingFolded DEF Init, DispatchInit, Idle
<1>3. ASSUME NEW i \in Invocations
      PROVE  attempt[i].after <= Len(log) /\ ~In(i, "append")
  BY <1>1 DEF Init, JournalInit, NoAttempt, In
<1>4. QED
  BY <1>2, <1>3 DEF Folding

LEMMA FoldingStep ==
  ASSUME FoldInv, [Next]_vars
  PROVE  Folding'
<1>1. /\ Len(log) <= Len(log') /\ Len(log) \in Nat /\ Len(log') \in Nat
      /\ \A d : \A n \in Nat : n <= Len(log) => Upto(log', d, n) = Upto(log, d, n)
  BY FoldedStays
<1>2. log \in Seq(Record)
  BY DEF FoldInv, TypeInv, TypeOK
<1>3. ASSUME NEW s \in Requests
      PROVE  exec'[s].after <= Len(log') /\ exec'[s].seen = Cardinality(Upto(log', s, exec'[s].after))
  <2>1. /\ exec[s].after \in Nat /\ exec[s].after <= Len(log)
        /\ exec[s].seen = Cardinality(Upto(log, s, exec[s].after))
    BY DEF FoldInv, TypeInv, TypeOK, Execution, Folding
  <2>2. CASE exec'[s].after = exec[s].after /\ exec'[s].seen = exec[s].seen
    <3>1. Upto(log', s, exec[s].after) = Upto(log, s, exec[s].after)
      BY <1>1, <2>1
    <3>2. QED
      BY <1>1, <2>1, <2>2, <3>1
  <2>3. CASE exec'[s].after = 0 /\ exec'[s].seen = 0
    BY <1>1, <2>3, NothingFolded
  <2>4. CASE /\ log' = log
             /\ exec'[s].after = Len(log)
             /\ exec'[s].seen = exec[s].seen + Cardinality(Matching(log, s, exec[s].after))
    BY <1>1, <1>2, <2>1, <2>4, Continued
  <2>5. CASE \E r \in Requests : RequestStep(r)
    BY <2>2, <2>3, <2>4, <2>5, RequestFolds
  <2>6. CASE (\E i \in Invocations : InvocationStep(i)) \/ (Drain /\ UNCHANGED journalVars) \/ UNCHANGED vars
    <3>1. exec' = exec
      BY <2>6 DEF Drain, vars, InvocationStep, Attempt, Ask, Request, NoResponse, InvokeFold, InvokeLand,
                  InvokeRefused, RecordCall, JournalFault, Complete, FailTerminally, SkipWedged, End
    <3>2. QED
      BY <2>2, <3>1
  <2>7. CASE Crash
    <3>1. exec'[s].after = 0 /\ exec'[s].seen = 0
      BY <2>7 DEF Crash, DispatchStops, Idle
    <3>2. QED
      BY <2>3, <3>1
  <2>8. QED
    BY <2>5, <2>6, <2>7 DEF Next
<1>4. ASSUME NEW j \in Invocations
      PROVE  /\ attempt'[j].after <= Len(log')
             /\ In(j, "append")' =>
                  Decision(Call(j)', Cardinality(Upto(log', Call(j)', attempt'[j].after))) = "emit"
  <2>1. /\ attempt[j].after \in Nat /\ attempt[j].after <= Len(log)
        /\ In(j, "append") => Decision(Call(j), Cardinality(Upto(log, Call(j), attempt[j].after))) = "emit"
    BY DEF FoldInv, TypeInv, TypeOK, AttemptState, Folding
  <2>2. CASE /\ attempt'[j].after = attempt[j].after /\ attempt'[j].at = attempt[j].at
             /\ In(j, "append")' => In(j, "append")
    <3>1. Upto(log', Call(j), attempt[j].after) = Upto(log, Call(j), attempt[j].after)
      BY <1>1, <2>1
    <3>2. Call(j)' = Call(j)
      BY <2>2 DEF Call
    <3>3. QED
      BY <1>1, <2>1, <2>2, <3>1, <3>2
  <2>3. CASE ~In(j, "append")' /\ attempt'[j].after \in {0, attempt[j].after}
    BY <1>1, <2>1, <2>3
  <2>4. CASE /\ log' = log
             /\ attempt'[j].after = Len(log) /\ attempt'[j].at = attempt[j].at
             /\ In(j, "append")' =>
                  Decision(Call(j), Cardinality(Matching(log, Call(j), 0))) = "emit"
    <3>1. Matching(log, Call(j), 0) = Upto(log, Call(j), Len(log))
      BY <1>2, Whole
    <3>2. Call(j)' = Call(j)
      BY <2>4 DEF Call
    <3>3. QED
      BY <1>1, <2>4, <3>1, <3>2
  <2>5. CASE \E i \in Invocations : InvocationStep(i)
    BY <2>2, <2>3, <2>4, <2>5, InvocationFolds
  <2>6. CASE (\E r \in Requests : RequestStep(r)) \/ (Drain /\ UNCHANGED journalVars) \/ UNCHANGED vars
    <3>1. attempt' = attempt
      BY <2>6 DEF RequestStep, vars
    <3>2. QED
      BY <2>2, <3>1 DEF In
  <2>7. CASE Crash
    <3>1. attempt'[j] = NoAttempt
      BY <2>7 DEF Crash
    <3>2. QED
      BY <2>3, <3>1 DEF NoAttempt, In
  <2>8. QED
    BY <2>5, <2>6, <2>7 DEF Next
<1>5. QED
  BY <1>3, <1>4 DEF Folding

\* What an execution has folded is exact, at every step of every interleaving.
THEOREM FoldsCorrect == Spec => []FoldInv
<1>1. Init => FoldInv
  BY TypeInit, FoldingInit DEF FoldInv
<1>2. FoldInv /\ [Next]_vars => FoldInv'
  BY FoldingStep, TypePreserved DEF FoldInv
<1>3. QED
  BY <1>1, <1>2, PTL DEF Spec

-----------------------------------------------------------------------------
(* A key commits once.                                                     *)

\* All events of a tag are of one execution.
OneEach(history) ==
  \A t \in Tags : \A p, q \in Bearing(history, t) : history[p].batch = history[q].batch

\* A batch under a tag that was nowhere leaves every tag to one execution.
LEMMA Borne ==
  ASSUME NEW history \in Seq(Record), NEW d \in Deciders, NEW tag \in Tags \cup {NoTag},
         ~Duplicate(history, tag), OneEach(history)
  PROVE  OneEach(history \o Batch(history, d, tag))
<1> DEFINE grown == history \o Batch(history, d, tag)
<1>1. Emits[d] \in Nat \ {0} /\ Len(history) \in Nat
  BY ShapeAssumption
<1>2. /\ Len(grown) = Len(history) + Emits[d]
      /\ \A k \in 1..Len(history) : grown[k] = history[k]
      /\ \A k \in Len(history) + 1..Len(history) + Emits[d] :
           grown[k] = [slice |-> Writes[d], tag |-> tag, batch |-> Len(history) + 1]
  BY Growth
<1> HIDE DEF grown
<1>3. \A t \in Tags : \A k \in Bearing(grown, t) :
        \/ k \in Bearing(history, t) /\ grown[k] = history[k]
        \/ tag = t /\ grown[k].batch = Len(history) + 1
  BY <1>1, <1>2 DEF Bearing
<1>4. ASSUME NEW t \in Tags, NEW p \in Bearing(grown, t), NEW q \in Bearing(grown, t)
      PROVE  grown[p].batch = grown[q].batch
  <2>1. CASE tag = t
    <3>1. Bearing(history, t) = {}
      BY <2>1, KeyAssumption DEF Duplicate
    <3>2. QED
      BY <1>3, <1>4, <3>1
  <2>2. CASE tag # t
    BY <1>3, <1>4, <2>2 DEF OneEach
  <2>3. QED
    BY <2>1, <2>2
<1>5. QED
  BY <1>4 DEF OneEach, grown

\* KeyCommitsOnce for every interleaving of every set of requests and
\* invocations, however often they are repeated.
THEOREM KeyCommits == Spec => []KeyCommitsOnce
<1>0. KeyCommitsOnce <=> OneEach(log)
  BY DEF KeyCommitsOnce, OneEach
<1>1. Init => OneEach(log)
  BY DEF Init, OneEach, Bearing
<1>2. FoldInv /\ OneEach(log) /\ [Next]_vars => OneEach(log)'
  <2> SUFFICES ASSUME FoldInv, OneEach(log), [Next]_vars PROVE OneEach(log')
    OBVIOUS
  <2>1. CASE log' = log
    BY <2>1
  <2>2. CASE \E d \in Deciders, n \in Nat : Appends(d, n)
    <3> PICK d \in Deciders : ~Duplicate(log, Key[d]) /\ log' = log \o Batch(log, d, Key[d])
      BY <2>2 DEF Appends, Admissible
    <3>1. log \in Seq(Record) /\ Key[d] \in Tags \cup {NoTag}
      BY KeyType DEF FoldInv, TypeInv, TypeOK
    <3>2. OneEach(log \o Batch(log, d, Key[d]))
      BY <3>1, Borne
    <3>3. QED
      BY <3>2
  <2>3. QED
    BY <2>1, <2>2, StepAppends
<1>3. QED
  BY <1>0, <1>1, <1>2, FoldsCorrect, PTL DEF Spec

-----------------------------------------------------------------------------
(* The log is a serial one.                                                *)

\* A command whose boundary has not moved decided on all of it.
LEMMA Undisturbed ==
  ASSUME NEW history \in Seq(Record), NEW d, NEW n \in Nat, n <= Len(history),
         ~Moved(history, d, n)
  PROVE  Upto(history, d, n) = Matching(history, d, 0)
BY DEF Upto, Matching, Moved

\* Every behaviour of requests and invocations is one of SerialCommands: an
\* append is one Commit, and every other step is a stutter.
THEOREM SerialRefinement == Spec => ImplementsSerial
<1>1. Init => Serial!Init
  BY DEF Init, Serial!Init
<1>2. FoldInv /\ [Next]_vars => [Serial!Next]_log
  <2> SUFFICES ASSUME FoldInv, [Next]_vars, log' # log PROVE Serial!Next
    OBVIOUS
  <2>1. PICK d \in Deciders, n \in Nat : Appends(d, n)
    BY StepAppends
  <2>2. ~Moved(log, d, n) /\ ~Duplicate(log, Key[d]) /\ n <= Len(log) /\ log \in Seq(Record)
    BY <2>1 DEF Appends, Admissible, FoldInv, TypeInv, TypeOK
  <2>3. Upto(log, d, n) = Matching(log, d, 0)
    BY <2>1, <2>2, Undisturbed
  <2>4. Serial!Commit(d)
    <3>1. Serial!Matching(log, d, 0) = Matching(log, d, 0)
      BY DEF Serial!Matching, Matching
    <3>a. \A S : Serial!Cardinality(S) = Cardinality(S)
      BY DEF Serial!Cardinality, Cardinality
    <3>2. Serial!Decision(d, Cardinality(Matching(log, d, 0))) = "emit"
      BY <2>1, <2>3 DEF Appends, Serial!Decision, Decision
    <3>3. ~Serial!Duplicate(log, Key[d])
      BY <2>2 DEF Serial!Duplicate, Serial!Bearing, Duplicate, Bearing
    <3>4. log' = log \o Serial!Batch(log, d, Key[d])
      BY <2>1 DEF Appends, Serial!Batch, Batch
    <3>5. QED
      BY <3>a, <3>1, <3>2, <3>3, <3>4 DEF Serial!Commit
  <2>5. QED
    BY <2>1, <2>4 DEF Serial!Next, Serial!Deciders, Deciders
<1>3. QED
  BY <1>1, <1>2, FoldsCorrect, PTL DEF Spec, ImplementsSerial, Serial!Spec

-----------------------------------------------------------------------------
(* What was answered is true and stands.                                   *)

\* Some positions are what a client of d may be told: events of its key, and all of them
\* when the key is one.
Told(d, positions) ==
  /\ positions # {} /\ positions \subseteq Bearing(log, Key[d])
  /\ Key[d] # NoTag => positions = Bearing(log, Key[d])

\* Where the events an execution appended are.
Landed(r) == exec[r].first..(exec[r].first + Emits[r] - 1)

\* A client was told, or is about to be told, what its key has in the log.
Telling ==
  \A r \in Requests :
    /\ At(r, "landed") => Told(r, Landed(r))
    /\ Succeeded(r) => Told(r, reply[r].positions)

\* An answer of a call is of something that took effect.
Tells(c, answer) ==
  /\ answer = "committed" => Bearing(log, Key[c]) # {}
  /\ answer = "response" => sent[c] > 0

\* An attempt has passed the calls that have a row, performs one that has none, and is
\* about to record what that call did.
Recording ==
  \A i \in Invocations :
    /\ \A n \in DOMAIN Script[i] : n < attempt[i].at => journal[Script[i][n]] # "none"
    /\ Performing(i) => journal[Call(i)] = "none"
    /\ In(i, "record") => attempt[i].outcome # "none" /\ Tells(Call(i), attempt[i].outcome)

\* An invocation that ran to its end has a row for every call.
Completed ==
  \A i \in Invocations : done[i] = "completed" =>
    \A n \in DOMAIN Script[i] : journal[Script[i][n]] # "none"

AnswerInv == FoldInv /\ Telling /\ Recording /\ RowsTell /\ ResumesAtTail /\ Completed

-----------------------------------------------------------------------------
(* What a step writes.                                                     *)

\* A batch adds its events to those of its tag, and to no others.
LEMMA BatchBears ==
  ASSUME NEW history \in Seq(Record), NEW d \in Deciders, NEW tag \in Tags \cup {NoTag}, NEW t
  PROVE  Bearing(history \o Batch(history, d, tag), t) =
           Bearing(history, t)
           \cup (IF t = tag THEN Len(history) + 1..Len(history) + Emits[d] ELSE {})
<1> DEFINE grown == history \o Batch(history, d, tag)
<1>1. Emits[d] \in Nat \ {0} /\ Len(history) \in Nat
  BY ShapeAssumption
<1>2. /\ Len(grown) = Len(history) + Emits[d]
      /\ \A k \in 1..Len(history) : grown[k] = history[k]
      /\ \A k \in Len(history) + 1..Len(history) + Emits[d] :
           grown[k] = [slice |-> Writes[d], tag |-> tag, batch |-> Len(history) + 1]
  BY Growth
<1> HIDE DEF grown
<1>3. 1..Len(grown) = 1..Len(history) \cup (Len(history) + 1..Len(history) + Emits[d])
  BY <1>1, <1>2
<1>4. \A k \in Len(history) + 1..Len(history) + Emits[d] : grown[k].tag = tag
  BY <1>2
<1>5. Bearing(grown, t) = Bearing(history, t)
           \cup (IF t = tag THEN Len(history) + 1..Len(history) + Emits[d] ELSE {})
  BY <1>2, <1>3, <1>4 DEF Bearing
<1>6. QED
  BY <1>5 DEF grown

\* The log, the rows and the far side change only as something is performed.
LEMMA StepWrites ==
  ASSUME [Next]_vars
  PROVE  /\ \/ log' = log
            \/ \E r \in Requests : At(r, "append") /\ AppendBatch(r)
            \/ \E i \in Invocations : In(i, "append") /\ InvokeAppend(i)
         /\ \/ journal' = journal
            \/ \E i \in Invocations : In(i, "record") /\ RecordRow(i)
         /\ \/ sent' = sent
            \/ \E i \in Invocations : In(i, "send") /\ \E n \in {0, 1} :
                 sent' = [sent EXCEPT ![Call(i)] = @ + n]
<1>1. CASE \E r \in Requests : RequestStep(r)
  <2> PICK r \in Requests : RequestStep(r)
    BY <1>1
  <2>1. log' = log \/ (At(r, "append") /\ AppendBatch(r))
    BY DEF RequestStep, Progress, Send, Fold, Land, FindDuplicate, Beaten, ShutOut, Answer, Recover, Check, Fault
  <2>2. journal' = journal /\ sent' = sent
    BY DEF RequestStep
  <2>3. QED
    BY <2>1, <2>2
<1>2. CASE \E i \in Invocations : InvocationStep(i)
  <2> PICK i \in Invocations : InvocationStep(i)
    BY <1>2
  <2>1. log' = log \/ (In(i, "append") /\ InvokeAppend(i))
    BY DEF InvocationStep, Attempt, Ask, Request, NoResponse, InvokeFold, InvokeLand, InvokeRefused,
           RecordCall, JournalFault, Complete, FailTerminally, SkipWedged, End
  <2>2. journal' = journal \/ (In(i, "record") /\ RecordRow(i))
    BY DEF InvocationStep, Attempt, Ask, Request, NoResponse, InvokeFold, InvokeLand, InvokeRefused,
           RecordCall, JournalFault, Complete, FailTerminally, SkipWedged, End
  <2>3. sent' = sent \/ (In(i, "send") /\ \E n \in {0, 1} : sent' = [sent EXCEPT ![Call(i)] = @ + n])
    BY DEF InvocationStep, Attempt, Ask, Request, NoResponse, InvokeFold, InvokeLand, InvokeRefused,
           RecordCall, JournalFault, Complete, FailTerminally, SkipWedged, End
  <2>4. QED
    BY <2>1, <2>2, <2>3
<1>3. CASE (Drain /\ UNCHANGED journalVars) \/ Crash \/ UNCHANGED vars
  BY <1>3 DEF Drain, Crash, vars
<1>4. QED
  BY <1>1, <1>2, <1>3 DEF Next

\* A call that is performed is a call, and of one place in one arm.
LEMMA Placed ==
  ASSUME FoldInv, NEW i \in Invocations, Performing(i)
  PROVE  /\ attempt[i].at \in DOMAIN Script[i] /\ Call(i) \in Calls
         /\ attempt[i].held = Key[Call(i)]
         /\ \A j \in Invocations : \A n \in DOMAIN Script[j] :
              Script[j][n] = Call(i) => j = i /\ n = attempt[i].at
<1>1. attempt[i].at \in DOMAIN Script[i] /\ attempt[i].held = Key[Call(i)]
  BY DEF FoldInv, TypeInv, Asking
<1>2. Call(i) \in Calls
  BY <1>1, CallType DEF FoldInv, TypeInv
<1>3. QED
  BY <1>1, <1>2, ScriptAssumption DEF Call

\* What carries a tag stays, and nothing joins it.
LEMMA StepBears ==
  ASSUME FoldInv, [Next]_vars, NEW t
  PROVE  /\ Bearing(log, t) \subseteq Bearing(log', t)
         /\ t # NoTag /\ Bearing(log, t) # {} => Bearing(log', t) = Bearing(log, t)
<1>1. CASE log' = log
  BY <1>1
<1>2. CASE \E d \in Deciders, n \in Nat : Appends(d, n)
  <2> PICK d \in Deciders : ~Duplicate(log, Key[d]) /\ log' = log \o Batch(log, d, Key[d])
    BY <1>2 DEF Appends, Admissible
  <2>1. log \in Seq(Record) /\ Key[d] \in Tags \cup {NoTag}
    BY KeyType DEF FoldInv, TypeInv, TypeOK
  <2>2. Bearing(log', t) = Bearing(log, t)
          \cup (IF t = Key[d] THEN Len(log) + 1..Len(log) + Emits[d] ELSE {})
    BY <2>1, BatchBears
  <2>3. QED
    BY <2>2 DEF Duplicate
<1>3. QED
  BY <1>1, <1>2, StepAppends

\* A call with a row is neither performed again nor recorded anew.
LEMMA RowStays ==
  ASSUME FoldInv, Recording, [Next]_vars, NEW c \in Calls, journal[c] # "none"
  PROVE  Stays(c)
<1>1. /\ journal \in [Calls -> Outcomes \cup {"none"}] /\ sent \in [Calls -> Nat]
      /\ log \in Seq(Record)
  BY DEF FoldInv, TypeInv, TypeOK
<1>2. ASSUME NEW i \in Invocations, Performing(i)
      PROVE  Call(i) # c /\ Key[Call(i)] # Key[c] /\ attempt[i].held = Key[Call(i)] /\ Call(i) \in Calls
  <2>1. Call(i) \in Calls /\ attempt[i].held = Key[Call(i)] /\ journal[Call(i)] = "none"
    BY <1>2, Placed DEF Recording
  <2>2. Key[Call(i)] # Key[c]
    BY <2>1, KeyAssumption
  <2>3. QED
    BY <2>1, <2>2
<1>3. journal'[c] = journal[c]
  BY <1>1, <1>2, StepWrites DEF RecordRow, In, Performing
<1>4. sent'[c] = sent[c]
  BY <1>1, <1>2, StepWrites DEF In, Performing
<1>5. Bearing(log', Key[c]) = Bearing(log, Key[c])
  <2>1. CASE log' = log
    BY <2>1
  <2>2. CASE \E r \in Requests : At(r, "append") /\ AppendBatch(r)
    <3> PICK r \in Requests : log' = log \o Batch(log, r, Key[r])
      BY <2>2 DEF AppendBatch
    <3>1. r \in Deciders /\ Key[r] \in Tags \cup {NoTag} /\ Key[r] # Key[c]
      BY KeyAssumption, KeyType DEF Deciders
    <3>2. Bearing(log \o Batch(log, r, Key[r]), Key[c]) = Bearing(log, Key[c])
            \cup (IF Key[c] = Key[r] THEN Len(log) + 1..Len(log) + Emits[r] ELSE {})
      BY <1>1, <3>1, BatchBears
    <3>3. QED
      BY <3>1, <3>2
  <2>3. CASE \E i \in Invocations : In(i, "append") /\ InvokeAppend(i)
    <3> PICK i \in Invocations : In(i, "append") /\ log' = log \o Batch(log, Call(i), attempt[i].held)
      BY <2>3 DEF InvokeAppend
    <3>1. Performing(i) /\ Call(i) \in Deciders
      BY DEF In, Performing, FoldInv, TypeInv, Asking, Deciders
    <3>2. attempt[i].held \in Tags \cup {NoTag} /\ attempt[i].held # Key[c]
      BY <1>2, <3>1, KeyType
    <3>3. Bearing(log \o Batch(log, Call(i), attempt[i].held), Key[c]) = Bearing(log, Key[c])
            \cup (IF Key[c] = attempt[i].held THEN Len(log) + 1..Len(log) + Emits[Call(i)] ELSE {})
      BY <1>1, <3>1, <3>2, BatchBears
    <3>4. QED
      BY <3>2, <3>3
  <2>4. QED
    BY <2>1, <2>2, <2>3, StepWrites
<1>6. QED
  BY <1>3, <1>4, <1>5 DEF Stays

\* Deliveries are counted up.
LEMMA SentGrows ==
  ASSUME FoldInv, [Next]_vars, NEW c \in Calls, sent[c] > 0
  PROVE  sent'[c] > 0
<1>1. sent \in [Calls -> Nat]
  BY DEF FoldInv, TypeInv, TypeOK
<1>2. ASSUME NEW i, NEW n \in {0, 1}, sent' = [sent EXCEPT ![Call(i)] = @ + n]
      PROVE  sent'[c] > 0
  BY <1>1, <1>2
<1>3. QED
  BY <1>2, StepWrites

\* An answer that tells the truth goes on to.
LEMMA TellsStays ==
  ASSUME FoldInv, [Next]_vars, NEW c \in Calls, NEW answer, Tells(c, answer)
  PROVE  Tells(c, answer)'
<1>1. Bearing(log, Key[c]) \subseteq Bearing(log', Key[c])
  BY StepBears
<1>2. sent[c] > 0 => sent'[c] > 0
  BY SentGrows
<1>3. QED
  BY <1>1, <1>2 DEF Tells

LEMMA ToldStays ==
  ASSUME FoldInv, [Next]_vars, NEW d, NEW positions, Told(d, positions)
  PROVE  Told(d, positions)'
<1>1. Bearing(log, Key[d]) \subseteq Bearing(log', Key[d])
  BY StepBears
<1>2. Key[d] # NoTag /\ Bearing(log, Key[d]) # {} => Bearing(log', Key[d]) = Bearing(log, Key[d])
  BY StepBears
<1>3. QED
  BY <1>1, <1>2 DEF Told

-----------------------------------------------------------------------------
(* What clients are told.                                                  *)

\* What is found of a key is what a client of the key may be told.
LEMMA RecoveredTold ==
  ASSUME NEW r \in Requests, Recovered(Key[r]).kind = "committed"
  PROVE  Told(r, Recovered(Key[r]).positions)
BY DEF Recovered, Said, Committed, Told

\* Where a batch lands is all there is of its key.
LEMMA LandTells ==
  ASSUME FoldInv, NEW r \in Requests, Land(r)
  PROVE  Told(r, Landed(r))'
<1>1. /\ log \in Seq(Record) /\ exec \in [Requests -> Execution]
      /\ r \in Deciders /\ Key[r] \in Tags \cup {NoTag} /\ Emits[r] \in Nat \ {0}
  BY ShapeAssumption, KeyType DEF FoldInv, TypeInv, TypeOK, Deciders
<1>2. log' = log \o Batch(log, r, Key[r]) /\ ~Duplicate(log, Key[r])
  BY DEF Land, AppendBatch, Admissible
<1>3. Bearing(log', Key[r]) = Bearing(log, Key[r]) \cup (Len(log) + 1..Len(log) + Emits[r])
  BY <1>1, <1>2, BatchBears
<1>4. exec'[r].first = Len(log) + 1
  BY <1>1 DEF Land, Execution
<1>5. Landed(r)' = Len(log) + 1..Len(log) + Emits[r] /\ Len(log) \in Nat
  BY <1>1, <1>4 DEF Landed
<1>6. Len(log) + 1 \in Landed(r)'
  BY <1>1, <1>5
<1>7. Key[r] # NoTag => Bearing(log, Key[r]) = {}
  BY <1>2 DEF Duplicate
<1>8. QED
  BY <1>3, <1>5, <1>6, <1>7 DEF Told

\* What a step of a request leaves of what is known, and what it tells.
LEMMA RequestTells ==
  ASSUME FoldInv, Telling, NEW r \in Requests, RequestStep(r), NEW s \in Requests
  PROVE  /\ \/ ~At(s, "landed")'
            \/ At(s, "landed") /\ exec'[s].first = exec[s].first
            \/ Land(s)
         /\ \/ reply'[s] = reply[s]
            \/ ~Succeeded(s)'
            \/ Told(s, reply'[s].positions) /\ log' = log
<1>1. /\ exec \in [Requests -> Execution] /\ exec[s] \in Execution /\ exec[r] \in Execution
      /\ reply \in [Requests -> Replies]
  BY DEF FoldInv, TypeInv, TypeOK
<1>2. CASE \E answer : Tell(r, answer) /\ (answer.kind = "committed" => Told(r, answer.positions) /\ log' = log)
  BY <1>1, <1>2 DEF Tell, Idle, At, Succeeded
<1>3. CASE reply' = reply /\ (Send(r) \/ Fold(r) \/ FindDuplicate(r))
  <2>1. s = r => ~At(s, "landed")'
    BY <1>1, <1>3 DEF Send, Fold, FindDuplicate, To, At, Execution
  <2>2. s # r => exec'[s] = exec[s]
    BY <1>1, <1>3 DEF Send, Fold, FindDuplicate, To
  <2>3. QED
    BY <1>3, <2>1, <2>2 DEF At
<1>4. CASE Land(r)
  <2>1. s # r => exec'[s] = exec[s]
    BY <1>1, <1>4 DEF Land
  <2>2. QED
    BY <1>4, <2>1 DEF At, Land
<1>5. CASE reply' = reply /\ exec' = [exec EXCEPT ![r].stage = "fold", ![r].tries = @ + 1]
  <2>1. s = r => ~At(s, "landed")'
    BY <1>1, <1>5 DEF At, Execution
  <2>2. s # r => exec'[s] = exec[s]
    BY <1>1, <1>5
  <2>3. QED
    BY <1>5, <2>1, <2>2 DEF At
<1>6. CASE Answer(r)
  BY <1>2, <1>6 DEF Answer, Committed, Telling, Landed
<1>7. CASE Recover(r) \/ Check(r)
  <2>1. \E answer : Tell(r, answer) /\ (answer = Recovered(Key[r]) \/ answer = Said(Decision(r, exec[r].seen)))
    BY <1>7 DEF Recover, Check
  <2>2. log' = log /\ (Check(r) => At(r, "check")) /\ exec[r].seen \in Nat /\ r \in Deciders
    BY <1>1, <1>7 DEF Recover, Check, Execution, Deciders
  <2>3. Check(r) => Decision(r, exec[r].seen) # "committed"
    <3>1. Check(r) => Decision(r, exec[r].seen) \in Refusals
      BY <2>2, DecisionType DEF FoldInv, TypeInv, Deciding
    <3>2. QED
      BY <3>1 DEF Refusals
  <2>4. QED
    BY <1>2, <1>7, <2>1, <2>2, <2>3, RecoveredTold DEF Said, Recover, Check
<1>8. CASE \E kind \in {"conflict", "unavailable", "error"} : Tell(r, Said(kind))
  BY <1>2, <1>8 DEF Said
<1>9. QED
  BY <1>3, <1>4, <1>5, <1>6, <1>7, <1>8
  DEF RequestStep, Progress, Send, Fold, FindDuplicate, Beaten, ShutOut, Fault

LEMMA TellingStep ==
  ASSUME FoldInv, Telling, [Next]_vars
  PROVE  Telling'
<1> SUFFICES ASSUME NEW s \in Requests
    PROVE  /\ At(s, "landed")' => Told(s, Landed(s))'
           /\ Succeeded(s)' => Told(s, reply[s].positions)'
  BY DEF Telling
<1>1. At(s, "landed") /\ exec'[s].first = exec[s].first => Told(s, Landed(s))'
  <2>1. At(s, "landed") => Told(s, Landed(s))
    BY DEF Telling
  <2>2. \A P : Told(s, P) => Told(s, P)'
    BY ToldStays
  <2>3. QED
    BY <2>1, <2>2 DEF Landed, Told
<1>2. reply'[s] = reply[s] /\ Succeeded(s)' => Told(s, reply[s].positions)'
  <2>1. reply'[s] = reply[s] /\ Succeeded(s)' => Told(s, reply[s].positions)
    BY DEF Succeeded, Telling
  <2>2. \A P : Told(s, P) => Told(s, P)'
    BY ToldStays
  <2>3. QED
    BY <2>1, <2>2 DEF Told
<1>3. CASE \E r \in Requests : RequestStep(r)
  <2>1. /\ \/ ~At(s, "landed")'
           \/ At(s, "landed") /\ exec'[s].first = exec[s].first
           \/ Land(s)
        /\ \/ reply'[s] = reply[s]
           \/ ~Succeeded(s)'
           \/ Told(s, reply'[s].positions) /\ log' = log
    BY <1>3, RequestTells
  <2>2. Told(s, reply'[s].positions) /\ log' = log => Told(s, reply[s].positions)'
    BY DEF Told
  <2>3. Land(s) => Told(s, Landed(s))'
    BY LandTells
  <2>4. QED
    BY <1>1, <1>2, <2>1, <2>2, <2>3
<1>4. CASE (\E i \in Invocations : InvocationStep(i)) \/ (Drain /\ UNCHANGED journalVars) \/ UNCHANGED vars
  <2>1. exec' = exec /\ reply' = reply
    BY <1>4 DEF Drain, vars, InvocationStep, Attempt, Ask, Request, NoResponse, InvokeFold, InvokeLand,
                InvokeRefused, RecordCall, JournalFault, Complete, FailTerminally, SkipWedged, End
  <2>2. QED
    BY <1>1, <1>2, <2>1 DEF At
<1>5. CASE Crash
  <2>1. ~At(s, "landed")' /\ reply' = reply
    BY <1>5 DEF Crash, DispatchStops, At, Idle
  <2>2. QED
    BY <1>2, <2>1
<1>6. QED
  BY <1>3, <1>4, <1>5 DEF Next

-----------------------------------------------------------------------------
(* What rows say.                                                          *)

\* A row that is new is of the call an attempt was about to record.
LEMMA NewRow ==
  ASSUME FoldInv, Recording, [Next]_vars, NEW c \in Calls, journal[c] = "none", journal'[c] # "none"
  PROVE  \E i \in Invocations : /\ In(i, "record") /\ c = Call(i)
                                /\ journal'[c] = attempt[i].outcome
<1>1. journal \in [Calls -> Outcomes \cup {"none"}]
  BY DEF FoldInv, TypeInv, TypeOK
<1>2. PICK i \in Invocations : In(i, "record") /\ journal' = [journal EXCEPT ![Call(i)] = attempt[i].outcome]
  BY StepWrites DEF RecordRow
<1>3. QED
  BY <1>1, <1>2

\* A call without a row gets one only by RecordRow, and then has an outcome.
LEMMA RowWritten ==
  ASSUME FoldInv, Recording, NEW i \in Invocations, In(i, "record"), RecordRow(i)
  PROVE  journal'[Call(i)] # "none"
<1>1. Call(i) \in Calls /\ journal \in [Calls -> Outcomes \cup {"none"}]
  BY Placed DEF FoldInv, TypeInv, TypeOK, In, Performing
<1>2. QED
  BY <1>1 DEF RecordRow, Recording

LEMMA RowsStep ==
  ASSUME FoldInv, Recording, RowsTell, ResumesAtTail, [Next]_vars
  PROVE  RowsTell' /\ ResumesAtTail'
<1>1. ASSUME NEW c \in Calls PROVE Tells(c, journal[c])'
  <2>1. CASE journal[c] # "none"
    <3>1. Stays(c)
      BY <2>1, RowStays
    <3>2. Tells(c, journal[c])
      BY DEF RowsTell, Tells
    <3>3. QED
      BY <3>1, <3>2 DEF Stays, Tells
  <2>2. CASE journal[c] = "none" /\ journal'[c] # "none"
    <3>1. PICK i \in Invocations : In(i, "record") /\ c = Call(i) /\ journal'[c] = attempt[i].outcome
      BY <2>2, NewRow
    <3>2. Tells(c, attempt[i].outcome)
      BY <3>1 DEF Recording
    <3>3. \A answer : Tells(c, answer) => Tells(c, answer)'
      BY TellsStays
    <3>4. QED
      BY <3>1, <3>2, <3>3 DEF Tells
  <2>3. CASE journal'[c] = "none"
    BY <2>3 DEF Tells
  <2>4. QED
    BY <2>1, <2>2, <2>3
<1>2. ASSUME NEW i \in Invocations, NEW m \in DOMAIN Script[i], NEW n \in DOMAIN Script[i],
             m < n, journal'[Script[i][n]] # "none"
      PROVE  journal'[Script[i][m]] # "none"
  <2>1. Script[i][m] \in Calls /\ Script[i][n] \in Calls
    BY ScriptAssumption, ElementOfSeq
  <2>2. journal[Script[i][m]] # "none"
    <3>1. CASE journal[Script[i][n]] # "none"
      BY <1>2, <3>1 DEF ResumesAtTail
    <3>2. CASE journal[Script[i][n]] = "none"
      <4>1. PICK j \in Invocations : In(j, "record") /\ Script[i][n] = Call(j)
        BY <1>2, <2>1, <3>2, NewRow
      <4>2. i = j /\ n = attempt[j].at
        BY <4>1, Placed DEF In, Performing
      <4>3. QED
        BY <1>2, <4>2 DEF Recording
    <3>3. QED
      BY <3>1, <3>2
  <2>3. QED
    BY <2>1, <2>2, RowStays DEF Stays
<1>3. RowsTell'
  BY <1>1 DEF RowsTell, Tells
<1>4. QED
  BY <1>2, <1>3 DEF ResumesAtTail

-----------------------------------------------------------------------------
(* What an attempt is about to record.                                     *)

\* A step of an invocation is of its own attempt.
LEMMA AttemptOfOne ==
  ASSUME FoldInv, NEW i \in Invocations, InvocationStep(i), NEW j \in Invocations, i # j
  PROVE  attempt'[j] = attempt[j]
<1>1. attempt \in [Invocations -> AttemptState]
  BY DEF FoldInv, TypeInv, TypeOK
<1>2. attempt' = [attempt EXCEPT ![i] = attempt'[i]]
  <2>1. CASE Attempt(i) \/ RecordCall(i) \/ Ask(i)
    BY <1>1, <2>1 DEF Attempt, RecordCall, Ask
  <2>2. CASE Request(i) \/ InvokeLand(i) \/ InvokeFold(i)
    BY <1>1, <2>2 DEF Request, InvokeLand, InvokeFold
  <2>3. CASE attempt' = [attempt EXCEPT ![i] = NoAttempt]
    BY <1>1, <2>3
  <2>4. QED
    BY <2>1, <2>2, <2>3
    DEF InvocationStep, NoResponse, InvokeRefused, JournalFault, Wedge, Complete, FailTerminally, SkipWedged, End
<1>3. QED
  BY <1>1, <1>2

\* An attempt goes to the next call when it finds or writes a row, and back to the first.
LEMMA AttemptPlace ==
  ASSUME FoldInv, NEW i \in Invocations, InvocationStep(i)
  PROVE  attempt'[i].at \in {1, attempt[i].at} \/ Ask(i) \/ RecordCall(i)
<1>1. attempt \in [Invocations -> AttemptState] /\ attempt[i] \in AttemptState
  BY DEF FoldInv, TypeInv, TypeOK
<1>2. CASE Attempt(i) \/ Request(i) \/ InvokeLand(i) \/ InvokeFold(i)
  BY <1>1, <1>2 DEF Attempt, Request, InvokeLand, InvokeFold, AttemptState
<1>3. CASE attempt' = [attempt EXCEPT ![i] = NoAttempt]
  BY <1>1, <1>3 DEF NoAttempt
<1>4. QED
  BY <1>2, <1>3
  DEF InvocationStep, NoResponse, InvokeRefused, JournalFault, Wedge, Complete, FailTerminally, SkipWedged, End

\* An attempt has passed the calls that have a row.
LEMMA PassedStep ==
  ASSUME FoldInv, Recording, [Next]_vars,
         NEW i \in Invocations, NEW n \in DOMAIN Script[i], n < attempt'[i].at
  PROVE  journal'[Script[i][n]] # "none"
<1>0. /\ attempt \in [Invocations -> AttemptState] /\ attempt[i] \in AttemptState
      /\ Script[i][n] \in Calls /\ n \in Nat \ {0}
  BY ScriptAssumption, ElementOfSeq DEF FoldInv, TypeInv, TypeOK
<1>1. CASE n < attempt[i].at
  <2>1. journal[Script[i][n]] # "none"
    BY <1>1 DEF Recording
  <2>2. QED
    BY <1>0, <2>1, RowStays DEF Stays
<1>2. CASE attempt'[i].at = attempt[i].at \/ attempt'[i].at = 1
  BY <1>0, <1>1, <1>2
<1>3. CASE Ask(i)
  <2>1. attempt'[i].at = IF journal[Call(i)] = "none" THEN attempt[i].at ELSE attempt[i].at + 1
    BY <1>0, <1>3 DEF Ask, AttemptState
  <2>2. CASE n = attempt[i].at /\ journal[Call(i)] # "none"
    BY <1>3, <2>2 DEF Ask, Call
  <2>3. QED
    BY <1>0, <1>1, <2>1, <2>2 DEF AttemptState
<1>4. CASE RecordCall(i)
  <2>1. attempt'[i].at = attempt[i].at + 1
    BY <1>0, <1>4 DEF RecordCall, AttemptState
  <2>2. journal'[Call(i)] # "none"
    BY <1>4, RowWritten DEF RecordCall
  <2>3. CASE n = attempt[i].at
    BY <2>2, <2>3 DEF Call
  <2>4. QED
    BY <1>0, <1>1, <2>1, <2>3 DEF AttemptState
<1>5. CASE \E j \in Invocations : InvocationStep(j)
  <2> PICK j \in Invocations : InvocationStep(j)
    BY <1>5
  <2>1. CASE i # j
    <3>1. attempt'[i] = attempt[i]
      BY <1>0, <2>1, AttemptOfOne
    <3>2. QED
      BY <1>2, <3>1
  <2>2. CASE i = j
    <3>1. attempt'[i].at \in {1, attempt[i].at} \/ Ask(i) \/ RecordCall(i)
      BY <1>0, <2>2, AttemptPlace
    <3>2. QED
      BY <1>2, <1>3, <1>4, <3>1
  <2>3. QED
    BY <2>1, <2>2
<1>6. CASE (\E r \in Requests : RequestStep(r)) \/ (Drain /\ UNCHANGED journalVars) \/ UNCHANGED vars
  BY <1>2, <1>6 DEF RequestStep, vars
<1>7. CASE Crash
  BY <1>2, <1>7 DEF Crash, NoAttempt
<1>8. QED
  BY <1>5, <1>6, <1>7 DEF Next

\* What an invocation performs is what it performed, or what it found no row of.
LEMMA PerformingStep ==
  ASSUME FoldInv, Recording, [Next]_vars, NEW i \in Invocations, Performing(i)'
  PROVE  journal'[Call(i)'] = "none"
<1>0. /\ attempt \in [Invocations -> AttemptState] /\ attempt[i] \in AttemptState
      /\ journal \in [Calls -> Outcomes \cup {"none"}]
  BY DEF FoldInv, TypeInv, TypeOK
<1>1. CASE Performing(i) /\ attempt'[i].at = attempt[i].at /\ journal' = journal
  BY <1>1 DEF Recording, Call
<1>2. CASE InvocationStep(i)
  <2>1. CASE Ask(i)
    <3>1. journal[Call(i)] = "none" /\ attempt'[i].at = attempt[i].at /\ journal' = journal
      BY <1>0, <2>1 DEF Ask, Performing, AttemptState
    <3>2. QED
      BY <3>1 DEF Call
  <2>2. CASE Request(i) \/ InvokeFold(i) \/ InvokeLand(i)
    <3>1. Performing(i) /\ attempt'[i].at = attempt[i].at /\ journal' = journal
      BY <1>0, <2>2 DEF Request, InvokeFold, InvokeLand, Performing, In, AttemptState
    <3>2. QED
      BY <1>1, <3>1
  <2>3. CASE Attempt(i) \/ RecordCall(i) \/ attempt' = [attempt EXCEPT ![i] = NoAttempt]
    <3>1. ~Performing(i)'
      BY <1>0, <2>3 DEF Attempt, RecordCall, Performing, NoAttempt, AttemptState
    <3>2. QED
      BY <3>1
  <2>4. QED
    BY <1>2, <2>1, <2>2, <2>3
    DEF InvocationStep, NoResponse, InvokeRefused, JournalFault, Wedge, Complete, FailTerminally, SkipWedged, End
<1>3. CASE \E j \in Invocations : i # j /\ InvocationStep(j)
  <2> PICK j \in Invocations : i # j /\ InvocationStep(j)
    BY <1>3
  <2>1. attempt'[i] = attempt[i]
    BY AttemptOfOne
  <2>2. Performing(i) /\ Call(i)' = Call(i)
    BY <2>1 DEF Performing, Call
  <2>3. journal[Call(i)] = "none" /\ Call(i) \in Calls
    BY <2>2, Placed DEF Recording
  <2>4. CASE In(j, "record") /\ RecordRow(j)
    <3>1. Call(j) # Call(i)
      <4>1. attempt[j].at \in DOMAIN Script[j]
        BY <2>4, Placed DEF In, Performing
      <4>2. QED
        BY <2>2, <4>1, Placed DEF Call
    <3>2. QED
      BY <1>0, <2>2, <2>3, <2>4, <3>1 DEF RecordRow
  <2>5. CASE journal' = journal
    BY <2>2, <2>3, <2>5
  <2>6. QED
    BY <2>4, <2>5
    DEF InvocationStep, Attempt, Ask, Request, NoResponse, InvokeFold, InvokeLand, InvokeRefused,
        RecordCall, JournalFault, Complete, FailTerminally, SkipWedged, End
<1>4. CASE (\E r \in Requests : RequestStep(r)) \/ (Drain /\ UNCHANGED journalVars) \/ UNCHANGED vars
  <2>1. attempt' = attempt /\ journal' = journal
    BY <1>4 DEF RequestStep, vars
  <2>2. QED
    BY <1>1, <2>1 DEF Performing
<1>5. CASE Crash
  BY <1>5 DEF Crash, Performing, NoAttempt
<1>6. QED
  BY <1>2, <1>3, <1>4, <1>5 DEF Next

\* An answer about to be recorded is of what the attempt did.
LEMMA OutcomeStep ==
  ASSUME FoldInv, Recording, [Next]_vars, NEW i \in Invocations, In(i, "record")'
  PROVE  attempt'[i].outcome # "none" /\ Tells(Call(i), attempt[i].outcome)'
<1>0. /\ attempt \in [Invocations -> AttemptState] /\ attempt[i] \in AttemptState
      /\ log \in Seq(Record) /\ sent \in [Calls -> Nat]
  BY DEF FoldInv, TypeInv, TypeOK
<1>1. CASE attempt'[i] = attempt[i]
  <2>1. In(i, "record") /\ Call(i)' = Call(i)
    BY <1>1 DEF In, Call
  <2>2. Call(i) \in Calls /\ attempt[i].outcome # "none" /\ Tells(Call(i), attempt[i].outcome)
    BY <2>1, Placed DEF Recording, In, Performing
  <2>3. \A answer : Tells(Call(i), answer) => /\ answer = "committed" => Bearing(log', Key[Call(i)]) # {}
                                              /\ answer = "response" => sent'[Call(i)] > 0
    <3>1. ASSUME NEW c \in Calls, NEW answer, Tells(c, answer) PROVE Tells(c, answer)'
      BY <3>1, TellsStays
    <3>2. QED
      BY <2>2, <3>1 DEF Tells
  <2>4. QED
    BY <1>1, <2>1, <2>2, <2>3 DEF Tells
<1>2. CASE InvocationStep(i)
  <2>1. CASE Request(i)
    <3>1. Call(i) \in Calls /\ attempt'[i].outcome = "response" /\ attempt'[i].at = attempt[i].at
      BY <1>0, <2>1, Placed DEF Request, In, Performing, AttemptState
    <3>2. sent'[Call(i)] > 0 /\ Call(i)' = Call(i)
      BY <1>0, <2>1, <3>1 DEF Request, Call
    <3>3. QED
      BY <3>1, <3>2 DEF Tells
  <2>2. CASE InvokeFold(i)
    <3>1. /\ Call(i) \in Deciders /\ Cardinality(Matching(log, Call(i), 0)) \in Nat
      BY <1>0, <2>2, Countable DEF InvokeFold, In, FoldInv, TypeInv, Asking, Deciders
    <3>2. attempt'[i].outcome = Decision(Call(i), Cardinality(Matching(log, Call(i), 0)))
          /\ attempt'[i].outcome # "emit"
      BY <1>0, <2>2 DEF InvokeFold, In, AttemptState
    <3>3. attempt'[i].outcome \in Refusals
      BY <3>1, <3>2, DecisionType
    <3>4. QED
      BY <3>3 DEF Refusals, Tells
  <2>3. CASE InvokeLand(i)
    <3>1. /\ Call(i) \in Deciders /\ attempt[i].held = Key[Call(i)] /\ Key[Call(i)] \in Tags \cup {NoTag}
      BY <2>3, Placed, KeyType DEF InvokeLand, In, Performing, FoldInv, TypeInv, Asking, Deciders
    <3>2. Bearing(log', Key[Call(i)]) = Bearing(log, Key[Call(i)])
            \cup (Len(log) + 1..Len(log) + Emits[Call(i)])
      <4>1. log' = log \o Batch(log, Call(i), Key[Call(i)])
        BY <2>3, <3>1 DEF InvokeLand, InvokeAppend
      <4>2. QED
        BY <1>0, <3>1, <4>1, BatchBears
    <3>3. Len(log) + 1 \in Len(log) + 1..Len(log) + Emits[Call(i)]
      <4>1. Emits[Call(i)] \in Nat \ {0} /\ Len(log) \in Nat
        BY <1>0, <3>1, ShapeAssumption
      <4>2. QED
        BY <4>1
    <3>4. attempt'[i].outcome = "committed" /\ attempt'[i].at = attempt[i].at
      BY <1>0, <2>3 DEF InvokeLand, AttemptState
    <3>5. QED
      BY <3>2, <3>3, <3>4 DEF Tells, Call
  <2>4. CASE Attempt(i) \/ Ask(i) \/ RecordCall(i) \/ attempt' = [attempt EXCEPT ![i] = NoAttempt]
    <3>1. ~In(i, "record")'
      BY <1>0, <2>4 DEF Attempt, Ask, RecordCall, In, NoAttempt, AttemptState
    <3>2. QED
      BY <3>1
  <2>5. QED
    BY <1>2, <2>1, <2>2, <2>3, <2>4
    DEF InvocationStep, NoResponse, InvokeRefused, JournalFault, Wedge, Complete, FailTerminally, SkipWedged, End
<1>3. CASE \E j \in Invocations : i # j /\ InvocationStep(j)
  BY <1>1, <1>3, AttemptOfOne
<1>4. CASE (\E r \in Requests : RequestStep(r)) \/ (Drain /\ UNCHANGED journalVars) \/ UNCHANGED vars
  BY <1>1, <1>4 DEF RequestStep, vars
<1>5. CASE Crash
  BY <1>5 DEF Crash, In, NoAttempt
<1>6. QED
  BY <1>2, <1>3, <1>4, <1>5 DEF Next

\* An invocation that ran to its end passed every call.
LEMMA CompletedStep ==
  ASSUME FoldInv, Recording, Completed, [Next]_vars
  PROVE  Completed'
<1> SUFFICES ASSUME NEW i \in Invocations, NEW n \in DOMAIN Script[i], done'[i] = "completed"
    PROVE  journal'[Script[i][n]] # "none"
  BY DEF Completed
<1>1. /\ Script[i] \in Seq(Calls) /\ Script[i][n] \in Calls /\ n \in 1..Len(Script[i])
      /\ done \in [Invocations -> {"no", "completed", "failed", "skipped"}]
      /\ attempt[i].at \in Nat
  BY ScriptAssumption, ElementOfSeq DEF FoldInv, TypeInv, TypeOK, AttemptState
<1>2. CASE done[i] = "completed"
  <2>1. journal[Script[i][n]] # "none"
    BY <1>2 DEF Completed
  <2>2. QED
    BY <1>1, <2>1, RowStays DEF Stays
<1>3. CASE Complete(i)
  <2>1. attempt[i].at > Len(Script[i])
    BY <1>3 DEF Complete
  <2>2. n < attempt[i].at
    BY <1>1, <2>1
  <2>3. journal[Script[i][n]] # "none" /\ journal' = journal
    BY <1>3, <2>2 DEF Recording, Complete, End
  <2>4. QED
    BY <2>3
<1>4. CASE \E j \in Invocations : InvocationStep(j)
  <2>1. done'[i] = done[i] \/ Complete(i) \/ done'[i] \in {"failed", "skipped"}
    BY <1>1, <1>4
    DEF InvocationStep, Attempt, Ask, Request, NoResponse, InvokeFold, InvokeLand, InvokeRefused,
        RecordCall, JournalFault, Complete, FailTerminally, SkipWedged, End
  <2>2. QED
    BY <1>2, <1>3, <2>1
<1>5. CASE (\E r \in Requests : RequestStep(r)) \/ (Drain /\ UNCHANGED journalVars) \/ Crash \/ UNCHANGED vars
  BY <1>2, <1>5 DEF RequestStep, Crash, vars
<1>6. QED
  BY <1>4, <1>5 DEF Next

LEMMA AnswerInit == Init => AnswerInv
<1> SUFFICES ASSUME Init PROVE AnswerInv
  OBVIOUS
<1>1. FoldInv
  BY TypeInit, FoldingInit DEF FoldInv
<1>2. Telling
  BY DEF Init, DispatchInit, Telling, At, Idle, Succeeded, NoReply
<1>3. Recording
  <2> SUFFICES ASSUME NEW i \in Invocations
      PROVE  /\ \A n \in DOMAIN Script[i] : n < attempt[i].at => journal[Script[i][n]] # "none"
             /\ ~Performing(i) /\ ~In(i, "record")
    BY DEF Recording
  <2>1. attempt[i] = NoAttempt
    BY DEF Init, JournalInit
  <2>2. Script[i] \in Seq(Calls)
    BY ScriptAssumption
  <2>3. QED
    BY <2>1, <2>2 DEF NoAttempt, Performing, In
<1>4. \A c \in Calls : journal[c] = "none"
  BY DEF Init, JournalInit
<1>5. RowsTell
  BY <1>4 DEF RowsTell
<1>6. \A i \in Invocations : \A n \in DOMAIN Script[i] : Script[i][n] \in Calls
  BY ScriptAssumption, ElementOfSeq
<1>7. ResumesAtTail
  BY <1>4, <1>6 DEF ResumesAtTail
<1>8. Completed
  BY DEF Init, JournalInit, Completed
<1>9. QED
  BY <1>1, <1>2, <1>3, <1>5, <1>7, <1>8 DEF AnswerInv

LEMMA AnswerStep ==
  ASSUME AnswerInv, [Next]_vars
  PROVE  AnswerInv'
<1>1. FoldInv'
  BY FoldingStep, TypePreserved DEF AnswerInv, FoldInv
<1>2. Telling'
  BY TellingStep DEF AnswerInv
<1>3. Recording'
  <2>1. \A i \in Invocations : \A n \in DOMAIN Script[i] :
          n < attempt'[i].at => journal'[Script[i][n]] # "none"
    BY PassedStep DEF AnswerInv
  <2>2. \A i \in Invocations : Performing(i)' => journal'[Call(i)'] = "none"
    BY PerformingStep DEF AnswerInv
  <2>3. \A i \in Invocations : In(i, "record")' =>
          attempt'[i].outcome # "none" /\ Tells(Call(i), attempt[i].outcome)'
    BY OutcomeStep DEF AnswerInv
  <2>4. QED
    BY <2>1, <2>2, <2>3 DEF Recording
<1>4. RowsTell' /\ ResumesAtTail' /\ Completed'
  BY RowsStep, CompletedStep DEF AnswerInv
<1>5. QED
  BY <1>1, <1>2, <1>3, <1>4 DEF AnswerInv

\* What clients were told, what rows say and what attempts have passed, at every step of
\* every interleaving of requests, invocations, faults and crashes.
THEOREM AnswersCorrect == Spec => []AnswerInv
<1>1. QED
  BY AnswerInit, AnswerStep, PTL DEF Spec

\* AnswersTrue for every set of requests and every script of every invocation.
THEOREM AnswersAreTrue == Spec => []AnswersTrue
<1>1. AnswerInv => RepliesTrue
  BY DEF AnswerInv, Telling, Told, RepliesTrue, Bearing
<1>2. AnswerInv => AnswersTrue
  BY <1>1 DEF AnswerInv, Completed, AnswersTrue
<1>3. QED
  BY <1>2, AnswersCorrect, PTL

\* A key that a client was told of has all its events in the log, so whoever is told next
\* is told the same.
LEMMA AgreeStep ==
  ASSUME AnswerInv, AnswerInv', [Next]_vars, NEW r \in Requests, NEW s \in Requests
  PROVE  Agree(r, s)
<1> SUFFICES ASSUME Succeeded(r), Succeeded(s)', Key[r] = Key[s], Key[r] # NoTag
    PROVE  reply'[s] = reply[r]
  BY DEF Agree
<1>1. reply[r].positions = Bearing(log, Key[r]) /\ Bearing(log, Key[r]) # {}
  BY DEF AnswerInv, Telling, Told
<1>2. reply'[s].positions = Bearing(log', Key[s])
  BY DEF AnswerInv, Telling, Told
<1>3. Bearing(log', Key[r]) = Bearing(log, Key[r])
  BY <1>1, StepBears DEF AnswerInv
<1>4. reply[r] \in Replies /\ reply'[s] \in Replies
  BY DEF AnswerInv, FoldInv, TypeInv, TypeOK
<1>5. \A answer \in Replies : answer.kind = "committed" => answer = Committed(answer.positions)
  BY DEF Replies, Refusals, Committed
<1>6. QED
  BY <1>1, <1>2, <1>3, <1>4, <1>5 DEF Succeeded

\* AnswersStand for every interleaving: clients of one key are told of one commit, and a
\* call with a row is never performed again.
THEOREM AnswersDoStand == Spec => AnswersStand
<1>1. ASSUME AnswerInv, AnswerInv', [Next]_vars
      PROVE  /\ \A r, s \in Requests : Agree(r, s)
             /\ \A c \in Calls : journal[c] # "none" => Stays(c)
  BY <1>1, AgreeStep, RowStays DEF AnswerInv
<1>2. QED
  BY <1>1, AnswersCorrect, PTL DEF Spec, AnswersStand

-----------------------------------------------------------------------------
(* A commit is never denied.                                               *)

\* A command that reads nothing decides by its input, and requests of one key have one
\* input: if one of them emits, so does the other.
Repeats ==
  \A r, s \in Requests :
    Key[r] = Key[s] /\ Key[r] # NoTag /\ Reads[r] = {} /\ Cap[s] > 0 => Cap[r] > 0

\* What carries a tag was emitted by a command of that tag.
Emitted ==
  \A t \in Tags : Bearing(log, t) # {} => \E d \in Deciders : Key[d] = t /\ Cap[d] > 0

LEMMA EmittedStep ==
  ASSUME FoldInv, Emitted, [Next]_vars
  PROVE  Emitted'
<1> SUFFICES ASSUME NEW t \in Tags, Bearing(log', t) # {}, Bearing(log, t) = {}
    PROVE  \E d \in Deciders : Key[d] = t /\ Cap[d] > 0
  BY StepBears DEF Emitted
<1>1. PICK d \in Deciders, n \in Nat : Appends(d, n)
  BY StepAppends
<1>2. log \in Seq(Record) /\ Key[d] \in Tags \cup {NoTag}
  BY KeyType DEF FoldInv, TypeInv, TypeOK
<1>3. Key[d] = t
  <2>1. log' = log \o Batch(log, d, Key[d])
    BY <1>1 DEF Appends
  <2>2. \A u : Bearing(log \o Batch(log, d, Key[d]), u) = Bearing(log, u)
          \cup (IF u = Key[d] THEN Len(log) + 1..Len(log) + Emits[d] ELSE {})
    <3>1. d \in Deciders /\ log \in Seq(Record) /\ Key[d] \in Tags \cup {NoTag}
      BY <1>1, <1>2
    <3>2. QED
      BY <3>1, BatchBears
  <2>3. QED
    BY <2>1, <2>2
<1>4. Cap[d] > 0
  <2>1. Cardinality(Upto(log, d, n)) < Cap[d]
    BY <1>1, ShapeAssumption DEF Appends, Decision, Refusals
  <2>2. Cardinality(Upto(log, d, n)) \in Nat /\ Cap[d] \in Nat
    BY <1>2, Countable, ShapeAssumption
  <2>3. QED
    BY <2>1, <2>2
<1>5. QED
  BY <1>3, <1>4

\* A command that reads nothing and does not emit has never emitted under its key.
LEMMA NeverEmitted ==
  ASSUME FoldInv, Emitted, Repeats, NEW r \in Requests, At(r, "check"), Reads[r] = {}
  PROVE  ~Duplicate(log, Key[r])
<1>1. exec[r].after \in Nat /\ exec[r].seen = Cardinality(Upto(log, r, exec[r].after)) /\ r \in Deciders
  BY DEF FoldInv, TypeInv, TypeOK, Execution, Folding, Deciders
<1>2. Upto(log, r, exec[r].after) = {}
  BY DEF Upto
<1>3. exec[r].seen = 0
  BY <1>1, <1>2, FS_EmptySet
<1>4. Cap[r] = 0
  <2>1. Cap[r] \in Nat /\ Decision(r, 0) # "emit"
    BY <1>1, <1>3, ShapeAssumption DEF FoldInv, TypeInv, Deciding
  <2>2. QED
    BY <2>1 DEF Decision
<1>5. ASSUME Duplicate(log, Key[r]) PROVE FALSE
  <2>1. Key[r] \in Tags /\ Key[r] # NoTag
    BY <1>1, <1>5, KeyType DEF Duplicate
  <2>2. PICK d \in Deciders : Key[d] = Key[r] /\ Cap[d] > 0
    BY <1>5, <2>1 DEF Emitted, Duplicate
  <2>3. d \in Requests
    BY <2>2, KeyAssumption DEF Deciders
  <2>4. QED
    BY <1>4, <2>1, <2>2, <2>3 DEF Repeats
<1>6. QED
  BY <1>5

\* Only a check refuses, and it looks the key up unless the command reads nothing.
LEMMA DenialChecked ==
  ASSUME FoldInv, [Next]_vars, NEW r \in Requests, Denies(r)
  PROVE  Check(r) /\ (Reads[r] # {} => ~Duplicate(log, Key[r]))
<1>1. exec \in [Requests -> Execution] /\ exec[r] \in Execution /\ reply \in [Requests -> Replies]
      /\ faults \in Nat
  BY DEF FoldInv, TypeInv, TypeOK
<1>2. ASSUME NEW answer, Tell(r, answer) PROVE answer.kind \in Refusals
  BY <1>1, <1>2 DEF Tell, Denies
<1>3. \A tag : Recovered(tag).kind \notin Refusals
  BY DEF Recovered, Said, Committed, Refusals
<1>4. CASE RequestStep(r)
  <2>1. ~Fault(r)
    BY <1>1 DEF Fault, Denies
  <2>2. ~Send(r) /\ ~Fold(r) /\ ~Land(r) /\ ~FindDuplicate(r)
    BY <1>1 DEF Send, Fold, Land, FindDuplicate, To, Denies, At, Execution
  <2>3. ~(exec' = [exec EXCEPT ![r].stage = "fold", ![r].tries = @ + 1])
    BY <1>1 DEF Denies, At, Execution
  <2>4. ~ShutOut(r) /\ ~Answer(r) /\ ~Recover(r)
    BY <1>2, <1>3 DEF ShutOut, Answer, Recover, Said, Committed, Refusals
  <2>5. ~Beaten(r)
    BY <1>2, <2>3 DEF Beaten, Said, Refusals
  <2>6. Check(r)
    BY <1>4, <2>1, <2>2, <2>4, <2>5 DEF RequestStep, Progress
  <2>7. QED
    BY <1>2, <1>3, <2>6 DEF Check
<1>5. CASE exec'[r] = exec[r]
  BY <1>5 DEF Denies, At
<1>6. CASE \E s \in Requests : RequestStep(s)
  <2> PICK s \in Requests : RequestStep(s)
    BY <1>6
  <2>1. CASE s # r
    <3>1. exec'[r] = exec[r]
      BY <1>1, <2>1
      DEF RequestStep, Progress, Send, Fold, Land, FindDuplicate, Beaten, ShutOut, Answer, Recover, Check, Fault,
          To, Tell
    <3>2. QED
      BY <1>5, <3>1
  <2>2. QED
    BY <1>4, <2>1
<1>7. CASE (\E i \in Invocations : InvocationStep(i)) \/ (Drain /\ UNCHANGED journalVars) \/ UNCHANGED vars
  <2>1. exec' = exec
    BY <1>7 DEF Drain, vars, InvocationStep, Attempt, Ask, Request, NoResponse, InvokeFold, InvokeLand,
                InvokeRefused, RecordCall, JournalFault, Complete, FailTerminally, SkipWedged, End
  <2>2. QED
    BY <1>5, <2>1
<1>8. CASE Crash
  BY <1>1, <1>8 DEF Crash, Denies
<1>9. QED
  BY <1>6, <1>7, <1>8 DEF Next

\* NeverDenied for every interleaving, of requests that repeat themselves under a key.
THEOREM CommitsNeverDenied ==
  ASSUME Repeats
  PROVE  Spec => NeverDenied
<1>1. Init => Emitted
  BY DEF Init, Emitted, Bearing
<1>2. FoldInv /\ Emitted /\ [Next]_vars => Emitted'
  BY EmittedStep
<1>3. FoldInv /\ Emitted /\ [Next]_vars => \A r \in Requests : Denies(r) => ~Duplicate(log, Key[r])
  <2> SUFFICES ASSUME FoldInv, Emitted, [Next]_vars, NEW r \in Requests, Denies(r)
      PROVE  ~Duplicate(log, Key[r])
    OBVIOUS
  <2>1. Check(r) /\ (Reads[r] # {} => ~Duplicate(log, Key[r]))
    BY DenialChecked
  <2>2. QED
    BY <2>1, NeverEmitted DEF Check
<1>4. QED
  BY <1>1, <1>2, <1>3, FoldsCorrect, PTL DEF Spec, NeverDenied


=============================================================================
