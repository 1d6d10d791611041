---------------------------- MODULE ProjectorSafety ----------------------------
(***************************************************************************)
(* What a projector owes the log, the read API and the operator.           *)
(***************************************************************************)
EXTENDS Projector

Places == {"down", "start", "loop", "publish", "exit", "stopped",
           "build", "swap", "sweep", "reopen", "rebuilt", "degrade", "restore"}

TypeOK ==
  /\ log \in Seq(Kinds) /\ Len(log) <= MaxLog
  /\ main \in Model /\ wal \in Model /\ fresh \in Model
  /\ frames \subseteq Pages
  /\ format \in Formats \cup {0} /\ stranded \in BOOLEAN
  /\ pc \in Places
  /\ def \in Definitions
  /\ sub \in 0..MaxLog /\ position \in 0..MaxLog
  /\ readiness \in {"ready", "rebuilding", "stale", "quarantined", "failed"}
  /\ replay \in BOOLEAN /\ shutdown \in BOOLEAN /\ owed \in BOOLEAN
  /\ reader \in [Readers -> {"idle", "waiting", "reached", "reading"}]
  /\ after \in [Readers -> 0..MaxLog]
  /\ boots \in Nat /\ replays \in Nat /\ faults \in Nat

\* What a read finds that opens the model now: what the running definition
\* makes of the whole log up to the position the model names, and that is no
\* less than the position it waited for.
FindsItsOwn(r) ==
  /\ Live.upto >= after[r]
  /\ Live.handled = Rows(log, def, Live.upto)

\* A read whose wait has ended finds its own writes: a replay that swaps the
\* file, another read that kept the former model's WAL beside it, a rebuild
\* that publishes another position and a crash of a former process lie
\* between.  Excepted is the model that is not whole: from the rename of a
\* swap to the removal of that WAL, and after a thread that ended in between.
ReadsTrue ==
  \A r \in Readers : reader[r] = "reached" /\ ~Mixed => FindsItsOwn(r)

\* The same without the exception, as the comments of the swap have it.
ReadsAlwaysTrue ==
  \A r \in Readers : reader[r] = "reached" => FindsItsOwn(r)

\* The model as it reads once the WAL a swap has left is removed; nothing, if
\* that did not happen.
Seen ==
  IF stranded THEN Blank
  ELSE IF At("sweep") THEN main ELSE Live

ViewState ==
  CASE stranded -> "lost"
    [] Unswept /\ ~stranded -> "covered"
    [] ~Mixed -> "whole"

\* The live model is one definition's view of a prefix of the log, and never
\* of a shorter one than before: until a binary of another format empties it,
\* or a swap is left half done beside a WAL that another read kept.
View == INSTANCE LogView WITH view <- Seen, state <- ViewState
ImplementsView == View!Spec

\* The check on a checkpoint that regresses never fires: the subscription is
\* never behind what the thread has published.
NeverQuarantined == readiness # "quarantined"

\* A replay that was accepted is honoured: a rebuild begins after it was
\* asked for, also when it is asked for while another one runs; unless the
\* thread ends first.
ReplayHonoured == owed ~> (~owed \/ ~Running)

\* A projector that may serve reads follows the log, also through events it
\* does not handle, so that a wait for any position ends.
Serving == Running /\ readiness = "ready"
CatchesUp ==
  \A n \in Positions :
    (Serving /\ Len(log) >= n) ~> (position >= n \/ ~Serving)

=============================================================================
