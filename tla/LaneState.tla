------------------------------ MODULE LaneState ------------------------------
(***************************************************************************)
(* The in-memory scheduling state of one effect: `LaneState` in            *)
(* src/src/lanes.rs.  The struct's fields are the variables and each of    *)
(* its methods is an operator that says what the method reads or how it    *)
(* changes the fields.  The struct has no threads of its own: the module   *)
(* EffectRuntime calls these operators under the lock that guards it.      *)
(*                                                                         *)
(* Abstractions: a lane id is a member of Lanes, an arm a member of Arms;  *)
(* an instant is dropped, so a parked lane is "Deferred" and waking it is  *)
(* a choice of the caller; positions start at 1 and 0 stands for an absent *)
(* map entry.                                                              *)
(***************************************************************************)
EXTENDS Integers, Sequences, FiniteSets

CONSTANTS Lanes,        \* the keys an effect's events partition into
          Arms          \* the arms of the effect

VARIABLES
    queues,        \* lane -> queued groups, the front one runs next
    latest,        \* lane -> arm -> hi of the group still open to supersession, or 0
    high,          \* lane -> highest position ever offered to it, or 0
    place,         \* lane -> where it is, "None" if it has no work
    inflight,      \* the oldest position of every group not yet retired
    scanned,       \* the cursor up to which the log has been admitted
    rows,          \* lane -> what effect_lane is known to hold, or 0
    begun,         \* positions an earlier process already has a row for
    blind,         \* begun is incomplete, so nothing may be folded
    skipPromoted   \* positions a skip has already pulled forward

queueVars == <<queues, latest, high, place, inflight>>
resumeVars == <<rows, begun, blind>>
laneVars == <<queueVars, scanned, resumeVars, skipPromoted>>

Places == {"None", "Queued", "Running", "Deferred"}

\* One queued unit of work: hi is what runs, lo the oldest position it covers.
Group == [lo : Nat, hi : Nat, arm : Arms]

LaneTypeOK ==
    /\ queues \in [Lanes -> Seq(Group)]
    /\ latest \in [Lanes -> [Arms -> Nat]]
    /\ high \in [Lanes -> Nat]
    /\ place \in [Lanes -> Places]
    /\ inflight \subseteq Nat \ {0}
    /\ scanned \in Nat
    /\ rows \in [Lanes -> Nat]
    /\ begun \subseteq Nat
    /\ blind \in BOOLEAN
    /\ skipPromoted \subseteq Nat

-----------------------------------------------------------------------------
(* What the methods answer.                                                *)

\* The groups queued for a lane, and the front one.
Groups(l) == {queues[l][i] : i \in 1..Len(queues[l])}
Front(l) == queues[l][1]

\* Where in its queue the open group of (l, a) is; empty when there is none.
OpenAt(l, a) ==
    {i \in 1..Len(queues[l]) : queues[l][i].hi = latest[l][a] /\ queues[l][i].arm = a}

Oldest == CHOOSE p \in inflight : \A q \in inflight : p <= q

Lesser(a, b) == IF a <= b THEN a ELSE b
Greater(a, b) == IF a >= b THEN a ELSE b

\* Seeded defects of LowWater: the oldest position in flight counts as retired,
\* or only the scan is looked at.
LowWaterIncludingOldest == IF inflight = {} THEN scanned ELSE Lesser(Oldest, scanned)
LowWaterOfScan == scanned

\* The highest position every event at or below is retired.
LowWater == IF inflight = {} THEN scanned ELSE Lesser(Oldest - 1, scanned)

\* Whether a sweep bounded at mark would delete a lane row.
RowsToSweep(mark) == \E l \in Lanes : rows[l] # 0 /\ rows[l] <= mark

-----------------------------------------------------------------------------
(* What the methods change.                                                *)

\* A fresh state resuming at cursor with what the op-DB recorded above the mark.
Resuming(cursor, laneRow, recorded, incomplete) ==
    /\ queues' = [l \in Lanes |-> <<>>]
    /\ latest' = [l \in Lanes |-> [a \in Arms |-> 0]]
    /\ high' = laneRow
    /\ place' = [l \in Lanes |-> "None"]
    /\ inflight' = {}
    /\ scanned' = cursor
    /\ rows' = laneRow
    /\ begun' = recorded
    /\ blind' = incomplete
    /\ skipPromoted' = {}

\* Remove the group at index i of a queue.
Without(q, i) == SubSeq(q, 1, i - 1) \o SubSeq(q, i + 1, Len(q))

\* Seeded defect of Supersede: the survivor keeps the place of the group it takes over.
SupersedeInPlace(l, p, a, i) ==
    /\ queues' = [queues EXCEPT ![l][i].hi = p]
    /\ UNCHANGED inflight

\* p takes over the open group at index i: the range is inherited and the group
\* goes to the back, so survivors run in ascending position order.
Supersede(l, p, a, i) ==
    /\ queues' = [queues EXCEPT ![l] =
                    Append(Without(@, i), [lo |-> @[i].lo, hi |-> p, arm |-> a])]
    /\ UNCHANGED inflight

\* p queues a group of its own.
Enqueue(l, p, a) ==
    /\ queues' = [queues EXCEPT ![l] = Append(@, [lo |-> p, hi |-> p, arm |-> a])]
    /\ inflight' = inflight \cup {p}

\* Seeded defect of NeedsOffer: a lane that already has a place is offered again.
NeedsOfferAgain(l, p) == high[l] < p

\* Whether offering p gives its lane a place, so that the pool must be told.
NeedsOffer(l, p) == high[l] < p /\ place[l] = "None"

\* Seeded defect of Admit: a recorded position does not take over the group before it.
AdmitRecordedApart(l, p, a, declared) ==
    LET collapsible == declared /\ ~blind /\ p \notin begun IN
    IF high[l] >= p
      THEN UNCHANGED queueVars
      ELSE /\ high' = [high EXCEPT ![l] = p]
           /\ \/ \E i \in OpenAt(l, a) :
                    collapsible /\ latest[l][a] # 0 /\ Supersede(l, p, a, i)
              \/ /\ ~collapsible \/ latest[l][a] = 0 \/ OpenAt(l, a) = {}
                 /\ Enqueue(l, p, a)
           /\ latest' = [latest EXCEPT ![l][a] = IF collapsible THEN p ELSE 0]
           /\ place' = [place EXCEPT ![l] = IF NeedsOffer(l, p) THEN "Queued" ELSE @]

\* Offer position p to lane l as work for arm a; declared says whether the arm
\* asks to collapse.  A position at or below the lane's high-water is dropped.
\* Only a position nobody recorded leaves a group open behind it.
Admit(l, p, a, declared) ==
    LET collapsible == declared /\ ~blind IN
    IF high[l] >= p
      THEN UNCHANGED queueVars
      ELSE /\ high' = [high EXCEPT ![l] = p]
           /\ \/ \E i \in OpenAt(l, a) :
                    collapsible /\ latest[l][a] # 0 /\ Supersede(l, p, a, i)
              \/ /\ ~collapsible \/ latest[l][a] = 0 \/ OpenAt(l, a) = {}
                 /\ Enqueue(l, p, a)
           /\ latest' = IF collapsible
                          THEN [latest EXCEPT ![l][a] = IF p \in begun THEN 0 ELSE p]
                          ELSE latest
           /\ place' = [place EXCEPT ![l] = IF NeedsOffer(l, p) THEN "Queued" ELSE @]

SetScanned(cursor) == scanned' = Greater(scanned, cursor)

\* A worker takes a waiting lane.
Claim(l) ==
    /\ place[l] = "Queued"
    /\ place' = [place EXCEPT ![l] = "Running"]
    /\ UNCHANGED <<queues, latest, high, inflight>>

\* Close the front group of l to supersession: it is about to begin.
Close(l, g) ==
    latest' = [latest EXCEPT ![l][g.arm] = IF @ = g.hi THEN 0 ELSE @]

\* Seeded defect of Freeze: the group being run stays open to supersession.
FreezeOpen(l) == UNCHANGED queueVars

\* Taking the head freezes it.
Freeze(l) ==
    /\ Close(l, Front(l))
    /\ UNCHANGED <<queues, high, place, inflight>>

\* Retire position p of lane l: its group leaves the queue, and what leaves the
\* in-flight set is the oldest position the group was responsible for.
Complete(l, p) ==
    /\ IF queues[l] # <<>> /\ Front(l).hi = p
         THEN /\ queues' = [queues EXCEPT ![l] = Tail(@)]
              /\ inflight' = inflight \ {Front(l).lo}
              /\ Close(l, Front(l))
         ELSE /\ inflight' = inflight \ {p}
              /\ UNCHANGED <<queues, latest>>
    /\ skipPromoted' = skipPromoted \ {p}
    /\ UNCHANGED <<high, place>>

\* Whether retiring p owes its lane a durable row: older work is still in flight.
Owed(p) == \E q \in inflight' : q < p

\* Seeded defect of Release: the lane is put away with whatever arrived meanwhile.
ReleaseForgetting(l) ==
    /\ place' = [place EXCEPT ![l] = "None"]
    /\ UNCHANGED <<queues, latest, high, inflight>>

\* Give a lane back; it stays runnable if work is queued.
Release(l) ==
    /\ place' = [place EXCEPT ![l] = IF queues[l] = <<>> THEN "None" ELSE "Queued"]
    /\ UNCHANGED <<queues, latest, high, inflight>>

\* Seeded defect of Defer: the group that failed goes behind the rest of its lane.
DeferBehind(l) ==
    /\ place' = [place EXCEPT ![l] = "Deferred"]
    /\ queues' = [queues EXCEPT ![l] = Append(Tail(@), Head(@))]
    /\ UNCHANGED <<latest, high, inflight>>

\* Park a lane with its queue intact.
Defer(l) ==
    /\ place' = [place EXCEPT ![l] = "Deferred"]
    /\ UNCHANGED <<queues, latest, high, inflight>>

\* Wake a parked lane whose backoff has expired.
Promote(l) ==
    /\ place[l] = "Deferred"
    /\ place' = [place EXCEPT ![l] = "Queued"]
    /\ UNCHANGED <<queues, latest, high, inflight, skipPromoted>>

\* Whether a skip of the lane's head should wake it ahead of its deadline: once
\* per lane and position.
SkipWakes(l, wanted) ==
    /\ place[l] = "Deferred"
    /\ queues[l] # <<>>
    /\ Front(l).hi \in wanted \ skipPromoted

PromoteMatching(l, wanted) ==
    /\ SkipWakes(l, wanted)
    /\ place' = [place EXCEPT ![l] = "Queued"]
    /\ skipPromoted' = skipPromoted \cup {Front(l).hi}
    /\ UNCHANGED <<queues, latest, high, inflight>>

RecordRow(l, p) == rows' = [rows EXCEPT ![l] = Greater(@, p)]

PruneRows(mark) == rows' = [l \in Lanes |-> IF rows[l] > mark THEN rows[l] ELSE 0]

\* Forget what the mark has passed.
Forget(mark) ==
    /\ high' = [l \in Lanes |-> IF high[l] > mark THEN high[l] ELSE 0]
    /\ begun' = {p \in begun : p > mark}

=============================================================================
