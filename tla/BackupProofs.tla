---------------------------- MODULE BackupProofs ----------------------------
(***************************************************************************)
(* What a finished backup promises, for any number of keys, events, runs,  *)
(* crashes and restores: an erasure that was over when a run began has     *)
(* reached the target, the target's log is its source's up to some head,   *)
(* and the state beside it speaks of that log and of no other.             *)
(*                                                                         *)
(* The key store is followed from the source through what is staged to     *)
(* the target (Inv); the segments from the listing through the plan to     *)
(* the target (Copying), each a copy of what the source's was when it was  *)
(* measured, which stays a copy however far the source goes on; and the    *)
(* database from its snapshot, which speaks of a log at least as long as   *)
(* the copied one, through the clamp to the target (Staging).  While a run *)
(* is not over the manifest promises nothing.  That a segment kept from an *)
(* earlier run is the source's own needs ExtentsTell, for the code tells   *)
(* them apart by their lengths alone.                                      *)
(***************************************************************************)
EXTENDS BackupSafety, TLAPS, FiniteSetTheorems, WellFoundedInduction

\* A database, by its fields.
IsDatabase(d) == d = [keys |-> d.keys, terminal |-> d.terminal, mark |-> d.mark]

Shapes == IsDatabase(db) /\ IsDatabase(copyDb) /\ IsDatabase(staged)

\* A run has the target to itself, and has withdrawn its manifest.
Alone == run.pc # "idle" => lock = "backup" /\ manifest = "partial"

\* What was erased is not in the source, nor in what was taken from it since.
Gone ==
    /\ db.keys \cap erased = {} /\ run.gone \subseteq erased
    /\ run.pc \in {"clamp", "install"} => staged.keys \cap run.gone = {}
    /\ run.pc = "finish" => copyDb.keys \cap run.gone = {}

\* A run, by its fields.
IsRun == run = [pc |-> run.pc, before |-> run.before, gone |-> run.gone,
                listed |-> run.listed, plan |-> run.plan]

Inv == Shapes /\ IsRun /\ Alone /\ Gone /\ ErasureCarries

LEMMA InitInv == Init => Inv
  BY DEF Init, Inv, Shapes, IsDatabase, Alone, Gone, ErasureCarries, IsRun, Idle,
         Fresh, NoDatabase

LEMMA StutterKeeps == ASSUME Inv, UNCHANGED vars PROVE Inv'
  BY DEF Inv, Shapes, IsDatabase, Alone, Gone, ErasureCarries, IsRun, vars

LEMMA MintKeeps == ASSUME Inv, NEW s \in Secrets, Mint(s) PROVE Inv'
  BY DEF Inv, Shapes, IsDatabase, Alone, Gone, ErasureCarries, IsRun, Mint, target,
         history

LEMMA EraseKeeps == ASSUME Inv, NEW s \in Secrets, EraseKey(s) PROVE Inv'
  BY DEF Inv, Shapes, IsDatabase, Alone, Gone, ErasureCarries, IsRun, EraseKey, target

LEMMA AppendKeeps ==
    ASSUME Inv, (\E s \in Secrets \cup {NoSecret} : AppendEvent(s)) \/ AppendRestored \/ Follow
    PROVE  Inv'
  BY DEF Inv, Shapes, IsDatabase, Alone, Gone, ErasureCarries, IsRun, AppendEvent,
         AppendRestored, Follow, target, source, history

\* An invocation and a mark leave the keys alone.
LEMMA SettledKeys == ASSUME NEW d, NEW files, NEW p, IsDatabase(d)
                     PROVE  IsDatabase(Settled(d, files, p)) /\ Settled(d, files, p).keys = d.keys
  BY DEF IsDatabase, Settled

LEMMA EffectKeeps == ASSUME Inv, (\E p \in Positions : RunEffect(p)) \/ AdvanceMark PROVE Inv'
<1>1. IsDatabase(db') /\ db'.keys = db.keys
  BY SettledKeys DEF Inv, Shapes, RunEffect, AdvanceMark, IsDatabase
<1> QED
  BY <1>1 DEF Inv, Shapes, IsDatabase, Alone, Gone, ErasureCarries, IsRun, RunEffect,
              AdvanceMark, target, history

LEMMA RestoredKeeps ==
    ASSUME Inv, (\E p \in Positions : RunRestored(p)) \/ AdvanceRestored
    PROVE  Inv'
<1>1. IsDatabase(copyDb') /\ copyDb'.keys = copyDb.keys
  BY SettledKeys DEF Inv, Shapes, RunRestored, AdvanceRestored, IsDatabase
<1> QED
  BY <1>1 DEF Inv, Shapes, IsDatabase, Alone, Gone, ErasureCarries, IsRun, RunRestored,
              AdvanceRestored, source, history

LEMMA ServeKeeps == ASSUME Inv, Serve \/ StopServing PROVE Inv'
  BY DEF Inv, Shapes, IsDatabase, Alone, Gone, ErasureCarries, IsRun, Serve, StopServing,
         source, target, history, Fresh, NoDatabase

LEMMA BeginKeeps == ASSUME Inv, Begin PROVE Inv'
<1>1. /\ run'.pc = "list" /\ run'.gone = erased /\ IsRun'
      /\ lock' = "backup" /\ manifest' = "partial" /\ staged' = NoDatabase
      /\ UNCHANGED <<db, copyDb, erased, carried>>
  BY DEF Begin, Idle, IsRun, source, history
<1>2. Shapes'
  BY <1>1 DEF Inv, Shapes, IsDatabase, NoDatabase
<1> QED
  BY <1>1, <1>2 DEF Inv, Alone, Gone, ErasureCarries

LEMMA CrashKeeps == ASSUME Inv, Crash PROVE Inv'
  BY DEF Inv, Shapes, IsDatabase, Alone, Gone, ErasureCarries, IsRun, Crash, Idle,
         source, target, history

LEMMA CopyKeeps == ASSUME Inv, List \/ Plan \/ CopyFile PROVE Inv'
  BY DEF Inv, Shapes, IsDatabase, Alone, Gone, ErasureCarries, IsRun, List, Plan,
         CopyFile, Go, source, target, history

LEMMA SnapshotKeeps == ASSUME Inv, Snapshot PROVE Inv'
  BY DEF Inv, Shapes, IsDatabase, Alone, Gone, ErasureCarries, IsRun, Snapshot, Go,
         source, history

\* Lowering a database to a log leaves its keys alone.
LEMMA LoweredKeys == ASSUME NEW d, NEW h, IsDatabase(d)
                     PROVE  IsDatabase(Lowered(d, h)) /\ Lowered(d, h).keys = d.keys
<1> DEFINE t == {r \in d.terminal : r[1] <= h}
           m == Min({d.mark, h})
<1>1. Lowered(d, h) = [d EXCEPT !.terminal = t, !.mark = m]
  BY DEF Lowered
<1> HIDE DEF t, m
<1> QED
  BY <1>1 DEF IsDatabase

LEMMA ClampKeeps == ASSUME Inv, Clamp PROVE Inv'
<1>1. /\ IsDatabase(Lowered(staged, LogHead(copy)))
      /\ Lowered(staged, LogHead(copy)).keys = staged.keys
  BY LoweredKeys DEF Inv, Shapes
<1> QED
  BY <1>1 DEF Inv, Shapes, IsDatabase, Alone, Gone, ErasureCarries, IsRun, Clamp, Go,
              Idle, source, history

LEMMA InstallKeeps == ASSUME Inv, Install \/ Finish PROVE Inv'
  BY DEF Inv, Shapes, IsDatabase, Alone, Gone, ErasureCarries, IsRun, Install, Finish,
         Go, Idle, source, history, NoDatabase

LEMMA NextKeeps == ASSUME Inv, [Next]_vars PROVE Inv'
  BY StutterKeeps, MintKeeps, EraseKeeps, AppendKeeps, EffectKeeps, RestoredKeeps, ServeKeeps,
     BeginKeeps, CrashKeeps, CopyKeeps, SnapshotKeeps, ClampKeeps, InstallKeeps
     DEF Next

\* The keys that were erased when a backup began are not in the backup once it says it is
\* complete, whatever older key store the target had and however many runs died over it
\* (run: the state is replaced wholesale).
THEOREM ErasuresCarry == Spec => []ErasureCarries
<1>1. Init => Inv
  BY InitInv
<1>2. Inv /\ [Next]_vars => Inv'
  BY NextKeeps
<1>3. Inv => ErasureCarries
  BY DEF Inv
<1> QED
  BY <1>1, <1>2, <1>3, PTL DEF Spec
-----------------------------------------------------------------------------
(* Finite sets of positions.                                               *)

\* A bounded set of naturals that is not empty has a greatest member, and a least.
LEMMA Greatest ==
    ASSUME NEW S \in SUBSET Nat, S # {}, NEW k \in Nat, \A x \in S : x <= k
    PROVE  \E x \in S : \A y \in S : y <= x
<1> DEFINE T == {k - x : x \in S}
           Less == OpToRel(<, Nat)
<1>1. T \subseteq Nat /\ T # {}
  <2>1. \A x \in S : k - x \in Nat
    OBVIOUS
  <2>2. PICK x \in S : TRUE
    OBVIOUS
  <2>3. k - x \in T
    OBVIOUS
  <2>4. QED BY <2>1, <2>3
<1>2. IsWellFoundedOn(Less, Nat)
  BY NatLessThanWellFounded
<1>3. \A x, y \in Nat : x < y => <<x, y>> \in Less
  BY DEF OpToRel
<1> HIDE DEF Less
<1>4. PICK t \in T : \A u \in T : ~(<<u, t>> \in Less)
  BY <1>1, <1>2, WFMin
<1>5. PICK x \in S : t = k - x
  BY <1>4
<1>6. ASSUME NEW y \in S PROVE y <= x
  <2>1. k - y \in T /\ k - y \in Nat /\ t \in Nat
    BY <1>1
  <2>2. ~(k - y < t)
    BY <1>3, <1>4, <2>1
  <2>3. QED BY <1>5, <2>1, <2>2
<1>7. QED BY <1>6

LEMMA MaxIs ==
    ASSUME NEW S \in SUBSET Nat, S # {}, NEW k \in Nat, \A x \in S : x <= k
    PROVE  Max(S) \in S /\ \A x \in S : x <= Max(S)
<1>1. \E x \in S : \A y \in S : x >= y
  BY Greatest
<1>2. QED BY <1>1 DEF Max

LEMMA MinIs ==
    ASSUME NEW S \in SUBSET Nat, S # {}
    PROVE  Min(S) \in S /\ \A x \in S : Min(S) <= x
<1>1. PICK n \in S : TRUE
  OBVIOUS
<1> DEFINE T == {n - x : x \in {y \in S : y <= n}}
<1>2. T \in SUBSET Nat /\ n - n \in T /\ \A x \in T : x <= n
  OBVIOUS
<1>3. PICK t \in T : \A u \in T : u <= t
  BY <1>2, Greatest
<1>4. PICK x \in S : x <= n /\ t = n - x
  BY <1>3
<1>5. ASSUME NEW y \in S PROVE x <= y
  <2>1. CASE y <= n
    <3>1. n - y \in T /\ n - y <= t
      BY <1>3, <2>1
    <3>2. QED BY <1>4, <3>1
  <2>2. CASE ~(y <= n)
    BY <1>4, <2>2
  <2>3. QED BY <2>1, <2>2
<1>6. \E z \in S : \A y \in S : z =< y
  BY <1>5
<1>7. QED BY <1>6 DEF Min

-----------------------------------------------------------------------------
(* A directory of segments.                                                *)

\* Every segment is a sequence of events and ends within the bound.
Files(f) ==
    /\ DOMAIN f \subseteq 1..(MaxPosition + 1)
    /\ \A b \in DOMAIN f : f[b] \in Seq(Event) /\ b + Len(f[b]) <= MaxPosition + 1

\* No segment follows the one at b.
Final(f, b) == \A c \in DOMAIN f : c <= b

\* The segments follow each other without a gap.
Contiguous(f) ==
    /\ 1 \in DOMAIN f
    /\ \A b, c \in DOMAIN f : b < c => b + Len(f[b]) <= c
    /\ \A b \in DOMAIN f : Final(f, b) \/ (Len(f[b]) # 0 /\ b + Len(f[b]) \in DOMAIN f)

\* The segments reach position p, when they are contiguous.
Reaches(f, p) == p \in 1..(NextPosition(f) - 1)

LEMMA Bounds == MaxPosition \in Nat /\ MaxEvents <= MaxPosition /\ MaxEvents \in Nat
  BY BackupAssumption DEF MaxPosition

LEMMA ActiveIs ==
    ASSUME NEW f, Files(f), DOMAIN f # {}
    PROVE  /\ Active(f) \in DOMAIN f /\ Final(f, Active(f))
           /\ Active(f) \in Nat /\ Active(f) >= 1
           /\ NextPosition(f) \in 1..(MaxPosition + 1)
           /\ NextPosition(f) = Active(f) + Len(f[Active(f)])
<1>1. DOMAIN f \in SUBSET Nat /\ \A b \in DOMAIN f : b <= MaxPosition + 1 /\ b >= 1
  BY Bounds DEF Files
<1>2. Active(f) \in DOMAIN f /\ \A b \in DOMAIN f : b <= Active(f)
  <2> DEFINE k == MaxPosition + 1
  <2>1. k \in Nat /\ \A b \in DOMAIN f : b <= k
    BY <1>1, Bounds
  <2> HIDE DEF k
  <2>2. QED BY <1>1, <2>1, MaxIs DEF Active
<1>3. Len(f[Active(f)]) \in Nat
  BY <1>2 DEF Files
<1>4. QED BY <1>1, <1>2, <1>3, Bounds DEF Files, Final, NextPosition

\* The segment a position falls into.
LEMMA Within ==
    ASSUME NEW f, Files(f), Contiguous(f), NEW p \in Nat
    PROVE  /\ Reaches(f, p) <=> \E b \in DOMAIN f : Holds(f, b, p)
           /\ \A b \in DOMAIN f : Holds(f, b, p) => EventAt(f, p) = f[b][p - b + 1]
           /\ \A b \in DOMAIN f : b + Len(f[b]) <= NextPosition(f)
<1> DEFINE N == NextPosition(f)
           a == Active(f)
<1>1. /\ a \in DOMAIN f /\ N = a + Len(f[a]) /\ N \in Nat /\ a \in Nat
      /\ \A b \in DOMAIN f : b <= a /\ b \in Nat /\ b >= 1 /\ Len(f[b]) \in Nat
  BY ActiveIs, Bounds DEF Contiguous, Final, Files
<1> HIDE DEF N, a
<1>2. \A b \in DOMAIN f : b + Len(f[b]) <= N
  <2> TAKE b \in DOMAIN f
  <2>1. b = a \/ b < a
    BY <1>1
  <2>2. QED BY <1>1, <2>1 DEF Contiguous
<1>3. ASSUME NEW b \in DOMAIN f, Holds(f, b, p)
      PROVE  p \in 1..(N - 1) /\ EventAt(f, p) = f[b][p - b + 1]
  <2>1. b <= p /\ p < b + Len(f[b])
    BY <1>3 DEF Holds
  <2>2. \A c \in DOMAIN f : Holds(f, c, p) => c = b
    <3> TAKE c \in DOMAIN f
    <3>1. b < c => b + Len(f[b]) <= c
      BY DEF Contiguous
    <3>2. c < b => c + Len(f[c]) <= b
      BY DEF Contiguous
    <3>3. QED BY <1>1, <2>1, <3>1, <3>2 DEF Holds
  <2>3. {c \in DOMAIN f : Holds(f, c, p)} = {b}
    BY <1>3, <2>2
  <2>4. Max({b}) = b
    <3>1. \A x \in {b} : (\A y \in {b} : x >= y) <=> x = b
      BY <1>1
    <3>2. QED BY <3>1 DEF Max
  <2>5. p \in 1..(N - 1)
    BY <1>1, <1>2, <2>1
  <2>6. QED BY <2>3, <2>4, <2>5 DEF EventAt
<1>4. ASSUME p \in 1..(N - 1)
      PROVE  \E b \in DOMAIN f : Holds(f, b, p)
  <2> DEFINE S == {b \in DOMAIN f : b <= p}
  <2>1. S \in SUBSET Nat /\ 1 \in S /\ \A b \in S : b <= p
    BY <1>1, <1>4 DEF Contiguous
  <2>2. PICK b \in S : \A c \in S : c <= b
    BY <2>1, Greatest
  <2>3. b \in DOMAIN f /\ b <= p /\ b \in Nat /\ Len(f[b]) \in Nat
    BY <1>1, <2>2
  <2>4. p < b + Len(f[b])
    <3>1. CASE b = a
      BY <1>1, <1>4, <3>1
    <3>2. CASE b # a
      <4>1. Len(f[b]) # 0 /\ b + Len(f[b]) \in DOMAIN f
        BY <1>1, <2>3, <3>2 DEF Contiguous, Final
      <4>2. b + Len(f[b]) > b
        BY <2>3, <4>1
      <4>3. ~(b + Len(f[b]) <= p)
        BY <2>2, <2>3, <4>1, <4>2
      <4>4. QED BY <2>3, <4>3
    <3>3. QED BY <3>1, <3>2
  <2>5. QED BY <2>3, <2>4 DEF Holds
<1>5. QED BY <1>2, <1>3, <1>4 DEF Reaches, N

\* Up to the head there is an event at every position, and one beyond only past a gap.
LEMMA HeadIs ==
    ASSUME NEW f, Files(f)
    PROVE  /\ LogHead(f) \in 0..MaxPosition
           /\ \A p \in 1..LogHead(f) : Present(f, p)
           /\ \A h \in Positions : (\A p \in 1..h : Present(f, p)) => h <= LogHead(f)
<1> DEFINE H == {0} \cup {h \in Positions : \A p \in 1..h : Present(f, p)}
<1>1. H \in SUBSET Nat /\ 0 \in H /\ \A h \in H : h <= MaxPosition
  BY Bounds DEF Positions
<1>2. Max(H) \in H /\ \A h \in H : h <= Max(H)
  BY <1>1, MaxIs, Bounds
<1>3. LogHead(f) = Max(H)
  BY DEF LogHead
<1>4. LogHead(f) \in H /\ \A h \in H : h <= LogHead(f)
  BY <1>2, <1>3
<1> HIDE DEF H
<1>5. LogHead(f) \in Nat /\ LogHead(f) <= MaxPosition
  BY <1>1, <1>4
<1>6. \A p \in 1..LogHead(f) : Present(f, p)
  <2>1. CASE LogHead(f) = 0
    BY <2>1
  <2>2. CASE LogHead(f) # 0
    BY <1>4, <2>2 DEF H
  <2>3. QED BY <2>1, <2>2
<1>7. \A h \in Positions : (\A p \in 1..h : Present(f, p)) => h <= LogHead(f)
  BY <1>4 DEF H
<1>8. QED BY <1>5, <1>6, <1>7, Bounds

LEMMA PresentEvent ==
    ASSUME NEW f, Files(f), NEW p \in Nat, Present(f, p)
    PROVE  /\ EventAt(f, p) \in Event
           /\ \E b \in DOMAIN f : Holds(f, b, p) /\ EventAt(f, p) = f[b][p - b + 1]
<1> DEFINE S == {b \in DOMAIN f : Holds(f, b, p)}
           b == Max(S)
<1>1. S \in SUBSET Nat /\ S # {} /\ \A c \in S : c <= p
  BY DEF Files, Present, Holds
<1>2. b \in S
  BY <1>1, MaxIs
<1>3. EventAt(f, p) = f[b][p - b + 1]
  BY DEF EventAt
<1> HIDE DEF b
<1>4. /\ b \in DOMAIN f /\ Holds(f, b, p) /\ b \in Nat /\ f[b] \in Seq(Event)
      /\ Len(f[b]) \in Nat
  BY <1>2 DEF Files
<1>5. p - b + 1 \in 1..Len(f[b])
  BY <1>4 DEF Holds
<1>6. QED BY <1>3, <1>4, <1>5

LEMMA HeadOf ==
    ASSUME NEW f, Files(f), Contiguous(f)
    PROVE  LogHead(f) = NextPosition(f) - 1 /\ \A p : Reaches(f, p) <=> p \in 1..LogHead(f)
<1> DEFINE h == NextPosition(f) - 1
<1>1. h \in 0..MaxPosition
  BY ActiveIs, Bounds DEF Contiguous
<1>2. \A p \in Nat : Present(f, p) <=> p \in 1..h
  BY Within DEF Reaches, Present
<1>3. LogHead(f) \in 0..MaxPosition /\ \A p \in 1..LogHead(f) : Present(f, p)
  BY HeadIs
<1>4. h <= LogHead(f)
  <2>1. CASE h = 0
    BY <1>3, <2>1
  <2>2. CASE h # 0
    <3> HIDE DEF h
    <3>1. h \in Positions
      BY <1>1, <2>2, Bounds DEF Positions
    <3>2. \A p \in 1..h : Present(f, p)
      BY <1>1, <1>2
    <3>3. QED BY <3>1, <3>2, HeadIs
  <2>3. QED BY <2>1, <2>2
<1>5. LogHead(f) <= h
  <2>1. CASE LogHead(f) = 0
    BY <1>1, <2>1
  <2>2. CASE LogHead(f) # 0
    <3>1. LogHead(f) \in Nat /\ LogHead(f) \in 1..LogHead(f)
      BY <1>3, <2>2
    <3>2. Present(f, LogHead(f))
      BY <1>3, <3>1
    <3>3. QED BY <1>2, <3>1, <3>2
  <2>3. QED BY <2>1, <2>2
<1>6. LogHead(f) = h
  BY <1>1, <1>3, <1>4, <1>5
<1>7. QED BY <1>6 DEF Reaches

\* The extent of a segment.
LEMMA BytesAre ==
    ASSUME NEW s \in Seq(Event)
    PROVE  /\ (\A i \in DOMAIN s : s[i].by = Source) => Bytes(s) = SourceSize * Len(s)
           /\ (\E i \in DOMAIN s : s[i].by # Source) =>
                \E i \in Nat, j \in Nat \ {0} : Bytes(s) = SourceSize * i + RestoredSize * j
<1> DEFINE O == Own(s)
           R == DOMAIN s \ O
<1>0. Len(s) \in Nat /\ DOMAIN s = 1..Len(s)
  OBVIOUS
<1>1. /\ IsFiniteSet(1..Len(s)) /\ Cardinality(1..Len(s)) = Len(s) /\ DOMAIN s = 1..Len(s)
      /\ Len(s) \in Nat
  <2> DEFINE n == Len(s)
  <2>1. n \in Nat /\ n \in Int /\ 1 \in Int
    BY <1>0
  <2> HIDE DEF n
  <2>2. IsFiniteSet(1..n) /\ Cardinality(1..n) = IF 1 > n THEN 0 ELSE n - 1 + 1
    BY <2>1, FS_Interval
  <2>3. Cardinality(1..n) = n
    BY <2>1, <2>2
  <2>4. QED BY <1>0, <2>2, <2>3 DEF n
<1>2. O \subseteq 1..Len(s) /\ R \subseteq 1..Len(s)
  BY <1>1 DEF Own
<1>3. /\ IsFiniteSet(O) /\ IsFiniteSet(R) /\ Cardinality(O) \in Nat /\ Cardinality(R) \in Nat
      /\ Cardinality({}) = 0 /\ (R # {} => Cardinality(R) # 0)
  BY <1>1, <1>2, FS_Subset, FS_CardinalityType, FS_EmptySet
<1>4. Bytes(s) = SourceSize * Cardinality(O) + RestoredSize * Cardinality(R)
  BY DEF Bytes
<1>5. SourceSize \in Nat /\ RestoredSize \in Nat
  BY BackupAssumption
<1>6. ASSUME \A i \in DOMAIN s : s[i].by = Source
      PROVE  Bytes(s) = SourceSize * Len(s)
  <2>1. O = 1..Len(s) /\ R = {}
    BY <1>1, <1>6 DEF Own
  <2>2. Cardinality(O) = Len(s) /\ Cardinality(R) = 0
    BY <1>1, <1>3, <2>1
  <2> HIDE DEF O, R
  <2>3. RestoredSize * 0 = 0 /\ SourceSize * Len(s) \in Nat
    BY <1>1, <1>5
  <2>4. QED BY <1>4, <2>2, <2>3
<1>7. ASSUME \E i \in DOMAIN s : s[i].by # Source
      PROVE  \E i \in Nat, j \in Nat \ {0} : Bytes(s) = SourceSize * i + RestoredSize * j
  <2>1. R # {}
    BY <1>7 DEF Own
  <2> HIDE DEF O, R
  <2>2. QED BY <1>3, <1>4, <2>1
<1>8. QED BY <1>6, <1>7

-----------------------------------------------------------------------------
(* An append.                                                              *)

\* It went to the active segment, or to a new one.
Written(f, g, e) ==
    /\ DOMAIN g = DOMAIN f /\ g[Active(f)] = Append(f[Active(f)], e)
    /\ \A b \in DOMAIN f : b # Active(f) => g[b] = f[b]

Rolled(f, g, e) ==
    /\ DOMAIN g = DOMAIN f \cup {NextPosition(f)} /\ g[NextPosition(f)] = <<e>>
    /\ \A b \in DOMAIN f : g[b] = f[b]
    /\ Len(f[Active(f)]) # 0

LEMMA AppendedIs ==
    ASSUME NEW f, Files(f), DOMAIN f # {}, NEW e
    PROVE  \/ Written(f, Appended(f, e), e) /\ ~(Bytes(f[Active(f)]) >= SegmentBytes)
           \/ Rolled(f, Appended(f, e), e)
<1> DEFINE a == Active(f)
           n == NextPosition(f)
<1>1. a \in DOMAIN f /\ f[a] \in Seq(Event)
  BY ActiveIs DEF Files
<1>2. CASE Bytes(f[a]) >= SegmentBytes
  <2>1. Appended(f, e) = [d \in DOMAIN f \cup {n} |-> IF d = n THEN <<e>> ELSE f[d]]
    BY <1>2 DEF Appended
  <2>2. Len(f[a]) # 0
    <3>1. SUFFICES ASSUME Len(f[a]) = 0 PROVE FALSE
      OBVIOUS
    <3>2. \A i \in DOMAIN f[a] : f[a][i].by = Source
      BY <1>1, <3>1
    <3>3. Bytes(f[a]) = SourceSize * 0
      BY <1>1, <3>1, <3>2, BytesAre
    <3>4. SourceSize * 0 = 0 /\ ~(0 >= SegmentBytes)
      BY BackupAssumption
    <3>5. QED BY <1>2, <3>3, <3>4
  <2>3. n \notin DOMAIN f
    <3>1. n = a + Len(f[a]) /\ Len(f[a]) \in Nat /\ a \in Nat /\ Final(f, a)
      BY <1>1, ActiveIs
    <3>2. n > a
      BY <2>2, <3>1
    <3>3. \A c \in DOMAIN f : c <= a
      BY <3>1 DEF Final
    <3>4. QED BY <3>1, <3>2, <3>3
  <2>4. QED BY <2>1, <2>2, <2>3 DEF Rolled
<1>3. CASE ~(Bytes(f[a]) >= SegmentBytes)
  <2>1. Appended(f, e) = [f EXCEPT ![a] = Append(f[a], e)]
    BY <1>3 DEF Appended
  <2>2. QED BY <1>1, <1>3, <2>1 DEF Written
<1>4. QED BY <1>2, <1>3

\* It leaves what there was and adds one event, at the next position.
Extends(f, g, e) ==
    /\ Files(g) /\ NextPosition(g) = NextPosition(f) + 1
    /\ DOMAIN f \subseteq DOMAIN g
    /\ \A b \in DOMAIN g : b \in DOMAIN f \/ (b = NextPosition(f) /\ \A c \in DOMAIN f : c < b)
    /\ \A b \in DOMAIN f : /\ Len(f[b]) <= Len(g[b])
                           /\ \A i \in 1..Len(f[b]) : g[b][i] = f[b][i]
                           /\ Final(f, b) \/ g[b] = f[b]
    /\ \A b \in DOMAIN g : \A i \in DOMAIN g[b] :
         \/ b + i - 1 = NextPosition(f) /\ g[b][i] = e
         \/ b \in DOMAIN f /\ i \in DOMAIN f[b] /\ g[b][i] = f[b][i]
    /\ Contiguous(f) => Contiguous(g)

LEMMA WrittenExtends ==
    ASSUME NEW f, Files(f), DOMAIN f # {}, NEW e \in Event, NextPosition(f) <= MaxPosition,
           NEW g, Written(f, g, e)
    PROVE  Extends(f, g, e)
<1> DEFINE a == Active(f)
           n == NextPosition(f)
<1>1. /\ a \in DOMAIN f /\ a \in Nat /\ a >= 1 /\ Final(f, a) /\ n = a + Len(f[a]) /\ n \in Nat
      /\ f[a] \in Seq(Event) /\ Len(f[a]) \in Nat
  BY ActiveIs, Bounds DEF Files
<1>2. DOMAIN g = DOMAIN f /\ g[a] = Append(f[a], e) /\ \A b \in DOMAIN f : b # a => g[b] = f[b]
  BY DEF Written
<1> HIDE DEF a, n
<1>3. /\ g[a] \in Seq(Event) /\ Len(g[a]) = Len(f[a]) + 1
      /\ \A i \in 1..Len(f[a]) : g[a][i] = f[a][i]
      /\ g[a][Len(f[a]) + 1] = e
      /\ DOMAIN g[a] = 1..(Len(f[a]) + 1) /\ DOMAIN f[a] = 1..Len(f[a])
  BY <1>1, <1>2
<1>4. Files(g)
  <2>1. a + Len(g[a]) <= MaxPosition + 1
    BY <1>1, <1>3, Bounds DEF n
  <2>2. QED BY <1>2, <1>3, <2>1 DEF Files
<1>5. Active(g) = a
  BY <1>2 DEF Active, a
<1>6. NextPosition(g) = n + 1
  <2>1. NextPosition(g) = a + Len(g[a])
    BY <1>5 DEF NextPosition
  <2>2. QED BY <1>1, <1>3, <2>1
<1>7. \A b \in DOMAIN f : /\ Len(f[b]) <= Len(g[b])
                          /\ \A i \in 1..Len(f[b]) : g[b][i] = f[b][i]
                          /\ Final(f, b) \/ g[b] = f[b]
  <2> TAKE b \in DOMAIN f
  <2>1. CASE b = a
    BY <1>1, <1>3, <2>1
  <2>2. CASE b # a
    <3>1. Len(f[b]) \in Nat
      BY DEF Files
    <3>2. QED BY <1>2, <2>2, <3>1
  <2>3. QED BY <2>1, <2>2
<1>8. \A b \in DOMAIN g : \A i \in DOMAIN g[b] :
        \/ b + i - 1 = n /\ g[b][i] = e
        \/ b \in DOMAIN f /\ i \in DOMAIN f[b] /\ g[b][i] = f[b][i]
  <2> TAKE b \in DOMAIN g
  <2> TAKE i \in DOMAIN g[b]
  <2>1. CASE b # a
    BY <1>2, <2>1
  <2>2. CASE b = a
    <3>1. CASE i = Len(f[a]) + 1
      BY <1>1, <1>3, <2>2, <3>1
    <3>2. CASE i # Len(f[a]) + 1
      <4>1. i \in 1..Len(f[a])
        BY <1>1, <1>3, <2>2, <3>2
      <4>2. QED BY <1>1, <1>3, <2>2, <4>1
    <3>3. QED BY <3>1, <3>2
  <2>3. QED BY <2>1, <2>2
<1>9. ASSUME Contiguous(f) PROVE Contiguous(g)
  <2>1. \A b, c \in DOMAIN g : b < c => b + Len(g[b]) <= c
    <3> TAKE b, c \in DOMAIN g
    <3> HAVE b < c
    <3>1. b # a
      <4>1. c <= a /\ b \in Nat /\ c \in Nat
        BY <1>1, <1>2 DEF Final, Files
      <4>2. QED BY <1>1, <4>1
    <3>2. QED BY <1>2, <1>9, <3>1 DEF Contiguous
  <2>2. \A b \in DOMAIN g : Final(g, b) \/ (Len(g[b]) # 0 /\ b + Len(g[b]) \in DOMAIN g)
    <3> TAKE b \in DOMAIN g
    <3>1. CASE b = a
      BY <1>1, <1>2, <3>1 DEF Final
    <3>2. CASE b # a
      BY <1>2, <1>9, <3>2 DEF Contiguous, Final
    <3>3. QED BY <3>1, <3>2
  <2>3. QED BY <1>2, <1>9, <2>1, <2>2 DEF Contiguous
<1>10. QED BY <1>2, <1>4, <1>6, <1>7, <1>8, <1>9 DEF n, Extends

LEMMA RolledExtends ==
    ASSUME NEW f, Files(f), DOMAIN f # {}, NEW e \in Event, NextPosition(f) <= MaxPosition,
           NEW g, Rolled(f, g, e)
    PROVE  Extends(f, g, e)
<1> DEFINE a == Active(f)
           n == NextPosition(f)
<1>1. /\ a \in DOMAIN f /\ a \in Nat /\ a >= 1 /\ Final(f, a) /\ n = a + Len(f[a]) /\ n \in Nat
      /\ Len(f[a]) \in Nat /\ Len(f[a]) # 0
  BY ActiveIs, Bounds DEF Files, Rolled
<1>2. DOMAIN g = DOMAIN f \cup {n} /\ g[n] = <<e>> /\ \A b \in DOMAIN f : g[b] = f[b]
  BY DEF Rolled
<1>3. \A b \in DOMAIN f : b <= a /\ b < n /\ b \in Nat /\ Len(f[b]) \in Nat /\ f[b] \in Seq(Event)
  BY <1>1 DEF Final, Files
<1> HIDE DEF a
<1>4. g[n] \in Seq(Event) /\ Len(g[n]) = 1 /\ DOMAIN g[n] = {1} /\ g[n][1] = e
  BY <1>2
<1>5. Files(g)
  <2>1. n \in 1..(MaxPosition + 1) /\ n + 1 <= MaxPosition + 1
    BY <1>1, Bounds
  <2> HIDE DEF n
  <2>2. QED BY <1>2, <1>4, <2>1 DEF Files
<1>6. NextPosition(g) = n + 1
  <2> HIDE DEF n
  <2>1. Active(g) \in DOMAIN g /\ Final(g, Active(g)) /\ NextPosition(g) = Active(g) + Len(g[Active(g)])
    BY <1>2, <1>5, ActiveIs
  <2>2. n <= Active(g)
    BY <1>2, <2>1 DEF Final
  <2>3. Active(g) = n
    <3>1. CASE Active(g) \in DOMAIN f
      BY <1>1, <1>3, <2>2, <3>1
    <3>2. CASE Active(g) = n
      BY <3>2
    <3>3. QED BY <1>2, <2>1, <3>1, <3>2
  <2>4. QED BY <1>4, <2>1, <2>3
<1> HIDE DEF n
<1>7. \A b \in DOMAIN f : Len(f[b]) <= Len(g[b])
  <2> TAKE b \in DOMAIN f
  <2>1. g[b] = f[b] /\ Len(f[b]) \in Nat
    BY <1>2, <1>3
  <2>2. QED BY <2>1
<1>8. \A b \in DOMAIN g : \A i \in DOMAIN g[b] :
        \/ b + i - 1 = n /\ g[b][i] = e
        \/ b \in DOMAIN f /\ i \in DOMAIN f[b] /\ g[b][i] = f[b][i]
  <2> TAKE b \in DOMAIN g
  <2> TAKE i \in DOMAIN g[b]
  <2>1. CASE b \in DOMAIN f
    BY <1>2, <2>1
  <2>2. CASE b = n
    BY <1>1, <1>4, <2>2
  <2>3. QED BY <1>2, <2>1, <2>2
<1>9. ASSUME Contiguous(f) PROVE Contiguous(g)
  <2>1. \A b \in DOMAIN f : b + Len(f[b]) <= n
    BY <1>9, Within DEF n
  <2>2. \A b, c \in DOMAIN g : b < c => b + Len(g[b]) <= c
    <3> TAKE b, c \in DOMAIN g
    <3> HAVE b < c
    <3>1. CASE c = n
      <4>1. b \in DOMAIN f
        BY <1>1, <1>2, <3>1
      <4>2. QED BY <1>2, <2>1, <3>1, <4>1
    <3>2. CASE c # n
      <4>1. c \in DOMAIN f
        BY <1>2, <3>2
      <4>2. b # n
        BY <1>1, <1>3, <4>1
      <4>3. b \in DOMAIN f
        BY <1>2, <4>2
      <4>4. QED BY <1>2, <1>9, <4>1, <4>3 DEF Contiguous
    <3>3. QED BY <3>1, <3>2
  <2>3. \A b \in DOMAIN g : Final(g, b) \/ (Len(g[b]) # 0 /\ b + Len(g[b]) \in DOMAIN g)
    <3> TAKE b \in DOMAIN g
    <3>1. CASE b = n
      <4>1. \A c \in DOMAIN g : c <= n
        BY <1>1, <1>2, <1>3
      <4>2. QED BY <3>1, <4>1 DEF Final
    <3>2. CASE b \in DOMAIN f /\ b = a
      BY <1>1, <1>2, <3>2
    <3>3. CASE b \in DOMAIN f /\ b # a
      <4>1. ~Final(f, b)
        BY <1>1, <1>3, <3>3 DEF Final
      <4>2. QED BY <1>2, <1>9, <3>3, <4>1 DEF Contiguous
    <3>4. QED BY <1>2, <3>1, <3>2, <3>3
  <2>4. QED BY <1>2, <1>9, <2>2, <2>3 DEF Contiguous
<1>10. /\ DOMAIN f \subseteq DOMAIN g
       /\ \A b \in DOMAIN g : b \in DOMAIN f \/ (b = n /\ \A c \in DOMAIN f : c < b)
       /\ \A b \in DOMAIN f : g[b] = f[b]
  BY <1>2, <1>3
<1>11. QED BY <1>5, <1>6, <1>7, <1>8, <1>9, <1>10 DEF n, Extends

LEMMA AppendedExtends ==
    ASSUME NEW f, Files(f), DOMAIN f # {}, NEW e \in Event, NextPosition(f) <= MaxPosition
    PROVE  Extends(f, Appended(f, e), e)
BY AppendedIs, WrittenExtends, RolledExtends

\* What a contiguous log had stays where it was, and the event is the next.
LEMMA ExtendsAt ==
    ASSUME NEW f, Files(f), Contiguous(f), NEW e, NEW g, Extends(f, g, e)
    PROVE  /\ Contiguous(g)
           /\ \A p : Reaches(f, p) => Reaches(g, p) /\ EventAt(g, p) = EventAt(f, p)
           /\ LogHead(g) = LogHead(f) + 1
<1>1. Files(g) /\ Contiguous(g) /\ NextPosition(g) = NextPosition(f) + 1
  BY DEF Extends
<1>2. NextPosition(f) \in Nat /\ LogHead(f) = NextPosition(f) - 1 /\ LogHead(g) = NextPosition(g) - 1
  BY <1>1, ActiveIs, HeadOf, Bounds DEF Contiguous
<1>3. ASSUME NEW p, Reaches(f, p)
      PROVE  Reaches(g, p) /\ EventAt(g, p) = EventAt(f, p)
  <2>1. p \in Nat /\ Reaches(g, p)
    BY <1>1, <1>2, <1>3 DEF Reaches
  <2>2. PICK b \in DOMAIN f : Holds(f, b, p)
    BY <1>3, <2>1, Within
  <2>3. EventAt(f, p) = f[b][p - b + 1]
    BY <2>1, <2>2, Within
  <2>4. b \in Nat /\ Len(f[b]) \in Nat
    BY DEF Files
  <2>5. p - b + 1 \in 1..Len(f[b])
    BY <2>1, <2>2, <2>4 DEF Holds
  <2>6. b \in DOMAIN g /\ g[b][p - b + 1] = f[b][p - b + 1] /\ Len(f[b]) <= Len(g[b])
    BY <2>5 DEF Extends
  <2>7. Len(g[b]) \in Nat
    BY <1>1, <2>6 DEF Files
  <2>8. Holds(g, b, p)
    BY <2>1, <2>2, <2>4, <2>6, <2>7 DEF Holds
  <2>9. EventAt(g, p) = g[b][p - b + 1]
    BY <1>1, <2>1, <2>6, <2>8, Within
  <2>10. QED BY <2>1, <2>3, <2>6, <2>9
<1>4. QED BY <1>1, <1>2, <1>3

-----------------------------------------------------------------------------
(* What a database says of a log.                                          *)

\* Every event has its secret in K.
Covered(K, f) == \A b \in DOMAIN f : \A i \in DOMAIN f[b] : f[b][i].secret \in K

\* Every row tells who wrote the event at its position, and up to the mark each has one.
RowsOf(d, f) ==
    /\ \A r \in d.terminal : Reaches(f, r[1]) /\ EventAt(f, r[1]).by = r[2]
    /\ \A p \in 1..d.mark : \E w \in Writers : <<p, w>> \in d.terminal

LEMMA CoveredExtends ==
    ASSUME NEW K, NEW f, NEW g, NEW e, Extends(f, g, e), Covered(K, f), e.secret \in K
    PROVE  Covered(K, g)
BY DEF Extends, Covered

LEMMA RowsExtend ==
    ASSUME NEW f, Files(f), Contiguous(f), NEW e, NEW g, Extends(f, g, e), NEW d, RowsOf(d, f)
    PROVE  RowsOf(d, g)
<1>1. \A p : Reaches(f, p) => Reaches(g, p) /\ EventAt(g, p) = EventAt(f, p)
  BY ExtendsAt
<1>2. QED BY <1>1 DEF RowsOf

\* An invocation that ends keeps the rows true, and so does a mark that follows.
LEMMA SettledIs ==
    ASSUME NEW f, Files(f), NEW d \in Database, NEW p \in 1..LogHead(f)
    PROVE  /\ Settled(d, f, p) \in Database
           /\ Contiguous(f) /\ RowsOf(d, f) => RowsOf(Settled(d, f, p), f)
<1>1. p \in Positions /\ p \in Nat /\ Present(f, p)
  BY HeadIs, Bounds DEF Positions
<1>2. EventAt(f, p).by \in Writers
  BY <1>1, PresentEvent DEF Event
<1> DEFINE w == EventAt(f, p).by
           t == d.terminal \cup {<<p, w>>}
<1>3. Settled(d, f, p) = d \/ Settled(d, f, p) = [d EXCEPT !.terminal = t]
  BY DEF Settled
<1>4. t \in SUBSET (Positions \X Writers)
  BY <1>1, <1>2 DEF Database
<1>5. ASSUME Contiguous(f), RowsOf(d, f)
      PROVE  /\ \A r \in t : Reaches(f, r[1]) /\ EventAt(f, r[1]).by = r[2]
             /\ \A q \in 1..d.mark : \E v \in Writers : <<q, v>> \in t
  <2>1. Reaches(f, p)
    BY <1>5, HeadOf
  <2>2. ASSUME NEW r \in t PROVE Reaches(f, r[1]) /\ EventAt(f, r[1]).by = r[2]
    <3>1. CASE r \in d.terminal
      BY <1>5, <3>1 DEF RowsOf
    <3>2. CASE r = <<p, w>>
      <4>1. r[1] = p /\ r[2] = w
        BY <3>2
      <4>2. QED BY <2>1, <4>1
    <3>3. QED BY <3>1, <3>2
  <2>3. \A q \in 1..d.mark : \E v \in Writers : <<q, v>> \in t
    BY <1>5 DEF RowsOf
  <2>4. QED BY <2>2, <2>3
<1> HIDE DEF t
<1>6. [d EXCEPT !.terminal = t] \in Database
  BY <1>4 DEF Database
<1>7. [d EXCEPT !.terminal = t].terminal = t /\ [d EXCEPT !.terminal = t].mark = d.mark
  BY DEF Database
<1>8. QED BY <1>3, <1>5, <1>6, <1>7 DEF RowsOf

LEMMA FollowsIs ==
    ASSUME NEW d \in Database, Follows(d)
    PROVE  /\ [d EXCEPT !.mark = @ + 1] \in Database
           /\ \A f : RowsOf(d, f) => RowsOf([d EXCEPT !.mark = @ + 1], f)
<1> DEFINE k == [d EXCEPT !.mark = @ + 1]
<1>1. PICK w \in Writers : <<d.mark + 1, w>> \in d.terminal
  BY DEF Follows
<1>2. d.mark \in Nat /\ d.mark + 1 \in 1..MaxPosition
  BY <1>1 DEF Database, Positions
<1>3. k \in Database /\ k.terminal = d.terminal /\ k.mark = d.mark + 1
  BY <1>2, Bounds DEF Database
<1> HIDE DEF k
<1>4. ASSUME NEW f, RowsOf(d, f) PROVE RowsOf(k, f)
  <2>1. ASSUME NEW p \in 1..k.mark PROVE \E v \in Writers : <<p, v>> \in k.terminal
    <3>1. p \in 1..d.mark \/ p = d.mark + 1
      BY <1>2, <1>3
    <3>2. QED BY <1>1, <1>3, <1>4, <3>1 DEF RowsOf
  <2>2. QED BY <1>3, <1>4, <2>1 DEF RowsOf
<1>5. QED BY <1>3, <1>4 DEF k

-----------------------------------------------------------------------------
(* A copy.                                                                 *)

\* The bases in L are those the log g had when they were listed.
Initial(L, g) ==
    /\ L # {} /\ L \subseteq DOMAIN g
    /\ \A b \in DOMAIN g : \A c \in L : b <= c => b \in L

\* s is a copy of the segment g has at b, whole unless b was the last one listed.
Snap(s, b, L, g) ==
    /\ Len(s) <= Len(g[b]) /\ \A i \in 1..Len(s) : s[i] = g[b][i]
    /\ (\E c \in L : b < c) => s = g[b]

\* f is a copy of what g was at some time.
Taken(f, g) ==
    /\ Initial(DOMAIN f, g)
    /\ \A b \in DOMAIN f : Snap(f[b], b, DOMAIN f, g)

LEMMA InitialExtends ==
    ASSUME NEW f, NEW g, NEW e, Extends(f, g, e), NEW L, Initial(L, f)
    PROVE  Initial(L, g)
<1>1. ASSUME NEW b \in DOMAIN g, NEW c \in L, b <= c PROVE b \in L
  <2>1. CASE b \in DOMAIN f
    BY <1>1, <2>1 DEF Initial
  <2>2. CASE b \notin DOMAIN f
    <3>1. c < b /\ b \in Nat /\ c \in Nat
      BY <2>2 DEF Extends, Initial, Files
    <3>2. QED BY <1>1, <3>1
  <2>3. QED BY <2>1, <2>2
<1>2. QED BY <1>1 DEF Initial, Extends

LEMMA SnapExtends ==
    ASSUME NEW f, Files(f), NEW g, NEW e, Extends(f, g, e), NEW L, L \subseteq DOMAIN f,
           NEW b \in DOMAIN f, NEW s \in Seq(Event), Snap(s, b, L, f)
    PROVE  Snap(s, b, L, g)
<1>1. Len(s) \in Nat /\ Len(f[b]) \in Nat /\ b \in DOMAIN g /\ b \in Nat /\ L \subseteq Nat
  BY DEF Files, Extends
<1>2. /\ Len(f[b]) <= Len(g[b]) /\ \A i \in 1..Len(f[b]) : g[b][i] = f[b][i]
      /\ Final(f, b) \/ g[b] = f[b]
  BY DEF Extends
<1>3. Len(g[b]) \in Nat
  BY <1>1 DEF Extends, Files
<1>4. ASSUME NEW c \in L, b < c PROVE g[b] = f[b]
  BY <1>1, <1>2, <1>4 DEF Final
<1>5. QED BY <1>1, <1>2, <1>3, <1>4 DEF Snap

LEMMA TakenExtends ==
    ASSUME NEW f, Files(f), NEW g, NEW e, Extends(f, g, e), NEW c, Files(c), Taken(c, f)
    PROVE  Taken(c, g)
<1>1. Initial(DOMAIN c, g)
  BY InitialExtends DEF Taken
<1>2. \A b \in DOMAIN c : Snap(c[b], b, DOMAIN c, g)
  BY SnapExtends DEF Taken, Initial, Files
<1>3. QED BY <1>1, <1>2 DEF Taken

\* Such a copy is a log, and its events are those of the log it is a copy of.
LEMMA TakenIs ==
    ASSUME NEW f, Files(f), NEW g, Files(g), Contiguous(g), Taken(f, g)
    PROVE  /\ Contiguous(f) /\ NextPosition(f) <= NextPosition(g)
           /\ \A p : Reaches(f, p) => Reaches(g, p) /\ EventAt(f, p) = EventAt(g, p)
           /\ \A K : Covered(K, g) => Covered(K, f)
<1>1. /\ DOMAIN f # {} /\ DOMAIN f \subseteq DOMAIN g
      /\ \A b \in DOMAIN g : \A c \in DOMAIN f : b <= c => b \in DOMAIN f
      /\ \A b \in DOMAIN f :
           /\ Len(f[b]) <= Len(g[b]) /\ \A i \in 1..Len(f[b]) : f[b][i] = g[b][i]
           /\ (\E c \in DOMAIN f : b < c) => f[b] = g[b]
  BY DEF Taken, Initial, Snap
<1>2. \A b \in DOMAIN g : b \in Nat /\ b >= 1 /\ g[b] \in Seq(Event) /\ Len(g[b]) \in Nat
  BY DEF Files
<1>3. \A b \in DOMAIN f : f[b] \in Seq(Event) /\ Len(f[b]) \in Nat /\ DOMAIN f[b] = 1..Len(f[b])
  BY DEF Files
<1>4. Contiguous(f)
  <2>1. 1 \in DOMAIN f
    BY <1>1, <1>2 DEF Contiguous
  <2>2. \A b, c \in DOMAIN f : b < c => b + Len(f[b]) <= c
    BY <1>1 DEF Contiguous
  <2>3. ASSUME NEW b \in DOMAIN f, ~Final(f, b)
        PROVE  Len(f[b]) # 0 /\ b + Len(f[b]) \in DOMAIN f
    <3>1. PICK c \in DOMAIN f : b < c
      <4>1. PICK c \in DOMAIN f : ~(c <= b)
        BY <2>3 DEF Final
      <4>2. b \in Nat /\ c \in Nat
        BY <1>1, <1>2
      <4>3. QED BY <4>1, <4>2
    <3>2. f[b] = g[b] /\ b \in DOMAIN g /\ c \in DOMAIN g
      BY <1>1, <3>1
    <3>3. ~Final(g, b)
      BY <1>2, <3>1, <3>2 DEF Final
    <3>4. Len(g[b]) # 0 /\ b + Len(g[b]) \in DOMAIN g
      BY <3>2, <3>3 DEF Contiguous
    <3>5. b + Len(g[b]) <= c
      BY <3>1, <3>2 DEF Contiguous
    <3>6. QED BY <1>1, <3>2, <3>4, <3>5
  <2>4. QED BY <2>1, <2>2, <2>3 DEF Contiguous
<1>5. NextPosition(f) <= NextPosition(g)
  <2> DEFINE a == Active(f)
  <2>1. a \in DOMAIN f /\ a \in Nat /\ NextPosition(f) = a + Len(f[a])
    BY <1>1, ActiveIs
  <2>2. a + Len(g[a]) <= NextPosition(g)
    BY <1>1, <2>1, Within
  <2>3. NextPosition(g) \in Nat
    BY ActiveIs, Bounds DEF Contiguous
  <2> HIDE DEF a
  <2>4. Len(f[a]) <= Len(g[a]) /\ Len(f[a]) \in Nat /\ Len(g[a]) \in Nat
    BY <1>1, <1>2, <1>3, <2>1
  <2>5. QED BY <2>1, <2>2, <2>3, <2>4
<1>6. ASSUME NEW p, Reaches(f, p)
      PROVE  Reaches(g, p) /\ EventAt(f, p) = EventAt(g, p)
  <2>1. p \in Nat
    BY <1>4, <1>6, ActiveIs, Bounds DEF Reaches, Contiguous
  <2>2. PICK b \in DOMAIN f : Holds(f, b, p)
    BY <1>4, <1>6, <2>1, Within
  <2>3. EventAt(f, p) = f[b][p - b + 1]
    BY <1>4, <2>1, <2>2, Within
  <2>4. b \in Nat /\ Len(f[b]) \in Nat /\ b \in DOMAIN g /\ Len(g[b]) \in Nat
    BY <1>1, <1>2, <1>3
  <2>5. p - b + 1 \in 1..Len(f[b]) /\ Holds(g, b, p)
    BY <1>1, <2>1, <2>2, <2>4 DEF Holds
  <2>6. Reaches(g, p) /\ EventAt(g, p) = g[b][p - b + 1]
    BY <2>1, <2>4, <2>5, Within
  <2>7. QED BY <1>1, <2>3, <2>5, <2>6
<1>7. ASSUME NEW K, Covered(K, g), NEW b \in DOMAIN f, NEW i \in DOMAIN f[b]
      PROVE  f[b][i].secret \in K
  <2>1. i \in 1..Len(f[b]) /\ i \in DOMAIN g[b] /\ f[b][i] = g[b][i] /\ b \in DOMAIN g
    BY <1>1, <1>2, <1>3
  <2>2. QED BY <1>7, <2>1 DEF Covered
<1>8. \A K : Covered(K, g) => Covered(K, f)
  BY <1>7 DEF Covered
<1>9. QED BY <1>4, <1>5, <1>6, <1>8

\* What lowering a database leaves of it.
LEMMA LoweredFields ==
    ASSUME NEW d \in Database, NEW h \in 0..MaxPosition
    PROVE  /\ Lowered(d, h) \in Database /\ Lowered(d, h).keys = d.keys
           /\ Lowered(d, h).terminal = {r \in d.terminal : r[1] <= h}
           /\ Lowered(d, h).mark <= d.mark /\ Lowered(d, h).mark <= h
<1> DEFINE t == {r \in d.terminal : r[1] <= h}
           m == Min({d.mark, h})
<1>1. h \in 0..MaxPosition /\ d.mark \in 0..MaxPosition
  BY DEF Database
<1>2. m \in {d.mark, h} /\ m <= d.mark /\ m <= h
  <2>1. {d.mark, h} \in SUBSET Nat /\ {d.mark, h} # {}
    BY <1>1, Bounds
  <2>2. QED BY <2>1, MinIs
<1>3. Lowered(d, h) = [d EXCEPT !.terminal = t, !.mark = m]
  BY DEF Lowered
<1>4. t \in SUBSET (Positions \X Writers) /\ m \in 0..MaxPosition
  BY <1>1, <1>2 DEF Database
<1> HIDE DEF t, m
<1>5. /\ [d EXCEPT !.terminal = t, !.mark = m] \in Database
      /\ [d EXCEPT !.terminal = t, !.mark = m].terminal = t
      /\ [d EXCEPT !.terminal = t, !.mark = m].mark = m
      /\ [d EXCEPT !.terminal = t, !.mark = m].keys = d.keys
  BY <1>4 DEF Database
<1>6. QED BY <1>2, <1>3, <1>5 DEF t

\* Lowered to the head of such a copy, rows that were true of the log are true of it.
LEMMA LoweredIs ==
    ASSUME NEW f, Files(f), NEW g, Files(g), Contiguous(g), Taken(f, g), NEW d \in Database,
           RowsOf(d, g)
    PROVE  RowsOf(Lowered(d, LogHead(f)), f)
<1> DEFINE h == LogHead(f)
           k == Lowered(d, h)
<1>1. /\ Contiguous(f) /\ \A p : Reaches(f, p) <=> p \in 1..h
      /\ \A p : Reaches(f, p) => EventAt(f, p) = EventAt(g, p)
  BY TakenIs, HeadOf
<1>2. h \in 0..MaxPosition
  BY HeadIs
<1> HIDE DEF h, k
<1>3. /\ k \in Database /\ k.terminal = {r \in d.terminal : r[1] <= h}
      /\ k.mark <= d.mark /\ k.mark <= h
  BY <1>2, LoweredFields DEF k
<1>4. \A r \in k.terminal : Reaches(f, r[1]) /\ EventAt(f, r[1]).by = r[2]
  <2> TAKE r \in k.terminal
  <2>1. r \in d.terminal /\ r[1] <= h /\ Reaches(g, r[1]) /\ EventAt(g, r[1]).by = r[2]
    BY <1>3 DEF RowsOf
  <2>2. r[1] \in Nat /\ r[1] >= 1
    BY <2>1 DEF Database, Positions
  <2>3. r[1] \in 1..h
    BY <1>2, <2>1, <2>2
  <2>4. QED BY <1>1, <2>1, <2>3
<1>5. \A p \in 1..k.mark : \E w \in Writers : <<p, w>> \in k.terminal
  <2> TAKE p \in 1..k.mark
  <2>1. k.mark \in Nat /\ d.mark \in Nat
    BY <1>3 DEF Database
  <2>2. p \in 1..d.mark /\ p \in Nat /\ p <= h
    BY <1>2, <1>3, <2>1
  <2>3. PICK w \in Writers : <<p, w>> \in d.terminal
    BY <2>2 DEF RowsOf
  <2>4. QED BY <1>3, <2>2, <2>3
<1>6. QED BY <1>4, <1>5 DEF RowsOf, k, h

-----------------------------------------------------------------------------
(* Reuse.                                                                  *)

\* No segment that a restored server wrote to is as long as one the source fills: what
\* the reuse of a file by its extent leans on (finding 9).
ExtentsTell ==
    \A i \in Nat, j, k \in Nat \ {0} :
        SourceSize * (k - 1) < SegmentBytes =>
            SourceSize * i + RestoredSize * j # SourceSize * k

\* The source wrote every event of g, and none to a segment that was full.
Sourced(g) ==
    \A b \in DOMAIN g :
        /\ \A i \in DOMAIN g[b] : g[b][i].by = Source
        /\ Len(g[b]) # 0 => SourceSize * (Len(g[b]) - 1) < SegmentBytes

\* What the source wrote of f stands at its position in g.
Matches(f, g) ==
    \A b \in DOMAIN f : \A i \in DOMAIN f[b] :
        f[b][i].by = Source => Reaches(g, b + i - 1) /\ EventAt(g, b + i - 1) = f[b][i]

LEMMA SourcedAppended ==
    ASSUME NEW f, Files(f), DOMAIN f # {}, Sourced(f), NEW e \in Event, e.by = Source,
           NextPosition(f) <= MaxPosition
    PROVE  Sourced(Appended(f, e))
<1> SUFFICES ASSUME NEW g, g = Appended(f, e)
             PROVE  Sourced(g)
  OBVIOUS
<1> DEFINE a == Active(f)
<1>1. a \in DOMAIN f /\ f[a] \in Seq(Event) /\ Len(f[a]) \in Nat
  BY ActiveIs DEF Files
<1>2. SourceSize \in Nat /\ SegmentBytes \in Nat \ {0}
  BY BackupAssumption
<1>3. \A b \in DOMAIN g : \A i \in DOMAIN g[b] : g[b][i].by = Source
  <2>1. Extends(f, g, e)
    BY AppendedExtends
  <2>2. QED BY <2>1 DEF Extends, Sourced
<1>4. CASE Written(f, g, e) /\ ~(Bytes(f[a]) >= SegmentBytes)
  <2>1. Bytes(f[a]) = SourceSize * Len(f[a])
    BY <1>1, BytesAre DEF Sourced
  <2>2. SourceSize * Len(f[a]) \in Nat
    BY <1>1, <1>2
  <2>3. SourceSize * Len(f[a]) < SegmentBytes
    BY <1>2, <1>4, <2>1, <2>2
  <2> HIDE DEF a
  <2>4. g[a] = Append(f[a], e) /\ DOMAIN g = DOMAIN f
        /\ \A b \in DOMAIN f : b # a => g[b] = f[b]
    BY <1>4 DEF Written, a
  <2>5. Len(g[a]) - 1 = Len(f[a])
    BY <1>1, <2>4
  <2>6. \A b \in DOMAIN g : Len(g[b]) # 0 => SourceSize * (Len(g[b]) - 1) < SegmentBytes
    BY <2>3, <2>4, <2>5 DEF Sourced
  <2>7. QED BY <1>3, <2>6 DEF Sourced
<1>5. CASE Rolled(f, g, e)
  <2>1. \A b \in DOMAIN g : (b \in DOMAIN f /\ g[b] = f[b]) \/ g[b] = <<e>>
    BY <1>5 DEF Rolled
  <2>2. Len(<<e>>) - 1 = 0 /\ SourceSize * 0 = 0 /\ 0 < SegmentBytes
    BY <1>2
  <2>3. \A b \in DOMAIN g : Len(g[b]) # 0 => SourceSize * (Len(g[b]) - 1) < SegmentBytes
    BY <2>1, <2>2 DEF Sourced
  <2>4. QED BY <1>3, <2>3 DEF Sourced
<1>6. QED BY <1>4, <1>5, AppendedIs

LEMMA TimesInjective ==
    ASSUME NEW c \in Nat \ {0}, NEW m \in Nat, NEW n \in Nat, c * m = c * n
    PROVE  m = n
<1>1. ASSUME NEW x \in Nat, NEW y \in Nat, x < y PROVE c * x < c * y
  <2>1. PICK d \in Nat \ {0} : y = x + d
    <3>1. y - x \in Nat \ {0} /\ y = x + (y - x)
      BY <1>1
    <3>2. QED BY <3>1
  <2>2. c * (x + d) = c * x + c * d
    OBVIOUS
  <2>3. c * d > 0 /\ c * d \in Nat /\ c * x \in Nat
    OBVIOUS
  <2>4. QED BY <2>1, <2>2, <2>3
<1>2. c * m \in Nat /\ c * n \in Nat
  OBVIOUS
<1>3. QED BY <1>1, <1>2

LEMMA ReusedIs ==
    ASSUME ExtentsTell, NEW f, Files(f), NEW g, Files(g), Contiguous(g), Sourced(g),
           Matches(f, g), NEW b \in DOMAIN f \cap DOMAIN g, ~Final(g, b),
           Bytes(f[b]) = Bytes(g[b])
    PROVE  f[b] = g[b]
<1>1. /\ f[b] \in Seq(Event) /\ g[b] \in Seq(Event) /\ Len(f[b]) \in Nat /\ b \in Nat /\ b >= 1
      /\ Len(g[b]) \in Nat \ {0}
      /\ DOMAIN f[b] = 1..Len(f[b]) /\ DOMAIN g[b] = 1..Len(g[b])
  BY DEF Files, Contiguous
<1>2. SourceSize \in Nat \ {0}
  BY BackupAssumption
<1>3. Bytes(g[b]) = SourceSize * Len(g[b]) /\ SourceSize * (Len(g[b]) - 1) < SegmentBytes
  BY <1>1, BytesAre DEF Sourced
<1>4. \A i \in DOMAIN f[b] : f[b][i].by = Source
  <2>1. SUFFICES ASSUME \E i \in DOMAIN f[b] : f[b][i].by # Source PROVE FALSE
    OBVIOUS
  <2>2. PICK i \in Nat, j \in Nat \ {0} : Bytes(f[b]) = SourceSize * i + RestoredSize * j
    BY <1>1, <2>1, BytesAre
  <2>3. SourceSize * i + RestoredSize * j # SourceSize * Len(g[b])
    BY <1>1, <1>3 DEF ExtentsTell
  <2>4. QED BY <1>3, <2>2, <2>3
<1>5. Len(f[b]) = Len(g[b])
  <2>1. SourceSize * Len(f[b]) = SourceSize * Len(g[b])
    BY <1>1, <1>3, <1>4, BytesAre
  <2>2. QED BY <1>1, <1>2, <2>1, TimesInjective
<1>6. \A i \in 1..Len(g[b]) : f[b][i] = g[b][i]
  <2> TAKE i \in 1..Len(g[b])
  <2>1. EventAt(g, b + i - 1) = f[b][i]
    BY <1>1, <1>4, <1>5 DEF Matches
  <2>2. Holds(g, b, b + i - 1) /\ b + i - 1 \in Nat /\ (b + i - 1) - b + 1 = i
    BY <1>1 DEF Holds
  <2>3. EventAt(g, b + i - 1) = g[b][(b + i - 1) - b + 1]
    BY <2>2, Within
  <2>4. QED BY <2>1, <2>2, <2>3
<1>7. QED BY <1>1, <1>5, <1>6

\* What a copy has of a segment stands at its position.
LEMMA SnapStands ==
    ASSUME NEW g, Files(g), Contiguous(g), NEW b \in DOMAIN g, NEW s \in Seq(Event), NEW L,
           Snap(s, b, L, g)
    PROVE  \A i \in DOMAIN s : Reaches(g, b + i - 1) /\ EventAt(g, b + i - 1) = s[i]
<1> TAKE i \in DOMAIN s
<1>1. i \in 1..Len(s) /\ Len(s) \in Nat /\ Len(g[b]) \in Nat /\ b \in Nat /\ b >= 1
  BY DEF Files
<1>2. s[i] = g[b][i] /\ Len(s) <= Len(g[b])
  BY <1>1 DEF Snap
<1>3. Holds(g, b, b + i - 1) /\ b + i - 1 \in Nat /\ (b + i - 1) - b + 1 = i
  BY <1>1, <1>2 DEF Holds
<1>4. Reaches(g, b + i - 1) /\ EventAt(g, b + i - 1) = g[b][(b + i - 1) - b + 1]
  BY <1>3, Within
<1>5. QED BY <1>2, <1>3, <1>4

-----------------------------------------------------------------------------
(* Types.                                                                  *)

\* What follows a log holds events, and the log's own if it did.
LEMMA FollowedIs ==
    ASSUME Files(copy), NEW m \in Seq(Event)
    PROVE  /\ Followed(m) \in Seq(Event)
           /\ Contiguous(copy) /\ Len(m) < NextPosition(copy) /\ (\A p \in 1..Len(m) : m[p] = EventAt(copy, p))
              => /\ Len(Followed(m)) < NextPosition(copy)
                 /\ \A p \in 1..Len(Followed(m)) : Followed(m)[p] = EventAt(copy, p)
<1> DEFINE n == LogHead(copy) - Len(m)
           t == [i \in 1..n |-> EventAt(copy, Len(m) + i)]
<1>1. LogHead(copy) \in Nat /\ Len(m) \in Nat /\ n \in Int
  BY HeadIs, Bounds
<1>2. \A i \in 1..n : EventAt(copy, Len(m) + i) \in Event
  <2> TAKE i \in 1..n
  <2>1. Len(m) + i \in 1..LogHead(copy) /\ Len(m) + i \in Nat
    BY <1>1
  <2>2. QED BY <2>1, HeadIs, PresentEvent
<1>3. t \in Seq(Event) /\ Len(t) = (IF n >= 0 THEN n ELSE 0)
      /\ \A i \in 1..Len(t) : t[i] = EventAt(copy, Len(m) + i)
  <2>1. CASE n >= 0
    <3>1. n \in Nat
      BY <1>1, <2>1
    <3>2. t \in [1..n -> Event]
      BY <1>2
    <3>3. t \in Seq(Event) /\ Len(t) = n
      BY <3>1, <3>2
    <3>4. QED BY <2>1, <3>3
  <2>2. CASE ~(n >= 0)
    <3>1. 1..n = {}
      BY <1>1, <2>2
    <3>2. t = <<>>
      BY <3>1
    <3> HIDE DEF t
    <3>3. Len(t) = 0 /\ t \in Seq(Event) /\ 1..Len(t) = {}
      BY <3>2
    <3>4. QED BY <2>2, <3>3
  <2>3. QED BY <2>1, <2>2
<1>4. Followed(m) = m \o t
  BY DEF Followed
<1> HIDE DEF t
<1>5. /\ Followed(m) \in Seq(Event) /\ Len(Followed(m)) = Len(m) + Len(t)
      /\ \A p \in 1..Len(Followed(m)) :
           Followed(m)[p] = IF p <= Len(m) THEN m[p] ELSE t[p - Len(m)]
  BY <1>3, <1>4
<1>6. ASSUME Contiguous(copy), Len(m) < NextPosition(copy),
             \A p \in 1..Len(m) : m[p] = EventAt(copy, p)
      PROVE  /\ Len(Followed(m)) < NextPosition(copy)
             /\ \A p \in 1..Len(Followed(m)) : Followed(m)[p] = EventAt(copy, p)
  <2>1. LogHead(copy) = NextPosition(copy) - 1 /\ NextPosition(copy) \in Nat
    BY <1>6, HeadOf, ActiveIs, Bounds DEF Contiguous
  <2>2. n >= 0 /\ Len(Followed(m)) = LogHead(copy)
    BY <1>1, <1>3, <1>5, <1>6, <2>1
  <2>3. ASSUME NEW p \in 1..Len(Followed(m)) PROVE Followed(m)[p] = EventAt(copy, p)
    <3>1. CASE p <= Len(m)
      BY <1>5, <1>6, <3>1
    <3>2. CASE ~(p <= Len(m))
      <4>1. p - Len(m) \in 1..Len(t) /\ Len(m) + (p - Len(m)) = p
        BY <1>1, <1>3, <2>2, <3>2
      <4>2. QED BY <1>3, <1>5, <3>2, <4>1
    <3>3. QED BY <3>1, <3>2
  <2>4. QED BY <2>1, <2>2, <2>3
<1>7. QED BY <1>5, <1>6

\* The directories hold segments and databases.
Directories ==
    /\ Files(log) /\ Files(copy) /\ Files(run.plan)
    /\ DOMAIN copy = {} => copy = NoFiles
    /\ models \in Seq(Event) /\ tables \in Seq(Event)
    /\ db \in Database /\ {copyDb, staged} \subseteq Database \cup {NoDatabase}
    /\ manifest \in {"none", "partial", "complete"}
    /\ lock \in {"free", "backup", "server"} /\ (lock = "backup" <=> run.pc # "idle")
    /\ run.before \in 0..MaxPosition /\ run.gone \subseteq erased
    /\ run.listed \subseteq DOMAIN log
    /\ erased \subseteq Secrets /\ carried \subseteq erased /\ served \in BOOLEAN
    /\ serves \in 0..MaxServes

\* A server on the target has a log to serve, and a database.
Serving ==
    lock = "server" => /\ DOMAIN copy # {} /\ copyDb \in Database
                       /\ served /\ serves # 0

LEMMA RunStep ==
    ASSUME IsRun, NEW pc, Go(pc)
    PROVE  /\ run'.pc = pc /\ run'.before = run.before /\ run'.gone = run.gone
           /\ run'.listed = run.listed /\ run'.plan = run.plan
BY DEF IsRun, Go

LEMMA IdleRun ==
    /\ Idle.pc = "idle" /\ Idle.before = 0 /\ Idle.gone = {} /\ Idle.listed = {}
    /\ Idle.plan = NoFiles /\ Files(NoFiles) /\ DOMAIN NoFiles = {}
BY DEF Idle, NoFiles, Files

LEMMA FreshIs == Fresh \in Database /\ \A f : RowsOf(Fresh, f)
<1>1. 0 \in 0..MaxPosition /\ {} \in SUBSET Secrets /\ {} \in SUBSET (Positions \X Writers)
  BY Bounds
<1>2. Fresh \in Database
  BY <1>1 DEF Fresh, Database
<1>3. Fresh.terminal = {} /\ Fresh.mark = 0
  BY DEF Fresh
<1>4. QED BY <1>2, <1>3 DEF RowsOf

\* With what an action needs to keep it so.
Typed ==
    /\ Inv /\ Directories /\ Serving /\ DOMAIN log # {}
    /\ run.pc \in {"clamp", "install"} => staged \in Database

LEMMA InitTyped == Init => Typed
<1> SUFFICES ASSUME Init PROVE Typed
  OBVIOUS
<1>1. /\ log = FirstSegment /\ db = Fresh /\ copy = NoFiles /\ copyDb = NoDatabase
      /\ staged = NoDatabase /\ manifest = "none" /\ models = <<>> /\ tables = <<>>
      /\ lock = "free" /\ run = Idle /\ erased = {} /\ carried = {} /\ served = FALSE
      /\ serves = 0
  BY DEF Init
<1>2. DOMAIN log = {1} /\ log[1] = <<>>
  BY <1>1 DEF FirstSegment
<1>3. MaxServes \in Nat /\ 0 \in 0..MaxPosition /\ <<>> \in Seq(Event)
  BY Bounds, BackupAssumption
<1>4. Files(log)
  <2>1. <<>> \in Seq(Event) /\ Len(<<>>) = 0
    OBVIOUS
  <2>2. 1 \in 1..(MaxPosition + 1) /\ 1 + 0 <= MaxPosition + 1
    BY Bounds
  <2>3. QED BY <1>2, <2>1, <2>2 DEF Files
<1>5. Files(copy) /\ Files(run.plan) /\ copy = NoFiles
  BY <1>1, IdleRun
<1>6. models \in Seq(Event) /\ tables \in Seq(Event)
  BY <1>1, <1>3
<1>7. db \in Database /\ {copyDb, staged} \subseteq Database \cup {NoDatabase}
  BY <1>1, FreshIs
<1>8. /\ manifest \in {"none", "partial", "complete"} /\ lock \in {"free", "backup", "server"}
      /\ lock # "backup" /\ run.pc = "idle" /\ lock # "server"
  BY <1>1, IdleRun
<1>9. run.before = 0 /\ run.gone = {} /\ run.listed = {}
  BY <1>1, IdleRun
<1>10. erased = {} /\ carried = {} /\ served = FALSE /\ served \in BOOLEAN /\ serves = 0
  BY <1>1
<1>11. serves \in 0..MaxServes
  BY <1>3, <1>10
<1>12. Directories
  BY <1>3, <1>4, <1>5, <1>6, <1>7, <1>8, <1>9, <1>10, <1>11 DEF Directories
<1>13. QED BY <1>2, <1>8, <1>12, InitInv DEF Typed, Serving

\* The source's steps.
LEMMA SourceTyped ==
    ASSUME Typed, Inv',
           UNCHANGED <<copy, copyDb, staged, manifest, models, tables, lock, run, carried,
                       served, serves>>,
           Files(log'), DOMAIN log \subseteq DOMAIN log', db' \in Database,
           erased \subseteq erased', erased' \subseteq Secrets
    PROVE  Typed'
<1>1. run' = run /\ copy' = copy /\ run.listed \subseteq DOMAIN log'
  BY DEF Typed, Directories
<1>2. Files(copy)' /\ Files(run.plan)'
  BY <1>1 DEF Typed, Directories
<1>3. QED BY <1>1, <1>2 DEF Typed, Directories, Serving

LEMMA StateTyped ==
    ASSUME Typed, Inv', (\E s \in Secrets : Mint(s) \/ EraseKey(s))
                          \/ (\E p \in Positions : RunEffect(p)) \/ AdvanceMark
    PROVE  Typed'
<1>1. /\ UNCHANGED <<log, copy, copyDb, staged, manifest, models, tables, lock, run, carried,
                     served, serves>>
      /\ erased \subseteq erased'
  BY DEF Mint, EraseKey, RunEffect, AdvanceMark, target, history, counts
<1>2. db \in Database /\ erased \subseteq Secrets /\ Files(log)
  BY DEF Typed, Directories
<1>3. db' \in Database /\ erased' \subseteq Secrets
  <2>1. CASE \E s \in Secrets : Mint(s) \/ EraseKey(s)
    <3>1. PICK s \in Secrets : Mint(s) \/ EraseKey(s)
      BY <2>1
    <3>2. CASE Mint(s)
      BY <1>2, <3>2 DEF Mint, history, Database
    <3>3. CASE EraseKey(s)
      BY <1>2, <3>3 DEF EraseKey, Database
    <3>4. QED BY <3>1, <3>2, <3>3
  <2>2. CASE \E p \in Positions : RunEffect(p)
    <3>1. PICK p \in Positions : p <= LogHead(log) /\ db' = Settled(db, log, p) /\ erased' = erased
      BY <2>2 DEF RunEffect, history
    <3>2. p \in 1..LogHead(log)
      BY <1>2, <3>1, HeadIs DEF Positions
    <3>3. QED BY <1>2, <3>1, <3>2, SettledIs
  <2>3. CASE AdvanceMark
    BY <1>2, <2>3, FollowsIs DEF AdvanceMark, history
  <2>4. QED BY <2>1, <2>2, <2>3
<1>4. QED BY <1>1, <1>2, <1>3, SourceTyped

LEMMA AppendTyped ==
    ASSUME Typed, Inv', NEW s \in Secrets \cup {NoSecret}, AppendEvent(s)
    PROVE  Typed'
<1> DEFINE e == [by |-> Source, secret |-> s]
<1>1. /\ NextPosition(log) <= MaxEvents /\ log' = Appended(log, e)
      /\ UNCHANGED <<db, copy, copyDb, staged, manifest, models, tables, lock, run, erased,
                     carried, served, serves>>
  BY DEF AppendEvent, target, history, counts
<1>2. e \in Event
  <2>1. 0 \in 0..MaxServes
    BY BackupAssumption
  <2>2. QED BY <2>1 DEF Event, Writers, Source
<1> HIDE DEF e
<1>3. Files(log) /\ DOMAIN log # {} /\ db \in Database /\ erased \subseteq Secrets
  BY DEF Typed, Directories
<1>4. NextPosition(log) <= MaxPosition
  <2>1. NextPosition(log) \in Nat
    BY <1>3, ActiveIs, Bounds
  <2>2. QED BY <1>1, <2>1, Bounds
<1>5. Files(log') /\ DOMAIN log \subseteq DOMAIN log'
  BY <1>1, <1>2, <1>3, <1>4, AppendedExtends DEF Extends
<1>6. QED BY <1>1, <1>3, <1>5, SourceTyped

\* A run's steps that leave the target's log alone.
LEMMA RunTyped ==
    ASSUME Typed, Inv', Begin \/ List \/ Snapshot \/ Clamp \/ Install \/ Finish \/ Crash
    PROVE  Typed'
<1>1. /\ UNCHANGED <<log, db, copy, tables, erased, serves>>
      /\ IsRun /\ Files(run.plan) /\ MaxServes \in Nat
  BY BackupAssumption
     DEF Typed, Inv, Directories, Begin, List, Snapshot, Clamp, Install, Finish, Crash, source,
         derived, target, history, counts
<1>2. CASE Begin
  <2>1. /\ lock' = "backup"
        /\ run' = [Idle EXCEPT !.pc = "list", !.before = LogHead(log), !.gone = erased]
        /\ staged' = NoDatabase /\ manifest' = "partial"
        /\ UNCHANGED <<models, copyDb, carried, served>>
    BY <1>2 DEF Begin, derived, history
  <2>2. /\ run'.pc = "list" /\ run'.before = LogHead(log) /\ run'.gone = erased
        /\ run'.listed = {} /\ run'.plan = NoFiles
    BY <2>1 DEF Idle
  <2>3. LogHead(log) \in 0..MaxPosition /\ Files(run'.plan)
    BY <2>2, HeadIs, IdleRun DEF Typed, Directories
  <2>4. Directories'
    BY <1>1, <2>1, <2>2, <2>3 DEF Typed, Directories
  <2>5. QED BY <1>1, <2>1, <2>2, <2>4 DEF Typed, Serving
<1>3. CASE List
  <2>1. /\ run.pc = "list" /\ run' = [run EXCEPT !.pc = "plan", !.listed = DOMAIN log]
        /\ UNCHANGED <<copyDb, staged, manifest, models, lock, carried, served>>
    BY <1>3 DEF List, target, history
  <2>2. /\ run'.pc = "plan" /\ run'.before = run.before /\ run'.gone = run.gone
        /\ run'.listed = DOMAIN log /\ run'.plan = run.plan
    BY <1>1, <2>1 DEF IsRun
  <2>3. Files(run'.plan)
    BY <1>1, <2>2
  <2>4. Directories'
    BY <1>1, <2>1, <2>2, <2>3 DEF Typed, Directories
  <2>5. QED BY <1>1, <2>1, <2>2, <2>4 DEF Typed, Serving
<1>4. CASE Snapshot
  <2>1. /\ run.pc = "snapshot" /\ Go("clamp") /\ staged' = db
        /\ UNCHANGED <<copyDb, manifest, models, lock, carried, served>>
    BY <1>4 DEF Snapshot, derived, history
  <2>2. /\ run'.pc = "clamp" /\ run'.before = run.before /\ run'.gone = run.gone
        /\ run'.listed = run.listed /\ run'.plan = run.plan
    BY <1>1, <2>1, RunStep
  <2>3. Files(run'.plan) /\ db \in Database
    BY <1>1, <2>2 DEF Typed, Directories
  <2>4. Directories'
    BY <1>1, <2>1, <2>2, <2>3 DEF Typed, Directories
  <2>5. QED BY <1>1, <2>1, <2>2, <2>3, <2>4 DEF Typed, Serving
<1>5. CASE Clamp
  <2>1. run.pc = "clamp" /\ staged \in Database /\ UNCHANGED <<copyDb, manifest, carried, served>>
    BY <1>5 DEF Typed, Clamp, history
  <2>2. CASE LogHead(copy) >= run.before
    <3>1. /\ Go("install") /\ lock' = lock /\ models' = <<>>
          /\ staged' = Lowered(staged, LogHead(copy))
      BY <1>5, <2>2 DEF Clamp
    <3>2. /\ run'.pc = "install" /\ run'.before = run.before /\ run'.gone = run.gone
          /\ run'.listed = run.listed /\ run'.plan = run.plan
      BY <1>1, <3>1, RunStep
    <3>3. staged' \in Database
      BY <2>1, <3>1, HeadIs, LoweredFields DEF Typed, Directories
    <3>4. Files(run'.plan) /\ models' \in Seq(Event)
      BY <1>1, <3>1, <3>2
    <3>5. Directories'
      BY <1>1, <2>1, <3>1, <3>2, <3>3, <3>4 DEF Typed, Directories
    <3>6. QED BY <1>1, <2>1, <3>1, <3>2, <3>3, <3>5 DEF Typed, Directories, Serving
  <2>3. CASE ~(LogHead(copy) >= run.before)
    <3>1. run' = Idle /\ lock' = "free" /\ models' = models /\ staged' = staged
      BY <1>5, <2>3 DEF Clamp
    <3>2. /\ run'.pc = "idle" /\ run'.before = 0 /\ run'.gone = {} /\ run'.listed = {}
          /\ run'.plan = NoFiles /\ Files(run'.plan) /\ 0 \in 0..MaxPosition
      BY <3>1, IdleRun, Bounds
    <3>3. Directories'
      BY <1>1, <2>1, <3>1, <3>2 DEF Typed, Directories
    <3>4. QED BY <1>1, <3>1, <3>2, <3>3 DEF Typed, Serving
  <2>4. QED BY <2>2, <2>3
<1>6. CASE Install
  <2>1. /\ run.pc = "install" /\ Go("finish") /\ copyDb' = staged /\ staged' = NoDatabase
        /\ UNCHANGED <<manifest, models, lock, carried, served>>
    BY <1>6 DEF Install, derived, history
  <2>2. /\ run'.pc = "finish" /\ run'.before = run.before /\ run'.gone = run.gone
        /\ run'.listed = run.listed /\ run'.plan = run.plan
    BY <1>1, <2>1, RunStep
  <2>3. Files(run'.plan) /\ staged \in Database /\ lock = "backup"
    BY <1>1, <2>1, <2>2 DEF Typed, Directories
  <2>4. Directories'
    BY <1>1, <2>1, <2>2, <2>3 DEF Typed, Directories
  <2>5. QED BY <1>1, <2>1, <2>2, <2>3, <2>4 DEF Typed, Serving
<1>7. CASE Finish
  <2>1. /\ manifest' = "complete" /\ lock' = "free" /\ run' = Idle /\ carried' = run.gone
        /\ served' = FALSE /\ UNCHANGED <<copyDb, staged, models>>
    BY <1>7 DEF Finish, derived
  <2>2. /\ run'.pc = "idle" /\ run'.before = 0 /\ run'.gone = {} /\ run'.listed = {}
        /\ run'.plan = NoFiles /\ Files(run'.plan) /\ 0 \in 0..MaxPosition
    BY <2>1, IdleRun, Bounds
  <2>3. Directories'
    BY <1>1, <2>1, <2>2 DEF Typed, Directories
  <2>4. QED BY <1>1, <2>1, <2>2, <2>3 DEF Typed, Serving
<1>8. CASE Crash
  <2>1. /\ lock' = "free" /\ run' = Idle
        /\ UNCHANGED <<copyDb, staged, manifest, models, carried, served>>
    BY <1>8 DEF Crash, target, history
  <2>2. /\ run'.pc = "idle" /\ run'.before = 0 /\ run'.gone = {} /\ run'.listed = {}
        /\ run'.plan = NoFiles /\ Files(run'.plan) /\ 0 \in 0..MaxPosition
    BY <2>1, IdleRun, Bounds
  <2>3. Directories'
    BY <1>1, <2>1, <2>2 DEF Typed, Directories
  <2>4. QED BY <1>1, <2>1, <2>2, <2>3 DEF Typed, Serving
<1>9. QED BY <1>2, <1>3, <1>4, <1>5, <1>6, <1>7, <1>8

\* Those that write it.
LEMMA CopyTyped == ASSUME Typed, Inv', Plan \/ CopyFile PROVE Typed'
<1>1. /\ UNCHANGED <<log, db, copyDb, staged, manifest, models, tables, lock, erased,
                     carried, served, serves>>
      /\ run.pc \in {"plan", "copy"}
  BY DEF Plan, CopyFile, source, derived, history, counts
<1>2. /\ Files(log) /\ Files(copy) /\ Files(run.plan) /\ run.listed \subseteq DOMAIN log
      /\ DOMAIN copy = {} => copy = NoFiles
  BY DEF Typed, Directories
<1>3. lock = "backup" /\ IsRun
  BY <1>1 DEF Typed, Inv, Alone
<1>4. /\ run'.pc \in {"copy", "snapshot"} /\ run'.before = run.before /\ run'.gone = run.gone
      /\ run'.listed = run.listed
      /\ Files(run'.plan) /\ Files(copy') /\ (DOMAIN copy' = {} => copy' = NoFiles)
  <2>1. CASE Plan
    <3> DEFINE P == [b \in {c \in run.listed : ~Reused(c)} |-> log[b]]
               C == [b \in DOMAIN copy \cap run.listed |-> copy[b]]
    <3>1. run' = [run EXCEPT !.pc = "copy", !.plan = P] /\ copy' = C
      BY <2>1 DEF Plan
    <3>2. /\ DOMAIN P \subseteq run.listed /\ \A b \in DOMAIN P : P[b] = log[b]
          /\ DOMAIN C = DOMAIN copy \cap run.listed /\ \A b \in DOMAIN C : C[b] = copy[b]
          /\ DOMAIN C = {} => C = NoFiles
      BY DEF NoFiles
    <3> HIDE DEF P, C
    <3>3. /\ run'.pc = "copy" /\ run'.before = run.before /\ run'.gone = run.gone
          /\ run'.listed = run.listed /\ run'.plan = P
      BY <1>3, <3>1 DEF IsRun
    <3>4. Files(P) /\ Files(C)
      BY <1>2, <3>2 DEF Files
    <3>5. QED BY <3>1, <3>2, <3>3, <3>4
  <2>2. CASE CopyFile /\ DOMAIN run.plan = {}
    <3>1. Go("snapshot") /\ copy' = copy
      BY <2>2 DEF CopyFile
    <3>2. /\ run'.pc = "snapshot" /\ run'.before = run.before /\ run'.gone = run.gone
          /\ run'.listed = run.listed /\ run'.plan = run.plan
      BY <1>3, <3>1, RunStep
    <3>3. QED BY <1>2, <3>1, <3>2
  <2>3. CASE CopyFile /\ DOMAIN run.plan # {}
    <3> DEFINE b == Min(DOMAIN run.plan)
               C == [c \in DOMAIN copy \cup {b} |-> IF c = b THEN run.plan[b] ELSE copy[c]]
               P == [c \in DOMAIN run.plan \ {b} |-> run.plan[c]]
    <3>1. copy' = C /\ run' = [run EXCEPT !.plan = P] /\ run.pc = "copy"
      BY <2>3 DEF CopyFile
    <3>2. b \in DOMAIN run.plan
      BY <1>2, <2>3, MinIs DEF Files
    <3>3. /\ DOMAIN C = DOMAIN copy \cup {b} /\ C[b] = run.plan[b]
          /\ \A c \in DOMAIN copy : c # b => C[c] = copy[c]
          /\ DOMAIN P = DOMAIN run.plan \ {b} /\ \A c \in DOMAIN P : P[c] = run.plan[c]
      OBVIOUS
    <3> HIDE DEF b, C, P
    <3>4. /\ run'.pc = "copy" /\ run'.before = run.before /\ run'.gone = run.gone
          /\ run'.listed = run.listed /\ run'.plan = P
      BY <1>3, <3>1 DEF IsRun
    <3>5. Files(C) /\ Files(P) /\ DOMAIN C # {}
      BY <1>2, <3>2, <3>3 DEF Files
    <3>6. QED BY <3>1, <3>4, <3>5
  <2>4. QED BY <2>1, <2>2, <2>3
<1>5. Directories'
  BY <1>1, <1>3, <1>4 DEF Typed, Directories
<1>6. QED BY <1>1, <1>3, <1>4, <1>5 DEF Typed, Serving

\* And a restored server's.
LEMMA RestoredTyped ==
    ASSUME Typed, Inv', Serve \/ AppendRestored \/ (\E p \in Positions : RunRestored(p))
                          \/ AdvanceRestored \/ Follow \/ StopServing
    PROVE  Typed'
<1>1. /\ UNCHANGED <<log, db, staged, manifest, run, erased, carried>>
      /\ lock # "backup" /\ lock' \in {"free", "server"} /\ (lock' = "server" => served')
      /\ served' \in BOOLEAN
  BY DEF Typed, Directories, Serving, Serve, AppendRestored, RunRestored, AdvanceRestored,
         Follow, StopServing, source, derived, target, history, counts
<1>2. /\ Files(copy) /\ Files(run.plan) /\ run.pc = "idle" /\ serves \in 0..MaxServes
      /\ models \in Seq(Event) /\ tables \in Seq(Event)
      /\ DOMAIN copy = {} => copy = NoFiles
      /\ copyDb \in Database \cup {NoDatabase}
      /\ lock = "server" => DOMAIN copy # {} /\ copyDb \in Database /\ serves # 0
  BY <1>1 DEF Typed, Inv, Alone, Directories, Serving
<1>3. Files(run'.plan) /\ run'.pc = "idle"
  BY <1>1, <1>2
<1>4. /\ Files(copy') /\ (DOMAIN copy' = {} => copy' = NoFiles)
      /\ models' \in Seq(Event) /\ tables' \in Seq(Event)
      /\ copyDb' \in Database \cup {NoDatabase} /\ serves' \in 0..MaxServes
      /\ lock' = "server" => DOMAIN copy' # {} /\ copyDb' \in Database /\ serves' # 0
  <2>1. CASE Serve
    <3>1. /\ serves < MaxServes /\ copy # NoFiles /\ serves' = serves + 1
          /\ copyDb' = IF copyDb = NoDatabase THEN Fresh ELSE copyDb
          /\ UNCHANGED <<copy, models, tables>>
      BY <2>1 DEF Serve, derived
    <3>2. copyDb' \in Database
      BY <1>2, <3>1, FreshIs
    <3>3. serves' \in 0..MaxServes /\ serves' # 0
      BY <1>2, <3>1, BackupAssumption
    <3>4. QED BY <1>2, <3>1, <3>2, <3>3
  <2>2. CASE AppendRestored
    <3> DEFINE e == [by |-> serves, secret |-> NoSecret]
    <3>1. /\ lock = "server" /\ NextPosition(copy) <= MaxPosition /\ copy' = Appended(copy, e)
          /\ UNCHANGED <<models, tables, copyDb, serves>>
      BY <2>2 DEF AppendRestored, derived, counts
    <3>2. e \in Event
      BY <1>2 DEF Event, Writers
    <3> HIDE DEF e
    <3>3. Files(copy') /\ DOMAIN copy \subseteq DOMAIN copy'
      BY <1>2, <3>1, <3>2, AppendedExtends DEF Extends
    <3>4. QED BY <1>2, <3>1, <3>3
  <2>3. CASE (\E p \in Positions : RunRestored(p)) \/ AdvanceRestored
    <3>1. lock = "server" /\ UNCHANGED <<copy, models, tables, serves>>
      BY <2>3 DEF RunRestored, AdvanceRestored, derived, counts
    <3>2. copyDb' \in Database
      <4>1. CASE \E p \in Positions : RunRestored(p)
        <5>1. PICK p \in Positions : p <= LogHead(copy) /\ copyDb' = Settled(copyDb, copy, p)
          BY <4>1 DEF RunRestored
        <5>2. p \in 1..LogHead(copy)
          BY <1>2, <5>1, HeadIs DEF Positions
        <5>3. QED BY <1>2, <3>1, <5>1, <5>2, SettledIs
      <4>2. CASE AdvanceRestored
        BY <1>2, <3>1, <4>2, FollowsIs DEF AdvanceRestored
      <4>3. QED BY <2>3, <4>1, <4>2
    <3>3. QED BY <1>2, <3>1, <3>2
  <2>4. CASE Follow
    <3>1. /\ lock = "server" /\ models' = Followed(models) /\ tables' = Followed(tables)
          /\ UNCHANGED <<copy, copyDb, serves>>
      BY <2>4 DEF Follow, counts
    <3>2. models' \in Seq(Event) /\ tables' \in Seq(Event)
      BY <1>2, <3>1, FollowedIs
    <3>3. QED BY <1>2, <3>1, <3>2
  <2>5. CASE StopServing
    <3>1. lock' = "free" /\ UNCHANGED <<copy, models, tables, copyDb, serves>>
      BY <2>5 DEF StopServing, target, counts
    <3>2. QED BY <1>2, <3>1
  <2>6. QED BY <2>1, <2>2, <2>3, <2>4, <2>5
<1>5. Directories'
  BY <1>1, <1>3, <1>4 DEF Typed, Directories
<1>6. QED BY <1>1, <1>3, <1>4, <1>5 DEF Typed, Serving

LEMMA NextTyped == ASSUME Typed, [Next]_vars PROVE Typed'
<1>1. Inv'
  BY NextKeeps DEF Typed
<1>2. CASE UNCHANGED vars
  BY <1>1, <1>2 DEF vars, Typed, Directories, Serving
<1>3. QED BY <1>1, <1>2, StateTyped, AppendTyped, RunTyped, CopyTyped, RestoredTyped DEF Next

\* What is in a log directory (segment files named by their first position, with whole
\* records in them), in hekla.db, staged beside it and in the manifest is what the code that
\* reads it back expects, at every step of a run and after a crash at any of them
\* (src/src/backup.rs, run and clamp_to_log).
THEOREM BackupTypes == Spec => []TypeOK
<1>1. Typed /\ [Next]_vars => Typed'
  BY NextTyped
<1>2. ASSUME NEW f, Files(f) PROVE IsLog(f)
  BY <1>2 DEF Files, IsLog
<1>3. Typed => TypeOK
  BY <1>2 DEF Typed, Directories, TypeOK
<1>4. QED BY <1>1, <1>3, InitTyped, PTL DEF Spec

-----------------------------------------------------------------------------
(* The invariant.                                                          *)

\* What an event may be sealed under, beside a database with these keys.
Known(d) == d.keys \cup erased \cup {NoSecret}

\* The source is contiguous and its own, and its state speaks of it.
SourceTrue ==
    /\ Contiguous(log) /\ Sourced(log)
    /\ Covered(Known(db), log) /\ RowsOf(db, log)

\* Beside the target's log, d speaks of it.
Good(d) == RowsOf(d, copy) /\ Covered(Known(d), copy)

\* Where a run has got to with the log: each listed segment is still in the plan or in the
\* target, as it was when it was measured.
Copying ==
    /\ run.pc \in {"plan", "copy"} => Initial(run.listed, log)
    /\ run.pc = "copy" =>
         /\ DOMAIN copy \subseteq run.listed /\ DOMAIN run.plan \subseteq run.listed
         /\ \A b \in DOMAIN run.plan : Snap(run.plan[b], b, run.listed, log)
         /\ \A b \in run.listed \ DOMAIN run.plan :
              b \in DOMAIN copy /\ Snap(copy[b], b, run.listed, log)
    /\ run.pc \in {"snapshot", "clamp", "install", "finish"} => Taken(copy, log)

\* And with the database.
Staging ==
    /\ run.pc \in {"clamp", "install"} => staged \in Database
    /\ run.pc = "clamp" => RowsOf(staged, log) /\ Covered(Known(staged), copy)
    /\ run.pc = "install" => Good(staged)
    /\ run.pc = "finish" => Good(copyDb)
    /\ run.pc \in {"install", "finish"} => models = <<>>

\* What a complete target is, served or not.
Done ==
    manifest = "complete" =>
        /\ Contiguous(copy) /\ Good(copyDb)
        /\ Len(models) < NextPosition(copy)
        /\ \A p \in 1..Len(models) : models[p] = EventAt(copy, p)
        /\ ~served => Taken(copy, log)

Backed ==
    /\ Typed /\ SourceTrue /\ Matches(copy, log)
    /\ Copying /\ Staging /\ Done

\* Without a run in it, the target is not half way.
LEMMA NotCopying == ASSUME run.pc = "idle" \/ run.pc = "list" PROVE Copying /\ Staging
BY DEF Copying, Staging

LEMMA InitBacked == Init => Backed
<1> SUFFICES ASSUME Init PROVE Backed
  OBVIOUS
<1>1. Typed
  BY InitTyped
<1>2. /\ log = FirstSegment /\ db = Fresh /\ copy = NoFiles /\ copyDb = NoDatabase
      /\ staged = NoDatabase /\ manifest = "none" /\ models = <<>> /\ tables = <<>>
      /\ lock = "free" /\ run = Idle /\ erased = {} /\ carried = {} /\ served = FALSE
      /\ serves = 0
  BY DEF Init
<1>3. DOMAIN log = {1} /\ log[1] = <<>>
  BY <1>2 DEF FirstSegment
<1>4. Files(log) /\ Contiguous(log) /\ Sourced(log) /\ Covered(Known(db), log)
  <2>1. <<>> \in Seq(Event) /\ Len(<<>>) = 0 /\ DOMAIN <<>> = {}
    OBVIOUS
  <2>2. 1 \in 1..(MaxPosition + 1) /\ 1 + 0 <= MaxPosition + 1
    BY Bounds
  <2>3. Files(log) /\ Sourced(log) /\ Covered(Known(db), log)
    BY <1>3, <2>1, <2>2 DEF Files, Sourced, Covered
  <2>4. Final(log, 1)
    BY <1>3 DEF Final
  <2>5. Contiguous(log)
    BY <1>3, <2>4 DEF Contiguous
  <2>6. QED BY <2>3, <2>5
<1>5. SourceTrue
  BY <1>2, <1>4, FreshIs DEF SourceTrue
<1>6. Done /\ Matches(copy, log)
  BY <1>2, IdleRun DEF Done, Matches
<1>7. Copying /\ Staging
  BY <1>2, IdleRun, NotCopying
<1>8. QED BY <1>1, <1>5, <1>6, <1>7 DEF Backed

\* A database speaks for more once something was erased.
LEMMA GoodStays ==
    ASSUME UNCHANGED <<copy, copyDb, staged>>, erased \subseteq erased'
    PROVE  /\ Good(copyDb) => Good(copyDb)'
           /\ Good(staged) => Good(staged)'
           /\ Covered(Known(staged), copy) => Covered(Known(staged), copy)'
BY DEF Good, Covered, Known

\* A step of the source that leaves its log alone.
LEMMA StateBacked ==
    ASSUME Backed, Typed', UNCHANGED <<log, target, lock, run, carried, served, counts>>,
           erased \subseteq erased', erased' \subseteq Secrets,
           db' \in Database, Known(db) \subseteq Known(db)', RowsOf(db, log)'
    PROVE  Backed'
<1>1. UNCHANGED <<log, copy, copyDb, staged, manifest, models, tables, lock, run, carried,
                  served, serves>>
  BY DEF target, counts
<1>2. SourceTrue'
  BY <1>1 DEF Backed, Typed, SourceTrue, Covered
<1>3. Matches(copy, log)' /\ Copying'
  BY <1>1 DEF Backed, Typed, Directories, Serving, Copying
<1>4. Staging' /\ Done'
  BY <1>1, GoodStays DEF Backed, Typed, Staging, Done
<1>5. QED BY <1>2, <1>3, <1>4 DEF Backed

LEMMA MintBacked == ASSUME Backed, Typed', NEW s \in Secrets, Mint(s) PROVE Backed'
<1>1. db' = [db EXCEPT !.keys = @ \cup {s}] /\ UNCHANGED <<log, target, lock, run, history, counts>>
  BY DEF Mint
<1>2. db \in Database
  BY DEF Backed, Typed, Directories
<1>3. /\ db' \in Database /\ db'.keys = db.keys \cup {s} /\ db'.terminal = db.terminal
      /\ db'.mark = db.mark
  BY <1>1, <1>2 DEF Database
<1>4. RowsOf(db, log)'
  BY <1>1, <1>3 DEF RowsOf, Backed, Typed, SourceTrue
<1>5. /\ erased' = erased /\ erased \subseteq Secrets /\ UNCHANGED <<carried, served>>
      /\ Known(db) \subseteq Known(db)'
  BY <1>1, <1>3 DEF history, Known, Backed, Typed, Directories
<1>6. QED BY <1>1, <1>3, <1>4, <1>5, StateBacked

LEMMA EraseBacked == ASSUME Backed, Typed', NEW s \in Secrets, EraseKey(s) PROVE Backed'
<1>1. /\ db' = [db EXCEPT !.keys = @ \ {s}] /\ erased' = erased \cup {s}
      /\ UNCHANGED <<log, target, lock, run, carried, served, counts>>
  BY DEF EraseKey
<1>2. db \in Database /\ erased \subseteq Secrets
  BY DEF Backed, Typed, Directories
<1>3. /\ db' \in Database /\ db'.keys = db.keys \ {s} /\ db'.terminal = db.terminal
      /\ db'.mark = db.mark
  BY <1>1, <1>2 DEF Database
<1>4. RowsOf(db, log)'
  BY <1>1, <1>3 DEF RowsOf, Backed, Typed, SourceTrue
<1>5. Known(db) \subseteq Known(db)'
  BY <1>1, <1>3 DEF Known
<1>6. QED BY <1>1, <1>2, <1>3, <1>4, <1>5, StateBacked

LEMMA EffectBacked ==
    ASSUME Backed, Typed', (\E p \in Positions : RunEffect(p)) \/ AdvanceMark
    PROVE  Backed'
<1>1. /\ db \in Database /\ erased \subseteq Secrets /\ Files(log) /\ Contiguous(log)
      /\ RowsOf(db, log)
  BY DEF Backed, Typed, Directories, SourceTrue
<1>2. UNCHANGED <<log, target, lock, run, erased, carried, served, counts>>
  BY DEF RunEffect, AdvanceMark, history
<1>3. db' \in Database /\ RowsOf(db', log)
  <2>1. CASE \E p \in Positions : RunEffect(p)
    <3>1. PICK p \in Positions : p <= LogHead(log) /\ db' = Settled(db, log, p)
      BY <2>1 DEF RunEffect
    <3>2. p \in 1..LogHead(log)
      BY <1>1, <3>1, HeadIs DEF Positions
    <3>3. QED BY <1>1, <3>1, <3>2, SettledIs
  <2>2. CASE AdvanceMark
    <3>1. Follows(db) /\ db' = [db EXCEPT !.mark = @ + 1]
      BY <2>2 DEF AdvanceMark
    <3>2. QED BY <1>1, <3>1, FollowsIs
  <2>3. QED BY <2>1, <2>2
<1>4. db'.keys = db.keys
  BY SettledKeys DEF Backed, Typed, Inv, Shapes, RunEffect, AdvanceMark, IsDatabase
<1>5. Known(db) \subseteq Known(db)' /\ RowsOf(db, log)'
  BY <1>2, <1>3, <1>4 DEF Known
<1>6. QED BY <1>1, <1>2, <1>3, <1>5, StateBacked

LEMMA AppendBacked ==
    ASSUME Backed, Typed', NEW s \in Secrets \cup {NoSecret}, AppendEvent(s)
    PROVE  Backed'
<1> DEFINE e == [by |-> Source, secret |-> s]
<1>1. /\ NextPosition(log) <= MaxEvents /\ s \in Known(db) /\ log' = Appended(log, e)
      /\ UNCHANGED <<db, copy, copyDb, staged, manifest, models, tables, lock, run, erased,
                     carried, served, serves>>
  BY DEF AppendEvent, Known, target, history, counts
<1>2. e \in Event /\ e.by = Source /\ e.secret = s
  <2>1. 0 \in 0..MaxServes
    BY BackupAssumption
  <2>2. QED BY <2>1 DEF Event, Writers, Source
<1> HIDE DEF e
<1>3. /\ Files(log) /\ Files(copy) /\ Files(run.plan) /\ Contiguous(log) /\ Sourced(log)
      /\ RowsOf(db, log) /\ Covered(Known(db), log) /\ Matches(copy, log)
  BY DEF Backed, Typed, Directories, SourceTrue
<1>4. DOMAIN log # {} /\ NextPosition(log) <= MaxPosition
  <2>1. NextPosition(log) \in Nat /\ DOMAIN log # {}
    BY <1>3, ActiveIs, Bounds DEF Contiguous
  <2>2. QED BY <1>1, <2>1, Bounds
<1>5. Extends(log, log', e) /\ Sourced(log)'
  BY <1>1, <1>2, <1>3, <1>4, AppendedExtends, SourcedAppended
<1>6. /\ Files(log)' /\ Contiguous(log)' /\ DOMAIN log \subseteq DOMAIN log'
      /\ \A p : Reaches(log, p) => Reaches(log', p) /\ EventAt(log', p) = EventAt(log, p)
  BY <1>3, <1>5, ExtendsAt DEF Extends
<1>7. SourceTrue'
  <2>1. Covered(Known(db), log')
    BY <1>1, <1>2, <1>3, <1>5, CoveredExtends
  <2>2. RowsOf(db, log')
    BY <1>3, <1>5, RowsExtend
  <2>3. Known(db)' = Known(db) /\ db' = db
    BY <1>1 DEF Known
  <2>4. QED BY <1>5, <1>6, <2>1, <2>2, <2>3 DEF SourceTrue
<1>8. Matches(copy, log)'
  <2>1. Matches(copy, log')
    BY <1>3, <1>6 DEF Matches
  <2>2. QED BY <1>1, <2>1
<1>9. Taken(copy, log) => Taken(copy, log')
  BY <1>3, <1>5, TakenExtends
<1>10. Copying'
  <2>1. ASSUME Initial(run.listed, log) PROVE Initial(run.listed, log')
    BY <1>5, <2>1, InitialExtends
  <2>2. ASSUME run.pc = "copy"
        PROVE  /\ DOMAIN copy \subseteq run.listed /\ DOMAIN run.plan \subseteq run.listed
               /\ \A b \in DOMAIN run.plan : Snap(run.plan[b], b, run.listed, log')
               /\ \A b \in run.listed \ DOMAIN run.plan :
                    b \in DOMAIN copy /\ Snap(copy[b], b, run.listed, log')
    <3>1. /\ run.listed \subseteq DOMAIN log
          /\ DOMAIN copy \subseteq run.listed /\ DOMAIN run.plan \subseteq run.listed
          /\ \A b \in DOMAIN run.plan : Snap(run.plan[b], b, run.listed, log)
          /\ \A b \in run.listed \ DOMAIN run.plan :
               b \in DOMAIN copy /\ Snap(copy[b], b, run.listed, log)
      BY <2>2 DEF Backed, Typed, Copying, Directories
    <3>2. \A b \in DOMAIN run.plan : Snap(run.plan[b], b, run.listed, log')
      <4> TAKE b \in DOMAIN run.plan
      <4>1. b \in DOMAIN log /\ run.plan[b] \in Seq(Event) /\ Snap(run.plan[b], b, run.listed, log)
        BY <1>3, <3>1 DEF Files
      <4>2. QED BY <1>3, <1>5, <3>1, <4>1, SnapExtends
    <3>3. \A b \in run.listed \ DOMAIN run.plan : Snap(copy[b], b, run.listed, log')
      <4> TAKE b \in run.listed \ DOMAIN run.plan
      <4>1. b \in DOMAIN log /\ copy[b] \in Seq(Event) /\ Snap(copy[b], b, run.listed, log)
        BY <1>3, <3>1 DEF Files
      <4>2. QED BY <1>3, <1>5, <3>1, <4>1, SnapExtends
    <3>4. QED BY <3>1, <3>2, <3>3
  <2>3. run' = run /\ copy' = copy
    BY <1>1
  <2>4. QED BY <1>9, <2>1, <2>2, <2>3 DEF Backed, Typed, Copying
<1>11. Staging' /\ Done'
  <2>1. Known(staged)' = Known(staged) /\ Known(copyDb)' = Known(copyDb)
    BY <1>1 DEF Known
  <2>2. Good(staged)' = Good(staged) /\ Good(copyDb)' = Good(copyDb)
    BY <1>1, <2>1 DEF Good
  <2>3. RowsOf(staged, log) => RowsOf(staged, log')
    BY <1>3, <1>5, RowsExtend
  <2>4. Staging'
    BY <1>1, <2>1, <2>2, <2>3 DEF Backed, Typed, Staging
  <2>5. Done'
    BY <1>1, <1>9, <2>2 DEF Backed, Typed, Done
  <2>6. QED BY <2>4, <2>5
<1>12. QED BY <1>7, <1>8, <1>10, <1>11 DEF Backed

\* The steps of a run leave the source alone.
LEMMA SourceStays == ASSUME SourceTrue, UNCHANGED <<log, db, erased>> PROVE SourceTrue'
BY DEF SourceTrue, Known

LEMMA BeginBacked == ASSUME Backed, Typed', Begin PROVE Backed'
<1>1. /\ lock' = "backup" /\ run' = [Idle EXCEPT !.pc = "list", !.before = LogHead(log), !.gone = erased]
      /\ staged' = NoDatabase /\ manifest' = "partial"
      /\ UNCHANGED <<log, db, models, tables, copy, copyDb, erased, carried, served, serves>>
  BY DEF Begin, source, derived, history
<1>2. /\ run'.pc = "list" /\ run'.before = LogHead(log) /\ run'.gone = erased
      /\ run'.listed = {} /\ run'.plan = NoFiles
  BY <1>1 DEF Idle
<1>3. LogHead(log) \in 0..MaxPosition
  BY HeadIs DEF Backed, Typed, Directories
<1>4. SourceTrue' /\ Matches(copy, log)' /\ Done'
  BY <1>1, SourceStays DEF Backed, Typed, Serving, Done
<1>5. Copying' /\ Staging'
  BY <1>2 DEF Copying, Staging
<1>6. QED BY <1>4, <1>5 DEF Backed

LEMMA ListBacked == ASSUME Backed, Typed', List PROVE Backed'
<1>1. /\ run.pc = "list" /\ run' = [run EXCEPT !.pc = "plan", !.listed = DOMAIN log]
      /\ UNCHANGED <<log, db, copy, copyDb, staged, manifest, models, tables, lock, erased,
                     carried, served, serves>>
  BY DEF List, source, target, history, counts
<1>2. /\ run'.pc = "plan" /\ run'.before = run.before /\ run'.gone = run.gone
      /\ run'.listed = DOMAIN log /\ run'.plan = run.plan
  BY <1>1 DEF Backed, Typed, Inv, IsRun
<1>3. manifest = "partial" /\ lock = "backup"
  BY <1>1 DEF Backed, Typed, Inv, Alone
<1>4. SourceTrue' /\ Matches(copy, log)' /\ Done'
  BY <1>1, <1>3, SourceStays DEF Backed, Typed, Serving, Done
<1>5. Initial(DOMAIN log, log)
  BY DEF Initial, Backed, Typed, SourceTrue, Contiguous
<1>6. Copying' /\ Staging'
  BY <1>1, <1>2, <1>5 DEF Copying, Staging
<1>7. QED BY <1>4, <1>6 DEF Backed

LEMMA PlanBacked == ASSUME ExtentsTell, Backed, Typed', Plan PROVE Backed'
<1> DEFINE P == [b \in {c \in run.listed : ~Reused(c)} |-> log[b]]
           C == [b \in DOMAIN copy \cap run.listed |-> copy[b]]
<1>1. /\ run.pc = "plan" /\ run' = [run EXCEPT !.pc = "copy", !.plan = P] /\ copy' = C
      /\ UNCHANGED <<log, db, copyDb, staged, manifest, models, tables, lock, erased,
                     carried, served, serves>>
  BY DEF Plan, source, derived, history, counts
<1>2. /\ run'.pc = "copy" /\ run'.before = run.before /\ run'.gone = run.gone
      /\ run'.listed = run.listed /\ run'.plan = P
  BY <1>1 DEF Backed, Typed, Inv, IsRun
<1>3. manifest = "partial" /\ lock = "backup"
  BY <1>1 DEF Backed, Typed, Inv, Alone
<1>4. /\ Files(log) /\ Files(copy) /\ Contiguous(log) /\ Sourced(log) /\ Matches(copy, log)
      /\ Initial(run.listed, log) /\ run.listed \subseteq DOMAIN log
  BY <1>1 DEF Backed, Typed, Directories, SourceTrue, Copying
<1>5. /\ DOMAIN P = {c \in run.listed : ~Reused(c)} /\ \A b \in DOMAIN P : P[b] = log[b]
      /\ DOMAIN C = DOMAIN copy \cap run.listed /\ \A b \in DOMAIN C : C[b] = copy[b]
      /\ DOMAIN C = {} => C = NoFiles
  BY DEF NoFiles
<1> HIDE DEF P, C
<1>6. Files(P) /\ Files(C)
  BY <1>4, <1>5 DEF Files
<1>7. \A b \in run.listed \ DOMAIN P : b \in DOMAIN C /\ C[b] = log[b]
  <2> TAKE b \in run.listed \ DOMAIN P
  <2>1. b # Max(run.listed) /\ b \in DOMAIN copy /\ Bytes(copy[b]) = Bytes(log[b]) /\ b \in DOMAIN log
    BY <1>4, <1>5 DEF Reused
  <2>2. Max(run.listed) \in run.listed /\ b <= Max(run.listed)
    <3> DEFINE k == MaxPosition + 1
    <3>1. k \in Nat /\ run.listed \in SUBSET Nat /\ \A x \in run.listed : x <= k
      BY <1>4, Bounds DEF Files
    <3> HIDE DEF k
    <3>2. QED BY <3>1, MaxIs
  <2>3. ~Final(log, b)
    <3>1. Max(run.listed) \in DOMAIN log /\ Max(run.listed) \in Nat /\ b \in Nat
      BY <1>4, <2>1, <2>2 DEF Files
    <3>2. QED BY <2>1, <2>2, <3>1 DEF Final
  <2>4. copy[b] = log[b]
    BY <1>4, <2>1, <2>3, ReusedIs
  <2>5. QED BY <1>5, <2>1, <2>4
<1>8. \A b \in run.listed : Snap(log[b], b, run.listed, log)
  <2> TAKE b \in run.listed
  <2>1. Len(log[b]) \in Nat
    BY <1>4 DEF Files
  <2>2. QED BY <2>1 DEF Snap
<1>9. Copying'
  <2>1. /\ DOMAIN C \subseteq run.listed /\ DOMAIN P \subseteq run.listed
        /\ \A b \in DOMAIN P : Snap(P[b], b, run.listed, log)
        /\ \A b \in run.listed \ DOMAIN P : b \in DOMAIN C /\ Snap(C[b], b, run.listed, log)
    BY <1>5, <1>7, <1>8
  <2>2. run'.plan = P /\ copy' = C /\ run'.listed = run.listed /\ log' = log
    BY <1>1, <1>2
  <2>3. QED BY <1>2, <1>4, <2>1, <2>2 DEF Copying
<1>10. Matches(copy, log)'
  <2>1. Matches(C, log)
    BY <1>4, <1>5 DEF Matches
  <2>2. QED BY <1>1, <2>1
<1>11. SourceTrue' /\ Done'
  BY <1>1, <1>3, SourceStays DEF Backed, Typed, Serving, Done
<1>12. Staging'
  BY <1>2 DEF Staging
<1>13. QED BY <1>9, <1>10, <1>11, <1>12 DEF Backed

LEMMA CopyBacked == ASSUME Backed, Typed', CopyFile PROVE Backed'
<1>1. /\ run.pc = "copy"
      /\ UNCHANGED <<log, db, copyDb, staged, manifest, models, tables, lock, erased,
                     carried, served, serves>>
  BY DEF CopyFile, source, derived, history, counts
<1>2. manifest = "partial" /\ lock = "backup" /\ IsRun
  BY <1>1 DEF Backed, Typed, Inv, Alone
<1>3. /\ Files(log) /\ Files(copy) /\ Files(run.plan) /\ Contiguous(log) /\ Matches(copy, log)
      /\ Initial(run.listed, log) /\ run.listed \subseteq DOMAIN log
      /\ DOMAIN copy \subseteq run.listed /\ DOMAIN run.plan \subseteq run.listed
      /\ \A b \in DOMAIN run.plan : Snap(run.plan[b], b, run.listed, log)
      /\ \A b \in run.listed \ DOMAIN run.plan :
           b \in DOMAIN copy /\ Snap(copy[b], b, run.listed, log)
  BY <1>1 DEF Backed, Typed, Directories, SourceTrue, Copying
<1>4. SourceTrue' /\ Done'
  BY <1>1, <1>2, SourceStays DEF Backed, Typed, Serving, Done
<1>5. CASE DOMAIN run.plan = {}
  <2>1. Go("snapshot") /\ copy' = copy
    BY <1>5 DEF CopyFile
  <2>2. /\ run'.pc = "snapshot" /\ run'.before = run.before /\ run'.gone = run.gone
        /\ run'.listed = run.listed /\ run'.plan = run.plan
    BY <1>2, <2>1, RunStep
  <2>3. Taken(copy, log)
    <3>1. DOMAIN copy = run.listed
      BY <1>3, <1>5
    <3>2. QED BY <1>3, <1>5, <3>1 DEF Taken
  <2>5. Copying' /\ Staging' /\ Matches(copy, log)'
    BY <1>1, <1>3, <2>1, <2>2, <2>3 DEF Copying, Staging
  <2>6. QED BY <1>4, <2>5 DEF Backed
<1>6. CASE DOMAIN run.plan # {}
  <2> DEFINE b == Min(DOMAIN run.plan)
             C == [c \in DOMAIN copy \cup {b} |-> IF c = b THEN run.plan[b] ELSE copy[c]]
             P == [c \in DOMAIN run.plan \ {b} |-> run.plan[c]]
  <2>1. copy' = C /\ run' = [run EXCEPT !.plan = P]
    BY <1>6 DEF CopyFile
  <2>2. /\ run'.pc = "copy" /\ run'.before = run.before /\ run'.gone = run.gone
        /\ run'.listed = run.listed /\ run'.plan = P
    BY <1>1, <1>2, <2>1 DEF IsRun
  <2>3. b \in DOMAIN run.plan
    BY <1>3, <1>6, MinIs DEF Files
  <2>4. /\ DOMAIN C = DOMAIN copy \cup {b} /\ C[b] = run.plan[b]
        /\ \A c \in DOMAIN copy : c # b => C[c] = copy[c]
        /\ DOMAIN P = DOMAIN run.plan \ {b} /\ \A c \in DOMAIN P : P[c] = run.plan[c]
    OBVIOUS
  <2> HIDE DEF b, C, P
  <2>5. Files(C) /\ Files(P)
    BY <1>3, <2>3, <2>4 DEF Files
  <2>6. /\ DOMAIN C \subseteq run.listed /\ DOMAIN P \subseteq run.listed
        /\ \A c \in DOMAIN P : Snap(P[c], c, run.listed, log)
        /\ \A c \in run.listed \ DOMAIN P : c \in DOMAIN C /\ Snap(C[c], c, run.listed, log)
    <3>1. DOMAIN C \subseteq run.listed /\ DOMAIN P \subseteq run.listed
      BY <1>3, <2>3, <2>4
    <3>2. \A c \in DOMAIN P : Snap(P[c], c, run.listed, log)
      BY <1>3, <2>4
    <3>3. \A c \in run.listed \ DOMAIN P : c \in DOMAIN C /\ Snap(C[c], c, run.listed, log)
      <4> TAKE c \in run.listed \ DOMAIN P
      <4>1. CASE c = b
        BY <1>3, <2>3, <2>4, <4>1
      <4>2. CASE c # b
        BY <1>3, <2>4, <4>2
      <4>3. QED BY <4>1, <4>2
    <3>4. QED BY <3>1, <3>2, <3>3
  <2>7. Copying'
    <3>1. log' = log /\ copy' = C
      BY <1>1, <2>1
    <3>2. QED BY <1>3, <2>2, <2>6, <3>1 DEF Copying
  <2>8. Matches(C, log)
    <3>1. ASSUME NEW c \in DOMAIN C, NEW i \in DOMAIN C[c], C[c][i].by = Source
          PROVE  Reaches(log, c + i - 1) /\ EventAt(log, c + i - 1) = C[c][i]
      <4>1. CASE c = b
        <5>1. b \in DOMAIN log /\ run.plan[b] \in Seq(Event) /\ Snap(run.plan[b], b, run.listed, log)
          BY <1>3, <2>3 DEF Files
        <5>2. \A j \in DOMAIN run.plan[b] :
                Reaches(log, b + j - 1) /\ EventAt(log, b + j - 1) = run.plan[b][j]
          BY <1>3, <5>1, SnapStands
        <5>3. QED BY <2>4, <3>1, <4>1, <5>2
      <4>2. CASE c # b
        BY <1>3, <2>4, <3>1, <4>2 DEF Matches
      <4>3. QED BY <4>1, <4>2
    <3>2. QED BY <3>1 DEF Matches
  <2>10. Staging'
    BY <2>2 DEF Staging
  <2>11. Matches(copy, log)'
    BY <1>1, <2>1, <2>8
  <2>12. QED BY <1>4, <2>7, <2>10, <2>11 DEF Backed
<1>7. QED BY <1>5, <1>6

LEMMA SnapshotBacked == ASSUME Backed, Typed', Snapshot PROVE Backed'
<1>1. /\ run.pc = "snapshot" /\ Go("clamp") /\ staged' = db
      /\ UNCHANGED <<log, db, copy, copyDb, manifest, models, tables, lock, erased,
                     carried, served, serves>>
  BY DEF Snapshot, source, derived, history, counts
<1>2. manifest = "partial" /\ lock = "backup" /\ IsRun
  BY <1>1 DEF Backed, Typed, Inv, Alone
<1>3. /\ run'.pc = "clamp" /\ run'.before = run.before /\ run'.gone = run.gone
      /\ run'.listed = run.listed /\ run'.plan = run.plan
  BY <1>1, <1>2, RunStep
<1>4. /\ Files(log) /\ Files(copy) /\ Contiguous(log) /\ Taken(copy, log)
      /\ db \in Database /\ RowsOf(db, log) /\ Covered(Known(db), log)
  BY <1>1 DEF Backed, Typed, Directories, SourceTrue, Copying
<1>5. SourceTrue' /\ Done' /\ Matches(copy, log)'
  BY <1>1, <1>2, SourceStays DEF Backed, Typed, Serving, Done
<1>6. Covered(Known(db), copy)
  BY <1>4, TakenIs
<1>7. Known(staged)' = Known(db)
  BY <1>1 DEF Known
<1>8. Copying'
  BY <1>1, <1>3, <1>4 DEF Copying
<1>9. Staging'
  BY <1>1, <1>3, <1>4, <1>6, <1>7 DEF Staging
<1>10. QED BY <1>5, <1>8, <1>9 DEF Backed

LEMMA ClampBacked == ASSUME Backed, Typed', Clamp PROVE Backed'
<1>1. /\ run.pc = "clamp"
      /\ UNCHANGED <<log, db, copy, copyDb, manifest, tables, erased, carried, served, serves>>
  BY DEF Clamp, source, history, counts
<1>2. manifest = "partial" /\ lock = "backup" /\ IsRun
  BY <1>1 DEF Backed, Typed, Inv, Alone
<1>3. /\ Files(log) /\ Files(copy) /\ Contiguous(log) /\ Taken(copy, log)
      /\ staged \in Database /\ RowsOf(staged, log) /\ Covered(Known(staged), copy)
  BY <1>1 DEF Backed, Typed, Directories, SourceTrue, Copying, Staging
<1>4. SourceTrue' /\ Done' /\ Matches(copy, log)'
  BY <1>1, <1>2, SourceStays DEF Backed, Typed, Done
<1>5. CASE LogHead(copy) >= run.before
  <2>1. /\ Go("install") /\ lock' = lock
        /\ models' = <<>> /\ staged' = Lowered(staged, LogHead(copy))
    BY <1>5 DEF Clamp
  <2>2. /\ run'.pc = "install" /\ run'.before = run.before /\ run'.gone = run.gone
        /\ run'.listed = run.listed /\ run'.plan = run.plan
    BY <1>2, <2>1, RunStep
  <2>3. staged' \in Database /\ RowsOf(staged', copy) /\ staged'.keys = staged.keys
    BY <1>1, <1>3, <2>1, HeadIs, LoweredIs, LoweredFields
  <2>4. Good(staged)'
    BY <1>1, <1>3, <2>3 DEF Good, Known
  <2>6. Copying'
    BY <1>1, <1>2, <1>3, <2>1, <2>2 DEF Copying, Serving
  <2>7. Staging'
    BY <2>1, <2>2, <2>3, <2>4 DEF Staging
  <2>8. QED BY <1>4, <2>6, <2>7 DEF Backed
<1>6. CASE ~(LogHead(copy) >= run.before)
  <2>1. run' = Idle /\ lock' = "free" /\ models' = models /\ staged' = staged
    BY <1>6 DEF Clamp
  <2>2. /\ run'.pc = "idle" /\ run'.before = 0 /\ run'.gone = {} /\ run'.listed = {}
        /\ run'.plan = NoFiles
    BY <2>1, IdleRun
  <2>4. Copying' /\ Staging'
    BY <2>1, <2>2 DEF Copying, Staging, Serving
  <2>5. QED BY <1>4, <2>4 DEF Backed
<1>7. QED BY <1>5, <1>6

LEMMA InstallBacked == ASSUME Backed, Typed', Install PROVE Backed'
<1>1. /\ run.pc = "install" /\ Go("finish") /\ copyDb' = staged /\ staged' = NoDatabase
      /\ UNCHANGED <<log, db, copy, manifest, models, tables, lock, erased, carried,
                     served, serves>>
  BY DEF Install, source, derived, history, counts
<1>2. manifest = "partial" /\ lock = "backup" /\ IsRun
  BY <1>1 DEF Backed, Typed, Inv, Alone
<1>3. /\ run'.pc = "finish" /\ run'.before = run.before /\ run'.gone = run.gone
      /\ run'.listed = run.listed /\ run'.plan = run.plan
  BY <1>1, <1>2, RunStep
<1>4. staged \in Database /\ Good(staged) /\ models = <<>> /\ Taken(copy, log)
  BY <1>1 DEF Backed, Typed, Staging, Copying
<1>5. SourceTrue' /\ Done' /\ Matches(copy, log)'
  BY <1>1, <1>2, SourceStays DEF Backed, Typed, Serving, Done
<1>6. Copying'
  BY <1>1, <1>3, <1>4 DEF Copying
<1>7. Good(copyDb)'
  BY <1>1, <1>4 DEF Good, Known
<1>8. Staging'
  BY <1>1, <1>3, <1>4, <1>7 DEF Staging
<1>9. QED BY <1>5, <1>6, <1>8 DEF Backed

LEMMA FinishBacked == ASSUME Backed, Typed', Finish PROVE Backed'
<1>1. /\ run.pc = "finish" /\ manifest' = "complete" /\ lock' = "free" /\ run' = Idle
      /\ carried' = run.gone /\ served' = FALSE
      /\ UNCHANGED <<log, db, copy, copyDb, staged, models, tables, erased, serves>>
  BY DEF Finish, source, derived, counts
<1>2. /\ Files(log) /\ Files(copy) /\ Contiguous(log) /\ Taken(copy, log)
      /\ Good(copyDb) /\ models = <<>>
  BY <1>1 DEF Backed, Typed, Directories, SourceTrue, Copying, Staging
<1>3. Contiguous(copy)
  BY <1>2, TakenIs
<1>4. NextPosition(copy) \in 1..(MaxPosition + 1)
  BY <1>2, <1>3, ActiveIs DEF Contiguous
<1>5. /\ run'.pc = "idle" /\ run'.before = 0 /\ run'.gone = {} /\ run'.listed = {}
      /\ run'.plan = NoFiles
  BY <1>1, IdleRun
<1>6. Done'
  <2>1. Contiguous(copy') /\ Good(copyDb)' /\ Taken(copy', log')
    BY <1>1, <1>2, <1>3 DEF Good, Known
  <2>2. Len(models') < NextPosition(copy') /\ \A p \in 1..Len(models') : models'[p] = EventAt(copy', p)
    <3>1. Len(models') = 0
      BY <1>1, <1>2
    <3>2. QED BY <1>1, <1>4, <3>1, Bounds
  <2>3. QED BY <2>1, <2>2 DEF Done
<1>7. SourceTrue' /\ Matches(copy, log)' /\ Copying' /\ Staging'
  BY <1>1, <1>5, SourceStays DEF Backed, Typed, Serving, Copying, Staging
<1>8. QED BY <1>6, <1>7 DEF Backed

LEMMA CrashBacked == ASSUME Backed, Typed', Crash PROVE Backed'
<1>1. /\ lock = "backup" /\ lock' = "free" /\ run' = Idle
      /\ UNCHANGED <<log, db, copy, copyDb, staged, manifest, models, tables, erased,
                     carried, served, serves>>
  BY DEF Crash, source, target, history, counts
<1>2. manifest = "partial"
  BY <1>1 DEF Backed, Typed, Inv, Alone, Directories
<1>3. /\ run'.pc = "idle" /\ run'.before = 0 /\ run'.gone = {} /\ run'.listed = {}
      /\ run'.plan = NoFiles
  BY <1>1, IdleRun
<1>4. SourceTrue' /\ Matches(copy, log)' /\ Copying' /\ Staging' /\ Done'
  BY <1>1, <1>2, <1>3, SourceStays DEF Backed, Typed, Serving, Copying, Staging, Done
<1>5. QED BY <1>4 DEF Backed

\* No rows are true beside NoDatabase: it claims a mark no row reaches.
LEMMA NoDatabaseIs == ASSUME NEW f PROVE ~RowsOf(NoDatabase, f)
<1>1. NoDatabase.mark = MaxPosition + 1 /\ NoDatabase.terminal = {}
  BY DEF NoDatabase
<1>2. MaxPosition + 1 \in 1..NoDatabase.mark
  BY <1>1, Bounds
<1>3. QED BY <1>1, <1>2 DEF RowsOf

LEMMA ServeBacked == ASSUME Backed, Typed', Serve PROVE Backed'
<1>1. /\ lock = "free" /\ serves < MaxServes /\ copy # NoFiles
      /\ lock' = "server" /\ serves' = serves + 1 /\ served' = TRUE
      /\ copyDb' = IF copyDb = NoDatabase THEN Fresh ELSE copyDb
      /\ UNCHANGED <<log, db, copy, staged, manifest, models, tables, run, erased, carried>>
  BY DEF Serve, source, derived
<1>2. run.pc = "idle" /\ serves \in 0..MaxServes /\ DOMAIN copy # {}
  BY <1>1, BackupAssumption DEF Backed, Typed, Inv, Alone, Directories
<1>3. copyDb' \in Database
  BY <1>1, FreshIs DEF Backed, Typed, Directories
<1>4. serves' \in 0..MaxServes /\ serves' # 0
  BY <1>1, <1>2, BackupAssumption
<1>5. Done'
  <2> SUFFICES ASSUME manifest = "complete" PROVE Done'
    BY <1>1 DEF Done
  <2>1. copyDb # NoDatabase
    BY NoDatabaseIs DEF Backed, Typed, Done, Good
  <2>2. copyDb' = copyDb
    BY <1>1, <2>1
  <2>3. Good(copyDb)'
    BY <1>1, <2>2 DEF Backed, Typed, Done, Good, Known
  <2>4. QED BY <1>1, <2>3 DEF Backed, Typed, Done
<1>6. SourceTrue' /\ Matches(copy, log)' /\ Copying' /\ Staging'
  BY <1>1, <1>2, SourceStays DEF Backed, Typed, Copying, Staging
<1>7. QED BY <1>5, <1>6 DEF Backed

LEMMA StopBacked == ASSUME Backed, Typed', StopServing PROVE Backed'
<1>1. /\ lock = "server" /\ lock' = "free"
      /\ UNCHANGED <<log, db, copy, copyDb, staged, manifest, models, tables, run, erased,
                     carried, served, serves>>
  BY DEF StopServing, source, target, history, counts
<1>2. run.pc = "idle"
  BY <1>1 DEF Backed, Typed, Inv, Alone
<1>3. SourceTrue' /\ Matches(copy, log)' /\ Copying' /\ Staging'
  BY <1>1, <1>2, SourceStays DEF Backed, Typed, Directories, Serving, Copying, Staging
<1>4. Done'
  BY <1>1 DEF Backed, Typed, Done, Good, Known
<1>5. QED BY <1>3, <1>4 DEF Backed

\* A restored server's step on its database alone.
LEMMA RestoredStateBacked ==
    ASSUME Backed, Typed', lock = "server",
           UNCHANGED <<source, derived, copy, staged, manifest, lock, run, history, counts>>,
           copyDb' \in Database, copyDb'.keys = copyDb.keys,
           Contiguous(copy) /\ RowsOf(copyDb, copy) => RowsOf(copyDb', copy)
    PROVE  Backed'
<1>1. UNCHANGED <<log, db, models, tables, copy, staged, manifest, lock, run, erased, carried,
                  served, serves>>
  BY DEF source, derived, history, counts
<1>2. run.pc = "idle"
  BY DEF Backed, Typed, Inv, Alone
<1>3. SourceTrue' /\ Matches(copy, log)' /\ Copying' /\ Staging'
  BY <1>1, <1>2, SourceStays DEF Backed, Typed, Directories, Serving, Copying, Staging
<1>4. Known(copyDb)' = Known(copyDb)
  BY <1>1 DEF Known
<1>5. manifest = "complete" => Good(copyDb)'
  BY <1>1, <1>4 DEF Backed, Typed, Done, Good
<1>6. Done'
  BY <1>1, <1>5 DEF Backed, Typed, Done
<1>7. QED BY <1>3, <1>6 DEF Backed

LEMMA RestoredEffectBacked ==
    ASSUME Backed, Typed', (\E p \in Positions : RunRestored(p)) \/ AdvanceRestored
    PROVE  Backed'
<1>1. /\ lock = "server"
      /\ UNCHANGED <<source, derived, copy, staged, manifest, lock, run, history, counts>>
  BY DEF RunRestored, AdvanceRestored
<1>2. copyDb \in Database /\ Files(copy) /\ IsDatabase(copyDb)
  BY <1>1 DEF Backed, Typed, Directories, Serving, Inv, Shapes
<1>3. /\ copyDb' \in Database /\ copyDb'.keys = copyDb.keys
      /\ Contiguous(copy) /\ RowsOf(copyDb, copy) => RowsOf(copyDb', copy)
  <2>1. CASE \E p \in Positions : RunRestored(p)
    <3>1. PICK p \in Positions : p <= LogHead(copy) /\ copyDb' = Settled(copyDb, copy, p)
      BY <2>1 DEF RunRestored
    <3>2. p \in 1..LogHead(copy)
      BY <1>2, <3>1, HeadIs DEF Positions
    <3>3. copyDb'.keys = copyDb.keys
      BY <1>2, <3>1, SettledKeys
    <3>4. QED BY <1>2, <3>1, <3>2, <3>3, SettledIs
  <2>2. CASE AdvanceRestored
    <3>1. Follows(copyDb) /\ copyDb' = [copyDb EXCEPT !.mark = @ + 1]
      BY <2>2 DEF AdvanceRestored
    <3>2. copyDb'.keys = copyDb.keys
      BY <1>2, <3>1 DEF Database
    <3>3. QED BY <1>2, <3>1, <3>2, FollowsIs
  <2>3. QED BY <2>1, <2>2
<1>4. QED BY <1>1, <1>3, RestoredStateBacked

LEMMA AppendRestoredBacked == ASSUME Backed, Typed', AppendRestored PROVE Backed'
<1> DEFINE e == [by |-> serves, secret |-> NoSecret]
<1>1. /\ lock = "server" /\ NextPosition(copy) <= MaxPosition /\ copy' = Appended(copy, e)
      /\ UNCHANGED <<log, db, models, tables, copyDb, staged, manifest, lock, run, erased,
                     carried, served, serves>>
  BY DEF AppendRestored, source, derived, history, counts
<1>2. run.pc = "idle" /\ served /\ DOMAIN copy # {} /\ Files(copy) /\ serves \in 1..MaxServes
  BY <1>1, BackupAssumption DEF Backed, Typed, Inv, Alone, Serving, Directories
<1>3. e \in Event /\ e.by # Source /\ e.secret = NoSecret
  BY <1>2, BackupAssumption DEF Event, Writers, Source
<1> HIDE DEF e
<1>4. Extends(copy, copy', e)
  BY <1>1, <1>2, <1>3, AppendedExtends
<1>5. Files(copy') /\ DOMAIN copy' # {}
  BY <1>2, <1>4 DEF Extends
<1>6. Matches(copy', log)
  <2>1. ASSUME NEW b \in DOMAIN copy', NEW i \in DOMAIN copy'[b], copy'[b][i].by = Source
        PROVE  b \in DOMAIN copy /\ i \in DOMAIN copy[b] /\ copy'[b][i] = copy[b][i]
    BY <1>3, <1>4, <2>1 DEF Extends
  <2>2. Matches(copy, log)
    BY DEF Backed, Typed
  <2>3. QED BY <2>1, <2>2 DEF Matches
<1>7. Done'
  <2> SUFFICES ASSUME manifest = "complete" PROVE Done'
    BY <1>1 DEF Done
  <2>1. /\ Contiguous(copy) /\ RowsOf(copyDb, copy) /\ Covered(Known(copyDb), copy)
        /\ Len(models) < NextPosition(copy) /\ \A p \in 1..Len(models) : models[p] = EventAt(copy, p)
    BY DEF Backed, Typed, Done, Good
  <2>2. Contiguous(copy') /\ RowsOf(copyDb, copy')
    BY <1>2, <1>4, <2>1, ExtendsAt, RowsExtend
  <2>3. Covered(Known(copyDb), copy')
    <3>1. e.secret \in Known(copyDb)
      BY <1>3 DEF Known
    <3>2. QED BY <1>4, <2>1, <3>1, CoveredExtends
  <2>4. Good(copyDb)'
    BY <1>1, <2>2, <2>3 DEF Good, Known
  <2>5. Len(models) \in Nat /\ NextPosition(copy) \in Nat /\ NextPosition(copy') = NextPosition(copy) + 1
    <3>1. Len(models) \in Nat
      BY DEF Backed, Typed, Directories
    <3>2. NextPosition(copy) \in Nat
      BY <1>2, ActiveIs, Bounds
    <3>3. NextPosition(copy') = NextPosition(copy) + 1
      BY <1>4 DEF Extends
    <3>4. QED BY <3>1, <3>2, <3>3
  <2>6. ASSUME NEW p \in 1..Len(models) PROVE models[p] = EventAt(copy', p)
    <3>1. Reaches(copy, p)
      BY <2>1, <2>5 DEF Reaches
    <3>2. QED BY <1>2, <1>4, <2>1, <3>1, ExtendsAt
  <2>7. Len(models) < NextPosition(copy')
    BY <2>1, <2>5
  <2>8. QED BY <1>1, <1>2, <2>2, <2>4, <2>6, <2>7 DEF Done
<1>8. Matches(copy, log)' /\ SourceTrue' /\ Copying' /\ Staging'
  BY <1>1, <1>2, <1>6, SourceStays DEF Backed, Typed, Copying, Staging
<1>9. QED BY <1>7, <1>8 DEF Backed

LEMMA FollowBacked == ASSUME Backed, Typed', Follow PROVE Backed'
<1>1. /\ lock = "server" /\ models' = Followed(models) /\ tables' = Followed(tables)
      /\ UNCHANGED <<log, db, copy, copyDb, staged, manifest, lock, run, erased, carried,
                     served, serves>>
  BY DEF Follow, source, history, counts
<1>2. run.pc = "idle" /\ Files(copy) /\ models \in Seq(Event) /\ tables \in Seq(Event)
  BY <1>1 DEF Backed, Typed, Inv, Alone, Directories
<1>3. models' \in Seq(Event) /\ tables' \in Seq(Event)
  BY <1>1, <1>2, FollowedIs
<1>4. Done'
  <2> SUFFICES ASSUME manifest = "complete" PROVE Done'
    BY <1>1 DEF Done
  <2>1. /\ Len(models') < NextPosition(copy)
        /\ \A p \in 1..Len(models') : models'[p] = EventAt(copy, p)
    BY <1>1, <1>2, FollowedIs DEF Backed, Typed, Done
  <2>2. Good(copyDb)'
    BY <1>1 DEF Backed, Typed, Done, Good, Known
  <2>3. QED BY <1>1, <2>1, <2>2 DEF Backed, Typed, Done
<1>5. SourceTrue' /\ Matches(copy, log)' /\ Copying' /\ Staging'
  BY <1>1, <1>2, SourceStays DEF Backed, Typed, Serving, Copying, Staging
<1>6. QED BY <1>4, <1>5 DEF Backed

LEMMA StutterBacked == ASSUME Backed, Typed', UNCHANGED vars PROVE Backed'
BY DEF vars, Backed, SourceTrue, Known, Copying, Staging, Done, Good

LEMMA NextBacked == ASSUME ExtentsTell, Backed, [Next]_vars PROVE Backed'
<1>1. Typed'
  BY NextTyped DEF Backed, Typed
<1>2. CASE \E s \in Secrets : Mint(s) \/ EraseKey(s)
  BY <1>1, <1>2, MintBacked, EraseBacked
<1>3. CASE \E s \in Secrets \cup {NoSecret} : AppendEvent(s)
  BY <1>1, <1>3, AppendBacked
<1>4. CASE (\E p \in Positions : RunEffect(p)) \/ AdvanceMark
  BY <1>1, <1>4, EffectBacked
<1>5. CASE (\E p \in Positions : RunRestored(p)) \/ AdvanceRestored
  BY <1>1, <1>5, RestoredEffectBacked
<1>6. CASE Begin \/ List \/ Plan \/ CopyFile
  BY <1>1, <1>6, BeginBacked, ListBacked, PlanBacked, CopyBacked
<1>7. CASE Snapshot \/ Clamp \/ Install \/ Finish \/ Crash
  BY <1>1, <1>7, SnapshotBacked, ClampBacked, InstallBacked, FinishBacked, CrashBacked
<1>8. CASE Serve \/ AppendRestored \/ Follow \/ StopServing
  BY <1>1, <1>8, ServeBacked, AppendRestoredBacked, FollowBacked, StopBacked
<1>9. CASE UNCHANGED vars
  BY <1>1, <1>9, StutterBacked
<1>10. QED BY <1>2, <1>3, <1>4, <1>5, <1>6, <1>7, <1>8, <1>9 DEF Next

LEMMA AlwaysBacked == ASSUME ExtentsTell PROVE Spec => []Backed
<1>1. Backed /\ [Next]_vars => Backed'
  BY NextBacked
<1>2. QED BY <1>1, InitBacked, PTL DEF Spec

-----------------------------------------------------------------------------
(* What it shows.                                                          *)

\* A backup that says it is complete, and that nothing was served from since, holds the
\* source's log up to some head and nothing past it: copy_log takes no part of a segment
\* it could not tell from one a restored server wrote, and copies the unsealed one last.
THEOREM CopiesArePrefixes == ASSUME ExtentsTell PROVE Spec => []CopyIsPrefix
<1>1. ASSUME Backed, manifest = "complete", ~served PROVE CopyIsPrefix
  <2>1. Files(log) /\ Files(copy) /\ Contiguous(log) /\ Contiguous(copy) /\ Taken(copy, log)
    BY <1>1 DEF Backed, Typed, Directories, SourceTrue, Done
  <2>2. /\ LogHead(copy) = NextPosition(copy) - 1 /\ LogHead(log) = NextPosition(log) - 1
        /\ NextPosition(copy) \in Nat /\ NextPosition(log) \in Nat
        /\ NextPosition(copy) <= NextPosition(log)
    BY <2>1, HeadOf, TakenIs, ActiveIs, Bounds DEF Contiguous
  <2>3. LogHead(copy) <= LogHead(log)
    BY <2>2
  <2>4. ASSUME NEW b \in DOMAIN copy PROVE b + Len(copy[b]) - 1 <= LogHead(copy)
    <3>1. b + Len(copy[b]) <= NextPosition(copy) /\ b \in Nat /\ Len(copy[b]) \in Nat
      BY <2>1, Within DEF Files
    <3>2. QED BY <2>2, <3>1
  <2>5. \A p \in 1..LogHead(copy) : EventAt(copy, p) = EventAt(log, p)
    BY <2>1, HeadOf, TakenIs
  <2>6. QED BY <2>3, <2>4, <2>5 DEF CopyIsPrefix
<1>2. Backed => CopyIsPrefix
  BY <1>1 DEF CopyIsPrefix
<1>3. QED BY <1>2, AlwaysBacked, PTL

\* The database, the read models and the log that a complete target holds belong together,
\* before a server starts on it and while one appends to it and runs its effects: every
\* sealed event has its key unless it was erased at the source, no row or mark is for an
\* event other than the one there (clamp_to_log), and the read models are of this log.
THEOREM StateIsTrue == ASSUME ExtentsTell PROVE Spec => []StateFollowsLog
<1>1. ASSUME Backed, manifest = "complete" PROVE StateFollowsLog
  <2>1. /\ Files(copy) /\ Contiguous(copy) /\ RowsOf(copyDb, copy)
        /\ Covered(Known(copyDb), copy) /\ models \in Seq(Event)
        /\ Len(models) < NextPosition(copy) /\ \A p \in 1..Len(models) : models[p] = EventAt(copy, p)
    BY <1>1 DEF Backed, Typed, Directories, Done, Good
  <2>2. /\ LogHead(copy) = NextPosition(copy) - 1 /\ NextPosition(copy) \in Nat
        /\ LogHead(copy) \in Nat /\ \A p : Reaches(copy, p) <=> p \in 1..LogHead(copy)
    BY <2>1, HeadOf, HeadIs, ActiveIs, Bounds DEF Contiguous
  <2>3. KeysCover
    <3>1. ASSUME NEW p \in 1..LogHead(copy) PROVE EventAt(copy, p).secret \in Known(copyDb)
      <4>1. PICK b \in DOMAIN copy : Holds(copy, b, p) /\ EventAt(copy, p) = copy[b][p - b + 1]
        BY <2>1, <2>2, HeadIs, PresentEvent
      <4>2. p - b + 1 \in DOMAIN copy[b]
        BY <2>1, <2>2, <4>1 DEF Files, Holds
      <4>3. QED BY <2>1, <4>1, <4>2 DEF Covered
    <3>2. QED BY <3>1 DEF KeysCover, Known
  <2>4. \A r \in copyDb.terminal : r[1] <= LogHead(copy) /\ EventAt(copy, r[1]).by = r[2]
    BY <2>1, <2>2 DEF RowsOf
  <2>5. IsPrefix(models, EventsOfCopy)
    <3>1. EventsOfCopy \in Seq(Event) /\ Len(EventsOfCopy) = LogHead(copy)
      <4>1. \A p \in 1..LogHead(copy) : EventAt(copy, p) \in Event
        BY <2>1, <2>2, HeadIs, PresentEvent
      <4>2. QED BY <2>2, <4>1 DEF EventsOfCopy
    <3>2. Len(models) \in Nat /\ Len(models) <= LogHead(copy)
      BY <2>1, <2>2
    <3>3. \A p \in 1..Len(models) : models[p] = EventsOfCopy[p]
      BY <2>1, <2>2, <3>2 DEF EventsOfCopy
    <3>4. QED BY <2>1, <3>1, <3>2, <3>3 DEF IsPrefix
  <2>6. QED BY <2>1, <2>3, <2>4, <2>5 DEF StateFollowsLog, RowsTrue, RowsOf
<1>2. Backed => StateFollowsLog
  BY <1>1 DEF StateFollowsLog, KeysCover, RowsTrue
<1>3. QED BY <1>2, AlwaysBacked, PTL

=============================================================================
