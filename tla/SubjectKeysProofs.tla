-------------------------- MODULE SubjectKeysProofs --------------------------
(***************************************************************************)
(* Proofs about SubjectKeys for every set of subjects, writers and chains  *)
(* and every bound: its type invariant, and, when the live process has     *)
(* already restarted under the new master, that what an erasure shredded   *)
(* never reads again and that nothing else stops reading.                  *)
(*                                                                         *)
(* The second rests on three facts.  A secret lives in one row and, once   *)
(* erased, in none (Lives).  Every compare-and-set names the row whose     *)
(* secret the process holds (Held, Snapped).  And what a readable row is   *)
(* kin to is held by the rows it hangs from (KinWithin), which is stated   *)
(* for chains that may be broken at some rows, because an adoption breaks  *)
(* one and mends it again.                                                 *)
(*                                                                         *)
(* The third is about the secrets in no row.  One is Gone when something   *)
(* it hangs from was erased, or was moved by an adoption that did not read *)
(* it back, and Kept when it is Gone or all it hangs from is in rows.  A   *)
(* row that cannot be opened is Gone, because the walk that looked stayed  *)
(* on the way up what the row hangs from (Leads), so replacing it loses    *)
(* nothing more.                                                           *)
(***************************************************************************)
EXTENDS SubjectKeysSafety, TLAPS, FiniteSetTheorems, WellFoundedInduction

\* The tuples of variables are shorthand.
USE DEF tables, history, counts

-----------------------------------------------------------------------------
(* Rows.                                                                   *)

\* A row whose numbers have been drawn, and that is a root or hangs from a subject.
RowOK(r, N) ==
    /\ r \in Row
    /\ r.secret <= N /\ r.bytes <= N /\ r.print <= N
    /\ r.secret = 0 => r.bytes = 0 /\ r.master = NoMaster
    /\ r.secret # 0 => r.bytes # 0 /\ (r.master # NoMaster \/ r.parent \in Subjects)
    /\ r.master # NoMaster => r.parent = NoSubject

LEMMA NoRowFields ==
    /\ NoRow.secret = 0 /\ NoRow.bytes = 0 /\ NoRow.master = NoMaster /\ NoRow.print = 0
    /\ \A N \in Nat : RowOK(NoRow, N)
BY DEF NoRow, RowOK, Row

LEMMA RootFields ==
    ASSUME NEW s \in Nat, NEW b \in Nat, NEW m \in Masters
    PROVE  /\ Root(s, b, m).secret = s /\ Root(s, b, m).bytes = b
           /\ Root(s, b, m).master = m /\ Root(s, b, m).print = 0
           /\ IsRoot(Root(s, b, m))
           /\ \A N \in Nat : s <= N /\ b <= N /\ s # 0 /\ b # 0 => RowOK(Root(s, b, m), N)
<1> DEFINE r == [secret |-> s, bytes |-> b, master |-> m, parent |-> NoSubject, print |-> 0]
<1>1. Root(s, b, m) = r
  BY DEF Root, NoRow
<1>2. m # NoMaster
  BY SubjectAssumption
<1>3. r \in Row
  BY DEF Row
<1>4. QED BY <1>1, <1>2, <1>3 DEF RowOK, IsRoot

LEMMA ChildFields ==
    ASSUME NEW s \in Nat, NEW b \in Nat, NEW n \in Subjects, NEW f \in Nat
    PROVE  /\ Child(s, b, n, f).secret = s /\ Child(s, b, n, f).bytes = b
           /\ Child(s, b, n, f).master = NoMaster /\ Child(s, b, n, f).parent = n
           /\ Child(s, b, n, f).print = f /\ ~IsRoot(Child(s, b, n, f))
           /\ \A N \in Nat : s <= N /\ b <= N /\ f <= N /\ s # 0 /\ b # 0
                                => RowOK(Child(s, b, n, f), N)
BY SubjectAssumption DEF Child, NoRow, RowOK, Row, IsRoot

LEMMA RowNumbers ==
    ASSUME NEW r, NEW N \in Nat, RowOK(r, N), Present(r)
    PROVE  r.secret \in 1..N /\ r.bytes \in 1..N
BY DEF RowOK, Row, Present

\* Rows an adoption has moved.
MovedRows(N) == {r \in Row : r.secret \in 1..N /\ r.bytes \in 1..N}

LEMMA MovedGrows ==
    ASSUME NEW N \in Nat, NEW M \in Nat, N <= M PROVE MovedRows(N) \subseteq MovedRows(M)
BY DEF MovedRows

LEMMA RowGrows ==
    ASSUME NEW r, NEW N \in Nat, NEW M \in Nat, N <= M, RowOK(r, N)
    PROVE  RowOK(r, M)
BY DEF RowOK, Row

-----------------------------------------------------------------------------
(* Places.                                                                 *)

\* The row an adoption has moved is being read back, or put back.
Reading(m) == m.pc \in {"readback", "undo"} \/ (m.pc = "climb" /\ m.why = "readback")

\* What is in hand where it is used.
PlaceOK(p, m, N) ==
    /\ m \in Place /\ m.level <= Len(Chain[p])
    /\ m.hand <= N /\ m.secret <= N /\ RowOK(m.mine, N)
    /\ m.pc = "insert" /\ m.level < Len(Chain[p]) => m.hand # 0
    /\ m.pc \in {"seal", "move"} \/ Reading(m) => m.hand # 0
    /\ m.pc = "climb" => m.secret # 0 /\ m.up \in Subjects
    /\ p # Adopter => m.pc \notin {"move", "readback", "undo"} /\ m.why # "readback"
    /\ p = Adopter => m.pc # "seal"
    /\ m.pc \notin {"climb", "undo"} => m.why # "readback"

LEMMA Chains ==
    /\ Depth \in Nat /\ Depth >= 1 /\ MintAttempts \in Nat /\ MintAttempts >= 1
    /\ MaxNumbers \in Nat
    /\ \A p \in Processes : Len(Chain[p]) \in Levels
    /\ \A p \in Processes : \A i \in Levels : i <= Len(Chain[p]) => Chain[p][i] \in Subjects
    /\ Adopter \in Processes /\ Adoptee \in Subjects /\ Chain[Adopter][2] \in Subjects
BY ChainAssumption, BoundAssumption DEF Levels, Processes, Adoptee

LEMMA IdleOK ==
    ASSUME NEW p \in Processes, NEW N \in Nat
    PROVE  PlaceOK(p, Idle, N)
<1>1. Idle \in Place
  BY Chains, NoRowFields DEF Idle, Place, Stages, Levels, RowOK
<1>2. Len(Chain[p]) \in Levels
  BY Chains
<1>3. QED BY <1>1, <1>2, NoRowFields DEF Idle, PlaceOK, Reading, Levels

\* A bounded set of naturals that is not empty has a greatest member.
LEMMA Greatest ==
    ASSUME NEW S \in SUBSET Nat, S # {}, NEW b \in Nat, \A x \in S : x <= b
    PROVE  \E x \in S : \A y \in S : y <= x
<1> DEFINE T == {b - x : x \in S}
<1> DEFINE Less == OpToRel(<, Nat)
<1>0. \A x \in S : b - x \in Nat
  OBVIOUS
<1>1. T \subseteq Nat /\ T # {}
  <2>1. T \subseteq Nat
    BY <1>0
  <2>2. PICK x \in S : TRUE
    OBVIOUS
  <2>3. b - x \in T
    OBVIOUS
  <2>4. QED BY <2>1, <2>3
<1>2. IsWellFoundedOn(Less, Nat)
  BY NatLessThanWellFounded
<1>2a. \A x, y \in Nat : x < y => <<x, y>> \in Less
  BY DEF OpToRel
<1> HIDE DEF Less
<1>3. PICK t \in T : \A u \in T : ~(<<u, t>> \in Less)
  BY <1>1, <1>2, WFMin
<1>4. PICK x \in S : t = b - x
  BY <1>3
<1>5. ASSUME NEW y \in S PROVE y <= x
  <2>1. b - y \in T /\ b - y \in Nat /\ t \in Nat
    BY <1>1
  <2>2. ~(b - y < t)
    BY <2>1, <1>2a, <1>3
  <2>3. QED BY <2>1, <2>2, <1>4
<1>6. QED BY <1>5

\* A mint that begins or looks again.
LEMMA LookOK ==
    ASSUME NEW p \in Processes, NEW N \in Nat, NEW m, PlaceOK(p, m, N), m.why # "readback",
           NEW i \in Levels, i <= Len(Chain[p]), NEW n \in 0..MintAttempts
    PROVE  PlaceOK(p, Look(m, i, n), N) /\ Look(m, i, n).mine = m.mine
           /\ Look(m, i, n).why = m.why /\ Look(m, i, n).pc = "look"
<1> DEFINE t == [m.tries EXCEPT ![i] = n]
<1>1. t \in [Levels -> 0..MintAttempts]
  BY DEF PlaceOK, Place
<1>2. Look(m, i, n) = [m EXCEPT !.pc = "look", !.level = i, !.tries = t]
  BY DEF Look, PlaceOK, Place
<1> HIDE DEF t
<1>3. [m EXCEPT !.pc = "look", !.level = i, !.tries = t] \in Place
  BY <1>1 DEF PlaceOK, Place, Stages
<1>4. QED BY <1>2, <1>3 DEF PlaceOK, Reading, Place

LEMMA YieldOK ==
    ASSUME NEW p \in Processes, NEW N \in Nat, NEW m, PlaceOK(p, m, N), m.why # "readback",
           NEW s \in 1..N, s <= MaxNumbers
    PROVE  PlaceOK(p, Yield(p, m, s), N) /\ Yield(p, m, s).mine = m.mine
           /\ Yield(p, m, s).why = m.why
           /\ Yield(p, m, s).pc \in {"insert", "move", "seal"}
<1>1. Len(Chain[p]) \in Nat
  BY Chains DEF Levels
<1>2. s \in 0..MaxNumbers
  BY Chains
<1>3. CASE m.level > First(p)
  <2>1. m.level - 1 \in Levels
    BY <1>3, Chains, SMTT(20) DEF First, PlaceOK, Place, Levels
  <2>2. Yield(p, m, s) = [m EXCEPT !.pc = "insert", !.level = m.level - 1, !.hand = s]
    BY <1>3 DEF Yield
  <2>3. [m EXCEPT !.pc = "insert", !.level = m.level - 1, !.hand = s] \in Place
    BY <1>2, <2>1 DEF PlaceOK, Place, Stages
  <2>4. QED BY <1>1, <2>1, <2>2, <2>3, SMTT(20) DEF PlaceOK, Reading, Place, Levels
<1>4. CASE ~(m.level > First(p)) /\ p = Adopter
  <2>1. Yield(p, m, s) = [m EXCEPT !.pc = "move", !.hand = s]
    BY <1>4 DEF Yield
  <2>2. [m EXCEPT !.pc = "move", !.hand = s] \in Place
    BY <1>2 DEF PlaceOK, Place, Stages
  <2>3. QED BY <1>4, <2>1, <2>2 DEF PlaceOK, Reading, Place
<1>5. CASE ~(m.level > First(p)) /\ p # Adopter
  <2>1. Yield(p, m, s) = [m EXCEPT !.pc = "seal", !.hand = s]
    BY <1>5 DEF Yield
  <2>2. [m EXCEPT !.pc = "seal", !.hand = s] \in Place
    BY <1>2 DEF PlaceOK, Place, Stages
  <2>3. QED BY <1>5, <2>1, <2>2 DEF PlaceOK, Reading, Place
<1>6. QED BY <1>3, <1>4, <1>5

LEMMA LookAgainOK ==
    ASSUME NEW p \in Processes, NEW N \in Nat, NEW m, PlaceOK(p, m, N), m.why # "readback"
    PROVE  /\ PlaceOK(p, LookAgain(p, m), N)
           /\ \/ LookAgain(p, m) = Idle
              \/ /\ LookAgain(p, m).mine = m.mine /\ LookAgain(p, m).pc = "look"
                 /\ LookAgain(p, m).why = m.why
                 /\ \E i \in First(p)..m.level, n \in 0..MintAttempts :
                       LookAgain(p, m) = Look(m, i, n)
<1> DEFINE left == {i \in First(p)..m.level : m.tries[i] < MintAttempts}
<1>1. CASE left = {}
  BY <1>1, IdleOK DEF LookAgain
<1>2. CASE left # {}
  <2> DEFINE i == CHOOSE i \in left : \A j \in left : j <= i
  <2>1. m.level \in Levels /\ First(p) \in 1..2 /\ Len(Chain[p]) \in Nat /\ m.level <= Len(Chain[p])
    BY Chains, SMTT(20) DEF PlaceOK, Place, First, Levels
  <2>2. /\ left \in SUBSET Nat /\ \A j \in left : j <= m.level
        /\ \A j \in left : j \in Levels /\ j <= Len(Chain[p]) /\ m.tries[j] < MintAttempts
    <3>1. \A j \in left : j \in Int /\ 1 <= j /\ j <= m.level
      BY <2>1, Chains DEF Levels
    <3>2. \A j \in left : m.tries[j] < MintAttempts
      OBVIOUS
    <3>3. m.level <= Depth /\ m.level \in Nat /\ Depth \in Nat
      BY <2>1, Chains DEF Levels
    <3> HIDE DEF left
    <3>4. QED BY <2>1, <3>1, <3>2, <3>3 DEF Levels
  <2>3. \A j \in left : m.tries[j] + 1 \in 0..MintAttempts
    BY <2>2, Chains, SMTT(20) DEF PlaceOK, Place
  <2>4. LookAgain(p, m) = Look(m, i, m.tries[i] + 1)
    BY <1>2 DEF LookAgain
  <2>5. m.level \in Nat
    BY <2>1 DEF Levels
  <2>6. \A j \in left : j \in First(p)..m.level
    OBVIOUS
  <2> HIDE DEF left
  <2>7. \E k \in left : \A j \in left : j <= k
    BY <1>2, <2>2, <2>5, Greatest
  <2>8. i \in left
    BY <2>7
  <2> HIDE DEF i
  <2>9. QED BY <2>2, <2>3, <2>4, <2>6, <2>8, LookOK
<1>3. QED BY <1>1, <1>2

\* A mint goes on, or ends.
Goes(p, m, k, N) ==
    /\ PlaceOK(p, k, N)
    /\ k = Idle \/ (k.mine = m.mine /\ ~Reading(k) /\ k.pc \notin {"idle", "readback"})

\* A read back goes on, or ends, or is to be undone.
Returns(p, m, k, N) ==
    /\ PlaceOK(p, k, N)
    /\ k = Idle \/ (k.mine = m.mine /\ k.hand = m.hand /\ Reading(k))

LEMMA IdleFields == Idle.pc = "idle" /\ Idle.why = "look" /\ Idle.level = 1
BY DEF Idle

LEMMA FailsOK ==
    ASSUME NEW p \in Processes, NEW N \in Nat, NEW m, PlaceOK(p, m, N),
           m.why = "readback" => m.hand # 0 /\ p = Adopter
    PROVE  IF m.why = "readback" THEN Returns(p, m, Fails(p, m), N)
                                 ELSE Goes(p, m, Fails(p, m), N)
<1>1. m.level \in Levels /\ Len(Chain[p]) \in Levels /\ m.level <= Len(Chain[p])
      /\ m.why \in {"look", "reload", "readback"}
  BY Chains, SMTT(20) DEF PlaceOK, Place
<1>2. CASE m.why = "look" /\ Last(p, m)
  <2>1. Fails(p, m) = [m EXCEPT !.pc = "insert"]
    BY <1>2 DEF Fails
  <2>2. [m EXCEPT !.pc = "insert"] \in Place
    BY DEF PlaceOK, Place, Stages
  <2>3. QED BY <1>1, <1>2, <2>1, <2>2, SMTT(20) DEF Goes, PlaceOK, Reading, Place, Last, Levels
<1>3. CASE m.why = "look" /\ ~Last(p, m)
  <2>1. Fails(p, m) = Look(m, m.level + 1, 1)
    BY <1>3 DEF Fails
  <2>2. m.level + 1 \in Levels /\ m.level + 1 <= Len(Chain[p]) /\ 1 \in 0..MintAttempts
    BY <1>1, <1>3, Chains DEF Levels, Last
  <2>3. QED BY <1>3, <2>1, <2>2, LookOK DEF Goes, Reading
<1>4. CASE m.why = "reload"
  <2>1. Fails(p, m) = LookAgain(p, m)
    BY <1>4 DEF Fails
  <2>2. QED BY <1>4, <2>1, LookAgainOK DEF Goes, Reading
<1>5. CASE m.why = "readback"
  <2>1. Fails(p, m) = [m EXCEPT !.pc = "undo"]
    BY <1>5 DEF Fails
  <2>2. [m EXCEPT !.pc = "undo"] \in Place
    BY DEF PlaceOK, Place, Stages
  <2>3. QED BY <1>5, <2>1, <2>2 DEF Returns, PlaceOK, Reading, Place
<1>6. QED BY <1>1, <1>2, <1>3, <1>4, <1>5

LEMMA OpensOK ==
    ASSUME NEW p \in Processes, NEW N \in Nat, NEW m, PlaceOK(p, m, N),
           NEW s \in 1..N, s <= MaxNumbers
    PROVE  IF m.why = "readback" THEN Returns(p, m, Opens(p, m, s), N)
                                 ELSE Goes(p, m, Opens(p, m, s), N)
<1>1. CASE m.why = "readback"
  BY <1>1, IdleOK DEF Opens, Returns
<1>2. CASE m.why # "readback"
  <2>1. Opens(p, m, s) = Yield(p, m, s)
    BY <1>2 DEF Opens
  <2>2. QED BY <1>2, <2>1, YieldOK DEF Goes, Reading
<1>3. QED BY <1>1, <1>2

LEMMA OpenRowOK ==
    ASSUME NEW p \in Processes, NEW N \in Nat, NEW m, PlaceOK(p, m, N), N <= MaxNumbers,
           NEW r, RowOK(r, N),
           m.why = "readback" => m.hand # 0 /\ p = Adopter
    PROVE  IF m.why = "readback" THEN Returns(p, m, OpenRow(p, m, r), N)
                                 ELSE Goes(p, m, OpenRow(p, m, r), N)
<1>1. CASE ~Present(r)
  BY <1>1, FailsOK DEF OpenRow
<1>2. CASE Present(r) /\ IsRoot(r)
  <2>1. r.secret \in 1..N /\ r.secret <= MaxNumbers
    BY <1>2, Chains DEF RowOK, Row, Present
  <2>2. OpenRow(p, m, r) = Opens(p, m, r.secret)
    BY <1>2 DEF OpenRow
  <2>3. QED BY <2>1, <2>2, OpensOK
<1>3. CASE Present(r) /\ ~IsRoot(r)
  <2>1. OpenRow(p, m, r) = [m EXCEPT !.pc = "climb", !.secret = r.secret, !.up = r.parent,
                                     !.print = r.print]
    BY <1>3 DEF OpenRow
  <2>2. /\ r.secret \in 0..MaxNumbers /\ r.secret # 0 /\ r.secret <= N
        /\ r.parent \in Subjects /\ r.print \in Nat
    BY <1>3, Chains DEF RowOK, Row, Present, IsRoot
  <2>3. [m EXCEPT !.pc = "climb", !.secret = r.secret, !.up = r.parent, !.print = r.print]
          \in Place
    BY <2>2 DEF PlaceOK, Place, Stages
  <2>4. QED BY <2>1, <2>2, <2>3 DEF Goes, Returns, PlaceOK, Reading, Place
<1>4. QED BY <1>1, <1>2, <1>3

LEMMA ClimbToOK ==
    ASSUME NEW p \in Processes, NEW N \in Nat, NEW m, PlaceOK(p, m, N), N <= MaxNumbers,
           m.pc = "climb", NEW r, RowOK(r, N)
    PROVE  IF m.why = "readback" THEN Returns(p, m, ClimbTo(p, m, r), N)
                                 ELSE Goes(p, m, ClimbTo(p, m, r), N)
<1>0. m.why = "readback" => m.hand # 0 /\ p = Adopter
  BY DEF PlaceOK, Reading
<1>1. CASE ~Matches(m, r)
  BY <1>0, <1>1, FailsOK DEF ClimbTo
<1>2. CASE IsLast(m, r)
  <2>1. m.secret \in 1..N /\ m.secret <= MaxNumbers
    BY Chains, SMTT(20) DEF PlaceOK, Place
  <2>2. ClimbTo(p, m, r) = Opens(p, m, m.secret)
    BY <1>2 DEF ClimbTo, IsLast
  <2>3. QED BY <2>1, <2>2, OpensOK
<1>3. CASE Matches(m, r) /\ ~IsLast(m, r)
  <2>1. ClimbTo(p, m, r) = [m EXCEPT !.up = r.parent, !.print = r.print]
    BY <1>3 DEF ClimbTo
  <2>2. r.parent \in Subjects /\ r.print \in Nat
    BY <1>3 DEF RowOK, Row, Matches, IsLast, Present, IsRoot
  <2>3. [m EXCEPT !.up = r.parent, !.print = r.print] \in Place
    BY <2>2 DEF PlaceOK, Place
  <2>4. QED BY <2>1, <2>2, <2>3 DEF Goes, Returns, PlaceOK, Reading, Place
<1>4. QED BY <1>1, <1>2, <1>3 DEF IsLast

-----------------------------------------------------------------------------
(* Types.                                                                  *)

Types ==
    /\ rows \in [Subjects -> Row] /\ \A n \in Subjects : RowOK(rows[n], numbers)
    /\ numbers \in 0..MaxNumbers
    /\ sealed \subseteq [subject : Subjects, secret : Numbers]
    /\ at \in [Processes -> Place] /\ \A p \in Processes : PlaceOK(p, at[p], numbers)
    /\ at[Adopter].pc # "idle" => Present(at[Adopter].mine)
    /\ snapshot \in [taken : BOOLEAN,
                     roots : SUBSET [subject : Subjects, secret : Nat, master : Masters]]
    /\ \A r \in snapshot.roots : r.secret \in 1..numbers /\ r.master # New
    /\ erased \subseteq 1..numbers /\ strayed \subseteq MovedRows(numbers)
    /\ kin \in [Numbers -> SUBSET Numbers]

LEMMA TypesImply == Types => TypeOK
<1> SUFFICES ASSUME Types PROVE TypeOK
  OBVIOUS
<1>1. erased \subseteq Numbers /\ strayed \subseteq Row
  BY Chains DEF Types, Numbers, MovedRows
<1>2. QED BY <1>1 DEF Types, TypeOK, PlaceOK

\* What one process does to its place leaves every place sound.
LEMMA PlacesStay ==
    ASSUME Types, NEW p \in Processes, NEW m, Go(p, m),
           numbers' \in 0..MaxNumbers, numbers <= numbers', PlaceOK(p, m, numbers'),
           p = Adopter /\ m.pc # "idle" => Present(m.mine)
    PROVE  /\ at' \in [Processes -> Place]
           /\ \A q \in Processes : PlaceOK(q, at'[q], numbers')
           /\ at'[Adopter].pc # "idle" => Present(at'[Adopter].mine)
<1>1. \A q \in Processes : PlaceOK(q, at[q], numbers')
  <2> TAKE q \in Processes
  <2>1. PlaceOK(q, at[q], numbers) /\ numbers \in Nat /\ numbers' \in Nat
    BY Chains DEF Types
  <2>2. at[q].hand \in Nat /\ at[q].secret \in Nat /\ RowOK(at[q].mine, numbers')
    BY <2>1, RowGrows, Chains, SMTT(20) DEF PlaceOK, Place
  <2>3. QED BY <2>1, <2>2 DEF PlaceOK
<1>2. m \in Place
  BY DEF PlaceOK
<1>3. QED BY <1>1, <1>2, Chains DEF Types, Go

LEMMA PlacesSame ==
    ASSUME Types, UNCHANGED at, numbers' \in 0..MaxNumbers, numbers <= numbers'
    PROVE  /\ at' \in [Processes -> Place]
           /\ \A q \in Processes : PlaceOK(q, at'[q], numbers')
           /\ at'[Adopter].pc # "idle" => Present(at'[Adopter].mine)
<1>1. \A q \in Processes : PlaceOK(q, at[q], numbers')
  <2> TAKE q \in Processes
  <2>1. PlaceOK(q, at[q], numbers) /\ numbers \in Nat /\ numbers' \in Nat
    BY Chains DEF Types
  <2>2. at[q].hand \in Nat /\ at[q].secret \in Nat /\ RowOK(at[q].mine, numbers')
    BY <2>1, RowGrows, Chains, SMTT(20) DEF PlaceOK, Place
  <2>3. QED BY <2>1, <2>2 DEF PlaceOK
<1>2. QED BY <1>1 DEF Types

LEMMA TypesInit == Init => Types
<1> SUFFICES ASSUME Init PROVE Types
  OBVIOUS
<1>1. PICK first \in [Founded -> Numbers] :
        /\ {first[n] : n \in Founded} = 1..Cardinality(Founded)
        /\ rows = [n \in Subjects |-> IF n \in Founded THEN Root(first[n], first[n], Old)
                                                       ELSE NoRow]
        /\ sealed = {[subject |-> n, secret |-> first[n]] : n \in Founded}
  BY DEF Init
<1>2. numbers = Cardinality(Founded) /\ numbers \in Nat
  BY FS_Subset, FS_CardinalityType, SubjectAssumption DEF Init
<1>3. numbers \in 0..MaxNumbers
  <2>1. 1..numbers \subseteq Numbers
    BY <1>1, <1>2
  <2>2. QED BY <1>2, <2>1, Chains DEF Numbers
<1>4. \A n \in Founded : first[n] \in Nat /\ first[n] # 0 /\ first[n] <= numbers
  <2> TAKE n \in Founded
  <2>1. first[n] \in 1..numbers
    BY <1>1, <1>2
  <2>2. QED BY <1>2, <2>1
<1>5. \A n \in Subjects : RowOK(rows[n], numbers)
  <2> TAKE n \in Subjects
  <2>1. CASE n \in Founded
    <3>1. rows[n] = Root(first[n], first[n], Old) /\ Old \in Masters
      BY <1>1, <2>1 DEF Masters
    <3>2. QED BY <1>2, <1>4, <2>1, <3>1, RootFields
  <2>2. CASE n \notin Founded
    BY <1>1, <1>2, <2>2, NoRowFields
  <2>3. QED BY <2>1, <2>2
<1>6. rows \in [Subjects -> Row]
  <2>1. \A n \in Subjects : rows[n] \in Row
    BY <1>5 DEF RowOK
  <2>2. QED BY <1>1, <2>1
<1>7. sealed \subseteq [subject : Subjects, secret : Numbers]
  BY <1>1, SubjectAssumption
<1>8. /\ at \in [Processes -> Place] /\ \A p \in Processes : PlaceOK(p, at[p], numbers)
      /\ at[Adopter].pc = "idle"
  <2>1. \A p \in Processes : PlaceOK(p, Idle, numbers)
    BY <1>2, IdleOK
  <2>2. QED BY <2>1, Chains, IdleFields DEF Init, Blank, PlaceOK
<1>9. kin \in [Numbers -> SUBSET Numbers]
  BY DEF Init
<1>10. QED
  BY <1>3, <1>5, <1>6, <1>7, <1>8, <1>9 DEF Types, Init, NoSnapshot

LEMMA TypesWrite ==
    ASSUME Types, NEW w \in Writers, BeginWrite(w) \/ Seal(w)
    PROVE  Types'
<1> USE DEF Types
<1>1. w \in Processes /\ w # Adopter
  BY ChainAssumption DEF Processes
<1>2. CASE BeginWrite(w)
  <2>1. 1 \in Levels /\ 1 <= Len(Chain[w]) /\ 1 \in 0..MintAttempts
    BY <1>1, Chains DEF Levels
  <2>2. PlaceOK(w, Look(Idle, 1, 1), numbers)
    BY <1>1, <2>1, IdleOK, IdleFields, LookOK
  <2>3. QED BY <1>1, <1>2, <2>2, PlacesStay DEF BeginWrite
<1>3. CASE Seal(w)
  <2>1. at[w].hand \in Numbers
    <3>1. PlaceOK(w, at[w], numbers) /\ at[w].pc = "seal"
      BY <1>1, <1>3 DEF Seal
    <3>2. at[w].hand \in 0..MaxNumbers /\ at[w].hand # 0
      BY <3>1 DEF PlaceOK, Place
    <3>3. QED BY <3>2, Chains DEF Numbers
  <2>2. Chain[w][1] \in Subjects
    <3>1. 1 \in Levels /\ 1 <= Len(Chain[w])
      BY <1>1, Chains DEF Levels
    <3>2. QED BY <1>1, <3>1, Chains
  <2>3. QED BY <1>1, <1>3, <2>1, <2>2, IdleOK, PlacesStay DEF Seal
<1>4. QED BY <1>2, <1>3

\* A link has been read: a look takes down the row it found.
Found(m, r) == [m EXCEPT !.why = m.pc, !.stale[m.level] = IF m.pc = "look" THEN r ELSE @]

LEMMA FoundOK ==
    ASSUME NEW p \in Processes, NEW N \in Nat, NEW m, PlaceOK(p, m, N),
           m.pc \in {"look", "reload"}, NEW r \in Row
    PROVE  /\ PlaceOK(p, Found(m, r), N)
           /\ Found(m, r).why = m.pc /\ Found(m, r).why # "readback" /\ Found(m, r).pc = m.pc
           /\ Found(m, r).mine = m.mine /\ Found(m, r).level = m.level
           /\ \A i \in Levels : Found(m, r).stale[i] =
                  IF i = m.level /\ m.pc = "look" THEN r ELSE m.stale[i]
<1> DEFINE t == [m.stale EXCEPT ![m.level] = IF m.pc = "look" THEN r ELSE m.stale[m.level]]
<1>0. m \in Place
  BY DEF PlaceOK
<1>1. t \in [Levels -> Row]
  BY <1>0 DEF Place
<1>2. Found(m, r) = [m EXCEPT !.why = m.pc, !.stale = t]
  BY <1>0 DEF Place, Found
<1>3. \A i \in Levels : t[i] = IF i = m.level /\ m.pc = "look" THEN r ELSE m.stale[i]
  BY <1>0 DEF Place
<1> HIDE DEF t
<1>4. [m EXCEPT !.why = m.pc, !.stale = t] \in Place
  BY <1>0, <1>1 DEF Place
<1>5. PlaceOK(p, Found(m, r), N)
  BY <1>0, <1>2, <1>4 DEF PlaceOK, Reading, Place
<1>6. QED BY <1>0, <1>2, <1>3, <1>5 DEF Place

LEMMA TypesRead ==
    ASSUME Types, NEW p \in Processes, ReadRow(p)
    PROVE  Types' /\ Goes(p, at[p], at'[p], numbers)
<1> DEFINE m == at[p]
           r == rows[Link(p, m)]
           k == [m EXCEPT !.why = m.pc, !.stale[m.level] = IF m.pc = "look" THEN r ELSE @]
<1>1. /\ PlaceOK(p, m, numbers) /\ m.pc \in {"look", "reload"} /\ numbers <= MaxNumbers
      /\ RowOK(r, numbers) /\ r \in Row /\ numbers \in Nat /\ m \in Place
  <2>1. PlaceOK(p, m, numbers) /\ m \in Place /\ m.level \in Levels /\ m.level <= Len(Chain[p])
    BY DEF Types, PlaceOK, Place
  <2>2. Link(p, m) \in Subjects
    BY <2>1, Chains DEF Link
  <2>3. RowOK(r, numbers) /\ r \in Row
    BY <2>2 DEF Types
  <2>4. numbers \in Nat /\ numbers <= MaxNumbers /\ m.pc \in {"look", "reload"}
    BY Chains DEF Types, ReadRow
  <2>5. QED BY <2>1, <2>3, <2>4
<1>2. /\ PlaceOK(p, k, numbers) /\ k.why # "readback" /\ k.mine = m.mine
  <2> HIDE DEF m, r
  <2>1. k = Found(m, r)
    BY DEF Found
  <2>2. QED BY <1>1, <2>1, FoundOK
<1>3. Go(p, OpenRow(p, k, r)) /\ UNCHANGED <<tables, snapshot, history, counts>>
  BY DEF ReadRow
<1> HIDE DEF m, k, r
<1>4. Goes(p, k, OpenRow(p, k, r), numbers)
  BY <1>1, <1>2, OpenRowOK
<1>5. p = Adopter /\ OpenRow(p, k, r).pc # "idle" => Present(OpenRow(p, k, r).mine)
  BY <1>1, <1>2, <1>4, IdleFields DEF Types, Goes, m
<1>6. PlaceOK(p, OpenRow(p, k, r), numbers)
  BY <1>4 DEF Goes
<1>7. Types'
  BY <1>1, <1>3, <1>5, <1>6, PlacesStay DEF Types
<1>8. at'[p] = OpenRow(p, k, r)
  BY <1>3 DEF Go, Types
<1>9. QED BY <1>2, <1>4, <1>7, <1>8 DEF Goes, m

LEMMA TypesClimb ==
    ASSUME Types, NEW p \in Processes, Climb(p)
    PROVE  /\ Types'
           /\ at'[p] = ClimbTo(p, at[p], rows[at[p].up])
           /\ IF at[p].why = "readback" THEN Returns(p, at[p], at'[p], numbers)
                                        ELSE Goes(p, at[p], at'[p], numbers)
<1> DEFINE m == at[p]
           r == rows[m.up]
           k == ClimbTo(p, m, r)
<1>1. /\ PlaceOK(p, m, numbers) /\ m.pc = "climb" /\ numbers \in Nat /\ numbers <= MaxNumbers
      /\ m.up \in Subjects /\ RowOK(r, numbers)
  BY Chains DEF Types, Climb, PlaceOK
<1>2. Go(p, k) /\ UNCHANGED <<rows, numbers, sealed, snapshot, erased>>
  BY DEF Climb
<1>3. kin' \in [Numbers -> SUBSET Numbers] /\ strayed' \subseteq MovedRows(numbers)
  <2>1. p = Adopter => m.hand <= numbers /\ (m.why = "readback" => m.hand # 0 /\ m.hand \in Numbers)
    BY <1>1, Chains, SMTT(20) DEF PlaceOK, Place, Numbers, Reading
  <2>2. m.why = "readback" => p = Adopter
    BY <1>1 DEF PlaceOK
  <2>3. QED BY <2>1, <2>2 DEF Climb, Types
<1> HIDE DEF r
<1>4. IF m.why = "readback" THEN Returns(p, m, k, numbers) ELSE Goes(p, m, k, numbers)
  BY <1>1, ClimbToOK
<1> HIDE DEF k
<1>5. PlaceOK(p, k, numbers) /\ (k = Idle \/ k.mine = m.mine)
  BY <1>4 DEF Returns, Goes
<1>6. p = Adopter /\ k.pc # "idle" => Present(k.mine)
  BY <1>1, <1>5, IdleFields DEF Types
<1>7. Types'
  BY <1>1, <1>2, <1>3, <1>5, <1>6, PlacesStay DEF Types
<1>8. at'[p] = k
  BY <1>2 DEF Go, Types
<1>9. QED BY <1>4, <1>7, <1>8 DEF k, r

\* A key is offered: the row that was there stays, or a new row has a secret of its own.
Offered(n, r) ==
    /\ n \in Subjects /\ rows' = [rows EXCEPT ![n] = r]
    /\ \/ r = rows[n] /\ numbers' = numbers /\ kin' = kin
       \/ /\ numbers' = numbers + 1 /\ numbers + 1 \in Numbers /\ kin' = kin
          /\ \E b \in Masters : r = Root(numbers + 1, numbers + 1, b)
                                /\ (b = New \/ ServerMaster = b)
       \/ /\ numbers' = numbers + 1 /\ numbers + 1 \in Numbers
          /\ \E c \in Subjects, h \in 1..numbers :
                /\ r = Child(numbers + 1, numbers + 1, c, h)
                /\ kin' = [kin EXCEPT ![numbers + 1] = {numbers + 1} \cup kin[h]]

\* A new row comes where there was none or in place of the one found there, at the end
\* of the chain or under the parent in hand.
Taken(p, m, n, r) ==
    /\ n = Link(p, m)
    /\ Go(p, Yield(p, m, r.secret)) \/ Go(p, [m EXCEPT !.pc = "reload"])
    /\ \/ r = rows[n]
       \/ /\ Present(rows[n]) => /\ Present(m.stale[m.level])
                                 /\ rows[n].bytes = m.stale[m.level].bytes
          /\ ~IsRoot(r) => ~Last(p, m) /\ r.parent = Chain[p][m.level + 1] /\ r.print = m.hand

LEMMA InsertOffers ==
    ASSUME Types, NEW p \in Processes, Insert(p)
    PROVE  /\ \E n \in Subjects, r \in Row :
                Offered(n, r) /\ RowOK(r, numbers') /\ Present(r) /\ Taken(p, at[p], n, r)
           /\ Goes(p, at[p], at'[p], numbers')
           /\ numbers' \in 0..MaxNumbers /\ numbers <= numbers'
<1> DEFINE m == at[p]
           n == Link(p, m)
           top == Last(p, m)
           fresh == numbers + 1
           candidate == IF top THEN Root(fresh, fresh, Primary(p))
                               ELSE Child(fresh, fresh, Chain[p][m.level + 1], m.hand)
           kept == KeepsOrTakes(rows[n], m.stale[m.level], candidate)
<1>1. /\ PlaceOK(p, m, numbers) /\ m.pc = "insert" /\ fresh \in Numbers
      /\ numbers \in Nat /\ fresh <= MaxNumbers /\ fresh \in Nat
  BY Chains DEF Types, Insert, Numbers
<1>2. m \in Place /\ m.level \in Levels /\ m.level <= Len(Chain[p]) /\ Len(Chain[p]) \in Levels
  BY <1>1, Chains, SMTT(20) DEF PlaceOK, Place
<1>3. n \in Subjects
  BY <1>2, Chains DEF Link
<1>4. ~top => Chain[p][m.level + 1] \in Subjects /\ m.hand \in 1..numbers
  <2> SUFFICES ASSUME ~top PROVE Chain[p][m.level + 1] \in Subjects /\ m.hand \in 1..numbers
    OBVIOUS
  <2>1. m.level < Len(Chain[p]) /\ m.level + 1 \in Levels /\ m.level + 1 <= Len(Chain[p])
    BY <1>2, Chains DEF Last, Levels
  <2>2. m.hand \in 1..numbers
    BY <1>1, <2>1, Chains, SMTT(20) DEF PlaceOK, Place
  <2>3. QED BY <2>1, <2>2, Chains
<1>5. Primary(p) \in Masters /\ (Primary(p) = New \/ Primary(p) = ServerMaster)
  BY SubjectAssumption DEF Primary, Masters
<1>6. /\ candidate.secret = fresh /\ RowOK(candidate, fresh) /\ candidate \in Row
      /\ IF top THEN candidate = Root(fresh, fresh, Primary(p))
                ELSE candidate = Child(fresh, fresh, Chain[p][m.level + 1], m.hand)
  <2>0. fresh # 0
    BY <1>1
  <2>1. CASE top
    <3>1. candidate = Root(fresh, fresh, Primary(p))
      BY <2>1
    <3>2. Root(fresh, fresh, Primary(p)).secret = fresh
          /\ RowOK(Root(fresh, fresh, Primary(p)), fresh)
      BY <1>1, <1>5, <2>0, RootFields
    <3>3. QED BY <2>1, <3>1, <3>2 DEF RowOK
  <2>2. CASE ~top
    <3> DEFINE up == Chain[p][m.level + 1]
               hand == m.hand
    <3>1. candidate = Child(fresh, fresh, up, hand)
      BY <2>2
    <3>2. up \in Subjects /\ hand \in Nat /\ hand <= fresh /\ fresh \in Nat
      BY <1>1, <1>4, <2>2
    <3> HIDE DEF candidate, fresh, up, hand
    <3>3. Child(fresh, fresh, up, hand).secret = fresh /\ RowOK(Child(fresh, fresh, up, hand), fresh)
      BY <2>0, <3>2, ChildFields
    <3>4. candidate \in Row
      BY <3>1, <3>3 DEF RowOK
    <3>5. QED BY <2>2, <3>1, <3>3, <3>4 DEF up, hand
  <2>3. QED BY <2>1, <2>2
<1>7. RowOK(rows[n], numbers) /\ rows[n] \in Row /\ rows \in [Subjects -> Row]
  BY <1>3 DEF Types
<1>8. /\ rows' = [rows EXCEPT ![n] = kept]
      /\ numbers' = IF kept = candidate THEN fresh ELSE numbers
      /\ kin' = IF kept = candidate /\ ~top
                THEN [kin EXCEPT ![fresh] = {fresh} \cup kin[m.hand]] ELSE kin
      /\ \/ Go(p, Yield(p, m, kept.secret)) \/ Go(p, [m EXCEPT !.pc = "reload"])
  BY DEF Insert
<1>9. /\ kept = candidate \/ (kept = rows[n] /\ Present(rows[n]))
      /\ \/ kept = rows[n]
         \/ Present(rows[n]) => /\ Present(m.stale[m.level])
                                /\ rows[n].bytes = m.stale[m.level].bytes
  BY DEF KeepsOrTakes
<1>10. candidate # rows[n]
  BY <1>1, <1>6, <1>7 DEF RowOK, Row
<1> HIDE DEF kept, candidate, n, top, fresh
<1>11. numbers' \in 0..MaxNumbers /\ numbers <= numbers'
  BY <1>1, <1>8, Chains DEF fresh
<1>12. RowOK(kept, numbers') /\ Present(kept) /\ kept \in Row
  BY <1>1, <1>6, <1>7, <1>8, <1>9, <1>10 DEF Present, fresh
<1>13. Offered(n, kept)
  BY <1>1, <1>3, <1>4, <1>5, <1>6, <1>8, <1>9, <1>10 DEF Offered, fresh
<1>14. Goes(p, m, at'[p], numbers')
  <2>1. PlaceOK(p, m, numbers')
    <3>1. RowOK(m.mine, numbers')
      BY <1>1, <1>11, RowGrows DEF PlaceOK
    <3>2. QED BY <1>1, <1>2, <1>11, <3>1 DEF PlaceOK, Place
  <2>2. kept.secret \in 1..numbers' /\ kept.secret <= MaxNumbers /\ numbers' \in Nat
    BY <1>11, <1>12, Chains DEF RowOK, Row, Present
  <2>3. m.why # "readback"
    BY <1>1 DEF PlaceOK
  <2>4. Goes(p, m, Yield(p, m, kept.secret), numbers')
    BY <2>1, <2>2, <2>3, YieldOK DEF Goes, Reading
  <2>5. Goes(p, m, [m EXCEPT !.pc = "reload"], numbers')
    <3>1. [m EXCEPT !.pc = "reload"] \in Place
      BY <1>2 DEF Place, Stages
    <3>2. QED BY <1>2, <2>1, <2>3, <3>1 DEF PlaceOK, Reading, Goes, Place
  <2>6. QED BY <1>8, <2>4, <2>5 DEF Go, Types
<1>15. Taken(p, m, n, kept)
  <2>1. kept = candidate /\ ~IsRoot(kept) =>
           ~Last(p, m) /\ kept.parent = Chain[p][m.level + 1] /\ kept.print = m.hand
    <3>1. top => IsRoot(candidate)
      BY <1>1, <1>5, <1>6, RootFields
    <3>2. CASE ~top
      <4>1. PICK h \in Nat : h = m.hand
        BY <1>1, <1>4, <3>2
      <4>2. candidate = Child(fresh, fresh, Chain[p][m.level + 1], h)
        BY <1>6, <3>2, <4>1
      <4>3. candidate.parent = Chain[p][m.level + 1] /\ candidate.print = h
        BY <1>1, <1>4, <3>2, <4>2, ChildFields
      <4>4. QED BY <3>2, <4>1, <4>3 DEF top
    <3>3. QED BY <3>1, <3>2
  <2>2. n = Link(p, m)
    BY DEF n
  <2>3. QED BY <1>8, <1>9, <2>1, <2>2 DEF Taken
<1>16. QED BY <1>3, <1>11, <1>12, <1>13, <1>14, <1>15

LEMMA TypesInsert ==
    ASSUME Types, NEW p \in Processes, Insert(p)
    PROVE  Types'
<1>1. PICK n \in Subjects, r \in Row :
         Offered(n, r) /\ RowOK(r, numbers')
  BY InsertOffers
<1>2. /\ Goes(p, at[p], at'[p], numbers') /\ numbers' \in 0..MaxNumbers /\ numbers <= numbers'
      /\ numbers \in Nat
  BY InsertOffers, Chains DEF Types
<1>3. rows' \in [Subjects -> Row] /\ \A k \in Subjects : RowOK(rows'[k], numbers')
  <2>1. \A k \in Subjects : RowOK(rows[k], numbers')
    BY <1>2, RowGrows DEF Types
  <2>2. QED BY <1>1, <2>1 DEF Offered, Types
<1>4. kin' \in [Numbers -> SUBSET Numbers]
  <2>1. \A h \in 1..numbers : h \in Numbers /\ kin[h] \subseteq Numbers
    BY <1>2, Chains DEF Types, Numbers
  <2>2. kin \in [Numbers -> SUBSET Numbers]
    BY DEF Types
  <2>3. CASE kin' = kin
    BY <2>2, <2>3
  <2>4. ASSUME NEW h \in 1..numbers, numbers + 1 \in Numbers,
               kin' = [kin EXCEPT ![numbers + 1] = {numbers + 1} \cup kin[h]]
        PROVE  kin' \in [Numbers -> SUBSET Numbers]
    BY <2>1, <2>2, <2>4
  <2>5. QED BY <1>1, <2>3, <2>4 DEF Offered
<1>5. erased' \subseteq 1..numbers' /\ strayed' \subseteq MovedRows(numbers')
  <2>1. UNCHANGED <<erased, strayed>>
    BY DEF Insert
  <2>2. erased \subseteq 1..numbers /\ strayed \subseteq MovedRows(numbers) /\ numbers \in Nat
    BY Chains DEF Types
  <2>3. MovedRows(numbers) \subseteq MovedRows(numbers')
    BY <1>2, MovedGrows
  <2>4. QED BY <1>2, <2>1, <2>2, <2>3
<1>6. /\ Go(p, at'[p]) /\ PlaceOK(p, at'[p], numbers')
      /\ p = Adopter /\ at'[p].pc # "idle" => Present(at'[p].mine)
  <2>1. \E k : Go(p, k)
    BY DEF Insert
  <2>2. Go(p, at'[p])
    BY <2>1 DEF Go, Types
  <2>3. at[p].pc = "insert"
    BY DEF Insert
  <2>4. QED BY <1>2, <2>2, <2>3, IdleFields DEF Goes, Types
<1>7. \A x \in snapshot'.roots : x.secret \in 1..numbers' /\ x.master # New
  <2>1. UNCHANGED snapshot
    BY DEF Insert
  <2>2. \A x \in snapshot.roots : x.secret \in 1..numbers /\ x.master # New
    BY DEF Types
  <2>3. numbers \in Nat
    BY Chains DEF Types
  <2>4. QED BY <1>2, <2>1, <2>2, <2>3
<1>8. UNCHANGED <<sealed, snapshot>>
  BY DEF Insert
<1>9. /\ at' \in [Processes -> Place] /\ \A q \in Processes : PlaceOK(q, at'[q], numbers')
      /\ at'[Adopter].pc # "idle" => Present(at'[Adopter].mine)
  BY <1>2, <1>6, PlacesStay
<1>10. QED
  BY <1>2, <1>3, <1>4, <1>5, <1>7, <1>8, <1>9 DEF Types

LEMMA TypesErase ==
    ASSUME Types, (\E n \in Subjects : Erase(n)) \/ Sweep
    PROVE  Types'
<1>1. /\ \A k \in Subjects : rows'[k] = rows[k] \/ rows'[k] = NoRow
      /\ rows' \in [Subjects -> Row]
      /\ erased' \subseteq 1..numbers
      /\ UNCHANGED <<numbers, sealed, at, snapshot, kin, strayed>>
  <2>1. CASE \E n \in Subjects : Erase(n)
    <3>1. PICK n \in Subjects : Erase(n)
      BY <2>1
    <3>2. rows[n].secret \in 1..numbers /\ NoRow \in Row
      <4>1. RowOK(rows[n], numbers) /\ Present(rows[n]) /\ numbers \in Nat
        BY <3>1, Chains DEF Erase, Types
      <4>2. NoRow \in Row
        BY NoRowFields DEF RowOK
      <4>3. QED BY <4>1, <4>2, RowNumbers
    <3>3. QED BY <3>1, <3>2 DEF Erase, Types
  <2>2. CASE Sweep
    <3>1. NoRow \in Row
      BY NoRowFields DEF RowOK
    <3>2. QED BY <2>2, <3>1 DEF Sweep, Types
  <2>3. QED BY <2>1, <2>2
<1>2. \A k \in Subjects : RowOK(rows'[k], numbers')
  BY <1>1, NoRowFields, Chains DEF Types
<1>3. QED BY <1>1, <1>2, PlacesSame DEF Types

LEMMA TypesBeginAdoption ==
    ASSUME Types, BeginAdoption
    PROVE  Types'
<1> DEFINE m == [Look(Idle, 2, 1) EXCEPT !.mine = rows[Adoptee]]
<1>1. /\ RowOK(rows[Adoptee], numbers) /\ numbers \in Nat /\ Present(rows[Adoptee])
      /\ rows[Adoptee] \in Row
  BY Chains DEF Types, BeginAdoption
<1>2. 2 \in Levels /\ 2 <= Len(Chain[Adopter]) /\ 1 \in 0..MintAttempts
  BY Chains, ChainAssumption DEF Levels
<1>3. /\ PlaceOK(Adopter, Look(Idle, 2, 1), numbers)
      /\ Look(Idle, 2, 1).pc = "look" /\ Look(Idle, 2, 1).why = "look"
  BY <1>1, <1>2, Chains, IdleOK, IdleFields, LookOK
<1>4. m \in Place /\ PlaceOK(Adopter, m, numbers) /\ Present(m.mine)
  <2>1. m \in Place
    BY <1>1, <1>3 DEF PlaceOK, Place
  <2>2. QED BY <1>1, <1>3, <2>1 DEF PlaceOK, Place, Reading
<1> HIDE DEF m
<1>5. Go(Adopter, m) /\ UNCHANGED <<tables, snapshot, history>>
  BY DEF BeginAdoption, m
<1>6. QED BY <1>4, <1>5, Chains, PlacesStay DEF Types

LEMMA TypesMove ==
    ASSUME Types, MoveRow
    PROVE  Types'
<1> DEFINE m == at[Adopter]
           moved == Child(m.mine.secret, numbers + 1, Chain[Adopter][2], m.hand)
           k == [m EXCEPT !.pc = "readback", !.mine = moved]
<1>1. /\ PlaceOK(Adopter, m, numbers) /\ m \in Place /\ m.pc = "move" /\ m.hand # 0
      /\ numbers \in Nat /\ numbers + 1 \in 0..MaxNumbers
      /\ Present(m.mine) /\ RowOK(m.mine, numbers) /\ m.mine \in Row
  <2>1. /\ PlaceOK(Adopter, m, numbers) /\ numbers \in 0..MaxNumbers
        /\ m.pc = "move" /\ Present(m.mine) /\ numbers < MaxNumbers
    BY Chains DEF Types, MoveRow, Numbers
  <2>2. m \in Place /\ m.hand # 0 /\ RowOK(m.mine, numbers) /\ m.mine \in Row
    BY <2>1 DEF PlaceOK, Place
  <2>3. QED BY <2>1, <2>2, Chains
<1>2. m.mine.secret \in 1..numbers /\ m.hand \in Nat /\ m.hand <= numbers
  BY <1>1 DEF RowOK, Row, Present, PlaceOK, Place
<1>3. RowOK(moved, numbers + 1) /\ moved \in Row /\ moved.secret = m.mine.secret
  <2>1. /\ m.mine.secret \in Nat /\ m.mine.secret # 0 /\ numbers + 1 \in Nat /\ numbers + 1 # 0
        /\ Chain[Adopter][2] \in Subjects /\ m.hand <= numbers + 1
        /\ m.mine.secret <= numbers + 1
    BY <1>1, <1>2, Chains
  <2>2. RowOK(moved, numbers + 1) /\ moved.secret = m.mine.secret
    BY <1>2, <2>1, ChildFields
  <2>3. QED BY <2>2 DEF RowOK
<1> HIDE DEF moved
<1>4. PlaceOK(Adopter, k, numbers + 1) /\ k.mine = moved
  <2>1. k \in Place
    BY <1>1, <1>3 DEF Place, Stages
  <2>2. QED BY <1>1, <1>2, <1>3, <2>1, SMTT(20) DEF PlaceOK, Place, Reading
<1>5. /\ \/ Go(Adopter, k) /\ numbers' = numbers + 1 /\ rows' = [rows EXCEPT ![Adoptee] = moved]
            /\ strayed' = strayed \cup {moved}
         \/ Go(Adopter, Idle) /\ UNCHANGED <<rows, numbers, strayed>>
      /\ UNCHANGED <<sealed, snapshot, erased, kin>>
  BY DEF MoveRow, moved
<1> HIDE DEF k
<1>6. CASE Go(Adopter, Idle) /\ UNCHANGED <<rows, numbers, strayed>>
  BY <1>1, <1>5, <1>6, Chains, IdleOK, IdleFields, PlacesStay DEF Types
<1>7. CASE Go(Adopter, k) /\ numbers' = numbers + 1 /\ rows' = [rows EXCEPT ![Adoptee] = moved]
           /\ strayed' = strayed \cup {moved}
  <2>1. \A n \in Subjects : RowOK(rows'[n], numbers')
    <3>1. \A n \in Subjects : RowOK(rows[n], numbers')
      BY <1>1, <1>7, RowGrows DEF Types
    <3>2. QED BY <1>3, <1>7, <3>1 DEF Types
  <2>2. rows' \in [Subjects -> Row]
    BY <1>3, <1>7 DEF Types
  <2>3. strayed' \subseteq MovedRows(numbers') /\ erased' \subseteq 1..numbers'
    <3>1. strayed \subseteq MovedRows(numbers) /\ erased \subseteq 1..numbers
      BY DEF Types
    <3>2. 1..numbers \subseteq 1..numbers' /\ numbers' \in Nat /\ numbers <= numbers'
      BY <1>1, <1>7
    <3>3. UNCHANGED erased
      BY <1>5
    <3>4. MovedRows(numbers) \subseteq MovedRows(numbers')
      BY <1>1, <3>2, MovedGrows
    <3>5. moved \in MovedRows(numbers')
      BY <1>1, <1>2, <1>3, <1>7, RowNumbers DEF MovedRows, Present
    <3>6. QED BY <1>7, <3>1, <3>2, <3>3, <3>4, <3>5
  <2>4. Present(k.mine)
    BY <1>1, <1>3, <1>4 DEF Present
  <2>5. numbers <= numbers' /\ numbers' \in 0..MaxNumbers /\ PlaceOK(Adopter, k, numbers')
    BY <1>1, <1>4, <1>7
  <2>6. /\ at' \in [Processes -> Place] /\ \A q \in Processes : PlaceOK(q, at'[q], numbers')
        /\ at'[Adopter].pc # "idle" => Present(at'[Adopter].mine)
    BY <1>7, <2>4, <2>5, Chains, PlacesStay
  <2>7. \A r \in snapshot'.roots : r.secret \in 1..numbers' /\ r.master # New
    BY <1>1, <1>5, <1>7 DEF Types
  <2>8. QED BY <1>5, <2>1, <2>2, <2>3, <2>5, <2>6, <2>7 DEF Types
<1>8. QED BY <1>5, <1>6, <1>7

LEMMA TypesReadBack ==
    ASSUME Types, ReadBack
    PROVE  Types' /\ Returns(Adopter, at[Adopter], at'[Adopter], numbers)
<1> DEFINE m == at[Adopter]
           k == [m EXCEPT !.why = "readback"]
           r == rows[Adoptee]
<1>1. /\ PlaceOK(Adopter, m, numbers) /\ m \in Place /\ m.pc = "readback"
      /\ numbers \in Nat /\ numbers <= MaxNumbers /\ RowOK(r, numbers)
  BY Chains DEF Types, ReadBack, PlaceOK
<1>2. Go(Adopter, OpenRow(Adopter, k, r)) /\ UNCHANGED <<tables, snapshot, history>>
  BY DEF ReadBack
<1>3. /\ k.why = "readback" /\ k.hand = m.hand /\ k.mine = m.mine /\ k.hand # 0
      /\ k \in Place
  BY <1>1 DEF Place, PlaceOK, Reading
<1>4. PlaceOK(Adopter, [k EXCEPT !.pc = "undo"], numbers)
  <2>1. [k EXCEPT !.pc = "undo"] \in Place
    BY <1>3 DEF Place, Stages
  <2>2. QED BY <1>1, <2>1 DEF PlaceOK, Place, Reading
<1> HIDE DEF r
<1>5. Returns(Adopter, m, OpenRow(Adopter, k, r), numbers)
  <2>1. CASE ~Present(r)
    <3>1. OpenRow(Adopter, k, r) = [k EXCEPT !.pc = "undo"]
      BY <1>3, <2>1 DEF OpenRow, Fails
    <3>2. QED BY <1>1, <1>3, <1>4, <3>1 DEF Returns, Reading, Place
  <2>2. CASE Present(r) /\ IsRoot(r)
    BY <1>1, <1>3, <2>2, IdleOK, Chains DEF OpenRow, Opens, Returns
  <2>3. CASE Present(r) /\ ~IsRoot(r)
    <3> DEFINE c == [k EXCEPT !.pc = "climb", !.secret = r.secret, !.up = r.parent,
                              !.print = r.print]
    <3>1. OpenRow(Adopter, k, r) = c
      BY <2>3 DEF OpenRow
    <3>2. /\ r.secret \in 0..MaxNumbers /\ r.secret # 0 /\ r.secret <= numbers
          /\ r.parent \in Subjects /\ r.print \in Nat
      BY <1>1, <2>3, Chains DEF RowOK, Row, Present, IsRoot
    <3>3. c \in Place
      BY <1>3, <3>2 DEF Place, Stages
    <3>4. QED BY <1>1, <1>3, <3>1, <3>2, <3>3 DEF Returns, PlaceOK, Reading, Place
  <2>4. QED BY <2>1, <2>2, <2>3
<1>6. PlaceOK(Adopter, OpenRow(Adopter, k, r), numbers)
      /\ (OpenRow(Adopter, k, r).pc # "idle" => Present(OpenRow(Adopter, k, r).mine))
  BY <1>1, <1>5, IdleFields DEF Returns, Types
<1>7. at'[Adopter] = OpenRow(Adopter, k, r)
  BY <1>2, Chains DEF Go, Types
<1>8. QED BY <1>1, <1>2, <1>5, <1>6, <1>7, Chains, PlacesStay DEF Types

LEMMA TypesRestore ==
    ASSUME Types, RestoreRoot
    PROVE  Types'
<1> DEFINE m == at[Adopter]
           root == Root(m.mine.secret, numbers + 1, New)
<1>1. /\ PlaceOK(Adopter, m, numbers) /\ m.pc = "undo"
      /\ numbers \in Nat /\ numbers + 1 \in 0..MaxNumbers
      /\ Present(m.mine) /\ RowOK(m.mine, numbers)
  BY Chains DEF Types, RestoreRoot, PlaceOK, Numbers
<1>2. m.mine.secret \in 1..numbers /\ New \in Masters
  BY <1>1 DEF RowOK, Row, Present, Masters
<1>3. RowOK(root, numbers + 1) /\ root \in Row
  BY <1>1, <1>2, RootFields DEF RowOK
<1>4. /\ \/ numbers' = numbers + 1 /\ rows' = [rows EXCEPT ![Adoptee] = root]
         \/ UNCHANGED <<rows, numbers>>
      /\ Go(Adopter, Idle) /\ UNCHANGED <<sealed, snapshot, history>>
  BY DEF RestoreRoot
<1> HIDE DEF root
<1>5. /\ rows' \in [Subjects -> Row] /\ \A n \in Subjects : RowOK(rows'[n], numbers')
      /\ numbers <= numbers' /\ numbers' \in 0..MaxNumbers
  <2>1. numbers <= numbers' /\ numbers' \in 0..MaxNumbers /\ numbers' \in Nat
    BY <1>1, <1>4, Chains
  <2>2. \A n \in Subjects : RowOK(rows[n], numbers')
    BY <1>1, <2>1, RowGrows DEF Types
  <2>3. QED BY <1>3, <1>4, <2>1, <2>2 DEF Types
<1>6. /\ erased' \subseteq 1..numbers' /\ strayed' \subseteq MovedRows(numbers')
      /\ \A r \in snapshot'.roots : r.secret \in 1..numbers' /\ r.master # New
  <2>1. MovedRows(numbers) \subseteq MovedRows(numbers') /\ numbers' \in Nat
    BY <1>1, <1>5, MovedGrows, Chains
  <2>2. QED BY <1>1, <1>4, <1>5, <2>1 DEF Types
<1>7. QED BY <1>1, <1>4, <1>5, <1>6, Chains, IdleOK, IdleFields, PlacesStay DEF Types

LEMMA TypesBeginRotation ==
    ASSUME Types, BeginRotation
    PROVE  Types'
<1> DEFINE under == {n \in Subjects : rows[n].master \in Masters \ {New}}
           read == {[subject |-> n, secret |-> rows[n].secret, master |-> rows[n].master] :
                    n \in under}
<1>1. \A n \in under : /\ n \in Subjects /\ rows[n].secret \in 1..numbers
                       /\ rows[n].secret \in Nat
                       /\ rows[n].master \in Masters /\ rows[n].master # New
  <2> TAKE n \in under
  <2>1. RowOK(rows[n], numbers) /\ numbers \in Nat /\ rows[n].master # NoMaster
    BY SubjectAssumption, Chains DEF Types
  <2>2. Present(rows[n])
    BY <2>1 DEF RowOK, Present
  <2>3. rows[n].secret \in 1..numbers
    BY <2>1, <2>2, RowNumbers
  <2>4. QED BY <2>1, <2>3
<1> HIDE DEF under
<1>2. /\ read \in SUBSET [subject : Subjects, secret : Nat, master : Masters]
      /\ \A r \in read : r.secret \in 1..numbers /\ r.master # New
  BY <1>1
<1>3. snapshot' = [taken |-> TRUE, roots |-> read] /\ UNCHANGED <<tables, at, history>>
  BY DEF BeginRotation, under
<1> HIDE DEF read
<1>4. /\ snapshot' \in [taken : BOOLEAN,
                        roots : SUBSET [subject : Subjects, secret : Nat, master : Masters]]
      /\ \A r \in snapshot'.roots : r.secret \in 1..numbers /\ r.master # New
  BY <1>2, <1>3
<1>5. numbers' \in 0..MaxNumbers /\ numbers <= numbers' /\ UNCHANGED at
  BY <1>3, Chains DEF Types
<1>6. QED BY <1>3, <1>4, <1>5, PlacesSame DEF Types

\* A row is rewrapped from what was read of it, or stays.
LEMMA RewrapsRows ==
    ASSUME Types, Rewrap
    PROVE  /\ \A n \in Subjects :
                \/ rows'[n] = rows[n]
                \/ /\ rows[n].master \in Masters \ {New}
                   /\ \E r \in snapshot.roots :
                        /\ r.subject = n /\ r.master = rows[n].master
                        /\ rows'[n] = Root(r.secret, numbers + 1, New)
           /\ rows' = [n \in Subjects |-> rows'[n]]
           /\ numbers' \in {numbers, numbers + 1} /\ numbers + 1 \in Numbers
           /\ rows' # rows => numbers' = numbers + 1
<1>1. \A n \in Subjects :
        \/ rows'[n] = rows[n]
        \/ /\ rows[n].master \in Masters \ {New}
           /\ \E r \in snapshot.roots :
                /\ r.subject = n /\ r.master = rows[n].master
                /\ rows'[n] = Root(r.secret, numbers + 1, New)
  <2> TAKE n \in Subjects
  <2> DEFINE here == {r \in snapshot.roots : r.subject = n /\ r.master = rows[n].master}
  <2>1. rows'[n] = Rewrapped(n, numbers + 1)
    BY DEF Rewrap
  <2>2. CASE here = {}
    BY <2>1, <2>2 DEF Rewrapped
  <2>3. CASE here # {}
    <3> DEFINE r == CHOOSE r \in here : TRUE
    <3>1. r \in here
      BY <2>3
    <3>2. rows'[n] = Root(r.secret, numbers + 1, New)
      BY <2>1, <2>3 DEF Rewrapped
    <3> HIDE DEF r
    <3>3. r \in snapshot.roots /\ r.subject = n /\ r.master = rows[n].master
      BY <3>1
    <3>4. r.master \in Masters /\ r.master # New
      BY <3>3 DEF Types
    <3>5. QED BY <3>2, <3>3, <3>4
  <2>4. QED BY <2>2, <2>3
<1>2. rows' = [n \in Subjects |-> rows'[n]]
  BY DEF Rewrap
<1>3. QED BY <1>1, <1>2 DEF Rewrap

LEMMA TypesRewrap ==
    ASSUME Types, Rewrap
    PROVE  Types'
<1>1. /\ numbers \in Nat /\ numbers + 1 \in 0..MaxNumbers /\ New \in Masters
      /\ numbers' \in {numbers, numbers + 1}
      /\ rows' # rows => numbers' = numbers + 1
  BY RewrapsRows, Chains DEF Types, Masters, Numbers
<1>2. numbers' \in 0..MaxNumbers /\ numbers <= numbers' /\ numbers' \in Nat
  BY <1>1, Chains DEF Types
<1>3. \A n \in Subjects : RowOK(rows'[n], numbers')
  <2> TAKE n \in Subjects
  <2>1. RowOK(rows[n], numbers')
    BY <1>1, <1>2, RowGrows DEF Types
  <2>2. CASE rows'[n] = rows[n]
    BY <2>1, <2>2
  <2>3. ASSUME NEW r \in snapshot.roots, rows'[n] = Root(r.secret, numbers + 1, New),
               rows'[n] # rows[n]
        PROVE  RowOK(rows'[n], numbers')
    <3>1. numbers' = numbers + 1
      BY <1>1, <2>3
    <3>2. r.secret \in 1..numbers
      BY DEF Types
    <3>3. r.secret \in Nat /\ r.secret # 0 /\ numbers + 1 # 0 /\ numbers + 1 \in Nat
          /\ r.secret <= numbers + 1
      BY <1>1, <3>2
    <3>4. QED BY <1>1, <2>3, <3>1, <3>3, RootFields
  <2>4. QED BY <2>2, <2>3, RewrapsRows
<1>4. rows' \in [Subjects -> Row]
  <2>1. \A n \in Subjects : rows'[n] \in Row
    BY <1>3 DEF RowOK
  <2>2. QED BY <2>1, RewrapsRows
<1>5. UNCHANGED <<sealed, at, history>> /\ snapshot' = [taken |-> FALSE, roots |-> {}]
  BY DEF Rewrap, NoSnapshot
<1>6. erased' \subseteq 1..numbers' /\ strayed' \subseteq MovedRows(numbers')
  <2>1. 1..numbers \subseteq 1..numbers'
    BY <1>1, <1>2
  <2>2. MovedRows(numbers) \subseteq MovedRows(numbers')
    BY <1>1, <1>2, MovedGrows
  <2>3. QED BY <1>5, <2>1, <2>2 DEF Types
<1>7. QED BY <1>2, <1>3, <1>4, <1>5, <1>6, PlacesSame DEF Types

LEMMA TypesStep ==
    ASSUME Types, [Next]_vars
    PROVE  Types'
<1>1. CASE UNCHANGED vars
  <2>1. UNCHANGED <<tables, at, snapshot, history>>
    BY <1>1 DEF vars
  <2>2. UNCHANGED at /\ numbers' \in 0..MaxNumbers /\ numbers <= numbers'
    BY <2>1, Chains DEF Types
  <2>3. QED BY <2>1, <2>2, PlacesSame DEF Types
<1>2. CASE Next
  BY <1>2, TypesWrite, TypesRead, TypesClimb, TypesInsert, TypesErase, TypesBeginAdoption,
     TypesMove, TypesReadBack, TypesRestore, TypesBeginRotation, TypesRewrap DEF Next
<1>3. QED BY <1>1, <1>2

\* Rows, the places of every process and the snapshot of a rotation stay the records
\* that crypto.rs and opdb.rs make them, whatever runs at once.
THEOREM KeysTypes == Spec => []TypeOK
<1>1. Types /\ [Next]_vars => Types'
  BY TypesStep
<1>2. Init => Types
  BY TypesInit
<1>3. QED BY <1>1, <1>2, TypesImply, PTL DEF Spec

-----------------------------------------------------------------------------
(* Erasure.                                                                *)

\* A secret lives in one row, and once erased in none.
Lives ==
    \A m \in Subjects : Present(rows[m]) =>
        /\ rows[m].secret \notin erased
        /\ \A n \in Subjects : rows[n].secret = rows[m].secret => n = m

\* The row an adoption holds is the one its bytes name, and no other row has its
\* secret.  It was a root, and nothing took it along, until it is read back.
HeldBy(m, R, K) ==
    /\ R[Adoptee].bytes = m.mine.bytes => R[Adoptee] = m.mine
    /\ \A k \in Subjects : R[k].secret = m.mine.secret => k = Adoptee
    /\ K[m.mine.secret] = {m.mine.secret}
    /\ ~Reading(m) => IsRoot(m.mine)
    /\ Reading(m) =>
        /\ ~IsRoot(m.mine) /\ m.mine.parent = Chain[Adopter][2] /\ m.mine.print = m.hand
        /\ R[Adoptee].secret = m.mine.secret => R[Adoptee] = m.mine

Held == at[Adopter].pc # "idle" => HeldBy(at[Adopter], rows, kin)

\* A row still under the master a rotation read it under has the secret it read.
Snapped ==
    \A r \in snapshot.roots :
        rows[r.subject].master = r.master => rows[r.subject].secret = r.secret

KinGrows ==
    \A s \in Numbers : s \in kin[s] /\ (s > numbers => kin[s] = {s})

\* The rows of L open each from the one it hangs from, but for those of B.
Broken(L, B) ==
    \A n \in L :
        /\ Present(rows[n])
        /\ \/ n \in B
           \/ IsRoot(rows[n])
           \/ /\ rows[n].parent \in L
              /\ rows[rows[n].parent].secret = rows[n].print

\* What erases a row with it is in the rows it hangs from, or beyond a break.
Within(s, L, B) ==
    \A x \in kin[s] :
        (\E k \in L : x = rows[k].secret) \/ (\E b \in B : x \in kin[rows[b].secret])

KinWithin ==
    \A L \in SUBSET Subjects : \A B \in SUBSET L :
        Broken(L, B) => \A n \in L : Within(rows[n].secret, L, B)

Safe == Types /\ Lives /\ Held /\ Snapped /\ KinGrows /\ KinWithin

LEMMA SafeErased == Safe => ErasedStays
<1> SUFFICES ASSUME Safe, NEW n \in Subjects, Readable(n)
             PROVE  ~Doomed(rows[n].secret)
  BY DEF ErasedStays
<1>1. PICK L \in SUBSET Subjects : n \in L /\ Chained(L)
  BY DEF Readable
<1>2. Broken(L, {})
  BY <1>1 DEF Chained, Broken
<1>3. \A k \in L : rows[k].secret \notin erased
  BY <1>2 DEF Safe, Lives, Broken
<1>4. Within(rows[n].secret, L, {})
  BY <1>1, <1>2 DEF Safe, KinWithin
<1>5. QED BY <1>3, <1>4 DEF Within, Doomed

LEMMA SafeInit == Init => Safe
<1> SUFFICES ASSUME Init PROVE Safe
  OBVIOUS
<1>1. Types
  BY TypesInit
<1>2. PICK first \in [Founded -> Numbers] :
        /\ \A m, n \in Founded : first[m] = first[n] => m = n
        /\ rows = [n \in Subjects |-> IF n \in Founded THEN Root(first[n], first[n], Old)
                                                       ELSE NoRow]
  BY DEF Init
<1>3. \A n \in Subjects : Present(rows[n]) => /\ n \in Founded /\ rows[n].secret = first[n]
                                              /\ rows[n].secret \in Numbers
  <2> SUFFICES ASSUME NEW n \in Subjects, Present(rows[n])
               PROVE  n \in Founded /\ rows[n].secret = first[n] /\ rows[n].secret \in Numbers
    OBVIOUS
  <2>1. n \in Founded
    BY <1>2, NoRowFields DEF Present
  <2>2. rows[n] = Root(first[n], first[n], Old) /\ first[n] \in Numbers
    BY <1>2, <2>1
  <2>3. first[n] \in Nat /\ Old \in Masters
    BY <2>2, Chains DEF Numbers, Masters
  <2>4. QED BY <2>1, <2>2, <2>3, RootFields
<1>4. Lives
  <2> SUFFICES ASSUME NEW m \in Subjects, Present(rows[m]), NEW n \in Subjects,
                      rows[n].secret = rows[m].secret
               PROVE  n = m
    BY DEF Lives, Init
  <2>1. Present(rows[n])
    BY DEF Present
  <2>2. QED BY <1>2, <1>3, <2>1
<1>5. Held
  BY Chains, IdleFields DEF Held, Init, Blank
<1>6. Snapped
  BY DEF Snapped, Init, NoSnapshot
<1>7. KinGrows /\ \A s \in Numbers : kin[s] = {s}
  BY DEF KinGrows, Init
<1>8. KinWithin
  <2> SUFFICES ASSUME NEW L \in SUBSET Subjects, NEW B \in SUBSET L, Broken(L, B), NEW n \in L
               PROVE  Within(rows[n].secret, L, B)
    BY DEF KinWithin
  <2>1. Present(rows[n])
    BY DEF Broken
  <2>2. kin[rows[n].secret] = {rows[n].secret}
    BY <1>3, <1>7, <2>1
  <2>3. QED BY <2>2 DEF Within
<1>9. QED BY <1>1, <1>4, <1>5, <1>6, <1>7, <1>8 DEF Safe

\* A key is offered: nothing changes, or a row comes with a number of its own.
Fresh(n, r) ==
    /\ n \in Subjects /\ rows' = [rows EXCEPT ![n] = r]
    /\ r \in Row /\ r.secret = numbers + 1 /\ r.bytes = numbers + 1
    /\ numbers' = numbers + 1 /\ numbers + 1 \in Numbers
    /\ \/ IsRoot(r) /\ r.master = New /\ r.print = 0 /\ kin' = kin
       \/ /\ ~IsRoot(r) /\ r.parent \in Subjects /\ r.print \in 1..numbers
          /\ kin' = [kin EXCEPT ![numbers + 1] = {numbers + 1} \cup kin[r.print]]

LEMMA OfferedCases ==
    ASSUME Types, ServerMaster = New, NEW n, NEW r \in Row, Offered(n, r)
    PROVE  UNCHANGED <<rows, numbers, kin>> \/ Fresh(n, r)
<1>1. numbers \in Nat /\ numbers + 1 \in Nat /\ numbers + 1 # 0
  BY Chains DEF Types
<1>2. CASE r = rows[n] /\ numbers' = numbers /\ kin' = kin
  BY <1>2 DEF Offered, Types
<1>3. ASSUME numbers' = numbers + 1, numbers + 1 \in Numbers, kin' = kin,
             NEW b \in Masters, r = Root(numbers + 1, numbers + 1, b), b = New
      PROVE  Fresh(n, r)
  BY <1>1, <1>3, RootFields DEF Offered, Fresh
<1>4. ASSUME numbers' = numbers + 1, numbers + 1 \in Numbers,
             NEW c \in Subjects, NEW h \in 1..numbers, r = Child(numbers + 1, numbers + 1, c, h),
             kin' = [kin EXCEPT ![numbers + 1] = {numbers + 1} \cup kin[h]]
      PROVE  Fresh(n, r)
  <2>1. h \in Nat
    BY <1>1
  <2>2. /\ r.secret = numbers + 1 /\ r.bytes = numbers + 1 /\ r.parent = c /\ r.print = h
        /\ ~IsRoot(r)
    BY <1>1, <1>4, <2>1, ChildFields
  <2>3. QED BY <1>1, <1>4, <2>2 DEF Offered, Fresh
<1>5. QED BY <1>2, <1>3, <1>4 DEF Offered

\* An adoption goes on with the row it holds.
LEMMA HeldOn ==
    ASSUME NEW m, NEW k, NEW R, NEW K, HeldBy(m, R, K), k.mine = m.mine,
           Reading(k) <=> Reading(m), Reading(k) => k.hand = m.hand
    PROVE  HeldBy(k, R, K)
BY DEF HeldBy

\* Rows may come with other numbers, or be wrapped anew if they are roots.
LEMMA HeldStays ==
    ASSUME NEW m, NEW R, NEW K, NEW R2, NEW K2, HeldBy(m, R, K), Adoptee \in Subjects,
           K2[m.mine.secret] = K[m.mine.secret],
           \A k \in Subjects :
               \/ R2[k] = R[k]
               \/ R2[k].secret # m.mine.secret /\ R2[k].bytes # m.mine.bytes
               \/ /\ R2[k].secret = R[k].secret /\ R2[k].bytes # m.mine.bytes
                  /\ IsRoot(R[k])
    PROVE  HeldBy(m, R2, K2)
BY DEF HeldBy

LEMMA FreshRow ==
    ASSUME Types, NEW n, NEW r, Fresh(n, r)
    PROVE  /\ rows'[n] = r /\ \A k \in Subjects : k # n => rows'[k] = rows[k]
           /\ \A k \in Subjects : rows[k].secret # r.secret /\ rows[k].print # r.secret
           /\ r.secret \in Numbers /\ r.secret # 0 /\ r.secret \notin 1..numbers
           /\ r.print # r.secret
           /\ \A s \in Numbers : s # r.secret => kin'[s] = kin[s]
           /\ IF IsRoot(r) THEN kin'[r.secret] = kin[r.secret]
                           ELSE kin'[r.secret] = {r.secret} \cup kin[r.print]
<1>1. numbers \in Nat /\ rows \in [Subjects -> Row] /\ kin \in [Numbers -> SUBSET Numbers]
  BY Chains DEF Types
<1>2. \A k \in Subjects : rows[k].secret \in Nat /\ rows[k].secret <= numbers
                          /\ rows[k].print \in Nat /\ rows[k].print <= numbers
  BY DEF Types, RowOK, Row
<1>3. \A k \in Subjects : rows[k].secret # r.secret /\ rows[k].print # r.secret
  BY <1>1, <1>2 DEF Fresh
<1>4. /\ r.secret \in Numbers /\ r.secret # 0 /\ r.secret \notin 1..numbers
      /\ r.print # r.secret
  BY <1>1 DEF Fresh
<1>5. rows'[n] = r /\ \A k \in Subjects : k # n => rows'[k] = rows[k]
  BY <1>1 DEF Fresh
<1>6. /\ \A s \in Numbers : s # r.secret => kin'[s] = kin[s]
      /\ IF IsRoot(r) THEN kin'[r.secret] = kin[r.secret]
                      ELSE kin'[r.secret] = {r.secret} \cup kin[r.print]
  BY <1>1, <1>4 DEF Fresh
<1>7. QED BY <1>3, <1>4, <1>5, <1>6

LEMMA FreshKeeps ==
    ASSUME Types, Lives, Snapped, KinGrows, NEW n, NEW r, Fresh(n, r),
           UNCHANGED <<erased, snapshot>>
    PROVE  Lives' /\ Snapped' /\ KinGrows'
<1>1. n \in Subjects /\ numbers \in Nat /\ numbers' = numbers + 1
  BY Chains DEF Types, Fresh
<1>2. r.secret \notin erased
  BY FreshRow DEF Types
<1>3. Lives'
  BY <1>1, <1>2, FreshRow DEF Lives, Present
<1>4. Snapped'
  <2> SUFFICES ASSUME NEW x \in snapshot.roots, rows'[x.subject].master = x.master
               PROVE  rows'[x.subject].secret = x.secret
    BY DEF Snapped
  <2>1. x.subject \in Subjects /\ x.master \in Masters /\ x.master # New
    BY DEF Types
  <2>2. r.master \in {New, NoMaster} /\ NoMaster \notin Masters
    BY SubjectAssumption DEF Fresh, IsRoot
  <2>3. x.subject # n
    BY <2>1, <2>2, FreshRow
  <2>4. QED BY <2>1, <2>3, FreshRow DEF Snapped
<1>5. KinGrows'
  <2> SUFFICES ASSUME NEW s \in Numbers
               PROVE  s \in kin'[s] /\ (s > numbers' => kin'[s] = {s})
    BY DEF KinGrows
  <2>1. s \in Nat /\ r.secret = numbers + 1
    BY Chains DEF Numbers, Fresh
  <2>2. s > numbers' => s # r.secret /\ s > numbers
    BY <1>1, <2>1
  <2>3. QED BY <2>1, <2>2, FreshRow DEF KinGrows
<1>6. QED BY <1>3, <1>4, <1>5

LEMMA FreshWithin ==
    ASSUME Types, KinGrows, KinWithin, NEW n, NEW r, Fresh(n, r)
    PROVE  KinWithin'
<1> SUFFICES ASSUME NEW L \in SUBSET Subjects, NEW B \in SUBSET L, Broken(L, B)',
                    NEW k \in L
             PROVE  Within(rows[k].secret, L, B)'
  BY DEF KinWithin
<1> DEFINE M == L \ {n}
           C == B \ {n}
<1>1. numbers \in Nat /\ n \in Subjects /\ r.secret = numbers + 1
  BY Chains DEF Types, Fresh
<1>2. Broken(M, C)
  <2> SUFFICES ASSUME NEW j \in M
               PROVE  /\ Present(rows[j])
                      /\ \/ j \in C \/ IsRoot(rows[j])
                         \/ rows[j].parent \in M /\ rows[rows[j].parent].secret = rows[j].print
    BY DEF Broken
  <2>1. rows'[j] = rows[j] /\ j \in Subjects
    BY FreshRow
  <2>2. /\ Present(rows[j])
        /\ \/ j \in B \/ IsRoot(rows[j])
           \/ rows[j].parent \in L /\ rows'[rows[j].parent].secret = rows[j].print
    BY <2>1 DEF Broken
  <2>3. rows[j].parent = n => rows'[rows[j].parent].secret # rows[j].print
    BY <2>1, FreshRow
  <2>4. QED BY <2>1, <2>2, <2>3, FreshRow
<1>3. \A j \in M : /\ rows'[j] = rows[j] /\ j \in Subjects /\ rows[j].secret \in Numbers
                   /\ kin'[rows[j].secret] = kin[rows[j].secret]
  <2> TAKE j \in M
  <2>1. rows'[j] = rows[j] /\ j \in Subjects
    BY FreshRow
  <2>2. Present(rows[j]) /\ RowOK(rows[j], numbers)
    BY <1>2 DEF Broken, Types
  <2>3. rows[j].secret \in 1..numbers /\ numbers <= MaxNumbers
    BY <1>1, <2>2, RowNumbers, Chains DEF Types
  <2>4. rows[j].secret \in Numbers
    BY <1>1, <2>3, Chains DEF Numbers
  <2>5. QED BY <2>1, <2>4, FreshRow
<1>4. \A j \in M : Within(rows[j].secret, M, C)
  BY <1>2 DEF KinWithin
<1>5. CASE k # n
  <2>1. Within(rows[k].secret, M, C) /\ rows'[k] = rows[k]
        /\ kin'[rows[k].secret] = kin[rows[k].secret]
    BY <1>3, <1>4, <1>5
  <2> HIDE DEF M, C
  <2>2. M \subseteq L /\ C \subseteq B /\ C \subseteq M
    BY DEF M, C
  <2>3. QED BY <1>3, <2>1, <2>2 DEF Within
<1>6. CASE k = n /\ k \in B
  BY <1>6 DEF Within
<1>7. CASE k = n /\ IsRoot(r)
  <2>1. kin'[r.secret] = {r.secret} /\ rows'[k] = r
    BY <1>1, <1>7, FreshRow DEF KinGrows
  <2>2. QED BY <2>1 DEF Within
<1>8. CASE k = n /\ k \notin B /\ ~IsRoot(r)
  <2>1. rows'[k] = r /\ kin'[r.secret] = {r.secret} \cup kin[r.print]
    BY <1>8, FreshRow
  <2>2. r.parent \in L /\ rows'[r.parent].secret = r.print
    BY <1>8, <2>1 DEF Broken
  <2>3. r.parent \in M /\ rows[r.parent].secret = r.print
    BY <1>3, <2>1, <2>2, <1>8, FreshRow
  <2>4. Within(r.print, M, C)
    BY <1>4, <2>3
  <2> HIDE DEF M, C
  <2>5. M \subseteq L /\ C \subseteq B /\ C \subseteq M
    BY DEF M, C
  <2>6. QED BY <1>3, <2>1, <2>4, <2>5 DEF Within
<1>9. QED BY <1>5, <1>6, <1>7, <1>8

LEMMA MineNumbers ==
    ASSUME Types, at[Adopter].pc # "idle"
    PROVE  /\ at[Adopter].mine.secret \in 1..numbers /\ at[Adopter].mine.bytes \in 1..numbers
           /\ at[Adopter].mine.secret \in Numbers /\ numbers \in Nat
<1>1. RowOK(at[Adopter].mine, numbers) /\ Present(at[Adopter].mine) /\ numbers \in Nat
      /\ numbers <= MaxNumbers
  BY Chains DEF Types, PlaceOK
<1>2. at[Adopter].mine.secret \in 1..numbers /\ at[Adopter].mine.bytes \in 1..numbers
  BY <1>1, RowNumbers
<1>3. QED BY <1>1, <1>2, Chains DEF Numbers

\* Rows are wrapped anew: every secret stays where it is.
LEMMA RewiredKeeps ==
    ASSUME Types, Lives, KinGrows, KinWithin, UNCHANGED <<erased, kin>>,
           numbers' \in Nat, numbers <= numbers',
           \A k \in Subjects :
               /\ rows'[k].secret = rows[k].secret
               /\ \/ rows'[k] = rows[k]
                  \/ IsRoot(rows[k])
                  \/ kin[rows[k].secret] = {rows[k].secret}
    PROVE  Lives' /\ KinGrows' /\ KinWithin'
<1>1. Lives'
  BY DEF Lives, Present
<1>2. KinGrows'
  <2> SUFFICES ASSUME NEW s \in Numbers, s > numbers' PROVE s > numbers
    BY DEF KinGrows
  <2>1. s \in Nat /\ numbers \in Nat
    BY Chains DEF Types, Numbers
  <2>2. QED BY <2>1
<1>3. KinWithin'
  <2> SUFFICES ASSUME NEW L \in SUBSET Subjects, NEW B \in SUBSET L, Broken(L, B)',
                      NEW n \in L
               PROVE  Within(rows[n].secret, L, B)'
    BY DEF KinWithin
  <2> DEFINE D == {k \in L : kin[rows[k].secret] = {rows[k].secret}}
  <2>1. Broken(L, B \cup D)
    BY DEF Broken, Present
  <2>2. Within(rows[n].secret, L, B \cup D)
    BY <2>1 DEF KinWithin
  <2>3. QED BY <2>2 DEF Within
<1>4. QED BY <1>1, <1>2, <1>3

LEMMA SafeInsert ==
    ASSUME Safe, ServerMaster = New, NEW p \in Processes, Insert(p)
    PROVE  Safe'
<1> USE DEF Safe
<1>1. PICK n \in Subjects, r \in Row : Offered(n, r)
  BY InsertOffers
<1>2. Goes(p, at[p], at'[p], numbers') /\ Types' /\ UNCHANGED <<erased, snapshot>>
      /\ at[p].pc = "insert"
  BY InsertOffers, TypesInsert DEF Insert
<1>3. UNCHANGED <<rows, numbers, kin>> \/ Fresh(n, r)
  BY <1>1, OfferedCases
<1>4. Lives' /\ Snapped' /\ KinGrows' /\ KinWithin'
  <2>1. CASE UNCHANGED <<rows, numbers, kin>>
    <3>1. Snapped'
      BY <1>2, <2>1 DEF Snapped
    <3>2. Lives' /\ KinGrows' /\ KinWithin'
      BY <1>2, <2>1, Chains, RewiredKeeps DEF Types
    <3>3. QED BY <3>1, <3>2
  <2>2. CASE Fresh(n, r)
    BY <1>2, <2>2, FreshKeeps, FreshWithin
  <2>3. QED BY <1>3, <2>1, <2>2
<1>5. Held'
  <2> SUFFICES ASSUME at'[Adopter].pc # "idle" PROVE HeldBy(at'[Adopter], rows', kin')
    BY DEF Held
  <2> DEFINE m == at[Adopter]
  <2>1. /\ m.pc # "idle" /\ at'[Adopter].mine = m.mine
        /\ Reading(at'[Adopter]) <=> Reading(m)
        /\ Reading(at'[Adopter]) => at'[Adopter].hand = m.hand
    <3>1. CASE p = Adopter
      BY <1>2, <3>1, IdleFields DEF Goes, Reading
    <3>2. CASE p # Adopter
      <4>1. at'[Adopter] = at[Adopter]
        BY <3>2, Chains DEF Insert, Go, Types
      <4>2. QED BY <4>1
    <3>3. QED BY <3>1, <3>2
  <2>2. HeldBy(m, rows, kin)
    BY <2>1 DEF Held
  <2>3. m.mine.secret \in 1..numbers /\ m.mine.bytes \in 1..numbers /\ m.mine.secret \in Numbers
        /\ numbers \in Nat
    BY <2>1, MineNumbers
  <2>4. HeldBy(m, rows', kin')
    <3>1. CASE UNCHANGED <<rows, numbers, kin>>
      BY <2>2, <3>1
    <3>2. CASE Fresh(n, r)
      <4>1. r.secret = numbers + 1 /\ r.bytes = numbers + 1
        BY <3>2 DEF Fresh
      <4>2. r.secret # m.mine.secret /\ r.bytes # m.mine.bytes
        BY <2>3, <4>1
      <4>3. kin'[m.mine.secret] = kin[m.mine.secret]
        BY <2>3, <3>2, <4>2, FreshRow
      <4>4. \A k \in Subjects :
               rows'[k] = rows[k]
               \/ (rows'[k].secret # m.mine.secret /\ rows'[k].bytes # m.mine.bytes)
        BY <3>2, <4>2, FreshRow
      <4> HIDE DEF m
      <4>5. QED BY <2>2, <4>3, <4>4, Chains, HeldStays
    <3>3. QED BY <1>3, <3>1, <3>2
  <2> HIDE DEF m
  <2>5. QED BY <2>1, <2>4, HeldOn
<1>6. QED BY <1>2, <1>4, <1>5

LEMMA SafeErase ==
    ASSUME Safe, (\E n \in Subjects : Erase(n)) \/ Sweep
    PROVE  Safe'
<1> USE DEF Safe
<1>1. /\ \A k \in Subjects : rows'[k] = rows[k] \/ rows'[k] = NoRow
      /\ \A k \in Subjects : Present(rows'[k]) => rows'[k] = rows[k]
      /\ UNCHANGED <<numbers, at, snapshot, kin>>
  <2>1. \A k \in Subjects : rows'[k] = rows[k] \/ rows'[k] = NoRow
    BY DEF Erase, Sweep, Types
  <2>2. UNCHANGED <<numbers, at, snapshot, kin>>
    BY DEF Erase, Sweep
  <2>3. QED BY <2>1, <2>2, NoRowFields DEF Present
<1>2. \A k \in Subjects : Present(rows'[k]) => rows'[k].secret \notin erased'
  <2> SUFFICES ASSUME NEW k \in Subjects, Present(rows'[k])
               PROVE  rows'[k].secret \notin erased'
    OBVIOUS
  <2>1. rows'[k] = rows[k] /\ rows[k].secret \notin erased
    BY <1>1 DEF Lives
  <2>2. CASE \E n \in Subjects : Erase(n)
    <3>1. PICK n \in Subjects : Erase(n)
      BY <2>2
    <3>2. rows'[n] = NoRow /\ erased' = erased \cup {rows[n].secret}
      BY <3>1 DEF Erase, Types
    <3>3. k # n
      BY <3>2, NoRowFields DEF Present
    <3>4. rows[n].secret # rows[k].secret
      BY <2>1, <3>3 DEF Lives
    <3>5. QED BY <2>1, <3>2, <3>4
  <2>3. CASE Sweep
    BY <2>1, <2>3 DEF Sweep
  <2>4. QED BY <2>2, <2>3
<1>3. Lives'
  <2> SUFFICES ASSUME NEW m \in Subjects, Present(rows'[m]), NEW n \in Subjects,
                      rows'[n].secret = rows'[m].secret
               PROVE  n = m
    BY <1>2 DEF Lives
  <2>1. Present(rows'[n])
    BY DEF Present
  <2>2. QED BY <1>1, <2>1 DEF Lives
<1>4. Held'
  <2> SUFFICES ASSUME at[Adopter].pc # "idle" PROVE HeldBy(at[Adopter], rows', kin)
    BY <1>1 DEF Held
  <2> DEFINE m == at[Adopter]
  <2>1. m.mine.secret # 0 /\ m.mine.bytes # 0
    BY MineNumbers
  <2>2. HeldBy(m, rows, kin)
    BY DEF Held
  <2>3. \A k \in Subjects :
           rows'[k] = rows[k]
           \/ (rows'[k].secret # m.mine.secret /\ rows'[k].bytes # m.mine.bytes)
    BY <1>1, <2>1, NoRowFields
  <2> HIDE DEF m
  <2>4. HeldBy(m, rows', kin)
    BY <2>2, <2>3, Chains, HeldStays
  <2>5. QED BY <2>4 DEF m
<1>5. Snapped'
  <2> SUFFICES ASSUME NEW x \in snapshot.roots, rows'[x.subject].master = x.master
               PROVE  rows'[x.subject].secret = x.secret
    BY <1>1 DEF Snapped
  <2>1. x.subject \in Subjects /\ x.master \in Masters /\ NoMaster \notin Masters
    BY SubjectAssumption DEF Types
  <2>2. rows'[x.subject] = rows[x.subject]
    BY <1>1, <2>1, NoRowFields
  <2>3. QED BY <2>2 DEF Snapped
<1>6. KinGrows'
  BY <1>1 DEF KinGrows
<1>7. KinWithin'
  <2> SUFFICES ASSUME NEW L \in SUBSET Subjects, NEW B \in SUBSET L, Broken(L, B)',
                      NEW n \in L
               PROVE  Within(rows[n].secret, L, B)'
    BY DEF KinWithin
  <2>1. \A k \in L : rows'[k] = rows[k]
    BY <1>1 DEF Broken
  <2>2. Broken(L, B)
    BY <2>1 DEF Broken
  <2>3. Within(rows[n].secret, L, B)
    BY <2>2 DEF KinWithin
  <2>4. QED BY <1>1, <2>1, <2>3 DEF Within
<1>8. Types'
  BY TypesErase
<1>9. QED BY <1>3, <1>4, <1>5, <1>6, <1>7, <1>8

\* A step that only moves a process along its chain.
LEMMA SafeQuiet ==
    ASSUME Safe, Types', UNCHANGED <<rows, numbers, erased, kin, snapshot>>,
           \/ at'[Adopter].pc = "idle"
           \/ /\ at[Adopter].pc # "idle" /\ at'[Adopter].mine = at[Adopter].mine
              /\ Reading(at'[Adopter]) <=> Reading(at[Adopter])
              /\ Reading(at'[Adopter]) => at'[Adopter].hand = at[Adopter].hand
    PROVE  Safe'
<1>1. Lives' /\ KinGrows' /\ KinWithin'
  BY Chains, RewiredKeeps DEF Types, Safe
<1>2. Snapped'
  BY DEF Snapped, Safe
<1>3. Held'
  <2> SUFFICES ASSUME at'[Adopter].pc # "idle" PROVE HeldBy(at'[Adopter], rows, kin)
    BY DEF Held
  <2>1. HeldBy(at[Adopter], rows, kin)
    BY DEF Safe, Held
  <2>2. QED BY <2>1, HeldOn
<1>4. QED BY <1>1, <1>2, <1>3 DEF Safe

LEMMA SafeWrite ==
    ASSUME Safe, NEW w \in Writers, BeginWrite(w) \/ Seal(w)
    PROVE  Safe'
<1>1. w # Adopter
  BY ChainAssumption
<1>2. at'[Adopter] = at[Adopter] /\ UNCHANGED <<rows, numbers, erased, kin, snapshot>>
  BY <1>1, Chains DEF BeginWrite, Seal, Go, Safe, Types
<1>3. Types'
  BY TypesWrite DEF Safe
<1>4. QED BY <1>2, <1>3, SafeQuiet

LEMMA SafeRead ==
    ASSUME Safe, NEW p \in Processes, ReadRow(p)
    PROVE  Safe'
<1>1. Types' /\ Goes(p, at[p], at'[p], numbers) /\ at[p].pc \in {"look", "reload"}
  BY TypesRead DEF Safe, ReadRow
<1>2. /\ UNCHANGED <<rows, numbers, erased, kin, snapshot>>
      /\ p # Adopter => at'[Adopter] = at[Adopter]
  BY Chains DEF ReadRow, Go, Safe, Types
<1>3. CASE p = Adopter
  BY <1>1, <1>2, <1>3, IdleFields, SafeQuiet DEF Goes, Reading
<1>4. CASE p # Adopter
  BY <1>1, <1>2, <1>4, SafeQuiet
<1>5. QED BY <1>3, <1>4

LEMMA SafeReadBack ==
    ASSUME Safe, ReadBack
    PROVE  Safe'
<1>1. Types' /\ Returns(Adopter, at[Adopter], at'[Adopter], numbers)
      /\ at[Adopter].pc = "readback"
  BY TypesReadBack DEF Safe, ReadBack
<1>2. UNCHANGED <<rows, numbers, erased, kin, snapshot>>
  BY DEF ReadBack
<1>3. QED BY <1>1, <1>2, IdleFields, SafeQuiet DEF Returns, Reading

\* The step that reads a moved row back: what its parent hangs from takes it along.
LEMMA AdoptedWithin ==
    ASSUME Safe, NEW s \in Numbers, NEW h \in Numbers, NEW A \in Subjects,
           \A k \in Subjects : rows[k].secret = s => k = A,
           rows[A].secret = s => rows[A].parent \in Subjects /\ rows[A].print = h /\ ~IsRoot(rows[A]),
           UNCHANGED rows,
           kin' = [x \in Numbers |-> IF s \in kin[x] THEN kin[x] \cup kin[h] ELSE kin[x]]
    PROVE  KinWithin'
<1> USE DEF Safe
<1> SUFFICES ASSUME NEW L \in SUBSET Subjects, NEW B \in SUBSET L, Broken(L, B), NEW n \in L
             PROVE  Within(rows[n].secret, L, B)'
  BY DEF KinWithin, Broken
<1>1. \A k \in L : rows[k].secret \in Numbers
  <2> TAKE k \in L
  <2>1. Present(rows[k]) /\ RowOK(rows[k], numbers) /\ numbers \in Nat /\ numbers <= MaxNumbers
    BY Chains DEF Broken, Types
  <2>2. rows[k].secret \in 1..numbers
    BY <2>1, RowNumbers
  <2>3. QED BY <2>1, <2>2, Chains DEF Numbers
<1>2. \A k \in L : Within(rows[k].secret, L, B)
  BY DEF KinWithin
<1>3. \A b \in B : kin[rows[b].secret] \subseteq kin'[rows[b].secret]
  BY <1>1
<1>4. \A b \in B : s \in kin[rows[b].secret] => kin[h] \subseteq kin'[rows[b].secret]
  BY <1>1
<1>5. ASSUME NEW k \in L, rows[k].secret = s, NEW x \in kin[h]
      PROVE  (\E j \in L : x = rows[j].secret) \/ (\E b \in B : x \in kin'[rows[b].secret])
  <2>1. k = A /\ ~IsRoot(rows[k]) /\ rows[k].print = h
    BY <1>5
  <2>2. CASE k \in B
    <3>1. s \in kin[s]
      BY DEF KinGrows
    <3>2. QED BY <1>4, <1>5, <2>2, <3>1
  <2>3. CASE k \notin B
    <3>1. rows[k].parent \in L /\ rows[rows[k].parent].secret = h
      BY <2>1, <2>3 DEF Broken
    <3>2. Within(h, L, B)
      BY <1>2, <3>1
    <3>3. QED BY <1>3, <1>5, <3>2 DEF Within
  <2>4. QED BY <2>2, <2>3
<1>6. ASSUME NEW x \in kin'[rows[n].secret]
      PROVE  (\E j \in L : x = rows[j].secret) \/ (\E b \in B : x \in kin'[rows[b].secret])
  <2>1. CASE x \in kin[rows[n].secret]
    BY <1>2, <1>3, <2>1 DEF Within
  <2>2. CASE x \notin kin[rows[n].secret]
    <3>1. s \in kin[rows[n].secret] /\ x \in kin[h]
      BY <1>1, <1>6, <2>2
    <3>2. (\E j \in L : s = rows[j].secret) \/ (\E b \in B : s \in kin[rows[b].secret])
      BY <1>2, <3>1 DEF Within
    <3>3. QED BY <1>4, <1>5, <3>1, <3>2
  <2>3. QED BY <2>1, <2>2
<1>7. QED BY <1>6 DEF Within

LEMMA SafeClimb ==
    ASSUME Safe, NEW p \in Processes, Climb(p)
    PROVE  Safe'
<1> USE DEF Safe
<1> DEFINE m == at[p]
           r == rows[m.up]
           s == m.mine.secret
           adopted == m.why = "readback" /\ m.secret = s /\ IsLast(m, r)
<1>1. /\ Types' /\ m.pc = "climb"
      /\ at'[p] = ClimbTo(p, m, r)
      /\ IF m.why = "readback" THEN Returns(p, m, at'[p], numbers)
                               ELSE Goes(p, m, at'[p], numbers)
  BY TypesClimb DEF Climb
<1>2. /\ UNCHANGED <<rows, numbers, erased, snapshot>>
      /\ p # Adopter => at'[Adopter] = at[Adopter]
      /\ kin' = IF adopted THEN [x \in Numbers |-> IF s \in kin[x]
                                        THEN kin[x] \cup kin[m.hand] ELSE kin[x]]
                           ELSE kin
  BY Chains DEF Climb, Go, Types
<1>3. PlaceOK(p, m, numbers)
  BY DEF Types
<1>4. CASE ~adopted
  <2>1. UNCHANGED <<rows, numbers, erased, kin, snapshot>>
    BY <1>2, <1>4
  <2>2. CASE p = Adopter
    <3>1. at[Adopter].pc # "idle" /\ (Reading(m) <=> m.why = "readback")
      BY <1>1, <2>2 DEF Reading
    <3>2. CASE m.why = "readback"
      BY <1>1, <2>1, <2>2, <3>1, <3>2, IdleFields, SafeQuiet DEF Returns
    <3>3. CASE m.why # "readback"
      BY <1>1, <2>1, <2>2, <3>1, <3>3, IdleFields, SafeQuiet DEF Goes
    <3>4. QED BY <3>2, <3>3
  <2>3. CASE p # Adopter
    BY <1>1, <1>2, <2>1, <2>3, SafeQuiet
  <2>4. QED BY <2>2, <2>3
<1>5. CASE adopted
  <2>1. p = Adopter /\ Reading(m) /\ m.hand # 0 /\ m.hand <= numbers /\ m.hand \in 0..MaxNumbers
    BY <1>1, <1>3, <1>5 DEF PlaceOK, Reading, Place
  <2>2. /\ s \in Numbers /\ s \in 1..numbers /\ m.hand \in Numbers /\ m.hand \in 1..numbers
        /\ numbers \in Nat
    <3>1. s \in Numbers /\ s \in 1..numbers /\ numbers \in Nat
      BY <1>1, <2>1, MineNumbers
    <3>2. QED BY <2>1, <3>1, Chains DEF Numbers
  <2>3. HeldBy(m, rows, kin)
    BY <1>1, <2>1 DEF Held
  <2>4. /\ \A k \in Subjects : rows[k].secret = s => k = Adoptee
        /\ rows[Adoptee].secret = s => /\ rows[Adoptee].parent \in Subjects
                                       /\ rows[Adoptee].print = m.hand
                                       /\ ~IsRoot(rows[Adoptee])
    BY <2>1, <2>3, Chains DEF HeldBy
  <2>5. kin' = [x \in Numbers |-> IF s \in kin[x] THEN kin[x] \cup kin[m.hand] ELSE kin[x]]
    BY <1>2, <1>5
  <2> HIDE DEF s
  <2>6. KinWithin'
    BY <1>2, <2>2, <2>4, <2>5, Chains, AdoptedWithin
  <2>7. KinGrows'
    <3> SUFFICES ASSUME NEW x \in Numbers
                 PROVE  x \in kin'[x] /\ (x > numbers => kin'[x] = {x})
      BY <1>2 DEF KinGrows
    <3>1. x \in kin[x] /\ (x > numbers => kin[x] = {x})
      BY DEF KinGrows
    <3>2. x > numbers => x # s
      BY <2>2
    <3>3. QED BY <2>5, <3>1, <3>2
  <2>8. Lives' /\ Snapped'
    BY <1>2 DEF Lives, Snapped
  <2>9. Held'
    <3>1. m.why = "readback" /\ IsLast(m, r)
      BY <1>5
    <3>2. ClimbTo(p, m, r) = Idle
      BY <3>1 DEF ClimbTo, Opens, IsLast
    <3>3. QED BY <1>1, <2>1, <3>2, IdleFields DEF Held
  <2>10. QED BY <1>1, <2>6, <2>7, <2>8, <2>9
<1>6. QED BY <1>4, <1>5

LEMMA SafeBeginAdoption ==
    ASSUME Safe, BeginAdoption
    PROVE  Safe'
<1> USE DEF Safe
<1> DEFINE k == [Look(Idle, 2, 1) EXCEPT !.mine = rows[Adoptee]]
<1>1. /\ UNCHANGED <<rows, numbers, erased, kin, snapshot>> /\ at'[Adopter] = k
      /\ Present(rows[Adoptee]) /\ IsRoot(rows[Adoptee])
  BY Chains DEF BeginAdoption, Go, Types
<1>2. k.mine = rows[Adoptee] /\ ~Reading(k)
  BY DEF Look, Idle, Reading
<1>3. kin[rows[Adoptee].secret] = {rows[Adoptee].secret}
  <2>1. Broken({Adoptee}, {})
    BY <1>1 DEF Broken
  <2>2. Within(rows[Adoptee].secret, {Adoptee}, {})
    BY <2>1, Chains DEF KinWithin
  <2>3. RowOK(rows[Adoptee], numbers) /\ numbers \in Nat /\ numbers <= MaxNumbers
    BY Chains DEF Types
  <2>4. rows[Adoptee].secret \in Numbers
    BY <1>1, <2>3, RowNumbers, Chains DEF Numbers
  <2>5. QED BY <2>2, <2>4 DEF Within, KinGrows
<1>4. \A n \in Subjects : rows[n].secret = rows[Adoptee].secret => n = Adoptee
  BY <1>1, Chains DEF Lives
<1> HIDE DEF k
<1>5. HeldBy(k, rows, kin)
  BY <1>1, <1>2, <1>3, <1>4 DEF HeldBy
<1>6. Held'
  BY <1>1, <1>5 DEF Held
<1>7. Lives' /\ KinGrows' /\ KinWithin' /\ Snapped'
  <2>1. Snapped'
    BY <1>1 DEF Snapped
  <2>2. QED BY <1>1, <2>1, Chains, RewiredKeeps DEF Types
<1>8. QED BY <1>6, <1>7, TypesBeginAdoption

LEMMA SafeMove ==
    ASSUME Safe, MoveRow
    PROVE  Safe'
<1> USE DEF Safe
<1> DEFINE m == at[Adopter]
           moved == Child(m.mine.secret, numbers + 1, Chain[Adopter][2], m.hand)
           k == [m EXCEPT !.pc = "readback", !.mine = moved]
<1>1. /\ m.pc = "move" /\ UNCHANGED <<snapshot, erased, kin>> /\ Types'
      /\ \/ /\ rows[Adoptee].bytes = m.mine.bytes /\ numbers' = numbers + 1
            /\ rows' = [rows EXCEPT ![Adoptee] = moved] /\ Go(Adopter, k)
         \/ Go(Adopter, Idle) /\ UNCHANGED <<rows, numbers>>
  BY TypesMove DEF MoveRow
<1>2. CASE Go(Adopter, Idle) /\ UNCHANGED <<rows, numbers>>
  <2>1. at'[Adopter].pc = "idle"
    BY <1>2, Chains, IdleFields DEF Go, Types
  <2>2. QED BY <1>1, <1>2, <2>1, SafeQuiet
<1>3. CASE /\ rows[Adoptee].bytes = m.mine.bytes /\ numbers' = numbers + 1
           /\ rows' = [rows EXCEPT ![Adoptee] = moved] /\ Go(Adopter, k)
  <2>1. HeldBy(m, rows, kin) /\ ~Reading(m) /\ m.mine.secret \in 1..numbers /\ numbers \in Nat
    BY <1>1, MineNumbers DEF Held, Reading
  <2>2. rows[Adoptee] = m.mine /\ IsRoot(rows[Adoptee])
    BY <1>3, <2>1 DEF HeldBy
  <2>3. /\ moved.secret = m.mine.secret /\ moved.master = NoMaster /\ ~IsRoot(moved)
        /\ moved.parent = Chain[Adopter][2] /\ moved.print = m.hand
    <3>1. m.hand \in Nat /\ m.mine.secret \in Nat /\ numbers + 1 \in Nat
      BY <2>1, Chains DEF Types, Place
    <3>2. Chain[Adopter][2] \in Subjects
      BY Chains
    <3> DEFINE s == m.mine.secret
               b == numbers + 1
               n == Chain[Adopter][2]
               f == m.hand
    <3>3. moved = Child(s, b, n, f)
      OBVIOUS
    <3>4. s \in Nat /\ b \in Nat /\ n \in Subjects /\ f \in Nat
      BY <3>1, <3>2
    <3> HIDE DEF moved, m, s, b, n, f
    <3>5. /\ moved.secret = s /\ moved.master = NoMaster /\ ~IsRoot(moved)
          /\ moved.parent = n /\ moved.print = f
      BY <3>3, <3>4, ChildFields
    <3>6. QED BY <3>5 DEF s, n, f
  <2>4. at'[Adopter] = k /\ rows'[Adoptee] = moved
        /\ \A n \in Subjects : n # Adoptee => rows'[n] = rows[n]
    BY <1>3, Chains DEF Go, Types
  <2>5. k.mine = moved /\ Reading(k) /\ k.hand = m.hand
    BY Chains DEF Reading, Types, Place
  <2> HIDE DEF moved, k, m
  <2>6. \A n \in Subjects : /\ rows'[n].secret = rows[n].secret
                            /\ rows'[n] = rows[n] \/ IsRoot(rows[n])
    BY <2>2, <2>3, <2>4
  <2>7. Lives' /\ KinGrows' /\ KinWithin'
    BY <1>1, <1>3, <2>1, <2>6, RewiredKeeps
  <2>8. Held'
    <3>1. HeldBy(k, rows', kin')
      BY <1>1, <2>1, <2>3, <2>4, <2>5, <2>6 DEF HeldBy
    <3>2. QED BY <2>4, <3>1 DEF Held
  <2>9. Snapped'
    <3> SUFFICES ASSUME NEW x \in snapshot.roots, rows'[x.subject].master = x.master
                 PROVE  rows'[x.subject].secret = x.secret
      BY <1>1 DEF Snapped
    <3>1. x.subject \in Subjects /\ x.master \in Masters /\ NoMaster \notin Masters
      BY SubjectAssumption DEF Types
    <3>2. x.subject # Adoptee
      BY <2>3, <2>4, <3>1
    <3>3. QED BY <2>4, <3>1, <3>2 DEF Snapped
  <2>10. QED BY <1>1, <2>7, <2>8, <2>9
<1>4. QED BY <1>1, <1>2, <1>3

LEMMA SafeRestore ==
    ASSUME Safe, RestoreRoot
    PROVE  Safe'
<1> USE DEF Safe
<1> DEFINE m == at[Adopter]
           root == Root(m.mine.secret, numbers + 1, New)
<1>1. /\ m.pc = "undo" /\ UNCHANGED <<snapshot, erased, kin>> /\ Types'
      /\ Go(Adopter, Idle)
      /\ \/ /\ rows[Adoptee].bytes = m.mine.bytes /\ numbers' = numbers + 1
            /\ rows' = [rows EXCEPT ![Adoptee] = root]
         \/ UNCHANGED <<rows, numbers>>
  BY TypesRestore DEF RestoreRoot
<1>2. at'[Adopter].pc = "idle"
  BY <1>1, Chains, IdleFields DEF Go, Types
<1>3. CASE UNCHANGED <<rows, numbers>>
  BY <1>1, <1>2, <1>3, SafeQuiet
<1>4. CASE /\ rows[Adoptee].bytes = m.mine.bytes /\ numbers' = numbers + 1
           /\ rows' = [rows EXCEPT ![Adoptee] = root]
  <2>1. HeldBy(m, rows, kin) /\ m.mine.secret \in 1..numbers /\ numbers \in Nat
    BY <1>1, MineNumbers DEF Held
  <2>2. rows[Adoptee] = m.mine /\ kin[m.mine.secret] = {m.mine.secret}
    BY <1>4, <2>1 DEF HeldBy
  <2>3. root.secret = m.mine.secret /\ root.master = New
    <3>1. m.mine.secret \in Nat /\ numbers + 1 \in Nat /\ New \in Masters
      BY <2>1 DEF Masters
    <3>2. QED BY <3>1, RootFields
  <2>4. rows'[Adoptee] = root /\ \A n \in Subjects : n # Adoptee => rows'[n] = rows[n]
    BY <1>4, Chains DEF Types
  <2> HIDE DEF root, m
  <2>5. Lives' /\ KinGrows' /\ KinWithin'
    BY <1>1, <1>4, <2>1, <2>2, <2>3, <2>4, RewiredKeeps
  <2>6. Held'
    BY <1>2 DEF Held
  <2>7. Snapped'
    <3> SUFFICES ASSUME NEW x \in snapshot.roots, rows'[x.subject].master = x.master
                 PROVE  rows'[x.subject].secret = x.secret
      BY <1>1 DEF Snapped
    <3>1. x.subject \in Subjects /\ x.master # New
      BY DEF Types
    <3>2. x.subject # Adoptee
      BY <2>3, <2>4, <3>1
    <3>3. QED BY <2>4, <3>1, <3>2 DEF Snapped
  <2>8. QED BY <1>1, <2>5, <2>6, <2>7
<1>5. QED BY <1>1, <1>3, <1>4

LEMMA SafeBeginRotation ==
    ASSUME Safe, BeginRotation
    PROVE  Safe'
<1> USE DEF Safe
<1>1. UNCHANGED <<rows, numbers, erased, kin, at>>
  BY DEF BeginRotation
<1>2. Lives' /\ KinGrows' /\ KinWithin' /\ Held'
  <2>1. Lives' /\ KinGrows' /\ KinWithin'
    BY <1>1, Chains, RewiredKeeps DEF Types
  <2>2. QED BY <1>1, <2>1 DEF Held
<1>3. Snapped'
  BY <1>1 DEF Snapped, BeginRotation
<1>4. QED BY <1>2, <1>3, TypesBeginRotation

LEMMA SafeRewrap ==
    ASSUME Safe, Rewrap
    PROVE  Safe'
<1> USE DEF Safe
<1>1. UNCHANGED <<erased, kin, at>> /\ snapshot' = NoSnapshot /\ Types'
  BY TypesRewrap DEF Rewrap
<1>2. numbers \in Nat /\ numbers' \in Nat /\ numbers <= numbers' /\ New \in Masters
  BY RewrapsRows, Chains DEF Types, Masters
<1>3. \A n \in Subjects :
        \/ rows'[n] = rows[n]
        \/ /\ rows'[n].secret = rows[n].secret /\ IsRoot(rows[n])
           /\ rows'[n].bytes = numbers + 1
  <2> TAKE n \in Subjects
  <2>1. ASSUME NEW r \in snapshot.roots, r.subject = n, r.master = rows[n].master,
               rows[n].master \in Masters, rows'[n] = Root(r.secret, numbers + 1, New)
        PROVE  /\ rows'[n].secret = rows[n].secret /\ IsRoot(rows[n])
               /\ rows'[n].bytes = numbers + 1
    <3>1. r.secret = rows[n].secret /\ r.secret \in Nat
      BY <2>1 DEF Snapped, Types
    <3>2. QED BY <1>2, <2>1, <3>1, RootFields, SubjectAssumption DEF IsRoot
  <2>2. QED BY <2>1, RewrapsRows
<1>4. Lives' /\ KinGrows' /\ KinWithin'
  <2>1. \A n \in Subjects : rows'[n].secret = rows[n].secret
                            /\ (rows'[n] = rows[n] \/ IsRoot(rows[n]))
    BY <1>3
  <2>2. QED BY <1>1, <1>2, <2>1, RewiredKeeps
<1>5. Snapped'
  BY <1>1 DEF Snapped, NoSnapshot
<1>6. Held'
  <2> SUFFICES ASSUME at[Adopter].pc # "idle" PROVE HeldBy(at[Adopter], rows', kin)
    BY <1>1 DEF Held
  <2> DEFINE m == at[Adopter]
  <2>1. numbers + 1 # m.mine.bytes
    BY <1>2, MineNumbers
  <2>2. HeldBy(m, rows, kin)
    BY DEF Held
  <2> HIDE DEF m
  <2>3. HeldBy(m, rows', kin)
    BY <1>3, <2>1, <2>2, Chains, HeldStays
  <2>4. QED BY <2>3 DEF m
<1>7. QED BY <1>1, <1>4, <1>5, <1>6

LEMMA SafeStep ==
    ASSUME Safe, ServerMaster = New, [Next]_vars
    PROVE  Safe'
<1>1. CASE UNCHANGED vars
  <2>1. UNCHANGED <<rows, numbers, erased, kin, snapshot, at>>
    BY <1>1 DEF vars
  <2>2. Types'
    BY TypesStep DEF Safe
  <2>3. QED BY <2>1, <2>2, SafeQuiet
<1>2. CASE Next
  BY <1>2, SafeWrite, SafeRead, SafeClimb, SafeInsert, SafeErase, SafeBeginAdoption, SafeMove,
     SafeReadBack, SafeRestore, SafeBeginRotation, SafeRewrap DEF Next
<1>3. QED BY <1>1, <1>2

\* When the live process mints under the master that the rotation leads to, what an
\* erasure shredded never reads again, whatever is minted, replaced, adopted, undone,
\* rewrapped or swept at once, along chains of any length and however often it happens.
THEOREM ErasedForGood ==
    ASSUME ServerMaster = New
    PROVE  Spec => []ErasedStays
<1>1. Safe /\ [Next]_vars => Safe'
  BY SafeStep
<1>2. Init => Safe
  BY SafeInit
<1>3. Safe => ErasedStays
  BY SafeErased
<1>4. QED BY <1>1, <1>2, <1>3, PTL DEF Spec

-----------------------------------------------------------------------------
(* Loss.                                                                   *)
(*                                                                         *)
(* A secret that is in no row is gone for a reason that lasts: an erasure, *)
(* or an adoption that moved a row and did not read it back.  While an     *)
(* adoption reads back the row it moved, what hangs from that row also     *)
(* hangs from the new parent, though kin does not say so yet.              *)

InRow(x) == \E n \in Subjects : rows[n].secret = x

\* The row in hand of an adoption that has yet to read it back.
Moved == IF Reading(at[Adopter]) THEN {at[Adopter].mine} ELSE {}

\* Something x hangs from was erased, or was moved by an adoption that is over.
Excused(x) == \/ kin[x] \cap erased # {}
              \/ \E r \in strayed \ Moved : r.secret \in kin[x]

\* So is x, or it hangs from the moved row and the new parent is.
Gone(x) ==
    \/ Excused(x)
    \/ \E r \in Moved : r.secret \in kin[x] /\ Excused(r.print)

\* All that x hangs from is in rows, or something is gone.
Kept(x) == Gone(x) \/ \A k \in kin[x] : InRow(k)

\* A walk from x that means to read f next is on its way up what x hangs from.
Leads(x, f) ==
    \/ Gone(x) \/ f \in kin[x]
    \/ \E r \in Moved : r.secret \in kin[x] /\ f \in kin[r.print]

\* A secret that was drawn is in the row of n or in none.
Owns(x, n) == x \in 1..numbers /\ \A k \in Subjects : rows[k].secret = x => k = n

\* What x hangs from was drawn, and hangs from no more than x does.
KinTrans ==
    \A x \in 1..numbers :
        kin[x] \subseteq 1..numbers /\ \A k \in kin[x] : kin[k] \subseteq kin[x]

\* A child hangs from its parent, but for a moved row that is not read back.
Hangs(n) ==
    /\ Present(rows[n]) => Kept(rows[n].secret)
    /\ Present(rows[n]) /\ ~IsRoot(rows[n]) =>
        /\ Owns(rows[n].print, rows[n].parent)
        /\ rows[n].print \in kin[rows[n].secret] \/ rows[n] \in Moved

SealedKept == \A e \in sealed : Kept(e.secret) /\ Owns(e.secret, e.subject)

\* A row that was looked at and did not open never will.
Lapsed(r) == Present(r) => Gone(r.secret)

\* The row a mint means to replace is known by its bytes.
Names(r, n) ==
    Present(r) => /\ r.secret \in 1..numbers /\ r.bytes \in 1..numbers
                  /\ rows[n].bytes = r.bytes => rows[n].secret = r.secret

Mints(m) == m.pc \in {"look", "reload", "insert"} \/ (m.pc = "climb" /\ m.why # "readback")

\* The link a mint is at has been looked at and has not opened.
Looked(m) == m.pc \in {"reload", "insert"} \/ m.why = "reload"

MintKept(p, m) ==
    /\ m.level >= First(p)
    /\ \A i \in Levels : i <= Len(Chain[p]) => Names(m.stale[i], Chain[p][i])
    /\ \A i \in First(p)..m.level : i < m.level \/ Looked(m) => Lapsed(m.stale[i])
    /\ m.pc = "climb" =>
        /\ Kept(m.secret) /\ Owns(m.secret, Chain[p][m.level])
        /\ Leads(m.secret, m.print) /\ Owns(m.print, m.up)
        /\ m.why = "look" => m.stale[m.level].secret = m.secret /\ Present(m.stale[m.level])
    /\ m.pc = "insert" /\ m.level < Len(Chain[p]) =>
        Kept(m.hand) /\ Owns(m.hand, Chain[p][m.level + 1])

PlaceKept(p, m) ==
    /\ Mints(m) => MintKept(p, m)
    /\ m.pc \in {"seal", "move"} \/ Reading(m) => Kept(m.hand) /\ Owns(m.hand, Chain[p][First(p)])
    /\ Reading(m) => m.mine \in strayed
    /\ m.pc = "climb" /\ m.why = "readback" => m.secret = m.mine.secret \/ ~InRow(m.mine.secret)

\* The inductive invariant behind NoLoss, given Safe.
Whole ==
    /\ KinTrans /\ SealedKept
    /\ \A n \in Subjects : Hangs(n)
    /\ \A p \in Processes : PlaceKept(p, at[p])

\* What lasts over a step: what is gone stays gone, and no secret or bytes come back.
Carries ==
    /\ numbers \in Nat /\ numbers' \in Nat /\ numbers <= numbers'
    /\ \A x \in 1..numbers :
         /\ Gone(x) => Gone(x)'
         /\ Kept(x) => Kept(x)'
         /\ \A f : Leads(x, f) => Leads(x, f)'
    /\ \A n \in Subjects : rows'[n].secret \in 1..numbers => rows'[n].secret = rows[n].secret
    /\ \A n \in Subjects : rows'[n].bytes \in 1..numbers => rows'[n] = rows[n]

\* What hangs from something gone is gone.
LEMMA GoneTrans ==
    ASSUME KinTrans, NEW x \in 1..numbers, NEW k \in kin[x], Gone(k)
    PROVE  Gone(x)
<1>1. kin[k] \subseteq kin[x]
  BY DEF KinTrans
<1>2. Excused(k) => Excused(x)
  BY <1>1 DEF Excused
<1>3. QED BY <1>1, <1>2 DEF Gone

\* The row being read back hangs from the parent in hand.
LEMMA MovedRow ==
    ASSUME Safe
    PROVE  \A r \in Moved : /\ r = at[Adopter].mine /\ Reading(at[Adopter])
                            /\ r.secret \in 1..numbers /\ r.bytes \in 1..numbers
                            /\ r.print = at[Adopter].hand /\ r.print \in 1..numbers
                            /\ kin[r.secret] = {r.secret} /\ ~IsRoot(r) /\ Present(r)
                            /\ r.parent = Chain[Adopter][2]
<1> SUFFICES ASSUME NEW r \in Moved
             PROVE  /\ r = at[Adopter].mine /\ Reading(at[Adopter])
                    /\ r.secret \in 1..numbers /\ r.bytes \in 1..numbers
                    /\ r.print = at[Adopter].hand /\ r.print \in 1..numbers
                    /\ kin[r.secret] = {r.secret} /\ ~IsRoot(r) /\ Present(r)
                    /\ r.parent = Chain[Adopter][2]
  OBVIOUS
<1> DEFINE m == at[Adopter]
<1>1. r = m.mine /\ Reading(m)
  BY DEF Moved
<1>2. m.pc # "idle"
  BY <1>1 DEF Reading
<1>3. Types /\ HeldBy(m, rows, kin) /\ Present(m.mine) /\ PlaceOK(Adopter, m, numbers)
      /\ numbers \in Nat
  BY <1>2, Chains DEF Safe, Held, Types
<1>4. r.secret \in 1..numbers /\ r.bytes \in 1..numbers
  BY <1>1, <1>3, RowNumbers DEF PlaceOK
<1>5. r.print = m.hand /\ ~IsRoot(r) /\ kin[r.secret] = {r.secret} /\ r.parent = Chain[Adopter][2]
  BY <1>1, <1>3 DEF HeldBy
<1>6. m.hand \in 1..numbers
  <2>1. m.hand # 0 /\ m.hand <= numbers /\ m.hand \in 0..MaxNumbers
    BY <1>1, <1>3 DEF PlaceOK, Place
  <2>2. QED BY <2>1, <1>3, Chains
<1>7. QED BY <1>1, <1>3, <1>4, <1>5, <1>6

\* A step that goes on with the reading back, begins it or gives it up.
LEMMA Carried ==
    ASSUME Safe, KinTrans, numbers' \in Nat, numbers <= numbers',
           erased \subseteq erased', \A x \in 1..numbers : kin'[x] = kin[x],
           strayed \ Moved \subseteq strayed' \ Moved',
           Moved \subseteq Moved' \cup (strayed' \ Moved'),
           \A k \in 1..numbers : InRow(k) => InRow(k)' \/ Gone(k) \/ k \in erased',
           \A n \in Subjects : rows'[n].secret \in 1..numbers => rows'[n].secret = rows[n].secret,
           \A n \in Subjects : rows'[n].bytes \in 1..numbers => rows'[n] = rows[n]
    PROVE  Carries
<1>0. numbers \in Nat
  BY Chains DEF Safe, Types
<1>1. ASSUME NEW x \in 1..numbers, Excused(x) PROVE Excused(x)'
  BY <1>1 DEF Excused
<1>2. ASSUME NEW x \in 1..numbers, NEW r \in Moved, r.secret \in kin[x], r \notin Moved'
      PROVE  Excused(x)'
  BY <1>2 DEF Excused
<1>3. ASSUME NEW x \in 1..numbers, Gone(x) PROVE Gone(x)'
  <2>1. CASE Excused(x)
    BY <1>1, <2>1 DEF Gone
  <2>2. ASSUME NEW r \in Moved, r.secret \in kin[x], Excused(r.print)
        PROVE  Gone(x)'
    <3>1. r.print \in 1..numbers
      BY MovedRow
    <3>2. PICK f \in 1..numbers : f = r.print
      BY <3>1
    <3>3. Excused(f)'
      BY <1>1, <2>2, <3>2
    <3>4. CASE r \in Moved'
      BY <2>2, <3>2, <3>3, <3>4 DEF Gone
    <3>5. CASE r \notin Moved'
      BY <1>2, <2>2, <3>5 DEF Gone
    <3>6. QED BY <3>4, <3>5
  <2>3. QED BY <1>3, <2>1, <2>2 DEF Gone
<1>4. ASSUME NEW x \in 1..numbers, Kept(x) PROVE Kept(x)'
  <2>1. CASE Gone(x)
    BY <1>3, <2>1 DEF Kept
  <2>2. CASE ~Gone(x)
    <3>1. SUFFICES ASSUME NEW k \in kin[x] PROVE InRow(k)' \/ Gone(x)'
      BY DEF Kept
    <3>2. InRow(k) /\ k \in 1..numbers
      BY <1>4, <2>2 DEF Kept, KinTrans
    <3>3. ~Gone(k)
      BY <2>2, GoneTrans
    <3>4. k \in erased' => Gone(x)'
      BY DEF Gone, Excused
    <3>5. QED BY <3>2, <3>3, <3>4
  <2>3. QED BY <2>1, <2>2
<1>5. ASSUME NEW x \in 1..numbers, NEW f, Leads(x, f) PROVE Leads(x, f)'
  <2>1. CASE Gone(x)
    BY <1>3, <2>1 DEF Leads
  <2>2. CASE f \in kin[x]
    BY <2>2 DEF Leads
  <2>3. ASSUME NEW r \in Moved, r.secret \in kin[x], f \in kin[r.print]
        PROVE  Leads(x, f)'
    <3>1. r.print \in 1..numbers
      BY MovedRow
    <3>2. kin'[r.print] = kin[r.print]
      BY <3>1
    <3>3. CASE r \in Moved'
      BY <2>3, <3>2, <3>3 DEF Leads
    <3>4. CASE r \notin Moved'
      BY <1>2, <2>3, <3>4 DEF Leads, Gone
    <3>5. QED BY <3>3, <3>4
  <2>4. QED BY <1>5, <2>1, <2>2, <2>3 DEF Leads
<1>6. QED BY <1>0, <1>3, <1>4, <1>5 DEF Carries

LEMMA OwnsCarries ==
    ASSUME Carries, NEW x, NEW n, Owns(x, n)
    PROVE  Owns(x, n)'
BY DEF Carries, Owns

LEMMA NamesCarries ==
    ASSUME Carries, NEW r, NEW n \in Subjects, Names(r, n)
    PROVE  Names(r, n)'
BY DEF Carries, Names

LEMMA LapsedCarries ==
    ASSUME Carries, NEW r, Present(r) => r.secret \in 1..numbers, Lapsed(r)
    PROVE  Lapsed(r)'
BY DEF Carries, Lapsed

LEMMA MintCarries ==
    ASSUME Carries, NEW p \in Processes, NEW m, m.level \in Levels, m.level <= Len(Chain[p]),
           MintKept(p, m)
    PROVE  MintKept(p, m)'
<1>0. Len(Chain[p]) \in Nat /\ First(p) \in 1..2 /\ Depth \in Nat /\ Len(Chain[p]) <= Depth
  BY Chains DEF First, Levels
<1>1. \A i \in Levels : i <= Len(Chain[p]) => Names(m.stale[i], Chain[p][i])'
  BY Chains, NamesCarries DEF MintKept
<1>2. \A i \in First(p)..m.level : i < m.level \/ Looked(m) => Lapsed(m.stale[i])'
  <2> SUFFICES ASSUME NEW i \in First(p)..m.level, i < m.level \/ Looked(m)
               PROVE  Lapsed(m.stale[i])'
    OBVIOUS
  <2>1. i \in Levels /\ i <= Len(Chain[p])
    BY <1>0 DEF Levels
  <2>2. Lapsed(m.stale[i]) /\ Names(m.stale[i], Chain[p][i])
    BY <2>1 DEF MintKept
  <2>3. QED BY <2>2, LapsedCarries DEF Names
<1>3. ASSUME m.pc = "climb"
      PROVE  /\ Kept(m.secret)' /\ Owns(m.secret, Chain[p][m.level])'
             /\ Leads(m.secret, m.print)' /\ Owns(m.print, m.up)'
             /\ m.why = "look" => m.stale[m.level].secret = m.secret /\ Present(m.stale[m.level])
  <2>1. /\ Kept(m.secret) /\ Owns(m.secret, Chain[p][m.level])
        /\ Leads(m.secret, m.print) /\ Owns(m.print, m.up)
        /\ m.why = "look" => m.stale[m.level].secret = m.secret /\ Present(m.stale[m.level])
    BY <1>3 DEF MintKept
  <2>2. m.secret \in 1..numbers
    BY <2>1 DEF Owns
  <2>3. QED BY <2>1, <2>2, OwnsCarries DEF Carries
<1>4. ASSUME m.pc = "insert", m.level < Len(Chain[p])
      PROVE  Kept(m.hand)' /\ Owns(m.hand, Chain[p][m.level + 1])'
  <2>1. Kept(m.hand) /\ Owns(m.hand, Chain[p][m.level + 1])
    BY <1>4 DEF MintKept
  <2>2. m.hand \in 1..numbers
    BY <2>1 DEF Owns
  <2>3. QED BY <2>1, <2>2, OwnsCarries DEF Carries
<1>5. m.level >= First(p)
  BY DEF MintKept
<1>6. QED BY <1>1, <1>2, <1>3, <1>4, <1>5 DEF MintKept

LEMMA PlaceCarries ==
    ASSUME Carries, NEW p \in Processes, NEW m, m.level \in Levels, m.level <= Len(Chain[p]),
           PlaceKept(p, m),
           Reading(m) => m.mine \in strayed' /\ m.mine.secret \in 1..numbers
    PROVE  PlaceKept(p, m)'
<1>1. Mints(m) => MintKept(p, m)'
  BY MintCarries DEF PlaceKept
<1>2. ASSUME m.pc \in {"seal", "move"} \/ Reading(m)
      PROVE  Kept(m.hand)' /\ Owns(m.hand, Chain[p][First(p)])'
  <2>1. Kept(m.hand) /\ Owns(m.hand, Chain[p][First(p)])
    BY <1>2 DEF PlaceKept
  <2>2. m.hand \in 1..numbers
    BY <2>1 DEF Owns
  <2>3. QED BY <2>1, <2>2, OwnsCarries DEF Carries
<1>3. ASSUME m.pc = "climb", m.why = "readback"
      PROVE  m.secret = m.mine.secret \/ ~InRow(m.mine.secret)'
  <2>1. m.mine.secret \in 1..numbers
    BY <1>3 DEF Reading
  <2>2. m.secret = m.mine.secret \/ ~InRow(m.mine.secret)
    BY <1>3 DEF PlaceKept
  <2>3. QED BY <2>1, <2>2 DEF Carries, InRow
<1>4. QED BY <1>1, <1>2, <1>3 DEF PlaceKept

\* The places of the others, whoever moves.
LEMMA OthersCarried ==
    ASSUME Safe, Whole, Carries, NEW p \in Processes, NEW m, Go(p, m) \/ UNCHANGED at,
           Reading(at[Adopter]) /\ p # Adopter => at[Adopter].mine \in strayed',
           Reading(at[Adopter]) /\ UNCHANGED at => at[Adopter].mine \in strayed'
    PROVE  \A q \in Processes : q # p \/ UNCHANGED at => PlaceKept(q, at[q])' /\ at'[q] = at[q]
<1> SUFFICES ASSUME NEW q \in Processes, q # p \/ UNCHANGED at
             PROVE  PlaceKept(q, at[q])' /\ at'[q] = at[q]
  OBVIOUS
<1>1. at'[q] = at[q]
  BY DEF Go, Safe, Types
<1>2. PICK k : k = at[q]
  OBVIOUS
<1>3. PlaceOK(q, k, numbers) /\ k.level \in Levels /\ k.level <= Len(Chain[q]) /\ PlaceKept(q, k)
  BY <1>2 DEF Safe, Types, PlaceOK, Place, Whole
<1>4. Reading(k) => q = Adopter
  BY <1>3 DEF Reading, PlaceOK
<1>5. Reading(k) => k.mine.secret \in 1..numbers
  BY <1>2, <1>4, MovedRow DEF Moved
<1>6. Reading(k) => k.mine \in strayed'
  BY <1>2, <1>4
<1>7. PlaceKept(q, k)'
  BY <1>3, <1>5, <1>6, PlaceCarries
<1>8. QED BY <1>1, <1>2, <1>7

LEMMA HangsCarries ==
    ASSUME Carries, NEW n \in Subjects, Hangs(n), rows'[n] = rows[n],
           RowOK(rows[n], numbers),
           Present(rows[n]) => kin[rows[n].secret] \subseteq kin'[rows[n].secret],
           rows[n] \in Moved => rows[n] \in Moved' \/ rows[n].print \in kin'[rows[n].secret]
    PROVE  Hangs(n)'
<1> SUFFICES ASSUME NEW r, r = rows[n], NEW s, s = rows[n].secret PROVE Hangs(n)'
  OBVIOUS
<1>0. numbers \in Nat
  BY DEF Carries
<1>1. Present(r) => s \in 1..numbers
  BY <1>0, RowNumbers
<1>2. Present(r) => Kept(s)'
  BY <1>1 DEF Carries, Hangs
<1>3. Present(r) /\ ~IsRoot(r) => Owns(r.print, r.parent)'
  BY OwnsCarries DEF Hangs
<1>4. Present(r) /\ ~IsRoot(r) => r.print \in kin'[s] \/ r \in Moved'
  BY DEF Hangs
<1>5. rows'[n] = r
  OBVIOUS
<1>6. QED BY <1>2, <1>3, <1>4, <1>5 DEF Hangs

LEMMA SealedCarries ==
    ASSUME Carries, SealedKept, sealed' = sealed
    PROVE  SealedKept'
<1> SUFFICES ASSUME NEW e \in sealed PROVE Kept(e.secret)' /\ Owns(e.secret, e.subject)'
  BY DEF SealedKept
<1>1. Kept(e.secret) /\ Owns(e.secret, e.subject) /\ e.secret \in 1..numbers
  BY DEF SealedKept, Owns
<1>2. QED BY <1>1, OwnsCarries DEF Carries

-----------------------------------------------------------------------------
(* Where a mint goes next, in the state it goes to.                        *)

\* The links below the one it is at have not opened.
Climbs(p, m) ==
    /\ m.level >= First(p)
    /\ \A i \in Levels : i <= Len(Chain[p]) => Names(m.stale[i], Chain[p][i])
    /\ \A i \in First(p)..m.level : i < m.level => Lapsed(m.stale[i])

LEMMA IdleKept ==
    ASSUME NEW p \in Processes PROVE PlaceKept(p, Idle)'
BY IdleFields DEF PlaceKept, Mints, Reading

LEMMA YieldKept ==
    ASSUME NEW p \in Processes, NEW N \in Nat, NEW m, PlaceOK(p, m, N), m.why # "readback",
           NEW s, Climbs(p, m)', Kept(s)', Owns(s, Chain[p][m.level])'
    PROVE  PlaceKept(p, Yield(p, m, s))'
<1>1. m \in Place /\ m.level \in Levels /\ m.level \in Nat /\ First(p) \in 1..2
  BY DEF PlaceOK, Place, Levels, First
<1>2. CASE m.level > First(p)
  <2> DEFINE k == [m EXCEPT !.pc = "insert", !.level = m.level - 1, !.hand = s]
  <2>1. Yield(p, m, s) = k
    BY <1>2 DEF Yield
  <2>2. /\ k.pc = "insert" /\ k.level = m.level - 1 /\ k.hand = s /\ k.stale = m.stale
        /\ k.why = m.why
    BY <1>1 DEF Place
  <2> HIDE DEF k
  <2>3. MintKept(p, k)'
    <3>1. k.level >= First(p) /\ k.level + 1 = m.level
      BY <1>1, <1>2, <2>2
    <3>2. \A i \in First(p)..k.level : i \in First(p)..m.level /\ i < m.level
      BY <1>1, <2>2
    <3>3. QED BY <2>2, <3>1, <3>2 DEF MintKept, Climbs
  <2>4. QED BY <2>1, <2>2, <2>3 DEF PlaceKept, Reading
<1>3. CASE ~(m.level > First(p))
  <2>1. m.level = First(p)
    BY <1>1, <1>3 DEF Climbs
  <2> DEFINE k == Yield(p, m, s)
  <2>2. k.pc \in {"move", "seal"} /\ k.hand = s
    BY <1>1, <1>3 DEF Yield, Place
  <2> HIDE DEF k
  <2>3. QED BY <2>1, <2>2 DEF PlaceKept, Mints, Reading, k
<1>4. QED BY <1>2, <1>3

LEMMA LookKept ==
    ASSUME NEW p \in Processes, NEW N \in Nat, NEW m, PlaceOK(p, m, N), m.why # "readback",
           NEW i \in Levels, i <= Len(Chain[p]), i >= First(p), NEW n \in 0..MintAttempts,
           \A j \in Levels : j <= Len(Chain[p]) => Names(m.stale[j], Chain[p][j])',
           \A j \in First(p)..i : j < i \/ m.why = "reload" => Lapsed(m.stale[j])'
    PROVE  PlaceKept(p, Look(m, i, n))'
<1> DEFINE k == Look(m, i, n)
<1>1. k.pc = "look" /\ k.level = i /\ k.stale = m.stale /\ k.why = m.why
  BY DEF Look, PlaceOK, Place
<1> HIDE DEF k
<1>2. MintKept(p, k)'
  BY <1>1 DEF MintKept, Looked
<1>3. PlaceKept(p, k)'
  BY <1>1, <1>2 DEF PlaceKept, Reading
<1>4. QED BY <1>3 DEF k

\* A look that failed lets go of the row it found.
LEMMA FailsKept ==
    ASSUME NEW p \in Processes, NEW N \in Nat, NEW m, PlaceOK(p, m, N), m.why # "readback",
           Climbs(p, m)', Lapsed(m.stale[m.level])'
    PROVE  PlaceKept(p, Fails(p, m))'
<1>1. /\ m \in Place /\ m.level \in Levels /\ m.level \in Nat /\ First(p) \in 1..2
      /\ m.level <= Len(Chain[p]) /\ Len(Chain[p]) \in Levels /\ Len(Chain[p]) \in Nat
      /\ m.level >= First(p)
      /\ \A j \in Levels : j <= Len(Chain[p]) => Names(m.stale[j], Chain[p][j])'
  <2>1. /\ m \in Place /\ m.level \in Levels /\ m.level \in Nat /\ First(p) \in 1..2
        /\ m.level <= Len(Chain[p]) /\ Len(Chain[p]) \in Levels /\ Len(Chain[p]) \in Nat
    BY Chains, SMTT(20) DEF PlaceOK, Place, Levels, First
  <2>2. /\ m.level >= First(p)
        /\ \A j \in Levels : j <= Len(Chain[p]) => Names(m.stale[j], Chain[p][j])'
    BY DEF Climbs
  <2>3. QED BY <2>1, <2>2
<1>2. \A i \in First(p)..m.level : Lapsed(m.stale[i])'
  <2> SUFFICES ASSUME NEW i \in First(p)..m.level PROVE Lapsed(m.stale[i])'
    OBVIOUS
  <2>1. i < m.level \/ i = m.level
    BY <1>1
  <2>2. QED BY <2>1 DEF Climbs
<1>3. CASE m.why = "look" /\ Last(p, m)
  <2> DEFINE k == [m EXCEPT !.pc = "insert"]
  <2>1. Fails(p, m) = k
    BY <1>3 DEF Fails
  <2>2. k.pc = "insert" /\ k.level = m.level /\ k.stale = m.stale /\ k.why = m.why
    BY <1>1 DEF Place
  <2> HIDE DEF k
  <2>3. ~(k.level < Len(Chain[p]))
    BY <1>1, <1>3, <2>2 DEF Last
  <2>4. MintKept(p, k)'
    BY <1>1, <1>2, <2>2, <2>3 DEF MintKept
  <2>5. QED BY <2>1, <2>2, <2>4 DEF PlaceKept, Reading
<1>4. CASE m.why = "look" /\ ~Last(p, m)
  <2>1. Fails(p, m) = Look(m, m.level + 1, 1)
    BY <1>4 DEF Fails
  <2>2. m.level + 1 \in Levels /\ m.level + 1 <= Len(Chain[p]) /\ 1 \in 0..MintAttempts
        /\ m.level + 1 >= First(p)
    BY <1>1, <1>4, Chains DEF Levels, Last
  <2>3. PICK i : i = m.level + 1
    OBVIOUS
  <2>4. \A j \in First(p)..i : j < i \/ m.why = "reload" => Lapsed(m.stale[j])'
    BY <1>1, <1>2, <1>4, <2>3
  <2>5. QED BY <1>1, <1>4, <2>1, <2>2, <2>3, <2>4, LookKept
<1>5. CASE m.why = "reload"
  <2>1. Fails(p, m) = LookAgain(p, m)
    BY <1>5 DEF Fails
  <2>2. CASE LookAgain(p, m) = Idle
    BY <2>1, <2>2, IdleKept
  <2>3. CASE LookAgain(p, m) # Idle
    <3>1. PICK i \in First(p)..m.level, n \in 0..MintAttempts : LookAgain(p, m) = Look(m, i, n)
      BY <2>3, LookAgainOK
    <3>2. i \in Levels /\ i <= Len(Chain[p]) /\ i >= First(p)
      BY <1>1, Chains DEF Levels
    <3>3. \A j \in First(p)..i : Lapsed(m.stale[j])'
      BY <1>1, <1>2
    <3>4. QED BY <1>1, <2>1, <3>1, <3>2, <3>3, LookKept
  <2>4. QED BY <2>2, <2>3
<1>6. QED BY <1>1, <1>3, <1>4, <1>5 DEF Place

-----------------------------------------------------------------------------
(* The steps.                                                              *)

LEMMA MovedStrayed == ASSUME Whole PROVE Moved \subseteq strayed
BY Chains DEF Whole, PlaceKept, Moved

LEMMA MovedSame ==
    ASSUME at'[Adopter] = at[Adopter] PROVE Moved' = Moved
BY DEF Moved

LEMMA Drawn ==
    ASSUME Safe
    PROVE  /\ numbers \in Nat
           /\ \A n \in Subjects : /\ RowOK(rows[n], numbers)
                                  /\ Present(rows[n]) => rows[n].secret \in 1..numbers
                                                         /\ rows[n].bytes \in 1..numbers
           /\ \A p \in Processes : PlaceOK(p, at[p], numbers)
           /\ \A x \in 1..numbers : x \in Numbers
BY RowNumbers, Chains DEF Safe, Types, Numbers

\* A process moves; the rows stay, and an adoption goes on or ends.
LEMMA QuietCarries ==
    ASSUME Safe, Whole, UNCHANGED <<rows, numbers, erased, kin, strayed>>,
           NEW p \in Processes, NEW m, Go(p, m),
           p = Adopter => \/ ~Reading(at[p]) /\ ~Reading(m)
                          \/ Reading(at[p]) /\ (~Reading(m) \/ m.mine = at[p].mine)
    PROVE  Carries /\ Moved' \in {Moved, {}} /\ (~Reading(at[p]) \/ Reading(m) => Moved' = Moved)
<1>1. at'[p] = m /\ (p # Adopter => at'[Adopter] = at[Adopter])
  BY Chains DEF Go, Safe, Types
<1>2. CASE p # Adopter
  <2>1. Moved' = Moved
    BY <1>1, <1>2, MovedSame
  <2>2. \A k : InRow(k)' = InRow(k)
    BY DEF InRow
  <2>3. QED BY <2>1, <2>2, Drawn, Carried DEF Whole
<1>3. CASE p = Adopter
  <2>1. Moved' = Moved \/ (Moved' = {} /\ Reading(at[p]) /\ ~Reading(m))
    BY <1>1, <1>3 DEF Moved
  <2>2. \A k : InRow(k)' = InRow(k)
    BY DEF InRow
  <2>3. Moved \subseteq strayed
    BY MovedStrayed
  <2>4. Carries
    BY <2>1, <2>2, <2>3, Drawn, Carried DEF Whole
  <2>5. QED BY <2>1, <2>4
<1>4. QED BY <1>2, <1>3

LEMMA QuietWhole ==
    ASSUME Safe, Whole, Carries, UNCHANGED <<rows, numbers, sealed, kin, strayed>>,
           NEW p \in Processes, NEW m, Go(p, m), PlaceKept(p, m)',
           Moved' = Moved \/ (Moved' = {} /\ rows[Adoptee] \notin Moved)
    PROVE  Whole'
<1>1. KinTrans' /\ SealedKept'
  BY SealedCarries DEF Whole, KinTrans
<1>2. \A n \in Subjects : rows[n] \in Moved => n = Adoptee
  <2> SUFFICES ASSUME NEW n \in Subjects, rows[n] \in Moved PROVE n = Adoptee
    OBVIOUS
  <2>1. rows[n] = at[Adopter].mine /\ Reading(at[Adopter])
    BY MovedRow
  <2>2. HeldBy(at[Adopter], rows, kin)
    BY <2>1 DEF Safe, Held, Reading
  <2>3. QED BY <2>1, <2>2 DEF HeldBy
<1>3. \A n \in Subjects : Hangs(n)'
  <2> TAKE n \in Subjects
  <2>1. rows[n] \in Moved => rows[n] \in Moved'
    BY <1>2
  <2>2. Hangs(n) /\ RowOK(rows[n], numbers)
    BY Drawn DEF Whole
  <2>3. QED BY <2>1, <2>2, HangsCarries
<1>4. \A q \in Processes : q # p => PlaceKept(q, at[q])' /\ at'[q] = at[q]
  <2>1. Reading(at[Adopter]) => at[Adopter].mine \in strayed'
    BY MovedStrayed DEF Moved
  <2>2. QED BY <2>1, OthersCarried
<1>5. at'[p] = m
  BY DEF Go, Safe, Types
<1>6. \A q \in Processes : PlaceKept(q, at[q])'
  <2> TAKE q \in Processes
  <2>1. CASE q = p
    BY <1>5, <2>1 DEF PlaceKept
  <2>2. QED BY <1>4, <2>1
<1>7. QED BY <1>1, <1>3, <1>6 DEF Whole

LEMMA WholeWrite ==
    ASSUME Safe, Whole, NEW w \in Writers, BeginWrite(w) \/ Seal(w)
    PROVE  Whole'
<1>1. w \in Processes /\ w # Adopter
  BY ChainAssumption DEF Processes
<1>2. UNCHANGED <<rows, numbers, erased, kin, strayed>>
  BY DEF BeginWrite, Seal
<1>3. CASE BeginWrite(w)
  <2> DEFINE k == Look(Idle, 1, 1)
  <2>1. k.pc = "look" /\ k.level = 1 /\ k.why = "look" /\ \A i \in Levels : k.stale[i] = NoRow
    BY DEF Look, Idle
  <2> HIDE DEF k
  <2>2. Go(w, k) /\ UNCHANGED sealed
    BY <1>3 DEF BeginWrite, k
  <2>3. Carries /\ Moved' = Moved
    <3>1. at'[Adopter] = at[Adopter]
      BY <1>1, <2>2, Chains DEF Go, Safe, Types
    <3>2. QED BY <1>1, <1>2, <2>2, <3>1, MovedSame, QuietCarries
  <2>4. \A i \in Levels : ~Present(k.stale[i])
    BY <2>1, NoRowFields DEF Present
  <2>5. MintKept(w, k)'
    <3>1. First(w) = 1 /\ \A i \in 1..1 : i \in Levels
      BY <1>1, Chains DEF First, Levels
    <3>2. QED BY <2>1, <2>4, <3>1 DEF MintKept, Names, Lapsed
  <2>6. PlaceKept(w, k)'
    BY <2>1, <2>5 DEF PlaceKept, Reading
  <2>7. QED BY <1>1, <1>2, <2>2, <2>3, <2>6, QuietWhole
<1>4. CASE Seal(w)
  <2>1. Go(w, Idle) /\ at[w].pc = "seal"
        /\ sealed' = sealed \cup {[subject |-> Chain[w][1], secret |-> at[w].hand]}
    BY <1>4 DEF Seal
  <2>2. Carries /\ Moved' = Moved
    BY <1>1, <1>2, <2>1, MovedSame, QuietCarries, IdleFields DEF Go, Safe, Types, Reading
  <2>3. SealedKept'
    <3>1. Kept(at[w].hand) /\ Owns(at[w].hand, Chain[w][1])
      <4>1. PlaceKept(w, at[w]) /\ First(w) = 1
        BY <1>1 DEF Whole, First
      <4>2. QED BY <2>1, <4>1 DEF PlaceKept
    <3>2. PICK h : h = at[w].hand
      OBVIOUS
    <3>3. h \in 1..numbers /\ Kept(h)' /\ Owns(h, Chain[w][1])'
      BY <2>2, <3>1, <3>2, OwnsCarries DEF Carries, Owns
    <3>4. \A e \in sealed : Kept(e.secret)' /\ Owns(e.secret, e.subject)'
      <4> TAKE e \in sealed
      <4>1. Kept(e.secret) /\ Owns(e.secret, e.subject) /\ e.secret \in 1..numbers
        BY DEF Whole, SealedKept, Owns
      <4>2. QED BY <2>2, <4>1, OwnsCarries DEF Carries
    <3>5. QED BY <2>1, <3>2, <3>3, <3>4 DEF SealedKept
  <2>4. PlaceKept(w, Idle)'
    BY <1>1, IdleKept
  <2>5. /\ KinTrans' /\ (\A n \in Subjects : Hangs(n)')
        /\ \A q \in Processes : q # w => PlaceKept(q, at[q])' /\ at'[q] = at[q]
    <3>1. KinTrans'
      BY <1>2 DEF Whole, KinTrans
    <3>2. \A n \in Subjects : Hangs(n)'
      <4> TAKE n \in Subjects
      <4>1. Hangs(n) /\ RowOK(rows[n], numbers)
        BY Drawn DEF Whole
      <4>2. QED BY <1>2, <2>2, <4>1, HangsCarries
    <3>3. Reading(at[Adopter]) => at[Adopter].mine \in strayed'
      BY <1>2, MovedStrayed DEF Moved
    <3>4. QED BY <1>1, <2>1, <2>2, <3>1, <3>2, <3>3, OthersCarried
  <2>6. at'[w] = Idle
    BY <1>1, <2>1 DEF Go, Safe, Types
  <2>7. \A q \in Processes : PlaceKept(q, at[q])'
    BY <2>4, <2>5, <2>6 DEF PlaceKept
  <2>8. QED BY <2>3, <2>5, <2>7 DEF Whole
<1>5. QED BY <1>3, <1>4

LEMMA LivesOwns ==
    ASSUME Safe, NEW n \in Subjects, Present(rows[n])
    PROVE  Owns(rows[n].secret, n)
BY Drawn DEF Safe, Lives, Owns

LEMMA WholeRead ==
    ASSUME Safe, Whole, NEW p \in Processes, ReadRow(p)
    PROVE  Whole'
<1> SUFFICES ASSUME NEW m, m = at[p], NEW n, n = Link(p, m), NEW r, r = rows[n]
             PROVE  Whole'
  OBVIOUS
<1> DEFINE k == Found(m, r)
           c == [k EXCEPT !.pc = "climb", !.secret = r.secret, !.up = r.parent, !.print = r.print]
<1>1. /\ PlaceOK(p, m, numbers) /\ m.pc \in {"look", "reload"} /\ numbers \in Nat
      /\ m.level \in Levels /\ m.level <= Len(Chain[p]) /\ First(p) \in 1..2 /\ Depth \in Nat
      /\ Len(Chain[p]) \in Nat /\ Len(Chain[p]) <= Depth
  BY Drawn, Chains, SMTT(20) DEF ReadRow, PlaceOK, Place, First, Levels
<1>2. n \in Subjects /\ n = Chain[p][m.level] /\ r \in Row
  BY <1>1, Drawn, Chains DEF Link, RowOK
<1>3. /\ UNCHANGED <<rows, numbers, sealed, erased, kin, strayed>> /\ Go(p, OpenRow(p, k, r))
  BY DEF ReadRow, Found
<1>4. /\ PlaceOK(p, k, numbers) /\ k.why = m.pc /\ k.why # "readback" /\ k.level = m.level
      /\ k.pc = m.pc
      /\ \A i \in Levels : k.stale[i] = IF i = m.level /\ m.pc = "look" THEN r ELSE m.stale[i]
  BY <1>1, <1>2, FoundOK
<1> HIDE DEF k
<1>5. Carries /\ Moved' = Moved
  <2>1. Goes(p, m, at'[p], numbers) /\ ~Reading(m) /\ at'[p] = OpenRow(p, k, r)
    BY <1>1, <1>3, TypesRead DEF Safe, Go, Types, Reading
  <2>2. ~Reading(OpenRow(p, k, r))
    BY <2>1, IdleFields DEF Goes, Reading
  <2>3. QED BY <1>3, <2>1, <2>2, QuietCarries
<1>6. MintKept(p, m)'
  <2>1. MintKept(p, m)
    BY <1>1 DEF Whole, PlaceKept, Mints
  <2>2. QED BY <1>1, <1>5, <2>1, MintCarries
<1>7. /\ \A i \in Levels : i <= Len(Chain[p]) => Names(k.stale[i], Chain[p][i])'
      /\ k.level >= First(p)
  <2>1. Names(r, n)'
    BY <1>2, <1>3, Drawn DEF Names
  <2>2. \A i \in Levels : i <= Len(Chain[p]) => Names(m.stale[i], Chain[p][i])'
    BY <1>6 DEF MintKept
  <2>3. m.level >= First(p)
    BY <1>6 DEF MintKept
  <2>4. QED BY <1>2, <1>4, <2>1, <2>2, <2>3
<1>8. \A i \in First(p)..m.level : i < m.level \/ m.pc = "reload" => Lapsed(k.stale[i])'
  <2> SUFFICES ASSUME NEW i \in First(p)..m.level, i < m.level \/ m.pc = "reload"
               PROVE  Lapsed(k.stale[i])'
    OBVIOUS
  <2>1. i \in Levels
    BY <1>1 DEF Levels
  <2>2. k.stale[i] = m.stale[i]
    BY <1>1, <1>4, <2>1
  <2>3. Lapsed(m.stale[i])'
    BY <1>6 DEF MintKept, Looked
  <2>4. QED BY <2>2, <2>3
<1>9. Climbs(p, k)'
  BY <1>4, <1>7, <1>8 DEF Climbs
<1>10. Present(r) => Kept(r.secret)' /\ Owns(r.secret, n)' /\ r.secret \in 1..numbers
  <2> SUFFICES ASSUME Present(r)
               PROVE  Kept(r.secret)' /\ Owns(r.secret, n)' /\ r.secret \in 1..numbers
    OBVIOUS
  <2>1. Kept(r.secret) /\ Owns(r.secret, n)
    BY <1>2, LivesOwns DEF Whole, Hangs
  <2>2. r.secret \in 1..numbers
    BY <2>1 DEF Owns
  <2>3. QED BY <1>5, <2>1, <2>2, OwnsCarries DEF Carries
<1>11. CASE ~Present(r)
  <2>1. OpenRow(p, k, r) = Fails(p, k)
    BY <1>11 DEF OpenRow
  <2>2. Lapsed(k.stale[k.level])'
    <3>1. CASE m.pc = "look"
      <4>1. k.stale[k.level] = r
        BY <1>1, <1>4, <3>1
      <4>2. QED BY <1>11, <4>1 DEF Lapsed
    <3>2. CASE m.pc = "reload"
      <4>1. m.level \in First(p)..m.level
        BY <1>1, <1>4, <1>7 DEF Levels
      <4>2. QED BY <1>4, <1>8, <3>2, <4>1
    <3>3. QED BY <1>1, <3>1, <3>2
  <2>3. PlaceKept(p, Fails(p, k))'
    BY <1>1, <1>4, <1>9, <2>2, FailsKept
  <2>4. QED BY <1>3, <1>5, <2>1, <2>3, QuietWhole
<1>12. CASE Present(r) /\ IsRoot(r)
  <2>1. OpenRow(p, k, r) = Yield(p, k, r.secret)
    BY <1>4, <1>12 DEF OpenRow, Opens
  <2>2. PlaceKept(p, Yield(p, k, r.secret))'
    BY <1>1, <1>2, <1>4, <1>9, <1>10, <1>12, YieldKept
  <2>3. QED BY <1>3, <1>5, <2>1, <2>2, QuietWhole
<1>13. CASE Present(r) /\ ~IsRoot(r)
  <2>1. OpenRow(p, k, r) = c
    BY <1>13 DEF OpenRow
  <2>2. /\ c.pc = "climb" /\ c.secret = r.secret /\ c.up = r.parent /\ c.print = r.print
        /\ c.level = k.level /\ c.stale = k.stale /\ c.why = k.why
    BY <1>4 DEF PlaceOK, Place
  <2> HIDE DEF c
  <2>3. Leads(r.secret, r.print)
    <3>1. Owns(r.print, r.parent) /\ (r.print \in kin[r.secret] \/ r \in Moved)
      BY <1>2, <1>13 DEF Whole, Hangs
    <3>2. CASE r \in Moved
      <4>1. r.print \in Numbers /\ r.secret \in Numbers
        BY <1>10, <1>13, <3>1, Drawn DEF Owns
      <4>2. r.secret \in kin[r.secret] /\ r.print \in kin[r.print]
        BY <4>1 DEF Safe, KinGrows
      <4>3. QED BY <3>2, <4>2 DEF Leads
    <3>3. QED BY <3>1, <3>2 DEF Leads
  <2>4. Leads(r.secret, r.print)' /\ Owns(r.print, r.parent)'
    <3>1. Owns(r.print, r.parent)
      BY <1>2, <1>13 DEF Whole, Hangs
    <3>2. QED BY <1>5, <1>10, <1>13, <2>3, <3>1, OwnsCarries DEF Carries
  <2>5. c.why = "look" => c.stale[c.level].secret = c.secret /\ Present(c.stale[c.level])
    BY <1>1, <1>4, <1>13, <2>2
  <2>6. Looked(c) => m.pc = "reload"
    BY <1>4, <2>2 DEF Looked
  <2>7. MintKept(p, c)'
    BY <1>2, <1>4, <1>7, <1>8, <1>10, <1>13, <2>2, <2>4, <2>5, <2>6 DEF MintKept
  <2>8. PlaceKept(p, c)'
    BY <1>4, <2>2, <2>7 DEF PlaceKept, Reading
  <2>9. QED BY <1>3, <1>5, <2>1, <2>8, QuietWhole
<1>14. QED BY <1>11, <1>12, <1>13

\* The parent in hand is kept while the row that was moved under it is read back.
LEMMA MovedKept ==
    ASSUME Safe, Whole
    PROVE  \A r \in Moved : Kept(r.print) /\ (Gone(r.print) <=> Excused(r.print))
<1> SUFFICES ASSUME NEW r \in Moved
             PROVE  Kept(r.print) /\ (Gone(r.print) <=> Excused(r.print))
  OBVIOUS
<1>1. r.print = at[Adopter].hand /\ Reading(at[Adopter]) /\ \A q \in Moved : q = r
  BY MovedRow
<1>2. Kept(at[Adopter].hand)
  BY <1>1, Chains DEF Whole, PlaceKept
<1>3. QED BY <1>1, <1>2 DEF Gone

\* A walk that comes upon a link in no row started at something gone.
LEMMA LedGone ==
    ASSUME Safe, Whole, NEW x, NEW f, Leads(x, f), Kept(x), ~InRow(f)
    PROVE  Gone(x)
<1>1. CASE f \in kin[x]
  BY <1>1 DEF Kept
<1>2. ASSUME NEW r \in Moved, r.secret \in kin[x], f \in kin[r.print]
      PROVE  Gone(x)
  <2>1. Gone(r.print)
    BY <1>2, MovedKept DEF Kept
  <2>2. QED BY <1>2, <2>1, MovedKept DEF Gone
<1>3. QED BY <1>1, <1>2 DEF Leads

LEMMA LeadsOn ==
    ASSUME Safe, Whole, NEW x \in 1..numbers, NEW n \in Subjects, NEW r, r = rows[n],
           Leads(x, r.secret), Present(r), ~IsRoot(r)
    PROVE  Leads(x, r.print) /\ Owns(r.print, r.parent)
<1>1. /\ Owns(r.print, r.parent) /\ (r.print \in kin[r.secret] \/ r \in Moved)
  BY DEF Whole, Hangs
<1>2. r.print \in kin[r.print]
  BY <1>1, Drawn DEF Safe, KinGrows, Owns
<1>3. CASE r.secret \in kin[x]
  <2>1. r.print \in kin[r.secret] => r.print \in kin[x]
    BY <1>3 DEF Whole, KinTrans
  <2>2. QED BY <1>1, <1>2, <1>3, <2>1 DEF Leads
<1>4. ASSUME NEW q \in Moved, q.secret \in kin[x], r.secret \in kin[q.print]
      PROVE  Leads(x, r.print)
  <2>1. q.print \in 1..numbers /\ (r \in Moved => r = q)
    BY MovedRow
  <2>2. r.print \in kin[r.secret] => r.print \in kin[q.print]
    BY <1>4, <2>1 DEF Whole, KinTrans
  <2>3. r.print \in kin[q.print]
    BY <1>1, <1>2, <2>1, <2>2
  <2>4. QED BY <1>4, <2>3 DEF Leads
<1>5. CASE Gone(x)
  BY <1>1, <1>5 DEF Leads
<1>6. QED BY <1>1, <1>3, <1>4, <1>5 DEF Leads

LEMMA WholeMintClimb ==
    ASSUME Safe, Whole, NEW p \in Processes, Climb(p), at[p].why # "readback"
    PROVE  Whole'
<1> SUFFICES ASSUME NEW m, m = at[p], NEW r, r = rows[m.up]
             PROVE  Whole'
  OBVIOUS
<1> DEFINE c == [m EXCEPT !.up = r.parent, !.print = r.print]
<1>1. /\ PlaceOK(p, m, numbers) /\ m.pc = "climb" /\ m.why # "readback" /\ numbers \in Nat
      /\ m.level \in Levels /\ m.level <= Len(Chain[p]) /\ m.up \in Subjects
      /\ First(p) \in 1..2 /\ m.level \in Nat
  BY Drawn DEF Climb, PlaceOK, Place, First, Levels
<1>2. /\ UNCHANGED <<rows, numbers, sealed, erased, kin, strayed>> /\ Go(p, ClimbTo(p, m, r))
  BY <1>1 DEF Climb
<1>3. Carries /\ Moved' = Moved
  <2>1. Goes(p, m, at'[p], numbers) /\ ~Reading(m) /\ at'[p] = ClimbTo(p, m, r)
    BY <1>1, TypesClimb DEF Safe, Reading
  <2>2. ~Reading(ClimbTo(p, m, r))
    BY <2>1, IdleFields DEF Goes, Reading
  <2>3. QED BY <1>2, <2>1, <2>2, QuietCarries
<1>4. MintKept(p, m) /\ MintKept(p, m)'
  <2>1. MintKept(p, m)
    BY <1>1 DEF Whole, PlaceKept, Mints
  <2>2. QED BY <1>1, <1>3, <2>1, MintCarries
<1>5. /\ Kept(m.secret) /\ Leads(m.secret, m.print) /\ Owns(m.print, m.up)
      /\ m.secret \in 1..numbers
      /\ m.why = "look" => m.stale[m.level].secret = m.secret /\ Present(m.stale[m.level])
  BY <1>1, <1>4 DEF MintKept, Owns
<1>6. Climbs(p, m)'
  BY <1>4 DEF MintKept, Climbs
<1>7. CASE ~Matches(m, r)
  <2>1. ClimbTo(p, m, r) = Fails(p, m)
    BY <1>7 DEF ClimbTo
  <2>2. ~InRow(m.print)
    BY <1>5, <1>7 DEF InRow, Owns, Matches, Present
  <2>3. Gone(m.secret)
    BY <1>5, <2>2, LedGone
  <2>4. Lapsed(m.stale[m.level])'
    <3>1. CASE m.why = "look"
      <4>1. Gone(m.secret)'
        BY <1>3, <1>5, <2>3 DEF Carries
      <4>2. m.stale[m.level].secret = m.secret
        BY <1>5, <3>1
      <4>3. QED BY <4>1, <4>2 DEF Lapsed
    <3>2. CASE m.why = "reload"
      <4>1. m.level \in First(p)..m.level
        BY <1>1, <1>4 DEF MintKept
      <4>2. QED BY <1>4, <3>2, <4>1 DEF MintKept, Looked
    <3>3. QED BY <1>1, <3>1, <3>2 DEF PlaceOK, Place
  <2>5. PlaceKept(p, Fails(p, m))'
    BY <1>1, <1>6, <2>4, FailsKept
  <2>6. QED BY <1>2, <1>3, <2>1, <2>5, QuietWhole
<1>8. CASE IsLast(m, r)
  <2>1. ClimbTo(p, m, r) = Yield(p, m, m.secret)
    BY <1>1, <1>8 DEF ClimbTo, Opens, IsLast
  <2>2. Kept(m.secret)' /\ Owns(m.secret, Chain[p][m.level])'
    BY <1>1, <1>4 DEF MintKept
  <2>3. PICK s : s = m.secret
    OBVIOUS
  <2>4. PlaceKept(p, Yield(p, m, s))'
    BY <1>1, <1>6, <2>2, <2>3, YieldKept
  <2>5. QED BY <1>2, <1>3, <2>1, <2>3, <2>4, QuietWhole
<1>9. CASE Matches(m, r) /\ ~IsLast(m, r)
  <2>1. ClimbTo(p, m, r) = c
    BY <1>9 DEF ClimbTo
  <2>2. /\ c.pc = "climb" /\ c.secret = m.secret /\ c.up = r.parent /\ c.print = r.print
        /\ c.level = m.level /\ c.stale = m.stale /\ c.why = m.why
    BY <1>1 DEF PlaceOK, Place
  <2> HIDE DEF c
  <2>3. Leads(m.secret, r.print) /\ Owns(r.print, r.parent)
    BY <1>1, <1>5, <1>9, LeadsOn DEF Matches, IsLast
  <2>4. Leads(m.secret, r.print)' /\ Owns(r.print, r.parent)'
    BY <1>3, <1>5, <2>3, OwnsCarries DEF Carries
  <2>5. MintKept(p, c)'
    BY <1>1, <1>4, <2>2, <2>4 DEF MintKept, Looked
  <2>6. PlaceKept(p, c)'
    BY <1>1, <2>2, <2>5 DEF PlaceKept, Reading
  <2>7. QED BY <1>2, <1>3, <2>1, <2>6, QuietWhole
<1>10. QED BY <1>7, <1>8, <1>9 DEF IsLast
\* One process moves.
LEMMA PlacesKept ==
    ASSUME Safe, Whole, Carries, NEW p \in Processes, NEW k, Go(p, k), PlaceKept(p, k)',
           Reading(at[Adopter]) /\ p # Adopter => at[Adopter].mine \in strayed'
    PROVE  \A q \in Processes : PlaceKept(q, at[q])'
<1>1. at'[p] = k
  BY DEF Go, Safe, Types
<1>2. Reading(at[Adopter]) /\ UNCHANGED at => at[Adopter].mine \in strayed'
  <2>1. CASE p = Adopter
    BY <1>1, <2>1 DEF PlaceKept
  <2>2. CASE p # Adopter
    BY <2>2
  <2>3. QED BY <2>1, <2>2
<1>3. \A q \in Processes : q # p => PlaceKept(q, at[q])' /\ at'[q] = at[q]
  BY <1>2, OthersCarried
<1> TAKE q \in Processes
<1>4. CASE q = p
  BY <1>1, <1>4 DEF PlaceKept
<1>5. CASE q # p
  BY <1>3, <1>5
<1>6. QED BY <1>4, <1>5

\* No process moves.
LEMMA PlacesStayKept ==
    ASSUME Safe, Whole, Carries, UNCHANGED at, strayed \subseteq strayed'
    PROVE  Moved' = Moved /\ \A q \in Processes : PlaceKept(q, at[q])'
<1>1. Reading(at[Adopter]) => at[Adopter].mine \in strayed'
  BY MovedStrayed DEF Moved
<1>2. PICK m : m = at[Adopter]
  OBVIOUS
<1>3. Go(Adopter, m) \/ UNCHANGED at
  OBVIOUS
<1>4. \A q \in Processes : PlaceKept(q, at[q])'
  BY <1>1, <1>3, Chains, OthersCarried
<1>5. QED BY <1>4, MovedSame

\* The row being read back can be nowhere but at the subject of the adoption.
LEMMA MovedAt ==
    ASSUME Safe, NEW r \in Moved
    PROVE  \A n \in Subjects : rows[n].secret = r.secret => n = Adoptee /\ rows[n] = r
<1>1. r = at[Adopter].mine /\ Reading(at[Adopter])
  BY MovedRow
<1>2. HeldBy(at[Adopter], rows, kin)
  BY <1>1 DEF Safe, Held, Reading
<1>3. QED BY <1>1, <1>2 DEF HeldBy

\* Reading a moved row back goes on, or ends when the row is not there any more.
LEMMA WholeReturns ==
    ASSUME Safe, Whole, UNCHANGED <<rows, numbers, sealed, erased, kin, strayed>>,
           Reading(at[Adopter]), NEW k, Go(Adopter, k), Returns(Adopter, at[Adopter], k, numbers),
           k = Idle => rows[Adoptee] \notin Moved,
           k.pc = "climb" => k.secret = k.mine.secret \/ ~InRow(k.mine.secret)
    PROVE  Whole'
<1> SUFFICES ASSUME NEW m, m = at[Adopter] PROVE Whole'
  OBVIOUS
<1>1. Carries /\ (Moved' = Moved \/ (Moved' = {} /\ rows[Adoptee] \notin Moved))
  <2>1. CASE k = Idle
    <3>1. ~Reading(k)
      BY <2>1, IdleFields DEF Reading
    <3>2. Moved' = {}
      BY <3>1, Chains DEF Moved, Go, Safe, Types
    <3>3. QED BY <2>1, <3>1, <3>2, Chains, QuietCarries
  <2>2. CASE k # Idle
    BY <2>2, Chains, QuietCarries DEF Returns
  <2>3. QED BY <2>1, <2>2
<1>2. PlaceKept(Adopter, k)'
  <2>1. CASE k = Idle
    BY <2>1, Chains, IdleKept
  <2>2. CASE k # Idle
    <3>1. k.mine = m.mine /\ k.hand = m.hand /\ Reading(k)
      BY <2>2 DEF Returns
    <3>2. ~Mints(k)
      BY <3>1 DEF Mints, Reading
    <3>3. Kept(m.hand) /\ Owns(m.hand, Chain[Adopter][First(Adopter)]) /\ m.mine \in strayed
      BY Chains DEF Whole, PlaceKept
    <3>4. m.hand \in 1..numbers
      BY <3>3 DEF Owns
    <3>5. Kept(m.hand)' /\ Owns(m.hand, Chain[Adopter][First(Adopter)])'
      BY <1>1, <3>3, <3>4, OwnsCarries DEF Carries
    <3>6. k.pc = "climb" => k.secret = k.mine.secret \/ ~InRow(k.mine.secret)'
      BY DEF InRow
    <3>7. QED BY <3>1, <3>2, <3>3, <3>5, <3>6 DEF PlaceKept
  <2>3. QED BY <2>1, <2>2
<1>3. QED BY <1>1, <1>2, Chains, QuietWhole

LEMMA WholeReadBack ==
    ASSUME Safe, Whole, ReadBack
    PROVE  Whole'
<1> SUFFICES ASSUME NEW m, m = at[Adopter], NEW r, r = rows[Adoptee],
                    NEW k, k = [m EXCEPT !.why = "readback"],
                    NEW next, next = OpenRow(Adopter, k, r)
             PROVE  Whole'
  OBVIOUS
<1>1. /\ m.pc = "readback" /\ Go(Adopter, next) /\ m \in Place
      /\ UNCHANGED <<rows, numbers, sealed, erased, kin, strayed>>
  BY Chains DEF ReadBack, Safe, Types
<1>2. Returns(Adopter, m, next, numbers) /\ Reading(m)
  <2>1. at'[Adopter] = next
    BY <1>1, Chains DEF Go, Safe, Types
  <2>2. QED BY <1>1, <2>1, TypesReadBack DEF Safe, Reading
<1>3. k.why = "readback" /\ k \in Place /\ k.pc = "readback" /\ k.mine = m.mine
  BY <1>1 DEF Place
<1>4. m.mine \in Moved /\ Moved = {m.mine}
  BY <1>2 DEF Moved
<1>5. CASE ~Present(r)
  <2>1. next = [k EXCEPT !.pc = "undo"]
    BY <1>3, <1>5 DEF OpenRow, Fails
  <2>2. next.pc = "undo"
    BY <1>3, <2>1 DEF Place
  <2>3. next # Idle
    BY <2>2, IdleFields
  <2>4. QED BY <1>1, <1>2, <2>2, <2>3, WholeReturns
<1>6. CASE Present(r) /\ IsRoot(r)
  <2>1. next = Idle
    BY <1>3, <1>6 DEF OpenRow, Opens
  <2>2. rows[Adoptee] \notin Moved
    BY <1>6, MovedRow
  <2>3. QED BY <1>1, <1>2, <2>1, <2>2, IdleFields, WholeReturns
<1>7. CASE Present(r) /\ ~IsRoot(r)
  <2>1. next = [k EXCEPT !.pc = "climb", !.secret = r.secret, !.up = r.parent, !.print = r.print]
    BY <1>7 DEF OpenRow
  <2>2. next.pc = "climb" /\ next.secret = r.secret /\ next.mine = m.mine
    BY <1>3, <2>1 DEF Place
  <2>3. next # Idle
    BY <2>2, IdleFields
  <2>4. r.secret = m.mine.secret \/ ~InRow(m.mine.secret)
    BY <1>4, MovedAt DEF InRow
  <2>5. QED BY <1>1, <1>2, <2>2, <2>3, <2>4, WholeReturns
<1>8. QED BY <1>5, <1>6, <1>7
\* The row is read back: what the parent in hand hangs from takes it along from now on.
LEMMA AdoptedCarries ==
    ASSUME Safe, Whole, NEW s \in 1..numbers, NEW h \in 1..numbers, NEW mine,
           Moved = {mine}, mine.secret = s, mine.print = h,
           UNCHANGED <<rows, numbers, erased>>, Moved' = {}, strayed' = strayed \ {mine},
           \A x \in 1..numbers :
              /\ kin[x] \subseteq kin'[x]
              /\ s \in kin[x] => kin[h] \subseteq kin'[x]
              /\ \A k \in kin'[x] : k \in kin[x] \/ (s \in kin[x] /\ k \in kin[h])
    PROVE  Carries /\ KinTrans'
<1>2. strayed' \ Moved' = strayed \ Moved
  OBVIOUS
<1>3. \A x \in 1..numbers : Excused(x) => Excused(x)'
  BY <1>2 DEF Excused
<1>4. \A x \in 1..numbers : s \in kin[x] /\ Excused(h) => Excused(x)'
  BY <1>2 DEF Excused
<1>5. ASSUME NEW x \in 1..numbers, Gone(x) PROVE Gone(x)'
  BY <1>3, <1>4, <1>5 DEF Gone
<1>6. Kept(h) /\ (Gone(h) <=> Excused(h))
  BY MovedKept
<1>7. ASSUME NEW x \in 1..numbers, Kept(x) PROVE Kept(x)'
  <2>1. CASE Gone(x)
    BY <1>5, <2>1 DEF Kept
  <2>2. CASE ~Gone(x)
    <3>1. \A k \in kin[x] : InRow(k)
      BY <1>7, <2>2 DEF Kept
    <3>2. s \in kin[x] => \A k \in kin[h] : InRow(k)
      BY <1>6, <2>2 DEF Kept, Gone
    <3>3. \A k \in kin'[x] : InRow(k)
      BY <3>1, <3>2
    <3>4. QED BY <3>3 DEF Kept, InRow
  <2>3. QED BY <2>1, <2>2
<1>8. ASSUME NEW x \in 1..numbers, NEW f, Leads(x, f) PROVE Leads(x, f)'
  BY <1>2, <1>5, <1>8 DEF Leads
<1>9. ASSUME NEW x \in 1..numbers
      PROVE  kin'[x] \subseteq 1..numbers /\ \A k \in kin'[x] : kin'[k] \subseteq kin'[x]
  <2>1. /\ kin[x] \subseteq 1..numbers /\ \A k \in kin[x] : kin[k] \subseteq kin[x]
        /\ kin[h] \subseteq 1..numbers /\ \A k \in kin[h] : kin[k] \subseteq kin[h]
    BY DEF Whole, KinTrans
  <2>2. kin'[x] \subseteq 1..numbers
    BY <2>1
  <2>3. ASSUME NEW k \in kin'[x] PROVE kin'[k] \subseteq kin'[x]
    <3>1. k \in 1..numbers
      BY <2>2
    <3>2. \A j \in kin'[k] : j \in kin[k] \/ (s \in kin[k] /\ j \in kin[h])
      BY <3>1
    <3>3. CASE k \in kin[x]
      BY <2>1, <3>2, <3>3
    <3>4. CASE k \in kin[h] /\ s \in kin[x]
      BY <2>1, <3>2, <3>4
    <3>5. QED BY <3>3, <3>4
  <2>4. QED BY <2>2, <2>3
<1>10. QED BY <1>5, <1>7, <1>8, <1>9, Drawn DEF Carries, KinTrans

LEMMA WholeBackClimb ==
    ASSUME Safe, Whole, NEW p \in Processes, Climb(p), at[p].why = "readback"
    PROVE  Whole'
<1> SUFFICES ASSUME NEW m, m = at[Adopter], NEW r, r = rows[m.up], NEW next,
                    next = ClimbTo(Adopter, m, r), NEW s, s = m.mine.secret
             PROVE  Whole'
  OBVIOUS
<1>0. p = Adopter
  BY Drawn DEF PlaceOK
<1>1. /\ m.pc = "climb" /\ Go(Adopter, next) /\ m \in Place /\ m.why = "readback"
      /\ UNCHANGED <<rows, numbers, sealed, erased>>
  BY <1>0, Chains DEF Climb, Safe, Types
<1>2. Returns(Adopter, m, next, numbers) /\ Reading(m) /\ at'[Adopter] = next
  <2>1. at'[Adopter] = next
    BY <1>1, Chains DEF Go, Safe, Types
  <2>2. QED BY <1>0, <1>1, <2>1, TypesClimb DEF Safe, Reading
<1>3. m.mine \in Moved /\ Moved = {m.mine}
  BY <1>2 DEF Moved
<1>4. m.secret = s \/ ~InRow(s)
  BY <1>1, Chains DEF Whole, PlaceKept
<1>5. CASE ~(m.secret = s /\ IsLast(m, r))
  <2>1. UNCHANGED <<kin, strayed>>
    BY <1>0, <1>5 DEF Climb
  <2>2. next = Idle => rows[Adoptee] \notin Moved
    <3> SUFFICES ASSUME next = Idle, rows[Adoptee] \in Moved PROVE FALSE
      OBVIOUS
    <3>1. InRow(s)
      BY <1>3, Chains DEF InRow
    <3>2. ~IsLast(m, r)
      BY <1>4, <1>5, <3>1
    <3>3. next = [m EXCEPT !.pc = "undo"] \/ next = [m EXCEPT !.up = r.parent, !.print = r.print]
      BY <1>1, <3>2 DEF ClimbTo, Fails
    <3>4. next.pc # "idle"
      BY <1>1, <3>3 DEF Place
    <3>5. QED BY <3>4, IdleFields
  <2>3. next.pc = "climb" => next.secret = m.secret /\ next.mine = m.mine
    <3>1. CASE ~Matches(m, r)
      <4>1. next.pc = "undo"
        BY <1>1, <3>1 DEF ClimbTo, Fails, Place
      <4>2. QED BY <4>1
    <3>2. CASE IsLast(m, r)
      <4>1. next = Idle
        BY <1>1, <3>2 DEF ClimbTo, Opens, IsLast
      <4>2. QED BY <4>1, IdleFields
    <3>3. CASE Matches(m, r) /\ ~IsLast(m, r)
      <4>1. next = [m EXCEPT !.up = r.parent, !.print = r.print]
        BY <3>3 DEF ClimbTo
      <4>2. QED BY <1>1, <4>1 DEF Place
    <3>4. QED BY <3>1, <3>2, <3>3 DEF IsLast
  <2>4. QED BY <1>1, <1>2, <1>4, <2>1, <2>2, <2>3, WholeReturns
<1>6. CASE m.secret = s /\ IsLast(m, r)
  <2>1. next = Idle
    BY <1>1, <1>6 DEF ClimbTo, Opens, IsLast
  <2>2. Moved' = {}
    BY <1>2, <2>1, IdleFields DEF Moved, Reading
  <2>3. m.mine.print = m.hand /\ m.hand \in 1..numbers /\ s \in 1..numbers
    BY <1>3, MovedRow
  <2>4. /\ kin' = [x \in Numbers |-> IF s \in kin[x] THEN kin[x] \cup kin[m.hand] ELSE kin[x]]
        /\ strayed' = strayed \ {m.mine}
    BY <1>0, <1>1, <1>6 DEF Climb
  <2>5. Carries /\ KinTrans' /\ \A x \in 1..numbers : kin[x] \subseteq kin'[x]
    <3>1. PICK h \in 1..numbers : h = m.hand
      BY <2>3
    <3>2. PICK mine : mine = m.mine
      OBVIOUS
    <3>3. Moved = {mine} /\ mine.secret = s /\ mine.print = h /\ strayed' = strayed \ {mine}
      BY <1>3, <2>3, <2>4, <3>1, <3>2
    <3>4. \A x \in 1..numbers :
            /\ kin[x] \subseteq kin'[x]
            /\ s \in kin[x] => kin[h] \subseteq kin'[x]
            /\ \A k \in kin'[x] : k \in kin[x] \/ (s \in kin[x] /\ k \in kin[h])
      BY <2>4, <3>1, Drawn
    <3>5. QED BY <1>1, <2>2, <2>3, <3>3, <3>4, AdoptedCarries
  <2>6. m.hand \in kin'[s]
    <3>1. s \in kin[s] /\ m.hand \in kin[m.hand]
      BY <2>3, Drawn DEF Safe, KinGrows
    <3>2. QED BY <2>3, <2>4, <3>1, Drawn
  <2>7. \A n \in Subjects : Hangs(n)'
    <3> TAKE n \in Subjects
    <3>1. rows[n] \in Moved => rows[n].print \in kin'[rows[n].secret]
      BY <1>3, <2>3, <2>6
    <3>2. Hangs(n) /\ RowOK(rows[n], numbers)
      BY Drawn DEF Whole
    <3>3. Present(rows[n]) => kin[rows[n].secret] \subseteq kin'[rows[n].secret]
      BY <2>5, Drawn
    <3>4. QED BY <1>1, <2>5, <3>1, <3>2, <3>3, HangsCarries
  <2>8. SealedKept'
    BY <1>1, <2>5, SealedCarries DEF Whole
  <2>9. \A q \in Processes : PlaceKept(q, at[q])'
    <3>1. PlaceKept(Adopter, Idle)'
      BY Chains, IdleKept
    <3>2. QED BY <1>1, <2>1, <2>5, <3>1, Chains, PlacesKept
  <2>10. QED BY <2>5, <2>7, <2>8, <2>9 DEF Whole
<1>7. QED BY <1>5, <1>6
LEMMA WholeBeginAdoption ==
    ASSUME Safe, Whole, BeginAdoption
    PROVE  Whole'
<1> SUFFICES ASSUME NEW k, k = [Look(Idle, 2, 1) EXCEPT !.mine = rows[Adoptee]]
             PROVE  Whole'
  OBVIOUS
<1>1. k.pc = "look" /\ k.level = 2 /\ k.why = "look" /\ \A i \in Levels : k.stale[i] = NoRow
  BY DEF Look, Idle
<1>2. /\ at[Adopter].pc = "idle" /\ Go(Adopter, k)
      /\ UNCHANGED <<rows, numbers, sealed, erased, kin, strayed>>
  BY DEF BeginAdoption
<1>3. Carries /\ Moved' = Moved
  BY <1>1, <1>2, Chains, QuietCarries DEF Reading
<1>4. \A i \in Levels : ~Present(k.stale[i])
  BY <1>1, NoRowFields DEF Present
<1>5. MintKept(Adopter, k)'
  <2>1. First(Adopter) = 2 /\ \A i \in 2..2 : i \in Levels
    BY Chains, ChainAssumption DEF First, Levels
  <2>2. QED BY <1>1, <1>4, <2>1 DEF MintKept, Names, Lapsed
<1>6. PlaceKept(Adopter, k)'
  BY <1>1, <1>5 DEF PlaceKept, Reading
<1>7. QED BY <1>2, <1>3, <1>6, Chains, QuietWhole

-----------------------------------------------------------------------------
(* Rows wrapped anew, each with the secret it had.                         *)

LEMMA RewiredCarries ==
    ASSUME Safe, Whole, UNCHANGED <<erased, kin>>, numbers' \in Nat, numbers <= numbers',
           strayed \ Moved \subseteq strayed' \ Moved',
           Moved \subseteq Moved' \cup (strayed' \ Moved'),
           \A n \in Subjects : /\ rows'[n].secret = rows[n].secret
                               /\ rows'[n] = rows[n] \/ rows'[n].bytes = numbers + 1
    PROVE  Carries
<1>1. \A k : InRow(k) => InRow(k)'
  BY DEF InRow
<1>2. numbers \in Nat /\ numbers + 1 \notin 1..numbers
  BY Drawn
<1>3. \A n \in Subjects : rows'[n].bytes \in 1..numbers => rows'[n] = rows[n]
  BY <1>2
<1>4. QED BY <1>1, <1>3, Carried DEF Whole

LEMMA RootHangs ==
    ASSUME Safe, Whole, Carries, NEW n \in Subjects, rows'[n].secret = rows[n].secret,
           IsRoot(rows'[n])
    PROVE  Hangs(n)'
<1> SUFFICES ASSUME NEW r, r = rows'[n], NEW s, s = r.secret PROVE Hangs(n)'
  OBVIOUS
<1>1. Present(r) => s \in 1..numbers /\ Kept(s)
  BY Drawn DEF Whole, Hangs, Present
<1>2. Present(r) => Kept(s)'
  BY <1>1 DEF Carries
<1>3. rows'[n] = r /\ IsRoot(r)
  OBVIOUS
<1>4. QED BY <1>2, <1>3 DEF Hangs

\* A number that was just drawn hangs from nothing.
LEMMA KinTransGrows ==
    ASSUME Safe, Whole, kin' = kin, numbers' \in {numbers, numbers + 1}, numbers' <= MaxNumbers
    PROVE  KinTrans'
<1> SUFFICES ASSUME NEW x \in 1..numbers'
             PROVE  kin[x] \subseteq 1..numbers' /\ \A k \in kin[x] : kin[k] \subseteq kin[x]
  BY DEF KinTrans
<1>1. numbers \in Nat /\ MaxNumbers \in Nat
  BY Drawn, Chains
<1>2. CASE x \in 1..numbers
  <2>1. kin[x] \subseteq 1..numbers /\ \A k \in kin[x] : kin[k] \subseteq kin[x]
    BY <1>2 DEF Whole, KinTrans
  <2>2. 1..numbers \subseteq 1..numbers'
    BY <1>1
  <2>3. QED BY <2>1, <2>2
<1>3. CASE x \notin 1..numbers
  <2>1. x \in Numbers /\ x > numbers
    BY <1>1, <1>3 DEF Numbers
  <2>2. kin[x] = {x}
    BY <2>1 DEF Safe, KinGrows
  <2>3. QED BY <2>2
<1>4. QED BY <1>2, <1>3

LEMMA WholeRewrap ==
    ASSUME Safe, Whole, Rewrap
    PROVE  Whole'
<1>1. UNCHANGED <<sealed, erased, kin, strayed, at>>
  BY DEF Rewrap
<1>2. /\ numbers \in Nat /\ numbers' \in Nat /\ numbers <= numbers' /\ New \in Masters
      /\ numbers' \in {numbers, numbers + 1} /\ numbers' <= MaxNumbers
  BY RewrapsRows, Drawn, Chains DEF Safe, Types, Masters, Numbers
<1>3. \A n \in Subjects :
        \/ rows'[n] = rows[n]
        \/ /\ rows'[n].secret = rows[n].secret /\ IsRoot(rows'[n])
           /\ rows'[n].bytes = numbers + 1
  <2> TAKE n \in Subjects
  <2>1. ASSUME NEW r \in snapshot.roots, r.subject = n, r.master = rows[n].master,
               rows[n].master \in Masters, rows'[n] = Root(r.secret, numbers + 1, New)
        PROVE  /\ rows'[n].secret = rows[n].secret /\ IsRoot(rows'[n])
               /\ rows'[n].bytes = numbers + 1
    <3>1. r.secret = rows[n].secret /\ r.secret \in Nat
      BY <2>1 DEF Safe, Snapped, Types
    <3>2. QED BY <1>2, <2>1, <3>1, RootFields
  <2>2. QED BY <2>1, RewrapsRows DEF Safe
<1>4. Moved' = Moved
  BY <1>1, MovedSame
<1>5. Carries
  <2>1. Moved \subseteq strayed
    BY MovedStrayed
  <2>2. QED BY <1>1, <1>2, <1>3, <1>4, RewiredCarries
<1>6. \A n \in Subjects : Hangs(n)'
  <2> TAKE n \in Subjects
  <2>1. Hangs(n) /\ RowOK(rows[n], numbers)
    BY Drawn DEF Whole
  <2>2. CASE rows'[n] = rows[n]
    BY <1>1, <1>4, <1>5, <2>1, <2>2, HangsCarries
  <2>3. CASE rows'[n].secret = rows[n].secret /\ IsRoot(rows'[n])
    BY <1>5, <2>3, RootHangs
  <2>4. QED BY <1>3, <2>2, <2>3
<1>7. KinTrans' /\ SealedKept'
  BY <1>1, <1>2, <1>5, KinTransGrows, SealedCarries DEF Whole
<1>8. \A q \in Processes : PlaceKept(q, at[q])'
  BY <1>1, <1>5, PlacesStayKept
<1>9. QED BY <1>6, <1>7, <1>8 DEF Whole

LEMMA WholeMove ==
    ASSUME Safe, Whole, MoveRow
    PROVE  Whole'
<1> DEFINE m == at[Adopter]
           moved == Child(m.mine.secret, numbers + 1, Chain[Adopter][2], m.hand)
<1> SUFFICES ASSUME NEW k, k = [m EXCEPT !.pc = "readback", !.mine = moved]
             PROVE  Whole'
  OBVIOUS
<1>1. /\ m.pc = "move" /\ UNCHANGED <<sealed, snapshot, erased, kin>>
      /\ \/ /\ rows[Adoptee].bytes = m.mine.bytes /\ numbers' = numbers + 1
            /\ rows' = [rows EXCEPT ![Adoptee] = moved] /\ strayed' = strayed \cup {moved}
            /\ Go(Adopter, k)
         \/ Go(Adopter, Idle) /\ UNCHANGED <<rows, numbers, strayed>>
      /\ numbers + 1 \in Numbers
  BY DEF MoveRow
<1>2. Moved = {}
  BY <1>1 DEF Moved, Reading
<1>3. CASE Go(Adopter, Idle) /\ UNCHANGED <<rows, numbers, strayed>>
  <2>1. ~Reading(m) /\ ~Reading(Idle)
    BY <1>1, IdleFields DEF Reading
  <2>2. Carries /\ Moved' = Moved
    BY <1>1, <1>3, <2>1, Chains, QuietCarries
  <2>3. PlaceKept(Adopter, Idle)'
    BY Chains, IdleKept
  <2>4. QED BY <1>1, <1>3, <2>2, <2>3, Chains, QuietWhole
<1>4. CASE /\ rows[Adoptee].bytes = m.mine.bytes /\ numbers' = numbers + 1
           /\ rows' = [rows EXCEPT ![Adoptee] = moved] /\ strayed' = strayed \cup {moved}
           /\ Go(Adopter, k)
  <2>1. HeldBy(m, rows, kin) /\ m.mine.secret \in 1..numbers /\ numbers \in Nat
        /\ numbers + 1 <= MaxNumbers
    BY <1>1, MineNumbers, Chains DEF Safe, Held, Numbers
  <2>2. rows[Adoptee] = m.mine
    BY <1>4, <2>1 DEF HeldBy
  <2>3. /\ Kept(m.hand) /\ Owns(m.hand, Chain[Adopter][First(Adopter)])
        /\ First(Adopter) = 2 /\ m.hand \in 1..numbers
    BY <1>1, Chains DEF Whole, PlaceKept, Owns, First
  <2>4. /\ moved.secret = m.mine.secret /\ moved.bytes = numbers + 1 /\ ~IsRoot(moved)
        /\ moved.parent = Chain[Adopter][2] /\ moved.print = m.hand
    <3> DEFINE s == m.mine.secret
               b == numbers + 1
               n == Chain[Adopter][2]
               f == m.hand
    <3>1. moved = Child(s, b, n, f)
      OBVIOUS
    <3>2. s \in Nat /\ b \in Nat /\ n \in Subjects /\ f \in Nat
      BY <2>1, <2>3, Chains
    <3> HIDE DEF moved, m, s, b, n, f
    <3>3. /\ moved.secret = s /\ moved.bytes = b /\ ~IsRoot(moved)
          /\ moved.parent = n /\ moved.print = f
      BY <3>1, <3>2, ChildFields
    <3>4. QED BY <3>3 DEF s, b, n, f
  <2>5. at'[Adopter] = k /\ rows'[Adoptee] = moved
        /\ \A n \in Subjects : n # Adoptee => rows'[n] = rows[n]
    BY <1>4, Chains DEF Go, Safe, Types
  <2>6. k.pc = "readback" /\ k.mine = moved /\ k.hand = m.hand
    BY Chains DEF Safe, Types, Place
  <2>7. moved \notin strayed
    BY <2>1, <2>4 DEF Safe, Types, MovedRows
  <2> HIDE DEF moved
  <2>8. Moved' = {moved}
    BY <2>5, <2>6 DEF Moved, Reading
  <2>9. Carries
    <3>1. \A n \in Subjects : /\ rows'[n].secret = rows[n].secret
                              /\ rows'[n] = rows[n] \/ rows'[n].bytes = numbers + 1
      BY <2>2, <2>4, <2>5
    <3>2. strayed \ Moved \subseteq strayed' \ Moved'
      BY <1>2, <1>4, <2>7, <2>8
    <3> HIDE DEF m
    <3>3. QED BY <1>1, <1>2, <1>4, <2>1, <3>1, <3>2, RewiredCarries
  <2>10. PICK h \in 1..numbers : h = m.hand /\ moved.print = h
    BY <2>3, <2>4
  <2>11. Kept(h)' /\ Owns(h, Chain[Adopter][2])'
    BY <2>3, <2>9, <2>10, OwnsCarries DEF Carries
  <2>12. \A n \in Subjects : Hangs(n)'
    <3> TAKE n \in Subjects
    <3>1. Hangs(n) /\ RowOK(rows[n], numbers)
      BY Drawn DEF Whole
    <3>2. CASE n # Adoptee
      BY <1>1, <1>2, <2>5, <2>9, <3>1, <3>2, HangsCarries
    <3>3. CASE n = Adoptee
      <4>1. PICK s \in 1..numbers : s = m.mine.secret
        BY <2>1
      <4>2. Kept(s)
        BY <2>2, <3>1, <3>3, <4>1 DEF Hangs, Present
      <4>3. Kept(s)'
        BY <2>9, <4>2 DEF Carries
      <4>4. rows'[n] = moved /\ moved \in Moved' /\ moved.secret = s
        BY <2>4, <2>5, <2>8, <3>3, <4>1
      <4>5. moved.parent = Chain[Adopter][2]
        BY <2>4
      <4>6. QED BY <2>10, <2>11, <4>3, <4>4, <4>5 DEF Hangs
    <3>4. QED BY <3>2, <3>3
  <2>13. PlaceKept(Adopter, k)'
    BY <1>4, <2>3, <2>6, <2>10, <2>11 DEF PlaceKept, Mints
  <2>14. \A q \in Processes : PlaceKept(q, at[q])'
    BY <1>4, <2>9, <2>13, Chains, PlacesKept
  <2>15. KinTrans' /\ SealedKept'
    BY <1>1, <1>4, <2>1, <2>9, KinTransGrows, SealedCarries DEF Whole
  <2>16. QED BY <2>12, <2>14, <2>15 DEF Whole
<1>5. QED BY <1>1, <1>3, <1>4

LEMMA WholeRestore ==
    ASSUME Safe, Whole, RestoreRoot
    PROVE  Whole'
<1> DEFINE m == at[Adopter]
           root == Root(m.mine.secret, numbers + 1, New)
<1>1. /\ m.pc = "undo" /\ Reading(m) /\ UNCHANGED <<sealed, snapshot, erased, kin, strayed>>
      /\ Go(Adopter, Idle) /\ numbers + 1 \in Numbers
      /\ \/ /\ rows[Adoptee].bytes = m.mine.bytes /\ numbers' = numbers + 1
            /\ rows' = [rows EXCEPT ![Adoptee] = root]
         \/ rows[Adoptee].bytes # m.mine.bytes /\ UNCHANGED <<rows, numbers>>
  BY DEF RestoreRoot, Reading
<1>2. Moved = {m.mine}
  BY <1>1 DEF Moved
<1>3. CASE rows[Adoptee].bytes # m.mine.bytes /\ UNCHANGED <<rows, numbers>>
  <2>1. rows[Adoptee] \notin Moved
    BY <1>2, <1>3
  <2>2. Returns(Adopter, m, Idle, numbers)
    BY Drawn, Chains, IdleOK DEF Returns
  <2>3. QED BY <1>1, <1>3, <2>1, <2>2, IdleFields, WholeReturns
<1>4. CASE /\ rows[Adoptee].bytes = m.mine.bytes /\ numbers' = numbers + 1
           /\ rows' = [rows EXCEPT ![Adoptee] = root]
  <2>1. HeldBy(m, rows, kin) /\ m.mine.secret \in 1..numbers /\ numbers \in Nat
        /\ numbers + 1 <= MaxNumbers
    BY <1>1, MineNumbers, Chains DEF Safe, Held, Numbers
  <2>2. rows[Adoptee] = m.mine
    BY <1>4, <2>1 DEF HeldBy
  <2>3. root.secret = m.mine.secret /\ root.bytes = numbers + 1 /\ IsRoot(root)
    <3>1. m.mine.secret \in Nat /\ numbers + 1 \in Nat /\ New \in Masters
      BY <2>1 DEF Masters
    <3>2. QED BY <3>1, RootFields
  <2>4. rows'[Adoptee] = root /\ at'[Adopter] = Idle
        /\ \A n \in Subjects : n # Adoptee => rows'[n] = rows[n]
    BY <1>1, <1>4, Chains DEF Go, Safe, Types
  <2> HIDE DEF root
  <2>5. Moved' = {}
    BY <2>4, IdleFields DEF Moved, Reading
  <2>6. Carries
    <3>1. \A n \in Subjects : /\ rows'[n].secret = rows[n].secret
                              /\ rows'[n] = rows[n] \/ rows'[n].bytes = numbers + 1
      BY <2>2, <2>3, <2>4
    <3>2. Moved \subseteq strayed
      BY MovedStrayed
    <3> HIDE DEF m
    <3>3. QED BY <1>1, <1>4, <2>1, <2>5, <3>1, <3>2, RewiredCarries
  <2>7. \A n \in Subjects : Hangs(n)'
    <3> TAKE n \in Subjects
    <3>1. Hangs(n) /\ RowOK(rows[n], numbers)
      BY Drawn DEF Whole
    <3>2. CASE n # Adoptee
      <4>1. rows[n] \notin Moved
        BY <3>2, MovedAt
      <4>2. QED BY <1>1, <2>4, <2>6, <3>1, <3>2, <4>1, HangsCarries
    <3>3. CASE n = Adoptee
      BY <2>2, <2>3, <2>4, <2>6, <3>3, RootHangs
    <3>4. QED BY <3>2, <3>3
  <2>8. \A q \in Processes : PlaceKept(q, at[q])'
    <3>1. PlaceKept(Adopter, Idle)'
      BY Chains, IdleKept
    <3>2. QED BY <1>1, <2>6, <3>1, Chains, PlacesKept
  <2>9. KinTrans' /\ SealedKept'
    BY <1>1, <1>4, <2>1, <2>6, KinTransGrows, SealedCarries DEF Whole
  <2>10. QED BY <2>7, <2>8, <2>9 DEF Whole
<1>5. QED BY <1>1, <1>3, <1>4
-----------------------------------------------------------------------------
(* Rows that go, and rows that come.                                       *)

LEMMA WholeSame ==
    ASSUME Safe, Whole, UNCHANGED <<rows, numbers, sealed, erased, kin, strayed, at>>
    PROVE  Whole'
<1>1. Moved' = Moved /\ Moved \subseteq strayed
  BY MovedSame, MovedStrayed
<1>2. Carries
  <2>1. \A k : InRow(k)' = InRow(k)
    BY DEF InRow
  <2>2. QED BY <1>1, <2>1, Drawn, Carried DEF Whole
<1>3. \A n \in Subjects : Hangs(n)'
  <2> TAKE n \in Subjects
  <2>1. Hangs(n) /\ RowOK(rows[n], numbers)
    BY Drawn DEF Whole
  <2>2. QED BY <1>1, <1>2, <2>1, HangsCarries
<1>4. KinTrans' /\ SealedKept'
  BY <1>2, SealedCarries DEF Whole, KinTrans
<1>5. \A q \in Processes : PlaceKept(q, at[q])'
  BY <1>2, PlacesStayKept
<1>6. QED BY <1>3, <1>4, <1>5 DEF Whole

\* Rows go, each taken by an erasure or already beyond reach.
LEMMA WholeRemoves ==
    ASSUME Safe, Whole, UNCHANGED <<numbers, sealed, kin, strayed, at>>,
           erased \subseteq erased',
           \A n \in Subjects : rows'[n] = rows[n] \/ rows'[n] = NoRow,
           \A n \in Subjects : Present(rows[n]) /\ rows'[n] # rows[n] =>
               rows[n].secret \in erased' \/ Gone(rows[n].secret)
    PROVE  Whole'
<1>1. Moved' = Moved /\ Moved \subseteq strayed
  BY MovedSame, MovedStrayed
<1>2. numbers \in Nat
  BY Drawn
<1>3. Carries
  <2>1. ASSUME NEW k \in 1..numbers, InRow(k)
        PROVE  InRow(k)' \/ Gone(k) \/ k \in erased'
    <3>1. PICK n \in Subjects : rows[n].secret = k
      BY <2>1 DEF InRow
    <3>2. Present(rows[n])
      BY <1>2, <3>1 DEF Present
    <3>3. QED BY <3>1, <3>2 DEF InRow
  <2>2. \A n \in Subjects : rows'[n].secret \in 1..numbers => rows'[n].secret = rows[n].secret
    BY <1>2, NoRowFields
  <2>3. \A n \in Subjects : rows'[n].bytes \in 1..numbers => rows'[n] = rows[n]
    BY <1>2, NoRowFields
  <2>4. QED BY <1>1, <1>2, <2>1, <2>2, <2>3, Carried DEF Whole
<1>4. \A n \in Subjects : Hangs(n)'
  <2> TAKE n \in Subjects
  <2>1. Hangs(n) /\ RowOK(rows[n], numbers)
    BY Drawn DEF Whole
  <2>2. CASE rows'[n] = rows[n]
    BY <1>1, <1>3, <2>1, <2>2, HangsCarries
  <2>3. CASE rows'[n] = NoRow
    BY <2>3, NoRowFields DEF Hangs, Present
  <2>4. QED BY <2>2, <2>3
<1>5. KinTrans' /\ SealedKept'
  BY <1>3, SealedCarries DEF Whole, KinTrans
<1>6. \A q \in Processes : PlaceKept(q, at[q])'
  BY <1>3, PlacesStayKept
<1>7. QED BY <1>4, <1>5, <1>6 DEF Whole

LEMMA WholeErase ==
    ASSUME Safe, Whole, NEW n \in Subjects, Erase(n)
    PROVE  Whole'
<1>1. /\ UNCHANGED <<numbers, sealed, kin, strayed, at>>
      /\ erased' = erased \cup {rows[n].secret} /\ rows' = [rows EXCEPT ![n] = NoRow]
  BY DEF Erase
<1>2. rows'[n] = NoRow /\ \A k \in Subjects : k # n => rows'[k] = rows[k]
  BY <1>1 DEF Safe, Types
<1>3. QED BY <1>1, <1>2, WholeRemoves

LEMMA HangsLeads ==
    ASSUME Safe, Whole, NEW n \in Subjects, Present(rows[n]), ~IsRoot(rows[n])
    PROVE  Leads(rows[n].secret, rows[n].print) /\ Owns(rows[n].print, rows[n].parent)
<1>1. PICK x, r : x \in 1..numbers /\ x = rows[n].secret /\ r = rows[n]
  BY Drawn
<1>2. x \in kin[x]
  BY <1>1, Drawn DEF Safe, KinGrows
<1>3. Leads(x, r.secret)
  BY <1>1, <1>2 DEF Leads
<1>4. Leads(x, r.print) /\ Owns(r.print, r.parent)
  BY <1>1, <1>3, LeadsOn
<1>5. QED BY <1>1, <1>4

\* What the sweeper takes could not be opened any more.
LEMMA OrphansGone ==
    ASSUME Safe, Whole, NEW n \in Subjects, IsOrphan(n)
    PROVE  Gone(rows[n].secret)
<1>1. Present(rows[n]) /\ rows[n].parent \in Subjects /\ ~Present(rows[rows[n].parent])
  BY DEF IsOrphan
<1>2. ~IsRoot(rows[n])
  BY <1>1, Drawn, SubjectAssumption DEF RowOK, IsRoot
<1>3. Leads(rows[n].secret, rows[n].print) /\ Owns(rows[n].print, rows[n].parent)
  BY <1>1, <1>2, HangsLeads
<1>4. ~InRow(rows[n].print)
  BY <1>1, <1>3, Drawn DEF InRow, Owns, Present
<1>5. Kept(rows[n].secret)
  BY <1>1 DEF Whole, Hangs
<1>6. QED BY <1>3, <1>4, <1>5, LedGone

LEMMA WholeSweep ==
    ASSUME Safe, Whole, Sweep
    PROVE  Whole'
<1>1. PICK gone \in SUBSET {n \in Subjects : IsOrphan(n)} :
        rows' = [n \in Subjects |-> IF n \in gone THEN NoRow ELSE rows[n]]
  BY DEF Sweep
<1>2. UNCHANGED <<numbers, sealed, kin, strayed, at, erased>>
  BY DEF Sweep
<1>3. \A n \in gone : n \in Subjects /\ IsOrphan(n)
  OBVIOUS
<1>4. /\ \A n \in Subjects : rows'[n] = rows[n] \/ rows'[n] = NoRow
      /\ \A n \in Subjects : rows'[n] # rows[n] => n \in gone
  BY <1>1
<1>5. \A n \in Subjects : rows'[n] # rows[n] => Gone(rows[n].secret)
  BY <1>3, <1>4, OrphansGone
<1>6. QED BY <1>2, <1>4, <1>5, WholeRemoves

LEMMA WholeInit == Init => Whole
<1> SUFFICES ASSUME Init PROVE Whole
  OBVIOUS
<1>1. Safe
  BY SafeInit
<1>2. PICK first \in [Founded -> Numbers] :
        /\ \A m, n \in Founded : first[m] = first[n] => m = n
        /\ {first[n] : n \in Founded} = 1..Cardinality(Founded)
        /\ rows = [n \in Subjects |-> IF n \in Founded THEN Root(first[n], first[n], Old)
                                                       ELSE NoRow]
        /\ sealed = {[subject |-> n, secret |-> first[n]] : n \in Founded}
  BY DEF Init
<1>3. /\ numbers = Cardinality(Founded) /\ at = Blank /\ erased = {} /\ strayed = {}
      /\ kin = [s \in Numbers |-> {s}]
  BY DEF Init
<1>4. numbers \in Nat /\ \A x \in 1..numbers : x \in Numbers /\ kin[x] = {x}
  BY <1>1, <1>3, Drawn
<1>5. \A n \in Founded : /\ n \in Subjects /\ first[n] \in 1..numbers
                         /\ rows[n].secret = first[n] /\ IsRoot(rows[n])
  <2> TAKE n \in Founded
  <2>1. n \in Subjects /\ first[n] \in 1..numbers /\ first[n] \in Nat
    BY <1>2, <1>3, <1>4, SubjectAssumption
  <2>2. rows[n] = Root(first[n], first[n], Old) /\ Old \in Masters
    BY <1>2, <2>1 DEF Masters
  <2>3. QED BY <2>1, <2>2, RootFields
<1>6. \A n \in Subjects : n \notin Founded => rows[n].secret = 0
  BY <1>2, NoRowFields
<1>7. \A x \in 1..numbers : InRow(x) => Kept(x)
  BY <1>4 DEF Kept
<1>8. \A n \in Subjects : Hangs(n)
  <2> TAKE n \in Subjects
  <2>1. CASE n \in Founded
    BY <1>5, <1>7, <2>1 DEF Hangs, InRow
  <2>2. CASE n \notin Founded
    BY <1>6, <2>2 DEF Hangs, Present
  <2>3. QED BY <2>1, <2>2
<1>9. SealedKept
  <2> SUFFICES ASSUME NEW e \in sealed PROVE Kept(e.secret) /\ Owns(e.secret, e.subject)
    BY DEF SealedKept
  <2>1. PICK n \in Founded : e.subject = n /\ e.secret = first[n]
    BY <1>2
  <2>2. first[n] \in 1..numbers /\ n \in Subjects /\ rows[n].secret = first[n]
    BY <1>5
  <2>3. Kept(first[n])
    BY <1>7, <2>2 DEF InRow
  <2>4. ASSUME NEW k \in Subjects, rows[k].secret = first[n] PROVE k = n
    <3>1. k \in Founded
      BY <1>4, <1>6, <2>2, <2>4
    <3>2. QED BY <1>2, <1>5, <2>4, <3>1
  <2>5. QED BY <2>1, <2>2, <2>3, <2>4 DEF Owns
<1>10. \A p \in Processes : PlaceKept(p, at[p])
  BY <1>3, IdleFields DEF Blank, PlaceKept, Mints, Reading
<1>11. KinTrans
  BY <1>4 DEF KinTrans
<1>12. QED BY <1>8, <1>9, <1>10, <1>11 DEF Whole

LEMMA WholeNoLoss == Safe /\ Whole => NoLoss
<1> SUFFICES ASSUME Safe, Whole, NEW e \in sealed, NEW x, x = e.secret,
                    ~Doomed(x), ~Astray(x)
             PROVE  ~Lost(e)
  BY DEF NoLoss
<1>1. /\ Kept(x) /\ Owns(x, e.subject) /\ x \in 1..numbers /\ x \in Numbers /\ numbers \in Nat
      /\ e.subject \in Subjects
  BY Drawn DEF Whole, SealedKept, Owns, Safe, Types
<1>2. (\A k \in kin[x] : InRow(k)) /\ \A r \in Moved : r.secret \notin kin[x]
  <2>1. CASE \E r \in strayed : r.secret \in kin[x]
    <3>1. at[Adopter].pc = "idle" /\ \A k \in kin[x] : InRow(k)
      BY <2>1 DEF Astray, InRow
    <3>2. Moved = {}
      BY <3>1 DEF Moved, Reading
    <3>3. QED BY <3>1, <3>2
  <2>2. CASE ~\E r \in strayed : r.secret \in kin[x]
    <3>1. \A r \in Moved : r.secret \notin kin[x]
      BY <2>2, MovedStrayed
    <3>2. ~Gone(x)
      BY <2>2, <3>1 DEF Gone, Excused, Doomed
    <3>3. QED BY <1>1, <3>1, <3>2 DEF Kept
  <2>3. QED BY <2>1, <2>2
<1> DEFINE L == {n \in Subjects : rows[n].secret \in kin[x]}
<1>3. Chained(L)
  <2> SUFFICES ASSUME NEW n \in L
               PROVE  /\ Present(rows[n])
                      /\ IsRoot(rows[n]) \/ /\ rows[n].parent \in L
                                            /\ rows[rows[n].parent].secret = rows[n].print
    BY DEF Chained
  <2>1. n \in Subjects /\ rows[n].secret \in kin[x] /\ kin[x] \subseteq 1..numbers
        /\ kin[rows[n].secret] \subseteq kin[x]
    BY <1>1 DEF Whole, KinTrans
  <2>2. Present(rows[n])
    BY <1>1, <2>1 DEF Present
  <2>3. ASSUME ~IsRoot(rows[n])
        PROVE  rows[n].parent \in L /\ rows[rows[n].parent].secret = rows[n].print
    <3>1. Owns(rows[n].print, rows[n].parent) /\ rows[n].print \in kin[rows[n].secret]
      BY <1>2, <2>1, <2>2, <2>3 DEF Whole, Hangs
    <3>2. PICK j \in Subjects : rows[j].secret = rows[n].print
      BY <1>2, <2>1, <3>1 DEF InRow
    <3>3. j = rows[n].parent
      BY <3>1, <3>2 DEF Owns
    <3>4. QED BY <2>1, <3>1, <3>2, <3>3
  <2>4. QED BY <2>2, <2>3
<1>4. rows[e.subject].secret = x /\ e.subject \in L
  <2>1. x \in kin[x]
    BY <1>1 DEF Safe, KinGrows
  <2>2. PICK j \in Subjects : rows[j].secret = x
    BY <1>2, <2>1 DEF InRow
  <2>3. j = e.subject
    BY <1>1, <2>2 DEF Owns
  <2>4. QED BY <2>1, <2>2, <2>3
<1>5. L \in SUBSET Subjects
  OBVIOUS
<1> HIDE DEF L
<1>6. QED BY <1>3, <1>4, <1>5 DEF Lost, Readable
\* A new row takes the place of none, or of one that will never open again.
LEMMA FreshCarries ==
    ASSUME Safe, Whole, NEW n, NEW r, Fresh(n, r), UNCHANGED <<erased, strayed>>,
           Moved' = Moved, Present(rows[n]) => Gone(rows[n].secret)
    PROVE  Carries
<1>1. /\ n \in Subjects /\ numbers \in Nat /\ numbers' = numbers + 1
      /\ r.secret = numbers + 1 /\ r.bytes = numbers + 1
  BY Drawn DEF Fresh
<1>2. rows'[n] = r /\ \A k \in Subjects : k # n => rows'[k] = rows[k]
  BY FreshRow DEF Safe
<1>3. \A x \in 1..numbers : kin'[x] = kin[x]
  <2>1. \A x \in 1..numbers : x \in Numbers /\ x # r.secret
    BY <1>1, Drawn
  <2>2. QED BY <2>1, FreshRow DEF Safe
<1>4. ASSUME NEW k \in 1..numbers, InRow(k) PROVE InRow(k)' \/ Gone(k)
  <2>1. PICK j \in Subjects : rows[j].secret = k
    BY <1>4 DEF InRow
  <2>2. Present(rows[j])
    BY <1>1, <2>1 DEF Present
  <2>3. QED BY <1>2, <2>1, <2>2 DEF InRow
<1>5. \A k \in Subjects : rows'[k].secret \in 1..numbers => rows'[k].secret = rows[k].secret
  BY <1>1, <1>2
<1>6. \A k \in Subjects : rows'[k].bytes \in 1..numbers => rows'[k] = rows[k]
  BY <1>1, <1>2
<1>7. Moved \subseteq strayed
  BY MovedStrayed
<1>8. numbers' \in Nat /\ numbers <= numbers'
  BY <1>1
<1>9. QED BY <1>3, <1>4, <1>5, <1>6, <1>7, <1>8, Carried DEF Whole

LEMMA FreshWhole ==
    ASSUME Safe, Whole, Carries, NEW n, NEW r, Fresh(n, r), UNCHANGED <<erased, strayed>>,
           Moved' = Moved, ~IsRoot(r) => Kept(r.print) /\ Owns(r.print, r.parent)
    PROVE  /\ KinTrans' /\ \A k \in Subjects : Hangs(k)'
           /\ Kept(r.secret)' /\ Owns(r.secret, n)'
<1> SUFFICES ASSUME NEW s, s = r.secret, NEW h, h = r.print
             PROVE  /\ KinTrans' /\ \A k \in Subjects : Hangs(k)'
                    /\ Kept(s)' /\ Owns(s, n)'
  OBVIOUS
<1>1. /\ n \in Subjects /\ numbers \in Nat /\ numbers' = numbers + 1 /\ s = numbers + 1
      /\ s \in 1..numbers' /\ 1..numbers \subseteq 1..numbers'
      /\ \A x \in 1..numbers' : x \in 1..numbers \/ x = s
  BY Drawn DEF Fresh
<1>2. rows'[n] = r /\ \A k \in Subjects : k # n => rows'[k] = rows[k]
  BY FreshRow DEF Safe
<1>3. \A x \in 1..numbers : kin'[x] = kin[x]
  <2>1. \A x \in 1..numbers : x \in Numbers /\ x # s
    BY <1>1, Drawn
  <2>2. QED BY <2>1, FreshRow DEF Safe
<1>4. IF IsRoot(r) THEN kin'[s] = {s} ELSE kin'[s] = {s} \cup kin[h]
  <2>1. s \in Numbers /\ s > numbers
    BY <1>1 DEF Fresh
  <2>2. kin[s] = {s}
    BY <2>1 DEF Safe, KinGrows
  <2>3. QED BY <2>2, FreshRow DEF Safe
<1>5. ~IsRoot(r) => /\ h \in 1..numbers /\ h \in kin[h] /\ kin[h] \subseteq 1..numbers
                    /\ kin'[h] = kin[h] /\ Kept(h)' /\ Owns(h, r.parent)'
  <2> SUFFICES ASSUME ~IsRoot(r)
               PROVE  /\ h \in 1..numbers /\ h \in kin[h] /\ kin[h] \subseteq 1..numbers
                      /\ kin'[h] = kin[h] /\ Kept(h)' /\ Owns(h, r.parent)'
    OBVIOUS
  <2>1. h \in 1..numbers /\ Kept(h) /\ Owns(h, r.parent)
    BY DEF Owns
  <2>2. Kept(h)' /\ Owns(h, r.parent)'
    BY <2>1, OwnsCarries DEF Carries
  <2>3. h \in kin[h] /\ kin[h] \subseteq 1..numbers
    BY <2>1, Drawn DEF Safe, KinGrows, Whole, KinTrans
  <2>4. QED BY <1>3, <2>1, <2>2, <2>3
<1>6. KinTrans'
  <2> SUFFICES ASSUME NEW x \in 1..numbers'
               PROVE  kin'[x] \subseteq 1..numbers' /\ \A k \in kin'[x] : kin'[k] \subseteq kin'[x]
    BY DEF KinTrans
  <2>0. \A y \in 1..numbers :
          /\ kin'[y] \subseteq 1..numbers'
          /\ \A k \in kin'[y] : kin'[k] \subseteq kin'[y]
    <3> TAKE y \in 1..numbers
    <3>1. kin[y] \subseteq 1..numbers /\ \A k \in kin[y] : kin[k] \subseteq kin[y]
      BY DEF Whole, KinTrans
    <3>2. \A k \in kin[y] : kin'[k] = kin[k]
      BY <1>3, <3>1
    <3>3. kin'[y] = kin[y]
      BY <1>3
    <3>4. QED BY <1>1, <3>1, <3>2, <3>3
  <2>1. CASE x \in 1..numbers
    BY <2>0, <2>1
  <2>2. CASE x = s /\ IsRoot(r)
    BY <1>1, <1>4, <2>2
  <2>3. CASE x = s /\ ~IsRoot(r)
    <3>1. kin'[x] = {s} \cup kin'[h] /\ h \in 1..numbers
      BY <1>4, <1>5, <2>3
    <3>2. kin'[h] \subseteq 1..numbers' /\ \A k \in kin'[h] : kin'[k] \subseteq kin'[h]
      BY <2>0, <3>1
    <3>3. QED BY <1>1, <2>3, <3>1, <3>2
  <2>4. QED BY <1>1, <2>1, <2>2, <2>3
<1>7. InRow(s)'
  BY <1>1, <1>2 DEF InRow
<1>8. Kept(s)'
  <2>1. CASE IsRoot(r)
    BY <1>4, <1>7, <2>1 DEF Kept
  <2>2. CASE ~IsRoot(r)
    <3>1. kin'[s] = {s} \cup kin'[h] /\ Kept(h)'
      BY <1>4, <1>5, <2>2
    <3>2. CASE Gone(h)'
      <4>1. Excused(h)' => Excused(s)'
        BY <3>1 DEF Excused
      <4>2. Gone(s)'
        BY <3>1, <3>2, <4>1 DEF Gone
      <4>3. QED BY <4>2 DEF Kept
    <3>3. CASE \A k \in kin'[h] : InRow(k)'
      BY <1>7, <3>1, <3>3 DEF Kept
    <3>4. QED BY <3>1, <3>2, <3>3 DEF Kept
  <2>3. QED BY <2>1, <2>2
<1>9. Owns(s, n)'
  <2>1. \A k \in Subjects : rows[k].secret # s
    BY FreshRow DEF Safe
  <2>2. QED BY <1>1, <1>2, <2>1 DEF Owns
<1>10. ASSUME NEW k \in Subjects PROVE Hangs(k)'
  <2>1. CASE k = n
    <3>1. rows'[k] = r
      BY <1>2, <2>1
    <3>2. ~IsRoot(r) => Owns(h, r.parent)' /\ h \in kin'[s]
      BY <1>4, <1>5
    <3>3. QED BY <1>8, <3>1, <3>2 DEF Hangs
  <2>2. CASE k # n
    <3>1. Hangs(k) /\ RowOK(rows[k], numbers) /\ rows'[k] = rows[k]
      BY <1>2, <2>2, Drawn DEF Whole
    <3>2. Present(rows[k]) => kin[rows[k].secret] \subseteq kin'[rows[k].secret]
      BY <1>3, Drawn
    <3>3. QED BY <3>1, <3>2, HangsCarries
  <2>3. QED BY <2>1, <2>2
<1>11. QED BY <1>6, <1>8, <1>9, <1>10

\* The link yields what its row opens to, or the row is read again.
LEMMA InsertKept ==
    ASSUME Safe, Whole, Carries, NEW p \in Processes, NEW m, m = at[p], m.pc = "insert",
           NEW s, Kept(s)', Owns(s, Chain[p][m.level])',
           NEW k, k = Yield(p, m, s) \/ k = [m EXCEPT !.pc = "reload"]
    PROVE  PlaceKept(p, k)'
<1>1. /\ PlaceOK(p, m, numbers) /\ m.why # "readback" /\ m.level \in Levels
      /\ m.level <= Len(Chain[p]) /\ numbers \in Nat /\ m \in Place
  BY Drawn DEF PlaceOK, Place
<1>2. MintKept(p, m)'
  <2>1. MintKept(p, m)
    BY DEF Whole, PlaceKept, Mints
  <2>2. QED BY <1>1, <2>1, MintCarries
<1>3. CASE k = Yield(p, m, s)
  <2>1. Climbs(p, m)'
    BY <1>2 DEF MintKept, Climbs
  <2>2. PlaceKept(p, Yield(p, m, s))'
    BY <1>1, <2>1, YieldKept
  <2>3. QED BY <1>3, <2>2
<1>4. CASE k = [m EXCEPT !.pc = "reload"]
  <2>1. k.pc = "reload" /\ k.level = m.level /\ k.stale = m.stale /\ k.why = m.why
    BY <1>1, <1>4 DEF Place
  <2>2. MintKept(p, k)'
    BY <1>2, <2>1 DEF MintKept, Looked
  <2>3. QED BY <2>1, <2>2 DEF PlaceKept, Reading
<1>5. QED BY <1>3, <1>4

LEMMA WholeInsert ==
    ASSUME Safe, Whole, ServerMaster = New, NEW p \in Processes, Insert(p)
    PROVE  Whole'
<1> SUFFICES ASSUME NEW m, m = at[p] PROVE Whole'
  OBVIOUS
<1>1. PICK n \in Subjects, r \in Row :
        Offered(n, r) /\ Present(r) /\ Taken(p, m, n, r)
  BY InsertOffers DEF Safe
<1>2. PICK k : Go(p, k) /\ (k = Yield(p, m, r.secret) \/ k = [m EXCEPT !.pc = "reload"])
  BY <1>1 DEF Taken
<1>3. /\ UNCHANGED <<sealed, erased, strayed>> /\ m.pc = "insert" /\ n = Chain[p][m.level]
  BY <1>1 DEF Insert, Taken, Link
<1>4. k = at'[p] /\ ~Reading(k) /\ ~Reading(m)
  <2>1. k = at'[p]
    BY <1>2 DEF Go, Safe, Types
  <2>2. Goes(p, m, at'[p], numbers')
    BY InsertOffers DEF Safe
  <2>3. QED BY <1>3, <2>1, <2>2, IdleFields DEF Goes, Reading
<1>5. UNCHANGED <<rows, numbers, kin>> \/ Fresh(n, r)
  BY <1>1, OfferedCases DEF Safe
<1>6. MintKept(p, m) /\ PlaceOK(p, m, numbers) /\ m.level \in Levels /\ m.level <= Len(Chain[p])
  BY <1>3, Drawn DEF Whole, PlaceKept, Mints, PlaceOK, Place
<1>7. CASE UNCHANGED <<rows, numbers, kin>>
  <2>1. Carries /\ Moved' = Moved
    BY <1>2, <1>3, <1>4, <1>7, QuietCarries
  <2>2. rows[n] = r
    BY <1>1, <1>7 DEF Offered, Safe, Types
  <2>3. r.secret \in 1..numbers /\ Kept(r.secret) /\ Owns(r.secret, n)
    BY <1>1, <2>2, Drawn, LivesOwns DEF Whole, Hangs
  <2>4. Kept(r.secret)' /\ Owns(r.secret, n)'
    BY <2>1, <2>3, OwnsCarries DEF Carries
  <2>5. PlaceKept(p, k)'
    BY <1>2, <1>3, <2>1, <2>4, InsertKept
  <2>6. QED BY <1>2, <1>3, <1>7, <2>1, <2>5, QuietWhole
<1>8. CASE Fresh(n, r)
  <2>1. Moved' = Moved
    <3>1. CASE p = Adopter
      BY <1>4, <3>1 DEF Moved
    <3>2. CASE p # Adopter
      <4>1. at'[Adopter] = at[Adopter]
        BY <1>2, <3>2, Chains DEF Go, Safe, Types
      <4>2. QED BY <4>1, MovedSame
    <3>3. QED BY <3>1, <3>2
  <2>2. rows[n] # r
    <3>1. rows[n].secret # r.secret
      BY <1>8, FreshRow DEF Safe
    <3>2. QED BY <3>1
  <2>3. /\ Present(rows[n]) => /\ Present(m.stale[m.level])
                               /\ rows[n].bytes = m.stale[m.level].bytes
        /\ ~IsRoot(r) => ~Last(p, m) /\ r.parent = Chain[p][m.level + 1] /\ r.print = m.hand
    BY <1>1, <2>2 DEF Taken
  <2>4. Present(rows[n]) => Gone(rows[n].secret)
    <3>1. Lapsed(m.stale[m.level])
      <4>1. m.level \in First(p)..m.level
        BY <1>6 DEF MintKept, First, Levels
      <4>2. QED BY <1>3, <1>6, <4>1 DEF MintKept, Looked
    <3>2. Names(m.stale[m.level], n)
      BY <1>3, <1>6 DEF MintKept
    <3>3. QED BY <2>3, <3>1, <3>2 DEF Lapsed, Names
  <2>5. ~IsRoot(r) => Kept(r.print) /\ Owns(r.print, r.parent)
    <3> SUFFICES ASSUME ~IsRoot(r) PROVE Kept(r.print) /\ Owns(r.print, r.parent)
      OBVIOUS
    <3>1. r.parent = Chain[p][m.level + 1] /\ r.print = m.hand /\ m.level < Len(Chain[p])
      BY <1>6, <2>3, Chains DEF Last, Levels
    <3>2. Kept(m.hand) /\ Owns(m.hand, Chain[p][m.level + 1])
      BY <1>3, <1>6, <3>1 DEF MintKept
    <3>3. QED BY <3>1, <3>2
  <2>6. Carries
    BY <1>3, <1>8, <2>1, <2>4, FreshCarries
  <2>7. KinTrans' /\ (\A j \in Subjects : Hangs(j)') /\ Kept(r.secret)' /\ Owns(r.secret, n)'
    BY <1>3, <1>8, <2>1, <2>5, <2>6, FreshWhole
  <2>8. PlaceKept(p, k)'
    BY <1>2, <1>3, <2>6, <2>7, InsertKept
  <2>9. \A q \in Processes : PlaceKept(q, at[q])'
    <3>1. Reading(at[Adopter]) => at[Adopter].mine \in strayed'
      BY <1>3, MovedStrayed DEF Moved
    <3>2. QED BY <1>2, <2>6, <2>8, <3>1, PlacesKept
  <2>10. SealedKept'
    BY <1>3, <2>6, SealedCarries DEF Whole
  <2>11. QED BY <2>7, <2>9, <2>10 DEF Whole
<1>9. QED BY <1>5, <1>7, <1>8

LEMMA WholeStep ==
    ASSUME Safe, Whole, ServerMaster = New, [Next]_vars
    PROVE  Whole'
<1>1. CASE UNCHANGED vars
  BY <1>1, WholeSame DEF vars
<1>2. ASSUME NEW p \in Processes, Climb(p) PROVE Whole'
  BY <1>2, WholeMintClimb, WholeBackClimb
<1>3. CASE BeginRotation
  <2>1. UNCHANGED <<rows, numbers, sealed, erased, kin, strayed, at>>
    BY <1>3 DEF BeginRotation
  <2>2. QED BY <2>1, WholeSame
<1>4. CASE Next
  BY <1>2, <1>3, <1>4, WholeWrite, WholeRead, WholeInsert, WholeErase, WholeSweep,
     WholeBeginAdoption, WholeMove, WholeReadBack, WholeRestore, WholeRewrap DEF Next
<1>5. QED BY <1>1, <1>4

\* When the live process mints under the master that the rotation leads to, whatever is
\* sealed reads for ever, under a key raced for, minted anew, moved, restored, rewrapped or
\* beside the swept ones: only an erasure, or an adoption that could not be read back,
\* takes it.
THEOREM NothingElseLost ==
    ASSUME ServerMaster = New
    PROVE  Spec => []NoLoss
<1>1. Safe /\ Whole /\ [Next]_vars => Safe' /\ Whole'
  BY SafeStep, WholeStep
<1>2. Init => Safe /\ Whole
  BY SafeInit, WholeInit
<1>3. Safe /\ Whole => NoLoss
  BY WholeNoLoss
<1>4. QED BY <1>1, <1>2, <1>3, PTL DEF Spec

=============================================================================
