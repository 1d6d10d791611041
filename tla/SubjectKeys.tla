----------------------------- MODULE SubjectKeys -----------------------------
(***************************************************************************)
(* The subject keys of hekla.db and everything that changes them at once:  *)
(* the writes of a live process, which mint a key and every ancestor it    *)
(* hangs from; `hekla erase`; the sweeper; `hekla adopt`, which hangs a    *)
(* key from the parent its subject now declares; and `hekla rotate`.       *)
(*                                                                         *)
(* A row holds a secret wrapped either under a master (a root) or under    *)
(* the secret of another row (a child), and a child remembers its parent's *)
(* fingerprint.  Secrets and wrapped bytes are numbers drawn from one      *)
(* counter: each is random and never drawn twice.  A step is what runs     *)
(* under one take of the operational lock, so opening a child takes one    *)
(* step per link.                                                          *)
(***************************************************************************)
EXTENDS Integers, Sequences, FiniteSets

CONSTANTS
    Subjects,      \* subjects, each with its value: "Customer 88"
    NoSubject,     \* the parent of a root
    Writers,       \* threads of the live process that seal events
    Adopter,       \* the process of `hekla adopt`
    Chain,         \* process -> its subject and the ancestors it names, nearest first
    Depth,         \* the longest chain
    Old, New,      \* the master being rotated away, and the one rotated to
    NoMaster,      \* the master of a child
    ServerMaster,  \* the primary master of the live process
    Founded,       \* subjects that have a root key under Old to begin with
    MintAttempts,  \* MINT_ATTEMPTS: looks at one link before a mint gives up
    SweepLimit,    \* the most rows one sweep deletes
    MaxNumbers,    \* bound: secrets and bytes drawn
    MaxWrites,     \* bound: events a writer seals
    MaxErases,     \* bound: erasures
    MaxAdoptions,  \* bound: adoptions begun
    MaxRotations   \* bound: rotations begun

Processes == Writers \cup {Adopter}
Masters == {Old, New}
Levels == 1..Depth

ASSUME SubjectAssumption ==
    /\ IsFiniteSet(Subjects) /\ NoSubject \notin Subjects /\ Founded \subseteq Subjects
    /\ Old # New /\ NoMaster \notin Masters /\ ServerMaster \in Masters

ASSUME ChainAssumption ==
    /\ Depth \in Nat \ {0} /\ Adopter \notin Writers
    /\ Chain \in [Processes -> Seq(Subjects)]
    /\ \A p \in Processes : Len(Chain[p]) \in Levels
    /\ Len(Chain[Adopter]) > 1

ASSUME BoundAssumption ==
    /\ MintAttempts \in Nat \ {0} /\ SweepLimit \in Nat \ {0} /\ MaxNumbers \in Nat
    /\ MaxWrites \in Nat /\ MaxErases \in Nat /\ MaxAdoptions \in Nat /\ MaxRotations \in Nat

VARIABLES
    rows,          \* subject_key: a row by subject, or NoRow
    numbers,       \* the last number drawn
    sealed,        \* the events of the log: a subject and the secret its content is under
    \* What each process holds between two takes of the lock.
    at,            \* process -> where it is in mint_secret_in or adopt_in, see Idle
    snapshot,      \* the roots `hekla rotate` has read, or NoSnapshot
    \* History, which the code does not keep.
    erased,        \* secrets whose row an erasure removed
    kin,           \* secret -> itself and the secrets whose erasure takes it along
    strayed,       \* rows an adoption moved and has not read back
    \* What the bounds count.
    writes, erases, adoptions, rotations

tables == <<rows, numbers, sealed>>
history == <<erased, kin, strayed>>
counts == <<writes, erases, adoptions, rotations>>
vars == <<rows, numbers, sealed, at, snapshot, erased, kin, strayed,
          writes, erases, adoptions, rotations>>

Numbers == 1..MaxNumbers
NoRow == [secret |-> 0, bytes |-> 0, master |-> NoMaster, parent |-> NoSubject, print |-> 0]
Row == [secret : Nat, bytes : Nat, master : Masters \cup {NoMaster},
        parent : Subjects \cup {NoSubject}, print : Nat]

Present(r) == r.secret # 0
IsRoot(r) == r.master # NoMaster
Root(s, b, m) ==
    [secret |-> s, bytes |-> b, master |-> m, parent |-> NoSubject, print |-> 0]
Child(s, b, n, f) ==
    [secret |-> s, bytes |-> b, master |-> NoMaster, parent |-> n, print |-> f]

\* Each process: what it is doing; the link of its chain it is at; how often it
\* has looked at each link; the row it found there and means to replace; the
\* chain walk it is on (the secret it will yield, the parent it reads next and
\* the fingerprint that must have) and what asked for it; the secret in hand;
\* and, for an adoption, the row it read first.
Idle == [pc |-> "idle", level |-> 1, tries |-> [i \in Levels |-> 0],
         stale |-> [i \in Levels |-> NoRow], why |-> "look",
         secret |-> 0, up |-> NoSubject, print |-> 0, hand |-> 0, mine |-> NoRow]

First(p) == IF p = Adopter THEN 2 ELSE 1
Primary(p) == IF p = Adopter THEN New ELSE ServerMaster
Link(p, m) == Chain[p][m.level]
Last(p, m) == m.level = Len(Chain[p])

-----------------------------------------------------------------------------
\* Where a process goes next, from the record m of where it is.

\* A mint at link i of the chain begins, or looks again.
Look(m, i, n) == [m EXCEPT !.pc = "look", !.level = i, !.tries[i] = n]

\* Mutant: the first link of the chain is taken for a parent.
YieldPast(p, m, s) ==
    IF m.level >= First(p) THEN [m EXCEPT !.pc = "insert", !.level = m.level - 1, !.hand = s]
    ELSE IF p = Adopter THEN [m EXCEPT !.pc = "move", !.hand = s]
    ELSE [m EXCEPT !.pc = "seal", !.hand = s]

\* A link has yielded secret s: the write goes on with it, or the link below hangs from it.
Yield(p, m, s) ==
    IF m.level > First(p) THEN [m EXCEPT !.pc = "insert", !.level = m.level - 1, !.hand = s]
    ELSE IF p = Adopter THEN [m EXCEPT !.pc = "move", !.hand = s]
    ELSE [m EXCEPT !.pc = "seal", !.hand = s]

\* An attempt ended with nothing: the lowest link with attempts left looks again,
\* and a mint that has none left ends its write, or its adoption, without effect.
LookAgain(p, m) ==
    LET left == {i \in First(p)..m.level : m.tries[i] < MintAttempts}
    IN  IF left = {} THEN Idle
        ELSE LET i == CHOOSE i \in left : \A j \in left : j <= i
             IN  Look(m, i, m.tries[i] + 1)

\* A row that opens yields its secret, and an adoption that can be read back is over.
Opens(p, m, s) == IF m.why = "readback" THEN Idle ELSE Yield(p, m, s)

\* Mutant: a moved row that cannot be read back is left where it is.
FailsQuietly(p, m) ==
    CASE m.why = "look" /\ Last(p, m) -> [m EXCEPT !.pc = "insert"]
      [] m.why = "look" /\ ~Last(p, m) -> Look(m, m.level + 1, 1)
      [] m.why = "reload" -> LookAgain(p, m)
      [] OTHER -> Idle

\* A row that does not: a look mints the parent first, or a root at once, a
\* reload is an attempt lost, and a moved row that cannot be read back is undone.
Fails(p, m) ==
    CASE m.why = "look" /\ Last(p, m) -> [m EXCEPT !.pc = "insert"]
      [] m.why = "look" /\ ~Last(p, m) -> Look(m, m.level + 1, 1)
      [] m.why = "reload" -> LookAgain(p, m)
      [] OTHER -> [m EXCEPT !.pc = "undo"]

\* A root opens under its master; a child waits for its parent to be read.
OpenRow(p, m, r) ==
    IF ~Present(r) THEN Fails(p, m)
    ELSE IF IsRoot(r) THEN Opens(p, m, r.secret)
    ELSE [m EXCEPT !.pc = "climb", !.secret = r.secret, !.up = r.parent, !.print = r.print]

\* The parent yields only if it still has the fingerprint the child recorded.
Matches(m, r) == Present(r) /\ r.secret = m.print
IsLast(m, r) == Matches(m, r) /\ IsRoot(r)

ClimbTo(p, m, r) ==
    IF ~Matches(m, r) THEN Fails(p, m)
    ELSE IF IsLast(m, r) THEN Opens(p, m, m.secret)
    ELSE [m EXCEPT !.up = r.parent, !.print = r.print]

-----------------------------------------------------------------------------
\* Rows L open, each from the one it hangs from, up to a root.
Chained(L) ==
    \A n \in L :
        /\ Present(rows[n])
        /\ IsRoot(rows[n]) \/ /\ rows[n].parent \in L
                              /\ rows[rows[n].parent].secret = rows[n].print

\* load_secret in one look: the row opens, and so does every ancestor it hangs from.
Readable(n) == \E L \in SUBSET Subjects : n \in L /\ Chained(L)

Blank == [p \in Processes |-> Idle]
NoSnapshot == [taken |-> FALSE, roots |-> {}]

\* Founded subjects were written before the rotation, and before they had a parent.
Init ==
    /\ \E first \in [Founded -> Numbers] :
        /\ \A m, n \in Founded : first[m] = first[n] => m = n
        /\ {first[n] : n \in Founded} = 1..Cardinality(Founded)
        /\ rows = [n \in Subjects |-> IF n \in Founded THEN Root(first[n], first[n], Old)
                                                       ELSE NoRow]
        /\ sealed = {[subject |-> n, secret |-> first[n]] : n \in Founded}
    /\ numbers = Cardinality(Founded)
    /\ at = Blank /\ snapshot = NoSnapshot
    /\ erased = {} /\ strayed = {}
    /\ kin = [s \in Numbers |-> {s}]
    /\ writes = 0 /\ erases = 0 /\ adoptions = 0 /\ rotations = 0

Go(p, m) == at' = [at EXCEPT ![p] = m]

-----------------------------------------------------------------------------
\* A write of the live process: encrypt_subject_in.
BeginWrite(w) ==
    /\ at[w].pc = "idle" /\ writes < MaxWrites
    /\ writes' = writes + 1
    /\ Go(w, Look(Idle, 1, 1))
    /\ UNCHANGED <<tables, snapshot, history, erases, adoptions, rotations>>

\* get_subject_key, and open_row as far as one read goes.
ReadRow(p) ==
    LET m == at[p]
        r == rows[Link(p, m)]
    IN  /\ m.pc \in {"look", "reload"}
        /\ Go(p, OpenRow(p, [m EXCEPT !.why = m.pc,
                                      !.stale[m.level] = IF m.pc = "look" THEN r ELSE @], r))
        /\ UNCHANGED <<tables, snapshot, history, counts>>

\* The parent of the row in hand is read.  From the step that reads a moved row
\* back to its new parent on, an erasure of the parent takes the row along.
Climb(p) ==
    LET m == at[p]
        next == ClimbTo(p, m, rows[m.up])
        s == m.mine.secret
        adopted == m.why = "readback" /\ m.secret = s /\ IsLast(m, rows[m.up])
    IN  /\ m.pc = "climb"
        /\ Go(p, next)
        /\ kin' = IF adopted THEN [x \in Numbers |-> IF s \in kin[x]
                                        THEN kin[x] \cup kin[m.hand] ELSE kin[x]]
                             ELSE kin
        /\ strayed' = IF adopted THEN strayed \ {m.mine} ELSE strayed
        /\ UNCHANGED <<tables, snapshot, erased, counts>>

\* The row the key opens with once a candidate c has been offered: the stale row
\* goes if it is still there, and the candidate comes only where there is none.
KeepsOrTakes(r, stale, c) ==
    IF Present(r) /\ ~(Present(stale) /\ r.bytes = stale.bytes) THEN r ELSE c

\* get_or_insert_subject_key, and what the row that persists is opened with: its
\* master, the parent in hand, or a chain of its own.
Insert(p) ==
    LET m == at[p]
        n == Link(p, m)
        top == Last(p, m)
        fresh == numbers + 1
        candidate == IF top THEN Root(fresh, fresh, Primary(p))
                            ELSE Child(fresh, fresh, Chain[p][m.level + 1], m.hand)
        kept == KeepsOrTakes(rows[n], m.stale[m.level], candidate)
        inHand == ~top /\ kept.parent = Chain[p][m.level + 1] /\ kept.print = m.hand
    IN  /\ m.pc = "insert" /\ fresh \in Numbers
        /\ rows' = [rows EXCEPT ![n] = kept]
        /\ numbers' = IF kept = candidate THEN fresh ELSE numbers
        /\ kin' = IF kept = candidate /\ ~top
                  THEN [kin EXCEPT ![fresh] = {fresh} \cup kin[m.hand]] ELSE kin
        /\ Go(p, IF IsRoot(kept) \/ inHand THEN Yield(p, m, kept.secret)
                                           ELSE [m EXCEPT !.pc = "reload"])
        /\ UNCHANGED <<sealed, snapshot, erased, strayed, counts>>

\* The event is appended, its content under the secret in hand.
Seal(w) ==
    /\ at[w].pc = "seal"
    /\ sealed' = sealed \cup {[subject |-> Chain[w][1], secret |-> at[w].hand]}
    /\ Go(w, Idle)
    /\ UNCHANGED <<rows, numbers, snapshot, history, counts>>

-----------------------------------------------------------------------------
\* `hekla erase`.
Erase(n) ==
    /\ Present(rows[n]) /\ erases < MaxErases
    /\ erases' = erases + 1
    /\ rows' = [rows EXCEPT ![n] = NoRow]
    /\ erased' = erased \cup {rows[n].secret}
    /\ UNCHANGED <<numbers, sealed, at, snapshot, kin, strayed, writes, adoptions, rotations>>

\* A child whose parent's row is gone.
IsOrphan(n) ==
    Present(rows[n]) /\ rows[n].parent \in Subjects /\ ~Present(rows[rows[n].parent])

\* sweep_orphan_subject_keys: all of them, or as many as one pass may take.
Sweep ==
    LET orphans == {n \in Subjects : IsOrphan(n)}
    IN  \E gone \in SUBSET orphans :
        /\ gone # {} /\ Cardinality(gone) <= SweepLimit
        /\ gone = orphans \/ Cardinality(gone) = SweepLimit
        /\ rows' = [n \in Subjects |-> IF n \in gone THEN NoRow ELSE rows[n]]
        /\ UNCHANGED <<numbers, sealed, at, snapshot, history, counts>>

-----------------------------------------------------------------------------
\* adopt_in: a root's secret is taken in hand, its ancestors are minted (ReadRow,
\* Climb and Insert, from the second link on), the row is moved and read back.
Adoptee == Chain[Adopter][1]

BeginAdoption ==
    /\ at[Adopter].pc = "idle" /\ adoptions < MaxAdoptions
    /\ Present(rows[Adoptee]) /\ IsRoot(rows[Adoptee])
    /\ adoptions' = adoptions + 1
    /\ Go(Adopter, [Look(Idle, 2, 1) EXCEPT !.mine = rows[Adoptee]])
    /\ UNCHANGED <<tables, snapshot, history, writes, erases, rotations>>

\* adopt_subject_key: the row moves if it still holds the bytes that were read.
MoveRow ==
    LET m == at[Adopter]
        moved == Child(m.mine.secret, numbers + 1, Chain[Adopter][2], m.hand)
    IN  /\ m.pc = "move" /\ numbers + 1 \in Numbers
        /\ IF rows[Adoptee].bytes = m.mine.bytes
           THEN /\ rows' = [rows EXCEPT ![Adoptee] = moved]
                /\ numbers' = numbers + 1
                /\ strayed' = strayed \cup {moved}
                /\ Go(Adopter, [m EXCEPT !.pc = "readback", !.mine = moved])
           ELSE Go(Adopter, Idle) /\ UNCHANGED <<rows, numbers, strayed>>
        /\ UNCHANGED <<sealed, snapshot, erased, kin, counts>>

ReadBack ==
    LET m == at[Adopter]
    IN  /\ m.pc = "readback"
        /\ Go(Adopter, OpenRow(Adopter, [m EXCEPT !.why = "readback"], rows[Adoptee]))
        /\ UNCHANGED <<tables, snapshot, history, counts>>

\* Mutant: the undo puts the row back whether or not the moved row is still there.
RestoreRootBlindly ==
    LET m == at[Adopter]
    IN  /\ m.pc = "undo" /\ numbers + 1 \in Numbers
        /\ rows' = [rows EXCEPT ![Adoptee] = Root(m.mine.secret, numbers + 1, New)]
        /\ numbers' = numbers + 1
        /\ Go(Adopter, Idle)
        /\ UNCHANGED <<sealed, snapshot, history, counts>>

\* restore_root: an update keyed on the bytes the adoption wrote.
RestoreRoot ==
    LET m == at[Adopter]
    IN  /\ m.pc = "undo" /\ numbers + 1 \in Numbers
        /\ IF rows[Adoptee].bytes = m.mine.bytes
           THEN /\ rows' = [rows EXCEPT ![Adoptee] = Root(m.mine.secret, numbers + 1, New)]
                /\ numbers' = numbers + 1
           ELSE UNCHANGED <<rows, numbers>>
        /\ Go(Adopter, Idle)
        /\ UNCHANGED <<sealed, snapshot, history, counts>>

-----------------------------------------------------------------------------
\* `hekla rotate`: every root under another master is read, and later rewrapped
\* in one transaction wherever the row is still under the master it was read under.
BeginRotation ==
    /\ ~snapshot.taken /\ rotations < MaxRotations
    /\ rotations' = rotations + 1
    /\ snapshot' = [taken |-> TRUE,
                    roots |-> {[subject |-> n, secret |-> rows[n].secret,
                                master |-> rows[n].master] :
                               n \in {k \in Subjects : rows[k].master \in Masters \ {New}}}]
    /\ UNCHANGED <<tables, at, history, writes, erases, adoptions>>

Rewrapped(n, b) ==
    LET here == {r \in snapshot.roots : r.subject = n /\ r.master = rows[n].master}
    IN  IF here = {} THEN rows[n] ELSE Root((CHOOSE r \in here : TRUE).secret, b, New)

Rewrap ==
    /\ snapshot.taken /\ numbers + 1 \in Numbers
    /\ rows' = [n \in Subjects |-> Rewrapped(n, numbers + 1)]
    /\ numbers' = IF rows' = rows THEN numbers ELSE numbers + 1
    /\ snapshot' = NoSnapshot
    /\ UNCHANGED <<sealed, at, history, counts>>

-----------------------------------------------------------------------------
Next ==
    \/ \E w \in Writers : BeginWrite(w) \/ Seal(w)
    \/ \E p \in Processes : ReadRow(p) \/ Climb(p) \/ Insert(p)
    \/ \E n \in Subjects : Erase(n)
    \/ Sweep
    \/ BeginAdoption \/ MoveRow \/ ReadBack \/ RestoreRoot
    \/ BeginRotation \/ Rewrap

Spec == Init /\ [][Next]_vars
=============================================================================
