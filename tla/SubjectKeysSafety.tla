-------------------------- MODULE SubjectKeysSafety --------------------------
(***************************************************************************)
(* What the key store promises: an erasure is for ever, and nothing else   *)
(* loses what was sealed.                                                  *)
(***************************************************************************)
EXTENDS SubjectKeys

Stages == {"idle", "look", "reload", "climb", "insert", "seal", "move", "readback", "undo"}
Place == [pc : Stages, level : Levels, tries : [Levels -> 0..MintAttempts],
          stale : [Levels -> Row], why : {"look", "reload", "readback"},
          secret : 0..MaxNumbers, up : Subjects \cup {NoSubject}, print : Nat,
          hand : 0..MaxNumbers, mine : Row]

\* The records of SubjectKeys, and a process stays on its chain.
TypeOK ==
    /\ rows \in [Subjects -> Row]
    /\ numbers \in 0..MaxNumbers
    /\ sealed \subseteq [subject : Subjects, secret : Numbers]
    /\ at \in [Processes -> Place]
    /\ \A p \in Processes : at[p].level <= Len(Chain[p])
    /\ snapshot \in [taken : BOOLEAN,
                     roots : SUBSET [subject : Subjects, secret : Nat, master : Masters]]
    /\ erased \subseteq Numbers /\ strayed \subseteq Row
    /\ kin \in [Numbers -> SUBSET Numbers]

\* An erasure took this secret, or one it hangs from.
Doomed(s) == kin[s] \cap erased # {}

\* What an erasure shredded never reads again: whatever is minted, replaced,
\* adopted, undone, rotated or swept afterwards, and however late the step that
\* still held the secret, no row opens to a secret that was erased or that hung
\* from one that was.
ErasedStays ==
    \A n \in Subjects : Readable(n) => ~Doomed(rows[n].secret)

Lost(e) == ~(Readable(e.subject) /\ rows[e.subject].secret = e.secret)

\* Until an adoption has read back the row it moved, the row and all beneath it
\* may hang from a parent that is gone.  What becomes of those rows in the
\* meantime (a write replaces one, the sweeper takes one) is for good.
Astray(x) ==
    /\ \E r \in strayed : r.secret \in kin[x]
    /\ \/ at[Adopter].pc # "idle"
       \/ \E k \in kin[x] : \A n \in Subjects : rows[n].secret # k

\* Nothing but an erasure loses content: whatever is sealed, under a key two
\* writers raced for, or whose row was replaced, swept, moved, restored or
\* rewrapped, reads unless an erasure took its secret or one it hangs from, or
\* an adoption led it astray.
NoLoss ==
    \A e \in sealed : Lost(e) => Doomed(e.secret) \/ Astray(e.secret)

\* An adoption loses nothing: the wrapping moves and the secret does not, so once
\* it is over every value is as readable as it was, whatever was erased, written
\* or swept while it ran.
AdoptionLosesNothing ==
    at[Adopter].pc = "idle" => \A e \in sealed : Lost(e) => Doomed(e.secret)
=============================================================================
