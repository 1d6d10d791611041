------------------------------ MODULE MCTables ------------------------------
(***************************************************************************)
(* Three programs over two columns: the second folds one of them anew and  *)
(* adds a range over the rows, the third changes what creates rows.        *)
(***************************************************************************)
EXTENDS TablesSafety, TLC

CONSTANTS k1, k2

Fold(shape, pinned, ranged) == [shape |-> shape, pinned |-> pinned, ranged |-> ranged]

Seen == "seen" :> Fold("Bool", {"named"}, {})
Counted == "seen" :> Fold("Bool", {"named"}, {"bumped"})
        @@ "count" :> Fold("Int", {}, {"bumped"})
Bumped == "count" :> Fold("Text", {"bumped"}, {"named"})

MCPrograms == {Seen, Counted, Bumped}
=============================================================================
