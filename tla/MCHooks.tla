------------------------------ MODULE MCHooks ------------------------------
(* The new text of the constitution denies a path that the old one does    *)
(* not; the ticket of the first agent allows that path, that of the second *)
(* cannot be loaded.                                                       *)
EXTENDS Hooks, TLC

CONSTANTS p1, p2

MCDenies == [text \in {"old", "new"} |-> IF text = "old" THEN {} ELSE {"a"}]
MCScope == <<{"a"}, {"b"}>>
MCSymmetry == Permutations({p1, p2})
=============================================================================
