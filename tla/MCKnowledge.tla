----------------------------- MODULE MCKnowledge -----------------------------
(* Knowledge on small instances. *)
EXTENDS Knowledge, TLC

Symmetry == Permutations(Workers) \cup Permutations(Editors)
=============================================================================
