--------------------------- MODULE MCProcessTree ---------------------------
(* ProcessTree for TLC: the process ids are alike. *)
EXTENDS ProcessTree, TLC

Symmetry == Permutations(Pids)
=============================================================================
