---------------------------- MODULE MCDiagnostics ----------------------------
(* Diagnostics for TLC: the threads that log are alike. *)
EXTENDS Diagnostics

Symmetry == Permutations(Threads)
=============================================================================
