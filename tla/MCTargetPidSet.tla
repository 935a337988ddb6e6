--------------------------- MODULE MCTargetPidSet ---------------------------
(* TargetPidSet on small instances.                                        *)
EXTENDS TargetPidSet, TLC

\* Threads are interchangeable; the pids are not: one is the sentinel.
ThreadSymmetry == Permutations(Writers) \cup Permutations(Readers)
=============================================================================
