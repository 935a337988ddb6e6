---------------------------- MODULE MCFlowTracker ----------------------------
(* FlowTracker for TLC: ordinary processes are alike, and so are ports. *)
EXTENDS FlowTracker, TLC

Symmetry == Permutations(Pids \ NoisePids) \cup Permutations(Ports)
=============================================================================
