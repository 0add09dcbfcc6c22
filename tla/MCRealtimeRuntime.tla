-------------------------- MODULE MCRealtimeRuntime --------------------------
(* Instances of RealtimeRuntime for TLC. *)
EXTENDS RealtimeRuntime, TLC

Symmetry == Permutations(Connections) \cup Permutations(Users)
=============================================================================
