---------------------------- MODULE MCSteering -----------------------------
(* Small instances of Steering for TLC. *)
EXTENDS Steering, TLC

Symmetry == Permutations(Envs) \cup Permutations(Ports) \cup Permutations(FlowIds)

=============================================================================
