------------------------------ MODULE MC_Rollback ------------------------------
(* Rollback for TLC: neither the paths nor the connections differ. *)
EXTENDS Rollback

Symmetry == Permutations(Files) \cup Permutations(Callers)

=============================================================================
