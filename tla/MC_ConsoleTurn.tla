--------------------------- MODULE MC_ConsoleTurn ---------------------------
(* ConsoleTurn on small instances: the sets that a symmetry permutes are   *)
(* sets of model values given by each .cfg.                                *)
EXTENDS ConsoleTurn, TLC

(* No constant names one of these values and no property tells them apart. *)
Symmetry ==
  Permutations(Activities) \cup Permutations(Conns) \cup Permutations(Projects)
  \cup Permutations(GatedTools)
=============================================================================
