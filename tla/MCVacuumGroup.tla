--------------------------- MODULE MCVacuumGroup ---------------------------
(* One robot with two rooms, two concurrent requests, one catalog reload.  *)
EXTENDS VacuumGroup, TLC

Symmetry == Permutations(Segments) \cup Permutations(Handlers) \cup Permutations(Timers)
=============================================================================
