----------------------- MODULE MCGenerationCoordinator -----------------------
(* GenerationCoordinator on small sets. *)
EXTENDS GenerationCoordinator, TLC

\* Jobs, threads and calls are told apart by their state only.
Symmetry ==
  Permutations(Jobs) \cup Permutations(Workers) \cup Permutations(Cancels)
=============================================================================
