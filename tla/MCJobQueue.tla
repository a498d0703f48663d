------------------------------ MODULE MCJobQueue ------------------------------
(* The job queue on small instances. *)
EXTENDS QueueRefinement, TLC

Symmetry == Permutations(Slot)
=============================================================================
