------------------------------- MODULE MCPool -------------------------------
(* Instances of Pool: threads that are interchangeable. *)
EXTENDS Pool, TLC

Symmetry == Permutations(Threads)
=============================================================================
