------------------------- MODULE MCServerSessionPool -------------------------
(* Instances of ServerSessionPool: threads that are interchangeable. *)
EXTENDS ServerSessionPool, TLC

Symmetry == Permutations(Threads)
=============================================================================
