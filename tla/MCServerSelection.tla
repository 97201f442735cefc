-------------------------- MODULE MCServerSelection --------------------------
(* Topologies of three servers, and read preferences with a fallback. *)
EXTENDS ServerSelection, TLC

CONSTANT x

\* One set that matches all servers, and a set before it.
Fallbacks == {<<{}>>, <<{x}, {}>>}
Limits == {-1, 2, 3}
Symmetry == Permutations(Servers)
=============================================================================
