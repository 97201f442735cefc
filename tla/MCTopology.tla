----------------------------- MODULE MCTopology -----------------------------
(* Topology with two operations next to the monitor. *)
EXTENDS Topology, TLC

CONSTANTS t1, t2
=============================================================================
