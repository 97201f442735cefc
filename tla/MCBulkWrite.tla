----------------------------- MODULE MCBulkWrite -----------------------------
(* Instances of BulkWrite: the values are given in the configurations. *)
EXTENDS BulkWrite
=============================================================================
