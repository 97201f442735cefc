------------------------------ MODULE MCMonitor ------------------------------
(* Monitor with two thread objects: one more than may live at a time. *)
EXTENDS Monitor, TLC

CONSTANTS k1, k2
=============================================================================
