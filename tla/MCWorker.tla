------------------------------- MODULE MCWorker -------------------------------
(* A worker pod with two slots for users. *)
EXTENDS Worker, TLC

CONSTANTS one, east, w, locust, mimesis

MCSrv == one :> east
MCBulkSize == one :> 1
MCOf == [u \in Users |-> w]
List(version) == [lib : {locust, mimesis}, version : {version}]
ImageList == List(0)
ServedLists == {List(1), List(2)}

\* insert_many(..., ordered=False), in all tests.
ASSUME MimesisLoads == Loads = Hosts /\ Ordered = {}
=============================================================================
