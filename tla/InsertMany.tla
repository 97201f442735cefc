----------------------------- MODULE InsertMany -----------------------------
(***************************************************************************)
(* What Collection.insert_many promises about the documents 1 .. NumDocs   *)
(* of one call, with no word on commands, sessions and retries: a document *)
(* is stored at most once, in order when the call is ordered, and the      *)
(* report of a call that returns or raises BulkWriteError is exact.        *)
(***************************************************************************)
EXTENDS Naturals, FiniteSets

CONSTANTS
  NumDocs,
  None  \* no report yet, or no number in it

VARIABLES
  ordered, \* the argument of the call
  bad,     \* the documents that are refused
  stored,  \* how often each document is stored
  report   \* None before the end, then the number of documents inserted, or
           \* None for an error that tells nothing of them

Docs == 1 .. NumDocs
StoredDocs == {d \in Docs : stored[d] # 0}

Init ==
  /\ ordered \in BOOLEAN /\ bad \in SUBSET Docs
  /\ stored = [d \in Docs |-> 0] /\ report = None

Store(d) ==
  /\ report \in {None, [inserted |-> None]}
  /\ d \notin bad /\ stored[d] = 0
  /\ ordered => \A e \in 1 .. d - 1 : stored[e] = 1
  /\ stored' = [stored EXCEPT ![d] = 1] /\ UNCHANGED <<ordered, bad, report>>

Report ==
  /\ report = None
  /\ \E n \in {Cardinality(StoredDocs), None} : report' = [inserted |-> n]
  /\ UNCHANGED <<ordered, bad, stored>>

Next == (\E d \in Docs : Store(d)) \/ Report
Spec == Init /\ [][Next]_<<ordered, bad, stored, report>>
=============================================================================
