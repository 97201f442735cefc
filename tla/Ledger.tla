------------------------------- MODULE Ledger -------------------------------
(***************************************************************************)
(* What a load test promises to the person who reads its statistics.  Each *)
(* task that a test begins is counted once, as a success or as a failure,  *)
(* or is abandoned by a stop of the test and not counted.  A success is    *)
(* counted when all documents of the task are in the collection of its     *)
(* test.  Documents of any task may also arrive later, whether it has      *)
(* failed, was abandoned, or its test is over.  The next test starts when  *)
(* no task is open.                                                        *)
(*                                                                         *)
(* MetricsLocust implements this specification.                            *)
(***************************************************************************)
EXTENDS Naturals, Sequences

CONSTANTS
  Tasks,  \* records with a field run, the number of the task's test
  Hosts,  \* what a test may be run against
  Size    \* Size[h]: the number of documents of a task against h

VARIABLES
  tests,      \* the hosts of the tests so far
  open,       \* tasks begun and not decided
  success, failure, abandoned,  \* the outcomes
  stored      \* documents in the collections

vars == <<tests, open, success, failure, abandoned, stored>>

\* The documents of task t and the collection they belong to.
Documents(t) ==
  [coll : {tests[t.run]}, task : {t}, no : 1 .. Size[tests[t.run]]]

Begun == open \cup success \cup failure \cup abandoned

Init ==
  /\ tests = <<>> /\ open = {} /\ stored = {}
  /\ success = {} /\ failure = {} /\ abandoned = {}

StartTest(h) ==
  /\ open = {}
  /\ tests' = Append(tests, h)
  /\ UNCHANGED <<open, success, failure, abandoned, stored>>

New(t) == t \notin Begun /\ t.run = Len(tests)

Begin(t) ==
  /\ New(t)
  /\ open' = open \cup {t}
  /\ UNCHANGED <<tests, success, failure, abandoned, stored>>

\* A task may fail before it sends anything.
Refuse(t) ==
  /\ New(t)
  /\ failure' = failure \cup {t}
  /\ UNCHANGED <<tests, open, success, abandoned, stored>>

Succeed(t) ==
  /\ t \in open /\ Documents(t) \subseteq stored
  /\ open' = open \ {t} /\ success' = success \cup {t}
  /\ UNCHANGED <<tests, failure, abandoned, stored>>

Fail(t) ==
  /\ t \in open
  /\ open' = open \ {t} /\ failure' = failure \cup {t}
  /\ UNCHANGED <<tests, success, abandoned, stored>>

Abandon(t) ==
  /\ t \in open
  /\ open' = open \ {t} /\ abandoned' = abandoned \cup {t}
  /\ UNCHANGED <<tests, success, failure, stored>>

Arrive(d) ==
  /\ stored' = stored \cup {d}
  /\ UNCHANGED <<tests, open, success, failure, abandoned>>

Next ==
  \/ \E h \in Hosts : StartTest(h)
  \/ \E t \in Tasks : Begin(t) \/ Refuse(t)
  \/ \E t \in open : Succeed(t) \/ Fail(t) \/ Abandon(t)
  \/ \E t \in Begun : \E d \in Documents(t) : Arrive(d)

Spec == Init /\ [][Next]_vars
=============================================================================
