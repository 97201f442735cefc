---------------------------- MODULE Worker_proofs ----------------------------
(***************************************************************************)
(* What holds of the simulated users, for any users, hosts, clusters,      *)
(* batch sizes and bounds, ordered or not; with the numbers of the mimesis *)
(* loader and the restarts of its processes; and in the pods that boot.    *)
(*                                                                         *)
(* The modules Worker, Mimesis and MetricsLocust extend one another, and   *)
(* so do the three specifications here: a step of WSpec is a step of MSpec *)
(* or one of the pods alone, and a step of MSpec is one of Spec, one that  *)
(* leaves the users alone, or the restart of a process. What is shown of   *)
(* the users is used for all three.                                        *)
(***************************************************************************)
EXTENDS Worker, TLAPS

(***************************************************************************)
(* 1. The users.                                                           *)
(*                                                                         *)
(* None of the properties is inductive alone: that a document is in the    *)
(* collection of its test needs that the instance of a live user was built *)
(* from the host of the current test, and that a task is counted once      *)
(* needs that the tasks of a slot are numbered without repetition.  The    *)
(* invariant below adds these facts.                                       *)
(***************************************************************************)

\* What __init__ leaves in an instance of the current test.
InstanceOf(u) ==
  LET client == [user |-> u, run |-> Len(tests), srv |-> Srv[Host]]
  IN  [client |-> client, coll |-> Host, bulk_size |-> BulkSize[Host],
       audit |-> client]

Live(u) == pc[u] \in {"ready", "call", "audit", "sleep"}

TestsInv == (running \/ \E u \in Users : pc[u] # "none") => tests # <<>>

InstanceInv == \A u \in Users : Live(u) => self[u] = InstanceOf(u)

BegunInv == \A t \in begun : t.run \in 1 .. Len(tests) /\ t.n <= n[t.user]

TaskInv ==
  \A u \in Users : pc[u] \in {"call", "audit"} =>
    task[u] \in begun /\ task[u].user = u /\ task[u].run = Len(tests)

CurrentInv == TestsInv /\ InstanceInv /\ BegunInv /\ TaskInv

IInv ==
  /\ TypeOK /\ CurrentInv
  /\ CountedOnce /\ RightCollection /\ SuccessIsStored /\ AuditOnSameCluster

\* The host of a test does not change when another test is started.
LEMMA TestsGrow ==
  ASSUME tests \in Seq(Hosts), NEW h \in Hosts, tests' = Append(tests, h)
  PROVE  /\ tests' \in Seq(Hosts)
         /\ Len(tests') = Len(tests) + 1
         /\ \A i \in 1 .. Len(tests) : tests'[i] = tests[i]
         /\ Host' = h
BY DEF Host

\* The documents of a batch of the current test.
LEMMA BatchOfTest ==
  ASSUME TypeOK, CurrentInv, NEW u \in Users, Live(u), NEW t \in Task
  PROVE  /\ self[u].coll = Host /\ self[u].bulk_size = BulkSize[Host]
         /\ self[u].client.run = Len(tests) /\ self[u].audit.srv = Srv[Host]
         /\ Len(tests) \in Nat \ {0} /\ Host \in Hosts
         /\ Host = tests[Len(tests)]
         /\ \A d : d \in Batch(self[u], t) <=>
              d \in [coll : {Host}, task : {t}, no : 1 .. BulkSize[Host]]
<1>1. self[u] = InstanceOf(u)
  BY DEF CurrentInv, InstanceInv
<1>2. tests # <<>> /\ tests \in Seq(Hosts)
  BY DEF CurrentInv, TestsInv, Live, TypeOK
<1>3. Len(tests) \in Nat \ {0} /\ Host \in Hosts
  BY <1>2 DEF Host
<1> QED
  BY <1>1, <1>3 DEF InstanceOf, Batch, Host

\* The invariant holds before the first test.
LEMMA InitIInv == Init => IInv
<1> SUFFICES ASSUME Init PROVE IInv
  OBVIOUS
<1>1. TypeOK
  <2>1. tests \in Seq(Hosts)
    BY DEF Init
  <2>2. pc \in [Users -> {"none", "broken", "ready", "call", "audit", "sleep"}]
    BY DEF Init
  <2>3. self \in [Users -> Instance \cup {None}]
    BY DEF Init
  <2>4. n \in [Users -> Nat] /\ task \in [Users -> Task \cup {None}]
    BY DEF Init
  <2> QED
    BY <2>1, <2>2, <2>3, <2>4 DEF Init, TypeOK
<1>2. CurrentInv
  BY DEF Init, CurrentInv, TestsInv, InstanceInv, BegunInv, TaskInv, Live
<1>3. CountedOnce /\ RightCollection /\ SuccessIsStored /\ AuditOnSameCluster
  BY DEF Init, CountedOnce, RightCollection, SuccessIsStored,
         AuditOnSameCluster
<1> QED
  BY <1>1, <1>2, <1>3 DEF IInv

-----------------------------------------------------------------------------
\* A new test leaves the earlier tests with their hosts.
LEMMA StartTestStep ==
  ASSUME IInv, NEW h \in Hosts, StartTest(h)
  PROVE  IInv'
<1> USE DEF requests, mongo, history
<1>1. /\ tests' \in Seq(Hosts) /\ Len(tests') = Len(tests) + 1
      /\ Len(tests) \in Nat
      /\ \A i \in 1 .. Len(tests) : tests'[i] = tests[i]
  BY TestsGrow DEF IInv, TypeOK, StartTest
<1>2. TypeOK'
  BY <1>1 DEF IInv, TypeOK, StartTest
<1>3. CurrentInv'
  <2>1. tests' # <<>>
    BY <1>1
  <2>2. BegunInv'
    BY <1>1 DEF IInv, CurrentInv, BegunInv, StartTest
  <2>3. \A u \in Users : pc'[u] = "none"
    BY DEF StartTest
  <2> QED
    BY <2>1, <2>2, <2>3
    DEF CurrentInv, TestsInv, InstanceInv, TaskInv, Live
<1>4. CountedOnce'
  BY DEF IInv, CountedOnce, StartTest
<1>5. RightCollection'
  BY <1>1 DEF IInv, TypeOK, CurrentInv, BegunInv, RightCollection, StartTest
<1>6. SuccessIsStored'
  BY <1>1 DEF IInv, TypeOK, CurrentInv, BegunInv, SuccessIsStored, StartTest
<1>7. AuditOnSameCluster'
  BY <1>1 DEF IInv, TypeOK, CurrentInv, BegunInv, AuditOnSameCluster, StartTest
<1> QED
  BY <1>2, <1>3, <1>4, <1>5, <1>6, <1>7 DEF IInv

\* The stop of a test touches no task.
LEMMA StopTestStep ==
  ASSUME IInv, StopTest
  PROVE  IInv'
<1> USE DEF requests, mongo, history
<1>1. TypeOK'
  <2>1. running' \in BOOLEAN
    BY DEF StopTest
  <2> QED
    BY <2>1 DEF IInv, TypeOK, StopTest
<1>2. CurrentInv'
  BY DEF IInv, CurrentInv, TestsInv, InstanceInv, InstanceOf, Host, BegunInv,
         TaskInv, Live, StopTest
<1>3. CountedOnce' /\ RightCollection' /\ SuccessIsStored' /\ AuditOnSameCluster'
  BY DEF IInv, CountedOnce, RightCollection, SuccessIsStored,
         AuditOnSameCluster, StopTest
<1> QED
  BY <1>1, <1>2, <1>3 DEF IInv

\* A killed user leaves its pending task uncounted.
LEMMA KillStep ==
  ASSUME IInv, NEW u \in Users, Kill(u)
  PROVE  IInv'
<1> USE DEF requests, mongo
<1>1. TypeOK'
  BY DEF IInv, TypeOK, CurrentInv, TaskInv, Kill
<1>2. CurrentInv'
  BY DEF IInv, TypeOK, CurrentInv, TestsInv, InstanceInv, InstanceOf, Host, BegunInv,
         TaskInv, Live, Kill
<1>3. CountedOnce'
  <2>1. CASE pc[u] = "call"
    <3> DEFINE pending == {task[v] : v \in {w \in Users : pc[w] = "call"}}
    <3>1. /\ killed' = killed \cup {task[u]} /\ UNCHANGED <<task, begun, success, failure>>
          /\ \A v \in Users : pc'[v] = "call" <=> pc[v] = "call" /\ v # u
      BY <2>1 DEF IInv, TypeOK, Kill
    <3>2. \A v \in Users : pc[v] = "call" /\ v # u => task[v] # task[u]
      BY <2>1 DEF IInv, CurrentInv, TaskInv
    <3>3. task[u] \in pending /\ pending' = pending \ {task[u]}
      BY <2>1, <3>1, <3>2
    <3>4. begun \ (success \cup failure \cup killed) = pending
      BY DEF IInv, CountedOnce
    <3> QED
      BY <3>1, <3>3, <3>4 DEF IInv, CountedOnce
  <2>2. CASE pc[u] # "call"
    BY <2>2 DEF IInv, TypeOK, CountedOnce, Kill
  <2> QED
    BY <2>1, <2>2
<1>4. RightCollection' /\ SuccessIsStored' /\ AuditOnSameCluster'
  BY DEF IInv, RightCollection, SuccessIsStored, AuditOnSameCluster, Kill
<1> QED
  BY <1>1, <1>2, <1>3, <1>4 DEF IInv


-----------------------------------------------------------------------------
\* __init__ gives an instance the attributes of the test in force.
LEMMA InitStep ==
  ASSUME IInv, NEW u \in Users, __init__(u)
  PROVE  IInv'
<1> USE DEF requests, mongo, history
<1>1. tests # <<>> /\ Len(tests) \in Nat /\ Host \in Hosts
  BY DEF IInv, TypeOK, CurrentInv, TestsInv, __init__, Host
<1>2. self' = [self EXCEPT ![u] = InstanceOf(u)]
  BY DEF __init__, AuditFor, ClassAudit, InstanceOf
<1>3. InstanceOf(u) \in Instance
  BY <1>1, ConstantsAssumption DEF InstanceOf, Instance, Client
<1>4. TypeOK'
  BY <1>2, <1>3 DEF IInv, TypeOK, __init__
<1>5. CurrentInv'
  BY <1>1, <1>2 DEF IInv, TypeOK, CurrentInv, TestsInv, InstanceInv, InstanceOf,
                    Host, BegunInv, TaskInv, Live, __init__
<1>6. CountedOnce'
  BY DEF IInv, TypeOK, CountedOnce, __init__
<1>7. RightCollection' /\ SuccessIsStored' /\ AuditOnSameCluster'
  BY DEF IInv, RightCollection, SuccessIsStored, AuditOnSameCluster, __init__
<1> QED
  BY <1>4, <1>5, <1>6, <1>7 DEF IInv

\* The steps that only move a user between two points at which it has no
\* request pending.
LEMMA MoveStep ==
  ASSUME IInv, NEW u \in Users,
         __init__Raises(u) \/ AuditReturns(u) \/ AuditRaises(u) \/ SleepEnds(u)
  PROVE  IInv'
<1> USE DEF requests, mongo, history
<1>1. /\ UNCHANGED <<tests, running, self, n, task, success, failure, flight,
                     coll, auditing, audit, begun, killed>>
      /\ \E p \in {"broken", "ready", "sleep"} : pc' = [pc EXCEPT ![u] = p]
      /\ pc[u] # "call" /\ tests # <<>> /\ (pc'[u] # "broken" => Live(u))
  BY DEF IInv, TypeOK, CurrentInv, TestsInv, Live, __init__Raises, AuditReturns, AuditRaises,
         SleepEnds, AfterAudit
<1>2. TypeOK'
  BY <1>1 DEF IInv, TypeOK
<1>3. CurrentInv'
  BY <1>1 DEF IInv, TypeOK, CurrentInv, TestsInv, InstanceInv, InstanceOf, Host,
              BegunInv, TaskInv, Live
<1>4. CountedOnce'
  BY <1>1 DEF IInv, TypeOK, CountedOnce
<1>5. RightCollection' /\ SuccessIsStored' /\ AuditOnSameCluster'
  BY <1>1 DEF IInv, RightCollection, SuccessIsStored, AuditOnSameCluster
<1> QED
  BY <1>2, <1>3, <1>4, <1>5 DEF IInv

\* A task that begins is new; its documents go to the collection of its test.
LEMMA BeginStep ==
  ASSUME IInv, NEW u \in Users, _bulkinsert(u) \/ _async_find(u)
  PROVE  IInv'
<1> DEFINE t == NextTask(u)
<1> USE DEF requests, mongo
<1>1. /\ Live(u) /\ pc[u] = "ready" /\ n[u] \in Nat
      /\ n' = [n EXCEPT ![u] = @ + 1] /\ task' = [task EXCEPT ![u] = t]
      /\ begun' = begun \cup {t}
      /\ UNCHANGED <<tests, running, self, success, coll, audit, killed>>
  BY DEF IInv, TypeOK, Live, _bulkinsert, _async_find, BeginTask
<1>2. self[u].client.run = Len(tests) /\ Len(tests) \in Nat \ {0}
  BY <1>1 DEF IInv, TypeOK, CurrentInv, TestsInv, InstanceInv, InstanceOf, Live
<1>3. t \in Task /\ t \notin begun /\ t.user = u /\ t.run = Len(tests)
      /\ t.n = n[u] + 1
  BY <1>1, <1>2 DEF IInv, CurrentInv, BegunInv, Task, NextTask
<1> HIDE DEF t
<1>4. self[u].coll = Host /\ self[u].audit.srv = Srv[Host] /\ Host \in Hosts
      /\ self[u].bulk_size \in Nat /\ Host = tests[Len(tests)]
  BY <1>1, <1>3, BatchOfTest, ConstantsAssumption DEF IInv
<1>5. CASE HandleException(u, t) /\ UNCHANGED flight
  <2> USE DEF HandleException
  <2>1. TypeOK'
    BY <1>1, <1>2, <1>3, <1>4, <1>5, ConstantsAssumption DEF IInv, TypeOK, Entry
  <2>2. CurrentInv'
    <3>1. BegunInv'
      BY <1>1, <1>2, <1>3 DEF IInv, TypeOK, CurrentInv, BegunInv, Task
    <3>2. TaskInv'
      BY <1>1, <1>3, <1>5 DEF IInv, TypeOK, CurrentInv, TaskInv
    <3>3. TestsInv' /\ InstanceInv'
      BY <1>1, <1>5 DEF IInv, TypeOK, CurrentInv, TestsInv, InstanceInv,
                        InstanceOf, Host, Live
    <3> QED
      BY <3>1, <3>2, <3>3 DEF CurrentInv
  <2>3. CountedOnce'
    <3>1. /\ \A v \in Users : pc'[v] = "call" <=> pc[v] = "call"
          /\ \A v \in Users : pc[v] = "call" => task'[v] = task[v]
      BY <1>1, <1>5 DEF IInv, TypeOK
    <3> QED
      BY <1>1, <1>3, <1>5, <3>1 DEF IInv, TypeOK, CountedOnce
  <2>4. RightCollection' /\ SuccessIsStored' /\ AuditOnSameCluster'
    BY <1>1, <1>3, <1>4, <1>5
    DEF IInv, RightCollection, SuccessIsStored, AuditOnSameCluster
  <2> QED
    BY <2>1, <2>2, <2>3, <2>4 DEF IInv
<1>6. CASE /\ flight' \in {flight, flight \cup Batch(self[u], t)}
           /\ pc' = [pc EXCEPT ![u] = "call"]
           /\ UNCHANGED <<failure, auditing>>
  <2>1. Batch(self[u], t) = [coll : {Host}, task : {t}, no : 1 .. self[u].bulk_size]
    BY <1>4 DEF Batch
  <2>2. TypeOK'
    BY <1>1, <1>2, <1>3, <1>4, <1>6, <2>1 DEF IInv, TypeOK
  <2>3. CurrentInv'
    <3>1. BegunInv'
      BY <1>1, <1>2, <1>3 DEF IInv, TypeOK, CurrentInv, BegunInv, Task
    <3>2. TaskInv'
      BY <1>1, <1>3, <1>6 DEF IInv, TypeOK, CurrentInv, TaskInv
    <3>3. TestsInv' /\ InstanceInv'
      BY <1>1, <1>6 DEF IInv, TypeOK, CurrentInv, TestsInv, InstanceInv,
                        InstanceOf, Host, Live
    <3> QED
      BY <3>1, <3>2, <3>3 DEF CurrentInv
  <2>4. CountedOnce'
    <3>1. /\ \A v \in Users \ {u} : pc'[v] = pc[v] /\ task'[v] = task[v]
          /\ pc'[u] = "call" /\ task'[u] = t
      BY <1>1, <1>6 DEF IInv, TypeOK
    <3> QED
      BY <1>1, <1>3, <1>6, <3>1 DEF IInv, TypeOK, CountedOnce
  <2>5. RightCollection' /\ SuccessIsStored' /\ AuditOnSameCluster'
    BY <1>1, <1>3, <1>4, <1>6, <2>1
    DEF IInv, RightCollection, SuccessIsStored, AuditOnSameCluster
  <2> QED
    BY <2>2, <2>3, <2>4, <2>5 DEF IInv
<1> QED
  BY <1>5, <1>6 DEF _bulkinsert, _async_find, t

\* A call that returns counts its pending task as a success.
LEMMA CallReturnsStep ==
  ASSUME IInv, NEW u \in Users, CallReturns(u)
  PROVE  IInv'
<1> DEFINE t == task[u]
<1> USE DEF requests, mongo, history
<1>1. /\ pc[u] = "call" /\ Live(u) /\ t \in begun /\ t \in Task
      /\ t.user = u /\ t.run = Len(tests)
  BY DEF IInv, TypeOK, CurrentInv, TaskInv, Live, CallReturns
<1>2. TypeOK'
  BY <1>1 DEF IInv, TypeOK, CallReturns
<1>3. CurrentInv'
  BY <1>1 DEF IInv, TypeOK, CurrentInv, TestsInv, InstanceInv, InstanceOf, Host,
              BegunInv, TaskInv, Live, CallReturns
<1>4. CountedOnce'
  <2>1. /\ \A v \in Users : pc'[v] = "call" <=> pc[v] = "call" /\ v # u
        /\ \A v \in Users \ {u} : pc[v] = "call" => task[v] # t
    BY <1>1 DEF IInv, TypeOK, CurrentInv, TaskInv, CallReturns
  <2> QED
    BY <1>1, <2>1 DEF IInv, TypeOK, CountedOnce, CallReturns
<1>5. SuccessIsStored'
  <2>1. \A i \in 1 .. BulkSize[tests[t.run]] :
          [coll |-> tests[t.run], task |-> t, no |-> i] \in Batch(self[u], t)
    BY <1>1, BatchOfTest DEF IInv
  <2> QED
    BY <2>1 DEF IInv, SuccessIsStored, CallReturns
<1>6. RightCollection' /\ AuditOnSameCluster'
  BY DEF IInv, RightCollection, AuditOnSameCluster, CallReturns
<1> QED
  BY <1>2, <1>3, <1>4, <1>5, <1>6 DEF IInv

\* A call that raises counts its pending task as a failure, with an entry
\* for the audit collection of its test.
LEMMA CallRaisesStep ==
  ASSUME IInv, NEW u \in Users, CallRaises(u)
  PROVE  IInv'
<1> DEFINE t == task[u]
<1> USE DEF history, HandleException
<1>1. /\ pc[u] = "call" /\ Live(u) /\ t \in begun /\ t \in Task
      /\ t.user = u /\ t.run = Len(tests)
  BY DEF IInv, TypeOK, CurrentInv, TaskInv, Live, CallRaises
<1>2. self[u].audit.srv = Srv[tests[t.run]] /\ self[u].audit.srv \in Clusters
  BY <1>1, BatchOfTest, ConstantsAssumption DEF IInv
<1>3. TypeOK'
  BY <1>1, <1>2 DEF IInv, TypeOK, Entry, CallRaises
<1>4. CurrentInv'
  BY <1>1 DEF IInv, TypeOK, CurrentInv, TestsInv, InstanceInv, InstanceOf, Host,
              BegunInv, TaskInv, Live, CallRaises
<1>5. CountedOnce'
  <2>1. /\ \A v \in Users : pc'[v] = "call" <=> pc[v] = "call" /\ v # u
        /\ \A v \in Users \ {u} : pc[v] = "call" => task[v] # t
    BY <1>1 DEF IInv, TypeOK, CurrentInv, TaskInv, CallRaises
  <2> QED
    BY <1>1, <2>1 DEF IInv, TypeOK, CountedOnce, CallRaises
<1>6. RightCollection' /\ SuccessIsStored' /\ AuditOnSameCluster'
  BY <1>1, <1>2
  DEF IInv, RightCollection, SuccessIsStored, AuditOnSameCluster, CallRaises
<1> QED
  BY <1>3, <1>4, <1>5, <1>6 DEF IInv

\* MongoDB decides a document or an audit entry.
LEMMA MongoStep ==
  ASSUME IInv,
         \/ \E d \in flight : Store(d) \/ Reject(d) \/ Lose(d)
         \/ \E a \in auditing : DecideAudit(a)
  PROVE  IInv'
<1> USE DEF requests, history
<1>1. /\ UNCHANGED <<tests, running, pc, self, n, task, success, failure,
                     begun, killed>>
      /\ flight' \subseteq flight /\ coll \subseteq coll'
      /\ coll' \subseteq coll \cup flight
      /\ auditing' \subseteq auditing /\ audit' \subseteq audit \cup auditing
  BY DEF Store, Reject, Lose, DecideAudit, SameBatch
<1>2. TypeOK'
  BY <1>1 DEF IInv, TypeOK
<1>3. CurrentInv'
  BY <1>1 DEF IInv, CurrentInv, TestsInv, InstanceInv, InstanceOf, Host,
              BegunInv, TaskInv, Live
<1>4. CountedOnce' /\ RightCollection' /\ SuccessIsStored' /\ AuditOnSameCluster'
  BY <1>1 DEF IInv, CountedOnce, RightCollection, SuccessIsStored,
              AuditOnSameCluster
<1> QED
  BY <1>2, <1>3, <1>4 DEF IInv

\* A stuttering step keeps the invariant.
LEMMA StutterStep == IInv /\ UNCHANGED vars => IInv'
BY DEF vars, requests, mongo, history, IInv, TypeOK, CurrentInv, TestsInv,
       InstanceInv, InstanceOf, Host, BegunInv, TaskInv, Live, CountedOnce,
       RightCollection, SuccessIsStored, AuditOnSameCluster

-----------------------------------------------------------------------------
\* The invariant is inductive: one case for every action of Next.
LEMMA StepIInv == IInv /\ [Next]_vars => IInv'
<1> SUFFICES ASSUME IInv, [Next]_vars PROVE IInv'
  OBVIOUS
<1>1. ASSUME NEW h \in Hosts, StartTest(h) PROVE IInv'
  BY <1>1, StartTestStep
<1>2. CASE StopTest
  BY <1>2, StopTestStep
<1>3. ASSUME NEW u \in Users, Kill(u) PROVE IInv'
  BY <1>3, KillStep
<1>4. ASSUME NEW u \in Users, UserStep(u) PROVE IInv'
  BY <1>4, InitStep, MoveStep, BeginStep, CallReturnsStep,
     CallRaisesStep DEF UserStep
<1>5. CASE \/ \E d \in flight : Store(d) \/ Reject(d) \/ Lose(d)
           \/ \E a \in auditing : DecideAudit(a)
  BY <1>5, MongoStep
<1>6. CASE UNCHANGED vars
  BY <1>6, StutterStep
<1> QED
  BY <1>1, <1>2, <1>3, <1>4, <1>5, <1>6 DEF Next

\* Every reachable state satisfies the inductive invariant, which the theorems
\* below are parts of.
THEOREM Invariance == Spec => []IInv
  BY InitIInv, StepIInv, PTL DEF Spec

\* Type correctness of every state.
THEOREM TypeCorrect == Spec => []TypeOK
BY Invariance, PTL DEF IInv

\* A request that is counted as a success has its whole batch stored in the
\* collection of its test, for every batch size and whatever the cluster does
\* to other requests.
THEOREM SuccessStored == Spec => []SuccessIsStored
BY Invariance, PTL DEF IInv

\* Every task is counted as one success or one failure, or its user was
\* killed with the request pending, or the request is pending.
THEOREM TasksCountedOnce == Spec => []CountedOnce
BY Invariance, PTL DEF IInv

\* Documents that are stored late do not reach the collection of a later test.
THEOREM LateDocumentsStay == Spec => []RightCollection
BY Invariance, PTL DEF IInv

\* Audit entries reach the cluster of the test whose failure they report.
THEOREM AuditsFollowHost == Spec => []AuditOnSameCluster
BY Invariance, PTL DEF IInv

-----------------------------------------------------------------------------
(***************************************************************************)
(* 2. The users implement Ledger.  The steps of the ledger are the points  *)
(* at which a task begins, is counted or is abandoned, and at which a      *)
(* document is stored; every other step leaves the ledger as it is.        *)
(***************************************************************************)

\* The bounds of the guards, and the numbers of the documents on their way.
BoundsInv ==
  /\ Len(tests) <= MaxTests
  /\ \A u \in Users : n[u] <= MaxTasks
  /\ \A t \in begun : t.n \in 1 .. MaxTasks

FlightInv == \A d \in flight : d.no \in 1 .. BulkSize[tests[d.task.run]]

RInv == IInv /\ BoundsInv /\ FlightInv

open == begun \ (success \cup failure \cup killed)

\* The task that _bulkinsert or _async_find begins.
LEMMA NextTaskIsNew ==
  ASSUME IInv, NEW u \in Users, pc[u] = "ready"
  PROVE  /\ NextTask(u) \notin begun
         /\ NextTask(u).run = Len(tests) /\ NextTask(u).n = n[u] + 1
         /\ NextTask(u).user = u
         /\ Len(tests) \in Nat \ {0} /\ n[u] \in Nat
         /\ Host = tests[Len(tests)] /\ self[u].bulk_size = BulkSize[Host]
<1>1. /\ self[u] = InstanceOf(u) /\ tests # <<>> /\ tests \in Seq(Hosts)
      /\ n[u] \in Nat
  BY DEF IInv, TypeOK, CurrentInv, TestsInv, InstanceInv, Live
<1>2. Len(tests) \in Nat \ {0}
  BY <1>1
<1>3. /\ NextTask(u).run = Len(tests) /\ NextTask(u).n = n[u] + 1
      /\ NextTask(u).user = u
  BY <1>1 DEF NextTask, InstanceOf
<1>4. NextTask(u) \notin begun
  BY <1>1, <1>3 DEF IInv, CurrentInv, BegunInv
<1> QED
  BY <1>1, <1>2, <1>3, <1>4 DEF InstanceOf, Host

-----------------------------------------------------------------------------
\* Every step keeps the bounds of the tasks, and every document in flight in
\* the batch of its task.
LEMMA BoundsStep ==
  ASSUME RInv, [Next]_vars
  PROVE  BoundsInv' /\ FlightInv'
<1> USE DEF requests, mongo, history
<1> USE ConstantsAssumption
<1>1. ASSUME NEW h \in Hosts, StartTest(h) PROVE BoundsInv' /\ FlightInv'
  <2>1. /\ Len(tests') = Len(tests) + 1 /\ Len(tests) \in Nat
        /\ \A i \in 1 .. Len(tests) : tests'[i] = tests[i]
    BY <1>1, TestsGrow DEF RInv, IInv, TypeOK, StartTest
  <2>2. \A d \in flight : d.task.run \in 1 .. Len(tests)
    BY DEF RInv, IInv, TypeOK, CurrentInv, BegunInv
  <2> QED
    BY <1>1, <2>1, <2>2 DEF RInv, BoundsInv, FlightInv, StartTest
<1>2. CASE \/ StopTest
           \/ \E u \in Users : \/ Kill(u) \/ __init__(u) \/ __init__Raises(u)
                               \/ CallReturns(u) \/ CallRaises(u)
                               \/ AuditReturns(u) \/ AuditRaises(u)
                               \/ SleepEnds(u)
           \/ \E d \in flight : Store(d) \/ Reject(d) \/ Lose(d)
           \/ \E a \in auditing : DecideAudit(a)
           \/ UNCHANGED vars
  <2>1. UNCHANGED <<tests, n, begun>> /\ flight' \subseteq flight
    BY <1>2 DEF StopTest, Kill, __init__, __init__Raises, CallReturns, CallRaises,
                AuditReturns, AuditRaises, SleepEnds, Store, Reject, Lose,
                DecideAudit, vars
  <2> QED
    BY <2>1 DEF RInv, BoundsInv, FlightInv
<1>3. ASSUME NEW u \in Users, _bulkinsert(u) \/ _async_find(u)
      PROVE  BoundsInv' /\ FlightInv'
  <2> DEFINE t == NextTask(u)
  <2>1. /\ pc[u] = "ready" /\ n[u] < MaxTasks
        /\ n' = [n EXCEPT ![u] = @ + 1] /\ begun' = begun \cup {t}
        /\ UNCHANGED tests
        /\ flight' \in {flight, flight \cup Batch(self[u], t)}
    BY <1>3 DEF _bulkinsert, _async_find, BeginTask
  <2>2. /\ t.run = Len(tests) /\ t.n = n[u] + 1 /\ n[u] \in Nat
        /\ Host = tests[Len(tests)] /\ self[u].bulk_size = BulkSize[Host]
    BY <2>1, NextTaskIsNew DEF RInv
  <2> HIDE DEF t
  <2>3. BoundsInv'
    BY <2>1, <2>2 DEF RInv, IInv, TypeOK, BoundsInv
  <2>4. FlightInv'
    BY <2>1, <2>2 DEF RInv, FlightInv, Batch
  <2> QED
    BY <2>3, <2>4
<1> QED
  BY <1>1, <1>2, <1>3 DEF Next, UserStep

\* The invariants that the refinement rests on: those of MetricsLocust_proofs,
\* the bounds of the tasks, and documents that belong to a task's batch.
THEOREM RInvariance == Spec => []RInv
<1>1. Init => BoundsInv /\ FlightInv
  BY ConstantsAssumption DEF Init, BoundsInv, FlightInv
<1>2. RInv /\ IInv' /\ [Next]_vars => RInv'
  BY BoundsStep DEF RInv
<1> QED
  BY Invariance, InitIInv, <1>1, <1>2, PTL DEF Spec, RInv

-----------------------------------------------------------------------------
\* Initial states are initial states of the ledger.
LEMMA InitRefines == Init => L!Init
BY DEF Init, L!Init

\* A task that begins is one of the ledger, open or refused.
LEMMA BeginRefines ==
  ASSUME RInv, NEW u \in Users, _bulkinsert(u) \/ _async_find(u)
  PROVE  L!Next
<1> DEFINE t == NextTask(u)
<1> USE DEF requests, mongo
<1>1. /\ pc[u] = "ready" /\ n[u] < MaxTasks
      /\ begun' = begun \cup {t}
      /\ UNCHANGED <<tests, success, coll, killed>>
      /\ failure' \in {failure, failure \cup {t}}
  BY DEF _bulkinsert, _async_find, BeginTask, HandleException
<1>2. /\ t \notin begun /\ t.run = Len(tests)
      /\ t \in [user : Users, n : 1 .. MaxTasks, run : 1 .. MaxTests]
  <2>1. /\ t \notin begun /\ t.run = Len(tests) /\ t.n = n[u] + 1 /\ t.user = u
        /\ Len(tests) \in Nat \ {0} /\ n[u] \in Nat
    BY <1>1, NextTaskIsNew DEF RInv
  <2> QED
    BY <1>1, <2>1, ConstantsAssumption DEF RInv, BoundsInv, NextTask
<1>3. success \subseteq begun /\ failure \subseteq begun /\ killed \subseteq begun
  BY DEF RInv, IInv, TypeOK
<1> HIDE DEF t
<1>4. L!New(t)
  BY <1>2, <1>3 DEF L!New, L!Begun
<1>5. CASE failure' = failure
  <2>1. L!Begin(t)
    BY <1>1, <1>2, <1>3, <1>4, <1>5 DEF L!Begin
  <2> QED
    BY <1>2, <2>1 DEF L!Next
<1>6. CASE failure' = failure \cup {t}
  <2>1. L!Refuse(t)
    BY <1>1, <1>2, <1>3, <1>4, <1>6 DEF L!Refuse
  <2> QED
    BY <1>2, <2>1 DEF L!Next
<1> QED
  BY <1>1, <1>5, <1>6

\* The outcomes of a pending call.
LEMMA OutcomeRefines ==
  ASSUME RInv, NEW u \in Users, pc[u] = "call",
         CallReturns(u) \/ CallRaises(u) \/ Kill(u)
  PROVE  L!Next
<1> DEFINE t == task[u]
<1> USE DEF requests, mongo, history
<1>1. t \in open
  BY DEF RInv, IInv, CountedOnce, open
<1>2. t \in begun /\ t.run = Len(tests) /\ Live(u) /\ t \in Task
  BY DEF RInv, IInv, TypeOK, CurrentInv, TaskInv, Live
<1>3. CASE CallReturns(u)
  <2>1. Batch(self[u], t) = L!Documents(t)
    BY <1>2, BatchOfTest DEF RInv, IInv, Batch, L!Documents
  <2>2. L!Succeed(t)
    BY <1>1, <1>3, <2>1 DEF CallReturns, L!Succeed, open
  <2> QED
    BY <1>1, <2>2 DEF L!Next, open
<1>4. CASE CallRaises(u)
  <2>1. L!Fail(t)
    BY <1>1, <1>4 DEF CallRaises, HandleException, L!Fail, open
  <2> QED
    BY <1>1, <2>1 DEF L!Next, open
<1>5. CASE Kill(u)
  <2>1. L!Abandon(t)
    BY <1>1, <1>5 DEF Kill, L!Abandon, open
  <2> QED
    BY <1>1, <2>1 DEF L!Next, open
<1> QED
  BY <1>3, <1>4, <1>5

\* Every step of the system is a step of the ledger, or none.
LEMMA StepRefines ==
  ASSUME RInv, [Next]_vars
  PROVE  [L!Next]_(L!vars)
<1> USE DEF requests, mongo, history
<1>1. ASSUME NEW h \in Hosts, StartTest(h) PROVE L!Next
  <2>1. open = {}
    BY <1>1 DEF RInv, IInv, CountedOnce, StartTest, open
  <2>2. L!StartTest(h)
    BY <1>1, <2>1 DEF StartTest, L!StartTest, open
  <2> QED
    BY <2>2 DEF L!Next
<1>2. ASSUME NEW u \in Users, _bulkinsert(u) \/ _async_find(u) PROVE L!Next
  BY <1>2, BeginRefines
<1>3. ASSUME NEW u \in Users, pc[u] = "call", Kill(u) PROVE L!Next
  BY <1>3, OutcomeRefines
<1>4. ASSUME NEW u \in Users, CallReturns(u) \/ CallRaises(u) PROVE L!Next
  BY <1>4, OutcomeRefines DEF CallReturns, CallRaises
<1>5. ASSUME NEW d \in flight, Store(d) PROVE L!Next
  <2>1. d.task \in begun /\ d \in L!Documents(d.task)
    BY DEF RInv, IInv, TypeOK, RightCollection, FlightInv, L!Documents
  <2>2. d.task \in L!Begun
    BY <2>1 DEF L!Begun
  <2>3. L!Arrive(d)
    BY <1>5 DEF Store, L!Arrive
  <2> QED
    BY <2>1, <2>2, <2>3 DEF L!Next
<1>6. CASE \/ StopTest
           \/ \E u \in Users : \/ Kill(u) /\ pc[u] # "call"
                               \/ __init__(u) \/ __init__Raises(u)
                               \/ AuditReturns(u) \/ AuditRaises(u)
                               \/ SleepEnds(u)
           \/ \E d \in flight : Reject(d) \/ Lose(d)
           \/ \E a \in auditing : DecideAudit(a)
           \/ UNCHANGED vars
  <2>1. UNCHANGED <<tests, begun, success, failure, killed, coll>>
    BY <1>6 DEF StopTest, Kill, __init__, __init__Raises, AuditReturns, AuditRaises,
                SleepEnds, Reject, Lose, DecideAudit, vars
  <2> QED
    BY <2>1 DEF L!vars
<1> QED
  BY <1>1, <1>2, <1>3, <1>4, <1>5, <1>6 DEF Next, UserStep

\* Every behaviour of the users, the stops of tests and the cluster is one of
\* the ledger: with the mapping, each of their steps is a step of it or none.
THEOREM Refinement == Spec => KeepsLedger
BY RInvariance, InitRefines, StepRefines, PTL DEF Spec, KeepsLedger, L!Spec

-----------------------------------------------------------------------------
(***************************************************************************)
(* 3. The numbers of the mimesis loader: UniqueInProcess rests on the      *)
(* increment of a process being past every number that was sent in its     *)
(* present life.                                                           *)
(***************************************************************************)

\* b was sent in a life of its process that is not in the future, and in the
\* present one only with numbers that were drawn.
Drawn(b) ==
  /\ b.by[2] <= life[b.by[1]]
  /\ b.by[2] = life[b.by[1]] => b.from + b.size <= increment[b.by[1]]

NumbersInv ==
  /\ \A b \in batches : Drawn(b)
  /\ \A b, c \in batches : b.by = c.by /\ b # c =>
       b.from + b.size <= c.from \/ c.from + c.size <= b.from

DocsInv ==
  \A d \in flight \cup coll :
    \E b \in batches : b.task = d.task /\ d.no \in 1 .. b.size

MInv ==
  /\ IInv /\ increment \in [Workers -> Nat] /\ life \in [Workers -> Nat]
  /\ batches \subseteq Sent /\ NumbersInv /\ DocsInv

-----------------------------------------------------------------------------
\* The users of the process lose their calls, as those that are killed do.
LEMMA RestartKeepsIInv ==
  ASSUME IInv, NEW w \in Workers, Restart(w)
  PROVE  IInv'
<1> USE DEF requests, mongo
<1> DEFINE gone == {u \in Users : Of[u] = w}
           cut == {task[u] : u \in {v \in gone : pc[v] = "call"}}
<1>1. /\ \A u \in Users : pc'[u] = IF u \in gone THEN "none" ELSE pc[u]
      /\ pc' \in [Users -> {"none", "broken", "ready", "call", "audit", "sleep"}]
      /\ killed' = killed \cup cut
      /\ UNCHANGED <<tests, running, self, n, task, requests, mongo, begun>>
  BY DEF Restart, IInv, TypeOK
<1>2. cut \subseteq begun
  BY DEF IInv, CurrentInv, TaskInv
<1>3. TypeOK'
  BY <1>1, <1>2 DEF IInv, TypeOK
<1>4. CurrentInv'
  BY <1>1 DEF IInv, TypeOK, CurrentInv, TestsInv, InstanceInv, InstanceOf, Host, BegunInv,
              TaskInv, Live
<1>5. CountedOnce'
  <2>1. \A u, v \in Users : pc[u] = "call" /\ pc[v] = "call" /\ task[u] = task[v] => u = v
    BY DEF IInv, CurrentInv, TaskInv
  <2>2. cut \subseteq begun \ (success \cup failure \cup killed)
    BY DEF IInv, CountedOnce
  <2>3. {task[u] : u \in {v \in Users : pc'[v] = "call"}}
          = {task[u] : u \in {v \in Users : pc[v] = "call"}} \ cut
    BY <1>1, <2>1
  <2> QED
    BY <1>1, <2>2, <2>3 DEF IInv, CountedOnce
<1>6. RightCollection' /\ SuccessIsStored' /\ AuditOnSameCluster'
  BY <1>1 DEF IInv, RightCollection, SuccessIsStored, AuditOnSameCluster
<1> QED
  BY <1>3, <1>4, <1>5, <1>6 DEF IInv

\* Numbers are drawn, and no document is sent.
LEMMA DrawStep ==
  ASSUME MInv, IInv', NEW u \in Users, NEW k \in Nat, create(u, k),
         flight' \cup coll' \subseteq flight \cup coll, UNCHANGED <<life, batches>>
  PROVE  MInv'
<1>1. Of[u] \in Workers
  BY MimesisAssumption
<1>2. /\ increment' \in [Workers -> Nat]
      /\ \A w \in Workers : /\ increment[w] \in Nat /\ increment'[w] \in Nat
                            /\ increment[w] <= increment'[w]
  BY <1>1 DEF MInv, create
<1>3. NumbersInv'
  <2> SUFFICES ASSUME NEW b \in batches, b.by[2] = life[b.by[1]]
               PROVE  b.from + b.size <= increment'[b.by[1]]
    BY DEF MInv, NumbersInv, Drawn
  <2>1. b.from \in Nat /\ b.size \in Nat /\ b.by[1] \in Workers
    BY DEF MInv, Sent
  <2>2. b.from + b.size <= increment[b.by[1]]
    BY DEF MInv, NumbersInv, Drawn
  <2> QED
    BY <1>2, <2>1, <2>2
<1>4. DocsInv'
  BY DEF MInv, DocsInv
<1> QED
  BY <1>2, <1>3, <1>4 DEF MInv

LEMMA OtherStep ==
  ASSUME MInv, IInv', flight' \cup coll' \subseteq flight \cup coll,
         UNCHANGED <<increment, life, batches>>
  PROVE  MInv'
<1>1. NumbersInv' /\ DocsInv'
  BY DEF MInv, NumbersInv, Drawn, DocsInv
<1> QED
  BY <1>1 DEF MInv

\* A batch is sent with the numbers after the increment, which is past all
\* that were sent before.
LEMMA SendStep ==
  ASSUME MInv, IInv', NEW u \in Users, _bulkinsert(u), pc'[u] = "call",
         create(u, self[u].bulk_size),
         batches' = batches \cup {[task |-> task'[u], by |-> Generator(u),
                                   from |-> increment[Of[u]], size |-> self[u].bulk_size]},
         UNCHANGED life
  PROVE  MInv'
<1> DEFINE w == Of[u]
           b == [task |-> NextTask(u), by |-> Generator(u),
                 from |-> increment[w], size |-> self[u].bulk_size]
<1>1. w \in Workers /\ increment[w] \in Nat /\ life[w] \in Nat
  BY MimesisAssumption DEF MInv
<1>2. pc[u] = "ready" /\ task' = [task EXCEPT ![u] = NextTask(u)] /\ coll' = coll
  BY DEF _bulkinsert, BeginTask
<1>3. self[u] \in Instance /\ self[u].bulk_size \in Nat /\ NextTask(u) \in Task
  <2>1. self[u] = InstanceOf(u) /\ Live(u)
    BY <1>2 DEF MInv, IInv, CurrentInv, InstanceInv, Live
  <2>2. tests # <<>> /\ tests \in Seq(Hosts)
    BY <1>2 DEF MInv, IInv, TypeOK, CurrentInv, TestsInv
  <2>3. Len(tests) \in Nat /\ Host \in Hosts
    BY <2>2 DEF Host
  <2>4. self[u].bulk_size \in Nat /\ self[u].client.run \in Nat
    BY <2>1, <2>3, ConstantsAssumption DEF InstanceOf
  <2>5. NextTask(u) \in Task
    BY <2>4 DEF NextTask, Task, MInv, IInv, TypeOK
  <2>6. self[u] \in Instance
    BY <2>1, <2>3, ConstantsAssumption DEF InstanceOf, Instance, Client
  <2> QED
    BY <2>4, <2>5, <2>6
<1>4. task'[u] = NextTask(u)
  BY <1>2 DEF MInv, IInv, TypeOK
<1>5. batches' = batches \cup {b}
  BY <1>4
<1>6. flight' = flight \cup Batch(self[u], NextTask(u))
  <2>1. ~HandleException(u, NextTask(u))
    BY DEF HandleException, MInv, IInv, TypeOK
  <2> QED
    BY <2>1 DEF _bulkinsert
<1>7. /\ b.task = NextTask(u) /\ b.by = <<w, life[w]>> /\ b.from = increment[w]
      /\ b.size = self[u].bulk_size /\ b \in Sent
  BY <1>1, <1>3 DEF Sent, Generator
<1>8. /\ increment' \in [Workers -> Nat] /\ increment'[w] = increment[w] + b.size
      /\ \A v \in Workers : v # w => increment'[v] = increment[v]
  BY <1>1, <1>3 DEF MInv, create
<1> HIDE DEF b, w
<1>9. \A c \in batches : /\ c.from \in Nat /\ c.size \in Nat /\ c.by[1] \in Workers
                         /\ c.by[2] \in Nat /\ c.by = <<c.by[1], c.by[2]>>
  BY DEF MInv, Sent
<1>10. \A c \in batches : c.by = b.by => c.from + c.size <= b.from
  BY <1>7, <1>9 DEF MInv, NumbersInv, Drawn
<1>11. NumbersInv'
  <2>1. ASSUME NEW c \in batches' PROVE Drawn(c)'
    <3>1. CASE c = b
      BY <1>1, <1>3, <1>7, <1>8, <3>1 DEF Drawn
    <3>2. CASE c \in batches
      <4>1. /\ c.by[2] <= life[c.by[1]]
            /\ c.by[2] = life[c.by[1]] => c.from + c.size <= increment[c.by[1]]
        BY <3>2 DEF MInv, NumbersInv, Drawn
      <4>2. increment[c.by[1]] <= increment'[c.by[1]] /\ increment[c.by[1]] \in Nat
            /\ increment'[c.by[1]] \in Nat
        BY <1>1, <1>3, <1>7, <1>8, <1>9, <3>2 DEF MInv
      <4> QED
        BY <1>9, <3>2, <4>1, <4>2 DEF Drawn
    <3> QED
      BY <1>5, <3>1, <3>2
  <2>2. ASSUME NEW c \in batches', NEW d \in batches', c.by = d.by, c # d
        PROVE  c.from + c.size <= d.from \/ d.from + d.size <= c.from
    BY <1>5, <1>10, <2>2 DEF MInv, NumbersInv
  <2> QED
    BY <2>1, <2>2 DEF NumbersInv
<1>12. DocsInv'
  <2> SUFFICES ASSUME NEW d \in flight' \cup coll'
               PROVE  \E c \in batches' : c.task = d.task /\ d.no \in 1 .. c.size
    BY DEF DocsInv
  <2>1. CASE d \in flight \cup coll
    BY <1>5, <2>1 DEF MInv, DocsInv
  <2>2. CASE d \in Batch(self[u], NextTask(u))
    <3>1. d.task = b.task /\ d.no \in 1 .. b.size
      BY <1>7, <2>2 DEF Batch
    <3> QED
      BY <1>5, <3>1
  <2> QED
    BY <1>2, <1>6, <2>1, <2>2
<1>13. batches' \subseteq Sent
  BY <1>5, <1>7 DEF MInv
<1> QED
  BY <1>8, <1>11, <1>12, <1>13 DEF MInv

LEMMA RestartStep ==
  ASSUME MInv, NEW w \in Workers, Restart(w)
  PROVE  MInv'
<1>1. IInv' /\ flight' = flight /\ coll' = coll /\ batches' = batches
  BY RestartKeepsIInv DEF MInv, Restart, mongo
<1>2. /\ increment' \in [Workers -> Nat] /\ life' \in [Workers -> Nat]
      /\ \A v \in Workers : IF v = w THEN increment'[v] = 0 /\ life'[v] = life[v] + 1
                            ELSE increment'[v] = increment[v] /\ life'[v] = life[v]
  BY DEF MInv, Restart
<1>3. NumbersInv'
  <2>1. ASSUME NEW b \in batches PROVE Drawn(b)'
    <3>1. b.by[1] \in Workers /\ b.by[2] \in Nat /\ life[b.by[1]] \in Nat
      BY DEF MInv, Sent
    <3> QED
      BY <1>2, <3>1 DEF MInv, NumbersInv, Drawn
  <2> QED
    BY <1>1, <2>1 DEF MInv, NumbersInv
<1>4. DocsInv'
  BY <1>1 DEF MInv, DocsInv
<1> QED
  BY <1>1, <1>2, <1>3, <1>4 DEF MInv

LEMMA StepMInv == MInv /\ [MNext]_mvars => MInv'
<1> SUFFICES ASSUME MInv, [MNext]_mvars PROVE MInv'
  OBVIOUS
<1>1. MInv => IInv
  BY DEF MInv
<1>2. ASSUME NEW u \in Users, Loader__init__(u) PROVE MInv'
  <2>1. tests # <<>> /\ tests \in Seq(Hosts)
    BY <1>2 DEF Loader__init__, __init__, MInv, IInv, TypeOK, CurrentInv, TestsInv
  <2>2. BulkSize[Host] \in Nat
    BY <2>1, ConstantsAssumption DEF Host
  <2>3. UserStep(u) /\ flight' \cup coll' \subseteq flight \cup coll
    BY <1>2 DEF Loader__init__, __init__, UserStep, mongo
  <2>4. IInv'
    BY <1>1, <2>3, StepIInv DEF Next
  <2> QED
    BY <1>2, <2>2, <2>3, <2>4, DrawStep DEF Loader__init__
<1>3. ASSUME NEW u \in Users, Loader__init__Raises(u) PROVE MInv'
  <2>1. UserStep(u) /\ flight' \cup coll' \subseteq flight \cup coll
    BY <1>3 DEF Loader__init__Raises, __init__Raises, UserStep, mongo
  <2>2. IInv'
    BY <1>1, <2>1, StepIInv DEF Next
  <2>3. PICK k \in 0 .. BulkSize[Host] : create(u, k)
    BY <1>3 DEF Loader__init__Raises
  <2> QED
    BY <1>3, <2>1, <2>2, <2>3, DrawStep DEF Loader__init__Raises
<1>4. ASSUME NEW u \in Users, Loader_bulkinsert(u) PROVE MInv'
  <2>1. _bulkinsert(u) /\ UserStep(u)
    BY <1>4 DEF Loader_bulkinsert, UserStep
  <2>2. IInv'
    BY <1>1, <2>1, StepIInv DEF Next
  <2>3. CASE /\ pc'[u] = "call" /\ create(u, self[u].bulk_size)
             /\ batches' = batches \cup {[task |-> task'[u], by |-> Generator(u),
                                          from |-> increment[Of[u]],
                                          size |-> self[u].bulk_size]}
    BY <1>4, <2>1, <2>2, <2>3, SendStep DEF Loader_bulkinsert
  <2>4. CASE /\ pc'[u] = "audit" /\ \E k \in 0 .. self[u].bulk_size : create(u, k)
             /\ UNCHANGED batches
    <3>1. PICK k \in 0 .. self[u].bulk_size : create(u, k)
      BY <2>4
    <3>2. flight' = flight /\ coll' = coll
      BY <2>1, <2>4 DEF _bulkinsert, BeginTask, MInv, IInv, TypeOK
    <3> QED
      BY <1>4, <2>2, <2>4, <3>1, <3>2, DrawStep DEF Loader_bulkinsert
  <2> QED
    BY <1>4, <2>3, <2>4 DEF Loader_bulkinsert
<1>5. ASSUME NEW w \in Workers, Restart(w) PROVE MInv'
  BY <1>5, RestartStep
<1>6. CASE Other
  <2>1. Next /\ UNCHANGED <<increment, life, batches>>
    BY <1>6 DEF Other, Next, UserStep
  <2>2. IInv'
    BY <1>1, <2>1, StepIInv
  <2>3. flight' \cup coll' \subseteq flight \cup coll
    BY <1>6 DEF Other, StartTest, StopTest, CallReturns, CallRaises, AuditReturns, AuditRaises,
                SleepEnds, Kill, Store, Reject, Lose, DecideAudit, mongo
  <2> QED
    BY <2>1, <2>2, <2>3, OtherStep
<1>7. CASE UNCHANGED mvars
  <2>1. IInv'
    BY <1>1, <1>7, StepIInv DEF mvars
  <2> QED
    BY <1>7, <2>1, OtherStep DEF mvars, vars, mongo
<1> QED
  BY <1>2, <1>3, <1>4, <1>5, <1>6, <1>7 DEF MNext

LEMMA InitMInv == MInit => MInv
<1> SUFFICES ASSUME MInit PROVE MInv
  OBVIOUS
<1>1. IInv /\ flight = {} /\ coll = {}
  BY InitIInv DEF MInit, Init
<1> QED
  BY <1>1 DEF MInit, MInv, NumbersInv, DocsInv

\* The inductive invariant of the loader, which has that of MetricsLocust in
\* it: what is proved of its states holds of the mimesis loader too, across
\* restarts of its process.
THEOREM MInvariance == MSpec => []MInv
  BY InitMInv, StepMInv, PTL DEF MSpec

-----------------------------------------------------------------------------
\* The users, the increment and the batches that are sent keep their types.
THEOREM MTypeCorrect == MSpec => []MTypeOK
<1>1. MInv => MTypeOK
  BY DEF MInv, IInv, MTypeOK
<1> QED
  BY <1>1, MInvariance, PTL

\* The numbers of two batches of one life are apart.
LEMMA MInvUnique == MInv => UniqueInProcess
<1> SUFFICES ASSUME MInv PROVE UniqueInProcess
  OBVIOUS
<1>1. ASSUME NEW b \in batches, NEW c \in batches, b.by = c.by, b # c,
             NEW p \in pk(b), p \in pk(c)
      PROVE  FALSE
  <2>1. b.from \in Nat /\ b.size \in Nat /\ c.from \in Nat /\ c.size \in Nat
    BY DEF MInv, Sent
  <2>2. b.from + b.size <= c.from \/ c.from + c.size <= b.from
    BY <1>1 DEF MInv, NumbersInv
  <2> QED
    BY <1>1, <2>1, <2>2 DEF pk
<1> QED
  BY <1>1 DEF MInv, DocsInv, UniqueInProcess

\* No two batches that one life of a process sends have a number in common,
\* for any number of users and sizes of the batches (the increment of _).
THEOREM NumbersAreUnique == MSpec => []UniqueInProcess
BY MInvUnique, MInvariance, PTL

\* A restart of the process loses no document of a task that was counted as a
\* success.
THEOREM SuccessStaysStored == MSpec => []SuccessIsStored
<1>1. MInv => SuccessIsStored
  BY DEF MInv, IInv
<1> QED
  BY <1>1, MInvariance, PTL

-----------------------------------------------------------------------------
(***************************************************************************)
(* 4. The pods. What a pod has installed comes from what it has downloaded *)
(* since its container was started, and its users live only while it runs. *)
(***************************************************************************)

\* A part of a list that was served.
FromList(required) == \E list \in Lists : required \subseteq list

\* All that there is to be required.
Required == Image \cup UNION Lists

BootInv ==
  /\ boot \in [Workers -> {"wget", "pip", "locust", "running", "ended"}]
  /\ requirements \in [Workers -> SUBSET Required]
  /\ installed \in [Workers -> SUBSET Required]
  /\ served \in Lists
  /\ \A w \in Workers :
       /\ boot[w] = "wget" => installed[w] = {}
       /\ boot[w] = "pip" => installed[w] = {} /\ FromList(requirements[w])
       /\ boot[w] \in {"locust", "running"} => FromList(installed[w])

\* Users are only where locust runs.
PlaceInv == \A u \in Users : pc[u] # "none" => boot[Of[u]] = "running"

WInv == MInv /\ BootInv /\ PlaceInv

\* run.sh changes the files of one pod, which does not run before or is to run.
LEMMA BootStep ==
  ASSUME BootInv, NEW w \in Workers, Pod!Boot(w)
  PROVE  /\ BootInv'
         /\ \A v \in Workers : boot[v] = "running" => boot'[v] = "running"
<1> USE DEF FromList
<1>1. /\ \A v \in Workers : installed[v] = {} => FromList(installed[v])
      /\ \A left \in SUBSET served : FromList(left)
  BY DEF BootInv
<1>2. Image \in SUBSET Required /\ SUBSET served \subseteq SUBSET Required
  BY DEF BootInv, Required
<1>3. CASE Pod!Wget(w)
  BY <1>1, <1>3, <1>2 DEF Pod!Wget, BootInv
<1>4. CASE Pod!WgetFails(w)
  BY <1>1, <1>4, <1>2 DEF Pod!WgetFails, Pod!Left, BootInv
<1>5. ASSUME boot[w] = "pip", NEW part \in SUBSET requirements[w],
             Pod!Install(w, part)
      PROVE  /\ BootInv'
             /\ \A v \in Workers : boot[v] = "running" => boot'[v] = "running"
  <2>1. installed' = [installed EXCEPT ![w] = part]
    BY <1>5 DEF Pod!Install, BootInv
  <2>2. FromList(part) /\ part \in SUBSET Required
    BY <1>5 DEF BootInv
  <2> QED
    BY <1>1, <1>5, <2>1, <2>2 DEF Pod!Install, BootInv
<1>6. CASE Pod!Pip(w) \/ Pod!PipFails(w)
  BY <1>5, <1>6 DEF Pod!Pip, Pod!PipFails
<1>7. CASE Pod!Locust(w)
  BY <1>1, <1>7 DEF Pod!Locust, BootInv
<1>8. CASE Pod!Restart(w)
  BY <1>1, <1>8, <1>2 DEF Pod!Restart, BootInv
<1> QED
  BY <1>3, <1>4, <1>6, <1>7, <1>8 DEF Pod!Boot

\* A step of the users is one of Mimesis; only __init__ makes a user.
LEMMA WorkStep ==
  ASSUME WInv, Work
  PROVE  MNext /\ PlaceInv'
<1> USE DEF WInv
<1>1. pc \in [Users -> {"none", "broken", "ready", "call", "audit", "sleep"}]
      /\ UNCHANGED pods /\ boot' = boot
  BY DEF MInv, IInv, TypeOK, Work, pods
<1>2. ASSUME NEW u \in Users, Construct(u) PROVE MNext /\ PlaceInv'
  <2>1. \A v \in Users : v # u => pc'[v] = pc[v]
    BY <1>1, <1>2
    DEF Construct, Loader__init__, Loader__init__Raises, __init__, __init__Raises
  <2> QED
    BY <1>1, <1>2, <2>1 DEF Construct, MNext, PlaceInv
<1>3. ASSUME NEW u \in Users, Loader_bulkinsert(u) PROVE MNext /\ PlaceInv'
  <2>1. pc[u] = "ready" /\ \A v \in Users : v # u => pc'[v] = pc[v]
    BY <1>1, <1>3
    DEF Loader_bulkinsert, _bulkinsert, BeginTask, HandleException
  <2> QED
    BY <1>1, <1>3, <2>1 DEF MNext, PlaceInv
<1>4. CASE Other
  <2>1. ASSUME NEW u \in Users, \/ CallReturns(u) \/ CallRaises(u) \/ AuditReturns(u)
                                \/ AuditRaises(u) \/ SleepEnds(u) \/ Kill(u)
        PROVE  pc[u] # "none" /\ \A v \in Users : v # u => pc'[v] = pc[v]
    BY <1>1, <2>1
    DEF CallReturns, CallRaises, HandleException, AuditReturns, AuditRaises, SleepEnds, Kill
  <2>2. ASSUME \/ \E h \in Hosts : StartTest(h)
               \/ StopTest
               \/ \E d \in flight : Store(d) \/ Reject(d) \/ Lose(d)
               \/ \E a \in auditing : DecideAudit(a)
        PROVE  pc' = pc
    BY <2>2 DEF StartTest, StopTest, Store, Reject, Lose, DecideAudit
  <2>3. \A u \in Users : pc'[u] # "none" => pc[u] # "none"
    BY <1>4, <2>1, <2>2 DEF Other
  <2> QED
    BY <1>1, <1>4, <2>3 DEF MNext, PlaceInv
<1> QED
  BY <1>2, <1>3, <1>4 DEF Work

\* A pod that ends takes its users with it.
LEMMA EndsStep ==
  ASSUME WInv, NEW w \in Workers, Ends(w)
  PROVE  MNext /\ BootInv' /\ PlaceInv'
<1> USE DEF WInv
<1>1. /\ Restart(w) /\ boot' = [boot EXCEPT ![w] = "ended"]
      /\ UNCHANGED <<requirements, installed, served>>
  BY DEF Ends, Pod!Ends
<1>2. BootInv'
  BY <1>1 DEF BootInv
<1>3. \A u \in Users : pc'[u] = IF Of[u] = w THEN "none" ELSE pc[u]
  BY <1>1 DEF Restart
<1>4. PlaceInv'
  BY <1>1, <1>3, MimesisAssumption DEF BootInv, PlaceInv
<1> QED
  BY <1>1, <1>2, <1>4 DEF MNext

LEMMA StepWInv == WInv /\ [WNext]_wvars => WInv'
<1> SUFFICES ASSUME WInv, [WNext]_wvars PROVE WInv'
  OBVIOUS
<1>1. ASSUME MNext PROVE MInv'
  BY <1>1, StepMInv DEF WInv
<1>2. ASSUME UNCHANGED mvars PROVE MInv'
  BY <1>2, StepMInv DEF WInv
<1>3. CASE Work
  <2>1. BootInv'
    BY <1>3 DEF Work, pods, WInv, BootInv
  <2> QED
    BY <1>1, <1>3, <2>1, WorkStep DEF WInv
<1>4. ASSUME NEW w \in Workers, Pod!Boot(w), UNCHANGED mvars PROVE WInv'
  <2>1. BootInv' /\ \A v \in Workers : boot[v] = "running" => boot'[v] = "running"
    BY <1>4, BootStep DEF WInv
  <2>2. PlaceInv'
    BY <1>4, <2>1, MimesisAssumption DEF WInv, PlaceInv, mvars, vars
  <2> QED
    BY <1>2, <1>4, <2>1, <2>2 DEF WInv
<1>5. CASE Pod!Publish /\ UNCHANGED mvars
  <2>1. BootInv' /\ PlaceInv'
    BY <1>5 DEF Pod!Publish, WInv, BootInv, PlaceInv, mvars, vars
  <2> QED
    BY <1>2, <1>5, <2>1 DEF WInv
<1>6. ASSUME NEW w \in Workers, Ends(w) PROVE WInv'
  BY <1>1, <1>6, EndsStep DEF WInv
<1>7. CASE UNCHANGED wvars
  <2>1. UNCHANGED mvars /\ BootInv' /\ PlaceInv'
    BY <1>7 DEF wvars, pods, WInv, BootInv, PlaceInv, mvars, vars
  <2> QED
    BY <1>2, <2>1 DEF WInv
<1> QED
  BY <1>3, <1>4, <1>5, <1>6, <1>7 DEF WNext, Boot

LEMMA InitWInv == WInit => WInv
<1> SUFFICES ASSUME WInit PROVE WInv
  OBVIOUS
<1>1. MInv
  BY InitMInv DEF WInit
<1>2. BootInv
  <2>1. Image \in SUBSET Required
    BY DEF Required
  <2> QED
    BY <2>1 DEF WInit, Pod!Init, BootInv
<1>3. PlaceInv
  BY DEF WInit, MInit, Init, PlaceInv
<1> QED
  BY <1>1, <1>2, <1>3 DEF WInv

LEMMA WInvariance == WSpec => []WInv
BY InitWInv, StepWInv, PTL DEF WSpec

\* A worker runs with what was served together, never with the list of the
\* image, whichever downloads, installations and starts failed before; and it
\* is the only place where users are (run.sh).
THEOREM ServedTogetherHolds == WSpec => []ServedTogether
<1>1. WInv => ServedTogether
  BY DEF WInv, BootInv, FromList, PlaceInv, ServedTogether, Pod!ServedTogether
<1> QED
  BY <1>1, WInvariance, PTL

\* Pods that end and boot at any time take nothing from what is promised of the
\* users: what was counted as a success is stored, tasks are counted once, the
\* numbers of one life of a process are not used again.
THEOREM UsersInPods == WSpec => [](SuccessIsStored /\ CountedOnce /\ UniqueInProcess)
<1>1. WInv => SuccessIsStored /\ CountedOnce /\ UniqueInProcess
  BY MInvUnique DEF WInv, MInv, IInv
<1> QED
  BY <1>1, WInvariance, PTL
=============================================================================
