---------------------------- MODULE MetricsLocust ----------------------------
(***************************************************************************)
(* The simulated users of one locust worker process.  The class            *)
(* MetricsLocust of locustfile-faker.py is a bulk loader; the one of       *)
(* locustfile-faker-custom.py inserts its batches unordered and generates  *)
(* them in another way; the one of locustfile.py reads a document where    *)
(* the others insert a batch, and does not sleep.  To change the           *)
(* locustfile, the pods are deployed anew between two tests: a member of   *)
(* Hosts is the host of a test together with the locustfile it is for.     *)
(*                                                                         *)
(* Every user is a greenlet.  A greenlet gives the processor away only at  *)
(* a network call, at time.sleep and at locust's wait between two tasks,   *)
(* so one action is the code between two such points.  These points are    *)
(* also where locust's stop of a test can end a user: GreenletExit is not  *)
(* an Exception and passes through the handler of _bulkinsert.             *)
(*                                                                         *)
(* locust (the start and the stop of a test) and MongoDB (what happens to  *)
(* an insert once it is sent) are not in the repository; they are modelled *)
(* from the way the locustfile uses them.                                  *)
(***************************************************************************)
EXTENDS Naturals, Sequences, FiniteSets

CONSTANTS
  Users,      \* slots for simulated users of this worker
  Hosts,      \* values the Host field of the locust UI may have
  Clusters,   \* MongoDB clusters
  Srv,        \* Srv[h]: the cluster that the first field of h names
  BulkSize,   \* BulkSize[h]: the last field of h, as an integer
  Malformed,  \* the hosts on which __init__ raises: too few fields, a batch
              \* size that is no number, a connection string pymongo refuses
  Loads,      \* the hosts for a bulk loader, not the query user of locustfile.py
  Ordered,    \* those whose loader calls insert_many with ordered=True
  MaxTasks,   \* bound on the tasks of one slot, in the guard of BeginTask
  MaxTests,   \* bound on the tests started, in the guard of StartTest
  None        \* Python's None

ASSUME ConstantsAssumption ==
  /\ Srv \in [Hosts -> Clusters]
  /\ BulkSize \in [Hosts -> Nat]
  /\ Malformed \subseteq Hosts
  /\ Loads \subseteq Hosts /\ Ordered \subseteq Loads
  /\ \A h \in Hosts \ Loads : BulkSize[h] = 0
  /\ MaxTasks \in Nat /\ MaxTests \in Nat

VARIABLES
  tests,    \* the hosts of the tests started so far, the last one in force
  running,  \* the last test has not been stopped
  pc,       \* where the greenlet of each user is
  self,     \* the attributes __init__ set on each user's instance
  n,        \* tasks begun in each slot so far
  task,     \* the task each user is executing or executed last
  success,  \* tasks for which events.request_success was fired
  failure,  \* tasks for which events.request_failure was fired
  flight,   \* documents sent to a cluster and not yet decided
  coll,     \* documents stored, each with the collection that holds it
  auditing, \* audit entries sent to a cluster and not yet decided
  audit,    \* entries of the mlocust.audit collections
  begun,    \* history: every task begun
  killed    \* history: tasks whose user was stopped during the pymongo call

requests == <<success, failure>>
history == <<begun, killed>>
mongo == <<flight, coll, auditing, audit>>
vars == <<tests, running, pc, self, n, task, requests, mongo, history>>

-----------------------------------------------------------------------------
Task == [user : Users, n : Nat, run : Nat]
\* A MongoClient is identified by the user and the test it was created for.
Client == [user : Users, run : Nat, srv : Clusters]
Instance == [client : Client, coll : Hosts, bulk_size : Nat, audit : Client]
Entry == [task : Task, srv : Clusters]

\* MetricsLocust.host: locust sets the class attribute when a test starts.
Host == tests[Len(tests)]

\* The batch of task t of an instance i, numbered in the order of the list
\* that is given to insert_many.
Batch(i, t) == [coll : {i.coll}, task : {t}, no : 1 .. i.bulk_size]

Init ==
  /\ tests = <<>> /\ running = FALSE
  /\ pc = [u \in Users |-> "none"]
  /\ self = [u \in Users |-> None]
  /\ n = [u \in Users |-> 0]
  /\ task = [u \in Users |-> None]
  /\ success = {} /\ failure = {}
  /\ flight = {} /\ coll = {} /\ auditing = {} /\ audit = {}
  /\ begun = {} /\ killed = {}

-----------------------------------------------------------------------------
\* locust: a test starts once every user of the one before is gone.
StartTest(h) ==
  /\ ~running /\ \A u \in Users : pc[u] = "none"
  /\ Len(tests) < MaxTests
  /\ tests' = Append(tests, h)
  /\ running' = TRUE
  /\ UNCHANGED <<pc, self, n, task, requests, mongo, history>>

StopTest ==
  /\ running /\ running' = FALSE
  /\ UNCHANGED <<tests, pc, self, n, task, requests, mongo, history>>

\* locust: after the stop the greenlets are killed one by one, wherever they
\* wait.  A request that was sent is not called back.
Kill(u) ==
  /\ ~running /\ pc[u] # "none"
  /\ pc' = [pc EXCEPT ![u] = "none"]
  /\ killed' = IF pc[u] = "call" THEN killed \cup {task[u]} ELSE killed
  /\ UNCHANGED <<tests, running, self, n, task, requests, mongo, begun>>

-----------------------------------------------------------------------------
\* The class attribute audit. No code assigns it.
ClassAudit == None

\* Faulty variant: the handle of the first test is kept for those that follow.
AuditKept(u, client) == [user |-> u, run |-> 1, srv |-> Srv[tests[1]]]

\* if (self.audit is None): self.audit = self.client.mlocust.audit
\* In a new instance self.audit is the class attribute.
AuditFor(u, client) == IF ClassAudit = None THEN client ELSE ClassAudit

\* Faulty variant: coll is set in the singleton block as well.
InitOnce(u) ==
  /\ running /\ pc[u] = "none"
  /\ Host \notin Malformed
  /\ LET client == [user |-> u, run |-> Len(tests), srv |-> Srv[Host]]
     IN  self' = [self EXCEPT ![u] = [client |-> client, coll |-> tests[1],
                                      bulk_size |-> BulkSize[Host],
                                      audit |-> AuditFor(u, client)]]
  /\ pc' = [pc EXCEPT ![u] = "ready"]
  /\ UNCHANGED <<tests, running, n, task, requests, mongo, history>>

\* locust constructs the users of a test one after the other in a greenlet of
\* its own.  The lookup of the SRV record may give the processor away, but no
\* one sees the instance before it is complete, and a stop in between leaves
\* none.
__init__(u) ==
  /\ running /\ pc[u] = "none"
  /\ Host \notin Malformed
  /\ LET client == [user |-> u, run |-> Len(tests), srv |-> Srv[Host]]
     IN  self' = [self EXCEPT ![u] = [client |-> client, coll |-> Host,
                                      bulk_size |-> BulkSize[Host],
                                      audit |-> AuditFor(u, client)]]
  /\ pc' = [pc EXCEPT ![u] = "ready"]
  /\ UNCHANGED <<tests, running, n, task, requests, mongo, history>>

\* The exception leaves __init__: locust has no user to run.  A host that can
\* be parsed raises too, when the lookup of its SRV record fails.  Whether
\* locust goes on to construct the other users is left open.
__init__Raises(u) ==
  /\ running /\ pc[u] = "none"
  /\ pc' = [pc EXCEPT ![u] = "broken"]
  /\ UNCHANGED <<tests, running, self, n, task, requests, mongo, history>>

-----------------------------------------------------------------------------
\* The except clause up to the first network call: request_failure is fired
\* and audit_err sends its entry through the audit handle of the instance.
HandleException(u, t) ==
  /\ failure' = failure \cup {t}
  /\ auditing' = auditing \cup {[task |-> t, srv |-> self[u].audit.srv]}
  /\ pc' = [pc EXCEPT ![u] = "audit"]
  /\ UNCHANGED success

\* The task that begins in the slot of u.
NextTask(u) == [user |-> u, n |-> n[u] + 1, run |-> self[u].client.run]

BeginTask(u) ==
  /\ pc[u] = "ready" /\ n[u] < MaxTasks
  /\ n' = [n EXCEPT ![u] = @ + 1]
  /\ task' = [task EXCEPT ![u] = NextTask(u)]
  /\ begun' = begun \cup {NextTask(u)}
  /\ UNCHANGED <<tests, running, self, success, coll, audit, killed>>

\* The task of a loader up to the first network call.  bulkFetch may raise; a
\* batch of size 0 makes it return [], which insert_many refuses with a
\* TypeError.
_bulkinsert(u) ==
  /\ BeginTask(u) /\ self[u].coll \in Loads
  /\ \/ HandleException(u, NextTask(u)) /\ UNCHANGED flight
     \/ /\ self[u].bulk_size > 0
        /\ flight' = flight \cup Batch(self[u], NextTask(u))
        /\ pc' = [pc EXCEPT ![u] = "call"]
        /\ UNCHANGED <<failure, auditing>>

\* The task of the query user: find_one is sent.
_async_find(u) ==
  /\ BeginTask(u) /\ self[u].coll \notin Loads
  /\ pc' = [pc EXCEPT ![u] = "call"]
  /\ UNCHANGED <<failure, flight, auditing>>

\* Faulty variants: request_success is fired without the cluster's answer,
\* or in a finally clause.
CallUnacknowledged(u) ==
  /\ pc[u] = "call"
  /\ success' = success \cup {task[u]}
  /\ pc' = [pc EXCEPT ![u] = "ready"]
  /\ UNCHANGED <<tests, running, self, n, task, failure, mongo, history>>
CallFinally(u) ==
  /\ pc[u] = "call"
  /\ success' = success \cup {task[u]}
  /\ failure' = failure \cup {task[u]}
  /\ pc' = [pc EXCEPT ![u] = "ready"]
  /\ UNCHANGED <<tests, running, self, n, task, mongo, history>>

\* insert_many returns: the cluster acknowledged the whole batch.  Or find_one
\* returns, with a document or None.
CallReturns(u) ==
  /\ pc[u] = "call"
  /\ Batch(self[u], task[u]) \subseteq coll
  /\ success' = success \cup {task[u]}
  /\ pc' = [pc EXCEPT ![u] = "ready"]
  /\ UNCHANGED <<tests, running, self, n, task, failure, mongo, history>>

\* insert_many raises: a write error, or the connection failed or timed out,
\* in which case the cluster may be storing documents all the same.
CallRaises(u) ==
  /\ pc[u] = "call"
  /\ HandleException(u, task[u])
  /\ UNCHANGED <<tests, running, self, n, task, flight, coll, audit, history>>

\* A loader goes on to time.sleep(5); the query user has no more to do.
AfterAudit(u) == IF self[u].coll \in Loads THEN "sleep" ELSE "ready"

\* insert_one of audit_err returns.
AuditReturns(u) ==
  /\ pc[u] = "audit"
  /\ [task |-> task[u], srv |-> self[u].audit.srv] \in audit
  /\ pc' = [pc EXCEPT ![u] = AfterAudit(u)]
  /\ UNCHANGED <<tests, running, self, n, task, requests, mongo, history>>

\* insert_one raises inside the except clause: the exception leaves
\* _bulkinsert before time.sleep(5); locust logs it and runs the next task.
AuditRaises(u) ==
  /\ pc[u] = "audit"
  /\ pc' = [pc EXCEPT ![u] = "ready"]
  /\ UNCHANGED <<tests, running, self, n, task, requests, mongo, history>>

SleepEnds(u) ==
  /\ pc[u] = "sleep"
  /\ pc' = [pc EXCEPT ![u] = "ready"]
  /\ UNCHANGED <<tests, running, self, n, task, requests, mongo, history>>

-----------------------------------------------------------------------------
\* MongoDB: the documents of the same batch that are still undecided.
SameBatch(d) == {e \in flight : e.task = d.task}

\* An ordered batch is stored in the order of the list.
Store(d) ==
  /\ d.coll \in Ordered => \A e \in SameBatch(d) : d.no <= e.no
  /\ flight' = flight \ {d}
  /\ coll' = coll \cup {d}
  /\ UNCHANGED <<tests, running, pc, self, n, task, requests, auditing, audit,
                 history>>

\* A write error: it ends an ordered batch, and is one document's own
\* affair in an unordered one.
Reject(d) ==
  /\ d.coll \in Ordered => \A e \in SameBatch(d) : d.no <= e.no
  /\ flight' = flight \ (IF d.coll \in Ordered THEN SameBatch(d) ELSE {d})
  /\ UNCHANGED <<tests, running, pc, self, n, task, requests, coll, auditing,
                 audit, history>>

\* The request, or the rest of it, is lost with the node or the connection.
Lose(d) ==
  /\ flight' = flight \ SameBatch(d)
  /\ UNCHANGED <<tests, running, pc, self, n, task, requests, coll, auditing,
                 audit, history>>

\* An audit entry is stored or lost.
DecideAudit(a) ==
  /\ auditing' = auditing \ {a}
  /\ audit' \in {audit, audit \cup {a}}
  /\ UNCHANGED <<tests, running, pc, self, n, task, requests, flight, coll,
                 history>>

-----------------------------------------------------------------------------
UserStep(u) ==
  \/ __init__(u) \/ __init__Raises(u)
  \/ _bulkinsert(u) \/ _async_find(u)
  \/ CallReturns(u) \/ CallRaises(u)
  \/ AuditReturns(u) \/ AuditRaises(u) \/ SleepEnds(u)

Next ==
  \/ \E h \in Hosts : StartTest(h)
  \/ StopTest
  \/ \E u \in Users : UserStep(u) \/ Kill(u)
  \/ \E d \in flight : Store(d) \/ Reject(d) \/ Lose(d)
  \/ \E a \in auditing : DecideAudit(a)

Spec == Init /\ [][Next]_vars

-----------------------------------------------------------------------------
(* Type invariant. *)
TypeOK ==
  /\ tests \in Seq(Hosts) /\ running \in BOOLEAN
  /\ pc \in [Users -> {"none", "broken", "ready", "call", "audit", "sleep"}]
  /\ self \in [Users -> Instance \cup {None}]
  /\ n \in [Users -> Nat]
  /\ task \in [Users -> Task \cup {None}]
  /\ begun \subseteq Task
  /\ success \subseteq begun /\ failure \subseteq begun /\ killed \subseteq begun
  /\ flight \subseteq [coll : Hosts, task : begun, no : Nat]
  /\ coll \subseteq [coll : Hosts, task : begun, no : Nat]
  /\ auditing \subseteq Entry /\ audit \subseteq Entry

\* A request counted as a success has its whole batch in the collection that
\* the host of its test names: whatever was rejected, lost or answered late,
\* and whichever user or test came after (_bulkinsert, __init__).
SuccessIsStored ==
  \A t \in success :
    \A i \in 1 .. BulkSize[tests[t.run]] :
      [coll |-> tests[t.run], task |-> t, no |-> i] \in coll

\* Every task is counted once: as a success, as a failure, or, if its user
\* was killed with the request pending, not at all; a task that is in none
\* of the three is pending in a live user (_bulkinsert).
CountedOnce ==
  /\ success \cap failure = {} /\ success \cap killed = {}
  /\ failure \cap killed = {}
  /\ begun \ (success \cup failure \cup killed)
       = {task[u] : u \in {v \in Users : pc[v] = "call"}}

\* No document of a test reaches the collection of another test's host, even
\* when it is stored after its user was killed and the next test was started
\* with a different host (the comment at the start of __init__).
RightCollection ==
  \A d \in flight \cup coll : d.coll = tests[d.task.run]

\* The audit collection of a cluster holds only errors, and only those of
\* tests against this cluster ("log all application exceptions (and audits)
\* to the same cluster").
AuditOnSameCluster ==
  \A a \in auditing \cup audit :
    a.task \in failure /\ a.srv = Srv[tests[a.task.run]]

\* The users of a worker keep the promises of Ledger, where a task is open
\* while its call of pymongo is pending.
L == INSTANCE Ledger WITH
       Tasks <- [user : Users, n : 1 .. MaxTasks, run : 1 .. MaxTests],
       Size <- BulkSize,
       open <- begun \ (success \cup failure \cup killed),
       abandoned <- killed,
       stored <- coll
KeepsLedger == L!Spec

-----------------------------------------------------------------------------
(* Statements of the comments in the source that the code does not keep. *)

\* "Add a sleep ... so we don't hammer the system": after a failure no user
\* goes on to its next task without the sleep.
SleepAfterFailure ==
  [][\A u \in Users : pc[u] = "audit" => pc'[u] # "ready"]_vars

=============================================================================
