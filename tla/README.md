# mLocust in TLA+

mLocust is a load generator for MongoDB. It runs [locust](https://locust.io) in a
Kubernetes cluster: one master pod with the web UI, and worker pods in which
simulated users run the tasks of a *locustfile*. The own code of the repository
is a handful of Python files under `src/docker-image/locust-tasks`, a start
script, two deployments and the procedure in `src/README.md`. The repository also
carries the driver that the locustfiles load the cluster through, pymongo 3.12, and
dnspython 2.1, as eggs in `.eggs`. What a load test means depends on that driver
at least as much as on the locustfiles: it decides how often a document is stored, which
server is asked, and what a failure is. The specifications cover both.

This directory holds the specifications of that code, the TLC configurations
that check them on small instances, and proofs checked by TLAPS.

## 1. Inventory

| Part | State | Operations | Talks to |
|---|---|---|---|
| Bulk loader user, `locustfile-faker.py` | attributes of each user's instance (client, coll, model, bulk_size, audit); class attributes; what it reported to locust | `__init__`, `_bulkinsert`, `audit_err` | locust (constructs, runs, kills users; events), `fakerutil`, MongoDB |
| Custom bulk loader, `locustfile-faker-custom.py` | the same, without a model | the same; `insert_many(ordered=False)`, documents from a fixed schema | locust, MongoDB |
| Mimesis loader, `locustfile-mimesis.py` | the same, and the schema object of the process with its increment | the same; `__init__` generates a batch and throws it away | locust, MongoDB |
| Query user, `locustfile.py` (the file that `run.sh` starts) | client, coll, audit | `_async_find`, `audit_err`; no sleep after a failure | locust, MongoDB |
| Document generator, `fakerutil.py` | globals `id_map`, `maxArraySize`; per document `counts`, `data`; per call the list | `bulkFetch`, `procpath`, `zipmerge`, `ID`, `setArraySize` | template files `models/*.csv` |
| `insert_many`: pymongo's `bulk.py`, retry loop of `mongo_client.py` | per call: the place in the list, the result so far, retry flags | splits, sends, retries once, merges results | sessions, pool, topology, MongoDB |
| Connection pool, `pool.py` | deque of idle connections, generation, semaphore, `active_sockets` | check-out, check-in, reset, close, maintainer's round | threads, topology, network |
| Server sessions, `client_session.py` | deque of idle sessions; of each: last use, transaction number, dirty | borrow, return, draw a number, mark dirty | operations, topology |
| Topology description, `topology_description.py`, SRV polling | type, set name, servers, greatest election | a hello reply, a poll, reset, close | monitors, pools |
| Errors and replies about a server, `topology.py`, `monitor.py` | description with topologyVersion, pool's generation | `handle_error`, `on_change`, `cancel_check` | operations, monitor, server |
| Monitor threads, `periodic_executor.py`, `monitor.py` | flags and thread of each executor | open, close, wake, the loop; start of the RTT monitor | topology |
| Server selection, `server_selectors.py`, `read_preferences.py`, `max_staleness_selectors.py` | none | filters by type, staleness, tags, distance | topology |
| DNS look-up, dnspython's `resolver.py` (not modelled) | names, nameservers, backoff | next name, next nameserver, use of a reply | pymongo's `srv_resolver.py`, nameservers |
| Pod start, `run.sh`, `Dockerfile` | `requirements.txt`, what is installed | download, pip, start of locust in one of three modes | network, locust, Kubernetes |
| Deployment and scaling, `kubernetes-config`, `src/README.md` | replicas of master and workers, what the master believes | apply, scale, redeploy | Kubernetes, locust |

**How they interact.** locust constructs a user per greenlet; the user reads
`host`, which locust sets when a test starts, and splits it at `|`. A task
calls `fakerutil.bulkFetch`, sends the list with `insert_many`, and fires
`request_success` or `request_failure`; a failure is also written to the
collection `mlocust.audit` of the same cluster, and followed by a sleep. Each user has
a client of its own, with a topology, and per server a pool, a monitor with its threads
and an RTT monitor. An operation borrows a session, selects a server, checks a
connection out of the server's pool, and reports its errors to the topology, which may
reset the pool; hello replies reach the topology from the monitors' threads.

**What is hard.** Greenlets switch at network calls, at `time.sleep` and
between tasks, and there a stop of the test kills a user with GreenletExit, which
`except Exception` does not catch. The cluster may store documents of a batch
after the call that sent them failed or its user was killed, while the slot
of that user is already used by the next test, with another host. The failure
path makes a network call itself. `fakerutil` keeps two globals across
documents, calls and models, and merges documents under an unchecked assumption
on list lengths. In the driver, operations, monitors and
the maintainer meet in pools and descriptions that are guarded by locks for short
sections only, and replies and errors are handled long after what they tell was true.

**What makes each part correct.**
* Users: a counted success is stored completely; every task is counted once;
  documents and audit entries go where the host of *their* test says; a failure
  is followed by the sleep.
* Generator: identifiers are unique in a process and none is lost in a merge;
  merged lists have equal lengths; a list respects the last `setArraySize`; a
  returned batch is complete.
* `insert_many`: what it reports agrees with what was stored, and a retry does not store
  twice; for that, no two commands share a session and a transaction number.
* Pool: a connection has one owner, none survives a reset, permits come back.
* Topology: one primary, never an older one; late replies and errors undo nothing; a
  client comes to know a server that has stopped changing.
* Monitors: one thread each, no lost wake, none that outlives its owner.
* Server selection: no server that the preference excludes, and none turned away that it
  must admit.
* Pod start: locust runs only with libraries that belong together, and recovers.

## 2. Plan

What a test reports and where its documents go comes first, then the generator that every
bulk load runs through, then the driver from the call of a task outwards.

| Order | Module | Content | State |
|---|---|---|---|
| 1 | `Ledger` | what a load test promises: each task counted once or abandoned, successes stored, documents with their own test | done |
| 2 | `MetricsLocust` | the users of one worker process, with locust's stop and MongoDB as environment; implements `Ledger` | done, proved |
| 3 | `FakerUtil` | `bulkFetch` as a state machine over the globals of the module | done, proved |
| 4 | `Mimesis` | the loader on the increment that the users of a process share, with restarts; extends `MetricsLocust` | done, proved |
| 5 | `InsertMany`, `BulkWrite` | what `insert_many` promises, and its commands and retries, which implement it | done, proved |
| 6 | `ServerSessionPool` | the sessions whose transaction numbers `BulkWrite` relies on | done, proved |
| 7 | `Pool` | the connection pool | done, proved |
| 8 | `TopologyDescription` | what a client believes about its deployment | done, proved |
| 9 | `Topology` | replies and errors that race, for one server | done, proved |
| 10 | `Monitor` | the threads of a monitored server | done, proved |
| 11 | `ServerSelection` | the read preferences | done, proved |
| 12 | `PodStart`, `Worker` | `run.sh`, where every command may fail and the next one runs; and the composition of the pod with the users of its process | done, proved |

Three modules of an earlier plan were dropped. A recursive definition of `procpath` on
trees would restate what `FakerUtil` already has as steps. A composition of `FakerUtil`
with several users adds nothing that `FakerUtil` does not have: `bulkFetch` never gives
the processor away, so the users of a process call it one after the other, as `UniqueIds`
already assumes of its calls. A specification of the master and the scaling procedure would be one of
locust, which is neither in the repository nor called by its code beyond the hooks that `MetricsLocust`
has.

## 3. The modules

Every module has the operations of one part as actions. Where threads share memory, an action is
what runs between two points at which another thread may run and tell the difference: a section
under a lock, a network call, a wait. MongoDB, the network, locust and Kubernetes are external and
modelled by what the code relies on. Faulty variants of some definitions stand before the originals;
no specification uses them. They are the mistakes that the properties are tested against.

### Ledger
The abstract specification: tests, the tasks of the test in force, their three
outcomes, and the documents stored. It does not know users, instances, audits,
requests or clusters. Documents may arrive at any time after their task began,
also after its outcome; a success needs all of them first.

### MetricsLocust
The users of one worker process. `tests` is the list of the values that locust
gave to `MetricsLocust.host`, one for each test. `pc[u]` says where the greenlet
of slot `u` waits:

| `pc[u]` | in the code |
|---|---|
| `none` | no user runs in this slot |
| `broken` | `__init__` raised |
| `ready` | locust's task loop, between two tasks |
| `call` | inside `insert_many` (or `find_one`) |
| `audit` | inside `insert_one` of `audit_err` |
| `sleep` | `time.sleep(5)` |

These are the only points at which a greenlet gives the processor away, so an action
is all the code from one to the next. For example `_bulkinsert(u)` is the task from
its first line to the request that `insert_many` sends, or through the exception
of `bulkFetch` to the request that `audit_err` sends. `self[u]` holds the attributes
that `__init__` sets. `AuditFor` is the test of the "singleton": in a new
instance `self.audit` is the class attribute, which nothing assigns.

A member of `Hosts` is the host of a test together with the locustfile it is for, so that
one run has tests of several locustfiles. For a host outside `Loads` the user is the
query user of `locustfile.py`, whose task
`_async_find` sends a `find_one` and whose handler has no sleep; its batch is
empty. For a host in `Loads` but outside `Ordered` it is
`locustfile-faker-custom.py`, which calls `insert_many(..., ordered=False)`.

External, modelled from how the code uses them:
* *locust*: `StartTest`, `StopTest` and `Kill`. A stop kills users at any point where
  they wait, with an exception that `except Exception` does not catch. A new test
  sets `host` after the users of the last one are gone.
* *MongoDB*: documents of a request are in `flight` until each is stored (`Store`),
  refused (`Reject`: ends an ordered batch) or lost with the connection (`Lose`). Neither
  the exception of the call nor the end of its user takes them out of `flight`.

### FakerUtil
`bulkFetch(model, bulk_size)` from call to return or exception, for one caller at a
time (it does not give the processor away). `id_map` and `maxArraySize` are the
globals. A document is a set of leaves; a leaf is the row that generated it and an
index for every list on its path. The actions are the steps between two
changes of the globals: `StartDoc`, `procpath` (which draws the lengths of lists new to the
document), `Eval` (the expression at one element), `merge`, `AppendDoc`, `Return`;
`Raise` is what an exception in any of them does.

Two rows with one path override each other, unless both have lists for values, which `zipmerge`
would walk through as well (`ListValues`): then it may raise or go on.

`zipmerge` is modelled with the flaw its comment admits: if the document's list
is longer than the row's the index fails (`Shorter`), if it is shorter the rest
of the row is dropped (`Zipped`). That neither happens is a theorem and not
an assumption.

### Mimesis
Extends `MetricsLocust`: the same users, with `increment[w]`, the last number that the
generator of process `w` gave, and `life[w]`, its restarts. `create` is
`schema.create(iterations=bulk_size)`; `Loader__init__` calls it and drops the result,
`Loader_bulkinsert` calls it and sends the result. `batches` is a history of what was
sent. `Restart` kills the users of a process and forgets its number.

### InsertMany and BulkWrite
`InsertMany` is the promise: each document stored at most once, in order if the call is
ordered, and a report that agrees. `BulkWrite` draws the argument `ordered` and the set `bad` of the
documents that the server refuses at the start of the call, and has the loop of `_retry_internal`
(`Select`, `SelectTimesOut`, `CheckOutFails`, `Catch`) around that of
`_execute_command` (`Send`, `Reply`, `ReplyHalts`, `NetworkError`, `Refuse`). A
command is a range of the list with a transaction number; the cluster (external)
executes it document by document at any time after it was sent, also after the client
has given up on it and sent it again, and skips what it has executed under that number.

### ServerSessionPool
`pool` is the deque; `held[t]` is the session that operation `t` has borrowed. The code draws a
number and uses it in two places: `_start_retryable_write` increments the session's `transaction_id` before
a server is selected, and `_apply_to` reads it when the command is written, after selection and check-out, and
again for a second attempt. They are two actions, between which other threads, an expiry, a failure
(`NotSent`) or a network error may come. `write[t]` says which retryable write a thread is at and
`tries[t]` how often it was tried; a write at a server without sessions goes out without a number. `NetworkError` marks
the session dirty, and `end_session` puts it back unless it is dirty or too old. `Kill` is GreenletExit during a
command: the context manager returns the session as it is, which is why `QuietInPool`
excepts such sessions (the next write has a number of its own, so nothing is lost by it).

### Pool
`pc[a]` is where each thread is in `_get_socket`, `get_socket` and `return_socket`, or, for
the maintainer, in `remove_stale_sockets`. Sections under `pool.lock` are one action;
`Acquire`, `Release`, `Connect`, `Hello` and `Use` are steps of their own. `Failed` is the
`except` clause of `_get_socket`, which a kill of the greenlet also takes. `Reset` is the
monitor's, `Handle` that of a failed operation, `Close` that of `Topology`. Each of them is the section of
`_reset` under the lock, which takes the idle connections out of the deque; they are closed one after the other
after the unlock (`CloseSocket`), while others may connect. `doomed` has the connections that each resetting thread has yet to close.
An error of an operation may close its connection or, when the server has answered with it, leave it open. Locust's
greenlets switch at fewer points than threads; the interleavings include theirs.

### TopologyDescription and Topology
`TopologyDescription` is `updated_topology_description` with its helpers, one operator for
each function, applied to any reply of any server, together with SRV polling in two
steps (the look-up, then its result under the lock), `reset` and `close`. `Topology` has one
server that changes state, stops and restarts as another process; its monitor, which
reads a reply and delivers it later; and operations that check out a connection, fail and
call `handle_error` later. `buried` remembers which processes of the server were gone when the pool was reset. An
`OperationFailure` with a code of the not primary errors does what a shutdown does, and is one with it; the reset for
`max_wire_version <= 7` is not needed, because a server that sends topologyVersions is 4.4 or later. Together: the first asks whether a
*sequence* of descriptions is right, the second whether an *old* one can win.

### Monitor
Each executor has the four flags of `PeriodicExecutor` and its threads, whose labels are
the lines of `_run` between which another thread may run. `OpenLock` and `OpenStart` are
the two parts of `open`. The target of the server's executor may call
`_start_rtt_monitor`, itself in three steps (`RttLock`, `RttStart`, `Recheck`). `Freed` is a target
that finds its owner collected while it runs and returns False, which ends the loop.

### ServerSelection
One call of `apply_selector`: the filters are operators, the state is the
topology and the selector, all of which TLC enumerates.

### PodStart and Worker
`PodStart` has an action for each command of `run.sh` in a worker's pod, one for its failure, and Kubernetes'
restart with the files of the image. A download that breaks off leaves a part of the list, and an installation that
fails leaves a part of what it should install, in place of other versions of the same libraries; the script goes on after either. `Worker` is the composition: the processes of
`Mimesis` are the pods of `PodStart`; users are constructed only where locust
runs, and when locust ends (`Ends`) the pod boots again and its users and numbers are gone (`Restart` of `Mimesis`).

## 4. What is checked

| Run | Configuration | Shows |
|---|---|---|
| `users` | 2 slots with a task each, 2 tests of any of 5 hosts (ordered and unordered batches of 2, a batch of 0, the query user, one host that cannot be parsed; 2 clusters) | `SuccessIsStored`, `CountedOnce`, `RightCollection`, `AuditOnSameCluster`, and `KeepsLedger`: the refinement of `Ledger` |
| `failure_without_sleep` | the same, 1 test | `SleepAfterFailure` is violated |
| `fakerutil` | two calls in a row, any of 5 models, batch sizes 0 to 2 | `UniqueIds`, `IdsAccounted`, `ZipEqual`, `CurrArraySize`, `Whole` |
| `worker` | a pod with 2 users of the mimesis loader, from `wget` to locust, 1 restart of a running process, any number of failed starts, 2 lists that may be served, `WFairSpec` | `UniqueInProcess`, `ServedTogether`, `Recovers` |
| `insert_many` | 5 documents, 2 to a command, any of them refused, ordered or not, `FairSpec` | `Implements` (the refinement of `InsertMany`), `AtMostOnce`, `ExactReport`, `TimeoutMeansNothingSent`, `OneRetry`, `Ends` |
| `sessions` | 2 threads, 2 sessions, 3 retryable writes, a clock of 2 | `Exclusive`, `OneNumberEach`, `QuietInPool` |
| `pool` | 2 threads with 2 operations, 1 connection, `minPoolSize` 1, a round of the maintainer, a reset of the monitor, `FairSpec` | `OneOwner`, `IdleIsCurrent`, `Restored`, `AtMostOneMore`, `Served` |
| `pool_min` | the same, safety only | `WithinMaxPoolSize` is violated |
| `topology_description` | 3 addresses, 2 seeds, 28 replies, SRV polling | `OnePrimary`, `NoStepBack` |
| `topology` | 2 operations, 2 changes of the server, 2 faults of the network, `FairSpec` | `NotPrimaryIsKept`, `DeathCountsOnce`, `Converges` |
| `monitor` | 2 thread objects for each executor, `FairSpec` | `OneThread`, `WakeNotLost`, `RttFollows`, `WakeServed` |
| `server_selection` | all topologies of 3 servers with 2 ages, 2 hello times, 2 round trip times and 2 tag sets, limits of staleness 2, 3 and none | `StalenessBound`, `TagsInOrder` |

Each property of a passing run has one faulty variant of a definition (listed in
`PROJECT.json`) with which the same run finds it violated.

**Bounds, and why they are enough.** Two slots let one user act while another
is killed or waits. Two tests are the least in which documents of one are stored
while the other runs against another host, and in which a stale attribute would
show. A batch of two is the least that can be stored in part. A slot has one task in each
run, because a second one in `users` would make it too large; what the second task of a
slot finds is proved for any number of tasks instead (section 5). In `failure_without_sleep`
the end of the task is the violation, whether or not another one follows.
`MaxTasks` and `MaxTests` bound the counters, in the guards of `BeginTask` and
`StartTest`; the system stops when they are reached, which is why deadlock is not
checked. For `FakerUtil` two calls are the least in which a global that an
earlier call left behind matters; the five models have the constructs of
`models/*.csv` (nested lists, a list met first by a nested path, a duplicate path,
`setArraySize` before and after lists) and those that make a call raise
(`setArraySize(0)`, an expression that raises, two rows of one path with lists for values, a missing file). In `worker` two lists are
served, one after the other in any order, with other versions of the same libraries than each other and than the list in the image, so that
a mixture can be told from each of them; what a broken download or installation leaves is any part. `MaxRestarts` bounds the ends of a running process, in `Restart` of `Mimesis`; starts that
fail are not bounded.

In the driver: two threads are the least that can meet at a connection, a session or an
error, and with a second operation each they meet what the first one left
behind. One connection makes them wait for each other and for the maintainer. Five documents in commands of two
give a first, a middle and a shorter last
command, and a refused one in the middle one makes offsets matter. Two
sessions let each thread have one of its own, and one be pooled or expire while the other is in use; three writes let each
thread write once, and one of them again with the session that it or the other one has put back. One reset or fault, with those that
the operations cause, falls between any two steps of everybody else. Three
addresses allow an old primary, a new one and a member; the five elections are those
that the comparison of tuples tells apart. Two changes of a server let it
step down and up again, or stop and come back as another process. Two thread objects are one more than may live
(`OneThread`). Ages, times and limits of `ServerSelection` are small numbers on
both sides of each threshold. `MaxOps`, `MaxRounds`, `MaxResets`, `MaxTime`, `MaxSessions`, `MaxCommands`,
`MaxChanges` and `MaxFaults` stand in the guards of the actions named beside them in the
modules. Threads and servers are interchangeable, and symmetry is used where
nothing but safety is checked. Deadlock is checked where the system never stops: `Topology` and `Monitor`.

**Fairness.** Nothing is assumed of the users: the loader sets no `socketTimeoutMS`, whose default
is no timeout (`mongo_client.py:229-233`), so that nothing in the code ends a call to a server that has gone silent, and
no property says that a task is ever counted. In `PodStart` a script goes on and Kubernetes starts
containers again; the strong fairness is of a download and of an installation
that are tried again and again: some succeed; without it no pod needs to start at all.

In the driver: a selection and a command end, with a result, a timeout or a broken connection
(`BulkWrite`). Threads that can run do run, and calls on the network end (`Pool`,
`Monitor`, `Topology`). What `Ends`, `Served`, `Converges` and `WakeServed` say is therefore about the code of the driver between its calls
on the network: that no failure keeps a permit, no loop goes round for ever, no error or wake is
forgotten. A server that keeps a connection open and never answers is outside of them. A selection of a server does end,
after `serverSelectionTimeoutMS`, and so does a check of a monitor, after `connectTimeoutMS`. In `Topology`
a server that stopped is started again, and the number of changes is bounded, which is what `Converges` is about.

**Findings.** Two comments of the code are not what it does, and a run shows each.
* "Add a sleep ... so we don't hammer the system" (`locustfile-faker.py:138`): the sleep
  comes after `audit_err`, which needs the cluster. If the task failed because the
  cluster is unreachable, `audit_err` raises too, the exception leaves the `except` clause,
  and the next task begins at once. (TLC's trace is the shortest one: the generation of the batch raises, and then the insert
  of the audit entry.)
* `maxPoolSize` is "The maximum allowable number of concurrent connections to each
  connected server" (`mongo_client.py:219`). `remove_stale_sockets` reads the number of
  connections under the lock, releases it, and then takes a permit (`pool.py:1243-1249`). An
  operation that was counted in between or checks its connection in between gives its
  permit back, and its connection stays open in the deque: the maintainer opens one more. It
  needs `minPoolSize > 0`, which the connection strings here do not set. `AtMostOneMore` says how far it goes: one more
  and never two, and none with the default 0. Neither counts the connections that a reset has taken out of the pool and not yet
  closed: it closes them after the unlock (`pool.py:1194-1208`), when other threads may already connect, so that for this
  moment more than `maxPoolSize` can be open with any `minPoolSize`.

Four more comments say less or more than the code does, without harm to what is checked; they were read, and no run
is violated by what they say.
* "Note that increment doesn't maintain unique sequence numbers if you are running multiple mlocust users in parallel"
  (`locustfile-mimesis.py:51`): it holds for users of two workers, and across a restart of one. The users of one
  worker share the schema object of their process and call it without giving the processor away, and their numbers are unique
  (`UniqueInProcess`, which the run `worker` passes and `NumbersAreUnique` proves). The comment says more than the code does, but that
  numbers *may* coincide is no claim that a run could refute.
* `# Singleton` (`locustfile-faker.py:88`): `self.audit` is tested in each new instance and
  found `None`, because the assignment makes an instance attribute. Each user makes its own
  handle, for its own client. That is even what makes
  `AuditOnSameCluster` true: a handle kept from the first test would send the errors of
  the next one to the wrong cluster (the variant `AuditKept`).
* "The most recently used sessions are on the left" (`client_session.py:1016`): they are in
  the order in which they were returned, and the age that counts is that of their last command.
  `get_server_session` tests each session that it pops, which makes up for it.
* "Shutdown SRV polling for unsupported cluster types" (`topology.py:301`): the result of
  a look-up that was under way is applied all the same. It also explains the precondition of
  `OnePrimary`: a Single topology may get a second server from such a poll, and replies of a Single
  topology's servers are taken as they are.

## 5. What is proved

The proofs hold for any sets of users, hosts, clusters, templates, keys, threads and sizes,
from the assumptions on constants that the modules declare: `ConstantsAssumption`
(tables of the right types; query users have no batch), `TemplateAssumption`
(types), and `PathAssumption` (within a template no path continues another
one, and a list is written with `()` wherever it occurs; the templates in `models/` are
like that). `MimesisAssumption` gives each user its process. The driver's modules assume only
the types and ranges of their constants, and `ServerSelection` that there are finitely many servers. Fairness is used in no proof.

| Theorem | Property |
|---|---|
| `Worker_proofs!TypeCorrect`, `SuccessStored`, `TasksCountedOnce`, `LateDocumentsStay`, `AuditsFollowHost` | `TypeOK`, `SuccessIsStored`, `CountedOnce`, `RightCollection`, `AuditOnSameCluster` |
| `Worker_proofs!Refinement` | `KeepsLedger` |
| `Worker_proofs!MTypeCorrect`, `NumbersAreUnique`, `SuccessStaysStored` | `MTypeOK`, `UniqueInProcess`, `SuccessIsStored` of `Mimesis` |
| `Worker_proofs!ServedTogetherHolds`, `UsersInPods` | `ServedTogether`; `SuccessIsStored`, `CountedOnce`, `UniqueInProcess` of `Worker` |
| `FakerUtil_proofs!TypeCorrect`, `IdsUnique`, `ZipAssumption`, `IdsNotLost`, `WholeHolds`, `CurrArraySizeHolds` | `TypeOK`, `UniqueIds`, `ZipEqual`, `IdsAccounted`, `Whole`, `CurrArraySize` |
| `BulkWrite_proofs!TypeCorrect`, `AtMostOnceHolds`, `TimeoutHolds`, `ExactReportHolds`, `OneRetryHolds` | `TypeOK`, `AtMostOnce`, `TimeoutMeansNothingSent`, `ExactReport`, `OneRetry` |
| `BulkWrite_proofs!KeepsPromise` | `Implements` |
| `ServerSessionPool_proofs!TypeCorrect`, `ExclusiveHolds`, `OneNumberEachHolds`, `QuietInPoolHolds` | `TypeOK`, `Exclusive`, `OneNumberEach`, `QuietInPool` |
| `Pool_proofs!TypeCorrect`, `OneOwnerHolds`, `IdleIsCurrentHolds`, `RestoredHolds`, `AtMostOneMoreHolds` | `TypeOK`, `OneOwner`, `IdleIsCurrent`, `Restored`, `AtMostOneMore` |
| `TopologyDescription_proofs!TypeCorrect`, `OnePrimaryHolds`, `NoStepBackHolds` | `TypeOK`, `OnePrimary`, `NoStepBack` |
| `TopologyDescription_proofs!TagsInOrderHolds`, `StalenessBoundHolds` | `TagsInOrder`, `StalenessBound` of `ServerSelection` |
| `Topology_proofs!NotPrimaryIsKeptHolds`, `DeathCountsOnceHolds` | `NotPrimaryIsKept`, `DeathCountsOnce` |
| `Monitor_proofs!OneThreadHolds`, `WakeNotLostHolds`, `RttFollowsHolds` | `OneThread`, `WakeNotLost`, `RttFollows` |

**Users.** No property is inductive alone. `IInv` adds four facts: a user can only be in a
test that was started (`TestsInv`); the instance of a live user is the one `__init__`
makes from the host of the *current* test (`InstanceInv`), which is why the re-reading
of the host in each `__init__` matters and the start of a test may assume that all users
are gone; a task carries a test that was started and a number its slot has used
(`BegunInv`), so that the next one is new; a user that waits for a reply
waits for a task of its own that belongs to the current test (`TaskInv`). Documents are
then kept apart by the test number in their task, so that the late ones of a killed
user need no fact about its slot. There is one lemma for each action and one
step for each conjunct it disturbs. `Worker_proofs` proves all of `MetricsLocust`, `Mimesis`
and `Worker`, because the three extend one another and what is shown of the users is used for each.

**Refinement.** A ledger task is open while it is begun and in none of the three
outcomes. `BeginTask` is `Begin`, or `Refuse` when `bulkFetch` raises; `CallReturns`,
`CallRaises` and `Kill` of a user in `call` are `Succeed`, `Fail` and `Abandon`; `Store` is
`Arrive`; everything else stutters. `RInv` adds to `IInv` the bounds of the task
numbers, without which the tasks are not in the domain of `Ledger`, and that a document
in flight belongs to the batch of its task, without which `Store` is no `Arrive`.

**Generator.** For `UniqueIds`, no number in use exceeds its key's counter (`IdBound`).
`ZipEqual` needs `ShapeInv`: the leaves that a row has put in the document are
*all* the index combinations that the lengths in `counts` allow, and `counts` is never changed
once it is set. The lemma `Projection` shows that the common lists of two paths
then have the same indices in both, which uses that no list is empty; this is where
`randint(1, ...)` matters. It follows that no merge finds lists of different lengths on the path of its row, or drops
anything (`MergeKeepsAll`), and with it `IdsAccounted`; two rows of one path with lists for values may still raise, which loses
the list of the call as any other exception does.

`Whole` is about lists that were returned; `WholeInv` says of the call under way that each path has a
value in each finished document, and in the current one as far as its rows are merged (`Covered`). A
row gives a value because no list is empty; a merge keeps those of other paths and replaces that of its own.
Calls and documents are kept apart by their numbers (`OfCall`, `Earlier`). `CurrArraySize` compares a list
with rows evaluated before; `SizeInv` adds that `maxArraySize` is what the last `setArraySize` of the
document made it, once there was one (`CurrentSize`), and that a list got its length in the first row that has it
(`DrawnFirst`). What an earlier document or call left in the global is then no matter.

**Mimesis.** Every step but `Restart` is one of `MetricsLocust` and keeps its `IInv`
(`StepIInv`); `RestartKeepsIInv` adds the restart, which is a kill of several users at
once. `UniqueInProcess` needs `NumbersInv`: numbers sent in the present life of a process
do not exceed its increment, so that the next batch lies past them.

**Pods.** `BootInv` says what each command of `run.sh` may rely on: nothing is installed before
pip has run; the requirements that pip reads are part of *one* list that was served, or empty; and what is
installed when locust starts is a part of these, whether pip failed or not, because there was nothing beside them. The list of the image never
gets there, because `wget -O` empties the file
even if it fails, and a list of an earlier life of the pod does not because a restart takes the files of the image.
`PlaceInv`, that users are only where locust runs, is kept because a pod ends together with its
users, and makes each step of the composition one of `Mimesis`, one of the pods alone, or a restart of both.

**insert_many.** `AtMostOnce` is not inductive, because a command in flight can store
a document at any time. `CommandInv` says that with retryable writes each command in
flight either is for the part of the list that is being written and has its number, or has been executed
entirely under its own number (`Settled`); `SingleInv` that without them there is one
command at most; `PlaceInv` and `StoredInv` that nothing past the current part is stored and that what is stored of it
is remembered under its number. `RetryInv` ties the flags of the retry to these:
a second attempt finds the number already drawn.

What is reported needs more than what is stored (`ReportInv`): all before the current part is stored
or refused (`WrittenInv`), `full` counts just that (`CountInv`), and a report is given only when the current
part is settled, so that no command in flight can store more and make it wrong (`FinalInv`). `FinalInv` speaks
of `last` as well: the error of the first attempt, which is kept for the case that the retry fails and
is raised in its place. `AttemptsInv` bounds the commands of one part, for `OneRetry`.
With these, every step is one of `InsertMany` or none (`KeepsPromise`): the execution of a document is its `Store`, the
step that ends the call its `Report`.

**Sessions.** `OneNumberEach` is what makes the server's memory of a number that of one command only, which `BulkWrite`
takes for granted. The number is drawn in one step and read in others, from a field of the session and not from the operation; so the argument
needs `Exclusive`, that nobody else has the session meanwhile, at every one of these steps. `DrawnInv` bounds the numbers sent by the
`transaction_id` of their session, and has each write under way with one thread; `UnderWayInv` says that what a write under way has
sent, if anything, is under the present number of its session, and that nothing else was. `QuietInv` has for each command that the server may
still execute a reason why its session is not clean in the pool: a thread waits for it, it is dirty, or its user was killed.

**Pool.** `OneOwner` needs the labels at which a thread holds a connection, and that the numbers of
connections are not used again; `IdleIsCurrent` that whoever is past the first
look at `closed` cannot bring back a connection of an older generation, and that what the maintainer
adds was opened after it read the generation; `Restored` that permits and `active_sockets` equal the
number of threads at certain labels (`Permits`). `SizeInv` counts the idle
connections and the threads that have one (`Out`) against the permits, for `AtMostOneMore`: while the maintainer adds a connection there is room for it, as
each look at the size of the pool allows for one, so that what is checked in behind its back makes one more and
never two; with `minPoolSize` 0 it adds none. That needs no assumption on resets, because what a reset takes out leaves the deque with its own section under the lock;
it stays open for a while, and `OneOwner` has it in the hands of the thread that will close it.

**Topology description.** `Sound` says which types of topology have a primary at all, so that the type
that follows starts with none; the loop that resets one prior primary is then enough. `NoStepBack` needs
`ElectionInv`: the greatest election that the description remembers is not before the newest one of any primary
that was taken; it outlives the reset and the close of the client. Only Single topologies are excepted, whose replies are
taken as they are.

**Topology.** `DeathCountsOnce` needs `BuriedInv`: a process that was gone when the pool was reset is gone for good, no idle connection leads
to it, and no thread on a connection to it has a current generation. So its errors are stale, whatever the server that
was started since has told the client. `NotPrimaryIsKept` needs
`ClaimsInv`: replies and errors under way all speak of the past of one server, and no two of them claim and deny of the
same version that it is the primary, because the server's counter moves whenever its role does; what they say of the
present version is true.

**Monitor.** `KnownInv`: a thread that lives is the one that the executor knows, so that `open` sees it. `ExitInv`: a thread
that has decided to exit has left word of it under the lock. `WakeInv` lets the event be clear while a wake is pending only where
the thread will look at its flags before it sleeps again. `ClosedInv`: while an RTT monitor lives beside a closed monitor, the monitor's own
thread is between the start of it and its second look at whether it was closed.

**Server selection.** The invariant is short (`SInv`: the types, one primary at most, and that a call that selected has
the result of `apply_selector`); the work is in the filters, and for `TagsInOrder` in what one leaves to the
next: a secondary that is up to date passes the filter by staleness, whatever the limit (`UpToDateStays`), so
that only tags can exclude it. Each keeps a subset of what it is given
(`CallKeeps`), so that whoever is chosen has passed all of them; and where the properties promise somebody,
a member is named that passes: the nearest of a set (`Near`), the secondary that has written last. That some
secondary has written last is an induction over the number of servers (`GreatestOf`). The library's induction theorems cannot be
used, since they take an operator as a parameter; but that the natural numbers are well founded
(`NatLessThanWellFounded`, `WFMin`) can be cited, and `LeastNatural` and `NaturalInduction` follow for
sets in place of predicates.

**Only model-checked:** liveness under fairness (`Recovers`, `Served`, `Ends`,
`Converges`, `WakeServed`), which is beyond the prover. Every invariant, action property and refinement of a
passing run is a theorem. `SleepAfterFailure`, and `WithinMaxPoolSize` with `MinPoolSize > 0`, are false (section 4).
The type invariants are proved and appear in no run.

## 6. What is left out

* A document that a cluster acknowledged stays: a rollback after a failover, and write
  concern 0, are not modelled. The connection string in `src/README.md:130` asks for
  `w=majority`, which excludes both; another host string may not.
* Response times, prints and the text of exceptions; the values that `faker` makes.
* Negative batch and array sizes. `range(0, -1)` is empty, so a negative batch size acts
  like 0.
* `UniqueIds` is about the numbers of one key. `ID` concatenates key and number, so two keys
  of which one extends the other by a digit could give equal strings; the templates
  use the one key `M-`.
* Identifiers of different worker processes: nothing is shared between them, and
  they do coincide.
* `FakeObj` of the custom loader and the fields of the mimesis schema: values that are read by
  nothing but MongoDB.
* *Not modelled: the master and scaling.* Heartbeats, missing workers and the procedure of
  `src/README.md:175` are about what locust's master counts, which is code that is not here. One thing
  can be read from `run.sh:43`: it starts locust without `exec`, so bash gets the SIGTERM of a
  pod that is removed and does not pass it on; a worker that is scaled away has no chance to take leave of
  its master, which is why the procedure scales both deployments to 0.
* *Not modelled: most of the eggs' lines.* They are conversions (BSON, wire messages, options, URIs, DNS
  names and record types, zone files), documentation, listeners, and API that no locustfile calls: gridfs, change
  streams, transactions, cursors beyond one batch, map-reduce, DDL, client-side encryption, asynchronous and DNSSEC code of
  dnspython. The state machines that a running load test goes through are those of section 3; the rest would be a
  transliteration of data formats, or a specification of code that the program does not run.
* *Not modelled: dnspython.* pymongo asks it for one SRV record; the result or the failure is `Lookup` and
  `on_srv_update` of `TopologyDescription`. The order in which the resolver asks nameservers changes nothing that a
  load test reports.
* The master's pod, which runs `run.sh` without the download.
* Of the modelled parts of the driver: sockets pinned to a transaction or cursor, load-balanced services, forks, authentication,
  write concern 0.
* In `Topology`, servers before 4.4, which send no topologyVersion: for them there is only the order in which replies and errors arrive, and
  `max_wire_version <= 7` resets the pool on each not primary error (`topology.py:625`). `DeathCountsOnce` is about
  errors of connections to a process that is gone, which the generation tells (`topology.py:578`); that a second not primary error of the
  *same* version changes nothing is the test at `topology.py:583-591`, which the module has and no property is about.
* A call to a server that goes silent without closing the connection: it lasts for ever (see Fairness).
* A second server in the retry of `BulkWrite`: `mongo_client.py:1468` raises the first server's error inside the `with` of the second one's
  connection, whose error handler takes it for an error of the second. The modules have one server each.
* Licences and the pipeline call in `flow.groovy`.
