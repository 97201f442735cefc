------------------------------- MODULE Mimesis -------------------------------
(***************************************************************************)
(* locustfile-mimesis.py: the loader of MetricsLocust with the schema that *)
(* the users of a worker process share. Its increment numbers the          *)
(* documents ("pk"), and moves on with each document that is generated,    *)
(* whether it is sent or not; __init__ generates a batch of its own. The   *)
(* number is lost when the process is: the module adds the restart of a    *)
(* worker to the faults of MetricsLocust.                                  *)
(***************************************************************************)
EXTENDS MetricsLocust

CONSTANTS
  Workers,     \* the worker processes
  Of,          \* Of[u]: the process in which the user slot u is
  MaxRestarts  \* bound on the restarts of a process, in Restart

\* The file is that of an unordered loader: Loads = Hosts and Ordered = {}, as
\* MCWorker has them. Nothing below depends on it.
ASSUME MimesisAssumption == Of \in [Users -> Workers] /\ MaxRestarts \in Nat

VARIABLES
  increment,  \* what _("increment") returned last, in each process
  life,       \* restarts of each process
  batches     \* history: the batches sent, with the numbers they carry

mvars == <<vars, increment, life, batches>>

\* The generators of two lives of a process have nothing in common.
Generator(u) == <<Of[u], life[Of[u]]>>
Sent == [task : Task, by : Workers \X Nat, from : Nat, size : Nat]
pk(b) == b.from + 1 .. b.from + b.size

MInit ==
  /\ Init
  /\ increment = [w \in Workers |-> 0] /\ life = [w \in Workers |-> 0]
  /\ batches = {}

\* k documents are generated. No greenlet runs in between.
create(u, k) == increment' = [increment EXCEPT ![Of[u]] = @ + k]

\* schema.create(iterations=self.bulk_size), and what it returns is dropped.
Loader__init__(u) ==
  /\ __init__(u) /\ create(u, BulkSize[Host])
  /\ UNCHANGED <<life, batches>>

\* Before the batch, or in the middle of it.
Loader__init__Raises(u) ==
  /\ __init__Raises(u)
  /\ \E k \in 0 .. BulkSize[Host] : create(u, k)
  /\ UNCHANGED <<life, batches>>

\* Faulty variant: the numbers of a batch are taken when it is sent, from the
\* last one that was sent.
Loader_bulkinsertLate(u) ==
  /\ _bulkinsert(u)
  /\ batches' = (IF pc'[u] = "call"
                 THEN batches \cup {[task |-> task'[u], by |-> Generator(u),
                                     from |-> increment[Of[u]],
                                     size |-> self[u].bulk_size]}
                 ELSE batches)
  /\ \E k \in 0 .. self[u].bulk_size : create(u, k)
  /\ UNCHANGED life

\* schema*self.bulk_size, then insert_many; an exception of the schema leaves
\* what was generated before it.
Loader_bulkinsert(u) ==
  /\ _bulkinsert(u)
  /\ \/ /\ pc'[u] = "call" /\ create(u, self[u].bulk_size)
        /\ batches' = batches \cup
             {[task |-> task'[u], by |-> Generator(u),
               from |-> increment[Of[u]], size |-> self[u].bulk_size]}
     \/ /\ pc'[u] = "audit"
        /\ \E k \in 0 .. self[u].bulk_size : create(u, k)
        /\ UNCHANGED batches
  /\ UNCHANGED life

\* The worker is killed and started anew: its users are gone, what they sent is
\* not called back.
Restart(w) ==
  LET gone == {u \in Users : Of[u] = w} IN
  /\ life[w] < MaxRestarts /\ life' = [life EXCEPT ![w] = @ + 1]
  /\ increment' = [increment EXCEPT ![w] = 0]
  /\ pc' = [u \in Users |-> IF u \in gone THEN "none" ELSE pc[u]]
  /\ killed' = killed \cup {task[u] : u \in {v \in gone : pc[v] = "call"}}
  /\ UNCHANGED <<tests, running, self, n, task, requests, mongo, begun, batches>>

Other ==
  /\ \/ \E h \in Hosts : StartTest(h)
     \/ StopTest
     \/ \E u \in Users : \/ CallReturns(u) \/ CallRaises(u) \/ AuditReturns(u)
                         \/ AuditRaises(u) \/ SleepEnds(u) \/ Kill(u)
     \/ \E d \in flight : Store(d) \/ Reject(d) \/ Lose(d)
     \/ \E a \in auditing : DecideAudit(a)
  /\ UNCHANGED <<increment, life, batches>>

MNext ==
  \/ \E u \in Users :
       Loader__init__(u) \/ Loader__init__Raises(u) \/ Loader_bulkinsert(u)
  \/ \E w \in Workers : Restart(w)
  \/ Other

MSpec == MInit /\ [][MNext]_mvars

-----------------------------------------------------------------------------
MTypeOK ==
  /\ TypeOK
  /\ increment \in [Workers -> Nat] /\ life \in [Workers -> Nat]
  /\ batches \subseteq Sent

\* Two documents with the same pk were generated by different processes, or
\* before and after a restart of one: the increment is shared by the users of
\* a process, and no batch that failed, was thrown away or is still on its way
\* when another user or the next test goes on, gives its numbers back. (The
\* comment on the schema, locustfile-mimesis.py:51, says that the increment
\* "doesn't maintain unique sequence numbers if you are running multiple mlocust
\* users in parallel". That is so for users of two processes, which two
\* generators make equal numbers for, and not for users of one.)
UniqueInProcess ==
  /\ \A d \in flight \cup coll :
       \E b \in batches : b.task = d.task /\ d.no \in 1 .. b.size
  /\ \A b, c \in batches : b.by = c.by /\ b # c => pk(b) \cap pk(c) = {}

=============================================================================
