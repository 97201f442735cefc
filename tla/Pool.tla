-------------------------------- MODULE Pool --------------------------------
(***************************************************************************)
(* The connection pool of one server: class Pool of pymongo's pool.py.     *)
(* Threads check a connection out for one operation each time; the         *)
(* maintainer, which is the client's periodic executor, drops idle         *)
(* connections and opens new ones up to minPoolSize; the topology resets   *)
(* the pool when the server fails and when the client is closed.           *)
(*                                                                         *)
(* An action is the code between two points where another thread may run   *)
(* and tell the difference: a section under the pool's lock, a step on the *)
(* semaphore, a network call.  In the loader the threads are greenlets     *)
(* that only switch at network calls and at the semaphore: theirs are some *)
(* of the interleavings below.  GreenletExit takes the error paths.        *)
(***************************************************************************)
EXTENDS Integers, Sequences, FiniteSets

CONSTANTS
  Threads,      \* the threads that run operations
  Maintainer,   \* the thread of the periodic executor
  MaxPoolSize,
  MinPoolSize,
  MaxOps,       \* bound on the operations of one thread, in BeginOp
  MaxRounds,    \* bound on the rounds of the maintainer, in BeginRound
  MaxResets,    \* bound on the resets of the monitor, in Reset
  None          \* Python's None

ASSUME PoolAssumption ==
  /\ MaxPoolSize \in Nat \ {0} /\ MinPoolSize \in 0 .. MaxPoolSize
  /\ Maintainer \notin Threads /\ IsFiniteSet(Threads)
  /\ None \notin [id : Nat, gen : Nat] /\ None \notin Threads
  /\ MaxOps \in Nat /\ MaxRounds \in Nat /\ MaxResets \in Nat

VARIABLES
  sem,      \* the value of _socket_semaphore
  active,   \* active_sockets
  sockets,  \* the deque of idle connections, its left end first
  gen,      \* the generation of the pool
  closed,   \* the pool is closed
  next,     \* next_connection_id
  open,     \* the connections that are open
  doomed,   \* those that a reset took out and that its thread will close
  pc,       \* where each thread is
  sock,     \* its sock_info
  ref,      \* reference_generation of the maintainer's round
  count     \* operations begun by each thread, rounds and resets

pool == <<sockets, gen, closed>>
vars == <<sem, active, pool, next, open, pc, sock, ref, count, doomed>>

Actors == Threads \cup {Maintainer}
Resetters == Threads \cup {None}  \* None: the monitor, or whoever else resets
SocketInfo == [id : Nat, gen : Nat]
Idle == {sockets[i] : i \in DOMAIN sockets}
Doomed == UNION {doomed[c] : c \in Resetters}

Init ==
  /\ sem = MaxPoolSize /\ active = 0
  /\ sockets = <<>> /\ gen = 0 /\ closed = FALSE
  /\ next = 1 /\ open = {} /\ doomed = [c \in Resetters |-> {}]
  /\ pc = [a \in Actors |-> "out"] /\ sock = [a \in Actors |-> None]
  /\ ref = 0
  /\ count = [a \in Actors \cup {None} |-> 0]

Goto(a, l) == pc' = [pc EXCEPT ![a] = l]
Hold(a, s) == sock' = [sock EXCEPT ![a] = s]
Tick(a) == count' = [count EXCEPT ![a] = @ + 1]
AppendLeft(s) == sockets' = <<s>> \o sockets

-----------------------------------------------------------------------------
(* _get_socket, get_socket and return_socket, by a thread t.               *)

\* Checking out of a closed pool raises at once.
BeginOp(t) ==
  /\ pc[t] = "out" /\ count[t] < MaxOps /\ Tick(t)
  /\ Goto(t, IF closed THEN "out" ELSE "wait")
  /\ UNCHANGED <<sem, active, pool, next, open, sock, ref, doomed>>

Acquire(t) ==
  /\ pc[t] = "wait" /\ sem > 0 /\ sem' = sem - 1
  /\ Goto(t, "count")
  /\ UNCHANGED <<active, pool, next, open, sock, ref, count, doomed>>

\* waitQueueTimeoutMS is over, or the greenlet is killed while it waits.
GiveUp(t) ==
  /\ pc[t] = "wait" /\ Goto(t, "out")
  /\ UNCHANGED <<sem, active, pool, next, open, sock, ref, count, doomed>>

Count(t) ==
  /\ pc[t] = "count" /\ active' = active + 1
  /\ Goto(t, "pop")
  /\ UNCHANGED <<sem, pool, next, open, sock, ref, count, doomed>>

PopLeft(t) ==
  /\ pc[t] = "pop"
  /\ \/ /\ sockets = <<>> /\ Goto(t, "connect")
        /\ UNCHANGED <<sockets, sock>>
     \/ /\ sockets # <<>> /\ Goto(t, "popped")
        /\ Hold(t, Head(sockets)) /\ sockets' = Tail(sockets)
  /\ UNCHANGED <<sem, active, gen, closed, next, open, ref, count, doomed>>

\* Faulty variant: a perished connection is dropped without a close.
PerishedNotClosed(t) ==
  /\ pc[t] = "popped"
  /\ \/ /\ sock[t].gen = gen /\ Goto(t, "use") /\ UNCHANGED sock
     \/ /\ Goto(t, "pop") /\ Hold(t, None)
  /\ UNCHANGED <<sem, active, pool, next, open, ref, count, doomed>>

\* The connection may also have been idle for too long, or have been closed
\* by the server.
Perished(t) ==
  /\ pc[t] = "popped"
  /\ \/ /\ sock[t].gen = gen /\ Goto(t, "use") /\ UNCHANGED <<open, sock>>
     \/ /\ open' = open \ {sock[t]} /\ Goto(t, "pop") /\ Hold(t, None)
  /\ UNCHANGED <<sem, active, pool, next, ref, count, doomed>>

\* The operation of the caller. An exception of the network closes the
\* connection before the handler sees it; one that the server answers with
\* leaves it open.
Use(t) ==
  /\ pc[t] = "use"
  /\ \/ Goto(t, "return") /\ UNCHANGED open
     \/ open' = open \ {sock[t]} /\ Goto(t, "handle")
     \/ Goto(t, "handle") /\ UNCHANGED open
  /\ UNCHANGED <<sem, active, pool, next, sock, ref, count, doomed>>

TakeOut(c) ==
  /\ sockets' = <<>> /\ doomed' = [doomed EXCEPT ![c] = @ \cup Idle]

\* Faulty variant of _reset: the generation stays.
ResetKeepsGeneration(c) == TakeOut(c) /\ UNCHANGED gen

\* The section of _reset under the lock, of a pool that is open.
_reset(c) == TakeOut(c) /\ gen' = gen + 1

\* After the unlock _reset closes what it took out.
CloseSocket(c) ==
  \E s \in doomed[c] :
    open' = open \ {s} /\ doomed' = [doomed EXCEPT ![c] = @ \ {s}]

\* handler.handle, the connection still checked out: the topology resets the
\* pool unless the error is stale or no sign of a failed server.
Handle(t) ==
  /\ pc[t] = "handle"
  /\ \/ sock[t].gen = gen /\ ~closed /\ _reset(t) /\ Goto(t, "closing")
     \/ Goto(t, "return") /\ UNCHANGED <<gen, sockets, doomed>>
  /\ UNCHANGED <<sem, active, closed, next, open, sock, ref, count>>

Closing(t) ==
  /\ pc[t] = "closing"
  /\ \/ CloseSocket(t) /\ UNCHANGED pc
     \/ doomed[t] = {} /\ Goto(t, "return") /\ UNCHANGED <<open, doomed>>
  /\ UNCHANGED <<sem, active, pool, next, sock, ref, count>>

\* The part of return_socket before the lock.
ReturnSocket(t) ==
  /\ pc[t] = "return"
  /\ \/ /\ closed \/ sock[t] \notin open
        /\ open' = open \ {sock[t]} /\ Goto(t, "release") /\ Hold(t, None)
     \/ /\ ~closed /\ sock[t] \in open /\ Goto(t, "checkin")
        /\ UNCHANGED <<open, sock>>
  /\ UNCHANGED <<sem, active, pool, next, ref, count, doomed>>

CheckIn(t) ==
  /\ pc[t] = "checkin" /\ Goto(t, "release") /\ Hold(t, None)
  /\ \/ sock[t].gen # gen /\ open' = open \ {sock[t]} /\ UNCHANGED sockets
     \/ sock[t].gen = gen /\ AppendLeft(sock[t]) /\ UNCHANGED open
  /\ UNCHANGED <<sem, active, gen, closed, next, ref, count, doomed>>

Release(t) ==
  /\ pc[t] = "release" /\ sem' = sem + 1
  /\ Goto(t, "uncount")
  /\ UNCHANGED <<active, pool, next, open, sock, ref, count, doomed>>

Uncount(t) ==
  /\ pc[t] = "uncount" /\ active' = active - 1
  /\ Goto(t, "out")
  /\ UNCHANGED <<sem, pool, next, open, sock, ref, count, doomed>>

-----------------------------------------------------------------------------
(* connect, by a thread or by the maintainer.                              *)

\* Where an exception in connect leads. Faulty variant: the permit is kept.
FailedKeepsPermit(a) == IF a = Maintainer THEN "last" ELSE "uncount"
Failed(a) == IF a = Maintainer THEN "last" ELSE "release"

\* The connection is opened, then takes the generation of that moment.
Connect(a) ==
  /\ pc[a] = "connect"
  /\ \/ LET s == [id |-> next, gen |-> gen] IN
          Hold(a, s) /\ open' = open \cup {s} /\ next' = next + 1
          /\ Goto(a, "hello")
     \/ Goto(a, Failed(a)) /\ UNCHANGED <<sock, open, next>>
  /\ UNCHANGED <<sem, active, pool, ref, count, doomed>>

\* hello and check_auth.
Hello(a) ==
  /\ pc[a] = "hello"
  /\ \/ Goto(a, IF a = Maintainer THEN "add" ELSE "use")
        /\ UNCHANGED <<open, sock>>
     \/ open' = open \ {sock[a]} /\ Hold(a, None) /\ Goto(a, Failed(a))
  /\ UNCHANGED <<sem, active, pool, next, ref, count, doomed>>

-----------------------------------------------------------------------------
(* Topology.update_pool, then remove_stale_sockets.                        *)
m == Maintainer

BeginRound ==
  /\ pc[m] = "out" /\ count[m] < MaxRounds /\ Tick(m)
  /\ ~closed /\ ref' = gen
  /\ Goto(m, "trim")
  /\ UNCHANGED <<sem, active, pool, next, open, sock, doomed>>

\* Those at the right end have been idle for the longest time.
Trim ==
  /\ pc[m] = "trim" /\ Goto(m, "check")
  /\ \E k \in 0 .. Len(sockets) :
       /\ sockets' = SubSeq(sockets, 1, k)
       /\ open' = open \ {sockets[i] : i \in k + 1 .. Len(sockets)}
  /\ UNCHANGED <<sem, active, gen, closed, next, sock, ref, count, doomed>>

CheckMin ==
  /\ pc[m] = "check"
  /\ Goto(m, IF Len(sockets) + active >= MinPoolSize THEN "out" ELSE "acquire")
  /\ UNCHANGED <<sem, active, pool, next, open, sock, ref, count, doomed>>

\* _socket_semaphore.acquire(False)
TryAcquire ==
  /\ pc[m] = "acquire"
  /\ \/ sem = 0 /\ Goto(m, "out") /\ UNCHANGED sem
     \/ sem > 0 /\ sem' = sem - 1 /\ Goto(m, "connect")
  /\ UNCHANGED <<active, pool, next, open, sock, ref, count, doomed>>

Add ==
  /\ pc[m] = "add" /\ Hold(m, None)
  /\ \/ /\ gen # ref /\ open' = open \ {sock[m]} /\ Goto(m, "last")
        /\ UNCHANGED sockets
     \/ /\ gen = ref /\ AppendLeft(sock[m]) /\ Goto(m, "again")
        /\ UNCHANGED open
  /\ UNCHANGED <<sem, active, gen, closed, next, ref, count, doomed>>

\* Faulty variant: the size of the pool is read once in a round.
MaintainerReleaseOnceChecked ==
  /\ pc[m] \in {"again", "last"} /\ sem' = sem + 1
  /\ Goto(m, IF pc[m] = "again" THEN "acquire" ELSE "out")
  /\ UNCHANGED <<active, pool, next, open, sock, ref, count, doomed>>

\* The finally clause, in a turn of the loop that goes on or in the last one.
MaintainerRelease ==
  /\ pc[m] \in {"again", "last"} /\ sem' = sem + 1
  /\ Goto(m, IF pc[m] = "again" THEN "check" ELSE "out")
  /\ UNCHANGED <<active, pool, next, open, sock, ref, count, doomed>>

-----------------------------------------------------------------------------
\* A check of the monitor failed, or a connect of the maintainer or of a
\* checkout did.
Reset ==
  /\ count[None] < MaxResets /\ Tick(None) /\ ~closed /\ _reset(None)
  /\ UNCHANGED <<sem, active, closed, next, open, pc, sock, ref>>

\* Pool.close. The client's own close only resets its pools; nothing refers to
\* a closed one but the operations and the round under way.
Close ==
  /\ ~closed /\ closed' = TRUE /\ _reset(None)
  /\ UNCHANGED <<sem, active, next, open, pc, sock, ref, count>>

CloseTakenOut ==
  /\ CloseSocket(None)
  /\ UNCHANGED <<sem, active, pool, next, pc, sock, ref, count>>

Step(t) ==
  \/ Acquire(t) \/ Count(t) \/ PopLeft(t) \/ Perished(t) \/ Connect(t)
  \/ Hello(t) \/ Use(t) \/ Handle(t) \/ Closing(t) \/ ReturnSocket(t)
  \/ CheckIn(t) \/ Release(t) \/ Uncount(t)
Round ==
  \/ Trim \/ CheckMin \/ TryAcquire \/ Connect(m) \/ Hello(m) \/ Add
  \/ MaintainerRelease

Next ==
  \/ \E t \in Threads : BeginOp(t) \/ GiveUp(t) \/ Step(t)
  \/ BeginRound \/ Round \/ Reset \/ Close \/ CloseTakenOut

Spec == Init /\ [][Next]_vars

\* Every call on the network ends, with an answer or an error, and every
\* thread that can run does run.
Fairness == WF_vars(Round) /\ \A t \in Threads : WF_vars(Step(t))
FairSpec == Spec /\ Fairness

-----------------------------------------------------------------------------
TypeOK ==
  /\ sem \in 0 .. MaxPoolSize /\ active \in 0 .. Cardinality(Threads)
  /\ sockets \in Seq(SocketInfo) /\ gen \in Nat /\ closed \in BOOLEAN
  /\ next \in Nat /\ open \subseteq SocketInfo /\ ref \in Nat
  /\ pc \in [Actors ->
       {"out", "wait", "count", "pop", "popped", "connect", "hello", "use",
        "handle", "closing", "return", "checkin", "release", "uncount",
        "trim", "check", "acquire", "add", "again", "last"}]
  /\ sock \in [Actors -> SocketInfo \cup {None}]
  /\ count \in [Actors \cup {None} -> Nat]
  /\ doomed \in [Resetters -> SUBSET SocketInfo]

\* A connection that is open has exactly one owner: it is once in the deque,
\* or one thread has it checked out, or one reset has taken it out and will
\* close it. So no connection is leaked on a path through return_socket,
\* _perished, connect or _reset, none is used by two threads, and none is
\* closed by a reset while a thread uses it.
OneOwner ==
  /\ open \subseteq Idle \cup {sock[a] : a \in Actors} \cup Doomed
  /\ Idle \cup Doomed \subseteq open /\ Idle \cap Doomed = {}
  /\ \A i, j \in DOMAIN sockets : sockets[i] = sockets[j] => i = j
  /\ \A a \in Actors : sock[a] # None =>
       /\ sock[a] \notin Idle \cup Doomed
       /\ \A b \in Actors : sock[b] = sock[a] => b = a
  /\ \A c, d \in Resetters : c # d => doomed[c] \cap doomed[d] = {}

\* The deque holds nothing that was opened before the last reset, and nothing
\* at all once the pool is closed, whichever way the resets fall between the
\* unlocked and the locked part of return_socket, or into a round of the
\* maintainer.
IdleIsCurrent ==
  /\ \A s \in Idle : s.gen = gen
  /\ closed => sockets = <<>>

\* When no operation and no round is under way, every permit of the semaphore
\* is back and active_sockets is 0, whatever failed in between.
Restored ==
  (\A a \in Actors : pc[a] \in {"out", "wait"})
     => sem = MaxPoolSize /\ active = 0

\* Whatever the threads, the maintainer and the resets do, the pool has at
\* most maxPoolSize connections besides those that a reset still has to close,
\* and, when minPoolSize is not 0, one more: the maintainer's look at the size
\* of the pool is stale when it adds a connection, but not twice.
AtMostOneMore ==
  Cardinality(open \ Doomed)
    <= MaxPoolSize + (IF MinPoolSize = 0 THEN 0 ELSE 1)

\* mongo_client.py on maxPoolSize: "The maximum allowable number of concurrent
\* connections to each connected server." Those that a reset still has to
\* close are not held against it here.
WithinMaxPoolSize == Cardinality(open \ Doomed) <= MaxPoolSize

\* An operation that waits for a connection gets one or gives up: no failure
\* of another one keeps its permit for good.
Served == \A t \in Threads : pc[t] = "wait" ~> pc[t] = "out"
=============================================================================
