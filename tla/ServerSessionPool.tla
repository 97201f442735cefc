-------------------------- MODULE ServerSessionPool --------------------------
(***************************************************************************)
(* The server sessions of one client: _ServerSessionPool and               *)
(* _ServerSession of pymongo's client_session.py, as the topology and      *)
(* MongoClient._tmp_session use them. An operation of a thread borrows a   *)
(* session. Its commands are reads, or retryable writes, which draw the    *)
(* session's next transaction number first, and send whatever number the   *)
(* session has by the time the command is written, and again if they are   *)
(* retried. The session goes back unless it is dirty or too old.           *)
(***************************************************************************)
EXTENDS Naturals, Sequences, FiniteSets

CONSTANTS
  Threads,
  Live,         \* logicalSessionTimeoutMinutes less the last minute
  MaxTime,      \* bound on the clock, in Tick
  MaxSessions,  \* bound on the sessions created, in get_server_session
  MaxCommands,  \* bound on the retryable writes, in _start_retryable_write
  None          \* Python's None

ASSUME SessionAssumption ==
  /\ Live \in Nat
  /\ MaxTime \in Nat /\ MaxSessions \in Nat /\ MaxCommands \in Nat
  /\ None \notin Nat

VARIABLES
  now,          \* the monotonic clock
  timeout,      \* the deployment reports a session timeout: there is a
                \* data-bearing server that the client knows of
  pool,         \* the deque of idle sessions, its left end first
  created,      \* the sessions created are 1 .. created
  last_use, transaction_id, dirty,  \* of each session
  held,         \* the session that each thread has borrowed
  write,        \* the retryable write that each thread is at, by its place
                \* among all of them; 0 for another command, or none
  tries,        \* how often it was tried; 2 if it must not be tried again
  waiting,      \* the threads that wait for the reply of a command
  outstanding,  \* sessions with a command the server may still execute
  exited,       \* history: sessions whose user was killed during a command
  used,         \* history: what was sent: session, number and write
  commands      \* how many retryable writes were started

session == <<last_use, transaction_id, dirty>>
place == <<held, write, tries>>
wire == <<waiting, outstanding, exited, used>>
vars == <<now, timeout, pool, created, session, place, wire, commands>>

Ids == 1 .. MaxSessions

Init ==
  /\ now = 0 /\ timeout = TRUE /\ pool = <<>> /\ created = 0
  /\ last_use = [s \in Ids |-> 0] /\ transaction_id = [s \in Ids |-> 0]
  /\ dirty = [s \in Ids |-> FALSE]
  /\ held = [t \in Threads |-> None]
  /\ write = [t \in Threads |-> 0] /\ tries = [t \in Threads |-> 0]
  /\ waiting = {} /\ outstanding = {} /\ exited = {}
  /\ used = {} /\ commands = 0

timed_out(s) == now - last_use[s] > Live

\* How many are left: those at the right end are dropped, up to one that has
\* not timed out.
_clear_stale ==
  {n \in 0 .. Len(pool) : /\ n # 0 => ~timed_out(pool[n])
                          /\ \A i \in n + 1 .. Len(pool) : timed_out(pool[i])}

-----------------------------------------------------------------------------
New(t) ==
  /\ created < MaxSessions /\ created' = created + 1
  /\ last_use' = [last_use EXCEPT ![created'] = now]
  /\ held' = [held EXCEPT ![t] = created']

\* Faulty variant: the session that is handed out stays in the pool.
get_server_session_kept(t) ==
  /\ held[t] = None /\ timeout
  /\ LET live == {i \in DOMAIN pool : ~timed_out(pool[i])} IN
       \/ /\ live = {} /\ New(t) /\ pool' = <<>>
       \/ \E i \in live, n \in _clear_stale :
            /\ \A j \in live : i <= j
            /\ held' = [held EXCEPT ![t] = pool[i]]
            /\ pool' = SubSeq(pool, i, n)
            /\ UNCHANGED <<created, last_use>>
  /\ UNCHANGED <<now, timeout, transaction_id, dirty, write, tries, wire, commands>>

\* The first session from the left that has not timed out, or a new one.
\* Without a timeout in the description the call waits for a server.
get_server_session(t) ==
  /\ held[t] = None /\ timeout
  /\ LET live == {i \in DOMAIN pool : ~timed_out(pool[i])} IN
       \/ /\ live = {} /\ New(t) /\ pool' = <<>>
       \/ \E i \in live, n \in _clear_stale :
            /\ \A j \in live : i <= j
            /\ held' = [held EXCEPT ![t] = pool[i]]
            /\ pool' = SubSeq(pool, i + 1, n)
            /\ UNCHANGED <<created, last_use>>
  /\ UNCHANGED <<now, timeout, transaction_id, dirty, write, tries, wire, commands>>

Free(t) == held[t] # None /\ t \notin waiting

\* Before a server is selected. The number stays with the session.
_start_retryable_write(t) ==
  /\ Free(t) /\ write[t] = 0 /\ tries[t] = 0 /\ commands < MaxCommands
  /\ commands' = commands + 1
  /\ write' = [write EXCEPT ![t] = commands']
  /\ transaction_id' = [transaction_id EXCEPT ![held[t]] = @ + 1]
  /\ UNCHANGED <<now, timeout, pool, created, last_use, dirty, held, tries, wire>>

\* The session, and with it the number, is read when the command is written:
\* a connection was checked out in the meantime. The first attempt may
\* find a server without retryable writes: no number, and no second attempt.
_apply_to(t) ==
  LET s == held[t] IN
  /\ Free(t) /\ tries[t] < 2
  /\ last_use' = [last_use EXCEPT ![s] = now]
  /\ waiting' = waiting \cup {t} /\ outstanding' = outstanding \cup {s}
  /\ \/ /\ tries' = [tries EXCEPT ![t] = @ + 1] /\ UNCHANGED write
        /\ used' = (IF write[t] = 0 THEN used
                    ELSE used \cup {<<s, transaction_id[s], write[t]>>})
     \/ /\ write[t] # 0 /\ tries[t] = 0
        /\ write' = [write EXCEPT ![t] = 0] /\ tries' = [tries EXCEPT ![t] = 2]
        /\ UNCHANGED used
  /\ UNCHANGED <<now, timeout, pool, created, transaction_id, dirty, held, exited,
                 commands>>

\* The server has answered: the next command may follow, or, after an error
\* that allows it, another attempt. Of a dirty session an earlier
\* command may still be out.
Reply(t) ==
  /\ t \in waiting /\ waiting' = waiting \ {t}
  /\ outstanding' = (IF dirty[held[t]] THEN outstanding
                     ELSE outstanding \ {held[t]})
  /\ \/ write' = [write EXCEPT ![t] = 0] /\ tries' = [tries EXCEPT ![t] = 0]
     \/ UNCHANGED <<write, tries>>
  /\ UNCHANGED <<now, timeout, pool, created, session, held, exited, used,
                 commands>>

\* Faulty variant: mark_dirty left out.
NetworkErrorClean(t) ==
  /\ t \in waiting /\ waiting' = waiting \ {t}
  /\ UNCHANGED <<now, timeout, pool, created, session, place, outstanding, exited,
                 used, commands>>

\* A ConnectionFailure: the handler marks the session. The operation may
\* try again with it before it gives it back.
NetworkError(t) ==
  /\ t \in waiting /\ waiting' = waiting \ {t}
  /\ dirty' = [dirty EXCEPT ![held[t]] = TRUE]
  /\ UNCHANGED <<now, timeout, pool, created, last_use, transaction_id, place,
                 outstanding, exited, used, commands>>

\* No server is found, or the connection fails before the command is sent:
\* the session is marked all the same.
NotSent(t) ==
  /\ Free(t) /\ tries[t] < 2 /\ tries' = [tries EXCEPT ![t] = @ + 1]
  /\ dirty' = [dirty EXCEPT ![held[t]] = TRUE]
  /\ UNCHANGED <<now, timeout, pool, created, last_use, transaction_id, held, write,
                 wire, commands>>

\* Dirty sessions are discarded.
return_server_session_no_lock(s, q) == IF dirty[s] THEN q ELSE <<s>> \o q

\* Faulty variant: the thread keeps its reference to the session.
end_session_keeps(t, lock) ==
  /\ Free(t) /\ pool' = return_server_session_no_lock(held[t], pool)
  /\ UNCHANGED <<now, timeout, created, session, place, wire, commands>>

\* end_session. A cursor's __del__ cannot take the lock.
end_session(t, lock) ==
  LET s == held[t] IN
  /\ Free(t) /\ held' = [held EXCEPT ![t] = None]
  /\ write' = [write EXCEPT ![t] = 0] /\ tries' = [tries EXCEPT ![t] = 0]
  /\ \E n \in IF lock /\ timeout THEN _clear_stale ELSE {Len(pool)} :
       LET left == SubSeq(pool, 1, n) IN
       pool' = IF lock /\ timeout /\ timed_out(s) THEN left
               ELSE return_server_session_no_lock(s, left)
  /\ UNCHANGED <<now, timeout, created, session, wire, commands>>

\* GreenletExit is no ConnectionFailure: the session is not marked.
Kill(t) ==
  /\ t \in waiting /\ waiting' = waiting \ {t}
  /\ exited' = exited \cup {held[t]} /\ tries' = [tries EXCEPT ![t] = 2]
  /\ UNCHANGED <<now, timeout, pool, created, session, held, write, outstanding,
                 used, commands>>

\* MongoClient.close.
pop_all == pool # <<>> /\ pool' = <<>>
           /\ UNCHANGED <<now, timeout, created, session, place, wire, commands>>

\* The topology description changes.
Describe == timeout' = ~timeout
            /\ UNCHANGED <<now, pool, created, session, place, wire, commands>>

Tick == now < MaxTime /\ now' = now + 1
        /\ UNCHANGED <<timeout, pool, created, session, place, wire, commands>>

Next ==
  \/ \E t \in Threads :
       \/ get_server_session(t) \/ _start_retryable_write(t) \/ _apply_to(t)
       \/ Reply(t) \/ NetworkError(t) \/ NotSent(t) \/ Kill(t)
       \/ \E lock \in BOOLEAN : end_session(t, lock)
  \/ pop_all \/ Describe \/ Tick

Spec == Init /\ [][Next]_vars

-----------------------------------------------------------------------------
TypeOK ==
  /\ now \in Nat /\ timeout \in BOOLEAN
  /\ created \in 0 .. MaxSessions /\ pool \in Seq(1 .. created)
  /\ last_use \in [Ids -> Nat] /\ transaction_id \in [Ids -> Nat]
  /\ dirty \in [Ids -> BOOLEAN]
  /\ held \in [Threads -> 1 .. created \cup {None}]
  /\ write \in [Threads -> Nat] /\ tries \in [Threads -> 0 .. 2]
  /\ waiting \subseteq {t \in Threads : held[t] # None}
  /\ outstanding \subseteq 1 .. created
  /\ exited \subseteq 1 .. created
  /\ used \subseteq (1 .. created) \X Nat \X Nat /\ commands \in Nat

Pooled == {pool[i] : i \in DOMAIN pool}

\* A session is borrowed by one thread at a time, and is not in the pool, nor
\* twice in it, while it is borrowed.
Exclusive ==
  /\ \A i, j \in DOMAIN pool : pool[i] = pool[j] => i = j
  /\ \A t \in Threads : held[t] # None =>
       /\ held[t] \notin Pooled
       /\ \A u \in Threads : held[u] = held[t] => u = t

\* A write is sent under one number of one session, also when it is sent
\* again, and no other write is sent under that: what the server remembers
\* of a number is of one command. The number is drawn before a server is
\* selected and read after it, so it rests on nobody else having the session
\* in the meantime. BulkWrite takes it for granted.
OneNumberEach ==
  \A p, q \in used : p[1] = q[1] /\ p[2] = q[2] <=> p[3] = q[3]

\* mark_dirty, "Dirty sessions are later discarded": a session in the pool has
\* no command that the server may still execute, unless its user was killed.
QuietInPool == Pooled \cap outstanding \subseteq exited

=============================================================================
