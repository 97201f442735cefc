------------------------------- MODULE Monitor -------------------------------
(***************************************************************************)
(* The threads behind one monitored server: the PeriodicExecutor of its    *)
(* Monitor and the one of the _RttMonitor that the monitor starts once the *)
(* server streams its replies (periodic_executor.py, monitor.py of         *)
(* pymongo). The topology, under its lock, opens and closes the Monitor;   *)
(* when the topology is collected the monitor is closed without any lock.  *)
(*                                                                         *)
(* The flags of an executor are read and written without its lock but in   *)
(* open, __should_stop and the exception path of _run.                     *)
(***************************************************************************)
EXTENDS Naturals

CONSTANT Thread  \* thread objects; one is used again when its thread is dead

Executors == {"server", "rtt"}

VARIABLES
  stopped, exit,  \* _stopped and _thread_will_exit of each executor
  event, skip,    \* its _event and _skip_sleep
  thread,         \* its _thread; {} for None
  pc,             \* where each thread of each executor is
  topology,       \* where the topology is in its calls of open and close
  collected,      \* it is garbage
  pending         \* history: a wake since the target began to run last

flags == <<stopped, exit, event, skip>>
vars == <<flags, thread, pc, topology, collected, pending>>

Init ==
  /\ stopped = [e \in Executors |-> FALSE] /\ exit = [e \in Executors |-> FALSE]
  /\ event = [e \in Executors |-> FALSE] /\ skip = [e \in Executors |-> FALSE]
  /\ thread = [e \in Executors |-> {}]
  /\ pc = [e \in Executors |-> [k \in Thread |-> "dead"]]
  /\ topology = "closed" /\ collected = FALSE
  /\ pending = [e \in Executors |-> FALSE]

Goto(e, k, l) == pc' = [pc EXCEPT ![e][k] = l]
Live(e, k) == pc[e][k] # "dead"

-----------------------------------------------------------------------------
(* PeriodicExecutor.open, by the only thread that opens e.                 *)

\* The part under the lock: a thread that will exit is waited for.
OpenLock(e) ==
  /\ exit[e] => \A k \in thread[e] : ~Live(e, k)
  /\ exit' = [exit EXCEPT ![e] = FALSE]
  /\ stopped' = [stopped EXCEPT ![e] = FALSE]

\* Faulty variant: no look at the thread that is there.
OpenStartAnyway(e, now) ==
  \E k \in Thread :
    /\ ~Live(e, k) /\ thread' = [thread EXCEPT ![e] = {k}]
    /\ pc' = [now EXCEPT ![e][k] = "check"]

\* The part after it. now is pc with the opener's own step in it.
OpenStart(e, now) ==
  IF \E k \in thread[e] : Live(e, k) THEN pc' = now /\ UNCHANGED thread
  ELSE \E k \in Thread :
         /\ ~Live(e, k) /\ thread' = [thread EXCEPT ![e] = {k}]
         /\ pc' = [now EXCEPT ![e][k] = "check"]

Stop(e) == stopped' = [stopped EXCEPT ![e] = TRUE]

wake(e) ==
  /\ event' = [event EXCEPT ![e] = TRUE] /\ pending' = [pending EXCEPT ![e] = TRUE]
  /\ UNCHANGED <<stopped, exit, skip, thread, pc, topology, collected>>

-----------------------------------------------------------------------------
(* PeriodicExecutor._run                                                   *)

\* Faulty variant: nobody is told that the thread will exit.
__should_stopSilent(e, k) ==
  /\ pc[e][k] = "check"
  /\ IF stopped[e] THEN Goto(e, k, "exit") /\ UNCHANGED pending
     ELSE Goto(e, k, "target") /\ pending' = [pending EXCEPT ![e] = FALSE]
  /\ UNCHANGED <<flags, thread, topology, collected>>

__should_stop(e, k) ==
  /\ pc[e][k] = "check"
  /\ IF stopped[e]
     THEN /\ exit' = [exit EXCEPT ![e] = TRUE] /\ Goto(e, k, "exit")
          /\ UNCHANGED pending
     ELSE /\ Goto(e, k, "target") /\ pending' = [pending EXCEPT ![e] = FALSE]
          /\ UNCHANGED exit
  /\ UNCHANGED <<stopped, event, skip, thread, topology, collected>>

\* What is no Exception leaves _target: _run catches it, and raises it again.
Raises(e, k) ==
  /\ pc[e][k] = "target" /\ Goto(e, k, "exit")
  /\ Stop(e) /\ exit' = [exit EXCEPT ![e] = TRUE]
  /\ UNCHANGED <<event, skip, thread, topology, collected, pending>>

\* The target returns False: its monitor was freed with the topology, and with
\* the monitor its _RttMonitor, when no thread was in it. Nobody is left to look
\* at the executor, so that the end of its thread is in this step.
Freed(e, k) ==
  /\ pc[e][k] = "target" /\ collected /\ topology = "closed"
  /\ \A j \in Thread :
       pc["server"][j] \notin {"rtt_open", "rtt_start", "recheck", "close_rtt"}
  /\ Goto(e, k, "dead") /\ Stop(e)
  /\ UNCHANGED <<exit, event, skip, thread, topology, collected, pending>>

Exit(e, k) ==
  /\ pc[e][k] = "exit" /\ Goto(e, k, "dead")
  /\ UNCHANGED <<flags, thread, topology, collected, pending>>

\* Faulty variant: the wakes are forgotten before the sleep.
AfterClears(e, k) ==
  /\ pc[e][k] = "after" /\ Goto(e, k, IF skip[e] THEN "check" ELSE "sleep")
  /\ skip' = [skip EXCEPT ![e] = FALSE] /\ event' = [event EXCEPT ![e] = FALSE]
  /\ UNCHANGED <<stopped, exit, thread, topology, collected, pending>>

After(e, k) ==
  /\ pc[e][k] = "after" /\ Goto(e, k, IF skip[e] THEN "clear" ELSE "sleep")
  /\ skip' = [skip EXCEPT ![e] = FALSE]
  /\ UNCHANGED <<stopped, exit, event, thread, topology, collected, pending>>

\* The naps end at the deadline, or after the first one that finds _event set
\* or is followed by a close.
Sleep(e, k) ==
  /\ pc[e][k] = "sleep" /\ Goto(e, k, "clear")
  /\ UNCHANGED <<flags, thread, topology, collected, pending>>

Clear(e, k) ==
  /\ pc[e][k] = "clear" /\ Goto(e, k, "check")
  /\ event' = [event EXCEPT ![e] = FALSE]
  /\ UNCHANGED <<stopped, exit, skip, thread, topology, collected, pending>>

-----------------------------------------------------------------------------
(* The targets.                                                            *)

\* _RttMonitor._run
Ping(k) ==
  /\ pc["rtt"][k] = "target" /\ Goto("rtt", k, "after")
  /\ UNCHANGED <<flags, thread, topology, collected, pending>>

\* Monitor._run up to on_change: the server streams; or the check failed, was
\* cancelled or polls, with or without a sleep before the next one.
Checked(k) ==
  /\ pc["server"][k] = "target" /\ ~collected
  /\ \/ Goto("server", k, "rtt_open") /\ UNCHANGED skip
     \/ /\ Goto("server", k, "after")
        /\ \E s \in BOOLEAN : skip' = [skip EXCEPT !["server"] = s]
  /\ UNCHANGED <<stopped, exit, event, thread, topology, collected, pending>>

\* ReferenceError: the topology is gone, the monitor closes itself.
CloseSelf(k) ==
  /\ \/ /\ pc["server"][k] = "target" /\ collected
        /\ Stop("server") /\ Goto("server", k, "close_rtt")
     \/ /\ pc["server"][k] = "close_rtt"
        /\ Stop("rtt") /\ Goto("server", k, "after")
  /\ UNCHANGED <<exit, event, skip, thread, topology, collected, pending>>

\* _start_rtt_monitor
RttLock(k) ==
  /\ pc["server"][k] = "rtt_open" /\ OpenLock("rtt")
  /\ Goto("server", k, "rtt_start")
  /\ UNCHANGED <<event, skip, thread, topology, collected, pending>>

RttStart(k) ==
  /\ pc["server"][k] = "rtt_start"
  /\ OpenStart("rtt", [pc EXCEPT !["server"][k] = "recheck"])
  /\ UNCHANGED <<flags, topology, collected, pending>>

\* Faulty variant: _stopped is not read again.
RecheckNot(k) ==
  /\ pc["server"][k] = "recheck" /\ Goto("server", k, "after")
  /\ skip' = [skip EXCEPT !["server"] = TRUE]
  /\ UNCHANGED <<stopped, exit, event, thread, topology, collected, pending>>

Recheck(k) ==
  /\ pc["server"][k] = "recheck" /\ Goto("server", k, "after")
  /\ IF stopped["server"] THEN Stop("rtt") ELSE UNCHANGED stopped
  /\ skip' = [skip EXCEPT !["server"] = TRUE]
  /\ UNCHANGED <<exit, event, thread, topology, collected, pending>>

-----------------------------------------------------------------------------
(* The topology.                                                           *)

open ==
  /\ topology \in {"closed", "open"} /\ ~collected
  /\ OpenLock("server") /\ topology' = "opening"
  /\ UNCHANGED <<event, skip, thread, pc, collected, pending>>
opened ==
  /\ topology = "opening" /\ topology' = "open"
  /\ OpenStart("server", pc)
  /\ UNCHANGED <<flags, collected, pending>>

\* close, or gc_safe_close when the topology is collected, which is close
\* without the second look at the _RttMonitor.
close ==
  /\ topology \in {"open", "closed"} /\ ~collected
  /\ Stop("server") /\ topology' = "close_rtt" /\ collected' \in BOOLEAN
  /\ UNCHANGED <<exit, event, skip, thread, pc, pending>>
closed ==
  /\ \/ topology = "close_rtt"
        /\ topology' = (IF collected THEN "closed" ELSE "close_rtt_again")
     \/ topology = "close_rtt_again" /\ topology' = "closed"
  /\ Stop("rtt")
  /\ UNCHANGED <<exit, event, skip, thread, pc, collected, pending>>

ThreadStep(e, k) ==
  __should_stop(e, k) \/ Exit(e, k) \/ After(e, k) \/ Sleep(e, k) \/ Clear(e, k)
Check(k) ==
  Checked(k) \/ CloseSelf(k) \/ RttLock(k) \/ RttStart(k) \/ Recheck(k)

Next ==
  \/ \E k \in Thread : Check(k) \/ Ping(k)
       \/ \E e \in Executors : ThreadStep(e, k) \/ Raises(e, k) \/ Freed(e, k)
  \/ open \/ opened \/ close \/ closed
  \/ wake("server")

Spec == Init /\ [][Next]_vars

\* Threads run, the calls of the targets on the network end, and so do calls
\* of open and close that have begun.
FairSpec ==
  /\ Spec /\ WF_vars(opened \/ closed)
  /\ \A k \in Thread : /\ WF_vars(Check(k)) /\ WF_vars(Ping(k))
                       /\ \A e \in Executors : WF_vars(ThreadStep(e, k))

-----------------------------------------------------------------------------
Opening(e) ==
  \/ e = "server" /\ topology = "opening"
  \/ e = "rtt" /\ \E k \in Thread : pc["server"][k] = "rtt_start"

\* open, "Multiple calls have no effect": however opens and closes meet the
\* exit of a thread, an executor has at most one thread; and one that was opened
\* and not stopped since has one, which has not already decided to exit (the
\* comment in open on the join).
OneThread ==
  \A e \in Executors :
    /\ \A j, k \in Thread : Live(e, j) /\ Live(e, k) => j = k
    /\ thread[e] # {} /\ ~stopped[e] /\ ~Opening(e)
         => \E k \in Thread : pc[e][k] \notin {"dead", "exit"}

\* wake, "Execute the target function soon": a thread that sleeps while a wake
\* has not been answered has _event set, so that its next nap is the last one.
WakeNotLost ==
  \A e \in Executors, k \in Thread :
    pending[e] /\ pc[e][k] = "sleep" => event[e]

\* _start_rtt_monitor, "Checking if this monitor was closed directly after
\* resolves the race": once a monitor is closed and its thread is gone, its
\* _RttMonitor is closed too.
RttFollows ==
  topology = "closed" /\ (\A k \in Thread : ~Live("server", k))
    => stopped["rtt"] \/ thread["rtt"] = {}

\* Every wake is followed by a run of the target, unless the executor stops.
WakeServed == pending["server"] /\ topology = "open"
                ~> ~pending["server"] \/ stopped["server"]
=============================================================================
