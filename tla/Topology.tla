------------------------------ MODULE Topology ------------------------------
(***************************************************************************)
(* What a client believes about one server, between two sources: its       *)
(* Monitor (monitor.py), whose hello replies arrive late, and the errors   *)
(* of operations, which topology.py handles as hints that the server has   *)
(* changed. Replies carry a topologyVersion, connections a generation; the *)
(* two tell an outdated reply or error from a fresh one.                   *)
(*                                                                         *)
(* A generation only grows, so it is modelled by what a comparison with it *)
(* tells: whether the pool was reset since the generation was read.        *)
(*                                                                         *)
(* The server is one that sends topologyVersions, which is 4.4 or later:   *)
(* what handle_error does for max_wire_version <= 7 does not concern it.   *)
(***************************************************************************)
EXTENDS Naturals, FiniteSets

CONSTANTS
  Threads,     \* threads that run operations that need a primary
  MaxChanges,  \* bound on the changes of the server, in Change and Stop
  MaxFaults,   \* bound on the faults of the network, in Fault and CheckFault
  None         \* Python's None

ASSUME TopologyAssumption ==
  MaxChanges \in Nat /\ MaxFaults \in Nat /\ None \notin Nat

VARIABLES
  server,    \* up, the process, its version counter, whether it is primary
  sd,        \* the description of the server in the topology
  idle,      \* the processes that idle connections of the pool lead to
  mpc, msd, mconn, reply, cancelled,
             \* the monitor: where it is, its _server_description, the process
             \* its connection leads to, the result of a check, and the flag
             \* of the connection's _CancellationContext
  tpc, tconn, current, error,
             \* each thread: where it is, the process its connection leads to,
             \* no reset since the generation was read, the error it met
  changes, faults,
  demoted,   \* history: versions that were reported not to be primary
  buried     \* history: processes that were gone at a reset of the pool

monitor == <<mpc, msd, mconn, reply, cancelled>>
thread == <<tpc, tconn, current, error>>
bounds == <<changes, faults>>
history == <<demoted, buried>>
vars == <<server, sd, idle, monitor, thread, bounds, history>>

Version == [process : Nat, counter : Nat]
Types == {"Unknown", "Primary", "Secondary"}
Unknown(tv) == [type |-> "Unknown", tv |-> tv]

Now == [process |-> server.process, counter |-> server.counter]
\* What a hello of the server says.
Hello == [type |-> IF server.primary THEN "Primary" ELSE "Secondary",
          tv |-> Now]
Reaches(p) == server.up /\ p = server.process
Gone == {p \in 0 .. server.process : ~Reaches(p)}

Init ==
  /\ server = [up |-> TRUE, process |-> 0, counter |-> 0, primary |-> TRUE]
  /\ sd = Unknown(None) /\ idle = {}
  /\ mpc = "sleep" /\ msd = Unknown(None) /\ mconn = None
  /\ reply = None /\ cancelled = FALSE
  /\ tpc = [t \in Threads |-> "out"] /\ tconn = [t \in Threads |-> None]
  /\ current = [t \in Threads |-> FALSE] /\ error = [t \in Threads |-> None]
  /\ changes = 0 /\ faults = 0 /\ demoted = {} /\ buried = {}

-----------------------------------------------------------------------------
(* The server: it steps up or down, stops and starts again.                *)
Changed == changes < MaxChanges /\ changes' = changes + 1
           /\ UNCHANGED <<sd, idle, monitor, thread, faults, history>>
Change == server.up /\ Changed
  /\ server' = [server EXCEPT !.primary = ~@, !.counter = @ + 1]
Stop == server.up /\ Changed /\ server' = [server EXCEPT !.up = FALSE]
Start ==
  /\ ~server.up
  /\ server' = [up |-> TRUE, process |-> server.process + 1, counter |-> 0,
                primary |-> server.primary]
  /\ UNCHANGED <<sd, idle, monitor, thread, bounds, history>>

-----------------------------------------------------------------------------
(* The topology, under its lock.                                           *)

SameProcess(v, w) == v # None /\ w # None /\ v.process = w.process

\* Faulty variants: an equal version is stale, no version is.
StaleIfEqual(cur, new) ==
  SameProcess(cur.tv, new.tv) /\ cur.tv.counter >= new.tv.counter
NeverStale(cur, new) == FALSE

_is_stale_server_description(cur, new) ==
  SameProcess(cur.tv, new.tv) /\ cur.tv.counter > new.tv.counter
_is_stale_error_topology_version(cur, tv) ==
  SameProcess(cur.tv, tv) /\ cur.tv.counter >= tv.counter

_process_change(new) ==
  IF _is_stale_server_description(sd, new) THEN UNCHANGED sd ELSE sd' = new

\* Every generation that was read before the reset is old from then on.
ResetPool ==
  idle' = {} /\ current' = [t \in Threads |-> FALSE] /\ buried' = Gone
\* The history: what was reported of the process the client now knows of.
Note(reported, tv) == demoted' = {v \in reported : SameProcess(v, tv)}

cancel_check == cancelled' = (cancelled \/ mconn # None)

\* Faulty variant: the generation of the error is not looked at.
StaleByVersionOnly(t) == _is_stale_error_topology_version(sd, error[t].tv)

_is_stale_error(t) ==
  ~current[t] \/ _is_stale_error_topology_version(sd, error[t].tv)

\* handle_error. A timeout of an operation says nothing of the server; one of
\* the not primary errors keeps the pool unless the server is shutting down.
\* An OperationFailure with one of their codes is handled as the latter.
handle_error(t) ==
  LET e == error[t] IN
  /\ tpc[t] = "error" /\ tpc' = [tpc EXCEPT ![t] = "out"]
  /\ error' = [error EXCEPT ![t] = None]
  /\ tconn' = [tconn EXCEPT ![t] = None]
  /\ \/ /\ _is_stale_error(t) \/ e.kind = "timeout"
        /\ UNCHANGED <<sd, idle, current, cancelled, history>>
     \/ /\ ~_is_stale_error(t) /\ e.kind \in {"not_primary", "shutting_down"}
        /\ _process_change(Unknown(e.tv)) /\ Note(demoted \cup {e.tv}, e.tv)
        /\ IF e.kind = "shutting_down" THEN ResetPool
           ELSE UNCHANGED <<idle, current, buried>>
        /\ UNCHANGED cancelled
     \/ /\ ~_is_stale_error(t) /\ e.kind = "network"
        /\ _process_change(Unknown(None)) /\ Note(demoted, None)
        /\ ResetPool /\ cancel_check
  /\ UNCHANGED <<server, mpc, msd, mconn, reply, bounds>>

-----------------------------------------------------------------------------
(* Monitor._run                                                            *)

\* _check_once: a cancelled connection is dropped, a missing one opened.
Check ==
  /\ mpc = "sleep"
  /\ \/ /\ mconn # None /\ ~cancelled /\ mpc' = "await"
        /\ UNCHANGED <<mconn, cancelled, reply>>
     \/ /\ mconn = None \/ cancelled
        /\ cancelled' = FALSE
        /\ IF server.up
           THEN mpc' = "await" /\ mconn' = server.process /\ UNCHANGED reply
           ELSE mpc' = "got" /\ mconn' = None /\ reply' = Unknown(None)
  /\ UNCHANGED <<server, sd, idle, msd, thread, bounds, history>>

\* The server answers: at once, when its version changes, or after a while.
HelloReply ==
  /\ mpc = "await" /\ Reaches(mconn) /\ ~cancelled
  /\ mpc' = "got" /\ reply' = Hello
  /\ UNCHANGED <<server, sd, idle, msd, mconn, cancelled, thread, bounds,
                 history>>

CheckFails ==
  /\ mpc' = "got" /\ mconn' = None /\ cancelled' = FALSE
  /\ reply' = Unknown(None)
  /\ UNCHANGED <<server, sd, idle, msd, thread, changes, history>>
CheckBreaks == mpc = "await" /\ ~Reaches(mconn) /\ CheckFails /\ UNCHANGED faults
CheckFault == mpc = "await" /\ faults < MaxFaults /\ faults' = faults + 1
              /\ CheckFails

\* _OperationCancelled: the topology is not told, the check is made again.
Cancelled ==
  /\ mpc = "await" /\ cancelled
  /\ mpc' = "sleep" /\ msd' = Unknown(None)
  /\ mconn' = None /\ cancelled' = FALSE
  /\ UNCHANGED <<server, sd, idle, reply, thread, bounds, history>>

\* on_change. A failed check resets the pool too.
on_change ==
  /\ mpc = "got" /\ mpc' = "sleep" /\ msd' = reply /\ reply' = None
  /\ _process_change(reply)
  /\ Note(demoted, reply.tv)
  /\ IF reply.tv = None THEN ResetPool ELSE UNCHANGED <<idle, current, buried>>
  /\ UNCHANGED <<server, mconn, cancelled, tpc, tconn, error, bounds>>

-----------------------------------------------------------------------------
(* An operation of thread t.                                               *)

Goto(t, l) == tpc' = [tpc EXCEPT ![t] = l]
Raise(t, kind, tv) ==
  Goto(t, "error") /\ error' = [error EXCEPT ![t] = [kind |-> kind, tv |-> tv]]

select_server(t) ==
  /\ tpc[t] = "out" /\ sd.type = "Primary" /\ Goto(t, "selected")
  /\ UNCHANGED <<server, sd, idle, monitor, tconn, current, error, bounds,
                 history>>

\* The error handler reads the generation before a connection is asked for.
Handler(t) ==
  /\ tpc[t] = "selected" /\ Goto(t, "checkout")
  /\ current' = [current EXCEPT ![t] = TRUE]
  /\ UNCHANGED <<server, sd, idle, monitor, tconn, error, bounds, history>>

\* The connection brings its own generation.
CheckOut(t) ==
  /\ tpc[t] = "checkout"
  /\ \/ \E p \in idle :
          /\ idle' = idle \ {p} /\ tconn' = [tconn EXCEPT ![t] = p]
          /\ current' = [current EXCEPT ![t] = TRUE]
          /\ Goto(t, "sent") /\ UNCHANGED error
     \/ /\ idle = {} /\ server.up
        /\ tconn' = [tconn EXCEPT ![t] = server.process]
        /\ current' = [current EXCEPT ![t] = TRUE]
        /\ Goto(t, "sent") /\ UNCHANGED <<idle, error>>
     \/ /\ idle = {} /\ ~server.up /\ Raise(t, "network", None)
        /\ UNCHANGED <<idle, tconn, current>>
  /\ UNCHANGED <<server, sd, monitor, bounds, history>>

Answer(t) ==
  /\ tpc[t] = "sent" /\ Reaches(tconn[t])
  /\ \/ /\ server.primary /\ Goto(t, "out")
        /\ idle' = (IF current[t] THEN idle \cup {tconn[t]} ELSE idle)
        /\ tconn' = [tconn EXCEPT ![t] = None] /\ UNCHANGED error
     \/ /\ ~server.primary /\ Raise(t, "not_primary", Now)
        /\ UNCHANGED <<idle, tconn>>
  /\ UNCHANGED <<server, sd, monitor, current, bounds, history>>

Break(t) ==
  /\ tpc[t] = "sent" /\ ~Reaches(tconn[t]) /\ Raise(t, "network", None)
  /\ UNCHANGED <<server, sd, idle, monitor, tconn, current, bounds, history>>

Fault(t) ==
  /\ tpc[t] = "sent" /\ faults < MaxFaults /\ faults' = faults + 1
  /\ \/ \E kind \in {"network", "timeout"} : Raise(t, kind, None)
     \/ ~server.primary /\ Reaches(tconn[t]) /\ Raise(t, "shutting_down", Now)
  /\ UNCHANGED <<server, sd, idle, monitor, tconn, current, changes, history>>

Monitor == Check \/ HelloReply \/ CheckBreaks \/ Cancelled \/ on_change
Operation(t) ==
  Handler(t) \/ CheckOut(t) \/ Answer(t) \/ Break(t) \/ handle_error(t)
Next ==
  \/ Change \/ Stop \/ Start \/ Monitor \/ CheckFault
  \/ \E t \in Threads : select_server(t) \/ Operation(t) \/ Fault(t)

Spec == Init /\ [][Next]_vars

\* The monitor's thread runs, a hello and an operation end, a server that
\* stopped is started again.
FairSpec == /\ Spec /\ WF_vars(Monitor) /\ WF_vars(Start)
            /\ \A t \in Threads : WF_vars(Operation(t))

-----------------------------------------------------------------------------
\* The end of a process of the server is held against the server once. However
\* many operations were on connections to it, and however late they fail, an
\* error of theirs after the pool was reset takes nothing from the process that
\* runs by then: neither what the client knows of it nor its connections.
DeathCountsOnce ==
  [][\A t \in Threads :
       tpc[t] = "error" /\ tpc'[t] = "out" /\ tconn[t] \in buried
         => UNCHANGED <<sd, idle>>]_vars

\* A server that an operation found not to be primary any more is not taken
\* for the primary again because of a hello it had answered before, as long
\* as no network error and no other process make the client start anew.
NotPrimaryIsKept ==
  sd.type = "Primary" =>
    \A v \in demoted : SameProcess(sd.tv, v) => v.counter < sd.tv.counter

\* Whatever outdated replies and errors there were, once the server changes
\* no more the client comes to know what it is, and stays with that.
Converges == <>[](server.up /\ sd = Hello)
=============================================================================
