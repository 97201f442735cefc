--------------------------- MODULE Topology_proofs ---------------------------
(***************************************************************************)
(* Outdated replies and errors, for any threads and any number of changes  *)
(* of the server and faults of the network.                                *)
(*                                                                         *)
(* That a server found not to be primary is not taken for the primary      *)
(* again needs that no hello in flight says "primary" of a version of      *)
(* which an operation's error says the opposite. It holds as both speak of *)
(* the past of one server, whose version counter moves whenever its role   *)
(* does. That the end of a process counts once needs that no connection of *)
(* the current generation leads to a process that was gone when the        *)
(* generation began.                                                       *)
(***************************************************************************)
EXTENDS Topology, TLAPS

Versions == Version \cup {None}
Description == [type : Types, tv : Versions]
Error == [kind : {"network", "timeout", "not_primary", "shutting_down"}, tv : Versions]

TypeInv ==
  /\ server \in [up : BOOLEAN, process : Nat, counter : Nat, primary : BOOLEAN]
  /\ sd \in Description /\ demoted \subseteq Version
  /\ mpc = "got" => reply \in Description
  /\ tpc \in [Threads -> {"out", "selected", "checkout", "sent", "error"}]
  /\ error \in [Threads -> Error \cup {None}]
  /\ \A t \in Threads : tpc[t] = "error" => error[t] \in Error

\* The descriptions that the client holds, or is about to be given.
Told == {sd} \cup {d \in {reply} : mpc = "got"}
\* The errors that are not handled yet and say that the server is no primary.
Refusing ==
  {t \in Threads : tpc[t] = "error" /\ error[t].kind \in {"not_primary", "shutting_down"}}

\* The versions at which the server is said to be the primary, and not to be.
PrimaryAt == {d.tv : d \in {e \in Told : e.type = "Primary"}}
NotPrimaryAt == demoted \cup {error[t].tv : t \in Refusing}

\* The server was there, in this process or in one before.
Past(v) ==
  \/ v.process < server.process
  \/ v.process = server.process /\ v.counter <= server.counter

ClaimsInv ==
  /\ \A v \in (PrimaryAt \cup NotPrimaryAt) \ {None} : Past(v)
  /\ \A v \in PrimaryAt \ {None} : v = Now => server.primary
  /\ \A v \in NotPrimaryAt \ {None} : v = Now => ~server.primary
  /\ PrimaryAt \cap NotPrimaryAt \subseteq {None}

\* What was reported is of the process of the description, and not newer.
DemotedInv ==
  \A v \in demoted : SameProcess(sd.tv, v) /\ v.counter <= sd.tv.counter

IInv == TypeInv /\ ClaimsInv /\ DemotedInv

-----------------------------------------------------------------------------
(* What is said of the server.                                             *)

LEMMA NowIsVersion ==
  ASSUME TypeInv
  PROVE  /\ Now \in Version /\ Now.process = server.process /\ Now.counter = server.counter
         /\ server.process \in Nat /\ server.counter \in Nat /\ server.primary \in BOOLEAN
         /\ Past(Now)
  BY DEF TypeInv, Now, Version, Past

LEMMA ClaimTypes ==
  ASSUME TypeInv
  PROVE  PrimaryAt \subseteq Versions /\ NotPrimaryAt \subseteq Versions
<1>1. PrimaryAt \subseteq Versions
  BY DEF TypeInv, PrimaryAt, Told, Description
<1>2. \A t \in Refusing : error[t].tv \in Versions
  BY DEF TypeInv, Refusing, Error
<1> QED
  BY <1>1, <1>2 DEF TypeInv, NotPrimaryAt, Versions

\* Nothing is said of the server but what was said before, or what is true now.
LEMMA ClaimsKept ==
  ASSUME TypeInv, ClaimsInv, UNCHANGED server,
         \A v \in PrimaryAt' : v \in PrimaryAt \/ (v = Now /\ server.primary),
         \A v \in NotPrimaryAt' : v \in NotPrimaryAt \/ (v = Now /\ ~server.primary)
  PROVE  ClaimsInv'
<1>1. Now' = Now /\ Past(Now) /\ \A v : Past(v)' <=> Past(v)
  BY NowIsVersion DEF Now, Past
<1> HIDE DEF Now, Past, PrimaryAt, NotPrimaryAt
<1>2. \A v \in (PrimaryAt' \cup NotPrimaryAt') \ {None} : Past(v)'
  BY <1>1 DEF ClaimsInv
<1>3. \A v \in PrimaryAt' \ {None} : v = Now' => server'.primary
  BY <1>1 DEF ClaimsInv
<1>4. \A v \in NotPrimaryAt' \ {None} : v = Now' => ~server'.primary
  BY <1>1 DEF ClaimsInv
<1>5. PrimaryAt' \cap NotPrimaryAt' \subseteq {None}
  BY DEF ClaimsInv
<1> QED
  BY <1>2, <1>3, <1>4, <1>5 DEF ClaimsInv

\* The version of a server that changes is none that was spoken of.
LEMMA ClaimsPast ==
  ASSUME TypeInv, TypeInv', ClaimsInv,
         UNCHANGED <<PrimaryAt, NotPrimaryAt>>,
         \/ server'.process = server.process /\ server'.counter = server.counter + 1
         \/ server'.process = server.process + 1
  PROVE  ClaimsInv'
<1>1. \A v \in Version : Past(v) => Past(v)' /\ v # Now'
  <2> SUFFICES ASSUME NEW v \in Version, Past(v) PROVE Past(v)' /\ v # Now'
    OBVIOUS
  <2>1. /\ v.process \in Nat /\ v.counter \in Nat
        /\ server.process \in Nat /\ server.counter \in Nat
        /\ server'.process \in Nat /\ server'.counter \in Nat
    BY DEF Version, TypeInv
  <2>2. Past(v)' /\ ~(v.process = server'.process /\ v.counter = server'.counter)
    BY <2>1 DEF Past
  <2> QED
    BY <2>2 DEF Now
<1>2. \A v \in (PrimaryAt \cup NotPrimaryAt) \ {None} : v \in Version /\ Past(v)
  BY ClaimTypes DEF ClaimsInv, Versions
<1> HIDE DEF Now, Past, PrimaryAt, NotPrimaryAt
<1> QED
  BY <1>1, <1>2 DEF ClaimsInv

-----------------------------------------------------------------------------
(* The server.                                                             *)

LEMMA ServerStep ==
  ASSUME IInv, Change \/ Stop \/ Start
  PROVE  IInv'
<1> USE DEF IInv
<1>1. UNCHANGED <<sd, monitor, thread, demoted>>
  BY DEF Change, Stop, Start, Changed, history
<1>2. PrimaryAt' = PrimaryAt /\ NotPrimaryAt' = NotPrimaryAt
  BY <1>1 DEF PrimaryAt, Told, NotPrimaryAt, Refusing, monitor, thread
<1>3. DemotedInv'
  BY <1>1 DEF DemotedInv
<1>4. CASE Change
  <2>1. TypeInv'
    <3> DEFINE p == ~server.primary
    <3>1. server' = [server EXCEPT !.primary = p, !.counter = server.counter + 1]
      BY <1>4 DEF Change
    <3>2. p \in BOOLEAN
      OBVIOUS
    <3> HIDE DEF p
    <3>3. server' \in [up : BOOLEAN, process : Nat, counter : Nat, primary : BOOLEAN]
      <4>1. /\ server.up \in BOOLEAN /\ server.process \in Nat /\ server.counter + 1 \in Nat
            /\ server = [up |-> server.up, process |-> server.process,
                         counter |-> server.counter, primary |-> server.primary]
        BY DEF TypeInv
      <4>2. server' = [up |-> server.up, process |-> server.process,
                       counter |-> server.counter + 1, primary |-> p]
        BY <3>1, <4>1
      <4> QED
        BY <3>2, <4>1, <4>2
    <3> QED
      BY <1>1, <3>3 DEF TypeInv, monitor, thread
  <2>2. server'.process = server.process /\ server'.counter = server.counter + 1
    BY <1>4 DEF Change, TypeInv
  <2> QED
    BY <1>2, <1>3, <2>1, <2>2, ClaimsPast
<1>5. CASE Stop
  <2>1. TypeInv'
    BY <1>1, <1>5 DEF Stop, TypeInv, monitor, thread
  <2>2. /\ server'.process = server.process /\ server'.counter = server.counter
        /\ server'.primary = server.primary
    BY <1>5 DEF Stop, TypeInv
  <2>3. ClaimsInv'
    BY <1>2, <2>2 DEF ClaimsInv, Past, Now
  <2> QED
    BY <1>3, <2>1, <2>3
<1>6. CASE Start
  <2>1. TypeInv'
    BY <1>1, <1>6 DEF Start, TypeInv, monitor, thread
  <2>2. server'.process = server.process + 1
    BY <1>6 DEF Start
  <2> QED
    BY <1>2, <1>3, <2>1, <2>2, ClaimsPast
<1> QED
  BY <1>4, <1>5, <1>6

-----------------------------------------------------------------------------
(* The monitor, up to on_change.                                           *)

LEMMA MonitorMove ==
  ASSUME IInv, UNCHANGED <<server, sd, tpc, error, demoted>>,
         mpc' = "got" => reply' \in {Hello, Unknown(None)}
  PROVE  IInv'
<1> USE DEF IInv
<1>1. /\ Hello \in Description /\ Unknown(None) \in Description
      /\ Hello.tv = Now /\ (Hello.type = "Primary" => server.primary)
      /\ Unknown(None).type = "Unknown"
  BY NowIsVersion DEF Hello, Unknown, Description, Types, Versions
<1>2. TypeInv'
  BY <1>1 DEF TypeInv
<1>3. \A v \in PrimaryAt' : v \in PrimaryAt \/ (v = Now /\ server.primary)
  BY <1>1 DEF PrimaryAt, Told
<1>4. NotPrimaryAt' = NotPrimaryAt
  BY DEF NotPrimaryAt, Refusing
<1>5. ClaimsInv'
  BY <1>3, <1>4, ClaimsKept
<1>6. DemotedInv'
  BY DEF DemotedInv
<1> QED
  BY <1>2, <1>5, <1>6

LEMMA CheckStep ==
  ASSUME IInv, Check \/ HelloReply \/ CheckBreaks \/ CheckFault \/ Cancelled
  PROVE  IInv'
<1>1. CASE Check
  BY <1>1, MonitorMove DEF Check, thread, history
<1>2. CASE HelloReply
  BY <1>2, MonitorMove DEF HelloReply, thread, history
<1>3. CASE CheckBreaks \/ CheckFault
  BY <1>3, MonitorMove DEF CheckBreaks, CheckFault, CheckFails, thread, history
<1>4. CASE Cancelled
  BY <1>4, MonitorMove DEF Cancelled, thread, history
<1> QED
  BY <1>1, <1>2, <1>3, <1>4

-----------------------------------------------------------------------------
(* The operations, up to handle_error.                                     *)

\* A thread that goes on without an error.
LEMMA ThreadMove ==
  ASSUME IInv, NEW t \in Threads, NEW l \in {"out", "selected", "checkout", "sent"},
         Goto(t, l), UNCHANGED <<server, sd, mpc, reply, error, demoted>>
  PROVE  IInv'
<1> USE DEF IInv
<1>1. TypeInv'
  BY DEF TypeInv, Goto
<1>2. PrimaryAt' = PrimaryAt
  BY DEF PrimaryAt, Told
<1>3. Refusing' \subseteq Refusing
  BY DEF Refusing, Goto, TypeInv
<1>4. NotPrimaryAt' \subseteq NotPrimaryAt
  BY <1>3 DEF NotPrimaryAt
<1>5. ClaimsInv'
  BY <1>2, <1>4, ClaimsKept
<1>6. DemotedInv'
  BY DEF DemotedInv
<1> QED
  BY <1>1, <1>5, <1>6

\* A thread that met an error: only one that the server itself reported, which
\* is not primary, says so.
LEMMA RaiseMove ==
  ASSUME IInv, NEW t \in Threads,
         NEW kind \in {"network", "timeout", "not_primary", "shutting_down"},
         NEW tv \in {Now, None}, Raise(t, kind, tv),
         kind \in {"not_primary", "shutting_down"} => tv = Now /\ ~server.primary,
         UNCHANGED <<server, sd, mpc, reply, demoted>>
  PROVE  IInv'
<1> USE DEF IInv
<1> DEFINE e == [kind |-> kind, tv |-> tv]
<1>1. /\ tpc' = [tpc EXCEPT ![t] = "error"] /\ error' = [error EXCEPT ![t] = e]
      /\ e.kind = kind /\ e.tv = tv /\ e \in Error
  BY NowIsVersion DEF Raise, Goto, Error, Versions
<1> HIDE DEF e
<1>2. /\ error'[t] = e
      /\ \A s \in Threads : s # t => error'[s] = error[s] /\ tpc'[s] = tpc[s]
  BY <1>1 DEF TypeInv
<1>3. TypeInv'
  BY <1>1, <1>2 DEF TypeInv
<1>4. PrimaryAt' = PrimaryAt
  BY DEF PrimaryAt, Told
<1>5. \A v \in NotPrimaryAt' : v \in NotPrimaryAt \/ (v = Now /\ ~server.primary)
  <2>1. \A s \in Refusing' : \/ s \in Refusing /\ error'[s] = error[s]
                             \/ error'[s].tv = Now /\ ~server.primary
    BY <1>1, <1>2 DEF Refusing
  <2> QED
    BY <2>1 DEF NotPrimaryAt
<1>6. ClaimsInv'
  BY <1>4, <1>5, ClaimsKept
<1>7. DemotedInv'
  BY DEF DemotedInv
<1> QED
  BY <1>3, <1>6, <1>7

LEMMA OperationStep ==
  ASSUME IInv, NEW t \in Threads,
         \/ select_server(t) \/ Handler(t) \/ CheckOut(t) \/ Answer(t) \/ Break(t) \/ Fault(t)
  PROVE  IInv'
<1>1. CASE select_server(t)
  BY <1>1, ThreadMove DEF select_server, monitor, history
<1>2. CASE Handler(t)
  BY <1>2, ThreadMove DEF Handler, monitor, history
<1>3. CASE CheckOut(t)
  <2>1. CASE Goto(t, "sent") /\ UNCHANGED error
    BY <1>3, <2>1, ThreadMove DEF CheckOut, monitor, history
  <2>2. CASE Raise(t, "network", None)
    BY <1>3, <2>2, RaiseMove DEF CheckOut, monitor, history
  <2> QED
    BY <1>3, <2>1, <2>2 DEF CheckOut
<1>4. CASE Answer(t)
  <2>1. CASE Goto(t, "out") /\ UNCHANGED error
    BY <1>4, <2>1, ThreadMove DEF Answer, monitor, history
  <2>2. CASE ~server.primary /\ Raise(t, "not_primary", Now)
    BY <1>4, <2>2, RaiseMove DEF Answer, monitor, history
  <2> QED
    BY <1>4, <2>1, <2>2 DEF Answer
<1>5. CASE Break(t)
  BY <1>5, RaiseMove DEF Break, monitor, history
<1>6. CASE Fault(t)
  <2>1. ASSUME NEW kind \in {"network", "timeout"}, Raise(t, kind, None) PROVE IInv'
    BY <1>6, <2>1, RaiseMove DEF Fault, monitor, history
  <2>2. CASE ~server.primary /\ Raise(t, "shutting_down", Now)
    BY <1>6, <2>2, RaiseMove DEF Fault, monitor, history
  <2> QED
    BY <1>6, <2>1, <2>2 DEF Fault
<1> QED
  BY <1>1, <1>2, <1>3, <1>4, <1>5, <1>6

-----------------------------------------------------------------------------
(* The two steps that change the description.                              *)

\* What is demoted after it was noted with a description that takes the place
\* of sd, and is of no older version of the same process.
LEMMA Noted ==
  ASSUME TypeInv, DemotedInv, NEW d \in Description, NEW reported \in SUBSET Version,
         \A v \in reported : v \in demoted \/ v = d.tv,
         ~_is_stale_server_description(sd, d)
  PROVE  \A v \in reported :
           SameProcess(v, d.tv) => SameProcess(d.tv, v) /\ v.counter <= d.tv.counter
<1> SUFFICES ASSUME NEW v \in reported, SameProcess(v, d.tv)
             PROVE  SameProcess(d.tv, v) /\ v.counter <= d.tv.counter
  OBVIOUS
<1>1. /\ d.tv \in Version /\ v \in Version /\ v.counter \in Nat /\ d.tv.counter \in Nat
      /\ SameProcess(d.tv, v)
  BY DEF SameProcess, Description, Versions, Version
<1>2. CASE v = d.tv
  BY <1>1, <1>2
<1>3. CASE v \in demoted
  <2>1. SameProcess(sd.tv, v) /\ v.counter <= sd.tv.counter
    BY <1>3 DEF DemotedInv
  <2>2. sd.tv \in Version /\ sd.tv.counter \in Nat /\ SameProcess(sd.tv, d.tv)
    BY <1>1, <2>1 DEF SameProcess, TypeInv, Description, Versions, Version
  <2>3. sd.tv.counter <= d.tv.counter
    BY <1>1, <2>2 DEF _is_stale_server_description
  <2> QED
    BY <1>1, <2>1, <2>2, <2>3
<1> QED
  BY <1>2, <1>3

LEMMA OnChangeStep == IInv /\ on_change => IInv'
<1> SUFFICES ASSUME IInv, on_change PROVE IInv'
  OBVIOUS
<1> USE DEF IInv
<1>1. /\ mpc = "got" /\ mpc' = "sleep" /\ reply \in Description
      /\ _process_change(reply) /\ Note(demoted, reply.tv)
      /\ UNCHANGED <<server, tpc, error>>
  BY DEF on_change, TypeInv
<1>2. sd' \in {sd, reply}
  BY <1>1 DEF _process_change
<1>3. demoted' \subseteq demoted
  BY <1>1 DEF Note
<1>4. TypeInv'
  BY <1>1, <1>2, <1>3 DEF TypeInv
<1>5. \A v \in PrimaryAt' : v \in PrimaryAt
  BY <1>1, <1>2 DEF PrimaryAt, Told
<1>6. \A v \in NotPrimaryAt' : v \in NotPrimaryAt
  BY <1>1, <1>3 DEF NotPrimaryAt, Refusing
<1>7. ClaimsInv'
  BY <1>1, <1>5, <1>6, ClaimsKept
<1>8. DemotedInv'
  <2>1. CASE sd' = sd
    BY <1>3, <2>1 DEF DemotedInv
  <2>2. CASE sd' = reply /\ ~_is_stale_server_description(sd, reply)
    BY <1>1, <2>2, Noted DEF DemotedInv, Note, TypeInv
  <2> QED
    BY <1>1, <2>1, <2>2 DEF _process_change
<1> QED
  BY <1>4, <1>7, <1>8

LEMMA HandleErrorStep ==
  ASSUME IInv, NEW t \in Threads, handle_error(t)
  PROVE  IInv'
<1> USE DEF IInv
<1> DEFINE e == error[t]
<1>1. /\ tpc[t] = "error" /\ e \in Error
      /\ tpc' = [tpc EXCEPT ![t] = "out"] /\ error' = [error EXCEPT ![t] = None]
      /\ UNCHANGED <<server, mpc, reply>>
  BY DEF handle_error, TypeInv
<1>2. \/ sd' = sd /\ demoted' = demoted
      \/ /\ t \in Refusing /\ ~_is_stale_error_topology_version(sd, e.tv)
         /\ _process_change(Unknown(e.tv)) /\ Note(demoted \cup {e.tv}, e.tv)
      \/ _process_change(Unknown(None)) /\ Note(demoted, None)
  BY <1>1 DEF handle_error, Refusing, _is_stale_error, history
<1>3. /\ \A s \in Refusing' : s \in Refusing /\ error'[s] = error[s]
      /\ \A s \in Threads : tpc'[s] = "error" => tpc[s] = "error" /\ error'[s] = error[s]
      /\ error' \in [Threads -> Error \cup {None}]
      /\ tpc' \in [Threads -> {"out", "selected", "checkout", "sent", "error"}]
  BY <1>1 DEF Refusing, TypeInv
<1>4. /\ Unknown(None) \in Description /\ Unknown(e.tv) \in Description
      /\ Unknown(None).type = "Unknown" /\ Unknown(e.tv).type = "Unknown"
      /\ Unknown(None).tv = None /\ Unknown(e.tv).tv = e.tv
  BY <1>1 DEF Unknown, Description, Types, Error, Versions
<1> HIDE DEF e
<1>5. CASE sd' = sd /\ demoted' = demoted
  <2>1. TypeInv' /\ DemotedInv'
    BY <1>1, <1>3, <1>5 DEF TypeInv, DemotedInv
  <2>2. PrimaryAt' = PrimaryAt /\ NotPrimaryAt' \subseteq NotPrimaryAt
    BY <1>1, <1>3, <1>5 DEF PrimaryAt, Told, NotPrimaryAt
  <2> QED
    BY <1>1, <2>1, <2>2, ClaimsKept
<1>6. CASE /\ t \in Refusing /\ ~_is_stale_error_topology_version(sd, e.tv)
           /\ _process_change(Unknown(e.tv)) /\ Note(demoted \cup {e.tv}, e.tv)
  <2>1. ~_is_stale_server_description(sd, Unknown(e.tv))
    BY <1>1, <1>4, <1>6
    DEF _is_stale_server_description, _is_stale_error_topology_version, SameProcess,
        TypeInv, Description, Versions, Version, Error
  <2>2. sd' = Unknown(e.tv)
    BY <1>6, <2>1 DEF _process_change
  <2>3. demoted' = {v \in demoted \cup {e.tv} : SameProcess(v, e.tv)}
    BY <1>6 DEF Note
  <2>4. demoted' \subseteq Version /\ demoted' \subseteq NotPrimaryAt
    BY <1>1, <1>6, <2>3
    DEF SameProcess, TypeInv, Error, Versions, NotPrimaryAt, e
  <2>5. TypeInv'
    BY <1>1, <1>3, <1>4, <2>2, <2>4 DEF TypeInv
  <2>6. \A v \in PrimaryAt' : v \in PrimaryAt
    BY <1>1, <1>4, <2>2 DEF PrimaryAt, Told
  <2>7. \A v \in NotPrimaryAt' : v \in NotPrimaryAt
    BY <1>3, <2>4 DEF NotPrimaryAt
  <2>8. DemotedInv'
    <3>1. \A v \in demoted' : v \in demoted \/ v = Unknown(e.tv).tv
      BY <1>4, <2>3
    <3> QED
      BY <1>4, <2>1, <2>2, <2>3, <2>4, <3>1, Noted DEF DemotedInv
  <2> QED
    BY <1>1, <2>5, <2>6, <2>7, <2>8, ClaimsKept
<1>7. CASE _process_change(Unknown(None)) /\ Note(demoted, None)
  <2>1. demoted' = {} /\ sd' \in {sd, Unknown(None)}
    BY <1>7 DEF _process_change, Note, SameProcess
  <2>2. TypeInv' /\ DemotedInv'
    BY <1>1, <1>3, <1>4, <2>1 DEF TypeInv, DemotedInv
  <2>3. /\ \A v \in PrimaryAt' : v \in PrimaryAt
        /\ \A v \in NotPrimaryAt' : v \in NotPrimaryAt
    BY <1>1, <1>3, <1>4, <2>1 DEF PrimaryAt, Told, NotPrimaryAt
  <2> QED
    BY <1>1, <2>2, <2>3, ClaimsKept
<1> QED
  BY <1>2, <1>5, <1>6, <1>7

-----------------------------------------------------------------------------
LEMMA InitIInv == Init => IInv
<1> SUFFICES ASSUME Init PROVE IInv
  OBVIOUS
<1>1. TypeInv /\ DemotedInv
  BY DEF Init, TypeInv, DemotedInv, Unknown, Description, Versions, Types
<1>2. PrimaryAt = {} /\ NotPrimaryAt = {}
  BY DEF Init, PrimaryAt, Told, Unknown, NotPrimaryAt, Refusing
<1> QED
  BY <1>1, <1>2 DEF IInv, ClaimsInv

LEMMA StutterStep == IInv /\ UNCHANGED vars => IInv'
BY DEF vars, history, monitor, thread, IInv, TypeInv, ClaimsInv, DemotedInv, PrimaryAt,
       NotPrimaryAt, Told, Refusing, Past, Now

LEMMA StepIInv == IInv /\ [Next]_vars => IInv'
<1> SUFFICES ASSUME IInv, [Next]_vars PROVE IInv'
  OBVIOUS
<1>1. ASSUME NEW t \in Threads, select_server(t) \/ Operation(t) \/ Fault(t) PROVE IInv'
  BY <1>1, OperationStep, HandleErrorStep DEF Operation
<1>2. CASE Monitor \/ CheckFault
  BY <1>2, CheckStep, OnChangeStep DEF Monitor
<1> QED
  BY <1>1, <1>2, ServerStep, StutterStep DEF Next

\* The inductive invariant: replies, errors and the description speak of the
\* past of one server.
LEMMA InvariantHolds == Spec => []IInv
BY InitIInv, StepIInv, PTL DEF Spec

-----------------------------------------------------------------------------
\* A server found not to be primary is not taken for the primary because of an
\* older hello, in whatever order replies and errors are handled
\* (_is_stale_error_topology_version, _is_stale_server_description).
THEOREM NotPrimaryIsKeptHolds == Spec => []NotPrimaryIsKept
<1>1. IInv => NotPrimaryIsKept
  <2> SUFFICES ASSUME IInv, sd.type = "Primary", NEW v \in demoted, SameProcess(sd.tv, v)
               PROVE  v.counter < sd.tv.counter
    BY DEF NotPrimaryIsKept
  <2>1. /\ sd.tv \in Version /\ v \in Version /\ v # None /\ v.process = sd.tv.process
        /\ v.counter <= sd.tv.counter
    BY DEF IInv, TypeInv, DemotedInv, SameProcess, Description, Versions
  <2>2. sd.tv # v
    BY <2>1 DEF IInv, ClaimsInv, PrimaryAt, Told, NotPrimaryAt
  <2>3. v.counter # sd.tv.counter
    BY <2>1, <2>2 DEF Version
  <2> QED
    BY <2>1, <2>3 DEF Version
<1> QED
  BY <1>1, InvariantHolds, PTL

-----------------------------------------------------------------------------
(* Connections and the end of a process.                                   *)

ConnTypes ==
  /\ server \in [up : BOOLEAN, process : Nat, counter : Nat, primary : BOOLEAN]
  /\ idle \subseteq Nat
  /\ tpc \in [Threads -> {"out", "selected", "checkout", "sent", "error"}]
  /\ tconn \in [Threads -> Nat \cup {None}]
  /\ current \in [Threads -> BOOLEAN]

\* No connection of the current generation leads to a process that was gone
\* when the generation began.
BuriedInv ==
  /\ buried \subseteq Gone /\ idle \cap buried = {}
  /\ \A t \in Threads :
       /\ tpc[t] \in {"out", "selected", "checkout"} => tconn[t] = None
       /\ tconn[t] \in buried => ~current[t]

JInv == ConnTypes /\ BuriedInv

\* Nothing is opened, and generations are kept or the pool is reset.
LEMMA NothingOpened ==
  ASSUME JInv, UNCHANGED server,
         tpc' \in [Threads -> {"out", "selected", "checkout", "sent", "error"}],
         tconn' \in [Threads -> Nat \cup {None}],
         \A t \in Threads : tconn'[t] = tconn[t] \/ tconn'[t] = None,
         \A t \in Threads :
           tpc'[t] \in {"out", "selected", "checkout"} => tconn'[t] = None,
         \/ UNCHANGED <<idle, current, buried>>
         \/ ResetPool
  PROVE  JInv'
<1>1. ConnTypes'
  BY DEF JInv, ConnTypes, ResetPool
<1>2. Gone' = Gone
  BY DEF Gone, Reaches
<1>3. None \notin Gone
  BY TopologyAssumption DEF Gone, JInv, ConnTypes
<1>4. CASE UNCHANGED <<idle, current, buried>>
  BY <1>1, <1>2, <1>3, <1>4 DEF JInv, BuriedInv
<1>5. CASE ResetPool
  BY <1>1, <1>2, <1>5 DEF JInv, BuriedInv, ResetPool
<1> QED
  BY <1>4, <1>5

LEMMA GoneGrows ==
  ASSUME JInv, Change \/ Stop \/ Start
  PROVE  JInv'
<1>1. UNCHANGED <<idle, tpc, tconn, current, buried>>
  BY DEF Change, Stop, Start, Changed, thread, history
<1>2. /\ server.up \in BOOLEAN /\ server.process \in Nat
      /\ server.counter \in Nat /\ server.primary \in BOOLEAN
      /\ server = [up |-> server.up, process |-> server.process,
                   counter |-> server.counter, primary |-> server.primary]
  BY DEF JInv, ConnTypes
<1>3. ASSUME NEW up \in BOOLEAN, NEW process \in Nat, NEW counter \in Nat,
             NEW primary \in BOOLEAN,
             server' = [up |-> up, process |-> process, counter |-> counter,
                        primary |-> primary],
             \/ process = server.process /\ (up => server.up)
             \/ process = server.process + 1
      PROVE  JInv'
  <2>1. server'.up = up /\ server'.process = process
    BY <1>3
  <2>2. Gone \subseteq Gone'
    BY <1>2, <1>3, <2>1 DEF Gone, Reaches
  <2>3. server' \in [up : BOOLEAN, process : Nat, counter : Nat, primary : BOOLEAN]
    BY <1>3
  <2> QED
    BY <1>1, <2>2, <2>3 DEF JInv, ConnTypes, BuriedInv
<1>4. CASE Change
  <2> DEFINE p == ~server.primary
  <2>1. server' = [server EXCEPT !.primary = p, !.counter = server.counter + 1]
    BY <1>4 DEF Change
  <2>2. p \in BOOLEAN /\ server.counter + 1 \in Nat
    BY <1>2
  <2> HIDE DEF p
  <2>3. server' = [up |-> server.up, process |-> server.process,
                   counter |-> server.counter + 1, primary |-> p]
    BY <1>2, <2>1
  <2> QED
    BY <1>2, <1>3, <2>2, <2>3
<1>5. CASE Stop
  <2>1. server' = [up |-> FALSE, process |-> server.process,
                   counter |-> server.counter, primary |-> server.primary]
    BY <1>2, <1>5 DEF Stop
  <2> QED
    BY <1>2, <1>3, <2>1
<1>6. CASE Start
  <2>1. server' = [up |-> TRUE, process |-> server.process + 1, counter |-> 0,
                   primary |-> server.primary]
    BY <1>6 DEF Start
  <2>2. server.process + 1 \in Nat /\ 0 \in Nat
    BY <1>2
  <2> QED
    BY <1>2, <1>3, <2>1, <2>2
<1> QED
  BY <1>4, <1>5, <1>6

LEMMA StepJInv == JInv /\ [Next]_vars => JInv'
<1> SUFFICES ASSUME JInv, [Next]_vars PROVE JInv'
  OBVIOUS
<1> USE DEF Goto
<1>0. /\ tpc \in [Threads -> {"out", "selected", "checkout", "sent", "error"}]
      /\ tconn \in [Threads -> Nat \cup {None}]
      /\ \A t \in Threads :
           tpc[t] \in {"out", "selected", "checkout"} => tconn[t] = None
  BY DEF JInv, ConnTypes, BuriedInv
<1>1. CASE Check \/ HelloReply \/ CheckBreaks \/ CheckFault \/ Cancelled
  <2>1. UNCHANGED <<server, idle, tpc, tconn, current, buried>>
    BY <1>1 DEF Check, HelloReply, CheckBreaks, CheckFault, CheckFails, Cancelled,
                thread, history
  <2> QED
    BY <1>0, <2>1, NothingOpened
<1>2. CASE on_change
  <2>1. /\ UNCHANGED <<server, tpc, tconn>>
        /\ ResetPool \/ UNCHANGED <<idle, current, buried>>
    BY <1>2 DEF on_change
  <2> QED
    BY <1>0, <2>1, NothingOpened
<1>3. ASSUME NEW t \in Threads, select_server(t) PROVE JInv'
  <2>1. UNCHANGED <<server, idle, tconn, current, buried>>
    BY <1>3 DEF select_server, history
  <2>2. /\ tpc' \in [Threads -> {"out", "selected", "checkout", "sent", "error"}]
        /\ \A s \in Threads : tpc'[s] = tpc[s] \/ (s = t /\ tpc[s] = "out")
    BY <1>0, <1>3 DEF select_server
  <2> QED
    BY <1>0, <2>1, <2>2, NothingOpened
<1>4. ASSUME NEW t \in Threads, Handler(t) PROVE JInv'
  <2>1. /\ UNCHANGED <<server, idle, tconn, buried>> /\ tconn[t] = None
        /\ tpc' = [tpc EXCEPT ![t] = "checkout"] /\ current' = [current EXCEPT ![t] = TRUE]
    BY <1>0, <1>4 DEF Handler, history
  <2>2. Gone' = Gone /\ None \notin Gone
    BY <2>1, TopologyAssumption DEF Gone, Reaches, JInv, ConnTypes
  <2> QED
    BY <2>1, <2>2 DEF JInv, ConnTypes, BuriedInv
<1>5. ASSUME NEW t \in Threads, CheckOut(t) PROVE JInv'
  <2>1. CASE idle = {} /\ Raise(t, "network", None) /\ UNCHANGED <<idle, tconn, current>>
    <3>1. UNCHANGED <<server, idle, tconn, current, buried>>
      BY <1>5, <2>1 DEF CheckOut, history
    <3>2. tpc' = [tpc EXCEPT ![t] = "error"]
      BY <2>1 DEF Raise
    <3> QED
      BY <1>0, <3>1, <3>2, NothingOpened
  <2>2. ASSUME NEW p \in Nat, p \notin buried, idle' \subseteq idle,
               tconn' = [tconn EXCEPT ![t] = p], current' = [current EXCEPT ![t] = TRUE],
               Goto(t, "sent")
        PROVE  JInv'
    <3>1. UNCHANGED <<server, buried>>
      BY <1>5 DEF CheckOut, history
    <3>2. Gone' = Gone
      BY <3>1 DEF Gone, Reaches
    <3> QED
      BY <2>2, <3>1, <3>2 DEF JInv, ConnTypes, BuriedInv
  <2>3. server.up => server.process \notin Gone /\ server.process \in Nat
    BY DEF Gone, Reaches, JInv, ConnTypes
  <2>4. CASE idle = {} /\ server.up /\ Goto(t, "sent") /\ UNCHANGED idle
    BY <1>5, <2>2, <2>3, <2>4 DEF CheckOut, JInv, BuriedInv
  <2>5. CASE \E p \in idle :
               /\ idle' = idle \ {p} /\ tconn' = [tconn EXCEPT ![t] = p]
               /\ current' = [current EXCEPT ![t] = TRUE] /\ Goto(t, "sent")
    BY <2>2, <2>5 DEF JInv, BuriedInv, ConnTypes
  <2> QED
    BY <1>5, <2>1, <2>4, <2>5 DEF CheckOut
<1>6. ASSUME NEW t \in Threads, Answer(t) PROVE JInv'
  <2>1. CASE Raise(t, "not_primary", Now) /\ UNCHANGED <<idle, tconn>>
    <3>1. UNCHANGED <<server, idle, tconn, current, buried>>
      BY <1>6, <2>1 DEF Answer, history
    <3>2. tpc' = [tpc EXCEPT ![t] = "error"]
      BY <2>1 DEF Raise
    <3> QED
      BY <1>0, <3>1, <3>2, NothingOpened
  <2>2. CASE /\ Goto(t, "out") /\ tconn' = [tconn EXCEPT ![t] = None]
             /\ idle' = (IF current[t] THEN idle \cup {tconn[t]} ELSE idle)
    <3>1. UNCHANGED <<server, current, buried>> /\ tconn[t] = server.process
      BY <1>6 DEF Answer, Reaches, history
    <3>2. Gone' = Gone /\ None \notin Gone
      BY <3>1, TopologyAssumption DEF Gone, Reaches, JInv, ConnTypes
    <3>3. idle' \subseteq Nat /\ idle' \cap buried = {}
      BY <2>2, <3>1 DEF JInv, ConnTypes, BuriedInv
    <3> QED
      BY <2>2, <3>1, <3>2, <3>3 DEF JInv, ConnTypes, BuriedInv
  <2> QED
    BY <1>6, <2>1, <2>2 DEF Answer
<1>7. ASSUME NEW t \in Threads, Break(t) \/ Fault(t) PROVE JInv'
  <2>1. /\ UNCHANGED <<server, idle, tconn, current, buried>>
        /\ tpc' = [tpc EXCEPT ![t] = "error"]
    BY <1>7 DEF Break, Fault, Raise, history
  <2> QED
    BY <1>0, <2>1, NothingOpened
<1>8. ASSUME NEW t \in Threads, handle_error(t) PROVE JInv'
  <2>1. /\ UNCHANGED server /\ tpc' = [tpc EXCEPT ![t] = "out"]
        /\ tconn' = [tconn EXCEPT ![t] = None]
        /\ ResetPool \/ UNCHANGED <<idle, current, buried>>
    BY <1>8 DEF handle_error, history
  <2> QED
    BY <1>0, <2>1, NothingOpened
<1>9. CASE UNCHANGED vars
  <2>1. UNCHANGED <<server, idle, tpc, tconn, current, buried>>
    BY <1>9 DEF vars, thread, history
  <2> QED
    BY <1>0, <2>1, NothingOpened
<1> QED
  BY <1>1, <1>2, <1>3, <1>4, <1>5, <1>6, <1>7, <1>8, <1>9, GoneGrows
     DEF Next, Monitor, Operation

\* However many operations were on connections to a process of the server that
\* is gone, their errors take nothing from its successor once the pool was
\* reset (_is_stale_error's look at the generation).
THEOREM DeathCountsOnceHolds == Spec => DeathCountsOnce
<1>1. Init => JInv
  BY DEF Init, JInv, ConnTypes, BuriedInv, Gone
<1>2. JInv /\ [Next]_vars =>
        [\A t \in Threads :
           tpc[t] = "error" /\ tpc'[t] = "out" /\ tconn[t] \in buried
             => UNCHANGED <<sd, idle>>]_vars
  <2> SUFFICES ASSUME JInv, Next, NEW t \in Threads,
                      tpc[t] = "error", tpc'[t] = "out", tconn[t] \in buried
               PROVE  UNCHANGED <<sd, idle>>
    OBVIOUS
  <2>1. handle_error(t)
    <3>0. tpc \in [Threads -> {"out", "selected", "checkout", "sent", "error"}]
      BY DEF JInv, ConnTypes
    <3>1. ASSUME Change \/ Stop \/ Start \/ Monitor \/ CheckFault PROVE FALSE
      BY <3>1 DEF Change, Stop, Start, Changed, Monitor, Check, HelloReply, CheckBreaks,
                  CheckFault, CheckFails, Cancelled, on_change, thread
    <3>2. ASSUME NEW s \in Threads,
                 \/ select_server(s) \/ Handler(s) \/ CheckOut(s) \/ Answer(s) \/ Break(s)
                 \/ Fault(s)
          PROVE  FALSE
      BY <3>0, <3>2 DEF select_server, Handler, CheckOut, Answer, Break, Fault, Raise, Goto
    <3>3. ASSUME NEW s \in Threads, handle_error(s) PROVE s = t
      BY <3>0, <3>3 DEF handle_error
    <3> QED
      BY <3>1, <3>2, <3>3 DEF Next, Operation
  <2>2. ~current[t]
    BY DEF JInv, BuriedInv
  <2> QED
    BY <2>1, <2>2 DEF handle_error, _is_stale_error
<1> QED
  BY <1>1, <1>2, StepJInv, PTL DEF Spec, DeathCountsOnce
=============================================================================
