--------------------------- MODULE Monitor_proofs ---------------------------
(***************************************************************************)
(* The threads of a monitor and of its _RttMonitor, for any number of      *)
(* thread objects.                                                         *)
(*                                                                         *)
(* Three facts carry the three properties. The thread that lives is the    *)
(* one that the executor knows, so that open cannot start a second one; a  *)
(* thread that will exit has left word of it, so that open does not        *)
(* rely on it; and while a _RttMonitor runs next to a closed monitor, the  *)
(* monitor's own thread is about to look again whether it was closed.      *)
(***************************************************************************)
EXTENDS Monitor, TLAPS

Labels == {"check", "target", "exit", "dead", "after", "sleep", "clear",
           "rtt_open", "rtt_start", "recheck", "close_rtt"}

TypeInv ==
  /\ stopped \in [Executors -> BOOLEAN] /\ exit \in [Executors -> BOOLEAN]
  /\ event \in [Executors -> BOOLEAN] /\ skip \in [Executors -> BOOLEAN]
  /\ thread \in [Executors -> SUBSET Thread]
  /\ pc \in [Executors -> [Thread -> Labels]]
  /\ topology \in {"closed", "opening", "open", "close_rtt", "close_rtt_again"}
  /\ collected \in BOOLEAN /\ pending \in [Executors -> BOOLEAN]

\* A thread that lives is the one the executor knows.
KnownInv == \A e \in Executors, k \in Thread : Live(e, k) => thread[e] = {k}

\* A thread that leaves its loop was stopped, and has left word of it.
ExitInv ==
  \A e \in Executors, k \in Thread : pc[e][k] = "exit" => exit[e] /\ stopped[e]

RunInv ==
  \A e \in Executors :
    thread[e] # {} /\ ~stopped[e] /\ ~Opening(e) => \E k \in Thread : Live(e, k)

\* A wake that is not answered has _event set, but where the thread goes on to
\* look at _stopped and at its target anyway.
WakeInv ==
  \A e \in Executors, k \in Thread :
    pending[e] /\ pc[e][k] \notin {"dead", "check", "exit"} => event[e]

ClosedInv ==
  /\ topology \in {"closed", "close_rtt", "close_rtt_again"}
       => stopped["server"] \/ thread["server"] = {}
  /\ topology = "closed" =>
       \/ stopped["rtt"] \/ thread["rtt"] = {}
       \/ \E k \in Thread : pc["server"][k] \in {"rtt_start", "recheck"}

IInv == TypeInv /\ KnownInv /\ ExitInv /\ RunInv /\ WakeInv /\ ClosedInv

-----------------------------------------------------------------------------
(* Lemmas about pc, and about the parts of open.                           *)

LEMMA PutPc ==
  ASSUME NEW f \in [Executors -> [Thread -> Labels]],
         NEW e \in Executors, NEW k \in Thread, NEW l \in Labels
  PROVE  /\ [f EXCEPT ![e][k] = l] \in [Executors -> [Thread -> Labels]]
         /\ [f EXCEPT ![e][k] = l][e][k] = l
         /\ \A d \in Executors, j \in Thread :
              d # e \/ j # k => [f EXCEPT ![e][k] = l][d][j] = f[d][j]
  OBVIOUS

LEMMA GotoPc ==
  ASSUME TypeInv, NEW e \in Executors, NEW k \in Thread, NEW l \in Labels, Goto(e, k, l)
  PROVE  /\ pc' \in [Executors -> [Thread -> Labels]]
         /\ pc'[e][k] = l
         /\ \A d \in Executors, j \in Thread :
              d # e \/ j # k => pc'[d][j] = pc[d][j]
  BY PutPc DEF TypeInv, Goto

\* A thread of e that lives is the only one of e.
LEMMA OnlyThread ==
  ASSUME KnownInv, NEW e \in Executors, NEW k \in Thread, Live(e, k)
  PROVE  \A j \in Thread : j # k => ~Live(e, j)
  BY DEF KnownInv

\* After the part under the lock no thread of e is on its way out.
LEMMA LockedOpen ==
  ASSUME TypeInv, KnownInv, ExitInv, NEW e \in Executors, OpenLock(e)
  PROVE  /\ \A k \in Thread : pc[e][k] # "exit"
         /\ stopped' \in [Executors -> BOOLEAN] /\ exit' \in [Executors -> BOOLEAN]
         /\ ~stopped'[e] /\ ~exit'[e]
         /\ \A d \in Executors : d # e => stopped'[d] = stopped[d] /\ exit'[d] = exit[d]
<1>1. \A k \in Thread : pc[e][k] # "exit"
  BY DEF OpenLock, KnownInv, ExitInv, Live
<1> QED
  BY <1>1 DEF OpenLock, TypeInv

\* The part after it: the thread that lives stays, or one is started and no
\* other one lives.
LEMMA StartedOpen ==
  ASSUME TypeInv, KnownInv, NEW e \in Executors,
         NEW now \in [Executors -> [Thread -> Labels]],
         \A j \in Thread : now[e][j] = pc[e][j],
         OpenStart(e, now)
  PROVE  /\ pc' \in [Executors -> [Thread -> Labels]]
         /\ thread' \in [Executors -> SUBSET Thread]
         /\ \A d \in Executors : d # e => thread'[d] = thread[d]
         /\ \A d \in Executors, j \in Thread : d # e => pc'[d][j] = now[d][j]
         /\ \E k \in Thread :
              /\ Live(e, k)' /\ thread'[e] = {k}
              /\ pc'[e][k] = pc[e][k] \/ (~Live(e, k) /\ pc'[e][k] = "check")
              /\ \A j \in Thread : j # k => pc'[e][j] = pc[e][j] /\ ~Live(e, j)
<1>1. CASE \E k \in thread[e] : Live(e, k)
  <2>1. PICK k \in Thread : k \in thread[e] /\ Live(e, k)
    BY <1>1 DEF TypeInv
  <2>2. pc' = now /\ thread' = thread
    BY <1>1 DEF OpenStart
  <2>3. thread[e] = {k} /\ \A j \in Thread : j # k => ~Live(e, j)
    BY <2>1, OnlyThread DEF KnownInv
  <2>4. \A j \in Thread : pc'[e][j] = pc[e][j]
    BY <2>2
  <2>5. Live(e, k)' /\ thread'[e] = {k}
    BY <2>1, <2>2, <2>3, <2>4 DEF Live
  <2>6. thread' \in [Executors -> SUBSET Thread]
    BY <2>2 DEF TypeInv
  <2>7. /\ Live(e, k)' /\ thread'[e] = {k} /\ pc'[e][k] = pc[e][k]
        /\ \A j \in Thread : j # k => pc'[e][j] = pc[e][j] /\ ~Live(e, j)
    BY <2>3, <2>4, <2>5
  <2> QED
    BY <2>2, <2>6, <2>7
<1>2. CASE ~ \E k \in thread[e] : Live(e, k)
  <2>1. PICK k \in Thread : /\ thread' = [thread EXCEPT ![e] = {k}]
                            /\ pc' = [now EXCEPT ![e][k] = "check"]
    BY <1>2 DEF OpenStart
  <2>2. \A j \in Thread : ~Live(e, j)
    BY <1>2 DEF KnownInv
  <2>3. /\ pc' \in [Executors -> [Thread -> Labels]]
        /\ pc'[e][k] = "check"
        /\ \A d \in Executors, j \in Thread :
             d # e \/ j # k => pc'[d][j] = now[d][j]
    BY <2>1, PutPc DEF Labels
  <2>4. /\ thread' \in [Executors -> SUBSET Thread] /\ thread'[e] = {k}
        /\ \A d \in Executors : d # e => thread'[d] = thread[d]
    BY <2>1 DEF TypeInv
  <2> QED
    BY <2>2, <2>3, <2>4 DEF Live
<1> QED
  BY <1>1, <1>2

-----------------------------------------------------------------------------
(* The steps of a thread. Each moves a thread that lives.                  *)

LEMMA MoveStep ==
  ASSUME IInv, NEW e \in Executors, NEW k \in Thread, NEW l \in Labels,
         Live(e, k), Goto(e, k, l), UNCHANGED thread
  PROVE  /\ KnownInv'
         /\ pc' \in [Executors -> [Thread -> Labels]]
         /\ pc'[e][k] = l
         /\ \A d \in Executors, j \in Thread :
              d # e \/ j # k => pc'[d][j] = pc[d][j]
         /\ \A j \in Thread : j # k => pc[e][j] = "dead" /\ pc'[e][j] = "dead"
         /\ thread[e] = {k}
<1>1. /\ pc' \in [Executors -> [Thread -> Labels]]
      /\ pc'[e][k] = l
      /\ \A d \in Executors, j \in Thread :
           d # e \/ j # k => pc'[d][j] = pc[d][j]
  BY GotoPc DEF IInv
<1>2. thread[e] = {k} /\ \A j \in Thread : j # k => pc[e][j] = "dead"
  BY OnlyThread DEF IInv, KnownInv, Live
<1>3. KnownInv'
  BY <1>1, <1>2 DEF IInv, KnownInv, Live
<1> QED
  BY <1>1, <1>2, <1>3

\* A move within the loop, which changes no flag but skip, of a thread that
\* opens no other executor.
LEMMA LoopStep ==
  ASSUME IInv, NEW e \in Executors, NEW k \in Thread, NEW l \in Labels,
         Live(e, k), Goto(e, k, l), l \notin {"dead", "exit"},
         pc[e][k] \notin {"check", "exit", "rtt_start", "recheck"},
         skip' \in [Executors -> BOOLEAN],
         UNCHANGED <<stopped, exit, event, thread, topology, collected, pending>>
  PROVE  IInv'
<1>1. /\ KnownInv' /\ pc' \in [Executors -> [Thread -> Labels]]
      /\ pc'[e][k] = l
      /\ \A d \in Executors, j \in Thread :
           d # e \/ j # k => pc'[d][j] = pc[d][j]
  BY MoveStep
<1>2. TypeInv'
  BY <1>1 DEF IInv, TypeInv
<1>3. ExitInv' /\ WakeInv'
  <2>1. ExitInv'
    BY <1>1 DEF IInv, ExitInv, Live
  <2>2. WakeInv'
    BY <1>1 DEF IInv, WakeInv, Live
  <2> QED
    BY <2>1, <2>2
<1>4. RunInv'
  BY <1>1 DEF IInv, RunInv, Opening, Live, Executors
<1>5. ClosedInv'
  BY <1>1 DEF IInv, ClosedInv, Executors
<1> QED
  BY <1>1, <1>2, <1>3, <1>4, <1>5 DEF IInv

LEMMA ShouldStopStep ==
  ASSUME IInv, NEW e \in Executors, NEW k \in Thread, __should_stop(e, k)
  PROVE  IInv'
<1> DEFINE l == IF stopped[e] THEN "exit" ELSE "target"
<1>1. /\ pc[e][k] = "check" /\ l \in Labels /\ Goto(e, k, l)
      /\ UNCHANGED <<stopped, event, skip, thread, topology, collected>>
  BY DEF __should_stop, Labels
<1>2. /\ KnownInv' /\ pc' \in [Executors -> [Thread -> Labels]]
      /\ pc'[e][k] = l
      /\ \A d \in Executors, j \in Thread :
           d # e \/ j # k => pc'[d][j] = pc[d][j]
      /\ \A j \in Thread : j # k => pc[e][j] = "dead" /\ pc'[e][j] = "dead"
  BY <1>1, MoveStep DEF Live
<1>3. /\ exit' \in [Executors -> BOOLEAN] /\ pending' \in [Executors -> BOOLEAN]
      /\ \A d \in Executors : IF d = e /\ stopped[e] THEN exit'[d] = TRUE
                              ELSE exit'[d] = exit[d]
      /\ \A d \in Executors : IF d = e /\ ~stopped[e] THEN pending'[d] = FALSE
                              ELSE pending'[d] = pending[d]
  BY DEF __should_stop, IInv, TypeInv
<1>4. TypeInv'
  BY <1>1, <1>2, <1>3 DEF IInv, TypeInv
<1>5. ExitInv' /\ WakeInv'
  <2>1. ExitInv'
    BY <1>1, <1>2, <1>3 DEF IInv, ExitInv
  <2>2. WakeInv'
    BY <1>1, <1>2, <1>3 DEF IInv, WakeInv
  <2> QED
    BY <2>1, <2>2
<1>6. RunInv'
  BY <1>1, <1>2 DEF IInv, RunInv, Opening, Live, Executors
<1>7. ClosedInv'
  BY <1>1, <1>2 DEF IInv, ClosedInv, Executors
<1> QED
  BY <1>2, <1>4, <1>5, <1>6, <1>7 DEF IInv

LEMMA RaisesStep ==
  ASSUME IInv, NEW e \in Executors, NEW k \in Thread, Raises(e, k)
  PROVE  IInv'
<1>1. /\ pc[e][k] = "target" /\ Goto(e, k, "exit")
      /\ UNCHANGED <<event, skip, thread, topology, collected, pending>>
  BY DEF Raises
<1>2. /\ KnownInv' /\ pc' \in [Executors -> [Thread -> Labels]]
      /\ pc'[e][k] = "exit"
      /\ \A d \in Executors, j \in Thread :
           d # e \/ j # k => pc'[d][j] = pc[d][j]
  BY <1>1, MoveStep DEF Live, Labels
<1>3. /\ exit' \in [Executors -> BOOLEAN] /\ stopped' \in [Executors -> BOOLEAN]
      /\ exit'[e] /\ stopped'[e]
      /\ \A d \in Executors : d # e => exit'[d] = exit[d] /\ stopped'[d] = stopped[d]
  BY DEF Raises, Stop, IInv, TypeInv
<1>4. TypeInv'
  BY <1>1, <1>2, <1>3 DEF IInv, TypeInv
<1>5. ExitInv' /\ WakeInv'
  <2>1. ExitInv'
    BY <1>1, <1>2, <1>3 DEF IInv, ExitInv
  <2>2. WakeInv'
    BY <1>1, <1>2, <1>3 DEF IInv, WakeInv
  <2> QED
    BY <2>1, <2>2
<1>6. RunInv'
  BY <1>1, <1>2, <1>3 DEF IInv, RunInv, Opening, Live, Executors
<1>7. ClosedInv'
  BY <1>1, <1>2, <1>3 DEF IInv, ClosedInv, Executors
<1> QED
  BY <1>2, <1>4, <1>5, <1>6, <1>7 DEF IInv

LEMMA FreedStep ==
  ASSUME IInv, NEW e \in Executors, NEW k \in Thread, Freed(e, k)
  PROVE  IInv'
<1>1. /\ pc[e][k] = "target" /\ Goto(e, k, "dead")
      /\ UNCHANGED <<exit, event, skip, thread, topology, collected, pending>>
  BY DEF Freed
<1>2. /\ KnownInv' /\ pc' \in [Executors -> [Thread -> Labels]]
      /\ pc'[e][k] = "dead"
      /\ \A d \in Executors, j \in Thread :
           d # e \/ j # k => pc'[d][j] = pc[d][j]
  BY <1>1, MoveStep DEF Live, Labels
<1>3. /\ stopped' \in [Executors -> BOOLEAN] /\ stopped'[e]
      /\ \A d \in Executors : d # e => stopped'[d] = stopped[d]
  BY DEF Freed, Stop, IInv, TypeInv
<1>4. TypeInv'
  BY <1>1, <1>2, <1>3 DEF IInv, TypeInv
<1>5. ExitInv' /\ WakeInv'
  <2>1. ExitInv'
    BY <1>1, <1>2, <1>3 DEF IInv, ExitInv
  <2>2. WakeInv'
    BY <1>1, <1>2, <1>3 DEF IInv, WakeInv
  <2> QED
    BY <2>1, <2>2
<1>6. RunInv'
  BY <1>1, <1>2, <1>3 DEF IInv, RunInv, Opening, Live, Executors
<1>7. ClosedInv'
  BY <1>1, <1>2, <1>3 DEF IInv, ClosedInv, Executors
<1> QED
  BY <1>2, <1>4, <1>5, <1>6, <1>7 DEF IInv

LEMMA ExitStep ==
  ASSUME IInv, NEW e \in Executors, NEW k \in Thread, Exit(e, k)
  PROVE  IInv'
<1>1. /\ pc[e][k] = "exit" /\ Goto(e, k, "dead") /\ stopped[e]
      /\ UNCHANGED <<flags, thread, topology, collected, pending>>
  BY DEF Exit, IInv, ExitInv
<1>2. /\ KnownInv' /\ pc' \in [Executors -> [Thread -> Labels]]
      /\ pc'[e][k] = "dead"
      /\ \A d \in Executors, j \in Thread :
           d # e \/ j # k => pc'[d][j] = pc[d][j]
  BY <1>1, MoveStep DEF Live, Labels
<1>3. TypeInv' /\ ExitInv' /\ WakeInv'
  <2>1. TypeInv'
    BY <1>1, <1>2 DEF IInv, TypeInv, flags
  <2>2. ExitInv'
    BY <1>1, <1>2 DEF IInv, ExitInv, flags
  <2>3. WakeInv'
    BY <1>1, <1>2 DEF IInv, WakeInv, flags
  <2> QED
    BY <2>1, <2>2, <2>3
<1>4. RunInv'
  BY <1>1, <1>2 DEF IInv, RunInv, Opening, Live, Executors, flags
<1>5. ClosedInv'
  BY <1>1, <1>2 DEF IInv, ClosedInv, Executors, flags
<1> QED
  BY <1>2, <1>3, <1>4, <1>5 DEF IInv

\* _event is cleared by a thread that goes on to its target.
LEMMA ClearStep ==
  ASSUME IInv, NEW e \in Executors, NEW k \in Thread, Clear(e, k)
  PROVE  IInv'
<1>1. /\ pc[e][k] = "clear" /\ Goto(e, k, "check")
      /\ UNCHANGED <<stopped, exit, skip, thread, topology, collected, pending>>
  BY DEF Clear
<1>2. /\ KnownInv' /\ pc' \in [Executors -> [Thread -> Labels]]
      /\ pc'[e][k] = "check"
      /\ \A d \in Executors, j \in Thread :
           d # e \/ j # k => pc'[d][j] = pc[d][j]
      /\ \A j \in Thread : j # k => pc'[e][j] = "dead"
  BY <1>1, MoveStep DEF Live, Labels
<1>3. /\ event' \in [Executors -> BOOLEAN]
      /\ \A d \in Executors : d # e => event'[d] = event[d]
  BY DEF Clear, IInv, TypeInv
<1>4. TypeInv' /\ ExitInv'
  BY <1>1, <1>2, <1>3 DEF IInv, TypeInv, ExitInv
<1>5. WakeInv'
  BY <1>1, <1>2, <1>3 DEF IInv, WakeInv
<1>6. RunInv'
  BY <1>1, <1>2 DEF IInv, RunInv, Opening, Live, Executors
<1>7. ClosedInv'
  BY <1>1, <1>2 DEF IInv, ClosedInv, Executors
<1> QED
  BY <1>2, <1>4, <1>5, <1>6, <1>7 DEF IInv

LEMMA ThreadStepIInv ==
  ASSUME IInv, NEW e \in Executors, NEW k \in Thread, ThreadStep(e, k)
  PROVE  IInv'
<1>1. CASE After(e, k)
  <2>1. skip' \in [Executors -> BOOLEAN]
    BY <1>1 DEF After, IInv, TypeInv
  <2>2. CASE skip[e]
    BY <1>1, <2>1, <2>2, LoopStep DEF After, Live, Labels
  <2>3. CASE ~skip[e]
    BY <1>1, <2>1, <2>3, LoopStep DEF After, Live, Labels
  <2> QED
    BY <2>2, <2>3
<1>2. CASE Sleep(e, k)
  <2>1. skip' \in [Executors -> BOOLEAN]
    BY <1>2 DEF Sleep, flags, IInv, TypeInv
  <2> QED
    BY <1>2, <2>1, LoopStep DEF Sleep, flags, Live, Labels
<1> QED
  BY <1>1, <1>2, ShouldStopStep, ExitStep, ClearStep DEF ThreadStep

-----------------------------------------------------------------------------
(* The steps of the targets.                                               *)

LEMMA PingStep ==
  ASSUME IInv, NEW k \in Thread, Ping(k)
  PROVE  IInv'
<1>1. "rtt" \in Executors /\ "after" \in Labels /\ skip' \in [Executors -> BOOLEAN]
  BY DEF Executors, Labels, IInv, TypeInv, Ping, flags
<1> QED
  BY <1>1, LoopStep DEF Ping, flags, Live

LEMMA CheckedStep ==
  ASSUME IInv, NEW k \in Thread, Checked(k)
  PROVE  IInv'
<1>1. "server" \in Executors /\ skip' \in [Executors -> BOOLEAN]
  BY DEF Executors, IInv, TypeInv, Checked
<1>2. CASE Goto("server", k, "rtt_open")
  BY <1>1, <1>2, LoopStep DEF Checked, Live, Labels
<1>3. CASE Goto("server", k, "after")
  BY <1>1, <1>3, LoopStep DEF Checked, Live, Labels
<1> QED
  BY <1>2, <1>3 DEF Checked

LEMMA CloseSelfStep ==
  ASSUME IInv, NEW k \in Thread, CloseSelf(k)
  PROVE  IInv'
<1> DEFINE l == IF pc["server"][k] = "target" THEN "close_rtt" ELSE "after"
           e == IF pc["server"][k] = "target" THEN "server" ELSE "rtt"
<1>1. /\ pc["server"][k] \in {"target", "close_rtt"} /\ l \in Labels
      /\ Goto("server", k, l) /\ Stop(e) /\ e \in Executors /\ "server" \in Executors
      /\ UNCHANGED <<exit, event, skip, thread, topology, collected, pending>>
  BY DEF CloseSelf, Labels, Executors
<1>2. /\ KnownInv' /\ pc' \in [Executors -> [Thread -> Labels]]
      /\ pc'["server"][k] = l
      /\ \A d \in Executors, j \in Thread :
           d # "server" \/ j # k => pc'[d][j] = pc[d][j]
  BY <1>1, MoveStep DEF Live
<1>3. /\ stopped' \in [Executors -> BOOLEAN] /\ stopped'[e]
      /\ \A d \in Executors : stopped[d] => stopped'[d]
      /\ \A d \in Executors : d # e => stopped'[d] = stopped[d]
  BY <1>1 DEF Stop, IInv, TypeInv
<1>4. l \notin {"dead", "exit", "check"}
  OBVIOUS
<1> HIDE DEF l, e
<1>5. TypeInv'
  BY <1>1, <1>2, <1>3 DEF IInv, TypeInv
<1>6. ExitInv'
  BY <1>1, <1>2, <1>3, <1>4 DEF IInv, ExitInv
<1>7. WakeInv'
  BY <1>1, <1>2, <1>4 DEF IInv, WakeInv
<1>8. RunInv'
  BY <1>1, <1>2, <1>3, <1>4 DEF IInv, RunInv, Opening, Live, Executors
<1>9. ClosedInv'
  BY <1>1, <1>2, <1>3 DEF IInv, ClosedInv, Executors
<1> QED
  BY <1>2, <1>5, <1>6, <1>7, <1>8, <1>9 DEF IInv

\* The _RttMonitor is not stopped any more: the thread of the monitor is on its
\* way to look again.
LEMMA RttLockStep ==
  ASSUME IInv, NEW k \in Thread, RttLock(k)
  PROVE  IInv'
<1>1. /\ pc["server"][k] = "rtt_open" /\ "rtt_start" \in Labels
      /\ OpenLock("rtt") /\ Goto("server", k, "rtt_start")
      /\ "server" \in Executors /\ "rtt" \in Executors
      /\ UNCHANGED <<event, skip, thread, topology, collected, pending>>
  BY DEF RttLock, Labels, Executors
<1>2. /\ KnownInv' /\ pc' \in [Executors -> [Thread -> Labels]]
      /\ pc'["server"][k] = "rtt_start"
      /\ \A d \in Executors, j \in Thread :
           d # "server" \/ j # k => pc'[d][j] = pc[d][j]
  BY <1>1, MoveStep DEF Live
<1>3. /\ \A j \in Thread : pc["rtt"][j] # "exit"
      /\ stopped' \in [Executors -> BOOLEAN] /\ exit' \in [Executors -> BOOLEAN]
      /\ stopped'["server"] = stopped["server"] /\ exit'["server"] = exit["server"]
  BY <1>1, LockedOpen DEF IInv, Executors
<1>4. TypeInv'
  BY <1>1, <1>2, <1>3 DEF IInv, TypeInv
<1>5. ExitInv' /\ WakeInv'
  <2>1. ExitInv'
    BY <1>1, <1>2, <1>3 DEF IInv, ExitInv, Executors
  <2>2. WakeInv'
    BY <1>1, <1>2, <1>3 DEF IInv, WakeInv, Executors
  <2> QED
    BY <2>1, <2>2
<1>6. RunInv'
  BY <1>1, <1>2, <1>3 DEF IInv, RunInv, Opening, Live, Executors
<1>7. ClosedInv'
  BY <1>1, <1>2, <1>3 DEF IInv, ClosedInv, Executors
<1> QED
  BY <1>2, <1>4, <1>5, <1>6, <1>7 DEF IInv

LEMMA RttStartStep ==
  ASSUME IInv, NEW k \in Thread, RttStart(k)
  PROVE  IInv'
<1> DEFINE now == [pc EXCEPT !["server"][k] = "recheck"]
<1>1. /\ pc["server"][k] = "rtt_start" /\ OpenStart("rtt", now)
      /\ "server" \in Executors /\ "rtt" \in Executors /\ "recheck" \in Labels
      /\ UNCHANGED <<flags, topology, collected, pending>>
  BY DEF RttStart, Executors, Labels
<1>2. /\ now \in [Executors -> [Thread -> Labels]] /\ now["server"][k] = "recheck"
      /\ \A j \in Thread : now["rtt"][j] = pc["rtt"][j]
      /\ \A j \in Thread : j # k => now["server"][j] = pc["server"][j]
  BY <1>1, PutPc DEF IInv, TypeInv
<1> HIDE DEF now
<1>3. /\ pc' \in [Executors -> [Thread -> Labels]]
      /\ thread' \in [Executors -> SUBSET Thread] /\ thread'["server"] = thread["server"]
      /\ \A j \in Thread : pc'["server"][j] = now["server"][j]
  BY <1>1, <1>2, StartedOpen DEF IInv, Executors
<1>4. PICK i \in Thread :
        /\ Live("rtt", i)' /\ thread'["rtt"] = {i}
        /\ pc'["rtt"][i] = pc["rtt"][i] \/ (~Live("rtt", i) /\ pc'["rtt"][i] = "check")
        /\ \A j \in Thread : j # i => pc'["rtt"][j] = pc["rtt"][j] /\ ~Live("rtt", j)
  BY <1>1, <1>2, StartedOpen DEF IInv
<1>5. TypeInv'
  BY <1>1, <1>3 DEF IInv, TypeInv, flags
<1>6. KnownInv'
  BY <1>1, <1>2, <1>3, <1>4 DEF IInv, KnownInv, Live, Executors
<1>7. ExitInv' /\ WakeInv'
  <2>1. ExitInv'
    BY <1>1, <1>2, <1>3, <1>4 DEF IInv, ExitInv, Live, Executors, flags
  <2>2. WakeInv'
    BY <1>1, <1>2, <1>3, <1>4 DEF IInv, WakeInv, Live, Executors, flags
  <2> QED
    BY <2>1, <2>2
<1>8. RunInv'
  BY <1>1, <1>2, <1>3, <1>4 DEF IInv, RunInv, Opening, Live, Executors, flags
<1>9. ClosedInv'
  BY <1>1, <1>2, <1>3 DEF IInv, ClosedInv, flags
<1> QED
  BY <1>5, <1>6, <1>7, <1>8, <1>9 DEF IInv

\* A monitor that was closed meanwhile closes its _RttMonitor.
LEMMA RecheckStep ==
  ASSUME IInv, NEW k \in Thread, Recheck(k)
  PROVE  IInv'
<1>1. /\ pc["server"][k] = "recheck" /\ Goto("server", k, "after")
      /\ "server" \in Executors /\ "rtt" \in Executors /\ "after" \in Labels
      /\ UNCHANGED <<exit, event, thread, topology, collected, pending>>
  BY DEF Recheck, Executors, Labels
<1>2. /\ KnownInv' /\ pc' \in [Executors -> [Thread -> Labels]]
      /\ pc'["server"][k] = "after" /\ thread["server"] = {k}
      /\ \A d \in Executors, j \in Thread :
           d # "server" \/ j # k => pc'[d][j] = pc[d][j]
  BY <1>1, MoveStep DEF Live
<1>3. /\ stopped' \in [Executors -> BOOLEAN] /\ skip' \in [Executors -> BOOLEAN]
      /\ stopped["server"] => stopped'["rtt"]
      /\ stopped["rtt"] => stopped'["rtt"]
      /\ stopped'["server"] = stopped["server"]
  BY DEF Recheck, Stop, IInv, TypeInv, Executors
<1>4. TypeInv'
  BY <1>1, <1>2, <1>3 DEF IInv, TypeInv
<1>5. ExitInv' /\ WakeInv'
  <2>1. ExitInv'
    BY <1>1, <1>2, <1>3 DEF IInv, ExitInv, Executors
  <2>2. WakeInv'
    BY <1>1, <1>2, <1>3 DEF IInv, WakeInv, Executors
  <2> QED
    BY <2>1, <2>2
<1>6. RunInv'
  BY <1>1, <1>2, <1>3 DEF IInv, RunInv, Opening, Live, Executors
<1>7. ClosedInv'
  BY <1>1, <1>2, <1>3 DEF IInv, ClosedInv
<1> QED
  BY <1>2, <1>4, <1>5, <1>6, <1>7 DEF IInv

-----------------------------------------------------------------------------
(* The steps of the topology.                                              *)

LEMMA OpenStep == IInv /\ open => IInv'
<1> SUFFICES ASSUME IInv, open PROVE IInv'
  OBVIOUS
<1>1. /\ OpenLock("server") /\ topology' = "opening"
      /\ "server" \in Executors /\ "rtt" \in Executors
      /\ UNCHANGED <<event, skip, thread, pc, collected, pending>>
  BY DEF open, Executors
<1>2. /\ \A j \in Thread : pc["server"][j] # "exit"
      /\ stopped' \in [Executors -> BOOLEAN] /\ exit' \in [Executors -> BOOLEAN]
      /\ stopped'["rtt"] = stopped["rtt"] /\ exit'["rtt"] = exit["rtt"]
  BY <1>1, LockedOpen DEF IInv, Executors
<1>3. TypeInv' /\ KnownInv'
  BY <1>1, <1>2 DEF IInv, TypeInv, KnownInv, Live
<1>4. ExitInv' /\ WakeInv'
  <2>1. ExitInv'
    BY <1>1, <1>2 DEF IInv, ExitInv, Executors
  <2>2. WakeInv'
    BY <1>1, <1>2 DEF IInv, WakeInv, Executors
  <2> QED
    BY <2>1, <2>2
<1>5. RunInv' /\ ClosedInv'
  BY <1>1, <1>2 DEF IInv, RunInv, ClosedInv, Opening, Live, Executors
<1> QED
  BY <1>3, <1>4, <1>5 DEF IInv

LEMMA OpenedStep == IInv /\ opened => IInv'
<1> SUFFICES ASSUME IInv, opened PROVE IInv'
  OBVIOUS
<1>1. /\ OpenStart("server", pc) /\ topology = "opening" /\ topology' = "open"
      /\ "server" \in Executors /\ "rtt" \in Executors
      /\ UNCHANGED <<flags, collected, pending>>
  BY DEF opened, Executors
<1>2. pc \in [Executors -> [Thread -> Labels]]
  BY DEF IInv, TypeInv
<1>3. /\ pc' \in [Executors -> [Thread -> Labels]]
      /\ thread' \in [Executors -> SUBSET Thread] /\ thread'["rtt"] = thread["rtt"]
      /\ \A j \in Thread : pc'["rtt"][j] = pc["rtt"][j]
  BY <1>1, <1>2, StartedOpen DEF IInv, Executors
<1>4. PICK i \in Thread :
        /\ Live("server", i)' /\ thread'["server"] = {i}
        /\ pc'["server"][i] = pc["server"][i] \/ (~Live("server", i) /\ pc'["server"][i] = "check")
        /\ \A j \in Thread : j # i => pc'["server"][j] = pc["server"][j] /\ ~Live("server", j)
  BY <1>1, <1>2, StartedOpen DEF IInv
<1>5. TypeInv'
  BY <1>1, <1>3 DEF IInv, TypeInv, flags
<1>6. KnownInv'
  BY <1>1, <1>3, <1>4 DEF IInv, KnownInv, Live, Executors
<1>7. ExitInv' /\ WakeInv'
  <2>1. ExitInv'
    BY <1>1, <1>3, <1>4 DEF IInv, ExitInv, Live, Executors, flags
  <2>2. WakeInv'
    BY <1>1, <1>3, <1>4 DEF IInv, WakeInv, Live, Executors, flags
  <2> QED
    BY <2>1, <2>2
<1>8. RunInv'
  <2>1. CASE pc'["server"][i] = pc["server"][i]
    <3>1. \A j \in Thread : pc'["server"][j] = pc["server"][j]
      BY <1>4, <2>1
    <3> QED
      BY <1>1, <1>3, <1>4, <3>1 DEF IInv, RunInv, Opening, Live, Executors, flags
  <2>2. CASE ~Live("server", i) /\ pc'["server"][i] = "check"
    <3>1. \A j \in Thread : /\ pc["server"][j] # "rtt_start"
                            /\ pc'["server"][j] # "rtt_start"
      BY <1>4, <2>2 DEF Live
    <3> QED
      BY <1>1, <1>3, <1>4, <3>1 DEF IInv, RunInv, Opening, Live, Executors, flags
  <2> QED
    BY <1>4, <2>1, <2>2
<1>9. ClosedInv'
  BY <1>1 DEF ClosedInv
<1> QED
  BY <1>5, <1>6, <1>7, <1>8, <1>9 DEF IInv

LEMMA CloseStep == IInv /\ close => IInv'
<1> SUFFICES ASSUME IInv, close PROVE IInv'
  OBVIOUS
<1>1. /\ topology \in {"open", "closed"} /\ topology' = "close_rtt"
      /\ collected' \in BOOLEAN /\ Stop("server")
      /\ UNCHANGED <<exit, event, skip, thread, pc, pending>>
  BY DEF close
<1>2. /\ stopped' \in [Executors -> BOOLEAN] /\ stopped'["server"]
      /\ stopped'["rtt"] = stopped["rtt"]
  BY <1>1 DEF Stop, IInv, TypeInv, Executors
<1>3. TypeInv' /\ KnownInv'
  BY <1>1, <1>2 DEF IInv, TypeInv, KnownInv, Live
<1>4. ExitInv' /\ WakeInv'
  <2>1. ExitInv'
    BY <1>1, <1>2 DEF IInv, ExitInv, Executors
  <2>2. WakeInv'
    BY <1>1, <1>2 DEF IInv, WakeInv, Executors
  <2> QED
    BY <2>1, <2>2
<1>5. RunInv' /\ ClosedInv'
  BY <1>1, <1>2 DEF IInv, RunInv, ClosedInv, Opening, Live, Executors
<1> QED
  BY <1>3, <1>4, <1>5 DEF IInv

LEMMA ClosedStep == IInv /\ closed => IInv'
<1> SUFFICES ASSUME IInv, closed PROVE IInv'
  OBVIOUS
<1>1. /\ topology \in {"close_rtt", "close_rtt_again"}
      /\ topology' \in {"closed", "close_rtt_again"} /\ Stop("rtt")
      /\ UNCHANGED <<exit, event, skip, thread, pc, collected, pending>>
  BY DEF closed
<1>2. /\ stopped' \in [Executors -> BOOLEAN] /\ stopped'["rtt"]
      /\ stopped'["server"] = stopped["server"]
  BY <1>1 DEF Stop, IInv, TypeInv, Executors
<1>3. TypeInv' /\ KnownInv'
  BY <1>1, <1>2 DEF IInv, TypeInv, KnownInv, Live
<1>4. ExitInv' /\ WakeInv'
  <2>1. ExitInv'
    BY <1>1, <1>2 DEF IInv, ExitInv, Executors
  <2>2. WakeInv'
    BY <1>1, <1>2 DEF IInv, WakeInv, Executors
  <2> QED
    BY <2>1, <2>2
<1>5. RunInv' /\ ClosedInv'
  BY <1>1, <1>2 DEF IInv, RunInv, ClosedInv, Opening, Live, Executors
<1> QED
  BY <1>3, <1>4, <1>5 DEF IInv

LEMMA WakeStep == IInv /\ wake("server") => IInv'
<1> SUFFICES ASSUME IInv, wake("server") PROVE IInv'
  OBVIOUS
<1>1. UNCHANGED <<stopped, exit, skip, thread, pc, topology, collected>>
  BY DEF wake
<1>2. /\ event' \in [Executors -> BOOLEAN] /\ pending' \in [Executors -> BOOLEAN]
      /\ event'["server"]
      /\ event'["rtt"] = event["rtt"] /\ pending'["rtt"] = pending["rtt"]
  BY DEF wake, IInv, TypeInv, Executors
<1>3. TypeInv' /\ KnownInv' /\ ExitInv'
  BY <1>1, <1>2 DEF IInv, TypeInv, KnownInv, ExitInv, Live
<1>4. WakeInv'
  BY <1>1, <1>2 DEF IInv, WakeInv, Executors
<1>5. RunInv' /\ ClosedInv'
  BY <1>1 DEF IInv, RunInv, ClosedInv, Opening, Live
<1> QED
  BY <1>3, <1>4, <1>5 DEF IInv

-----------------------------------------------------------------------------
LEMMA InitIInv == Init => IInv
<1> SUFFICES ASSUME Init PROVE IInv
  OBVIOUS
<1>1. TypeInv
  BY DEF Init, TypeInv, Labels
<1>2. KnownInv /\ ExitInv /\ RunInv /\ WakeInv
  BY DEF Init, KnownInv, ExitInv, RunInv, WakeInv, Live
<1>3. ClosedInv
  BY DEF Init, ClosedInv, Executors
<1> QED
  BY <1>1, <1>2, <1>3 DEF IInv

LEMMA StutterStep == IInv /\ UNCHANGED vars => IInv'
BY DEF vars, flags, IInv, TypeInv, KnownInv, ExitInv, RunInv, WakeInv, ClosedInv,
       Opening, Live

LEMMA StepIInv == IInv /\ [Next]_vars => IInv'
<1> SUFFICES ASSUME IInv, [Next]_vars PROVE IInv'
  OBVIOUS
<1>1. ASSUME NEW k \in Thread, Check(k) PROVE IInv'
  BY <1>1, CheckedStep, CloseSelfStep, RttLockStep, RttStartStep, RecheckStep DEF Check
<1>2. ASSUME NEW k \in Thread, Ping(k) PROVE IInv'
  BY <1>2, PingStep
<1>3. ASSUME NEW k \in Thread, NEW e \in Executors, ThreadStep(e, k) PROVE IInv'
  BY <1>3, ThreadStepIInv
<1>4. ASSUME NEW k \in Thread, NEW e \in Executors, Raises(e, k) PROVE IInv'
  BY <1>4, RaisesStep
<1>5. ASSUME NEW k \in Thread, NEW e \in Executors, Freed(e, k) PROVE IInv'
  BY <1>5, FreedStep
<1> QED
  BY <1>1, <1>2, <1>3, <1>4, <1>5, OpenStep, OpenedStep, CloseStep, ClosedStep, WakeStep,
     StutterStep DEF Next

\* The inductive invariant of the executors.
LEMMA InvariantHolds == Spec => []IInv
BY InitIInv, StepIInv, PTL DEF Spec

-----------------------------------------------------------------------------
\* However opens and closes meet the exit of a thread, an executor has at most
\* one thread, and one that was opened and not stopped since has one that has
\* not decided to exit (open, __should_stop and the exception path of _run).
THEOREM OneThreadHolds == Spec => []OneThread
<1>1. IInv => OneThread
  BY DEF IInv, KnownInv, ExitInv, RunInv, Live, OneThread
<1> QED
  BY <1>1, InvariantHolds, PTL

\* No wake is lost between the end of a target and the naps (_run, wake).
THEOREM WakeNotLostHolds == Spec => []WakeNotLost
<1>1. IInv => WakeNotLost
  BY DEF IInv, WakeInv, WakeNotLost
<1> QED
  BY <1>1, InvariantHolds, PTL

\* A closed monitor whose thread is gone leaves no _RttMonitor behind, in
\* whatever step of _start_rtt_monitor the close came (_start_rtt_monitor,
\* close, gc_safe_close).
THEOREM RttFollowsHolds == Spec => []RttFollows
<1>1. IInv => RttFollows
  BY DEF IInv, ClosedInv, Live, RttFollows
<1> QED
  BY <1>1, InvariantHolds, PTL
=============================================================================
