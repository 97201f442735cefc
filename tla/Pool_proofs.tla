----------------------------- MODULE Pool_proofs -----------------------------
(***************************************************************************)
(* The safety properties of Pool, for any number of threads and any sizes. *)
(*                                                                         *)
(* OneOwner needs to know where a thread holds a connection, where that    *)
(* connection is surely open, and that the numbers of connections are not  *)
(* used again; IdleIsCurrent, that no thread past the first look at closed *)
(* holds a connection of the generation that close left behind, and that   *)
(* what the maintainer adds was opened since its round began; Restored     *)
(* and AtMostOneMore, which threads hold a permit and which are counted.   *)
(***************************************************************************)
EXTENDS Pool, FiniteSetTheorems, TLAPS

ThreadLabels ==
  {"out", "wait", "count", "pop", "popped", "connect", "hello", "use",
   "handle", "closing", "return", "checkin", "release", "uncount"}
RoundLabels ==
  {"out", "trim", "check", "acquire", "connect", "hello", "add", "again",
   "last"}

Types ==
  /\ sem \in Int /\ active \in Int
  /\ sockets \in Seq(SocketInfo) /\ gen \in Nat /\ closed \in BOOLEAN
  /\ next \in Nat /\ open \subseteq SocketInfo /\ ref \in Nat
  /\ pc \in [Actors -> ThreadLabels \cup RoundLabels]
  /\ \A t \in Threads : pc[t] \in ThreadLabels
  /\ pc[Maintainer] \in RoundLabels
  /\ sock \in [Actors -> SocketInfo \cup {None}]
  /\ count \in [Actors \cup {None} -> Nat]
  /\ doomed \in [Resetters -> SUBSET SocketInfo]

Holding ==
  {"popped", "hello", "use", "handle", "closing", "return", "checkin", "add"}
HoldInv == \A a \in Actors : sock[a] # None <=> pc[a] \in Holding

-----------------------------------------------------------------------------
(* Types and labels.                                                       *)

LEMMA InitTypes == Init => Types
<1> SUFFICES ASSUME Init PROVE Types
  OBVIOUS
<1>1. sockets \in Seq(SocketInfo)
  BY DEF Init
<1>2. pc \in [Actors -> ThreadLabels \cup RoundLabels]
  BY DEF Init, ThreadLabels
<1>3. pc[Maintainer] \in RoundLabels /\ \A t \in Threads : pc[t] \in ThreadLabels
  BY DEF Init, ThreadLabels, RoundLabels, Actors
<1>4. sock \in [Actors -> SocketInfo \cup {None}] /\ count \in [Actors \cup {None} -> Nat]
  BY DEF Init
<1>5. doomed \in [Resetters -> SUBSET SocketInfo]
  BY DEF Init
<1> QED
  <2>1. open \subseteq SocketInfo /\ sem \in Int /\ active \in Int
    BY PoolAssumption DEF Init
  <2>2. gen \in Nat /\ next \in Nat /\ ref \in Nat
    BY DEF Init
  <2>3. closed \in BOOLEAN
    BY Zenon DEF Init
  <2> QED
    BY <1>1, <1>2, <1>3, <1>4, <1>5, <2>1, <2>2, <2>3 DEF Types

\* What AppendLeft makes of the deque.
LEMMA AppendLeftType ==
  ASSUME NEW S, NEW q \in Seq(S), NEW s \in S
  PROVE  /\ <<s>> \o q \in Seq(S) /\ Len(<<s>> \o q) = Len(q) + 1
         /\ (<<s>> \o q)[1] = s
         /\ \A i \in 1 .. Len(q) : (<<s>> \o q)[i + 1] = q[i]
OBVIOUS

LEMMA HeadTail ==
  ASSUME NEW S, NEW q \in Seq(S), q # <<>>
  PROVE  Head(q) \in S /\ Tail(q) \in Seq(S)
OBVIOUS

\* What a reset takes out, and what is left of it when it has closed one.
LEMMA TakenOutTypes ==
  ASSUME Types, NEW c \in Resetters, _reset(c)
  PROVE  /\ gen' \in Nat /\ sockets' \in Seq(SocketInfo)
         /\ doomed' \in [Resetters -> SUBSET SocketInfo]
<1>1. Idle \subseteq SocketInfo
  BY DEF Types, Idle
<1>2. <<>> \in Seq(SocketInfo) /\ gen + 1 \in Nat
  BY DEF Types
<1>3. doomed[c] \cup Idle \in SUBSET SocketInfo
  BY <1>1 DEF Types
<1> QED
  BY <1>2, <1>3 DEF _reset, TakeOut, Types

LEMMA CloseSocketTypes ==
  ASSUME Types, NEW c \in Resetters, CloseSocket(c) \/ UNCHANGED <<open, doomed>>
  PROVE  open' \subseteq SocketInfo /\ doomed' \in [Resetters -> SUBSET SocketInfo]
BY DEF CloseSocket, Types

\* Where a step may lead: the labels of the two loops are kept apart.
LEMMA TypesStep == Types /\ HoldInv /\ [Next]_vars => Types'
<1> SUFFICES ASSUME Types, HoldInv, [Next]_vars PROVE Types'
  OBVIOUS
<1> USE PoolAssumption DEF Types, Actors, m
<1>1. ASSUME NEW t \in Threads, BeginOp(t) PROVE Types'
  BY <1>1 DEF BeginOp, Goto, Tick, pool, ThreadLabels, RoundLabels
<1>2. ASSUME NEW t \in Threads, GiveUp(t) \/ Acquire(t) \/ Count(t) \/ Release(t) \/ Uncount(t)
      PROVE  Types'
  <2>1. CASE GiveUp(t)
    BY <2>1 DEF GiveUp, Goto, pool, ThreadLabels, RoundLabels
  <2>2. CASE Acquire(t)
    BY <2>2 DEF Acquire, Goto, pool, ThreadLabels, RoundLabels
  <2>3. CASE Count(t)
    BY <2>3 DEF Count, Goto, pool, ThreadLabels, RoundLabels
  <2>4. CASE Release(t)
    BY <2>4 DEF Release, Goto, pool, ThreadLabels, RoundLabels
  <2>5. CASE Uncount(t)
    BY <2>5 DEF Uncount, Goto, pool, ThreadLabels, RoundLabels
  <2> QED
    BY <1>2, <2>1, <2>2, <2>3, <2>4, <2>5
<1>3. ASSUME NEW t \in Threads, PopLeft(t) PROVE Types'
  <2>1. sockets # <<>> => Head(sockets) \in SocketInfo /\ Tail(sockets) \in Seq(SocketInfo)
    BY HeadTail
  <2>2. CASE sockets = <<>>
    BY <1>3, <2>2 DEF PopLeft, Goto, ThreadLabels, RoundLabels
  <2>3. CASE sockets # <<>>
    <3>1. sockets' \in Seq(SocketInfo) /\ sock' = [sock EXCEPT ![t] = Head(sockets)]
      BY <1>3, <2>1, <2>3 DEF PopLeft, Hold
    <3>2. pc' = [pc EXCEPT ![t] = "popped"]
      BY <1>3, <2>3 DEF PopLeft, Goto
    <3>3. UNCHANGED <<sem, active, gen, closed, next, open, ref, count, doomed>>
      BY <1>3 DEF PopLeft
    <3> QED
      BY <2>1, <2>3, <3>1, <3>2, <3>3 DEF ThreadLabels, RoundLabels
  <2> QED
    BY <2>2, <2>3
<1>4. ASSUME NEW t \in Threads, Perished(t) \/ Use(t) \/ ReturnSocket(t) PROVE Types'
  <2>1. CASE Perished(t)
    BY <2>1 DEF Perished, Goto, Hold, pool, ThreadLabels, RoundLabels
  <2>2. CASE Use(t)
    BY <2>2 DEF Use, Goto, pool, ThreadLabels, RoundLabels
  <2>3. CASE ReturnSocket(t)
    BY <2>3 DEF ReturnSocket, Goto, Hold, pool, ThreadLabels, RoundLabels
  <2> QED
    BY <1>4, <2>1, <2>2, <2>3
<1>5. ASSUME NEW t \in Threads, Handle(t) \/ Closing(t) PROVE Types'
  <2>0. t \in Resetters
    BY DEF Resetters
  <2>1. CASE Handle(t)
    <3>1. /\ gen' \in Nat /\ sockets' \in Seq(SocketInfo)
          /\ doomed' \in [Resetters -> SUBSET SocketInfo]
      BY <2>0, <2>1, TakenOutTypes DEF Handle, _reset
    <3>2. /\ pc' = [pc EXCEPT ![t] = "return"] \/ pc' = [pc EXCEPT ![t] = "closing"]
          /\ UNCHANGED <<sem, active, closed, next, open, sock, ref, count>>
      BY <2>1 DEF Handle, Goto
    <3> QED
      BY <3>1, <3>2 DEF ThreadLabels, RoundLabels
  <2>2. CASE Closing(t)
    <3>1. open' \subseteq SocketInfo /\ doomed' \in [Resetters -> SUBSET SocketInfo]
      BY <2>0, <2>2, CloseSocketTypes DEF Closing
    <3>2. /\ pc' = pc \/ pc' = [pc EXCEPT ![t] = "return"]
          /\ UNCHANGED <<sem, active, pool, next, sock, ref, count>>
      BY <2>2 DEF Closing, Goto
    <3> QED
      BY <3>1, <3>2 DEF ThreadLabels, RoundLabels, pool
  <2> QED
    BY <1>5, <2>1, <2>2
<1>6. ASSUME NEW t \in Threads, CheckIn(t) PROVE Types'
  <2>1. sock[t] \in SocketInfo
    BY <1>6 DEF CheckIn, HoldInv, Holding
  <2>2. <<sock[t]>> \o sockets \in Seq(SocketInfo)
    BY <2>1, AppendLeftType
  <2> QED
    BY <1>6, <2>1, <2>2 DEF CheckIn, AppendLeft, Goto, Hold, ThreadLabels, RoundLabels
<1>7. ASSUME NEW a \in Actors, Connect(a) PROVE Types'
  <2>1. [id |-> next, gen |-> gen] \in SocketInfo
    BY DEF SocketInfo
  <2>2. /\ sock' \in [Actors -> SocketInfo \cup {None}] /\ open' \subseteq SocketInfo
        /\ next' \in Nat
    BY <1>7, <2>1 DEF Connect, Hold
  <2>3. UNCHANGED <<sem, active, sockets, gen, closed, ref, count, doomed>>
    BY <1>7 DEF Connect, pool
  <2>4. pc' = [pc EXCEPT ![a] = "hello"] \/ pc' = [pc EXCEPT ![a] = Failed(a)]
    BY <1>7 DEF Connect, Goto
  <2>5. CASE a = Maintainer
    BY <2>2, <2>3, <2>4, <2>5 DEF Failed, ThreadLabels, RoundLabels
  <2>6. CASE a \in Threads
    BY <2>2, <2>3, <2>4, <2>6 DEF Failed, ThreadLabels, RoundLabels
  <2> QED
    BY <2>5, <2>6
<1>8. ASSUME NEW a \in Actors, Hello(a) PROVE Types'
  <2>1. CASE a = Maintainer
    BY <1>8, <2>1 DEF Hello, Failed, Goto, Hold, pool, ThreadLabels, RoundLabels
  <2>2. CASE a \in Threads
    BY <1>8, <2>2 DEF Hello, Failed, Goto, Hold, pool, ThreadLabels, RoundLabels
  <2> QED
    BY <2>1, <2>2
<1>9. ASSUME BeginRound \/ CheckMin \/ TryAcquire \/ MaintainerRelease PROVE Types'
  <2>1. CASE BeginRound
    BY <2>1 DEF BeginRound, Goto, Tick, pool, ThreadLabels, RoundLabels
  <2>2. CASE CheckMin
    BY <2>2 DEF CheckMin, Goto, pool, ThreadLabels, RoundLabels
  <2>3. CASE TryAcquire
    BY <2>3 DEF TryAcquire, Goto, pool, ThreadLabels, RoundLabels
  <2>4. CASE MaintainerRelease
    BY <2>4 DEF MaintainerRelease, Goto, pool, ThreadLabels, RoundLabels
  <2> QED
    BY <1>9, <2>1, <2>2, <2>3, <2>4
<1>10. ASSUME Trim PROVE Types'
  <2>1. \A k \in 0 .. Len(sockets) : SubSeq(sockets, 1, k) \in Seq(SocketInfo)
    OBVIOUS
  <2> QED
    BY <1>10, <2>1 DEF Trim, Goto, ThreadLabels, RoundLabels
<1>11. ASSUME Add PROVE Types'
  <2>1. sock[m] \in SocketInfo
    BY <1>11 DEF Add, HoldInv, Holding
  <2>2. <<sock[m]>> \o sockets \in Seq(SocketInfo)
    BY <2>1, AppendLeftType
  <2> QED
    BY <1>11, <2>1, <2>2 DEF Add, AppendLeft, Goto, Hold, ThreadLabels, RoundLabels
<1>12. ASSUME Reset \/ Close \/ CloseTakenOut PROVE Types'
  <2>0. None \in Resetters
    BY DEF Resetters
  <2>1. CASE Reset \/ Close
    <3>1. /\ gen' \in Nat /\ sockets' \in Seq(SocketInfo)
          /\ doomed' \in [Resetters -> SUBSET SocketInfo]
      BY <2>0, <2>1, TakenOutTypes DEF Reset, Close
    <3>2. count' \in [Actors \cup {None} -> Nat]
      BY <2>1 DEF Reset, Close, Tick
    <3>3. closed' \in BOOLEAN /\ UNCHANGED <<sem, active, next, open, pc, sock, ref>>
      BY <2>1, Zenon DEF Reset, Close
    <3> QED
      BY <3>1, <3>2, <3>3
  <2>2. CASE CloseTakenOut
    <3>1. open' \subseteq SocketInfo /\ doomed' \in [Resetters -> SUBSET SocketInfo]
      BY <2>0, <2>2, CloseSocketTypes DEF CloseTakenOut
    <3>2. UNCHANGED <<sem, active, sockets, gen, closed, next, pc, sock, ref, count>>
      BY <2>2 DEF CloseTakenOut, pool
    <3> QED
      BY <3>1, <3>2
  <2> QED
    BY <1>12, <2>1, <2>2
<1>13. CASE UNCHANGED vars
  BY <1>13 DEF vars, pool
<1> QED
  BY <1>1, <1>2, <1>3, <1>4, <1>5, <1>6, <1>7, <1>8, <1>9, <1>10, <1>11, <1>12, <1>13
     DEF Next, Step, Round

-----------------------------------------------------------------------------
(* Permits and the count of active connections.                            *)

PermitLabels ==
  {"count", "pop", "popped", "connect", "hello", "use", "handle", "closing",
   "return", "checkin", "release", "add", "again", "last"}
CountedLabels ==
  {"pop", "popped", "connect", "hello", "use", "handle", "closing", "return",
   "checkin", "release", "uncount"}

At(A, labels) == {a \in A : pc[a] \in labels}
Holders == At(Actors, PermitLabels)
Counted == At(Threads, CountedLabels)

Permits ==
  /\ sem >= 0 /\ sem + Cardinality(Holders) = MaxPoolSize
  /\ active = Cardinality(Counted)

\* How the number of threads at some labels changes when one of them moves.
LEMMA OneMoved ==
  ASSUME NEW A, IsFiniteSet(A), NEW a \in A, NEW labels,
         \A b \in A \ {a} : pc'[b] = pc[b]
  PROVE  LET F == At(A, labels)
             G == At(A, labels)'
         IN  /\ IsFiniteSet(F) /\ Cardinality(F) \in Nat
             /\ IsFiniteSet(G) /\ Cardinality(G) \in Nat
             /\ (pc[a] \in labels <=> pc'[a] \in labels)
                  => Cardinality(G) = Cardinality(F)
             /\ pc[a] \notin labels /\ pc'[a] \in labels
                  => Cardinality(G) = Cardinality(F) + 1
             /\ pc[a] \in labels /\ pc'[a] \notin labels
                  => Cardinality(F) = Cardinality(G) + 1
<1> DEFINE F == At(A, labels)
           G == At(A, labels)'
<1>1. IsFiniteSet(F) /\ IsFiniteSet(G)
  BY FS_Subset DEF At
<1>2. Cardinality(F) \in Nat /\ Cardinality(G) \in Nat
  BY <1>1, FS_CardinalityType
<1>3. (pc[a] \in labels <=> pc'[a] \in labels) => G = F
  BY DEF At
<1>4. pc[a] \notin labels /\ pc'[a] \in labels => a \notin F /\ G = F \cup {a}
  BY DEF At
<1>5. pc[a] \in labels /\ pc'[a] \notin labels => a \notin G /\ F = G \cup {a}
  BY DEF At
<1>6. a \notin F => Cardinality(F \cup {a}) = Cardinality(F) + 1
  BY <1>1, FS_AddElement
<1>7. a \notin G => Cardinality(G \cup {a}) = Cardinality(G) + 1
  BY <1>1, FS_AddElement
<1> QED
  BY <1>1, <1>2, <1>3, <1>4, <1>5, <1>6, <1>7

LEMMA FiniteActors == IsFiniteSet(Threads) /\ IsFiniteSet(Actors)
BY PoolAssumption, FS_AddElement DEF Actors

LEMMA InitPermits == Init => Permits
<1> SUFFICES ASSUME Init PROVE Permits
  OBVIOUS
<1>1. Holders = {} /\ Counted = {}
  BY DEF Init, Holders, Counted, At, Actors, PermitLabels, CountedLabels
<1> QED
  BY <1>1, FS_EmptySet, PoolAssumption DEF Init, Permits

\* Every step that takes or gives back a permit, or counts, moves its thread
\* into or out of the labels.
LEMMA PermitsStep == Types /\ Permits /\ [Next]_vars => Permits'
<1> SUFFICES ASSUME Types, Permits, [Next]_vars PROVE Permits'
  OBVIOUS
<1> DEFINE Moves(a) == \A b \in Actors \ {a} : pc'[b] = pc[b]
           Held(a) == pc[a] \in PermitLabels
           Held1(a) == pc'[a] \in PermitLabels
           Cnt(a) == pc[a] \in CountedLabels
           Cnt1(a) == pc'[a] \in CountedLabels
           Permit(a) == \/ (Held(a) <=> Held1(a)) /\ sem' = sem
                        \/ ~Held(a) /\ Held1(a) /\ sem > 0 /\ sem' = sem - 1
                        \/ Held(a) /\ ~Held1(a) /\ sem' = sem + 1
           Count1(a) == \/ (Cnt(a) <=> Cnt1(a)) /\ active' = active
                        \/ ~Cnt(a) /\ Cnt1(a) /\ active' = active + 1
                        \/ Cnt(a) /\ ~Cnt1(a) /\ active' = active - 1
<1>1. ASSUME NEW a \in Actors, Moves(a), Permit(a)
      PROVE  sem' >= 0 /\ sem' + Cardinality(Holders') = MaxPoolSize
  <2> DEFINE F == At(Actors, PermitLabels)
             G == At(Actors, PermitLabels)'
  <2>1. /\ Cardinality(F) \in Nat /\ Cardinality(G) \in Nat
        /\ (Held(a) <=> Held1(a)) => Cardinality(G) = Cardinality(F)
        /\ ~Held(a) /\ Held1(a) => Cardinality(G) = Cardinality(F) + 1
        /\ Held(a) /\ ~Held1(a) => Cardinality(F) = Cardinality(G) + 1
    BY <1>1, OneMoved, FiniteActors
  <2>2. sem >= 0 /\ sem + Cardinality(F) = MaxPoolSize /\ sem \in Int
    BY DEF Permits, Holders, Types
  <2> QED
    BY <1>1, <2>1, <2>2, PoolAssumption DEF Holders
<1>2. ASSUME NEW t \in Threads, Moves(t), Count1(t)
      PROVE  active' = Cardinality(Counted')
  <2> DEFINE F == At(Threads, CountedLabels)
             G == At(Threads, CountedLabels)'
  <2>1. \A b \in Threads \ {t} : pc'[b] = pc[b]
    BY <1>2 DEF Actors
  <2>2. /\ Cardinality(F) \in Nat /\ Cardinality(G) \in Nat
        /\ (Cnt(t) <=> Cnt1(t)) => Cardinality(G) = Cardinality(F)
        /\ ~Cnt(t) /\ Cnt1(t) => Cardinality(G) = Cardinality(F) + 1
        /\ Cnt(t) /\ ~Cnt1(t) => Cardinality(F) = Cardinality(G) + 1
    BY <2>1, OneMoved, FiniteActors
  <2>3. active = Cardinality(F) /\ active \in Int
    BY DEF Permits, Counted, Types
  <2> QED
    BY <1>2, <2>2, <2>3 DEF Counted
<1>3. ASSUME NEW t \in Threads, Moves(t), Permit(t), Count1(t) PROVE Permits'
  <2>1. t \in Actors
    BY DEF Actors
  <2> QED
    BY <1>1, <1>2, <1>3, <2>1 DEF Permits
<1>4. ASSUME Moves(m), Permit(m), active' = active PROVE Permits'
  <2>1. m \in Actors /\ m \notin Threads
    BY PoolAssumption DEF Actors, m
  <2>2. Counted' = Counted
    BY <1>4, <2>1 DEF Counted, At, Actors
  <2> QED
    BY <1>1, <1>4, <2>1, <2>2 DEF Permits
<1> HIDE DEF Permit, Count1, Moves
<1> USE DEF Goto, PermitLabels, CountedLabels
<1>5. ASSUME NEW t \in Threads, BeginOp(t) \/ GiveUp(t) \/ Step(t) PROVE Permits'
  <2> USE DEF Moves, Permit, Count1
  <2>0. pc \in [Actors -> ThreadLabels \cup RoundLabels] /\ t \in Actors /\ t # Maintainer
    BY PoolAssumption DEF Types, Actors
  <2>1. CASE BeginOp(t)
    BY <2>0, <2>1, <1>3 DEF BeginOp
  <2>2. CASE GiveUp(t)
    BY <2>0, <2>2, <1>3 DEF GiveUp
  <2>3. CASE Acquire(t)
    BY <2>0, <2>3, <1>3 DEF Acquire
  <2>4. CASE Count(t)
    BY <2>0, <2>4, <1>3 DEF Count
  <2>5. CASE PopLeft(t)
    BY <2>0, <2>5, <1>3 DEF PopLeft
  <2>6. CASE Perished(t)
    BY <2>0, <2>6, <1>3 DEF Perished
  <2>7. CASE Connect(t)
    BY <2>0, <2>7, <1>3 DEF Connect, Failed
  <2>8. CASE Hello(t)
    BY <2>0, <2>8, <1>3 DEF Hello, Failed
  <2>9. CASE Use(t)
    BY <2>0, <2>9, <1>3 DEF Use
  <2>10. CASE Handle(t)
    BY <2>0, <2>10, <1>3 DEF Handle
  <2>15. CASE Closing(t)
    BY <2>0, <2>15, <1>3 DEF Closing
  <2>11. CASE ReturnSocket(t)
    BY <2>0, <2>11, <1>3 DEF ReturnSocket
  <2>12. CASE CheckIn(t)
    BY <2>0, <2>12, <1>3 DEF CheckIn
  <2>13. CASE Release(t)
    BY <2>0, <2>13, <1>3 DEF Release
  <2>14. CASE Uncount(t)
    BY <2>0, <2>14, <1>3 DEF Uncount
  <2> QED
    BY <1>5, <2>1, <2>2, <2>3, <2>4, <2>5, <2>6, <2>7, <2>8, <2>9, <2>10,
       <2>11, <2>12, <2>13, <2>14, <2>15 DEF Step
<1>6. ASSUME BeginRound \/ Round PROVE Permits'
  <2> USE DEF Moves, Permit
  <2>0. pc \in [Actors -> ThreadLabels \cup RoundLabels] /\ m \in Actors /\ m = Maintainer
    BY DEF Types, Actors, m
  <2>1. CASE BeginRound
    BY <2>0, <2>1, <1>4 DEF BeginRound
  <2>2. CASE Trim
    BY <2>0, <2>2, <1>4 DEF Trim
  <2>3. CASE CheckMin
    BY <2>0, <2>3, <1>4 DEF CheckMin
  <2>4. CASE TryAcquire
    BY <2>0, <2>4, <1>4 DEF TryAcquire
  <2>5. CASE Connect(m)
    BY <2>0, <2>5, <1>4 DEF Connect, Failed
  <2>6. CASE Hello(m)
    BY <2>0, <2>6, <1>4 DEF Hello, Failed
  <2>7. CASE Add
    BY <2>0, <2>7, <1>4 DEF Add
  <2>8. CASE MaintainerRelease
    BY <2>0, <2>8, <1>4 DEF MaintainerRelease
  <2> QED
    BY <1>6, <2>1, <2>2, <2>3, <2>4, <2>5, <2>6, <2>7, <2>8 DEF Round
<1>7. ASSUME UNCHANGED <<sem, active, pc>> PROVE Permits'
  BY <1>7 DEF Permits, Holders, Counted, At
<1> QED
  BY <1>5, <1>6, <1>7 DEF Next, Reset, Close, CloseTakenOut, vars

-----------------------------------------------------------------------------
(* Who owns a connection. The steps are of a few kinds.                    *)

SurelyOpen == {"popped", "hello", "use", "checkin", "add"}
OpenInv == \A a \in Actors : pc[a] \in SurelyOpen => sock[a] \in open

IdInv ==
  /\ \A s \in open : s.id < next
  /\ \A a \in Actors : sock[a] # None => sock[a].id < next

Owned == HoldInv /\ OpenInv /\ IdInv /\ OneOwner

LEMMA InitOwned == Init => Owned
BY DEF Init, Owned, HoldInv, OpenInv, IdInv, OneOwner, Idle, Holding, SurelyOpen, Doomed

LEMMA AppendLeftIdle ==
  ASSUME Types, NEW s \in SocketInfo, AppendLeft(s)
  PROVE  /\ Idle' = Idle \cup {s}
         /\ s \notin Idle /\ (\A i, j \in DOMAIN sockets : sockets[i] = sockets[j] => i = j)
              => \A i, j \in DOMAIN sockets' : sockets'[i] = sockets'[j] => i = j
<1> DEFINE q == <<s>> \o sockets
<1>1. /\ q \in Seq(SocketInfo) /\ Len(q) = Len(sockets) + 1 /\ q[1] = s
      /\ \A i \in 1 .. Len(sockets) : q[i + 1] = sockets[i]
  BY AppendLeftType DEF Types
<1>2. sockets' = q /\ sockets \in Seq(SocketInfo)
  BY DEF AppendLeft, Types
<1>3. DOMAIN q = 1 .. Len(q) /\ DOMAIN sockets = 1 .. Len(sockets) /\ Len(sockets) \in Nat
  BY <1>1, <1>2
<1> HIDE DEF q
<1>4. \A i \in DOMAIN q : i = 1 \/ (i - 1 \in DOMAIN sockets /\ q[i] = sockets[i - 1])
  <2> SUFFICES ASSUME NEW i \in DOMAIN q, i # 1
               PROVE  i - 1 \in DOMAIN sockets /\ q[i] = sockets[i - 1]
    OBVIOUS
  <2>1. i - 1 \in 1 .. Len(sockets) /\ (i - 1) + 1 = i
    BY <1>1, <1>3
  <2> QED
    BY <2>1, <1>1, <1>3
<1>5. Idle' = Idle \cup {s}
  <2>1. \A i \in DOMAIN sockets : i + 1 \in DOMAIN q /\ q[i + 1] = sockets[i]
    BY <1>1, <1>3
  <2>2. 1 \in DOMAIN q
    BY <1>1, <1>3
  <2>3. Idle' = {q[i] : i \in DOMAIN q} /\ Idle = {sockets[i] : i \in DOMAIN sockets}
    BY <1>2 DEF Idle
  <2>4. \A x \in Idle' : x \in Idle \cup {s}
    BY <1>1, <1>4, <2>3
  <2>5. \A x \in Idle \cup {s} : x \in Idle'
    BY <1>1, <2>1, <2>2, <2>3
  <2> QED
    BY <2>4, <2>5
<1>6. ASSUME s \notin Idle, \A i, j \in DOMAIN sockets : sockets[i] = sockets[j] => i = j,
             NEW i \in DOMAIN q, NEW j \in DOMAIN q, q[i] = q[j]
      PROVE  i = j
  <2>1. CASE i = 1
    BY <1>1, <1>4, <1>6, <2>1 DEF Idle
  <2>2. CASE j = 1
    BY <1>1, <1>4, <1>6, <2>2 DEF Idle
  <2>3. CASE i # 1 /\ j # 1
    <3>1. i - 1 = j - 1
      BY <1>4, <1>6, <2>3
    <3> QED
      BY <3>1, <1>3
  <2> QED
    BY <2>1, <2>2, <2>3
<1> QED
  BY <1>2, <1>5, <1>6

LEMMA PopLeftIdle ==
  ASSUME Types, sockets # <<>>, sockets' = Tail(sockets),
         \A i, j \in DOMAIN sockets : sockets[i] = sockets[j] => i = j
  PROVE  /\ Head(sockets) \in Idle /\ Idle' = Idle \ {Head(sockets)}
         /\ \A i, j \in DOMAIN sockets' : sockets'[i] = sockets'[j] => i = j
<1>1. sockets \in Seq(SocketInfo) /\ Len(sockets) \in Nat /\ Len(sockets) > 0
  BY DEF Types
<1>2. /\ Head(sockets) = sockets[1] /\ DOMAIN sockets = 1 .. Len(sockets)
      /\ DOMAIN sockets' = 1 .. Len(sockets) - 1
      /\ \A i \in 1 .. Len(sockets) - 1 : sockets'[i] = sockets[i + 1]
  BY <1>1
<1>3. \A i \in DOMAIN sockets' : i + 1 \in DOMAIN sockets /\ i + 1 # 1 /\ sockets'[i] = sockets[i + 1]
  BY <1>1, <1>2
<1>4. \A i \in DOMAIN sockets : i = 1 \/ (i - 1 \in DOMAIN sockets' /\ sockets'[i - 1] = sockets[i])
  <2> SUFFICES ASSUME NEW i \in DOMAIN sockets, i # 1
               PROVE  i - 1 \in DOMAIN sockets' /\ sockets'[i - 1] = sockets[i]
    OBVIOUS
  <2>1. i - 1 \in 1 .. Len(sockets) - 1 /\ (i - 1) + 1 = i
    BY <1>1, <1>2
  <2> QED
    BY <1>2, <2>1
<1>5. 1 \in DOMAIN sockets
  BY <1>1, <1>2
<1>6. Idle' = Idle \ {Head(sockets)}
  BY <1>2, <1>3, <1>4, <1>5 DEF Idle
<1>7. ASSUME NEW i \in DOMAIN sockets', NEW j \in DOMAIN sockets', sockets'[i] = sockets'[j]
      PROVE  i = j
  <2>1. i + 1 = j + 1
    BY <1>3, <1>7
  <2> QED
    BY <2>1, <1>1, <1>2
<1> QED
  BY <1>2, <1>5, <1>6, <1>7 DEF Idle

LEMMA TrimIdle ==
  ASSUME Types, NEW k \in 0 .. Len(sockets), sockets' = SubSeq(sockets, 1, k),
         \A i, j \in DOMAIN sockets : sockets[i] = sockets[j] => i = j
  PROVE  /\ Idle' = Idle \ {sockets[i] : i \in k + 1 .. Len(sockets)}
         /\ \A i, j \in DOMAIN sockets' : sockets'[i] = sockets'[j] => i = j
<1>1. sockets \in Seq(SocketInfo) /\ Len(sockets) \in Nat /\ k \in Nat /\ k <= Len(sockets)
  BY DEF Types
<1>2. /\ DOMAIN sockets = 1 .. Len(sockets) /\ DOMAIN sockets' = 1 .. k
      /\ \A i \in 1 .. k : sockets'[i] = sockets[i]
  BY <1>1
<1>3. \A i \in DOMAIN sockets : i \in 1 .. k \/ i \in k + 1 .. Len(sockets)
  BY <1>1, <1>2
<1>4. \A i \in 1 .. k : i \in DOMAIN sockets /\ i \notin k + 1 .. Len(sockets)
  BY <1>1, <1>2
<1>5. \A i \in k + 1 .. Len(sockets) : i \in DOMAIN sockets
  BY <1>1, <1>2
<1> QED
  BY <1>2, <1>3, <1>4, <1>5 DEF Idle

\* A thread goes on and keeps what it has.
LEMMA Keeps ==
  ASSUME Types, Owned, NEW a \in Actors, NEW l, pc' = [pc EXCEPT ![a] = l],
         l \in Holding <=> pc[a] \in Holding,
         l \in SurelyOpen => sock[a] \in open,
         UNCHANGED <<sockets, open, sock, next, doomed>>
  PROVE  Owned'
<1>1. \A b \in Actors : pc'[b] = IF b = a THEN l ELSE pc[b]
  BY DEF Types
<1>2. HoldInv'
  BY <1>1 DEF Owned, HoldInv
<1>3. OpenInv'
  BY <1>1 DEF Owned, OpenInv
<1>4. IdInv' /\ OneOwner'
  BY DEF Owned, IdInv, OneOwner, Idle, Doomed
<1> QED
  BY <1>2, <1>3, <1>4 DEF Owned

\* A thread closes the connection it has, to go on with it or to drop it.
LEMMA Closes ==
  ASSUME Types, Owned, NEW a \in Actors, NEW l, pc' = [pc EXCEPT ![a] = l],
         sock[a] # None, open' = open \ {sock[a]}, l \notin SurelyOpen,
         \/ l \in Holding /\ sock' = sock
         \/ l \notin Holding /\ sock' = [sock EXCEPT ![a] = None],
         UNCHANGED <<sockets, next, doomed>>
  PROVE  Owned'
<1>1. Idle' = Idle /\ Doomed' = Doomed
  BY DEF Idle, Doomed
<1>2. \A b \in Actors : sock'[b] = IF b = a /\ l \notin Holding THEN None ELSE sock[b]
  BY DEF Types
<1>3. HoldInv'
  BY <1>2 DEF Types, Owned, HoldInv
<1>4. OpenInv' /\ IdInv'
  <2>1. \A b \in Actors : pc'[b] \in SurelyOpen => b # a /\ pc'[b] = pc[b]
    BY DEF Types
  <2>2. \A b \in Actors : b # a /\ sock[b] # None => sock[b] # sock[a]
    BY DEF Owned, OneOwner
  <2>3. SurelyOpen \subseteq Holding
    BY DEF SurelyOpen, Holding
  <2> QED
    BY <1>2, <2>1, <2>2, <2>3 DEF Owned, OpenInv, IdInv, HoldInv
<1>5. OneOwner'
  BY <1>1, <1>2 DEF Owned, OneOwner
<1> QED
  BY <1>3, <1>4, <1>5 DEF Owned

\* A thread puts the connection it has into the deque.
LEMMA Returns ==
  ASSUME Types, Owned, NEW a \in Actors, NEW l, pc' = [pc EXCEPT ![a] = l],
         pc[a] \in SurelyOpen \cap Holding, l \notin Holding,
         AppendLeft(sock[a]), sock' = [sock EXCEPT ![a] = None],
         UNCHANGED <<open, next, doomed>>
  PROVE  Owned'
<1>1. sock[a] \in SocketInfo /\ sock[a] # None /\ sock[a] \in open
  BY DEF Types, Owned, HoldInv, OpenInv
<1>2. /\ Idle' = Idle \cup {sock[a]}
      /\ \A i, j \in DOMAIN sockets' : sockets'[i] = sockets'[j] => i = j
  BY <1>1, AppendLeftIdle DEF Owned, OneOwner
<1>3. \A b \in Actors : sock'[b] = IF b = a THEN None ELSE sock[b]
  BY DEF Types
<1>4. HoldInv' /\ OpenInv' /\ IdInv'
  <2>1. SurelyOpen \subseteq Holding
    BY DEF SurelyOpen, Holding
  <2> QED
    BY <1>3, <2>1 DEF Types, Owned, HoldInv, OpenInv, IdInv
<1>5. OneOwner'
  <2>1. Doomed' = Doomed
    BY DEF Doomed
  <2> QED
    BY <1>1, <1>2, <1>3, <2>1 DEF Owned, OneOwner
<1> QED
  BY <1>4, <1>5 DEF Owned

\* A thread takes the connection at the left end.
LEMMA Pops ==
  ASSUME Types, Owned, NEW a \in Actors, pc' = [pc EXCEPT ![a] = "popped"],
         pc[a] \notin Holding, sockets # <<>>, sockets' = Tail(sockets),
         sock' = [sock EXCEPT ![a] = Head(sockets)],
         UNCHANGED <<open, next, doomed>>
  PROVE  Owned'
<1>1. /\ Head(sockets) \in Idle /\ Idle' = Idle \ {Head(sockets)}
      /\ \A i, j \in DOMAIN sockets' : sockets'[i] = sockets'[j] => i = j
  BY PopLeftIdle DEF Owned, OneOwner
<1>2. Head(sockets) # None /\ Head(sockets) \in open
  BY <1>1, PoolAssumption DEF Owned, OneOwner, Types, SocketInfo
<1>3. \A b \in Actors : sock'[b] = IF b = a THEN Head(sockets) ELSE sock[b]
  BY DEF Types
<1>4. HoldInv' /\ OpenInv' /\ IdInv'
  BY <1>2, <1>3 DEF Types, Owned, HoldInv, OpenInv, IdInv, Holding
<1>5. OneOwner'
  <2>0. Doomed' = Doomed
    BY DEF Doomed
  <2>1. sock[a] = None
    BY DEF Owned, HoldInv
  <2>2. \A b \in Actors : sock[b] # None => sock[b] # Head(sockets)
    BY <1>1 DEF Owned, OneOwner
  <2>3. \A r \in open' : r \in Idle' \cup Doomed' \/ \E b \in Actors : r = sock'[b]
    <3>1. TAKE r \in open'
    <3>2. r \in Idle \cup Doomed \/ \E b \in Actors : r = sock[b]
      BY <3>1 DEF Owned, OneOwner
    <3>3. CASE r \in Idle \cup Doomed
      BY <1>1, <1>3, <2>0, <3>3
    <3>4. ASSUME NEW b \in Actors, r = sock[b] PROVE sock'[b] = r
      <4>1. r # None
        BY <3>1, PoolAssumption DEF Types, SocketInfo
      <4> QED
        BY <1>3, <2>1, <3>4, <4>1
    <3> QED
      BY <3>2, <3>3, <3>4
  <2>4. Idle' \cup Doomed' \subseteq open' /\ Idle' \cap Doomed' = {}
    BY <1>1, <2>0 DEF Owned, OneOwner
  <2>5. ASSUME NEW b \in Actors, sock'[b] # None
        PROVE  /\ sock'[b] \notin Idle' \cup Doomed'
               /\ \A c \in Actors : sock'[c] = sock'[b] => c = b
    BY <1>1, <1>3, <2>0, <2>1, <2>2, <2>5 DEF Owned, OneOwner
  <2> QED
    BY <1>1, <2>3, <2>4, <2>5 DEF Owned, OneOwner
<1> QED
  BY <1>4, <1>5 DEF Owned

\* A thread opens a connection; its number is a new one.
LEMMA Opens ==
  ASSUME Types, Owned, NEW a \in Actors, pc' = [pc EXCEPT ![a] = "hello"],
         pc[a] \notin Holding, NEW s \in SocketInfo, s.id = next,
         sock' = [sock EXCEPT ![a] = s], open' = open \cup {s},
         next' = next + 1, UNCHANGED <<sockets, doomed>>
  PROVE  Owned'
<1>1. s # None /\ s \notin open /\ \A b \in Actors : sock[b] # s
  BY PoolAssumption DEF Owned, IdInv, Types, SocketInfo
<1>2. \A b \in Actors : sock'[b] = IF b = a THEN s ELSE sock[b]
  BY DEF Types
<1>3. HoldInv' /\ OpenInv'
  BY <1>1, <1>2 DEF Types, Owned, HoldInv, OpenInv, Holding
<1>4. IdInv'
  <2>1. \A r \in SocketInfo : r.id < next => r.id < next'
    BY DEF Types, SocketInfo
  <2>2. s.id < next'
    BY DEF Types
  <2> QED
    BY <1>2, <2>1, <2>2 DEF Types, Owned, IdInv
<1>5. OneOwner'
  <2>0. Doomed' = Doomed /\ s \notin Doomed
    BY <1>1 DEF Doomed, Owned, OneOwner
  <2>1. Idle' = Idle /\ s \notin Idle
    BY <1>1 DEF Idle, Owned, OneOwner
  <2>2. sock[a] = None
    BY DEF Owned, HoldInv
  <2>3. \A r \in open' : r \in Idle' \cup Doomed' \/ \E b \in Actors : r = sock'[b]
    <3>1. TAKE r \in open'
    <3>2. r = s \/ r \in Idle \cup Doomed \/ \E b \in Actors : r = sock[b]
      BY <3>1 DEF Owned, OneOwner
    <3>3. ASSUME NEW b \in Actors, r = sock[b], r # s PROVE sock'[b] = r
      <4>1. r # None
        BY <3>1, <3>3, PoolAssumption DEF Types, SocketInfo
      <4> QED
        BY <1>2, <2>2, <3>3, <4>1
    <3> QED
      BY <1>2, <2>0, <2>1, <3>2, <3>3
  <2>4. Idle' \cup Doomed' \subseteq open' /\ Idle' \cap Doomed' = {}
    BY <2>0, <2>1 DEF Owned, OneOwner
  <2>5. ASSUME NEW b \in Actors, sock'[b] # None
        PROVE  /\ sock'[b] \notin Idle' \cup Doomed'
               /\ \A c \in Actors : sock'[c] = sock'[b] => c = b
    BY <1>1, <1>2, <2>0, <2>1, <2>2, <2>5 DEF Owned, OneOwner
  <2> QED
    BY <2>1, <2>3, <2>4, <2>5 DEF Owned, OneOwner
<1> QED
  BY <1>3, <1>4, <1>5 DEF Owned

\* Idle connections are closed and leave the deque.
LEMMA Drops ==
  ASSUME Types, Owned, NEW gone \in SUBSET Idle, open' = open \ gone,
         Idle' = Idle \ gone,
         \A i, j \in DOMAIN sockets' : sockets'[i] = sockets'[j] => i = j,
         UNCHANGED <<sock, next, doomed>>,
         \A a \in Actors : /\ pc'[a] \in Holding <=> pc[a] \in Holding
                           /\ pc'[a] \in SurelyOpen => pc[a] \in SurelyOpen
  PROVE  Owned'
<1>0. sock' = sock /\ next' = next /\ open' \subseteq open
  OBVIOUS
<1>1. HoldInv' /\ IdInv'
  <2>1. HoldInv'
    BY <1>0 DEF Owned, HoldInv
  <2>2. IdInv'
    BY <1>0 DEF Owned, IdInv
  <2> QED
    BY <2>1, <2>2
<1>2. OpenInv'
  <2>1. \A a \in Actors : sock[a] # None => sock[a] \notin gone
    BY DEF Owned, OneOwner
  <2>2. SurelyOpen \subseteq Holding
    BY DEF SurelyOpen, Holding
  <2>3. ASSUME NEW a \in Actors, pc'[a] \in SurelyOpen PROVE sock'[a] \in open'
    <3>1. pc[a] \in SurelyOpen
      BY <2>3
    <3>2. sock[a] \in open /\ sock[a] # None
      BY <2>2, <3>1 DEF Owned, OpenInv, HoldInv
    <3> QED
      BY <1>0, <2>1, <3>2
  <2> QED
    BY <2>3 DEF OpenInv
<1>3. OneOwner'
  <2>1. Doomed' = Doomed
    BY DEF Doomed
  <2> QED
    BY <2>1 DEF Owned, OneOwner
<1> QED
  BY <1>1, <1>2, <1>3 DEF Owned

\* A reset takes the idle connections out.
LEMMA TakesOut ==
  ASSUME Types, Owned, NEW c \in Resetters, TakeOut(c),
         UNCHANGED <<open, sock, next>>,
         \A a \in Actors : /\ pc'[a] \in Holding <=> pc[a] \in Holding
                           /\ pc'[a] \in SurelyOpen => pc[a] \in SurelyOpen
  PROVE  Owned'
<1>1. HoldInv' /\ IdInv' /\ OpenInv'
  BY DEF Owned, HoldInv, IdInv, OpenInv
<1>2. Idle' = {} /\ sockets' = <<>>
  BY DEF TakeOut, Idle
<1>3. \A d \in Resetters : doomed'[d] = IF d = c THEN doomed[c] \cup Idle ELSE doomed[d]
  BY DEF TakeOut, Types
<1>4. Doomed' = Doomed \cup Idle
  BY <1>3 DEF Doomed
<1>5. \A d \in Resetters : doomed[d] \subseteq Doomed
  BY DEF Doomed
<1>6. \A d, e \in Resetters : d # e => doomed'[d] \cap doomed'[e] = {}
  BY <1>3, <1>5 DEF Owned, OneOwner
<1> QED
  BY <1>1, <1>2, <1>4, <1>6 DEF Owned, OneOwner

\* A reset closes one of those it took out.
LEMMA ClosesTaken ==
  ASSUME Types, Owned, NEW c \in Resetters, CloseSocket(c),
         UNCHANGED <<sockets, sock, next, pc>>
  PROVE  Owned'
<1>1. PICK s \in doomed[c] :
        open' = open \ {s} /\ doomed' = [doomed EXCEPT ![c] = @ \ {s}]
  BY DEF CloseSocket
<1>2. \A d \in Resetters : doomed'[d] = IF d = c THEN doomed[c] \ {s} ELSE doomed[d]
  BY <1>1 DEF Types
<1>3. \A d \in Resetters : d # c => s \notin doomed[d]
  BY <1>1 DEF Owned, OneOwner
<1>4. Doomed' = Doomed \ {s} /\ s \in Doomed
  BY <1>1, <1>2, <1>3 DEF Doomed
<1>5. \A a \in Actors : sock[a] # None => sock[a] # s
  BY <1>4 DEF Owned, OneOwner
<1>6. HoldInv' /\ IdInv'
  BY <1>1 DEF Owned, HoldInv, IdInv
<1>7. OpenInv'
  <2>1. SurelyOpen \subseteq Holding
    BY DEF SurelyOpen, Holding
  <2> QED
    BY <1>1, <1>5, <2>1 DEF Owned, OpenInv, HoldInv
<1>8. Idle' = Idle
  BY DEF Idle
<1>9. \A d, e \in Resetters : d # e => doomed'[d] \cap doomed'[e] = {}
  BY <1>2 DEF Owned, OneOwner
<1> QED
  BY <1>1, <1>4, <1>6, <1>7, <1>8, <1>9 DEF Owned, OneOwner

LEMMA OwnedStep == Types /\ Owned /\ [Next]_vars => Owned'
<1> SUFFICES ASSUME Types, Owned, [Next]_vars PROVE Owned'
  OBVIOUS
<1> USE DEF Goto, Hold
<1>0. \A a \in Actors : sock[a] # None <=> pc[a] \in Holding
  BY DEF Owned, HoldInv
<1>1. ASSUME NEW a \in Actors, Connect(a) PROVE Owned'
  <2>1. CASE pc' = [pc EXCEPT ![a] = Failed(a)] /\ UNCHANGED <<sock, open, next>>
    BY <1>1, <2>1, Keeps DEF Connect, Failed, Holding, SurelyOpen, pool
  <2>2. CASE LET s == [id |-> next, gen |-> gen] IN
               /\ sock' = [sock EXCEPT ![a] = s] /\ open' = open \cup {s}
               /\ next' = next + 1 /\ pc' = [pc EXCEPT ![a] = "hello"]
    <3>1. [id |-> next, gen |-> gen] \in SocketInfo
      BY DEF Types, SocketInfo
    <3> QED
      BY <1>1, <2>2, <3>1, Opens DEF Connect, Holding, pool
  <2> QED
    BY <1>1, <2>1, <2>2 DEF Connect
<1>2. ASSUME NEW a \in Actors, Hello(a) PROVE Owned'
  <2>1. CASE open' = open \ {sock[a]}
    BY <1>0, <1>2, <2>1, Closes DEF Hello, Failed, Holding, SurelyOpen, pool, Owned, OpenInv
  <2>2. CASE UNCHANGED <<open, sock>>
    <3>1. PICK l \in {"add", "use"} : pc' = [pc EXCEPT ![a] = l]
      BY <1>0, <1>2, <2>2 DEF Hello, Types, Owned, HoldInv, Holding
    <3> QED
      BY <1>2, <2>2, <3>1, Keeps DEF Hello, Holding, SurelyOpen, pool, Owned, OpenInv
  <2> QED
    BY <1>2, <2>1, <2>2 DEF Hello
<1>3. ASSUME NEW t \in Threads, BeginOp(t) \/ GiveUp(t) \/ Step(t) PROVE Owned'
  <2>0. t \in Actors
    BY DEF Actors
  <2>1. CASE BeginOp(t) \/ GiveUp(t)
    BY <2>0, <2>1, Keeps DEF BeginOp, GiveUp, pool, Holding, SurelyOpen
  <2>2. CASE Acquire(t) \/ Count(t) \/ Release(t) \/ Uncount(t)
    BY <2>0, <2>2, Keeps DEF Acquire, Count, Release, Uncount, pool, Holding, SurelyOpen
  <2>3. CASE PopLeft(t)
    <3>1. CASE sockets = <<>>
      BY <2>0, <2>3, <3>1, Keeps DEF PopLeft, Holding, SurelyOpen
    <3>2. CASE sockets # <<>>
      BY <2>0, <2>3, <3>2, Pops DEF PopLeft, Holding
    <3> QED
      BY <3>1, <3>2
  <2>4. CASE Perished(t)
    <3>1. CASE UNCHANGED <<open, sock>> /\ pc' = [pc EXCEPT ![t] = "use"]
      BY <2>0, <2>4, <3>1, Keeps DEF Perished, Holding, SurelyOpen, Owned, OpenInv, pool
    <3>2. CASE open' = open \ {sock[t]}
      <4>1. \/ pc' = [pc EXCEPT ![t] = "use"] /\ sock' = sock /\ open' = open
            \/ pc' = [pc EXCEPT ![t] = "pop"] /\ sock' = [sock EXCEPT ![t] = None]
        BY <2>4 DEF Perished
      <4>2. pc[t] = "popped" /\ sock[t] # None /\ UNCHANGED <<sockets, next, doomed>>
        BY <1>0, <2>0, <2>4 DEF Perished, Holding, pool
      <4>3. "pop" \notin SurelyOpen /\ "pop" \notin Holding
        BY DEF SurelyOpen, Holding
      <4>4. CASE sock' = sock /\ open' = open /\ pc' = [pc EXCEPT ![t] = "use"]
        BY <2>0, <2>4, <4>2, <4>4, Keeps DEF Holding, SurelyOpen, Owned, OpenInv
      <4> QED
        BY <2>0, <3>2, <4>1, <4>2, <4>3, <4>4, Closes
    <3> QED
      BY <2>4, <3>1, <3>2 DEF Perished
  <2>5. CASE Use(t)
    <3>1. CASE UNCHANGED open /\ pc' = [pc EXCEPT ![t] = "return"]
      BY <2>0, <2>5, <3>1, Keeps DEF Use, Holding, SurelyOpen, pool
    <3>2. CASE open' = open \ {sock[t]} /\ pc' = [pc EXCEPT ![t] = "handle"]
      BY <1>0, <2>0, <2>5, <3>2, Closes DEF Use, Holding, SurelyOpen, pool
    <3>3. CASE UNCHANGED open /\ pc' = [pc EXCEPT ![t] = "handle"]
      BY <2>0, <2>5, <3>3, Keeps DEF Use, Holding, SurelyOpen, pool
    <3> QED
      BY <2>5, <3>1, <3>2, <3>3 DEF Use
  <2>6. CASE Handle(t)
    <3>1. CASE UNCHANGED <<gen, sockets, doomed>> /\ pc' = [pc EXCEPT ![t] = "return"]
      BY <2>0, <2>6, <3>1, Keeps DEF Handle, Holding, SurelyOpen
    <3>2. CASE _reset(t) /\ pc' = [pc EXCEPT ![t] = "closing"]
      <4>1. \A a \in Actors : /\ pc'[a] \in Holding <=> pc[a] \in Holding
                              /\ pc'[a] \in SurelyOpen => pc[a] \in SurelyOpen
        BY <2>0, <2>6, <3>2 DEF Handle, Types, Holding, SurelyOpen
      <4>2. TakeOut(t) /\ UNCHANGED <<open, sock, next>> /\ t \in Resetters
        BY <2>6, <3>2 DEF Handle, _reset, Resetters
      <4> QED
        BY <4>1, <4>2, TakesOut
    <3> QED
      BY <2>6, <3>1, <3>2 DEF Handle
  <2>9. CASE Closing(t)
    <3>1. CASE CloseSocket(t) /\ UNCHANGED pc
      BY <2>9, <3>1, ClosesTaken DEF Closing, Resetters, pool
    <3>2. CASE UNCHANGED <<open, doomed>> /\ pc' = [pc EXCEPT ![t] = "return"]
      BY <2>0, <2>9, <3>2, Keeps DEF Closing, Holding, SurelyOpen, pool
    <3> QED
      BY <2>9, <3>1, <3>2 DEF Closing
  <2>7. CASE ReturnSocket(t)
    <3>1. CASE UNCHANGED <<open, sock>> /\ sock[t] \in open /\ pc' = [pc EXCEPT ![t] = "checkin"]
      BY <2>0, <2>7, <3>1, Keeps DEF ReturnSocket, Holding, SurelyOpen, pool
    <3>2. CASE /\ open' = open \ {sock[t]} /\ pc' = [pc EXCEPT ![t] = "release"]
               /\ sock' = [sock EXCEPT ![t] = None]
      BY <1>0, <2>0, <2>7, <3>2, Closes DEF ReturnSocket, Holding, SurelyOpen, pool
    <3> QED
      BY <2>7, <3>1, <3>2 DEF ReturnSocket
  <2>8. CASE CheckIn(t)
    <3>1. CASE AppendLeft(sock[t]) /\ UNCHANGED open
      BY <2>0, <2>8, <3>1, Returns DEF CheckIn, Holding, SurelyOpen
    <3>2. CASE open' = open \ {sock[t]} /\ UNCHANGED sockets
      BY <1>0, <2>0, <2>8, <3>2, Closes DEF CheckIn, Holding, SurelyOpen
    <3> QED
      BY <2>8, <3>1, <3>2 DEF CheckIn
  <2> QED
    BY <1>1, <1>2, <1>3, <2>0, <2>1, <2>2, <2>3, <2>4, <2>5, <2>6, <2>7, <2>8, <2>9 DEF Step
<1>4. ASSUME BeginRound \/ CheckMin \/ TryAcquire \/ MaintainerRelease PROVE Owned'
  <2>0. m \in Actors
    BY DEF Actors, m
  <2>1. CASE BeginRound
    BY <2>0, <2>1, Keeps DEF BeginRound, pool, Holding, SurelyOpen
  <2>2. CASE CheckMin
    BY <2>0, <2>2, Keeps DEF CheckMin, pool, Holding, SurelyOpen
  <2>3. CASE TryAcquire
    BY <2>0, <2>3, Keeps DEF TryAcquire, pool, Holding, SurelyOpen
  <2>4. CASE MaintainerRelease
    BY <2>0, <2>4, Keeps DEF MaintainerRelease, pool, Holding, SurelyOpen
  <2> QED
    BY <1>4, <2>1, <2>2, <2>3, <2>4
<1>5. ASSUME Trim PROVE Owned'
  <2>1. PICK k \in 0 .. Len(sockets) :
          /\ sockets' = SubSeq(sockets, 1, k)
          /\ open' = open \ {sockets[i] : i \in k + 1 .. Len(sockets)}
    BY <1>5 DEF Trim
  <2>2. /\ Idle' = Idle \ {sockets[i] : i \in k + 1 .. Len(sockets)}
        /\ \A i, j \in DOMAIN sockets' : sockets'[i] = sockets'[j] => i = j
    BY <2>1, TrimIdle DEF Owned, OneOwner
  <2>3. {sockets[i] : i \in k + 1 .. Len(sockets)} \in SUBSET Idle
    BY DEF Idle, Types
  <2>4. \A a \in Actors : /\ pc[a] \in Holding <=> pc'[a] \in Holding
                          /\ pc'[a] \in SurelyOpen => pc[a] \in SurelyOpen
    BY <1>5 DEF Trim, Types, Holding, SurelyOpen
  <2>5. UNCHANGED <<sock, next, doomed>>
    BY <1>5 DEF Trim
  <2> DEFINE gone == {sockets[i] : i \in k + 1 .. Len(sockets)}
  <2> QED
    BY <2>1, <2>2, <2>3, <2>4, <2>5, Drops
<1>6. ASSUME Add PROVE Owned'
  <2>0. m \in Actors
    BY DEF Actors, m
  <2>1. CASE AppendLeft(sock[m]) /\ UNCHANGED open
    BY <2>0, <1>6, <2>1, Returns DEF Add, Holding, SurelyOpen
  <2>2. CASE open' = open \ {sock[m]} /\ UNCHANGED sockets
    BY <1>0, <2>0, <1>6, <2>2, Closes DEF Add, Holding, SurelyOpen
  <2> QED
    BY <1>6, <2>1, <2>2 DEF Add
<1>7. ASSUME Reset \/ Close \/ CloseTakenOut PROVE Owned'
  <2>0. None \in Resetters
    BY DEF Resetters
  <2>1. CASE Reset \/ Close
    <3>1. TakeOut(None) /\ UNCHANGED <<open, sock, next, pc>>
      BY <2>1 DEF Reset, Close, _reset
    <3> QED
      BY <2>0, <3>1, TakesOut
  <2>2. CASE CloseTakenOut
    BY <2>0, <2>2, ClosesTaken DEF CloseTakenOut, pool
  <2> QED
    BY <1>7, <2>1, <2>2
<1>8. CASE UNCHANGED vars
  BY <1>8 DEF vars, pool, Owned, HoldInv, OpenInv, IdInv, OneOwner, Idle, Doomed
<1> QED
  BY <1>1, <1>2, <1>3, <1>4, <1>5, <1>6, <1>7, <1>8 DEF Next, Round, Actors, m
-----------------------------------------------------------------------------
(* Generations.                                                            *)

CurrentInv ==
  /\ \A a \in Actors : sock[a] # None => sock[a].gen <= gen
  /\ ref <= gen
  /\ pc[Maintainer] \in {"hello", "add"} => ref <= sock[Maintainer].gen
  /\ closed => \A t \in Threads : pc[t] = "checkin" => sock[t].gen < gen
  /\ closed /\ pc[Maintainer] # "out" => ref < gen
  /\ IdleIsCurrent

LEMMA InitCurrent == Init => CurrentInv
BY DEF Init, CurrentInv, IdleIsCurrent, Idle, Actors

\* A step that leaves the deque and the generation alone.
LEMMA SameGeneration ==
  ASSUME Types, CurrentInv, UNCHANGED pool
  PROVE  IdleIsCurrent'
BY DEF CurrentInv, IdleIsCurrent, pool, Idle

\* A step that opens no connection and begins no round.
LEMMA Stays ==
  ASSUME Types, CurrentInv, IdleIsCurrent', UNCHANGED <<gen, closed, ref>>,
         \A b \in Actors : sock'[b] # None => sock'[b] = sock[b],
         \A t \in Threads : pc'[t] = "checkin" =>
           ~closed \/ (pc[t] = "checkin" /\ sock'[t] = sock[t]),
         pc'[Maintainer] \in {"hello", "add"} =>
           /\ pc[Maintainer] \in {"hello", "add"}
           /\ sock'[Maintainer] = sock[Maintainer],
         pc'[Maintainer] # "out" => pc[Maintainer] # "out"
  PROVE  CurrentInv'
BY DEF CurrentInv

\* A reset outdates every connection that is out, and every round under way.
LEMMA AfterReset ==
  ASSUME Types, Owned, CurrentInv, NEW c, _reset(c), UNCHANGED <<sock, ref>>,
         \A a \in Actors : pc'[a] = pc[a] \/ pc'[a] = "closing"
  PROVE  CurrentInv'
<1>1. gen' = gen + 1 /\ gen \in Nat /\ ref \in Nat
  BY DEF _reset, Types
<1>2. ref' <= gen' /\ ref' < gen'
  BY <1>1 DEF CurrentInv
<1>3. \A a \in Actors : sock'[a] # None => sock'[a].gen <= gen' /\ sock'[a].gen < gen'
  <2> SUFFICES ASSUME NEW a \in Actors, sock[a] # None
               PROVE  sock[a].gen <= gen + 1 /\ sock[a].gen < gen + 1
    BY <1>1
  <2>1. sock[a].gen \in Nat /\ sock[a].gen <= gen
    BY DEF Types, SocketInfo, CurrentInv
  <2> QED
    BY <1>1, <2>1
<1>4. IdleIsCurrent'
  BY DEF _reset, TakeOut, IdleIsCurrent, Idle
<1>5. pc'[Maintainer] \in {"hello", "add"} => ref' <= sock'[Maintainer].gen
  BY DEF CurrentInv, Actors
<1>6. \A t \in Threads : pc'[t] = "checkin" => sock'[t].gen < gen'
  BY <1>3 DEF Owned, HoldInv, Holding, Actors
<1> QED
  BY <1>2, <1>3, <1>4, <1>5, <1>6 DEF CurrentInv

\* A connection that a thread puts into the deque is of the generation.
LEMMA AfterAppend ==
  ASSUME Types, CurrentInv, NEW s \in SocketInfo, AppendLeft(s), s.gen = gen,
         ~closed, UNCHANGED <<gen, closed>>
  PROVE  IdleIsCurrent'
BY AppendLeftIdle DEF CurrentInv, IdleIsCurrent

LEMMA CurrentStep == Types /\ Owned /\ CurrentInv /\ [Next]_vars => CurrentInv'
<1> SUFFICES ASSUME Types, Owned, CurrentInv, [Next]_vars PROVE CurrentInv'
  OBVIOUS
<1> USE DEF Goto, Hold
<1>0. /\ gen \in Nat /\ ref \in Nat
      /\ \A a \in Actors : sock[a] # None => sock[a] \in SocketInfo /\ sock[a].gen \in Nat
  BY DEF Types, SocketInfo
<1>1. ASSUME NEW a \in Actors, Connect(a) PROVE CurrentInv'
  <2>1. IdleIsCurrent' /\ UNCHANGED <<gen, closed, ref>>
    BY <1>1, SameGeneration DEF Connect, pool
  <2>2. \A b \in Actors : sock'[b] # None => sock'[b] = sock[b] \/ sock'[b].gen = gen
    BY <1>1 DEF Connect, Types
  <2>3. \A b \in Actors : sock'[b] # None => sock'[b].gen <= gen
    BY <1>0, <2>2 DEF CurrentInv
  <2>4. pc'[Maintainer] \in {"hello", "add"} => ref <= sock'[Maintainer].gen
    BY <1>0, <1>1 DEF Connect, Failed, CurrentInv, Types, Actors
  <2>5. \A t \in Threads : pc'[t] = "checkin" => pc[t] = "checkin" /\ sock'[t] = sock[t]
    BY <1>1, PoolAssumption DEF Connect, Failed, Types, Actors
  <2>6. pc'[Maintainer] # "out" => pc[Maintainer] # "out"
    BY <1>1 DEF Connect, Failed, Types, Actors
  <2> QED
    BY <2>1, <2>3, <2>4, <2>5, <2>6 DEF CurrentInv
<1>2. ASSUME NEW a \in Actors, Hello(a) PROVE CurrentInv'
  <2>1. IdleIsCurrent' /\ UNCHANGED <<gen, closed, ref>>
    BY <1>2, SameGeneration DEF Hello, pool
  <2>2. /\ \A b \in Actors : sock'[b] # None => sock'[b] = sock[b]
        /\ \A t \in Threads : pc'[t] = "checkin" => pc[t] = "checkin" /\ sock'[t] = sock[t]
        /\ pc'[Maintainer] \in {"hello", "add"} =>
             /\ pc[Maintainer] \in {"hello", "add"}
             /\ sock'[Maintainer] = sock[Maintainer]
        /\ pc'[Maintainer] # "out" => pc[Maintainer] # "out"
    BY <1>2 DEF Hello, Failed, Types, Actors
  <2> QED
    BY <2>1, <2>2, Stays
<1>3. ASSUME NEW t \in Threads,
             \/ BeginOp(t) \/ GiveUp(t) \/ Acquire(t) \/ Count(t)
             \/ Perished(t) \/ Use(t) \/ Release(t) \/ Uncount(t) \/ ReturnSocket(t)
      PROVE  CurrentInv'
  <2>0. t \in Actors /\ t # Maintainer /\ Maintainer \in Actors
    BY PoolAssumption DEF Actors
  <2>1. UNCHANGED <<pool, ref>>
    BY <1>3 DEF BeginOp, GiveUp, Acquire, Count, Perished, Use, Release,
                Uncount, ReturnSocket
  <2>2. IdleIsCurrent' /\ UNCHANGED <<gen, closed, ref>>
    BY <2>1, SameGeneration DEF pool
  <2>3. sock' = sock \/ sock' = [sock EXCEPT ![t] = None]
    BY <1>3 DEF BeginOp, GiveUp, Acquire, Count, Perished, Use, Release,
                Uncount, ReturnSocket
  <2>4. \A b \in Actors : b # t => pc'[b] = pc[b] /\ sock'[b] = sock[b]
    BY <1>3, <2>3 DEF BeginOp, GiveUp, Acquire, Count, Perished, Use, Release,
                Uncount, ReturnSocket, Types
  <2>5. pc'[t] = "checkin" => ~closed
    BY <1>3, <2>0 DEF BeginOp, GiveUp, Acquire, Count, Perished, Use, Release,
                Uncount, ReturnSocket, Types
  <2>6. \A b \in Actors : sock'[b] # None => sock'[b] = sock[b]
    BY <2>0, <2>3, <2>4 DEF Types
  <2> QED
    BY <2>0, <2>2, <2>4, <2>5, <2>6, Stays DEF Actors
<1>4. ASSUME NEW t \in Threads, PopLeft(t) PROVE CurrentInv'
  <2>0. t \in Actors /\ t # Maintainer /\ Maintainer \in Actors
    BY PoolAssumption DEF Actors
  <2>1. CASE sockets = <<>>
    <3>1. IdleIsCurrent' /\ UNCHANGED <<gen, closed, ref, sock>>
      BY <1>4, <2>1, SameGeneration DEF PopLeft, pool
    <3>2. \A b \in Actors : (b # t => pc'[b] = pc[b]) /\ pc'[t] # "checkin"
      BY <1>4, <2>0, <2>1 DEF PopLeft, Types
    <3> QED
      BY <2>0, <3>1, <3>2, Stays DEF Actors
  <2>2. CASE sockets # <<>>
    <3>1. sockets' = Tail(sockets) /\ UNCHANGED <<gen, closed, ref>>
      BY <1>4, <2>2 DEF PopLeft
    <3>2. Head(sockets) \in Idle /\ Idle' \subseteq Idle
      BY <2>2, <3>1, PopLeftIdle DEF Owned, OneOwner
    <3>3. IdleIsCurrent'
      BY <2>2, <3>1, <3>2 DEF CurrentInv, IdleIsCurrent
    <3>4. \A b \in Actors : /\ b # t => pc'[b] = pc[b] /\ sock'[b] = sock[b]
                            /\ b = t => pc'[b] = "popped" /\ sock'[b] = Head(sockets)
      BY <1>4, <2>2 DEF PopLeft, Types
    <3>5. Head(sockets).gen = gen
      BY <3>2 DEF CurrentInv, IdleIsCurrent
    <3>6. \A b \in Actors : sock'[b] # None => sock'[b].gen <= gen
      BY <1>0, <3>4, <3>5 DEF CurrentInv
    <3>7. \A b \in Threads : pc'[b] = "checkin" => b # t
      BY <3>4 DEF Actors
    <3> QED
      BY <2>0, <3>1, <3>3, <3>4, <3>6, <3>7 DEF CurrentInv, Actors
  <2> QED
    BY <2>1, <2>2
<1>5. ASSUME NEW t \in Threads, Handle(t) \/ Closing(t) PROVE CurrentInv'
  <2>0. t \in Actors /\ t # Maintainer /\ Maintainer \in Actors
    BY PoolAssumption DEF Actors
  <2>1. CASE Handle(t) /\ _reset(t) /\ pc' = [pc EXCEPT ![t] = "closing"]
    <3>1. \A b \in Actors : pc'[b] = pc[b] \/ pc'[b] = "closing"
      BY <2>1 DEF Types
    <3> QED
      BY <2>1, <3>1, AfterReset DEF Handle
  <2>2. CASE UNCHANGED <<gen, closed, ref, sock, sockets>> /\ (Handle(t) \/ Closing(t))
    <3>1. IdleIsCurrent'
      BY <2>2, SameGeneration DEF pool
    <3>2. \A b \in Actors : (b # t => pc'[b] = pc[b]) /\ pc'[t] # "checkin"
      BY <2>0, <2>2 DEF Handle, Closing, Types
    <3> QED
      BY <2>0, <2>2, <3>1, <3>2, Stays DEF Actors
  <2> QED
    BY <1>5, <2>1, <2>2 DEF Handle, Closing, pool
<1>6. ASSUME NEW t \in Threads, CheckIn(t) PROVE CurrentInv'
  <2>0. t \in Actors /\ t # Maintainer /\ Maintainer \in Actors
    BY PoolAssumption DEF Actors
  <2>1. sock[t] \in SocketInfo /\ sock[t] # None /\ UNCHANGED <<gen, closed, ref>>
    BY <1>0, <1>6, <2>0 DEF CheckIn, Owned, HoldInv, Holding
  <2>2. IdleIsCurrent'
    <3>1. CASE sockets' = sockets
      BY <2>1, <3>1 DEF CurrentInv, IdleIsCurrent, Idle
    <3>2. CASE sock[t].gen = gen /\ AppendLeft(sock[t])
      <4>1. ~closed
        BY <1>0, <1>6, <2>0, <2>1, <3>2 DEF CurrentInv, CheckIn
      <4> QED
        BY <2>1, <3>2, <4>1, AfterAppend
    <3> QED
      BY <1>6, <3>1, <3>2 DEF CheckIn
  <2>3. \A b \in Actors : /\ b # t => pc'[b] = pc[b] /\ sock'[b] = sock[b]
                          /\ b = t => pc'[b] = "release" /\ sock'[b] = None
    BY <1>6 DEF CheckIn, Types
  <2> QED
    BY <2>0, <2>1, <2>2, <2>3, Stays DEF Actors
<1>7. ASSUME BeginRound \/ CheckMin \/ TryAcquire \/ MaintainerRelease PROVE CurrentInv'
  <2>0. Maintainer \in Actors /\ m = Maintainer /\ Maintainer \notin Threads
    BY PoolAssumption DEF Actors, m
  <2>1. UNCHANGED <<pool, sock>>
    BY <1>7 DEF BeginRound, CheckMin, TryAcquire, MaintainerRelease
  <2>2. IdleIsCurrent' /\ UNCHANGED <<gen, closed, sock>>
    BY <2>1, SameGeneration DEF pool
  <2>3. \A t \in Threads : pc'[t] = pc[t]
    BY <1>7, <2>0 DEF BeginRound, CheckMin, TryAcquire, MaintainerRelease, Types, Actors
  <2>4. pc'[Maintainer] \notin {"hello", "add"}
    <3>1. CASE BeginRound
      BY <2>0, <3>1 DEF BeginRound, Types
    <3>2. CASE CheckMin
      BY <2>0, <3>2 DEF CheckMin, Types
    <3>3. CASE TryAcquire
      BY <2>0, <3>3 DEF TryAcquire, Types
    <3>4. CASE MaintainerRelease
      BY <2>0, <3>4 DEF MaintainerRelease, Types
    <3> QED
      BY <1>7, <3>1, <3>2, <3>3, <3>4
  <2>5. CASE BeginRound
    BY <1>0, <2>0, <2>2, <2>3, <2>4, <2>5 DEF BeginRound, CurrentInv
  <2>6. CASE ~BeginRound
    <3>1. ref' = ref /\ pc[Maintainer] # "out"
      BY <1>7, <2>0, <2>6 DEF CheckMin, TryAcquire, MaintainerRelease
    <3> QED
      BY <2>2, <2>3, <2>4, <3>1, Stays
  <2> QED
    BY <2>5, <2>6
<1>8. ASSUME Trim PROVE CurrentInv'
  <2>0. Maintainer \in Actors /\ m = Maintainer /\ Maintainer \notin Threads
    BY PoolAssumption DEF Actors, m
  <2>1. UNCHANGED <<gen, closed, sock, ref>> /\ pc[Maintainer] # "out"
    BY <1>8, <2>0 DEF Trim
  <2>2. PICK k \in 0 .. Len(sockets) : sockets' = SubSeq(sockets, 1, k)
    BY <1>8 DEF Trim
  <2>3. Idle' \subseteq Idle
    BY <2>2, TrimIdle DEF Owned, OneOwner
  <2>4. IdleIsCurrent'
    <3>1. sockets = <<>> => k = 0
      OBVIOUS
    <3>2. sockets = <<>> => sockets' = <<>>
      BY <2>2, <3>1 DEF Types
    <3> QED
      BY <2>1, <2>3, <3>2 DEF CurrentInv, IdleIsCurrent
  <2>5. (\A t \in Threads : pc'[t] = pc[t]) /\ pc'[Maintainer] = "check"
    BY <1>8, <2>0 DEF Trim, Types, Actors
  <2> QED
    BY <2>1, <2>4, <2>5, Stays
<1>9. ASSUME Add PROVE CurrentInv'
  <2>0. Maintainer \in Actors /\ m = Maintainer /\ Maintainer \notin Threads
    BY PoolAssumption DEF Actors, m
  <2>1. /\ sock[Maintainer] \in SocketInfo /\ sock[Maintainer] # None
        /\ pc[Maintainer] = "add" /\ UNCHANGED <<gen, closed, ref>>
    BY <1>0, <1>9, <2>0 DEF Add, Owned, HoldInv, Holding
  <2>2. IdleIsCurrent'
    <3>1. CASE sockets' = sockets
      BY <2>1, <3>1 DEF CurrentInv, IdleIsCurrent, Idle
    <3>2. CASE gen = ref /\ AppendLeft(sock[Maintainer])
      <4>1. ~closed
        BY <1>0, <2>1, <3>2 DEF CurrentInv
      <4>2. sock[Maintainer].gen = gen
        BY <1>0, <2>0, <2>1, <3>2 DEF CurrentInv
      <4> QED
        BY <2>1, <3>2, <4>1, <4>2, AfterAppend
    <3> QED
      BY <1>9, <2>0, <3>1, <3>2 DEF Add
  <2>3. /\ \A t \in Threads : pc'[t] = pc[t] /\ sock'[t] = sock[t]
        /\ pc'[Maintainer] \in {"last", "again"} /\ sock'[Maintainer] = None
    BY <1>9, <2>0 DEF Add, Types, Actors
  <2> QED
    BY <2>0, <2>1, <2>2, <2>3, Stays DEF Actors
<1>10. ASSUME Reset \/ Close PROVE CurrentInv'
  BY <1>10, AfterReset DEF Reset, Close
<1>11. ASSUME CloseTakenOut PROVE CurrentInv'
  BY <1>11 DEF CloseTakenOut, pool, CurrentInv, IdleIsCurrent, Idle
<1>12. CASE UNCHANGED vars
  BY <1>12 DEF vars, pool, CurrentInv, IdleIsCurrent, Idle
<1> QED
  BY <1>1, <1>2, <1>3, <1>4, <1>5, <1>6, <1>7, <1>8, <1>9, <1>10, <1>11, <1>12
     DEF Next, Step, Round, Actors, m
-----------------------------------------------------------------------------
(* The size of the pool. A thread opens a connection only if none is idle,  *)
(* so that the threads alone stay within maxPoolSize. The maintainer goes   *)
(* beyond it by the one connection that it opens on a stale look: it does   *)
(* not look again, and find too few, before the pool is back.               *)

OutLabels ==
  {"popped", "connect", "hello", "use", "handle", "closing", "return",
   "checkin"}
Out == At(Threads, OutLabels)

Adding == {"acquire", "connect", "hello", "add"}
Extra == IF MinPoolSize = 0 THEN 0 ELSE 1

SizeInv ==
  /\ MinPoolSize = 0 => pc[Maintainer] \in {"out", "trim", "check"}
  /\ Len(sockets) + Cardinality(Out) <= MaxPoolSize + Extra
  /\ pc[Maintainer] \in Adding => Len(sockets) + Cardinality(Out) <= MaxPoolSize

LEMMA InitSize == Init => SizeInv
<1> SUFFICES ASSUME Init PROVE SizeInv
  OBVIOUS
<1>1. Out = {}
  BY DEF Init, Out, At, Actors, OutLabels
<1> QED
  BY <1>1, FS_EmptySet, PoolAssumption DEF Init, SizeInv, Actors, Adding, Extra

\* Those with a connection are among those with a permit.
LEMMA OutHold ==
  ASSUME Types, Permits
  PROVE  /\ Cardinality(Out) \in Nat /\ IsFiniteSet(Out)
         /\ Cardinality(Out) <= MaxPoolSize /\ Cardinality(Out) <= active
<1>1. Out \subseteq Holders
  BY DEF Out, Holders, At, OutLabels, PermitLabels, Actors
<1>2. IsFiniteSet(Holders)
  BY FiniteActors, FS_Subset DEF Holders, At
<1>3. Cardinality(Out) <= Cardinality(Holders) /\ IsFiniteSet(Out)
  BY <1>1, <1>2, FS_Subset
<1>4. Cardinality(Out) \in Nat /\ Cardinality(Holders) \in Nat
  BY <1>2, <1>3, FS_CardinalityType
<1>5. Out \subseteq Counted
  BY DEF Out, Counted, At, OutLabels, CountedLabels
<1>6. IsFiniteSet(Counted)
  BY FiniteActors, FS_Subset DEF Counted, At
<1>7. Cardinality(Out) <= Cardinality(Counted)
  BY <1>5, <1>6, FS_Subset
<1> QED
  BY <1>3, <1>4, <1>7, PoolAssumption DEF Permits, Types

LEMMA SizeStep ==
  Types /\ Types' /\ Permits /\ Permits' /\ SizeInv /\ [Next]_vars => SizeInv'
<1> SUFFICES ASSUME Types, Types', Permits, Permits', SizeInv, [Next]_vars
             PROVE  SizeInv'
  OBVIOUS
<1> USE DEF Goto
<1>0. /\ Len(sockets) \in Nat /\ Len(sockets') \in Nat
      /\ Cardinality(Out) \in Nat /\ Cardinality(Out') \in Nat
      /\ Cardinality(Out') <= MaxPoolSize /\ MaxPoolSize \in Nat
  <2>1. Out' \subseteq Holders'
    BY DEF Out, Holders, At, OutLabels, PermitLabels, Actors
  <2>2. IsFiniteSet(Holders')
    BY FiniteActors, FS_Subset DEF Holders, At
  <2>3. Cardinality(Out') <= Cardinality(Holders') /\ IsFiniteSet(Out')
    BY <2>1, <2>2, FS_Subset
  <2>4. Cardinality(Out') \in Nat /\ Cardinality(Holders') \in Nat
    BY <2>2, <2>3, FS_CardinalityType
  <2>5. Cardinality(Out') <= MaxPoolSize
    BY <2>3, <2>4, PoolAssumption DEF Permits, Types
  <2> QED
    BY <2>4, <2>5, OutHold, PoolAssumption DEF Types
<1> DEFINE Moves(t) == \A b \in Threads \ {t} : pc'[b] = pc[b]
           Is(t) == pc[t] \in OutLabels
           Is1(t) == pc'[t] \in OutLabels
<1>1. ASSUME NEW t \in Threads, Moves(t), UNCHANGED pc[Maintainer],
             \/ (Is1(t) => Is(t)) /\ Len(sockets') <= Len(sockets)
             \/ Len(sockets') = 0
             \/ Is1(t) /\ ~Is(t) /\ Len(sockets') = Len(sockets) - 1
             \/ Is(t) /\ ~Is1(t) /\ Len(sockets') = Len(sockets) + 1
      PROVE  SizeInv'
  <2>1. /\ (Is(t) <=> Is1(t)) => Cardinality(Out') = Cardinality(Out)
        /\ ~Is(t) /\ Is1(t) => Cardinality(Out') = Cardinality(Out) + 1
        /\ Is(t) /\ ~Is1(t) => Cardinality(Out) = Cardinality(Out') + 1
    BY <1>1, OneMoved, FiniteActors DEF Out
  <2>2. \/ Len(sockets') + Cardinality(Out') <= Len(sockets) + Cardinality(Out)
        \/ Len(sockets') + Cardinality(Out') <= MaxPoolSize
    BY <1>0, <1>1, <2>1
  <2> QED
    BY <1>0, <1>1, <2>2 DEF SizeInv, Extra
<1>2. ASSUME \A t \in Threads : pc'[t] = pc[t], Len(sockets') <= Len(sockets),
             MinPoolSize = 0 => pc'[Maintainer] \in {"out", "trim", "check"},
             pc'[Maintainer] \in Adding =>
               \/ pc[Maintainer] \in Adding
               \/ Len(sockets) + Cardinality(Out) <= MaxPoolSize
      PROVE  SizeInv'
  <2>1. Out' = Out
    BY <1>2 DEF Out, At
  <2> QED
    BY <1>0, <1>2, <2>1 DEF SizeInv, Extra
<1>3. ASSUME NEW t \in Threads, BeginOp(t) \/ GiveUp(t) \/ Step(t) PROVE SizeInv'
  <2>0. /\ t \in Actors /\ Threads \subseteq Actors /\ t # Maintainer /\ Maintainer \in Actors
        /\ pc \in [Actors -> ThreadLabels \cup RoundLabels]
    BY PoolAssumption DEF Actors, Types
  <2> USE <2>0, <1>0 DEF OutLabels
  <2>1. CASE BeginOp(t) \/ GiveUp(t)
    BY <1>1, <2>1 DEF BeginOp, GiveUp, pool
  <2>2. CASE Acquire(t) \/ Count(t) \/ Release(t) \/ Uncount(t)
    BY <1>1, <2>2 DEF Acquire, Count, Release, Uncount, pool
  <2>3. CASE PopLeft(t)
    <3>1. CASE sockets = <<>>
      <4>1. Len(sockets') = 0
        BY <2>3, <3>1 DEF PopLeft
      <4> QED
        BY <1>1, <2>3, <3>1, <4>1 DEF PopLeft
    <3>2. CASE sockets # <<>>
      <4>1. Len(sockets') = Len(sockets) - 1
        BY <2>3, <3>2 DEF PopLeft, Types
      <4> QED
        BY <1>1, <2>3, <3>2, <4>1 DEF PopLeft
    <3> QED
      BY <3>1, <3>2
  <2>4. CASE Perished(t) \/ Use(t) \/ ReturnSocket(t)
    BY <1>1, <2>4 DEF Perished, Use, ReturnSocket, pool
  <2>5. CASE Connect(t) \/ Hello(t)
    BY <1>1, <2>5 DEF Connect, Hello, Failed, pool
  <2>6. CASE Handle(t)
    <3>1. Len(sockets') <= Len(sockets)
      BY <2>6 DEF Handle, _reset, TakeOut
    <3> QED
      BY <1>1, <2>6, <3>1 DEF Handle
  <2>8. CASE Closing(t)
    BY <1>1, <2>8 DEF Closing, pool
  <2>7. CASE CheckIn(t)
    <3>1. CASE UNCHANGED sockets
      BY <1>1, <2>7, <3>1 DEF CheckIn
    <3>2. CASE AppendLeft(sock[t])
      <4>1. Len(sockets') = Len(sockets) + 1
        BY <3>2 DEF AppendLeft, Types
      <4> QED
        BY <1>1, <2>7, <4>1 DEF CheckIn
    <3> QED
      BY <2>7, <3>1, <3>2 DEF CheckIn
  <2> QED
    BY <1>3, <2>1, <2>2, <2>3, <2>4, <2>5, <2>6, <2>7, <2>8 DEF Step
<1>4. ASSUME BeginRound \/ Round PROVE SizeInv'
  <2>0. /\ m = Maintainer /\ Threads \subseteq Actors /\ Maintainer \in Actors
        /\ Maintainer \notin Threads
        /\ pc \in [Actors -> ThreadLabels \cup RoundLabels]
    BY PoolAssumption DEF Actors, m, Types
  <2> USE DEF Adding
  <2>1. CASE BeginRound
    BY <1>0, <1>2, <2>0, <2>1 DEF BeginRound, pool
  <2>2. CASE Trim
    <3>1. PICK k \in 0 .. Len(sockets) : sockets' = SubSeq(sockets, 1, k)
      BY <2>2 DEF Trim
    <3>2. Len(sockets') <= Len(sockets)
      BY <3>1 DEF Types
    <3> QED
      BY <1>2, <2>0, <2>2, <3>2 DEF Trim
  <2>3. CASE CheckMin
    <3>1. CASE Len(sockets) + active >= MinPoolSize
      BY <1>0, <1>2, <2>0, <2>3, <3>1 DEF CheckMin, pool
    <3>2. CASE ~(Len(sockets) + active >= MinPoolSize)
      <4>1. /\ Cardinality(Out) <= active /\ active \in Int
            /\ MinPoolSize \in Nat /\ MinPoolSize <= MaxPoolSize
        BY OutHold, PoolAssumption DEF Types
      <4>2. Len(sockets) + Cardinality(Out) <= MaxPoolSize /\ MinPoolSize # 0
        BY <1>0, <3>2, <4>1
      <4> QED
        BY <1>0, <1>2, <2>0, <2>3, <4>2 DEF CheckMin, pool
    <3> QED
      BY <3>1, <3>2
  <2>4. CASE TryAcquire
    BY <1>0, <1>2, <2>0, <2>4 DEF TryAcquire, pool, SizeInv
  <2>5. CASE Connect(m)
    BY <1>0, <1>2, <2>0, <2>5 DEF Connect, Failed, pool, SizeInv
  <2>6. CASE Hello(m)
    BY <1>0, <1>2, <2>0, <2>6 DEF Hello, Failed, pool, SizeInv
  <2>7. CASE Add
    <3>1. CASE UNCHANGED sockets
      BY <1>0, <1>2, <2>0, <2>7, <3>1 DEF Add, SizeInv
    <3>2. CASE AppendLeft(sock[m])
      <4>1. Len(sockets') = Len(sockets) + 1
        BY <3>2 DEF AppendLeft, Types
      <4>2. Out' = Out
        BY <2>0, <2>7 DEF Add, Out, At
      <4>3. MinPoolSize # 0 /\ Len(sockets) + Cardinality(Out) <= MaxPoolSize
        BY <2>0, <2>7 DEF Add, SizeInv
      <4>4. pc'[Maintainer] \notin Adding
        BY <2>0, <2>7, <3>2 DEF Add
      <4> QED
        BY <1>0, <4>1, <4>2, <4>3, <4>4 DEF SizeInv, Extra
    <3> QED
      BY <2>7, <3>1, <3>2 DEF Add
  <2>8. CASE MaintainerRelease
    BY <1>0, <1>2, <2>0, <2>8 DEF MaintainerRelease, pool, SizeInv
  <2> QED
    BY <1>4, <2>1, <2>2, <2>3, <2>4, <2>5, <2>6, <2>7, <2>8 DEF Round
<1>5. ASSUME Reset \/ Close \/ CloseTakenOut PROVE SizeInv'
  <2>1. Len(sockets') <= Len(sockets) /\ pc' = pc
    BY <1>0, <1>5 DEF Reset, Close, CloseTakenOut, _reset, TakeOut, pool
  <2> QED
    BY <1>0, <1>2, <2>1 DEF SizeInv
<1>6. CASE UNCHANGED vars
  BY <1>6, <1>2, <1>0 DEF vars, pool, SizeInv
<1> QED
  BY <1>3, <1>4, <1>5, <1>6 DEF Next

LEMMA IdleCount ==
  ASSUME Types
  PROVE  IsFiniteSet(Idle) /\ Cardinality(Idle) <= Len(sockets) /\ Cardinality(Idle) \in Nat
<1>1. Len(sockets) \in Nat /\ DOMAIN sockets = 1 .. Len(sockets)
  BY DEF Types
<1>2. IsFiniteSet(1 .. Len(sockets)) /\ Cardinality(1 .. Len(sockets)) = Len(sockets)
  <2>1. 1 \in Int /\ Len(sockets) \in Int
    BY <1>1
  <2>2. /\ IsFiniteSet(1 .. Len(sockets))
        /\ Cardinality(1 .. Len(sockets)) =
             IF 1 > Len(sockets) THEN 0 ELSE Len(sockets) - 1 + 1
    BY <2>1, FS_Interval
  <2> QED
    BY <1>1, <2>2
<1>3. [i \in 1 .. Len(sockets) |-> sockets[i]] \in Surjection(1 .. Len(sockets), Idle)
  BY <1>1 DEF Idle, Surjection
<1>4. IsFiniteSet(Idle) /\ Cardinality(Idle) <= Cardinality(1 .. Len(sockets))
  BY <1>2, <1>3, FS_Surjection
<1> QED
  BY <1>2, <1>4, FS_CardinalityType

LEMMA OpenCount ==
  ASSUME Types, Permits, Owned, SizeInv
  PROVE  Cardinality(open \ Doomed) <= MaxPoolSize + Extra
<1> DEFINE held == {sock[t] : t \in Out}
           both == Idle \cup held
           has == pc[Maintainer] \in {"hello", "add"}
<1>1. /\ open \ Doomed \subseteq both \cup {sock[Maintainer]}
      /\ ~has => open \ Doomed \subseteq both
  <2> SUFFICES ASSUME NEW s \in open \ Doomed, s \notin Idle
               PROVE  s \in held \/ (has /\ s = sock[Maintainer])
    OBVIOUS
  <2>1. s # None
    BY PoolAssumption DEF Types, SocketInfo
  <2>2. PICK a \in Actors : s = sock[a]
    BY DEF Owned, OneOwner
  <2>3. pc[a] \in Holding
    BY <2>1, <2>2 DEF Owned, HoldInv
  <2>4. CASE a = Maintainer
    BY <2>2, <2>3, <2>4 DEF Types, RoundLabels, Holding
  <2>5. CASE a \in Threads
    <3>1. pc[a] \in ThreadLabels
      BY <2>5 DEF Types
    <3>2. a \in Out
      BY <2>3, <2>5, <3>1 DEF Holding, OutLabels, Out, At, ThreadLabels
    <3> QED
      BY <2>2, <3>2
  <2> QED
    BY <2>4, <2>5 DEF Actors
<1>2. [t \in Out |-> sock[t]] \in Surjection(Out, held)
  BY DEF Surjection
<1>3. IsFiniteSet(held) /\ Cardinality(held) <= Cardinality(Out) /\ Cardinality(held) \in Nat
  BY <1>2, OutHold, FS_Surjection, FS_CardinalityType
<1>4. /\ IsFiniteSet(both) /\ Cardinality(both) \in Nat
      /\ Cardinality(both) <= Cardinality(Idle) + Cardinality(held)
  <2>1. IsFiniteSet(Idle \cap held)
    BY <1>3, FS_Subset
  <2>2. Cardinality(Idle \cap held) \in Nat
    BY <2>1, FS_CardinalityType
  <2>3. /\ IsFiniteSet(both)
        /\ Cardinality(both) =
             Cardinality(Idle) + Cardinality(held) - Cardinality(Idle \cap held)
    BY <1>3, IdleCount, FS_Union
  <2>4. Cardinality(both) \in Nat
    BY <2>3, FS_CardinalityType
  <2> QED
    BY <1>3, <2>2, <2>3, <2>4, IdleCount
<1> HIDE DEF held, both
<1>5. /\ Len(sockets) \in Nat /\ Cardinality(Out) \in Nat /\ MaxPoolSize \in Nat
      /\ Cardinality(both) <= Len(sockets) + Cardinality(Out)
  BY <1>3, <1>4, OutHold, IdleCount, PoolAssumption DEF Types
<1>6. CASE ~has
  <2>1. Cardinality(open \ Doomed) <= Cardinality(both) /\ Cardinality(open \ Doomed) \in Nat
    BY <1>1, <1>4, <1>6, FS_Subset, FS_CardinalityType
  <2> QED
    BY <1>4, <1>5, <2>1 DEF SizeInv, Extra
<1>7. CASE has
  <2>1. /\ IsFiniteSet(both \cup {sock[Maintainer]})
        /\ Cardinality(both \cup {sock[Maintainer]}) \in Nat
        /\ Cardinality(both \cup {sock[Maintainer]}) <= Cardinality(both) + 1
    <3>1. sock[Maintainer] \in both => both \cup {sock[Maintainer]} = both
      OBVIOUS
    <3>2. sock[Maintainer] \notin both =>
            /\ IsFiniteSet(both \cup {sock[Maintainer]})
            /\ Cardinality(both \cup {sock[Maintainer]}) = Cardinality(both) + 1
      BY <1>4, FS_AddElement
    <3> QED
      BY <1>4, <3>1, <3>2
  <2>2. /\ Cardinality(open \ Doomed) <= Cardinality(both \cup {sock[Maintainer]})
        /\ Cardinality(open \ Doomed) \in Nat
    BY <1>1, <2>1, FS_Subset, FS_CardinalityType
  <2>3. /\ Len(sockets) + Cardinality(Out) <= MaxPoolSize
        /\ MinPoolSize # 0
    BY <1>7 DEF SizeInv, Adding
  <2> QED
    BY <1>4, <1>5, <2>1, <2>2, <2>3 DEF Extra
<1> QED
  BY <1>6, <1>7

-----------------------------------------------------------------------------
IInv == Types /\ Permits /\ Owned /\ CurrentInv

LEMMA InvariantIInv == Spec => []IInv
<1>1. Init => IInv
  BY InitTypes, InitPermits, InitOwned, InitCurrent DEF IInv
<1>2. IInv /\ [Next]_vars => IInv'
  BY TypesStep, PermitsStep, OwnedStep, CurrentStep DEF IInv, Owned
<1> QED
  BY <1>1, <1>2, PTL DEF Spec

\* The type invariant; with it, the semaphore never holds more permits than it
\* was made with, and active_sockets counts at most the threads.
THEOREM TypeCorrect == Spec => []TypeOK
<1>1. IInv => TypeOK
  <2> SUFFICES ASSUME IInv PROVE TypeOK
    OBVIOUS
  <2>1. IsFiniteSet(Holders) /\ IsFiniteSet(Counted) /\ Cardinality(Counted) <= Cardinality(Threads)
    BY FiniteActors, FS_Subset DEF Holders, Counted, At
  <2>2. /\ Cardinality(Holders) \in Nat /\ Cardinality(Counted) \in Nat
        /\ Cardinality(Threads) \in Nat
    BY <2>1, FiniteActors, FS_CardinalityType
  <2>3. sem \in 0 .. MaxPoolSize /\ active \in 0 .. Cardinality(Threads)
    BY <2>1, <2>2, PoolAssumption DEF IInv, Permits, Types
  <2>4. pc \in [Actors ->
       {"out", "wait", "count", "pop", "popped", "connect", "hello", "use",
        "handle", "closing", "return", "checkin", "release", "uncount",
        "trim", "check", "acquire", "add", "again", "last"}]
    BY DEF IInv, Types, ThreadLabels, RoundLabels
  <2> QED
    BY <2>3, <2>4 DEF IInv, Types, TypeOK
<1> QED
  BY <1>1, InvariantIInv, PTL

\* No connection is leaked and none is used by two threads.
THEOREM OneOwnerHolds == Spec => []OneOwner
<1>1. IInv => OneOwner
  BY DEF IInv, Owned
<1> QED
  BY <1>1, InvariantIInv, PTL

\* No connection from before a reset, or from before the close, is given out
\* again.
THEOREM IdleIsCurrentHolds == Spec => []IdleIsCurrent
<1>1. IInv => IdleIsCurrent
  BY DEF IInv, CurrentInv
<1> QED
  BY <1>1, InvariantIInv, PTL

\* No path of a checkout loses a permit or a count.
THEOREM RestoredHolds == Spec => []Restored
<1>1. IInv => Restored
  <2> SUFFICES ASSUME IInv, \A a \in Actors : pc[a] \in {"out", "wait"}
               PROVE  sem = MaxPoolSize /\ active = 0
    BY DEF Restored
  <2>1. Holders = {} /\ Counted = {}
    BY DEF Holders, Counted, At, Actors, PermitLabels, CountedLabels
  <2> QED
    BY <2>1, FS_EmptySet, PoolAssumption DEF IInv, Permits, Types
<1> QED
  BY <1>1, InvariantIInv, PTL

\* The pool goes beyond maxPoolSize by the one connection that the maintainer
\* adds on a stale count, and not at all if minPoolSize is 0, besides what a
\* reset has taken out and not yet closed.
THEOREM AtMostOneMoreHolds == Spec => []AtMostOneMore
<1> DEFINE J == IInv /\ SizeInv
<1>1. Init => J
  BY InitTypes, InitPermits, InitOwned, InitCurrent, InitSize DEF IInv
<1>2. J /\ [Next]_vars => J'
  <2>1. IInv /\ [Next]_vars => IInv'
    BY TypesStep, PermitsStep, OwnedStep, CurrentStep DEF IInv, Owned
  <2> QED
    BY <2>1, SizeStep DEF IInv
<1>3. J => AtMostOneMore
  BY OpenCount DEF IInv, AtMostOneMore, Extra
<1> QED
  BY <1>1, <1>2, <1>3, PTL DEF Spec
=============================================================================
