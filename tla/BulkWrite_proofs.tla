-------------------------- MODULE BulkWrite_proofs --------------------------
(***************************************************************************)
(* The properties of BulkWrite, for any number of documents, any size of a *)
(* command, any refused documents, ordered or not, with retryable writes   *)
(* or without.                                                             *)
(*                                                                         *)
(* AtMostOnce alone is not inductive: a command in flight can store a      *)
(* document. With retryable writes each command in flight either belongs   *)
(* to the part of the list that is being written and carries its number,   *)
(* or the server remembers all of its documents; without them there is at  *)
(* most one command in flight, and it has not come to what is stored.      *)
(*                                                                         *)
(* What a call reports (ReportInv): a call that goes on has written all    *)
(* that lies before its current part, stored or refused, and its result    *)
(* counts just that; once it has reported, its last part is settled as     *)
(* well. With that the module implements InsertMany (KeepsPromise).        *)
(***************************************************************************)
EXTENDS BulkWrite, FiniteSetTheorems, TLAPS

\* The number under which the current part of the list is written.
Number == IF retryable THEN tx ELSE 0
Current(c) == c.tx = Number /\ c.first = offset + 1
Settled(c) == \A d \in Processed(c) : d \in bad \/ <<c.tx, d>> \in executed

CommandInv ==
  \A c \in flight :
    /\ c.last = LastOf(c.first - 1) /\ c.at \in c.first .. c.last + 1
    /\ c.no <= sent
    /\ \A d \in Processed(c) : d < c.at => d \in bad \/ <<c.tx, d>> \in executed
    /\ Settled(c) \/ Current(c)
    /\ pc = "wait" /\ c.no = sent => Current(c)
    /\ retryable => c.tx # 0

SingleInv ==
  ~retryable =>
    /\ pc \in {"select", "send"} => flight = {}
    /\ \A c \in flight : /\ Current(c)
                         /\ \A e \in flight : e = c
                         /\ \A p \in executed : p[2] < c.at

PlaceInv ==
  /\ \A p \in executed : p[2] <= LastOf(offset)
  /\ pc = "send" /\ ~(retryable /\ started) =>
       /\ \A p \in executed : p[2] <= offset
       /\ \A c \in flight : Settled(c)

StoredInv ==
  \A d \in Docs : /\ stored[d] \in {0, 1}
                  /\ stored[d] = 1 => d <= offset \/ <<Number, d>> \in executed

RetryInv ==
  /\ pc = "select" /\ ~retrying =>
       sent = 0 /\ flight = {} /\ executed = {} /\ \A d \in Docs : stored[d] = 0
  /\ retryable => tx # 0 /\ (pc \in {"select", "wait"} => started)
  /\ retrying => retryable
  /\ pc # "done" => offset < NumDocs

OutcomeInv ==
  /\ retrying => last # Error("ServerSelectionTimeoutError")
  /\ outcome = Error("ServerSelectionTimeoutError") => sent = 0 /\ pc = "done"

IInv == TypeOK /\ CommandInv /\ SingleInv /\ PlaceInv /\ StoredInv /\ RetryInv
        /\ OutcomeInv

-----------------------------------------------------------------------------
(* The parts of the list.                                                  *)

LEMMA PartOfList ==
  ASSUME NEW o \in 0 .. NumDocs
  PROVE  /\ LastOf(o) \in o .. NumDocs /\ LastOf(o) \in Nat
         /\ o < NumDocs => o + 1 \in Docs /\ LastOf(o) \in Docs /\ o < LastOf(o)
  BY BulkWriteAssumption DEF LastOf, Docs

LEMMA LastOfGrows ==
  ASSUME NEW o \in 0 .. NumDocs, NEW p \in o .. NumDocs
  PROVE  LastOf(o) <= LastOf(p)
  BY BulkWriteAssumption DEF LastOf

LEMMA ProcessedPart ==
  ASSUME NEW c \in Command
  PROVE  /\ Processed(c) \subseteq c.first .. c.last
         /\ Processed(c) \subseteq Docs /\ Refused(c) \subseteq Docs
         /\ Refused(c) \subseteq c.first .. c.last
<1>1. c.first \in Docs /\ c.last \in Docs
  BY DEF Command
<1>2. c.first .. c.last \subseteq Docs
  BY <1>1, BulkWriteAssumption DEF Docs
<1> QED
  BY <1>2 DEF Processed, Refused

LEMMA SamePart ==
  ASSUME NEW c, NEW e, c.first = e.first, c.last = e.last
  PROVE  Processed(c) = Processed(e)
  BY DEF Processed, Refused

LEMMA MergeType ==
  ASSUME NEW res \in Result, NEW c \in Command, NEW wce \in BOOLEAN, offset \in 0 .. NumDocs
  PROVE  Merge(res, c, wce) \in Result
<1>1. IsFiniteSet(Processed(c) \ bad)
  <2>1. IsFiniteSet(1 .. NumDocs)
    BY FS_Interval, BulkWriteAssumption
  <2> QED
    BY <2>1, ProcessedPart, FS_Subset DEF Docs
<1>2. Cardinality(Processed(c) \ bad) \in Nat
  BY <1>1, FS_CardinalityType
<1>3. \A d \in Refused(c) : (d - c.first) + offset + 1 \in Nat
  <2> SUFFICES ASSUME NEW d \in Refused(c) PROVE (d - c.first) + offset + 1 \in Nat
    OBVIOUS
  <2>1. c.first \in Docs /\ d \in c.first .. c.last /\ c.last \in Docs
    BY ProcessedPart DEF Command
  <2> QED
    BY <2>1, BulkWriteAssumption DEF Docs
<1>4. res.nInserted + Cardinality(Processed(c) \ bad) \in Nat
  BY <1>2 DEF Result
<1>5. res.writeErrors \cup {(d - c.first) + offset + 1 : d \in Refused(c)} \in SUBSET Nat
  BY <1>3 DEF Result
<1>6. (res.wce \/ wce) \in BOOLEAN
  OBVIOUS
<1> QED
  BY <1>4, <1>5, <1>6 DEF Merge, Result

LEMMA OutcomeTypes ==
  /\ \A r \in Result : [kind |-> "BulkWriteError", details |-> r] \in Outcome
  /\ \A r \in Result : [kind |-> "returned", details |-> r] \in Outcome
  /\ \A k \in {"ServerSelectionTimeoutError", "AutoReconnect", "OperationFailure"} :
       Error(k) \in Outcome
  BY DEF Outcome, Error

LEMMA OtherErrors ==
  /\ \A r : [kind |-> "BulkWriteError", details |-> r] # Error("ServerSelectionTimeoutError")
  /\ \A r : [kind |-> "returned", details |-> r] # Error("ServerSelectionTimeoutError")
  /\ Error("AutoReconnect") # Error("ServerSelectionTimeoutError")
  /\ Error("OperationFailure") # Error("ServerSelectionTimeoutError")
<1>1. "BulkWriteError" # "ServerSelectionTimeoutError" /\ "returned" # "ServerSelectionTimeoutError"
      /\ "AutoReconnect" # "ServerSelectionTimeoutError"
      /\ "OperationFailure" # "ServerSelectionTimeoutError"
  OBVIOUS
<1>2. \A k, r : [kind |-> k, details |-> r].kind = k
  OBVIOUS
<1> QED
  BY <1>1, <1>2 DEF Error

-----------------------------------------------------------------------------
LEMMA InitIInv == Init => IInv
<1> SUFFICES ASSUME Init PROVE IInv
  OBVIOUS
<1>1. NoResult \in Result
  BY DEF NoResult, Result
<1>2. TypeOK
  <2>1. tx \in Nat /\ offset \in 0 .. NumDocs
    BY BulkWriteAssumption DEF Init
  <2>2. retryable \in BOOLEAN /\ started \in BOOLEAN /\ retrying \in BOOLEAN
    BY BulkWriteAssumption DEF Init
  <2>3. stored \in [Docs -> Nat]
    BY DEF Init
  <2> QED
    BY <1>1, <2>1, <2>2, <2>3 DEF Init, TypeOK
<1>3. CommandInv /\ SingleInv /\ PlaceInv /\ StoredInv /\ RetryInv
  BY BulkWriteAssumption DEF Init, CommandInv, SingleInv, PlaceInv, StoredInv, RetryInv
<1>4. Error("ServerSelectionTimeoutError") # None
  BY OutcomeAssumption, OutcomeTypes
<1>5. OutcomeInv
  BY <1>4 DEF Init, OutcomeInv
<1> QED
  BY <1>2, <1>3, <1>5 DEF IInv

-----------------------------------------------------------------------------
(* Each action preserves the invariant.                                    *)

\* What all the steps share that end an attempt, or the call.
LEMMA AttemptEnds ==
  ASSUME IInv, pc \in {"select", "wait"}, pc' \in {"select", "done"},
         pc' = "select" => retrying' /\ retryable,
         retrying' \in BOOLEAN, retrying => retrying', retrying' => retryable,
         retrying' => last' # Error("ServerSelectionTimeoutError"),
         last' \in Outcome \cup {None}, outcome' \in Outcome \cup {None},
         outcome' = Error("ServerSelectionTimeoutError") => sent = 0 /\ pc' = "done",
         flight' \subseteq flight,
         UNCHANGED <<ordered, bad, retryable, started, offset, full, tx, sent, executed, stored>>
  PROVE  IInv'
<1>1. TypeOK'
  BY DEF IInv, TypeOK
<1>2. \A c : Processed(c)' = Processed(c) /\ (Settled(c) <=> Settled(c)')
             /\ (Current(c) <=> Current(c)')
  BY DEF Processed, Refused, Settled, Current, Number
<1>3. CommandInv'
  BY <1>2 DEF IInv, CommandInv, LastOf
<1>4. SingleInv'
  BY <1>2 DEF IInv, SingleInv
<1>5. PlaceInv' /\ StoredInv'
  BY DEF IInv, PlaceInv, StoredInv, LastOf, Number
<1>6. RetryInv'
  BY DEF IInv, RetryInv
<1>7. OutcomeInv'
  BY DEF OutcomeInv
<1> QED
  BY <1>1, <1>3, <1>4, <1>5, <1>6, <1>7 DEF IInv

LEMMA CatchStep ==
  ASSUME IInv, pc \in {"select", "wait"},
         NEW e \in Outcome, e # Error("ServerSelectionTimeoutError"),
         NEW labelled \in BOOLEAN, Catch(e, labelled),
         flight' \subseteq flight,
         UNCHANGED <<ordered, bad, retryable, started, offset, full, tx, sent, executed, stored>>
  PROVE  IInv'
<1>1. CASE /\ retryable /\ retrying' = TRUE /\ last' = e
           /\ pc' = "select" /\ UNCHANGED outcome
  <2>1. outcome # Error("ServerSelectionTimeoutError")
    BY DEF IInv, OutcomeInv
  <2> QED
    BY <1>1, <2>1, AttemptEnds DEF IInv, TypeOK
<1>2. CASE End(e) /\ UNCHANGED <<retrying, last>>
  BY <1>2, AttemptEnds DEF IInv, TypeOK, End, OutcomeInv, RetryInv
<1> QED
  BY <1>1, <1>2 DEF Catch

LEMMA SelectTimesOutStep == IInv /\ SelectTimesOut => IInv'
<1> SUFFICES ASSUME IInv, SelectTimesOut PROVE IInv'
  OBVIOUS
<1> DEFINE timeout == Error("ServerSelectionTimeoutError")
<1>1. outcome' \in Outcome \cup {None} /\ (outcome' = timeout => sent = 0)
  BY OutcomeTypes DEF IInv, TypeOK, RetryInv, OutcomeInv, SelectTimesOut, End
<1> QED
  BY <1>1, AttemptEnds
  DEF IInv, TypeOK, OutcomeInv, RetryInv, SelectTimesOut, End, loop, bulk, cluster

LEMMA SelectStep ==
  ASSUME IInv, NEW supported \in BOOLEAN, Select(supported)
  PROVE  IInv'
<1>1. CASE retryable /\ ~supported /\ retrying
  BY <1>1, AttemptEnds
  DEF IInv, TypeOK, OutcomeInv, RetryInv, Select, End, bulk, cluster
<1>2. CASE ~(retryable /\ ~supported /\ retrying)
  <2>1. /\ pc = "select" /\ pc' = "send" /\ retryable' = (retryable /\ supported)
        /\ UNCHANGED <<last, ordered, bad, started, retrying, offset, full, tx, sent,
                       flight, executed, stored, outcome>>
    BY <1>2 DEF Select, bulk, cluster
  <2>2. TypeOK'
    BY <2>1 DEF IInv, TypeOK
  <2>3. RetryInv' /\ OutcomeInv'
    BY <1>2, <2>1 DEF IInv, TypeOK, RetryInv, OutcomeInv
  <2>4. CASE retryable' = retryable
    <3>1. \A c : Processed(c)' = Processed(c) /\ (Settled(c) <=> Settled(c)')
                 /\ (Current(c) <=> Current(c)')
      BY <2>1, <2>4 DEF Processed, Refused, Settled, Current, Number
    <3>2. CommandInv' /\ SingleInv'
      BY <2>1, <2>4, <3>1 DEF IInv, CommandInv, SingleInv, LastOf
    <3>3. PlaceInv'
      <4>1. CASE retryable
        BY <2>1, <2>4, <4>1 DEF IInv, PlaceInv, RetryInv, LastOf
      <4>2. CASE ~retryable
        <5>1. ~retrying' /\ executed = {} /\ flight = {}
          BY <2>1, <4>2, <1>2 DEF IInv, RetryInv, SingleInv, TypeOK
        <5> QED
          BY <2>1, <5>1 DEF PlaceInv
      <4> QED
        BY <4>1, <4>2
    <3>4. StoredInv'
      BY <2>1, <2>4 DEF IInv, StoredInv, Number
    <3> QED
      BY <2>2, <2>3, <3>2, <3>3, <3>4 DEF IInv
  <2>5. CASE retryable /\ ~supported
    <3>1. flight = {} /\ executed = {} /\ \A d \in Docs : stored[d] = 0
      BY <1>2, <2>1, <2>5 DEF IInv, RetryInv
    <3>2. CommandInv' /\ SingleInv' /\ PlaceInv' /\ StoredInv'
      BY <2>1, <3>1 DEF CommandInv, SingleInv, PlaceInv, StoredInv
    <3> QED
      BY <2>2, <2>3, <3>2 DEF IInv
  <2> QED
    BY <2>1, <2>4, <2>5 DEF IInv, TypeOK
<1> QED
  BY <1>1, <1>2

LEMMA CheckOutStep == IInv /\ CheckOutFails => IInv'
<1> SUFFICES ASSUME IInv, CheckOutFails PROVE IInv'
  OBVIOUS
<1> QED
  BY CatchStep, OutcomeTypes, OtherErrors DEF CheckOutFails, cluster

LEMMA NetworkErrorStep == IInv /\ NetworkError => IInv'
<1> SUFFICES ASSUME IInv, NetworkError PROVE IInv'
  OBVIOUS
<1> QED
  BY CatchStep, OutcomeTypes, OtherErrors DEF NetworkError, cluster

LEMMA ReplyHaltsStep ==
  ASSUME IInv, NEW c \in flight, NEW b \in BOOLEAN, ReplyHalts(c, b)
  PROVE  IInv'
<1> DEFINE e == [kind |-> "BulkWriteError", details |-> Merge(full, c, TRUE)]
<1>1. Merge(full, c, TRUE) \in Result
  BY MergeType DEF IInv, TypeOK
<1>2. e \in Outcome /\ e # Error("ServerSelectionTimeoutError")
  BY <1>1, OutcomeTypes, OtherErrors
<1>3. /\ pc = "wait" /\ Catch(e, b) /\ flight' \subseteq flight
      /\ UNCHANGED <<ordered, bad, retryable, started, offset, full, tx, sent, executed, stored>>
  BY DEF ReplyHalts, Awaited
<1> HIDE DEF e
<1> QED
  BY <1>2, <1>3, CatchStep

LEMMA RefuseStep ==
  ASSUME IInv, NEW c \in flight, NEW b \in BOOLEAN, Refuse(c, b)
  PROVE  IInv'
  BY CatchStep, OutcomeTypes, OtherErrors DEF Refuse, Awaited

\* Less in flight, and nothing else.
LEMMA FewerInFlight ==
  ASSUME IInv, flight' \subseteq flight,
         UNCHANGED <<executed, stored, pc, ordered, bad, retryable, last, started, retrying, offset,
                     full, tx, outcome, sent>>
  PROVE  IInv'
<1>1. /\ flight' \subseteq flight
      /\ UNCHANGED <<executed, stored, pc, ordered, bad, retryable, last, started, retrying, offset,
                     full, tx, outcome, sent>>
  OBVIOUS
<1>2. \A x : Processed(x)' = Processed(x) /\ (Settled(x) <=> Settled(x)')
             /\ (Current(x) <=> Current(x)')
  BY <1>1 DEF Processed, Refused, Settled, Current, Number
<1>3. TypeOK' /\ RetryInv' /\ OutcomeInv'
  BY <1>1 DEF IInv, TypeOK, RetryInv, OutcomeInv
<1>4. CommandInv' /\ SingleInv'
  BY <1>1, <1>2 DEF IInv, CommandInv, SingleInv, LastOf
<1>5. PlaceInv' /\ StoredInv'
  BY <1>1, <1>2 DEF IInv, PlaceInv, StoredInv, LastOf, Number
<1> QED
  BY <1>3, <1>4, <1>5 DEF IInv

LEMMA LoseStep == IInv /\ (\E c \in flight : Lose(c)) => IInv'
  BY FewerInFlight DEF Lose, loop, bulk

LEMMA StutterStep == IInv /\ UNCHANGED vars => IInv'
  BY FewerInFlight DEF vars, loop, bulk, cluster

LEMMA SendStep == IInv /\ Send => IInv'
<1> SUFFICES ASSUME IInv, Send PROVE IInv'
  OBVIOUS
<1>1. /\ pc = "send" /\ pc' = "wait" /\ started' = (started \/ retryable)
      /\ tx' = (IF retryable /\ ~started THEN tx + 1 ELSE tx)
      /\ sent' = sent + 1
      /\ UNCHANGED <<ordered, bad, retryable, last, retrying, offset, full, outcome, executed, stored>>
  BY DEF Send, loop
<1>2. /\ offset \in Nat /\ offset < NumDocs /\ offset + 1 \in Docs /\ LastOf(offset) \in Docs
      /\ offset < LastOf(offset) /\ sent \in Nat /\ tx \in Nat /\ sent' \in Nat /\ tx' \in Nat
  BY <1>1, PartOfList, BulkWriteAssumption DEF IInv, TypeOK, RetryInv
<1>a. PICK c : /\ flight' = flight \cup {c}
               /\ c = [no |-> sent', tx |-> IF retryable THEN tx' ELSE 0,
                       first |-> offset + 1, last |-> LastOf(offset), at |-> offset + 1]
  BY DEF Send
<1>3. c \in Command
  BY <1>2, <1>a DEF Command
<1>4. /\ flight' = flight \cup {c} /\ c.no = sent'
      /\ c.tx = (IF retryable THEN tx' ELSE 0) /\ c.first = offset + 1
      /\ c.last = LastOf(offset) /\ c.at = offset + 1
  BY <1>a
<1>5. TypeOK'
  BY <1>1, <1>2, <1>3, <1>4 DEF IInv, TypeOK
<1>6. \A x : Processed(x)' = Processed(x) /\ (Settled(x) <=> Settled(x)')
  BY <1>1 DEF Processed, Refused, Settled
<1>7. \A x \in flight : Settled(x) \/ Current(x)'
  <2>1. CASE retryable /\ ~started
    BY <1>1, <2>1 DEF IInv, PlaceInv
  <2>2. CASE ~(retryable /\ ~started)
    BY <1>1, <2>2 DEF IInv, CommandInv, Current, Number
  <2> QED
    BY <2>1, <2>2
<1>8. CommandInv'
  <2>1. ASSUME NEW x \in flight PROVE x.no # sent' /\ x.no <= sent'
    <3>1. x.no \in Nat /\ x.no <= sent
      BY DEF IInv, TypeOK, Command, CommandInv
    <3> QED
      BY <1>1, <1>2, <3>1
  <2>2. \A d \in Processed(c) : ~(d < c.at)
    BY <1>2, <1>3, <1>4, ProcessedPart
  <2>3. (c.first - 1) = offset /\ c.at \in c.first .. c.last + 1
    BY <1>2, <1>4, BulkWriteAssumption DEF Docs
  <2>4. Current(c)' /\ (retryable => c.tx # 0)
    BY <1>1, <1>2, <1>4 DEF Current, Number, IInv, RetryInv
  <2>5. ASSUME NEW x \in flight' PROVE
          /\ x.last = LastOf(x.first - 1) /\ x.at \in x.first .. x.last + 1
          /\ x.no <= sent'
          /\ \A d \in Processed(x) : d < x.at => d \in bad \/ <<x.tx, d>> \in executed
          /\ Settled(x) \/ Current(x)'
          /\ x.no = sent' => Current(x)'
          /\ retryable => x.tx # 0
    <3>1. CASE x = c
      <4>1. c.no <= sent'
        BY <1>2, <1>4
      <4> QED
        BY <1>4, <2>2, <2>3, <2>4, <3>1, <4>1
    <3>2. CASE x \in flight
      BY <1>7, <2>1, <3>2 DEF IInv, CommandInv
    <3> QED
      BY <1>4, <3>1, <3>2
  <2> QED
    BY <1>1, <1>6, <2>5 DEF CommandInv, LastOf
<1>9. SingleInv'
  <2> SUFFICES ASSUME ~retryable PROVE SingleInv'
    BY <1>1 DEF SingleInv
  <2>1. flight' = {c}
    BY <1>1, <1>4 DEF IInv, SingleInv
  <2>2. Current(c)'
    BY <1>1, <1>4 DEF Current, Number
  <2>3. \A p \in executed : p[2] < c.at
    <3> SUFFICES ASSUME NEW p \in executed PROVE p[2] < c.at
      OBVIOUS
    <3>1. p[2] <= offset /\ p[2] \in Docs
      BY <1>1 DEF IInv, TypeOK, PlaceInv
    <3> QED
      BY <1>2, <1>4, <3>1, BulkWriteAssumption DEF Docs
  <2> QED
    BY <1>1, <2>1, <2>2, <2>3 DEF SingleInv
<1>10. PlaceInv'
  BY <1>1 DEF IInv, PlaceInv, LastOf
<1>11. StoredInv'
  <2>1. CASE retryable /\ ~started
    <3>1. \A d \in Docs : stored[d] = 1 => d <= offset
      <4> SUFFICES ASSUME NEW d \in Docs, <<Number, d>> \in executed PROVE d <= offset
        BY DEF IInv, StoredInv
      <4>1. <<Number, d>>[2] <= offset
        BY <1>1, <2>1 DEF IInv, PlaceInv
      <4> QED
        BY <4>1
    <3> QED
      BY <1>1, <3>1 DEF IInv, StoredInv
  <2>2. CASE ~(retryable /\ ~started)
    BY <1>1, <2>2 DEF IInv, StoredInv, Number
  <2> QED
    BY <2>1, <2>2
<1>12. RetryInv' /\ OutcomeInv'
  <2>1. OutcomeInv'
    BY <1>1 DEF IInv, OutcomeInv
  <2>2. retryable => tx' # 0 /\ started'
    <3>1. retryable /\ ~started => tx + 1 # 0
      BY <1>2
    <3> QED
      BY <1>1, <3>1 DEF IInv, RetryInv
  <2> QED
    BY <1>1, <2>1, <2>2 DEF IInv, RetryInv
<1> QED
  BY <1>5, <1>8, <1>9, <1>10, <1>11, <1>12 DEF IInv

LEMMA ReplyStep ==
  ASSUME IInv, NEW c \in flight, NEW b \in BOOLEAN, Reply(c, b)
  PROVE  IInv'
<1>1. /\ pc = "wait" /\ c.no = sent /\ Executed(c)
      /\ full' = Merge(full, c, b) /\ retrying' = FALSE /\ started' = FALSE
      /\ flight' = flight \ {c}
      /\ UNCHANGED <<ordered, bad, retryable, last, tx, sent, executed, stored>>
  BY DEF Reply, Awaited, loop
<1>2. /\ c \in Command /\ Current(c) /\ c.first = offset + 1 /\ c.last = LastOf(offset)
      /\ offset \in 0 .. NumDocs /\ offset < NumDocs
      /\ offset < c.last /\ c.last \in Docs
  <2>1. c \in Command /\ Current(c) /\ c.first = offset + 1 /\ c.last = LastOf(c.first - 1)
    BY <1>1 DEF IInv, TypeOK, CommandInv, Current
  <2>2. offset \in 0 .. NumDocs /\ offset < NumDocs
    BY <1>1 DEF IInv, TypeOK, RetryInv
  <2>3. c.first - 1 = offset
    BY <2>1, <2>2, BulkWriteAssumption
  <2> QED
    BY <2>1, <2>2, <2>3, PartOfList
<1>3. full' \in Result
  BY <1>1, <1>2, MergeType DEF IInv, TypeOK
<1>4. \/ pc' = "done" /\ Finish(full') /\ offset' \in {offset, c.last}
      \/ /\ pc' = "send" /\ UNCHANGED outcome /\ offset' = c.last /\ c.last # NumDocs
  BY DEF Reply, Finish, End
<1>5. offset' \in offset .. NumDocs /\ offset' \in 0 .. NumDocs
      /\ (pc' # "done" => offset' < NumDocs)
  BY <1>2, <1>4, BulkWriteAssumption DEF Docs
<1>6. /\ outcome' \in Outcome \cup {None}
      /\ outcome' # Error("ServerSelectionTimeoutError")
  <2>1. CASE Finish(full')
    BY <1>3, <2>1, OutcomeTypes, OtherErrors DEF Finish, End
  <2>2. CASE UNCHANGED outcome
    BY <1>1, <2>2 DEF IInv, TypeOK, OutcomeInv
  <2> QED
    BY <1>4, <2>1, <2>2
<1>7. TypeOK'
  BY <1>1, <1>3, <1>4, <1>5, <1>6 DEF IInv, TypeOK
<1>8. \A x : Processed(x)' = Processed(x) /\ (Settled(x) <=> Settled(x)')
  BY <1>1 DEF Processed, Refused, Settled
<1>9. \A x \in flight : Settled(x)
  <2> SUFFICES ASSUME NEW x \in flight, Current(x) PROVE Settled(x)
    BY DEF IInv, CommandInv
  <2>1. x.first = c.first /\ x.tx = c.tx /\ x.last = c.last
    BY <1>2 DEF Current, IInv, CommandInv
  <2>2. Processed(x) = Processed(c)
    BY <2>1, SamePart
  <2>3. \A d \in Processed(c) : d \in bad \/ <<c.tx, d>> \in executed
    BY <1>1 DEF IInv, CommandInv, Executed
  <2> QED
    BY <2>1, <2>2, <2>3 DEF Settled
<1>10. CommandInv'
  BY <1>1, <1>4, <1>8, <1>9 DEF IInv, CommandInv, LastOf
<1>11. SingleInv'
  <2>1. ~retryable => flight' = {}
    BY <1>1 DEF IInv, SingleInv
  <2> QED
    BY <1>1, <2>1 DEF SingleInv
<1>12. PlaceInv'
  <2>1. \A p \in executed : p[2] <= LastOf(offset) /\ p[2] \in Nat
    BY BulkWriteAssumption DEF IInv, PlaceInv, TypeOK, Docs
  <2>2. /\ LastOf(offset) \in Nat /\ LastOf(offset') \in Nat
        /\ LastOf(offset) <= LastOf(offset')
    BY <1>2, <1>5, PartOfList, LastOfGrows
  <2>3. \A p \in executed : p[2] <= LastOf(offset')
    BY <2>1, <2>2
  <2>4. pc' = "send" => \A p \in executed : p[2] <= offset'
    BY <1>2, <1>4, <2>1
  <2>5. LastOf(offset)' = LastOf(offset')
    BY DEF LastOf
  <2> QED
    BY <1>1, <1>8, <1>9, <2>3, <2>4, <2>5 DEF PlaceInv
<1>13. StoredInv'
  <2>1. \A d \in Docs : d <= offset => d <= offset'
    BY <1>5, BulkWriteAssumption DEF IInv, TypeOK, Docs
  <2> QED
    BY <1>1, <2>1 DEF IInv, StoredInv, Number
<1>14. RetryInv'
  BY <1>1, <1>4, <1>5 DEF IInv, RetryInv
<1>15. OutcomeInv'
  BY <1>1, <1>6 DEF OutcomeInv
<1> QED
  BY <1>7, <1>10, <1>11, <1>12, <1>13, <1>14, <1>15 DEF IInv

\* A statement that stores a document is one of the part being written, and
\* the document was not stored before.
LEMMA StoresCurrent ==
  ASSUME IInv, NEW c \in flight, c.at \in Processed(c), c.at \notin bad,
         c.tx = 0 \/ <<c.tx, c.at>> \notin executed
  PROVE  /\ Current(c) /\ stored[c.at] = 0 /\ (pc = "select" => retrying)
         /\ pc = "send" => retryable /\ started
<1>0. /\ c \in Command /\ c.at \in Docs /\ c.at \in c.first .. c.last
      /\ c.first \in Docs /\ c.tx \in Nat /\ c.at \in Nat
  BY ProcessedPart, BulkWriteAssumption DEF IInv, TypeOK, Command, Docs
<1>1. CASE retryable
  <2>1. c.tx # 0 /\ ~Settled(c)
    BY <1>1 DEF IInv, CommandInv, Settled
  <2>2. Current(c)
    BY <2>1 DEF IInv, CommandInv
  <2>3. <<Number, c.at>> \notin executed /\ ~(c.at <= offset)
    BY <1>0, <2>1, <2>2 DEF Current, IInv, TypeOK
  <2>4. stored[c.at] = 0
    BY <1>0, <2>3 DEF IInv, StoredInv
  <2>5. pc = "send" => retryable /\ started
    BY <2>1 DEF IInv, PlaceInv
  <2>6. pc # "select" \/ retrying
    BY DEF IInv, RetryInv
  <2> QED
    BY <2>2, <2>4, <2>5, <2>6
<1>2. CASE ~retryable
  <2>1. Current(c) /\ pc # "select" /\ pc # "send" /\ \A p \in executed : p[2] < c.at
    BY <1>2 DEF IInv, SingleInv
  <2>2. <<Number, c.at>> \notin executed /\ ~(c.at <= offset)
    <3>1. <<Number, c.at>>[2] = c.at /\ ~(c.at < c.at)
      BY <1>0
    <3> QED
      BY <1>0, <2>1, <3>1 DEF Current, IInv, TypeOK
  <2>3. stored[c.at] = 0
    BY <1>0, <2>2 DEF IInv, StoredInv
  <2> QED
    BY <2>1, <2>3
<1> QED
  BY <1>1, <1>2

LEMMA ExecuteStep ==
  ASSUME IInv, NEW c \in flight, Execute(c)
  PROVE  IInv'
<1> DEFINE next == [c EXCEPT !.at = @ + 1]
<1>1. /\ c.at \in Processed(c) /\ flight' = (flight \ {c}) \cup {next}
      /\ UNCHANGED <<pc, ordered, bad, retryable, last, started, retrying, offset, full, tx,
                     outcome, sent>>
  BY DEF Execute, loop, bulk
<1>2. /\ c \in Command /\ c.at \in Docs /\ c.at \in c.first .. c.last
      /\ c.last = LastOf(c.first - 1) /\ c.first \in Docs /\ c.last \in Docs /\ c.no <= sent
      /\ c.tx \in Nat /\ c.at \in Nat
  BY <1>1, ProcessedPart DEF IInv, TypeOK, CommandInv, Command
<1>3. /\ next \in Command /\ next.at = c.at + 1 /\ next.no = c.no /\ next.tx = c.tx
      /\ next.first = c.first /\ next.last = c.last
  BY <1>2 DEF Command
<1> HIDE DEF next
<1>4. Processed(next) = Processed(c)
  BY <1>3, SamePart
<1> DEFINE stores == c.at \notin bad /\ (c.tx = 0 \/ <<c.tx, c.at>> \notin executed)
<1>5. /\ stores => /\ stored' = [stored EXCEPT ![c.at] = @ + 1]
                   /\ executed' = executed \cup {<<c.tx, c.at>>}
      /\ ~stores => UNCHANGED <<stored, executed>>
  BY DEF Execute
<1>6. ASSUME stores
      PROVE  /\ Current(c) /\ stored[c.at] = 0 /\ (pc = "select" => retrying)
             /\ pc = "send" => retryable /\ started
  BY <1>1, <1>6, StoresCurrent
<1>7. executed \subseteq executed' /\ executed' \subseteq executed \cup {<<c.tx, c.at>>}
      /\ (c.at \in bad \/ <<c.tx, c.at>> \in executed' \/ <<c.tx, c.at>> \in executed)
  BY <1>5
<1>8. \A d \in Docs : stored'[d] = IF stores /\ d = c.at THEN 1 ELSE stored[d]
  BY <1>2, <1>5, <1>6 DEF IInv, TypeOK
<1> HIDE DEF stores
<1>9. TypeOK'
  <2>1. stored' \in [Docs -> Nat]
    BY <1>2, <1>5, <1>6 DEF IInv, TypeOK
  <2>2. executed' \subseteq Nat \X Docs
    BY <1>2, <1>7 DEF IInv, TypeOK
  <2>3. flight' \subseteq Command
    BY <1>1, <1>3 DEF IInv, TypeOK
  <2> QED
    BY <1>1, <2>1, <2>2, <2>3 DEF IInv, TypeOK
<1>10. \A x : Processed(x)' = Processed(x) /\ (Current(x)' <=> Current(x))
              /\ (Settled(x) => Settled(x)')
  BY <1>1, <1>7 DEF Processed, Refused, Current, Number, Settled
<1>11. CommandInv'
  <2>1. ASSUME NEW x \in flight
        PROVE  /\ x.last = LastOf(x.first - 1) /\ x.at \in x.first .. x.last + 1
               /\ x.no <= sent
               /\ \A d \in Processed(x) : d < x.at => d \in bad \/ <<x.tx, d>> \in executed'
               /\ Settled(x)' \/ Current(x)'
               /\ pc = "wait" /\ x.no = sent => Current(x)'
               /\ retryable => x.tx # 0
    BY <1>7, <1>10 DEF IInv, CommandInv
  <2>2. /\ next.last = LastOf(next.first - 1) /\ next.at \in next.first .. next.last + 1
        /\ next.no <= sent
    BY <1>2, <1>3, BulkWriteAssumption DEF Docs
  <2>3. ASSUME NEW d \in Processed(next), d < next.at
        PROVE  d \in bad \/ <<next.tx, d>> \in executed'
    <3>1. d \in Processed(c) /\ d \in Nat
      BY <1>2, <1>4, ProcessedPart, BulkWriteAssumption DEF Docs
    <3>2. d = c.at \/ d < c.at
      BY <1>2, <1>3, <2>3, <3>1
    <3> QED
      BY <1>3, <1>7, <2>1, <3>1, <3>2
  <2>4. (Settled(next)' <=> Settled(c)') /\ (Current(next)' <=> Current(c)')
    BY <1>3, <1>4, <1>10 DEF Settled, Current
  <2>5. /\ Settled(next)' \/ Current(next)'
        /\ pc = "wait" /\ next.no = sent => Current(next)'
        /\ retryable => next.tx # 0
    BY <1>3, <2>1, <2>4
  <2>6. ASSUME NEW x \in flight'
        PROVE  /\ x.last = LastOf(x.first - 1) /\ x.at \in x.first .. x.last + 1
               /\ x.no <= sent
               /\ \A d \in Processed(x) : d < x.at => d \in bad \/ <<x.tx, d>> \in executed'
               /\ Settled(x)' \/ Current(x)'
               /\ pc = "wait" /\ x.no = sent => Current(x)'
               /\ retryable => x.tx # 0
    <3>1. CASE x = next
      BY <2>2, <2>3, <2>5, <3>1
    <3>2. CASE x \in flight
      BY <2>1, <3>2
    <3> QED
      BY <1>1, <3>1, <3>2
  <2> QED
    BY <1>1, <1>10, <2>6 DEF CommandInv, LastOf
<1>12. SingleInv'
  <2> SUFFICES ASSUME ~retryable PROVE SingleInv'
    BY <1>1 DEF SingleInv
  <2>1. /\ pc \notin {"select", "send"} /\ Current(c)
        /\ \A e \in flight : e = c
        /\ \A p \in executed : p[2] < c.at
    BY DEF IInv, SingleInv
  <2>2. flight' = {next}
    BY <1>1, <2>1
  <2>3. Current(next)'
    BY <1>3, <1>10, <2>1 DEF Current, Number
  <2>4. ASSUME NEW p \in executed' PROVE p[2] < next.at
    <3>1. p[2] \in Nat
      BY <1>9, BulkWriteAssumption DEF TypeOK, Docs
    <3>2. p \in executed \/ p = <<c.tx, c.at>>
      BY <1>7
    <3> QED
      BY <1>2, <1>3, <2>1, <3>1, <3>2
  <2> QED
    BY <1>1, <2>1, <2>2, <2>3, <2>4 DEF SingleInv
<1>13. PlaceInv'
  <2>1. ASSUME NEW p \in executed' PROVE p[2] <= LastOf(offset)
    <3>1. CASE p \in executed
      BY <3>1 DEF IInv, PlaceInv
    <3>2. CASE stores /\ p = <<c.tx, c.at>>
      <4>1. c.first - 1 = offset
        BY <1>2, <1>6, <3>2 DEF Current, IInv, TypeOK
      <4> QED
        BY <1>2, <3>2, <4>1
    <3> QED
      BY <1>5, <3>1, <3>2
  <2>2. ASSUME pc = "send", ~(retryable /\ started)
        PROVE  /\ \A p \in executed' : p[2] <= offset
               /\ \A x \in flight' : Settled(x)'
    <3>1. UNCHANGED executed /\ \A x \in flight : Settled(x)'
      BY <1>5, <1>6, <1>10, <2>2 DEF IInv, PlaceInv
    <3>2. Settled(next)'
      BY <1>3, <1>4, <1>10, <3>1 DEF Settled
    <3> QED
      BY <1>1, <2>2, <3>1, <3>2 DEF IInv, PlaceInv
  <2> QED
    BY <1>1, <2>1, <2>2 DEF PlaceInv, LastOf
<1>14. StoredInv'
  <2> SUFFICES ASSUME NEW d \in Docs
               PROVE  /\ stored'[d] \in {0, 1}
                      /\ stored'[d] = 1 => d <= offset \/ <<Number, d>> \in executed'
    BY <1>1 DEF StoredInv, Number
  <2>1. CASE stores /\ d = c.at
    <3>1. <<Number, d>> \in executed'
      BY <1>5, <1>6, <2>1 DEF Current
    <3> QED
      BY <1>8, <2>1, <3>1
  <2>2. CASE ~(stores /\ d = c.at)
    BY <1>7, <1>8, <2>2 DEF IInv, StoredInv
  <2> QED
    BY <2>1, <2>2
<1>15. RetryInv' /\ OutcomeInv'
  <2>1. ~(pc = "select" /\ ~retrying)
    BY DEF IInv, RetryInv
  <2> QED
    BY <1>1, <2>1 DEF IInv, RetryInv, OutcomeInv
<1> QED
  BY <1>9, <1>11, <1>12, <1>13, <1>14, <1>15 DEF IInv

LEMMA StepIInv == IInv /\ [Next]_vars => IInv'
<1> SUFFICES ASSUME IInv, [Next]_vars PROVE IInv'
  OBVIOUS
<1>1. CASE \E b \in BOOLEAN : Select(b)
  BY <1>1, SelectStep
<1>2. CASE SelectTimesOut \/ CheckOutFails \/ Send \/ NetworkError
  BY <1>2, SelectTimesOutStep, CheckOutStep, SendStep, NetworkErrorStep
<1>3. CASE \E c \in flight, b \in BOOLEAN : Reply(c, b) \/ ReplyHalts(c, b) \/ Refuse(c, b)
  BY <1>3, ReplyStep, ReplyHaltsStep, RefuseStep
<1>4. CASE \E c \in flight : Execute(c)
  BY <1>4, ExecuteStep
<1>5. CASE \E c \in flight : Lose(c)
  BY <1>5, LoseStep
<1>6. CASE UNCHANGED vars
  BY <1>6, StutterStep
<1> QED
  BY <1>1, <1>2, <1>3, <1>4, <1>5, <1>6 DEF Next, Client, Cluster

LEMMA InvariantHolds == Spec => []IInv
  BY InitIInv, StepIInv, PTL DEF Spec

-----------------------------------------------------------------------------
\* The locals of the retry loop, the run and the commands in flight keep their
\* types (_retry_internal, _Bulk).
THEOREM TypeCorrect == Spec => []TypeOK
<1>1. IInv => TypeOK
  BY DEF IInv
<1> QED
  BY <1>1, InvariantHolds, PTL

\* No document of the call is stored twice, whatever commands are late, lost
\* or sent again (_Bulk._execute_command, _retry_internal).
THEOREM AtMostOnceHolds == Spec => []AtMostOnce
<1>1. IInv => AtMostOnce
  <2> SUFFICES ASSUME IInv, NEW d \in Docs PROVE stored[d] <= 1
    BY DEF AtMostOnce
  <2>1. stored[d] = 0 \/ stored[d] = 1
    BY DEF IInv, StoredInv
  <2> QED
    BY <2>1
<1> QED
  BY <1>1, InvariantHolds, PTL

\* A ServerSelectionTimeoutError means that no command of the call was ever
\* sent (_retry_internal raises last_error in its place on a retry).
THEOREM TimeoutHolds == Spec => []TimeoutMeansNothingSent
<1>1. IInv => TimeoutMeansNothingSent
  BY DEF IInv, OutcomeInv, TimeoutMeansNothingSent
<1> QED
  BY <1>1, InvariantHolds, PTL

-----------------------------------------------------------------------------
(* The report. A call that reports what it did has written the current     *)
(* part of the list as far as it will ever be written.                     *)

Written == Processed([first |-> offset + 1, last |-> LastOf(offset)])
PartStored == \A d \in Written : d \in bad \/ stored[d] # 0

WrittenInv ==
  /\ \A p \in executed : stored[p[2]] # 0
  /\ \A d \in Docs : stored[d] # 0 => d \notin bad /\ (d <= offset \/ d \in Written)
  /\ \A d \in 1 .. offset : d \in bad \/ stored[d] # 0
  /\ ordered => \A d \in bad : ~(d <= offset)
  /\ \A c \in flight :
       ordered /\ (\E d \in bad : d \in c.first .. c.at - 1) => Refused(c) # {}

\* full_result has the finished parts of the list.
CountInv ==
  pc # "done" =>
    /\ full.nInserted = Cardinality((1 .. offset) \ bad)
    /\ full.writeErrors = bad \cap (1 .. offset)

Exact(o) ==
  /\ o.details.nInserted = Cardinality(Stored)
  /\ o.details.writeErrors \subseteq bad
  /\ ~o.details.wce /\ ~ordered => o.details.writeErrors = bad /\ Stored = Docs \ bad
  /\ o.kind = "returned" => Stored = Docs

Final(o) == o.details # None => PartStored /\ Exact(o)

\* So has the error that a retry may still raise in place of its own.
FinalInv ==
  /\ pc # "done" => outcome = None
  /\ retrying => last \in Outcome /\ Final(last)
  /\ outcome # None => Final(outcome)

\* The commands of one part that may be under way: the first attempt, then
\* its retry.
Attempts == {k \in flight : k.first = offset + 1}

AttemptsInv ==
  /\ \A k \in flight : k.first <= offset + 1
  /\ pc = "send" /\ ~retrying => Attempts = {}
  /\ pc \in {"select", "send"} \/ (pc = "wait" /\ ~retrying) =>
       \A x, y \in Attempts : x = y

ReportInv == WrittenInv /\ CountInv /\ FinalInv

\* An awaited command, or one that still stores, is of the current part.
LEMMA CurrentPart ==
  ASSUME IInv, NEW c \in flight, Current(c)
  PROVE  /\ c \in Command /\ Processed(c) = Written
         /\ c.first = offset + 1 /\ c.last = LastOf(offset)
         /\ offset \in Nat /\ c.first \in Docs /\ c.last \in Docs /\ c.at \in Nat
         /\ c.at \in c.first .. c.last + 1
<1>1. /\ c \in Command /\ c.last = LastOf(c.first - 1) /\ c.first = offset + 1
      /\ offset \in 0 .. NumDocs /\ c.at \in c.first .. c.last + 1
  BY DEF IInv, TypeOK, CommandInv, Current
<1>2. c.first - 1 = offset /\ offset \in Nat
  BY <1>1, BulkWriteAssumption
<1>3. Processed(c) = Written
  BY <1>1, <1>2 DEF Written, Processed, Refused
<1> QED
  BY <1>1, <1>2, <1>3 DEF Command

\* Steps that write nothing and change no report. A command that is sent has
\* nothing executed yet.
LEMMA QuietReport ==
  ASSUME ReportInv, pc' # pc => pc # "done" /\ pc' # "done",
         \A c \in flight' : c \in flight \/ (c.at = c.first /\ c.first \in Nat),
         UNCHANGED <<ordered, bad, offset, full, executed, stored, last, retrying, outcome>>
  PROVE  ReportInv'
<1>1. /\ pc' # pc => pc # "done" /\ pc' # "done"
      /\ \A c \in flight' : c \in flight \/ (c.at = c.first /\ c.first \in Nat)
      /\ UNCHANGED <<ordered, bad, offset, full, executed, stored, last, retrying, outcome>>
  OBVIOUS
<1>2. /\ \A c : Refused(c)' = Refused(c) /\ Processed(c)' = Processed(c)
      /\ Written' = Written /\ Stored' = Stored
  BY <1>1 DEF Written, Processed, Refused, LastOf, Stored
<1>3. \A c \in flight' : c \in flight \/ c.first .. c.at - 1 = {}
  BY <1>1
<1>4. WrittenInv'
  BY <1>1, <1>2, <1>3 DEF ReportInv, WrittenInv
<1>5. CountInv'
  BY <1>1 DEF ReportInv, CountInv
<1>6. FinalInv'
  BY <1>1, <1>2 DEF ReportInv, FinalInv, Final, PartStored, Exact
<1> QED
  BY <1>4, <1>5, <1>6 DEF ReportInv

\* What all the steps share that end an attempt, or the call, without a reply
\* that is merged.
LEMMA AttemptReport ==
  ASSUME ReportInv, pc \in {"select", "wait"}, pc' \in {"select", "done"},
         flight' \subseteq flight,
         UNCHANGED <<ordered, bad, offset, full, executed, stored>>,
         pc' = "select" => UNCHANGED outcome,
         retrying' => last' \in Outcome /\ Final(last'),
         outcome' # None => Final(outcome')
  PROVE  ReportInv'
<1>1. /\ pc \in {"select", "wait"} /\ pc' \in {"select", "done"}
      /\ flight' \subseteq flight
      /\ UNCHANGED <<ordered, bad, offset, full, executed, stored>>
      /\ pc' = "select" => UNCHANGED outcome
      /\ retrying' => last' \in Outcome /\ Final(last')
      /\ outcome' # None => Final(outcome')
  OBVIOUS
<1>2. /\ \A c : Refused(c)' = Refused(c) /\ Processed(c)' = Processed(c)
      /\ Written' = Written /\ Stored' = Stored
  BY <1>1 DEF Written, Processed, Refused, LastOf, Stored
<1>3. WrittenInv'
  BY <1>1, <1>2 DEF ReportInv, WrittenInv
<1>4. CountInv'
  BY <1>1 DEF ReportInv, CountInv
<1>5. FinalInv'
  BY <1>1, <1>2 DEF ReportInv, FinalInv, Final, PartStored, Exact
<1> QED
  BY <1>3, <1>4, <1>5 DEF ReportInv

LEMMA CatchReport ==
  ASSUME ReportInv, pc \in {"select", "wait"},
         NEW e \in Outcome, Final(e), NEW labelled \in BOOLEAN, Catch(e, labelled),
         flight' \subseteq flight,
         UNCHANGED <<ordered, bad, offset, full, executed, stored>>
  PROVE  ReportInv'
<1>1. CASE /\ retrying' = TRUE /\ last' = e /\ pc' = "select" /\ UNCHANGED outcome
  <2>1. outcome = None
    BY DEF ReportInv, FinalInv
  <2> QED
    BY <1>1, <2>1, AttemptReport
<1>2. CASE End(e) /\ UNCHANGED <<retrying, last>>
  BY <1>2, AttemptReport DEF End, ReportInv, FinalInv
<1> QED
  BY <1>1, <1>2 DEF Catch

\* An error without details says nothing.
LEMMA ErrorFinal == \A k : Final(Error(k))
  BY DEF Final, Error

LEMMA SelectReport ==
  ASSUME ReportInv, SelectTimesOut \/ CheckOutFails \/ \E b \in BOOLEAN : Select(b)
  PROVE  ReportInv'
<1>1. CASE CheckOutFails
  BY <1>1, CatchReport, OutcomeTypes, ErrorFinal DEF CheckOutFails, cluster
<1>2. CASE SelectTimesOut
  <2>1. Final(IF retrying THEN last ELSE Error("ServerSelectionTimeoutError"))
    BY ErrorFinal DEF ReportInv, FinalInv
  <2>2. /\ pc = "select" /\ pc' = "done" /\ Final(outcome')
        /\ UNCHANGED <<retrying, last, flight, ordered, bad, offset, full, executed, stored>>
    BY <1>2, <2>1 DEF SelectTimesOut, End, loop, bulk, cluster
  <2> QED
    BY <2>2, AttemptReport DEF ReportInv, FinalInv
<1>3. ASSUME NEW b \in BOOLEAN, Select(b) PROVE ReportInv'
  <2>1. /\ pc = "select"
        /\ UNCHANGED <<retrying, last, flight, ordered, bad, offset, full, executed, stored>>
    BY <1>3 DEF Select, bulk, cluster
  <2>2. CASE retryable /\ ~b /\ retrying
    <3>1. pc' = "done" /\ outcome' = last
      BY <1>3, <2>2 DEF Select, End
    <3> QED
      BY <2>1, <2>2, <3>1, AttemptReport DEF ReportInv, FinalInv
  <2>3. CASE ~(retryable /\ ~b /\ retrying)
    <3>1. pc' = "send" /\ outcome' = outcome
      BY <1>3, <2>3 DEF Select
    <3> QED
      BY <2>1, <3>1, QuietReport
  <2> QED
    BY <2>2, <2>3
<1> QED
  BY <1>1, <1>2, <1>3

LEMMA SendReport == IInv /\ ReportInv /\ Send => ReportInv'
<1> SUFFICES ASSUME IInv, ReportInv, Send PROVE ReportInv'
  OBVIOUS
<1>1. /\ pc = "send" /\ pc' = "wait"
      /\ UNCHANGED <<ordered, bad, offset, full, executed, stored, last, retrying, outcome>>
  BY DEF Send, loop
<1>3. PICK c : /\ flight' = flight \cup {c}
               /\ c = [no |-> sent', tx |-> IF retryable THEN tx' ELSE 0,
                       first |-> offset + 1, last |-> LastOf(offset), at |-> offset + 1]
  BY DEF Send
<1>4. c.at = c.first /\ c.first = offset + 1
  BY <1>3
<1>2. offset + 1 \in Nat
  BY BulkWriteAssumption DEF IInv, TypeOK
<1> QED
  BY <1>1, <1>2, <1>3, <1>4, QuietReport

\* What the cluster did with a command that it executed to its end.
LEMMA ReplyCounts ==
  ASSUME IInv, ReportInv, NEW c \in flight, Awaited(c), Executed(c)
  PROVE  /\ PartStored /\ Current(c)
         /\ Stored = ((1 .. offset) \ bad) \cup (Processed(c) \ bad)
         /\ Refused(c) = {} \/ ~ordered =>
              Processed(c) = c.first .. c.last /\ Refused(c) = bad \cap (c.first .. c.last)
         /\ \A w \in BOOLEAN :
              /\ Merge(full, c, w).nInserted = Cardinality(Stored)
              /\ Merge(full, c, w).writeErrors = (bad \cap (1 .. offset)) \cup Refused(c)
              /\ Merge(full, c, w).wce = (full.wce \/ w)
<1>1. Current(c) /\ pc = "wait"
  BY DEF Awaited, IInv, CommandInv
<1>2. /\ c \in Command /\ Processed(c) = Written
      /\ c.first = offset + 1 /\ c.last = LastOf(offset) /\ offset \in Nat
      /\ c.first \in Docs /\ c.last \in Docs /\ c.at \in Nat
      /\ c.at \in c.first .. c.last + 1
  BY <1>1, CurrentPart
<1>3. PartStored
  <2> SUFFICES ASSUME NEW d \in Processed(c), d \notin bad PROVE stored[d] # 0
    BY <1>2 DEF PartStored
  <2>1. <<c.tx, d>> \in executed
    BY DEF IInv, CommandInv, Executed
  <2>2. <<c.tx, d>>[2] = d
    OBVIOUS
  <2> QED
    BY <2>1, <2>2 DEF ReportInv, WrittenInv
<1>4. (1 .. offset) \subseteq Docs /\ Processed(c) \subseteq Docs /\ Refused(c) \subseteq c.first .. c.last
  BY <1>2, ProcessedPart, BulkWriteAssumption DEF IInv, TypeOK, Docs
<1>5. Stored = ((1 .. offset) \ bad) \cup (Processed(c) \ bad)
  <2>1. ASSUME NEW d \in Stored PROVE d \in ((1 .. offset) \ bad) \cup (Processed(c) \ bad)
    BY <1>2, BulkWriteAssumption DEF ReportInv, WrittenInv, Stored, Docs
  <2>2. ASSUME NEW d \in ((1 .. offset) \ bad) \cup (Processed(c) \ bad) PROVE d \in Stored
    BY <1>2, <1>3, <1>4 DEF ReportInv, WrittenInv, PartStored, Stored
  <2> QED
    BY <2>1, <2>2
<1>6. ASSUME Refused(c) = {} \/ ~ordered
      PROVE  Processed(c) = c.first .. c.last /\ Refused(c) = bad \cap (c.first .. c.last)
  <2>1. Processed(c) = c.first .. c.last
    BY <1>6 DEF Processed
  <2>2. CASE ~ordered
    BY <2>1, <2>2 DEF Refused, Processed
  <2>3. CASE ordered
    <3>1. ASSUME NEW d \in bad \cap (c.first .. c.last) PROVE FALSE
      <4>1. d < c.at /\ d \in Nat /\ c.first \in Nat
        BY <1>2, <2>1, BulkWriteAssumption DEF Executed, Docs
      <4>2. d \in c.first .. c.at - 1
        BY <1>2, <4>1
      <4> QED
        BY <1>6, <2>3, <4>2 DEF ReportInv, WrittenInv
    <3> QED
      BY <1>6, <2>1, <2>3, <3>1
  <2> QED
    BY <2>2, <2>3
<1>7. ASSUME NEW w \in BOOLEAN
      PROVE  /\ Merge(full, c, w).nInserted = Cardinality(Stored)
             /\ Merge(full, c, w).writeErrors = (bad \cap (1 .. offset)) \cup Refused(c)
             /\ Merge(full, c, w).wce = (full.wce \/ w)
  <2> DEFINE A == (1 .. offset) \ bad
             B == Processed(c) \ bad
  <2>1. full.nInserted = Cardinality(A) /\ full.writeErrors = bad \cap (1 .. offset)
    BY <1>1 DEF ReportInv, CountInv
  <2>2. IsFiniteSet(A) /\ IsFiniteSet(B) /\ A \cap B = {}
    <3>1. IsFiniteSet(1 .. NumDocs)
      BY FS_Interval, BulkWriteAssumption
    <3>2. A \subseteq 1 .. NumDocs /\ B \subseteq 1 .. NumDocs
      BY <1>4 DEF Docs
    <3>3. \A d \in Processed(c) : d \notin 1 .. offset
      BY <1>2, ProcessedPart, BulkWriteAssumption DEF Docs
    <3> QED
      BY <3>1, <3>2, <3>3, FS_Subset
  <2>3. Cardinality(Stored) = Cardinality(A) + Cardinality(B)
    <3>1. /\ Cardinality(A \cup B) = Cardinality(A) + Cardinality(B) - Cardinality(A \cap B)
          /\ Cardinality(A) \in Nat /\ Cardinality(B) \in Nat
      BY <2>2, FS_Union, FS_CardinalityType
    <3> HIDE DEF A, B
    <3>2. Cardinality(A \cap B) = 0
      BY <2>2, FS_EmptySet
    <3>3. Cardinality(A \cup B) = Cardinality(A) + Cardinality(B)
      BY <3>1, <3>2
    <3> QED
      BY <1>5, <3>3 DEF A, B
  <2>4. {(d - c.first) + offset + 1 : d \in Refused(c)} = Refused(c)
    <3>1. \A d \in Refused(c) : (d - c.first) + offset + 1 = d
      BY <1>2, <1>4, BulkWriteAssumption DEF Docs
    <3> QED
      BY <3>1
  <2> QED
    BY <2>1, <2>3, <2>4 DEF Merge
<1> QED
  BY <1>1, <1>3, <1>5, <1>6, <1>7

LEMMA HaltsReport ==
  ASSUME IInv, ReportInv, NEW c \in flight, NEW b \in BOOLEAN, ReplyHalts(c, b)
  PROVE  ReportInv'
<1> DEFINE r == Merge(full, c, TRUE)
           e == [kind |-> "BulkWriteError", details |-> r]
<1>1. c \in Command
  BY DEF IInv, TypeOK
<1>2. r \in Result
  BY <1>1, MergeType DEF IInv, TypeOK
<1>3. /\ PartStored /\ r.nInserted = Cardinality(Stored)
      /\ r.writeErrors = (bad \cap (1 .. offset)) \cup Refused(c) /\ r.wce
  BY ReplyCounts DEF ReplyHalts
<1>4. Refused(c) \subseteq bad
  BY DEF Refused
<1> HIDE DEF r
<1>5. e \in Outcome /\ e.details = r /\ e.kind = "BulkWriteError"
  BY <1>2, OutcomeTypes
<1> HIDE DEF e
<1>6. Final(e)
  BY <1>3, <1>4, <1>5 DEF Final, Exact
<1>7. /\ pc = "wait" /\ Catch(e, b) /\ flight' \subseteq flight
      /\ UNCHANGED <<ordered, bad, offset, full, executed, stored>>
  BY DEF ReplyHalts, Awaited, e, r
<1> QED
  BY <1>5, <1>6, <1>7, CatchReport

LEMMA ReplyReport ==
  ASSUME IInv, ReportInv, NEW c \in flight, NEW b \in BOOLEAN, Reply(c, b)
  PROVE  ReportInv'
<1>1. /\ Awaited(c) /\ Executed(c) /\ pc = "wait"
      /\ full' = Merge(full, c, b) /\ retrying' = FALSE /\ flight' \subseteq flight
      /\ UNCHANGED <<ordered, bad, executed, stored>>
  BY DEF Reply, Awaited
<1>2. /\ PartStored /\ Current(c)
      /\ Stored = ((1 .. offset) \ bad) \cup (Processed(c) \ bad)
      /\ Refused(c) = {} \/ ~ordered =>
           Processed(c) = c.first .. c.last /\ Refused(c) = bad \cap (c.first .. c.last)
      /\ full'.nInserted = Cardinality(Stored)
      /\ full'.writeErrors = (bad \cap (1 .. offset)) \cup Refused(c)
      /\ full'.wce = (full.wce \/ b)
  BY <1>1, ReplyCounts
<1>3. /\ c \in Command /\ Processed(c) = Written
      /\ c.first = offset + 1 /\ c.last = LastOf(offset) /\ offset \in Nat
      /\ c.first \in Docs /\ c.last \in Docs /\ c.last \in Nat /\ offset < c.last
  <2>1. offset \in 0 .. NumDocs /\ offset < NumDocs
    BY <1>1 DEF IInv, TypeOK, RetryInv
  <2> QED
    BY <1>2, <2>1, CurrentPart, PartOfList
<1>4. Stored' = Stored /\ Refused(c) \subseteq bad
  BY <1>1 DEF Stored, Refused
<1>5. CASE ordered /\ Refused(c) # {}
  <2>1. pc' = "done" /\ offset' = offset /\ outcome' \in
          [kind : {"BulkWriteError"}, details : {full'}]
    BY <1>2, <1>5 DEF Reply, Finish, End
  <2>2. outcome'.details = full' /\ outcome'.kind = "BulkWriteError"
    BY <2>1
  <2>3. /\ \A k : Refused(k)' = Refused(k) /\ Processed(k)' = Processed(k)
        /\ Written' = Written
    BY <1>1, <2>1 DEF Written, Processed, Refused, LastOf
  <2>4. WrittenInv'
    BY <1>1, <2>1, <2>3 DEF ReportInv, WrittenInv
  <2>5. PartStored'
    BY <1>1, <1>2, <2>3 DEF PartStored
  <2>6. FinalInv'
    BY <1>1, <1>2, <1>4, <1>5, <2>1, <2>2, <2>5 DEF FinalInv, Final, Exact
  <2> QED
    BY <2>1, <2>4, <2>6 DEF ReportInv, CountInv
<1>6. CASE ~ordered \/ Refused(c) = {}
  <2>1. /\ offset' = c.last /\ Refused(c) = bad \cap (c.first .. c.last)
        /\ Processed(c) = c.first .. c.last
    BY <1>2, <1>6 DEF Reply
  <2>2. 1 .. c.last = (1 .. offset) \cup (c.first .. c.last)
    BY <1>3
  <2>3. Stored = (1 .. offset') \ bad /\ full'.writeErrors = bad \cap (1 .. offset')
    BY <1>2, <2>1, <2>2
  <2>4. WrittenInv'
    <3>1. \A d \in Docs : stored[d] # 0 => d \notin bad /\ d <= offset'
      BY <1>3, <2>3, BulkWriteAssumption DEF Stored, Docs
    <3>2. \A d \in 1 .. offset' : d \in bad \/ stored[d] # 0
      BY <2>3 DEF Stored
    <3>3. ordered => \A d \in bad : ~(d <= offset')
      <4> SUFFICES ASSUME ordered, NEW d \in bad, d <= offset' PROVE FALSE
        OBVIOUS
      <4>1. d \in Docs /\ ~(d <= offset)
        BY DEF ReportInv, WrittenInv, IInv, TypeOK
      <4>2. d \in c.first .. c.last
        BY <1>3, <2>1, <4>1, BulkWriteAssumption DEF Docs
      <4> QED
        BY <1>6, <2>1, <4>2
    <3>4. \A k : Refused(k)' = Refused(k)
      BY <1>1 DEF Refused
    <3> QED
      BY <1>1, <3>1, <3>2, <3>3, <3>4 DEF ReportInv, WrittenInv
  <2>5. CASE c.last = NumDocs
    <3>1. pc' = "done" /\ outcome' = [kind |-> IF full'.writeErrors # {} \/ full'.wce
                                               THEN "BulkWriteError" ELSE "returned",
                                      details |-> full']
      BY <1>6, <2>5 DEF Reply, Finish, End
    <3>2. /\ outcome'.details = full'
          /\ outcome'.kind = "returned" => full'.writeErrors = {}
      BY <3>1
    <3>3. Written' = {}
      <4>1. LastOf(NumDocs) = NumDocs /\ (NumDocs + 1) .. NumDocs = {}
        BY BulkWriteAssumption DEF LastOf
      <4>2. Written' \subseteq (offset' + 1) .. LastOf(offset')
        BY DEF Written, Processed, LastOf
      <4> QED
        BY <2>1, <2>5, <4>1, <4>2
    <3>4. 1 .. offset' = Docs /\ bad \subseteq Docs
      BY <2>1, <2>5 DEF Docs, IInv, TypeOK
    <3>5. Exact(outcome)'
      BY <1>1, <1>2, <1>4, <2>3, <3>2, <3>4 DEF Exact
    <3>6. FinalInv'
      BY <1>1, <3>1, <3>3, <3>5 DEF FinalInv, Final, PartStored
    <3> QED
      BY <2>4, <3>1, <3>6 DEF ReportInv, CountInv
  <2>6. CASE c.last # NumDocs
    <3>1. pc' = "send" /\ outcome' = None
      BY <1>1, <1>6, <2>6 DEF Reply, ReportInv, FinalInv
    <3>2. CountInv'
      BY <1>1, <1>2, <1>4, <2>3 DEF CountInv
    <3>3. FinalInv'
      BY <1>1, <3>1 DEF FinalInv
    <3> QED
      BY <2>4, <3>2, <3>3 DEF ReportInv
  <2> QED
    BY <2>5, <2>6
<1> QED
  BY <1>5, <1>6

LEMMA ExecuteReport ==
  ASSUME IInv, ReportInv, NEW c \in flight, Execute(c)
  PROVE  ReportInv'
<1> DEFINE next == [c EXCEPT !.at = @ + 1]
           stores == c.at \notin bad /\ (c.tx = 0 \/ <<c.tx, c.at>> \notin executed)
<1>1. /\ c.at \in Processed(c) /\ flight' = (flight \ {c}) \cup {next}
      /\ UNCHANGED <<pc, ordered, bad, last, retrying, offset, full, outcome>>
  BY DEF Execute, loop, bulk
<1>2. /\ c \in Command /\ c.at \in Docs /\ c.at \in c.first .. c.last /\ c.first \in Docs
      /\ c.last \in Docs
  BY <1>1, ProcessedPart DEF IInv, TypeOK, Command
<1>3. next.at = c.at + 1 /\ next.first = c.first /\ next.last = c.last
  BY <1>2 DEF Command
<1>4. /\ stores => /\ stored' = [stored EXCEPT ![c.at] = @ + 1]
                   /\ executed' = executed \cup {<<c.tx, c.at>>}
      /\ ~stores => UNCHANGED <<stored, executed>>
  BY DEF Execute
<1>5. stores => /\ Current(c) /\ stored[c.at] = 0 /\ c.at \in Written
  BY <1>1, StoresCurrent, CurrentPart
<1>6. /\ \A d \in Docs : stored'[d] = IF stores /\ d = c.at THEN 1 ELSE stored[d]
      /\ \A d \in Docs : stored[d] # 0 => stored'[d] # 0
  BY <1>2, <1>4, <1>5 DEF IInv, TypeOK
<1> HIDE DEF next, stores
<1>7. /\ \A k : Refused(k)' = Refused(k) /\ Processed(k)' = Processed(k)
      /\ Written' = Written
  BY <1>1 DEF Written, Processed, Refused, LastOf
<1>8. WrittenInv'
  <2>1. ASSUME NEW p \in executed' PROVE stored'[p[2]] # 0
    <3>1. CASE p \in executed
      <4>1. stored[p[2]] # 0 /\ p[2] \in Docs
        BY <3>1 DEF ReportInv, WrittenInv, IInv, TypeOK
      <4> QED
        BY <1>6, <4>1
    <3>2. CASE stores /\ p = <<c.tx, c.at>>
      BY <1>2, <1>6, <3>2
    <3> QED
      BY <1>4, <2>1, <3>1, <3>2
  <2>2. \A d \in Docs : stored'[d] # 0 => d \notin bad /\ (d <= offset \/ d \in Written)
    BY <1>5, <1>6 DEF ReportInv, WrittenInv, stores
  <2>3. \A d \in 1 .. offset : d \in bad \/ stored'[d] # 0
    <3>1. 1 .. offset \subseteq Docs
      BY BulkWriteAssumption DEF IInv, TypeOK, Docs
    <3> QED
      BY <1>6, <3>1 DEF ReportInv, WrittenInv
  <2>4. ASSUME NEW k \in flight', ordered, NEW d \in bad, d \in k.first .. k.at - 1
        PROVE  Refused(k) # {}
    <3>1. CASE k \in flight
      BY <2>4, <3>1 DEF ReportInv, WrittenInv
    <3>2. CASE k = next
      <4>1. Refused(k) = Refused(c)
        BY <1>3, <3>2 DEF Refused
      <4>2. c.at \in Nat /\ c.first \in Nat /\ c.last \in Nat /\ d \in c.first .. c.at
        <5>1. c.at \in Nat /\ c.first \in Nat /\ c.last \in Nat
          BY <1>2, BulkWriteAssumption DEF Docs
        <5>2. d \in c.first .. (c.at + 1) - 1
          BY <1>3, <2>4, <3>2
        <5> QED
          BY <5>1, <5>2
      <4>3. CASE \E e \in bad : e \in c.first .. c.at - 1
        BY <2>4, <4>1, <4>3 DEF ReportInv, WrittenInv
      <4>4. CASE ~ \E e \in bad : e \in c.first .. c.at - 1
        <5>1. c.at \in bad
          BY <4>2, <4>4
        <5>2. \A e \in bad \cap (c.first .. c.last) : c.at <= e
          BY <4>2, <4>4
        <5>3. c.at \in Refused(c)
          BY <1>2, <5>1, <5>2 DEF Refused
        <5> QED
          BY <4>1, <5>3
      <4> QED
        BY <4>3, <4>4
    <3> QED
      BY <1>1, <3>1, <3>2
  <2> QED
    BY <1>1, <1>7, <2>1, <2>2, <2>3, <2>4 DEF ReportInv, WrittenInv
<1>9. CountInv'
  BY <1>1 DEF ReportInv, CountInv
<1>10. FinalInv'
  <2>1. ASSUME PartStored PROVE UNCHANGED stored
    BY <1>4, <1>5, <2>1 DEF PartStored, stores
  <2>2. ASSUME NEW o, Final(o)
        PROVE  o.details # None => PartStored' /\ Exact(o)'
    <3> SUFFICES ASSUME o.details # None PROVE PartStored' /\ Exact(o)'
      OBVIOUS
    <3>1. PartStored /\ Exact(o) /\ UNCHANGED stored
      BY <2>1, <2>2 DEF Final
    <3>2. Stored' = Stored
      BY <3>1 DEF Stored
    <3> QED
      BY <1>1, <1>7, <3>1, <3>2 DEF PartStored, Exact
  <2>3. retrying => Final(last)'
    BY <1>1, <2>2 DEF ReportInv, FinalInv, Final, Exact
  <2>4. outcome # None => Final(outcome)'
    BY <1>1, <2>2 DEF ReportInv, FinalInv, Final, Exact
  <2> QED
    BY <1>1, <2>3, <2>4 DEF ReportInv, FinalInv
<1> QED
  BY <1>8, <1>9, <1>10 DEF ReportInv

LEMMA StepReport == IInv /\ ReportInv /\ [Next]_vars => ReportInv'
<1> SUFFICES ASSUME IInv, ReportInv, [Next]_vars PROVE ReportInv'
  OBVIOUS
<1>1. CASE SelectTimesOut \/ CheckOutFails \/ \E b \in BOOLEAN : Select(b)
  BY <1>1, SelectReport
<1>2. CASE Send
  BY <1>2, SendReport
<1>3. CASE NetworkError
  BY <1>3, CatchReport, OutcomeTypes, ErrorFinal DEF NetworkError, cluster
<1>4. CASE \E c \in flight, b \in BOOLEAN : Reply(c, b)
  BY <1>4, ReplyReport
<1>5. CASE \E c \in flight, b \in BOOLEAN : ReplyHalts(c, b)
  BY <1>5, HaltsReport
<1>6. CASE \E c \in flight, b \in BOOLEAN : Refuse(c, b)
  BY <1>6, CatchReport, OutcomeTypes, ErrorFinal DEF Refuse, Awaited
<1>7. CASE \E c \in flight : Execute(c)
  BY <1>7, ExecuteReport
<1>8. CASE \E c \in flight : Lose(c)
  BY <1>8, QuietReport DEF Lose, loop, bulk
<1>9. CASE UNCHANGED vars
  BY <1>9, QuietReport DEF vars, loop, bulk, cluster
<1> QED
  BY <1>1, <1>2, <1>3, <1>4, <1>5, <1>6, <1>7, <1>8, <1>9 DEF Next, Client, Cluster

LEMMA InitReport == Init => ReportInv
<1> SUFFICES ASSUME Init PROVE ReportInv
  OBVIOUS
<1>1. 1 .. 0 = {} /\ (1 .. 0) \ bad = {} /\ Cardinality({}) = 0
  BY FS_EmptySet
<1>2. CountInv
  BY <1>1 DEF Init, CountInv, NoResult
<1>3. WrittenInv
  <2>1. \A d \in bad : ~(d <= 0)
    BY BulkWriteAssumption DEF Init, Docs
  <2> QED
    BY <1>1, <2>1 DEF Init, WrittenInv
<1>4. FinalInv
  BY DEF Init, FinalInv
<1> QED
  BY <1>2, <1>3, <1>4 DEF ReportInv

\* What a call returns, or its BulkWriteError tells, is what it did: also when
\* the error of the first attempt is raised in place of that of the retry
\* (_merge_command, _retry_internal).
THEOREM ExactReportHolds == Spec => []ExactReport
<1>1. ReportInv => ExactReport
  BY DEF ReportInv, FinalInv, Final, Exact, ExactReport
<1> QED
  BY <1>1, InitIInv, StepIInv, InitReport, StepReport, PTL DEF Spec

-----------------------------------------------------------------------------
(* One retry: the commands of the current part of the list that may still  *)
(* be under way.                                                           *)

\* Steps that send nothing and stay in the part.
LEMMA QuietAttempts ==
  ASSUME AttemptsInv, UNCHANGED offset, flight' \subseteq flight,
         \/ pc' = pc /\ UNCHANGED retrying
         \/ pc \in {"select", "send"} /\ pc' \in {"select", "send"} /\ retrying'
         \/ pc = "select" /\ pc' = "send" /\ UNCHANGED retrying /\ (~retrying => flight = {})
         \/ pc = "wait" /\ ~retrying /\ pc' = "select"
         \/ pc' = "done"
  PROVE  AttemptsInv'
BY DEF AttemptsInv, Attempts

LEMMA CatchAttempts ==
  ASSUME AttemptsInv, pc \in {"select", "wait"}, UNCHANGED offset, flight' \subseteq flight,
         NEW e, NEW labelled \in BOOLEAN, Catch(e, labelled)
  PROVE  AttemptsInv'
BY QuietAttempts DEF Catch, End

LEMMA AttemptsStep == IInv /\ AttemptsInv /\ [Next]_vars => AttemptsInv'
<1> SUFFICES ASSUME IInv, AttemptsInv, [Next]_vars PROVE AttemptsInv'
  OBVIOUS
<1>1. CASE \E b \in BOOLEAN : Select(b)
  <2>1. /\ pc = "select" /\ pc' \in {"send", "done"} /\ UNCHANGED <<retrying, offset, flight>>
    BY <1>1 DEF Select, End, bulk, cluster
  <2>2. ~retrying => flight = {}
    BY <2>1 DEF IInv, RetryInv
  <2> QED
    BY <2>1, <2>2, QuietAttempts
<1>2. CASE SelectTimesOut
  BY <1>2, QuietAttempts DEF SelectTimesOut, End, bulk, cluster
<1>3. CASE CheckOutFails \/ NetworkError
  BY <1>3, CatchAttempts DEF CheckOutFails, NetworkError, cluster
<1>4. CASE \E c \in flight, b \in BOOLEAN : ReplyHalts(c, b) \/ Refuse(c, b)
  BY <1>4, CatchAttempts DEF ReplyHalts, Refuse, Awaited
<1>5. CASE (\E c \in flight : Lose(c)) \/ UNCHANGED vars
  BY <1>5, QuietAttempts DEF Lose, vars, loop, bulk, cluster
<1>6. CASE Send
  <2>1. PICK c : flight' = flight \cup {c} /\ c.first = offset + 1
    <3>1. PICK c : /\ flight' = flight \cup {c}
                   /\ c = [no |-> sent', tx |-> IF retryable THEN tx' ELSE 0,
                           first |-> offset + 1, last |-> LastOf(offset), at |-> offset + 1]
      BY <1>6 DEF Send
    <3> QED
      BY <3>1
  <2>2. pc = "send" /\ pc' = "wait" /\ UNCHANGED <<retrying, offset>> /\ offset \in Nat
    BY <1>6, BulkWriteAssumption DEF Send, IInv, TypeOK
  <2> QED
    BY <2>1, <2>2 DEF AttemptsInv, Attempts
<1>7. ASSUME NEW c \in flight, NEW b \in BOOLEAN, Reply(c, b) PROVE AttemptsInv'
  <2>1. pc = "wait" /\ flight' \subseteq flight /\ offset' \in {offset, c.last}
        /\ (pc' = "done" \/ (pc' = "send" /\ offset' = c.last))
    BY <1>7 DEF Reply, Awaited, Finish, End
  <2>2. /\ offset \in Nat /\ c.last \in Nat /\ offset < c.last
        /\ \A k \in flight : k.first \in Nat
    <3>1. Current(c) /\ offset < NumDocs /\ offset \in 0 .. NumDocs
      BY <1>7 DEF Reply, Awaited, IInv, TypeOK, CommandInv, RetryInv
    <3>2. c.last = LastOf(offset) /\ offset < LastOf(offset) /\ LastOf(offset) \in Nat
          /\ offset \in Nat
      BY <3>1, CurrentPart, PartOfList
    <3>3. \A k \in flight : k.first \in Docs
      BY DEF IInv, TypeOK, Command
    <3> QED
      BY <3>2, <3>3, BulkWriteAssumption DEF Docs
  <2>3. \A k \in flight' : k.first <= offset' + 1
    BY <2>1, <2>2 DEF AttemptsInv
  <2>4. pc' = "send" => Attempts' = {}
    <3>1. ASSUME NEW k \in flight PROVE k.first # c.last + 1
      <4>1. k.first <= offset + 1 /\ k.first \in Nat
        BY <2>2 DEF AttemptsInv
      <4> QED
        BY <2>2, <4>1
    <3> QED
      BY <2>1, <3>1 DEF Attempts
  <2> QED
    BY <2>1, <2>3, <2>4 DEF AttemptsInv
<1>8. ASSUME NEW c \in flight, Execute(c) PROVE AttemptsInv'
  <2>1. PICK next : flight' = (flight \ {c}) \cup {next} /\ next.first = c.first
    <3>1. flight' = (flight \ {c}) \cup {[c EXCEPT !.at = @ + 1]}
      BY <1>8 DEF Execute
    <3>2. c \in Command
      BY DEF IInv, TypeOK
    <3>3. [c EXCEPT !.at = @ + 1].first = c.first
      BY <3>2 DEF Command
    <3> QED
      BY <3>1, <3>3
  <2>2. UNCHANGED <<pc, retrying, offset>>
    BY <1>8 DEF Execute, bulk
  <2> QED
    BY <2>1, <2>2 DEF AttemptsInv, Attempts
<1> QED
  BY <1>1, <1>2, <1>3, <1>4, <1>5, <1>6, <1>7, <1>8 DEF Next, Client, Cluster

\* Each part of the list is sent at most twice, whatever becomes of the first
\* command: the flag retrying is reset by a reply alone (_retry_internal).
THEOREM OneRetryHolds == Spec => OneRetry
<1>1. Init => AttemptsInv
  BY DEF Init, AttemptsInv, Attempts
<1>2. ASSUME IInv, AttemptsInv, [Next]_vars, sent' # sent
      PROVE  Cardinality({k \in flight' : k.first = offset + 1}) <= 2
  <2>1. Send
    <3>1. sent \in Nat
      BY <1>2 DEF IInv, TypeOK
    <3> QED
      BY <1>2, <3>1
      DEF Next, Client, Cluster, Select, SelectTimesOut, CheckOutFails, NetworkError, Reply,
          ReplyHalts, Refuse, Execute, Lose, vars
  <2>2. PICK c : flight' = flight \cup {c} /\ c.first = offset + 1
    <3>1. PICK c : /\ flight' = flight \cup {c}
                   /\ c = [no |-> sent', tx |-> IF retryable THEN tx' ELSE 0,
                           first |-> offset + 1, last |-> LastOf(offset), at |-> offset + 1]
      BY <2>1 DEF Send
    <3> QED
      BY <3>1
  <2>3. {k \in flight' : k.first = offset + 1} = Attempts \cup {c}
    BY <2>2 DEF Attempts
  <2>4. \A x, y \in Attempts : x = y
    BY <1>2, <2>1 DEF AttemptsInv, Send
  <2>5. IsFiniteSet(Attempts) /\ Cardinality(Attempts) \in {0, 1}
    <3>1. CASE Attempts = {}
      BY <3>1, FS_EmptySet
    <3>2. CASE Attempts # {}
      <4>1. PICK x : Attempts = {x}
        BY <2>4, <3>2
      <4> QED
        BY <4>1, FS_Singleton
    <3> QED
      BY <3>1, <3>2
  <2>6. Cardinality(Attempts \cup {c})
          = IF c \in Attempts THEN Cardinality(Attempts) ELSE Cardinality(Attempts) + 1
    BY <2>5, FS_AddElement
  <2>7. Cardinality(Attempts \cup {c}) <= 2
    BY <2>5, <2>6
  <2> QED
    BY <2>3, <2>7
<1> QED
  BY <1>1, <1>2, InitIInv, StepIInv, AttemptsStep, PTL DEF Spec, OneRetry

-----------------------------------------------------------------------------
(* The promise of insert_many. A statement that stores a document is Store *)
(* of InsertMany, the end of the call is its Report, and nothing else      *)
(* changes what it speaks of.                                              *)

Reported == IF outcome = None THEN None
            ELSE [inserted |-> IF outcome.details = None THEN None
                               ELSE outcome.details.nInserted]

\* A call that has reported stores nothing more, and an ordered one comes to
\* a document when all those before it are stored.
LEMMA StoreRefines ==
  ASSUME IInv, ReportInv, NEW c \in flight, Execute(c), stored' # stored
  PROVE  /\ UNCHANGED <<ordered, bad, outcome>>
         /\ c.at \in Docs /\ c.at \notin bad /\ stored[c.at] = 0
         /\ stored' = [stored EXCEPT ![c.at] = 1]
         /\ outcome # None => outcome.details = None
         /\ ordered => \A e \in 1 .. c.at - 1 : stored[e] = 1
<1>1. /\ c.at \in Processed(c) /\ c.at \notin bad
      /\ c.tx = 0 \/ <<c.tx, c.at>> \notin executed
      /\ stored' = [stored EXCEPT ![c.at] = @ + 1]
      /\ UNCHANGED <<ordered, bad, outcome>>
  BY DEF Execute, bulk
<1>2. Current(c) /\ stored[c.at] = 0
  BY <1>1, StoresCurrent
<1>3. /\ c.at \in Written /\ c.first = offset + 1 /\ offset \in Nat /\ c.at \in Docs
      /\ c.first \in Docs /\ c.last \in Docs /\ c.at \in c.first .. c.last
  BY <1>1, <1>2, CurrentPart, ProcessedPart
<1>4. stored' = [stored EXCEPT ![c.at] = 1]
  BY <1>1, <1>2, <1>3 DEF IInv, TypeOK
<1>5. outcome # None => outcome.details = None
  BY <1>1, <1>2, <1>3 DEF ReportInv, FinalInv, Final, PartStored
<1>6. ASSUME ordered, NEW e \in 1 .. c.at - 1 PROVE stored[e] = 1
  <2>1. e \in Docs /\ e \in Nat /\ c.at \in Nat /\ e < c.at
    BY <1>3, BulkWriteAssumption DEF Docs
  <2>2. stored[e] # 0
    <3>1. CASE e <= offset
      BY <1>6, <2>1, <3>1 DEF ReportInv, WrittenInv
    <3>2. CASE ~(e <= offset)
      <4>1. e \in c.first .. c.last /\ e \in c.first .. c.at - 1
        BY <1>3, <2>1, <3>2, BulkWriteAssumption DEF Docs
      <4>2. \A r \in Refused(c) : c.at <= r /\ r \in Nat
        <5>1. Refused(c) \subseteq Docs
          BY ProcessedPart DEF IInv, TypeOK
        <5> QED
          BY <1>1, <1>6, <5>1, BulkWriteAssumption DEF Processed, Docs
      <4>3. e \notin bad
        <5> SUFFICES ASSUME e \in bad PROVE FALSE
          OBVIOUS
        <5>1. PICK r \in Refused(c) : TRUE
          BY <1>6, <4>1 DEF ReportInv, WrittenInv
        <5>2. r <= e
          BY <1>6, <4>1, <5>1 DEF Refused
        <5> QED
          BY <2>1, <4>2, <5>1, <5>2
      <4>4. e \in Processed(c)
        <5>1. \A r \in Refused(c) : e <= r
          BY <2>1, <4>2
        <5> QED
          BY <4>1, <5>1 DEF Processed
      <4>5. <<c.tx, e>> \in executed /\ <<c.tx, e>>[2] = e
        BY <2>1, <4>3, <4>4 DEF IInv, CommandInv
      <4> QED
        BY <4>5 DEF ReportInv, WrittenInv
    <3> QED
      BY <3>1, <3>2
  <2> QED
    BY <2>1, <2>2 DEF IInv, StoredInv
<1> QED
  BY <1>1, <1>2, <1>3, <1>4, <1>5, <1>6

\* The steps that store nothing end the call, or are not seen.
LEMMA EndRefines ==
  ASSUME IInv, ReportInv, ReportInv', [Next]_vars, stored' = stored
  PROVE  /\ UNCHANGED <<ordered, bad>>
         /\ outcome' # outcome =>
              /\ outcome = None /\ outcome' # None
              /\ outcome'.details # None => outcome'.details.nInserted = Cardinality(Stored)
<1>1. UNCHANGED <<ordered, bad>> /\ (outcome' # outcome => pc # "done")
  BY DEF Next, Client, Cluster, Select, SelectTimesOut, CheckOutFails, Send, NetworkError,
         Reply, Awaited, ReplyHalts, Refuse, Execute, Lose, vars, bulk
<1>2. pc # "done" => outcome = None
  BY DEF ReportInv, FinalInv
<1>3. outcome' # None /\ outcome'.details # None => outcome'.details.nInserted = Cardinality(Stored')
  BY DEF ReportInv, FinalInv, Final, Exact
<1>4. Stored' = Stored
  BY DEF Stored
<1> QED
  BY <1>1, <1>2, <1>3, <1>4

\* The two modules take Cardinality from the same one.
LEMMA SameCardinality == \A S : Promise!Cardinality(S) = Cardinality(S)
BY Zenon DEF Promise!Cardinality, Cardinality

LEMMA PromiseStep ==
  ASSUME IInv, ReportInv, ReportInv', [Next]_vars
  PROVE  [Promise!Next]_<<ordered, bad, stored, Reported>>
<1>1. CASE stored' = stored
  <2>1. CASE outcome' = outcome
    BY <1>1, <2>1, EndRefines DEF Reported
  <2>2. CASE outcome' # outcome
    <3>1. /\ outcome = None /\ outcome' # None /\ UNCHANGED <<ordered, bad, stored>>
          /\ outcome'.details # None => outcome'.details.nInserted = Cardinality(Stored)
      BY <1>1, <2>2, EndRefines
    <3>2. Promise!StoredDocs = Stored
      BY DEF Promise!StoredDocs, Promise!Docs, Stored, Docs
    <3>3. Promise!Report
      <4> DEFINE n == IF outcome'.details = None THEN None ELSE outcome'.details.nInserted
      <4>1. n \in {Cardinality(Promise!StoredDocs), None}
        BY <3>1, <3>2
      <4> HIDE DEF n
      <4>2. Reported = None /\ Reported' = [inserted |-> n]
        BY <3>1 DEF Reported, n
      <4> QED
        BY <3>1, <4>1, <4>2, SameCardinality DEF Promise!Report, Reported
    <3> QED
      BY <3>3 DEF Promise!Next
  <2> QED
    BY <2>1, <2>2
<1>2. CASE stored' # stored
  <2>1. PICK c \in flight : Execute(c)
    BY <1>2 DEF Next, Client, Cluster, Select, SelectTimesOut, CheckOutFails, Send,
                NetworkError, Reply, ReplyHalts, Refuse, Lose, vars, cluster
  <2>2. /\ UNCHANGED <<ordered, bad, outcome>>
        /\ c.at \in Docs /\ c.at \notin bad /\ stored[c.at] = 0
        /\ stored' = [stored EXCEPT ![c.at] = 1]
        /\ outcome # None => outcome.details = None
        /\ ordered => \A e \in 1 .. c.at - 1 : stored[e] = 1
    BY <1>2, <2>1, StoreRefines
  <2>3. Promise!Store(c.at)
    BY <2>2 DEF Promise!Store
  <2>4. c.at \in Promise!Docs
    BY <2>2 DEF Promise!Docs, Docs
  <2> QED
    BY <2>3, <2>4 DEF Promise!Next
<1> QED
  BY <1>1, <1>2

\* What a call does to the documents and what it reports is what insert_many
\* promises, with all the commands, sessions and retries in between.
THEOREM KeepsPromise == Spec => Implements
<1>1. Init => Promise!Init
  BY DEF Init, Promise!Init, Promise!Docs, Docs
<1>2. IInv /\ ReportInv /\ ReportInv' /\ [Next]_vars
        => [Promise!Next]_<<ordered, bad, stored, Reported>>
  BY PromiseStep
<1> QED
  BY <1>1, <1>2, InitIInv, StepIInv, InitReport, StepReport, PTL
  DEF Spec, Implements, Promise!Spec, Reported
=============================================================================
