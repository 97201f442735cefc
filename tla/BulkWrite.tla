------------------------------ MODULE BulkWrite ------------------------------
(***************************************************************************)
(* One call of Collection.insert_many, with an acknowledged write concern: *)
(* the commands of bulk.py, the retry loop of mongo_client.py, and a       *)
(* cluster that may execute a command late, in part or not at all.         *)
(*                                                                         *)
(* The list is split into commands of at most MaxBatch documents. With     *)
(* retryable writes a command carries a transaction number, and a command  *)
(* that is sent again carries the same one, so that the server skips the   *)
(* statements it has executed. The server is not in the repository; the    *)
(* number is modelled relative to the session's at the start of the call.  *)
(***************************************************************************)
EXTENDS Naturals, FiniteSets

CONSTANTS
  NumDocs,      \* documents of the call
  MaxBatch,     \* documents that fit into one command
  RetryWrites,  \* the option retryWrites, in a client that has sessions
  None          \* Python's None

ASSUME BulkWriteAssumption ==
  /\ NumDocs \in Nat \ {0} /\ MaxBatch \in Nat \ {0}
  /\ RetryWrites \in BOOLEAN
  /\ None \notin Nat

VARIABLES
  pc,         \* where the call is
  ordered,    \* _Bulk.ordered, the argument of the call
  bad,        \* its documents that the server refuses (a duplicate _id)
  retryable,  \* local of _retry_internal
  last,       \* its last_error
  started,    \* _Bulk.started_retryable_write
  retrying,   \* _Bulk.retrying
  offset,     \* idx_offset of the run
  full,       \* full_result
  tx,         \* the session's transaction number
  outcome,    \* what the call returned or raised
  sent,       \* commands sent so far, the last one is awaited
  flight,     \* commands the cluster may still execute
  executed,   \* statements the cluster remembers, by transaction number
  stored      \* how often each document is stored

loop == <<retryable, last>>
bulk == <<ordered, bad, started, retrying, offset, full>>
cluster == <<flight, executed, stored>>
vars == <<pc, loop, bulk, tx, outcome, sent, cluster>>

Docs == 1 .. NumDocs
Result == [nInserted : Nat, writeErrors : SUBSET Nat, wce : BOOLEAN]
Command == [no : Nat, tx : Nat, first : Docs, last : Docs, at : Nat]
Outcome == [kind : {"returned", "BulkWriteError", "ServerSelectionTimeoutError",
                    "AutoReconnect", "OperationFailure"},
            details : Result \cup {None}]

ASSUME OutcomeAssumption == None \notin Outcome

NoResult == [nInserted |-> 0, writeErrors |-> {}, wce |-> FALSE]
Error(kind) == [kind |-> kind, details |-> None]

\* The number is incremented up front.
Init ==
  /\ pc = "select" /\ outcome = None /\ ordered \in BOOLEAN /\ bad \in SUBSET Docs
  /\ retryable = RetryWrites /\ last = None
  /\ started = RetryWrites /\ tx = (IF RetryWrites THEN 1 ELSE 0)
  /\ retrying = FALSE /\ offset = 0 /\ full = NoResult
  /\ sent = 0 /\ flight = {} /\ executed = {}
  /\ stored = [d \in Docs |-> 0]

End(o) == pc' = "done" /\ outcome' = o

-----------------------------------------------------------------------------
(* _retry_internal                                                         *)

\* Faulty variant: the label is enough for one more attempt.
CatchForever(e, labelled) ==
  \/ /\ retryable /\ labelled
     /\ retrying' = TRUE /\ last' = e
     /\ pc' = "select" /\ UNCHANGED outcome
  \/ /\ ~retryable \/ ~labelled
     /\ End(e) /\ UNCHANGED <<retrying, last>>

\* except PyMongoError: the error is raised, unless it is retryable and this
\* is the command's first attempt.
Catch(e, labelled) ==
  \/ /\ retryable /\ labelled /\ ~retrying
     /\ retrying' = TRUE /\ last' = e
     /\ pc' = "select" /\ UNCHANGED outcome
  \/ /\ ~retryable \/ ~labelled \/ retrying
     /\ End(e) /\ UNCHANGED <<retrying, last>>

\* Faulty variant: a retry goes to a server without retryable writes.
SelectAny(supported) ==
  /\ pc = "select" /\ pc' = "send"
  /\ retryable' = (retryable /\ supported)
  /\ UNCHANGED <<last, bulk, tx, outcome, sent, cluster>>

\* A server was selected; it may not support retryable writes.
Select(supported) ==
  /\ pc = "select"
  /\ IF retryable /\ ~supported /\ retrying
     THEN End(last) /\ UNCHANGED retryable
     ELSE /\ pc' = "send" /\ retryable' = (retryable /\ supported)
          /\ UNCHANGED outcome
  /\ UNCHANGED <<last, bulk, tx, sent, cluster>>

\* Faulty variant: the timeout of a retry is raised as it is.
SelectTimesOutAlways ==
  /\ pc = "select" /\ End(Error("ServerSelectionTimeoutError"))
  /\ UNCHANGED <<loop, bulk, tx, sent, cluster>>

SelectTimesOut ==
  /\ pc = "select"
  /\ End(IF retrying THEN last ELSE Error("ServerSelectionTimeoutError"))
  /\ UNCHANGED <<loop, bulk, tx, sent, cluster>>

\* _get_socket raises.
CheckOutFails ==
  /\ pc = "select" /\ Catch(Error("AutoReconnect"), TRUE)
  /\ UNCHANGED <<ordered, bad, retryable, started, offset, full, tx, sent, cluster>>

-----------------------------------------------------------------------------
(* _execute_command                                                        *)

\* Where a command that starts after document o ends.
LastOf(o) == IF o + MaxBatch < NumDocs THEN o + MaxBatch ELSE NumDocs

\* Faulty variant: every attempt draws a number of its own.
SendFresh ==
  /\ pc = "send" /\ pc' = "wait"
  /\ started' = retryable
  /\ tx' = (IF retryable THEN tx + 1 ELSE tx)
  /\ sent' = sent + 1
  /\ flight' = flight \cup
       {[no |-> sent', tx |-> IF retryable THEN tx' ELSE 0,
         first |-> offset + 1, last |-> LastOf(offset), at |-> offset + 1]}
  /\ UNCHANGED <<loop, ordered, bad, retrying, offset, full, outcome, executed, stored>>

\* The next command, with a new number unless one is drawn for it already.
Send ==
  /\ pc = "send" /\ pc' = "wait"
  /\ started' = (started \/ retryable)
  /\ tx' = (IF retryable /\ ~started THEN tx + 1 ELSE tx)
  /\ sent' = sent + 1
  /\ flight' = flight \cup
       {[no |-> sent', tx |-> IF retryable THEN tx' ELSE 0,
         first |-> offset + 1, last |-> LastOf(offset), at |-> offset + 1]}
  /\ UNCHANGED <<loop, ordered, bad, retrying, offset, full, outcome, executed, stored>>

\* The errors of a command and where an ordered one stops.
Refused(c) == {d \in bad \cap (c.first .. c.last) :
                 ordered => \A e \in bad \cap (c.first .. c.last) : d <= e}
Processed(c) == {d \in c.first .. c.last :
                   ordered => \A e \in Refused(c) : d <= e}
Executed(c) == \A d \in Processed(c) : d < c.at

\* Faulty variant of _merge_command: the index stays that of the command.
MergeNoOffset(res, c, wce) ==
  [nInserted |-> res.nInserted + Cardinality(Processed(c) \ bad),
   writeErrors |-> res.writeErrors \cup {d - c.first + 1 : d \in Refused(c)},
   wce |-> res.wce \/ wce]

\* _merge_command. The server counts errors from the start of the command.
Merge(res, c, wce) ==
  [nInserted |-> res.nInserted + Cardinality(Processed(c) \ bad),
   writeErrors |-> res.writeErrors \cup
                     {(d - c.first) + offset + 1 : d \in Refused(c)},
   wce |-> res.wce \/ wce]

\* execute_command, once the retry loop has returned.
Finish(res) ==
  End([kind |-> IF res.writeErrors # {} \/ res.wce
                THEN "BulkWriteError" ELSE "returned",
       details |-> res])

Awaited(c) == pc = "wait" /\ c.no = sent

\* A reply without a retryable write concern error.
Reply(c, wce) ==
  /\ Awaited(c) /\ Executed(c)
  /\ full' = Merge(full, c, wce)
  /\ retrying' = FALSE /\ started' = FALSE
  /\ IF ordered /\ Refused(c) # {}
     THEN Finish(full') /\ UNCHANGED offset
     ELSE /\ offset' = c.last
          /\ IF c.last = NumDocs THEN Finish(full')
             ELSE pc' = "send" /\ UNCHANGED outcome
  /\ flight' = flight \ {c}
  /\ UNCHANGED <<loop, ordered, bad, tx, sent, executed, stored>>

\* A reply with one: the command may be sent again, full_result is left as it
\* is and the error has a copy. A server of 4.4 decides about the label.
ReplyHalts(c, labelled) ==
  /\ Awaited(c) /\ Executed(c)
  /\ Catch([kind |-> "BulkWriteError", details |-> Merge(full, c, TRUE)],
           labelled)
  /\ flight' = flight \ {c}
  /\ UNCHANGED <<ordered, bad, retryable, started, offset, full, tx, sent, executed, stored>>

\* Faulty variant: the end of a connection is not noticed.
NetworkErrorUnnoticed == FALSE

\* The connection fails; the cluster may still execute the command.
NetworkError ==
  /\ pc = "wait" /\ Catch(Error("AutoReconnect"), TRUE)
  /\ UNCHANGED <<ordered, bad, retryable, started, offset, full, tx, sent, cluster>>

\* An error for the whole command, from a server that is no longer primary (a
\* retryable one) or for another reason; a part may have been executed.
Refuse(c, labelled) ==
  /\ Awaited(c)
  /\ Catch(Error("OperationFailure"), labelled)
  /\ flight' = flight \ {c}
  /\ UNCHANGED <<ordered, bad, retryable, started, offset, full, tx, sent, executed, stored>>

-----------------------------------------------------------------------------
(* The cluster.                                                            *)

\* One statement. With a transaction number, not a second time.
Execute(c) ==
  /\ c.at \in Processed(c)
  /\ IF c.at \in bad \/ (c.tx # 0 /\ <<c.tx, c.at>> \in executed)
     THEN UNCHANGED <<stored, executed>>
     ELSE /\ stored' = [stored EXCEPT ![c.at] = @ + 1]
          /\ executed' = executed \cup {<<c.tx, c.at>>}
  /\ flight' = (flight \ {c}) \cup {[c EXCEPT !.at = @ + 1]}
  /\ UNCHANGED <<pc, loop, bulk, tx, outcome, sent>>

\* It never reaches the cluster, or the cluster fails in the middle of it.
Lose(c) ==
  /\ flight' = flight \ {c}
  /\ UNCHANGED <<executed, stored, pc, loop, bulk, tx, outcome, sent>>

Client ==
  \/ \E s \in BOOLEAN : Select(s)
  \/ SelectTimesOut \/ CheckOutFails \/ Send \/ NetworkError
  \/ \E c \in flight, b \in BOOLEAN :
       Reply(c, b) \/ ReplyHalts(c, b) \/ Refuse(c, b)
Cluster == \E c \in flight : Execute(c) \/ Lose(c)
Next == Client \/ Cluster

Spec == Init /\ [][Next]_vars

\* A selection and a command end: both have a timeout or an end of the
\* connection that the client notices.
FairSpec == Spec /\ WF_vars(Client)

-----------------------------------------------------------------------------
TypeOK ==
  /\ pc \in {"select", "send", "wait", "done"}
  /\ ordered \in BOOLEAN /\ bad \subseteq Docs /\ retryable \in BOOLEAN
  /\ started \in BOOLEAN /\ retrying \in BOOLEAN
  /\ last \in Outcome \cup {None} /\ outcome \in Outcome \cup {None}
  /\ offset \in 0 .. NumDocs /\ full \in Result /\ tx \in Nat /\ sent \in Nat
  /\ flight \subseteq Command
  /\ executed \subseteq Nat \X Docs /\ stored \in [Docs -> Nat]

Stored == {d \in Docs : stored[d] # 0}

\* No document is stored twice: not by a late command next to its retry, not
\* by a retry after a part was executed, and not by the commands without a
\* transaction number, which are never sent again.
AtMostOnce == \A d \in Docs : stored[d] <= 1

\* The result of a call that returned, or the details of its BulkWriteError,
\* count the documents stored and name refused ones by their place in the
\* list; and if no write concern error cut the call short, nothing else.
ExactReport ==
  (outcome # None /\ outcome.details # None) =>
    LET r == outcome.details IN
      /\ r.nInserted = Cardinality(Stored)
      /\ r.writeErrors \subseteq bad
      /\ ~r.wce /\ ~ordered => r.writeErrors = bad /\ Stored = Docs \ bad
      /\ outcome.kind = "returned" => Stored = Docs

\* _retry_internal, "The application may think the write was never attempted
\* if we raise ServerSelectionTimeoutError on the retry attempt": that error
\* means that nothing was stored and nothing will be.
TimeoutMeansNothingSent ==
  outcome = Error("ServerSelectionTimeoutError") => sent = 0

\* "Execute an operation with at most one consecutive retries": no command is
\* sent a third time.
OneRetry ==
  [][sent' # sent => Cardinality({k \in flight' : k.first = offset + 1}) <= 2]_vars

\* The call ends.
Ends == <>(pc = "done")

\* What the call does to the documents and what it reports is what InsertMany
\* promises.
Promise == INSTANCE InsertMany WITH
  report <- IF outcome = None THEN None ELSE
              [inserted |-> IF outcome.details = None THEN None
                            ELSE outcome.details.nInserted]
Implements == Promise!Spec
=============================================================================
