---------------------- MODULE ServerSessionPool_proofs ----------------------
(***************************************************************************)
(* The properties of ServerSessionPool, for any threads, timeouts and      *)
(* bounds.                                                                 *)
(*                                                                         *)
(* OneNumberEach rests on Exclusive: between the drawing of a number and   *)
(* its use nobody else has the session, so a write under way is known      *)
(* under the number its session still has. QuietInPool rests on a session  *)
(* with a command that may still be executed being dirty, its user waiting *)
(* for the reply or killed, and on the pool holding no dirty session.      *)
(***************************************************************************)
EXTENDS ServerSessionPool, TLAPS

\* Numbers and writes sent are not beyond those drawn.
DrawnInv ==
  /\ \A p \in used : p[2] <= transaction_id[p[1]] /\ p[3] <= commands
  /\ \A t \in Threads : /\ write[t] <= commands
                        /\ held[t] = None => write[t] = 0
                        /\ \A u \in Threads : write[u] = write[t] /\ write[t] # 0 => u = t

\* A write under way was sent under the last number of its session, if it
\* was, and no other one was.
UnderWayInv ==
  \A t \in Threads : write[t] # 0 =>
    \A p \in used : p[3] = write[t] <=> p[1] = held[t] /\ p[2] = transaction_id[held[t]]

NumberInv == DrawnInv /\ UnderWayInv /\ OneNumberEach

QuietInv ==
  /\ \A s \in outstanding : \/ dirty[s] \/ s \in exited
                            \/ \E t \in waiting : held[t] = s
  /\ \A s \in Pooled : ~dirty[s]

IInv == TypeOK /\ Exclusive /\ NumberInv /\ QuietInv

Distinct(q) == \A i, j \in DOMAIN q : q[i] = q[j] => i = j
Elements(q) == {q[i] : i \in DOMAIN q}

-----------------------------------------------------------------------------
(* What the operations of the pool do to its deque.                        *)

LEMMA PartOfDeque ==
  ASSUME NEW S, NEW q \in Seq(S), NEW a \in 1 .. Len(q) + 1, NEW b \in 0 .. Len(q)
  PROVE  /\ SubSeq(q, a, b) \in Seq(S)
         /\ Elements(SubSeq(q, a, b)) \subseteq Elements(q)
         /\ Distinct(q) =>
              /\ Distinct(SubSeq(q, a, b))
              /\ \A i \in 1 .. a - 1 : q[i] \notin Elements(SubSeq(q, a, b))
<1> DEFINE part == SubSeq(q, a, b)
<1>1. part \in Seq(S) /\ Len(q) \in Nat /\ a \in Nat /\ b \in Nat /\ DOMAIN q = 1 .. Len(q)
  OBVIOUS
<1>2. \A j \in DOMAIN part : /\ j \in Nat /\ a + j - 1 \in DOMAIN q /\ a + j - 1 >= a
                             /\ part[j] = q[a + j - 1]
  OBVIOUS
<1> HIDE DEF part
<1>3. Elements(part) \subseteq Elements(q)
  BY <1>2 DEF Elements
<1>4. ASSUME Distinct(q), NEW i \in DOMAIN part, NEW j \in DOMAIN part, part[i] = part[j]
      PROVE  i = j
  <2>1. a + i - 1 = a + j - 1
    BY <1>2, <1>4 DEF Distinct
  <2> QED
    BY <1>1, <1>2, <2>1
<1>5. ASSUME Distinct(q), NEW i \in 1 .. a - 1 PROVE q[i] \notin Elements(part)
  <2>1. i \in DOMAIN q
    BY <1>1
  <2>2. \A j \in DOMAIN part : a + j - 1 # i
    BY <1>1, <1>2
  <2> QED
    BY <1>2, <1>5, <2>1, <2>2 DEF Distinct, Elements
<1> QED
  BY <1>1, <1>3, <1>4, <1>5 DEF Distinct, part

LEMMA AppendLeft ==
  ASSUME NEW S, NEW q \in Seq(S), NEW s \in S
  PROVE  /\ <<s>> \o q \in Seq(S)
         /\ Elements(<<s>> \o q) = Elements(q) \cup {s}
         /\ Distinct(q) /\ s \notin Elements(q) => Distinct(<<s>> \o q)
<1> DEFINE r == <<s>> \o q
<1>1. /\ r \in Seq(S) /\ Len(r) = Len(q) + 1 /\ r[1] = s
      /\ \A i \in 1 .. Len(q) : r[i + 1] = q[i]
      /\ DOMAIN q = 1 .. Len(q) /\ DOMAIN r = 1 .. Len(r) /\ Len(q) \in Nat
  OBVIOUS
<1> HIDE DEF r
<1>2. \A i \in DOMAIN r : i = 1 \/ (i - 1 \in DOMAIN q /\ r[i] = q[i - 1])
  <2> SUFFICES ASSUME NEW i \in DOMAIN r, i # 1
               PROVE  i - 1 \in DOMAIN q /\ r[i] = q[i - 1]
    OBVIOUS
  <2>1. i - 1 \in 1 .. Len(q) /\ (i - 1) + 1 = i
    BY <1>1
  <2> QED
    BY <2>1, <1>1
<1>3. Elements(r) = Elements(q) \cup {s}
  <2>1. \A i \in DOMAIN q : i + 1 \in DOMAIN r /\ r[i + 1] = q[i]
    BY <1>1
  <2>2. 1 \in DOMAIN r
    BY <1>1
  <2>3. \A x \in Elements(r) : x \in Elements(q) \cup {s}
    BY <1>1, <1>2 DEF Elements
  <2>4. \A x \in Elements(q) \cup {s} : x \in Elements(r)
    BY <1>1, <2>1, <2>2 DEF Elements
  <2> QED
    BY <2>3, <2>4
<1>4. ASSUME Distinct(q), s \notin Elements(q), NEW i \in DOMAIN r, NEW j \in DOMAIN r, r[i] = r[j]
      PROVE  i = j
  <2>1. CASE i = 1
    BY <1>1, <1>2, <1>4, <2>1 DEF Elements
  <2>2. CASE j = 1
    BY <1>1, <1>2, <1>4, <2>2 DEF Elements
  <2>3. CASE i # 1 /\ j # 1
    <3>1. i - 1 = j - 1
      BY <1>2, <1>4, <2>3 DEF Distinct
    <3> QED
      BY <3>1, <1>1
  <2> QED
    BY <2>1, <2>2, <2>3
<1> QED
  BY <1>1, <1>3, <1>4 DEF Distinct, r

-----------------------------------------------------------------------------
LEMMA InitIInv == Init => IInv
<1> SUFFICES ASSUME Init PROVE IInv
  OBVIOUS
<1>1. pool \in Seq(1 .. created) /\ DOMAIN pool = {}
  BY DEF Init
<1>2. TypeOK
  BY <1>1, SessionAssumption DEF Init, TypeOK, Ids
<1>3. NumberInv
  BY DEF Init, NumberInv, DrawnInv, UnderWayInv, OneNumberEach
<1> QED
  BY <1>1, <1>2, <1>3 DEF Init, IInv, Exclusive, QuietInv, Pooled

\* The deque after any operation is a part of what it was, and at most the
\* session that was given back.
LEMMA Shrinks ==
  ASSUME IInv, NEW a \in 1 .. Len(pool) + 1, NEW b \in 0 .. Len(pool),
         pool' = SubSeq(pool, a, b)
  PROVE  /\ pool' \in Seq(1 .. created) /\ Pooled' \subseteq Pooled
         /\ \A i, j \in DOMAIN pool' : pool'[i] = pool'[j] => i = j
         /\ \A i \in 1 .. a - 1 : pool[i] \notin Pooled'
<1>1. pool \in Seq(1 .. created) /\ Distinct(pool)
  BY DEF IInv, TypeOK, Exclusive, Distinct
<1>2. /\ SubSeq(pool, a, b) \in Seq(1 .. created)
      /\ Elements(SubSeq(pool, a, b)) \subseteq Elements(pool)
      /\ Distinct(SubSeq(pool, a, b))
      /\ \A i \in 1 .. a - 1 : pool[i] \notin Elements(SubSeq(pool, a, b))
  BY <1>1, PartOfDeque, Zenon
<1> QED
  BY <1>2 DEF Elements, Pooled, Distinct

LEMMA GivenBack ==
  ASSUME IInv, NEW n \in 0 .. Len(pool), NEW s \in 1 .. created, s \notin Pooled,
         \/ pool' = SubSeq(pool, 1, n)
         \/ pool' = return_server_session_no_lock(s, SubSeq(pool, 1, n))
  PROVE  /\ pool' \in Seq(1 .. created)
         /\ \A x \in Pooled' : x \in Pooled \/ (x = s /\ ~dirty[s])
         /\ \A i, j \in DOMAIN pool' : pool'[i] = pool'[j] => i = j
<1> DEFINE left == SubSeq(pool, 1, n)
<1>1. pool \in Seq(1 .. created) /\ Distinct(pool) /\ Len(pool) \in Nat
  BY DEF IInv, TypeOK, Exclusive, Distinct
<1>2. left \in Seq(1 .. created) /\ Elements(left) \subseteq Pooled /\ Distinct(left)
  <2>1. 1 \in 1 .. Len(pool) + 1
    BY <1>1
  <2>2. Elements(pool) = Pooled
    BY DEF Elements, Pooled
  <2>3. /\ SubSeq(pool, 1, n) \in Seq(1 .. created)
        /\ Elements(SubSeq(pool, 1, n)) \subseteq Elements(pool)
        /\ Distinct(SubSeq(pool, 1, n))
    BY <1>1, <2>1, PartOfDeque, Zenon
  <2> QED
    BY <2>2, <2>3, Zenon
<1> HIDE DEF left
<1>3. CASE pool' = left
  BY <1>2, <1>3 DEF Elements, Pooled, Distinct
<1>4. CASE ~dirty[s] /\ pool' = <<s>> \o left
  <2>1. /\ pool' \in Seq(1 .. created) /\ Elements(pool') = Elements(left) \cup {s}
        /\ Distinct(pool')
    <3>1. s \notin Elements(left)
      BY <1>2
    <3>2. /\ <<s>> \o left \in Seq(1 .. created)
          /\ Elements(<<s>> \o left) = Elements(left) \cup {s}
          /\ Distinct(<<s>> \o left)
      <4>1. left \in Seq(1 .. created) /\ s \in 1 .. created
        BY <1>2
      <4>2. /\ <<s>> \o left \in Seq(1 .. created)
            /\ Elements(<<s>> \o left) = Elements(left) \cup {s}
            /\ Distinct(left) /\ s \notin Elements(left) => Distinct(<<s>> \o left)
        BY <4>1, AppendLeft, ZenonT(60)
      <4> QED
        BY <1>2, <3>1, <4>2, Zenon
    <3>3. pool' = <<s>> \o left
      BY <1>4
    <3> QED
      BY <3>2, <3>3, Zenon
  <2> QED
    BY <1>2, <1>4, <2>1 DEF Elements, Pooled, Distinct
<1> QED
  BY <1>3, <1>4 DEF return_server_session_no_lock, left

-----------------------------------------------------------------------------
(* Each action preserves the invariant.                                    *)

\* Threads may take sessions that were free, and give up their writes with
\* or without their sessions.
LEMMA NumbersKept ==
  ASSUME IInv, UNCHANGED <<used, commands, transaction_id>>,
         \A t \in Threads : \/ write'[t] = write[t] /\ (held'[t] = held[t] \/ held[t] = None)
                            \/ write'[t] = 0
  PROVE  NumberInv'
<1>1. \A t \in Threads : /\ write'[t] = write[t] \/ write'[t] = 0
                         /\ held'[t] = None => write'[t] = 0
                         /\ write'[t] # 0 => held'[t] = held[t]
  BY DEF IInv, NumberInv, DrawnInv
<1>2. DrawnInv'
  <2>1. commands \in Nat
    BY DEF IInv, TypeOK
  <2> QED
    BY <1>1, <2>1 DEF IInv, NumberInv, DrawnInv
<1>3. UnderWayInv'
  BY <1>1 DEF IInv, NumberInv, UnderWayInv
<1> QED
  BY <1>2, <1>3 DEF IInv, NumberInv, OneNumberEach

LEMMA NewStep ==
  ASSUME IInv, NEW t \in Threads, held[t] = None, New(t), pool' = <<>>,
         UNCHANGED <<now, timeout, transaction_id, dirty, write, tries, wire, commands>>
  PROVE  IInv'
<1>1. /\ created \in Nat /\ created' = created + 1 /\ created' \in 1 .. MaxSessions
      /\ created' \notin 1 .. created /\ created' # None
      /\ 1 .. created \subseteq 1 .. created' /\ created' \in 1 .. created'
  BY SessionAssumption DEF IInv, TypeOK, New
<1>2. pool' \in Seq(1 .. created') /\ DOMAIN pool' = {}
  OBVIOUS
<1>3. held' \in [Threads -> 1 .. created' \cup {None}]
  BY <1>1 DEF IInv, TypeOK, New
<1>4. last_use' \in [Ids -> Nat]
  BY <1>1 DEF IInv, TypeOK, New, Ids
<1>5. waiting' \subseteq {u \in Threads : held'[u] # None}
  BY <1>1, <1>3 DEF IInv, TypeOK, New, wire
<1>6. TypeOK'
  BY <1>1, <1>2, <1>3, <1>4, <1>5 DEF IInv, TypeOK, New, wire
<1>7. Exclusive'
  <2>1. \A u \in Threads : held[u] # created'
    BY <1>1 DEF IInv, TypeOK
  <2> QED
    BY <1>1, <1>2, <2>1 DEF IInv, TypeOK, New, Exclusive, Pooled
<1>8. NumberInv'
  <2>1. \A u \in Threads : held'[u] = held[u] \/ held[u] = None
    BY DEF IInv, TypeOK, New
  <2> QED
    BY <2>1, NumbersKept DEF wire
<1>9. QuietInv'
  <2>1. \A u \in waiting : held'[u] = held[u]
    BY DEF IInv, TypeOK, New
  <2> QED
    BY <1>2, <2>1 DEF IInv, QuietInv, Pooled, wire
<1> QED
  BY <1>6, <1>7, <1>8, <1>9 DEF IInv

LEMMA GetStep ==
  ASSUME IInv, NEW t \in Threads, get_server_session(t)
  PROVE  IInv'
<1>1. CASE New(t) /\ pool' = <<>>
  BY <1>1, NewStep DEF get_server_session
<1>2. ASSUME NEW i \in DOMAIN pool, NEW n \in 0 .. Len(pool),
             held' = [held EXCEPT ![t] = pool[i]],
             pool' = SubSeq(pool, i + 1, n),
             UNCHANGED <<created, last_use>>
      PROVE  IInv'
  <2>1. held[t] = None /\ UNCHANGED <<now, timeout, transaction_id, dirty, write, tries, wire, commands>>
    BY DEF get_server_session
  <2>2. pool[i] \in 1 .. created /\ pool[i] # None /\ pool[i] \in Pooled
    BY SessionAssumption DEF IInv, TypeOK, Pooled
  <2>3. i + 1 \in 1 .. Len(pool) + 1 /\ i \in 1 .. (i + 1) - 1
    BY DEF IInv, TypeOK
  <2>4. /\ pool' \in Seq(1 .. created) /\ Pooled' \subseteq Pooled
        /\ \A j, k \in DOMAIN pool' : pool'[j] = pool'[k] => j = k
        /\ pool[i] \notin Pooled'
    BY <1>2, <2>3, Shrinks
  <2>5. TypeOK'
    BY <1>2, <2>1, <2>2, <2>4 DEF IInv, TypeOK, wire
  <2>6. Exclusive'
    <3>1. \A u \in Threads : held[u] # pool[i]
      BY <2>2 DEF IInv, Exclusive
    <3>2. \A u \in Threads : held'[u] = IF u = t THEN pool[i] ELSE held[u]
      BY <1>2 DEF IInv, TypeOK
    <3> QED
      BY <2>1, <2>2, <2>4, <3>1, <3>2 DEF IInv, Exclusive
  <2>7. NumberInv'
    <3>1. \A u \in Threads : held'[u] = held[u] \/ held[u] = None
      BY <1>2, <2>1 DEF IInv, TypeOK
    <3> QED
      BY <2>1, <3>1, NumbersKept DEF wire
  <2>8. QuietInv'
    <3>1. \A u \in waiting : held'[u] = held[u]
      BY <1>2, <2>1 DEF IInv, TypeOK
    <3> QED
      BY <2>1, <2>4, <3>1 DEF IInv, QuietInv, wire
  <2> QED
    BY <2>5, <2>6, <2>7, <2>8 DEF IInv
<1> QED
  BY <1>1, <1>2 DEF get_server_session, _clear_stale

LEMMA StartStep ==
  ASSUME IInv, NEW t \in Threads, _start_retryable_write(t)
  PROVE  IInv'
<1> DEFINE s == held[t]
           number == transaction_id[s] + 1
<1>1. /\ s \in 1 .. created /\ s \in Ids /\ s # None
      /\ transaction_id[s] \in Nat /\ number \in Nat
      /\ commands \in Nat /\ commands' = commands + 1
  BY SessionAssumption DEF IInv, TypeOK, _start_retryable_write, Free, Ids
<1>2. /\ transaction_id' = [transaction_id EXCEPT ![s] = number]
      /\ write' = [write EXCEPT ![t] = commands + 1]
  BY <1>1 DEF IInv, TypeOK, _start_retryable_write
<1>3. /\ \A x \in Ids : transaction_id'[x] = IF x = s THEN number ELSE transaction_id[x]
      /\ \A u \in Threads : write'[u] = IF u = t THEN commands + 1 ELSE write[u]
  BY <1>2 DEF IInv, TypeOK
<1>4. TypeOK'
  <2>1. transaction_id' \in [Ids -> Nat] /\ write' \in [Threads -> Nat]
    BY <1>1, <1>2 DEF IInv, TypeOK
  <2> QED
    BY <1>1, <2>1 DEF IInv, TypeOK, _start_retryable_write, wire
<1>5. Exclusive'
  BY DEF IInv, _start_retryable_write, Exclusive, Pooled
<1>6. UNCHANGED <<used, held>>
  BY DEF _start_retryable_write, wire
<1>7. \A p \in used : /\ p[1] \in Ids /\ p[2] \in Nat /\ p[3] \in Nat
                     /\ p[2] <= transaction_id[p[1]] /\ p[3] <= commands
                     /\ transaction_id[p[1]] \in Nat
  <2>1. \A p \in used : p[1] \in 1 .. created /\ p[2] \in Nat /\ p[3] \in Nat
    BY DEF IInv, TypeOK
  <2>2. \A x \in 1 .. created : x \in Ids /\ transaction_id[x] \in Nat
    BY SessionAssumption DEF IInv, TypeOK, Ids
  <2> QED
    BY <2>1, <2>2 DEF IInv, NumberInv, DrawnInv
<1>8. \A u \in Threads : write[u] \in Nat /\ write[u] <= commands
  BY DEF IInv, TypeOK, NumberInv, DrawnInv
<1>9. DrawnInv'
  <2>1. \A p \in used : p[2] <= transaction_id'[p[1]] /\ p[3] <= commands'
    BY <1>1, <1>3, <1>7
  <2>2. \A u \in Threads : write'[u] <= commands' /\ (held[u] = None => write'[u] = 0)
    BY <1>1, <1>3, <1>8 DEF IInv, NumberInv, DrawnInv
  <2>3. \A u, v \in Threads : write'[v] = write'[u] /\ write'[u] # 0 => v = u
    BY <1>1, <1>3, <1>8 DEF IInv, NumberInv, DrawnInv
  <2> QED
    BY <1>6, <2>1, <2>2, <2>3 DEF DrawnInv
<1>10. UnderWayInv'
  <2> SUFFICES ASSUME NEW u \in Threads, write'[u] # 0, NEW p \in used
               PROVE  p[3] = write'[u] <=> p[1] = held[u] /\ p[2] = transaction_id'[held[u]]
    BY <1>6 DEF UnderWayInv
  <2>1. CASE u = t
    <3>1. p[3] # write'[u]
      BY <1>1, <1>3, <1>7, <2>1
    <3>2. p[1] = s => p[2] # number
      BY <1>1, <1>7
    <3> QED
      BY <1>1, <1>3, <2>1, <3>1, <3>2
  <2>2. CASE u # t
    <3>1. write'[u] = write[u] /\ write[u] # 0 /\ held[u] # None
      BY <1>3, <2>2 DEF IInv, NumberInv, DrawnInv
    <3>2. held[u] # s /\ held[u] \in Ids
      BY <1>1, <2>2, <3>1, SessionAssumption DEF IInv, TypeOK, Exclusive, Ids
    <3>3. transaction_id'[held[u]] = transaction_id[held[u]]
      BY <1>3, <3>2
    <3> QED
      BY <3>1, <3>3 DEF IInv, NumberInv, UnderWayInv
  <2> QED
    BY <2>1, <2>2
<1>11. NumberInv'
  BY <1>6, <1>9, <1>10 DEF IInv, NumberInv, OneNumberEach
<1>12. QuietInv'
  BY DEF IInv, _start_retryable_write, QuietInv, Pooled, wire
<1> QED
  BY <1>4, <1>5, <1>11, <1>12 DEF IInv

\* The number that is read is the one that was drawn, because the session
\* has one user.
LEMMA SendKeepsNumbers ==
  ASSUME IInv, NEW t \in Threads, held[t] # None, write[t] # 0,
         used' = used \cup {<<held[t], transaction_id[held[t]], write[t]>>},
         UNCHANGED <<held, write, transaction_id, commands>>
  PROVE  NumberInv'
<1> DEFINE s == held[t]
           n == transaction_id[s]
           w == write[t]
           new == <<s, n, w>>
<1>1. s \in Ids /\ n \in Nat /\ w \in Nat /\ w <= commands
  BY SessionAssumption DEF IInv, TypeOK, NumberInv, DrawnInv, Ids
<1>2. new[1] = s /\ new[2] = n /\ new[3] = w
  OBVIOUS
<1>3. \A p \in used : p[3] = w <=> p[1] = s /\ p[2] = n
  BY DEF IInv, NumberInv, UnderWayInv
<1>4. \A u \in Threads : u # t /\ write[u] # 0 => write[u] # w /\ held[u] # s
  BY DEF IInv, NumberInv, DrawnInv, Exclusive
<1>5. used' = used \cup {new}
  OBVIOUS
<1> HIDE DEF new
<1>6. DrawnInv'
  BY <1>1, <1>2, <1>5 DEF IInv, NumberInv, DrawnInv
<1>7. OneNumberEach'
  BY <1>2, <1>3, <1>5 DEF IInv, NumberInv, OneNumberEach
<1>8. UnderWayInv'
  <2> SUFFICES ASSUME NEW u \in Threads, write[u] # 0, NEW p \in used'
               PROVE  p[3] = write[u] <=> p[1] = held[u] /\ p[2] = transaction_id[held[u]]
    BY DEF UnderWayInv
  <2>1. CASE p \in used
    BY <2>1 DEF IInv, NumberInv, UnderWayInv
  <2>2. CASE p = new
    BY <1>2, <1>4, <2>2
  <2> QED
    BY <1>5, <2>1, <2>2
<1> QED
  BY <1>6, <1>7, <1>8 DEF NumberInv

LEMMA SendStep ==
  ASSUME IInv, NEW t \in Threads, _apply_to(t)
  PROVE  IInv'
<1> DEFINE s == held[t]
<1>1. /\ s \in 1 .. created /\ s \in Ids /\ s # None /\ tries[t] \in 0 .. 2
      /\ tries[t] + 1 \in 0 .. 2 /\ transaction_id[s] \in Nat /\ now \in Nat
  BY SessionAssumption DEF IInv, TypeOK, _apply_to, Free, Ids
<1>2. /\ UNCHANGED <<now, timeout, pool, created, transaction_id, dirty, held>>
      /\ UNCHANGED <<exited, commands>>
      /\ last_use' = [last_use EXCEPT ![s] = now]
      /\ waiting' = waiting \cup {t} /\ outstanding' = outstanding \cup {s}
  BY DEF _apply_to
<1>3. \/ /\ UNCHANGED write
         /\ tries' = [tries EXCEPT ![t] = tries[t] + 1]
         /\ \/ UNCHANGED used
            \/ /\ write[t] # 0
               /\ used' = used \cup {<<s, transaction_id[s], write[t]>>}
      \/ /\ write' = [write EXCEPT ![t] = 0] /\ UNCHANGED used
         /\ tries' = [tries EXCEPT ![t] = 2]
  BY DEF _apply_to
<1>4. TypeOK'
  <2>1. last_use' \in [Ids -> Nat] /\ outstanding' \subseteq 1 .. created
    BY <1>1, <1>2 DEF IInv, TypeOK
  <2>2. tries' \in [Threads -> 0 .. 2] /\ write' \in [Threads -> Nat]
    <3>1. 0 \in Nat /\ 2 \in 0 .. 2
      OBVIOUS
    <3>2. write \in [Threads -> Nat] /\ tries \in [Threads -> 0 .. 2]
      BY DEF IInv, TypeOK
    <3>3. /\ [write EXCEPT ![t] = 0] \in [Threads -> Nat]
          /\ [tries EXCEPT ![t] = 2] \in [Threads -> 0 .. 2]
          /\ [tries EXCEPT ![t] = tries[t] + 1] \in [Threads -> 0 .. 2]
      BY <1>1, <3>1, <3>2
    <3> QED
      BY <1>3, <3>2, <3>3
  <2>3. used' \subseteq (1 .. created) \X Nat \X Nat
    <3>1. write[t] \in Nat /\ used \subseteq (1 .. created) \X Nat \X Nat
      BY DEF IInv, TypeOK
    <3>2. <<s, transaction_id[s], write[t]>> \in (1 .. created) \X Nat \X Nat
      BY <1>1, <3>1
    <3>3. used' = used \/ used' = used \cup {<<s, transaction_id[s], write[t]>>}
      BY <1>3
    <3> HIDE DEF s
    <3> QED
      BY <3>1, <3>2, <3>3, Zenon
  <2>4. waiting' \subseteq {u \in Threads : held[u] # None}
    BY <1>1, <1>2 DEF IInv, TypeOK
  <2> QED
    BY <1>2, <2>1, <2>2, <2>3, <2>4 DEF IInv, TypeOK
<1>5. Exclusive'
  BY <1>2 DEF IInv, Exclusive, Pooled
<1>6. NumberInv'
  <2>1. CASE UNCHANGED used
    <3>1. \A u \in Threads : write'[u] = write[u] \/ write'[u] = 0
      BY <1>3 DEF IInv, TypeOK
    <3> QED
      BY <1>2, <2>1, <3>1, NumbersKept
  <2>2. CASE /\ write[t] # 0 /\ UNCHANGED write
             /\ used' = used \cup {<<s, transaction_id[s], write[t]>>}
    BY <1>1, <1>2, <2>2, SendKeepsNumbers
  <2> QED
    BY <1>3, <2>1, <2>2
<1>7. QuietInv'
  BY <1>2 DEF IInv, QuietInv, Pooled
<1> QED
  BY <1>4, <1>5, <1>6, <1>7 DEF IInv

LEMMA ReplyStep ==
  ASSUME IInv, NEW t \in Threads, Reply(t)
  PROVE  IInv'
<1>1. \/ UNCHANGED <<write, tries>>
      \/ write' = [write EXCEPT ![t] = 0] /\ tries' = [tries EXCEPT ![t] = 0]
  BY DEF Reply
<1>2. write' \in [Threads -> Nat] /\ tries' \in [Threads -> 0 .. 2]
  <2>1. 0 \in Nat /\ 0 \in 0 .. 2
    OBVIOUS
  <2>2. write \in [Threads -> Nat] /\ tries \in [Threads -> 0 .. 2]
    BY DEF IInv, TypeOK
  <2>3. /\ [write EXCEPT ![t] = 0] \in [Threads -> Nat]
        /\ [tries EXCEPT ![t] = 0] \in [Threads -> 0 .. 2]
    BY <2>1, <2>2
  <2> QED
    BY <1>1, <2>2, <2>3
<1>3. \A u \in Threads : write'[u] = write[u] \/ write'[u] = 0
  BY <1>1 DEF IInv, TypeOK
<1>4. TypeOK'
  BY <1>2 DEF IInv, TypeOK, Reply, session
<1>5. NumberInv'
  BY <1>3, NumbersKept DEF Reply, session
<1>6. Exclusive'
  BY DEF IInv, Reply, Exclusive, Pooled
<1>7. QuietInv'
  BY DEF IInv, Reply, QuietInv, Pooled, session
<1> QED
  BY <1>4, <1>5, <1>6, <1>7 DEF IInv

\* A session that is marked is borrowed.
LEMMA MarkStep ==
  ASSUME IInv, NEW t \in Threads, NetworkError(t) \/ NotSent(t)
  PROVE  IInv'
<1>1. held[t] # None /\ held[t] \in Ids
  BY SessionAssumption DEF IInv, TypeOK, NetworkError, NotSent, Free, Ids
<1>2. /\ UNCHANGED <<now, timeout, pool, created, last_use, transaction_id, held, write>>
      /\ UNCHANGED <<outstanding, exited, used, commands>>
      /\ dirty' = [dirty EXCEPT ![held[t]] = TRUE]
      /\ waiting' \subseteq waiting /\ waiting \subseteq waiting' \cup {t}
  BY DEF NetworkError, NotSent, place, wire
<1>3. tries' \in [Threads -> 0 .. 2]
  <2>1. CASE UNCHANGED tries
    BY <2>1 DEF IInv, TypeOK
  <2>2. CASE tries[t] < 2 /\ tries' = [tries EXCEPT ![t] = tries[t] + 1]
    BY <2>2 DEF IInv, TypeOK
  <2> QED
    BY <2>1, <2>2 DEF NetworkError, NotSent, place
<1>4. TypeOK'
  BY <1>1, <1>2, <1>3 DEF IInv, TypeOK
<1>5. NumberInv'
  BY <1>2, NumbersKept
<1>6. Exclusive'
  BY <1>2 DEF IInv, Exclusive, Pooled
<1>7. held[t] \notin Pooled /\ Pooled' = Pooled
  BY <1>1, <1>2 DEF IInv, Exclusive, Pooled
<1>8. \A x \in Ids : dirty'[x] = IF x = held[t] THEN TRUE ELSE dirty[x]
  BY <1>2 DEF IInv, TypeOK
<1>9. outstanding \subseteq Ids /\ Pooled \subseteq Ids
  BY SessionAssumption DEF IInv, TypeOK, Pooled, Ids
<1>10. QuietInv'
  BY <1>1, <1>2, <1>7, <1>8, <1>9 DEF IInv, QuietInv
<1> QED
  BY <1>4, <1>5, <1>6, <1>10 DEF IInv

LEMMA EndStep ==
  ASSUME IInv, NEW t \in Threads, NEW lock \in BOOLEAN, end_session(t, lock)
  PROVE  IInv'
<1> DEFINE s == held[t]
<1>1. /\ s \in 1 .. created /\ s \notin Pooled /\ t \notin waiting
      /\ held' = [held EXCEPT ![t] = None]
      /\ write' = [write EXCEPT ![t] = 0] /\ tries' = [tries EXCEPT ![t] = 0]
      /\ UNCHANGED <<now, timeout, created, session, wire, commands>>
  BY DEF IInv, TypeOK, Exclusive, end_session, Free
<1>2. PICK n \in 0 .. Len(pool) :
        \/ pool' = SubSeq(pool, 1, n)
        \/ pool' = return_server_session_no_lock(s, SubSeq(pool, 1, n))
  <2>1. Len(pool) \in 0 .. Len(pool)
    BY DEF IInv, TypeOK
  <2> QED
    BY <2>1 DEF end_session, _clear_stale
<1>3. /\ pool' \in Seq(1 .. created)
      /\ \A x \in Pooled' : x \in Pooled \/ (x = s /\ ~dirty[s])
      /\ \A i, j \in DOMAIN pool' : pool'[i] = pool'[j] => i = j
  BY <1>1, <1>2, GivenBack
<1>4. \A u \in Threads : held'[u] = IF u = t THEN None ELSE held[u]
  BY <1>1 DEF IInv, TypeOK
<1>5. TypeOK'
  BY <1>1, <1>3, <1>4 DEF IInv, TypeOK, session, wire
<1>6. Exclusive'
  <2> SUFFICES ASSUME NEW u \in Threads, held'[u] # None
               PROVE  /\ held'[u] \notin Pooled'
                      /\ \A v \in Threads : held'[v] = held'[u] => v = u
    BY <1>3 DEF Exclusive
  <2>1. u # t /\ held'[u] = held[u]
    BY <1>4
  <2> QED
    BY <1>3, <1>4, <2>1 DEF IInv, Exclusive
<1>7. NumberInv'
  <2>1. \A u \in Threads : \/ write'[u] = write[u] /\ held'[u] = held[u]
                          \/ write'[u] = 0
    BY <1>1, <1>4 DEF IInv, TypeOK
  <2> QED
    BY <1>1, <2>1, NumbersKept DEF session, wire
<1>8. QuietInv'
  <2>1. \A u \in waiting : held'[u] = held[u]
    BY <1>1, <1>4 DEF IInv, TypeOK
  <2> QED
    BY <1>1, <1>3, <2>1 DEF IInv, QuietInv, session, wire
<1> QED
  BY <1>5, <1>6, <1>7, <1>8 DEF IInv

LEMMA KillStep ==
  ASSUME IInv, NEW t \in Threads, Kill(t)
  PROVE  IInv'
<1>1. TypeOK'
  <2>1. tries' \in [Threads -> 0 .. 2]
    BY DEF IInv, TypeOK, Kill
  <2> QED
    BY <2>1 DEF IInv, TypeOK, Kill, session
<1>2. NumberInv'
  BY NumbersKept DEF Kill, session
<1>3. Exclusive'
  BY DEF IInv, Kill, Exclusive, Pooled
<1>4. QuietInv'
  BY DEF IInv, Kill, QuietInv, Pooled, session
<1> QED
  BY <1>1, <1>2, <1>3, <1>4 DEF IInv

LEMMA PopAllStep == IInv /\ pop_all => IInv'
<1> SUFFICES ASSUME IInv, pop_all PROVE IInv'
  OBVIOUS
<1>1. pool' \in Seq(1 .. created) /\ DOMAIN pool' = {}
  BY DEF pop_all
<1>2. TypeOK'
  BY <1>1 DEF IInv, TypeOK, pop_all, session, place, wire
<1>3. Exclusive' /\ QuietInv'
  BY <1>1 DEF IInv, pop_all, Exclusive, QuietInv, Pooled, session, place, wire
<1>4. NumberInv'
  BY NumbersKept DEF pop_all, session, place, wire
<1> QED
  BY <1>2, <1>3, <1>4 DEF IInv

\* The clock and the topology touch no session.
LEMMA OtherStep == IInv /\ (Describe \/ Tick \/ UNCHANGED vars) => IInv'
<1> SUFFICES ASSUME IInv, Describe \/ Tick \/ UNCHANGED vars PROVE IInv'
  OBVIOUS
<1>1. /\ UNCHANGED <<pool, created, last_use, transaction_id, dirty, held, waiting>>
      /\ UNCHANGED <<write, tries, outstanding, exited, used, commands>>
  BY DEF Describe, Tick, vars, session, place, wire
<1>2. now' \in Nat
  BY DEF IInv, TypeOK, Describe, Tick, vars
<1>3. timeout' \in BOOLEAN
  BY DEF IInv, TypeOK, Describe, Tick, vars
<1>4. TypeOK'
  BY <1>1, <1>2, <1>3 DEF IInv, TypeOK
<1>5. Exclusive' /\ QuietInv'
  BY <1>1 DEF IInv, Exclusive, QuietInv, Pooled
<1>6. NumberInv'
  BY <1>1, NumbersKept
<1> QED
  BY <1>4, <1>5, <1>6 DEF IInv

LEMMA StepIInv == IInv /\ [Next]_vars => IInv'
<1> SUFFICES ASSUME IInv, [Next]_vars PROVE IInv'
  OBVIOUS
<1>1. CASE UNCHANGED vars
  BY <1>1, OtherStep
<1>2. CASE \E t \in Threads : get_server_session(t)
  BY <1>2, GetStep
<1>3. CASE \E t \in Threads : _start_retryable_write(t)
  BY <1>3, StartStep
<1>4. CASE \E t \in Threads : _apply_to(t)
  BY <1>4, SendStep
<1>5. CASE \E t \in Threads : Reply(t)
  BY <1>5, ReplyStep
<1>6. CASE \E t \in Threads : NetworkError(t) \/ NotSent(t)
  BY <1>6, MarkStep
<1>7. CASE \E t \in Threads : Kill(t)
  BY <1>7, KillStep
<1>8. CASE \E t \in Threads, lock \in BOOLEAN : end_session(t, lock)
  BY <1>8, EndStep
<1>9. CASE pop_all
  BY <1>9, PopAllStep
<1>10. CASE Describe \/ Tick
  BY <1>10, OtherStep
<1> QED
  BY <1>1, <1>2, <1>3, <1>4, <1>5, <1>6, <1>7, <1>8, <1>9, <1>10 DEF Next

LEMMA InvariantHolds == Spec => []IInv
  BY InitIInv, StepIInv, PTL DEF Spec

-----------------------------------------------------------------------------
\* Sessions, their numbers, the deque and the commands that are out keep
\* their types (_ServerSessionPool, _ServerSession).
THEOREM TypeCorrect == Spec => []TypeOK
<1>1. IInv => TypeOK
  BY DEF IInv
<1> QED
  BY <1>1, InvariantHolds, PTL

\* A session is used by one thread at a time and is never in the deque, or
\* twice in it, while it is used: what get_server_session, end_session and
\* pop_all do to the deque, in any order and at any age.
THEOREM ExclusiveHolds == Spec => []Exclusive
<1>1. IInv => Exclusive
  BY DEF IInv
<1> QED
  BY <1>1, InvariantHolds, PTL

\* A retryable write keeps the number that inc_transaction_id drew for it, in
\* both of its attempts, and no other write is sent under that number:
\* nobody draws from the session between _start_retryable_write and _apply_to.
THEOREM OneNumberEachHolds == Spec => []OneNumberEach
<1>1. IInv => OneNumberEach
  BY DEF IInv, NumberInv
<1> QED
  BY <1>1, InvariantHolds, PTL

\* The deque holds no session with a command that a server may still execute,
\* but for those whose user was killed (mark_dirty and its one caller).
THEOREM QuietInPoolHolds == Spec => []QuietInPool
<1>1. IInv => QuietInPool
  <2> SUFFICES ASSUME IInv, NEW x \in Pooled, x \in outstanding PROVE x \in exited
    BY DEF QuietInPool
  <2>1. \A t \in waiting : held[t] # x
    BY DEF IInv, TypeOK, Exclusive
  <2> QED
    BY <2>1 DEF IInv, QuietInv
<1> QED
  BY <1>1, InvariantHolds, PTL
=============================================================================
