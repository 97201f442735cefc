------------------------------ MODULE FakerUtil ------------------------------
(***************************************************************************)
(* fakerutil.py: bulkFetch generates a batch of documents from a template, *)
(* a csv file whose rows give the path of a property and the Python        *)
(* expression that generates its value.  A path segment that ends with ()  *)
(* is a list, and the expression is evaluated for each of its elements.    *)
(*                                                                         *)
(* A step is what happens between two changes of the module's globals:     *)
(* id_map, which ID increments, and maxArraySize, which setArraySize sets  *)
(* and from which later rows, documents, calls and models draw the lengths *)
(* of their lists.  A document is the set of its leaves; a leaf has the    *)
(* row that generated it and, for every list on its path, an index.  What  *)
(* an expression returns is kept for ID alone.                             *)
(***************************************************************************)
EXTENDS Naturals, Sequences, FiniteSets

CONSTANTS
  Models,            \* names of models
  Template,          \* Template[m]: the rows of the file of m
  Missing,           \* the models without a file
  Segments,          \* stripped path segments
  Keys,              \* keys given to ID
  BulkSizes,         \* batch sizes a caller may ask for
  DefaultArraySize,  \* the initial maxArraySize (5 in the code)
  MaxCalls,          \* bound on the calls, in the guard of bulkFetch
  None               \* a model before the first call, a value that is no ID

Segment == [name : Segments, list : BOOLEAN]
Generator == [op : {"ID"}, key : Keys] \cup [op : {"setArraySize"}, size : Nat]
               \cup [op : {"fake", "list", "raise"}]
Row == [path : Seq(Segment) \ {<<>>}, gen : Generator]

ASSUME TemplateAssumption ==
  /\ Template \in [Models -> Seq(Row)] /\ Missing \subseteq Models
  /\ BulkSizes \subseteq Nat /\ DefaultArraySize \in Nat /\ MaxCalls \in Nat
  /\ None \notin Keys

\* In one template a path is not continued by another one, and a list is
\* written with () wherever it occurs, as in models/*.csv.  Only then does the
\* merger meet no object where it has a value or a list.
ASSUME PathAssumption ==
  \A m \in Models : \A r, s \in DOMAIN Template[m] :
    LET p == Template[m][r].path
        q == Template[m][s].path
    IN \A i \in DOMAIN p \cap DOMAIN q :
         (\A j \in 1 .. i : p[j].name = q[j].name) =>
           (i = Len(p) <=> i = Len(q)) /\ p[i].list = q[i].list

VARIABLES
  id_map,        \* global: the last number given out for each key
  maxArraySize,  \* global: bound on the length of the lists to come
  pc,            \* where the call is
  call,          \* number of calls so far
  model, bulk_size,  \* the arguments of the call
  J,             \* number of documents begun
  row,           \* number of rows begun in the current document
  counts,        \* length of each list of the document, 0: not in the dict
  pending,       \* elements for which the row has still to be evaluated
  partial,       \* leaves of the row so far
  data,          \* leaves of the document so far
  l,             \* leaves of the finished documents of the call
  returned,      \* history: the calls that returned, with their arguments
  delivered,     \* history: the leaves of the lists that were returned
  dropped        \* history: the leaves that no list contains

globals == <<id_map, maxArraySize>>
args == <<call, model, bulk_size>>
document == <<counts, pending, partial, data>>
history == <<returned, delivered, dropped>>
vars == <<globals, pc, args, J, row, document, l, history>>

-----------------------------------------------------------------------------
Rows == Template[model]
Path(r) == Rows[r].path

\* The positions on path p at which procpath generates a list.  The last
\* segment is its base case, whatever it ends with.
Lists(p) == {i \in 1 .. Len(p) - 1 : p[i].list}

\* The elements of the nested lists on path p: an index for each list.
Elements(p, c) ==
  {at \in [Lists(p) -> UNION {1 .. c[p[i].name] : i \in Lists(p)}] :
     \A i \in Lists(p) : at[i] <= c[p[i].name]}

\* The order in which procpath evaluates them.
Before(a, b) ==
  \E i \in DOMAIN a : a[i] < b[i] /\ \A j \in DOMAIN a : j < i => a[j] = b[j]

\* The lists that two paths have in common.
Common(p, q) ==
  {i \in Lists(p) \cap Lists(q) : \A j \in 1 .. i : p[j] = q[j]}

\* The elements of those lists that the leaves of row r in d belong to.
Spine(d, r, lists) ==
  {[i \in lists |-> x.at[i]] : x \in {y \in d : y.row = r}}

Init ==
  /\ id_map = [k \in Keys |-> 0] /\ maxArraySize = DefaultArraySize
  /\ pc = "idle" /\ call = 0 /\ model = None /\ bulk_size = 0
  /\ J = 0 /\ row = 0
  /\ counts = [s \in Segments |-> 0]
  /\ pending = {} /\ partial = {} /\ data = {} /\ l = {}
  /\ returned = {} /\ delivered = {} /\ dropped = {}

-----------------------------------------------------------------------------
\* Faulty variant: an exception also starts the numbers again.
RaiseAndReset ==
  /\ pc' = "idle"
  /\ dropped' = dropped \cup l \cup data \cup partial
  /\ l' = {} /\ data' = {} /\ partial' = {} /\ pending' = {}
  /\ id_map' = [k \in Keys |-> 0]
  /\ UNCHANGED <<maxArraySize, args, J, row, counts, returned, delivered>>

\* An exception leaves bulkFetch: the list is lost, the globals stay.
Raise ==
  /\ pc' = "idle"
  /\ dropped' = dropped \cup l \cup data \cup partial
  /\ l' = {} /\ data' = {} /\ partial' = {} /\ pending' = {}
  /\ UNCHANGED <<globals, args, J, row, counts, returned, delivered>>

bulkFetch(m, b) ==
  /\ pc = "idle" /\ call < MaxCalls
  /\ call' = call + 1 /\ model' = m /\ bulk_size' = b
  /\ J' = 0
  /\ pc' = IF m \in Missing THEN "idle" ELSE "doc"
  /\ UNCHANGED <<globals, row, document, l, history>>

\* Faulty variant: islice skips the first row after the header too.
StartDocAtTwo ==
  /\ pc = "doc" /\ J < bulk_size
  /\ J' = J + 1
  /\ row' = IF Rows = <<>> THEN 0 ELSE 1
  /\ counts' = [s \in Segments |-> 0]
  /\ pc' = "row"
  /\ UNCHANGED <<globals, args, pending, partial, data, l, history>>

\* counts = defaultdict(...), data = {}, the file is opened after its header.
StartDoc ==
  /\ pc = "doc" /\ J < bulk_size
  /\ J' = J + 1
  /\ row' = 0
  /\ counts' = [s \in Segments |-> 0]
  /\ pc' = "row"
  /\ UNCHANGED <<globals, args, pending, partial, data, l, history>>

\* Faulty variant: counts is a function and not a dictionary, so that every
\* row draws lengths of its own.
DrawAgain ==
  /\ pc = "row" /\ row < Len(Rows)
  /\ LET p == Path(row + 1)
         new == {p[i].name : i \in Lists(p)}
     IN \/ /\ new # {} /\ maxArraySize < 1
           /\ Raise
        \/ \E drawn \in [new -> 1 .. maxArraySize] :
             /\ counts' = [s \in Segments |->
                             IF s \in new THEN drawn[s] ELSE counts[s]]
             /\ pending' = Elements(p, counts')
             /\ row' = row + 1
             /\ pc' = "eval"
             /\ UNCHANGED <<globals, args, J, partial, data, l, history>>

\* procpath walks down the path.  A list the document does not have yet gets
\* a random length, before anything is evaluated; random.randint(1, 0) raises.
procpath ==
  /\ pc = "row" /\ row < Len(Rows)
  /\ LET p == Path(row + 1)
         new == {p[i].name : i \in {j \in Lists(p) : counts[p[j].name] = 0}}
     IN \/ /\ new # {} /\ maxArraySize < 1
           /\ Raise
        \/ \E drawn \in [new -> 1 .. maxArraySize] :
             /\ counts' = [s \in Segments |->
                             IF s \in new THEN drawn[s] ELSE counts[s]]
             /\ pending' = Elements(p, counts')
             /\ row' = row + 1
             /\ pc' = "eval"
             /\ UNCHANGED <<globals, args, J, partial, data, l, history>>

\* The leaf of the current row at element a.
Leaf(a, key, no) ==
  [call |-> call, doc |-> J, row |-> row, at |-> a, key |-> key, no |-> no]

\* Faulty variant: setArraySize without its global statement.
NewArraySizeLocal(gen) == maxArraySize

\* The value of the global maxArraySize after the expression.
NewArraySize(gen) ==
  IF gen.op = "setArraySize" THEN gen.size ELSE maxArraySize

\* eval(generator) at the next element.
Eval ==
  /\ pc = "eval" /\ pending # {}
  /\ \E a \in pending :
       /\ \A b \in pending \ {a} : Before(a, b)
       /\ LET gen == Rows[row].gen IN
          \/ gen.op = "raise" /\ Raise
          \/ /\ gen.op # "raise"
             /\ pending' = pending \ {a}
             /\ IF gen.op = "ID"
                THEN /\ id_map' = [id_map EXCEPT ![gen.key] = @ + 1]
                     /\ partial' = partial
                                     \cup {Leaf(a, gen.key, id_map'[gen.key])}
                ELSE /\ partial' = partial \cup {Leaf(a, None, 0)}
                     /\ UNCHANGED id_map
             /\ maxArraySize' = NewArraySize(gen)
             /\ UNCHANGED <<pc, args, J, row, counts, data, l, history>>

\* merger.merge(data, partial).  zipmerge walks the elements that the list has
\* in the document: it raises an IndexError if the row has fewer, and drops
\* those that the row has beyond them.
Shared(r) == Common(Path(r), Path(row))
DocRows == {x.row : x \in data}
Shorter ==
  \E r \in DocRows :
    ~(Spine(data, r, Shared(r)) \subseteq Spine(partial, row, Shared(r)))
Zipped ==
  {y \in partial : \A r \in DocRows :
     [i \in Shared(r) |-> y.at[i]] \in Spine(data, r, Shared(r))}

\* The values of an earlier row with the same path are overridden: those that
\* are lists element by element, as far as the earlier one goes, where zipmerge
\* raises an IndexError if the later one is shorter.
Overridden == {x \in data : Path(x.row) = Path(row)}
ListValues ==
  Rows[row].gen.op = "list" /\ \E x \in Overridden : Rows[x.row].gen.op = "list"

merge ==
  /\ pc = "eval" /\ pending = {}
  /\ \/ (Shorter \/ ListValues) /\ Raise
     \/ /\ ~Shorter
        /\ data' = (data \ Overridden) \cup Zipped
        /\ dropped' = dropped \cup Overridden
        /\ partial' = {}
        /\ pc' = "row"
        /\ UNCHANGED <<globals, args, J, row, counts, pending, l,
                       returned, delivered>>

\* l.append(data)
AppendDoc ==
  /\ pc = "row" /\ row = Len(Rows)
  /\ l' = l \cup data /\ data' = {}
  /\ pc' = "doc"
  /\ UNCHANGED <<globals, args, J, row, counts, pending, partial, history>>

\* return l
Return ==
  /\ pc = "doc" /\ J = bulk_size
  /\ returned' = returned
        \cup {[call |-> call, model |-> model, bulk_size |-> bulk_size]}
  /\ delivered' = delivered \cup l /\ l' = {}
  /\ pc' = "idle"
  /\ UNCHANGED <<globals, args, J, row, document, dropped>>

Next ==
  \/ \E m \in Models, b \in BulkSizes : bulkFetch(m, b)
  \/ StartDoc \/ procpath \/ Eval \/ merge \/ AppendDoc \/ Return

Spec == Init /\ [][Next]_vars

-----------------------------------------------------------------------------
issued == delivered \cup dropped \cup l \cup data \cup partial

LeafType == [call : Nat, doc : Nat, row : Nat,
             at : UNION {[S -> Nat] : S \in SUBSET Nat},
             key : Keys \cup {None}, no : Nat]

(* Type invariant. *)
TypeOK ==
  /\ id_map \in [Keys -> Nat] /\ maxArraySize \in Nat
  /\ pc \in {"idle", "doc", "row", "eval"}
  /\ call \in Nat /\ model \in Models \cup {None} /\ bulk_size \in Nat
  /\ J \in Nat /\ row \in Nat
  /\ counts \in [Segments -> Nat]
  /\ pc # "idle" => model \in Models
  /\ pc = "eval" => row \in 1 .. Len(Rows)

\* No number of a key is given to two values: neither in two elements,
\* documents or calls, nor again after a call that raised (ID).
UniqueIds ==
  \A x, y \in issued : x.key # None /\ x.key = y.key /\ x.no = y.no => x = y

\* Every number ID counted is in a list that was returned, in the list being
\* built, in a list lost to an exception or in a value that a later row of the
\* same path overrode: no merge loses a value (ID, zipmerge).
IdsAccounted ==
  \A k \in Keys : {x.no : x \in {y \in issued : y.key = k}} = 1 .. id_map[k]

\* "Assumes lists of equal length": whatever rows and expressions came before,
\* the list of a row that is merged has as many elements as the document's.
ZipEqual ==
  pc = "eval" /\ pending = {} =>
    \A r \in DocRows :
      Spine(data, r, Shared(r)) = Spine(partial, row, Shared(r))

\* A list that appears first after a setArraySize in its document has at most
\* as many elements as the last of them allowed (models/_reference.csv: "Show
\* that this array will not exceed currArraySize").
CurrArraySize ==
  \A x \in l \cup data \cup partial :
    \A i \in Lists(Path(x.row)) :
      LET name == Path(x.row)[i].name
          has(r) == \E j \in Lists(Path(r)) : Path(r)[j].name = name
          sets(r) == Rows[r].gen.op = "setArraySize"
          first == CHOOSE f \in 1 .. x.row : has(f) /\ \A r \in 1 .. f - 1 : ~has(r)
      IN \A q \in 1 .. first - 1 :
           sets(q) /\ (\A r \in q + 1 .. first - 1 : ~sets(r))
             => x.at[i] <= Rows[q].gen.size

\* A list that is returned has bulk_size documents, and every path of the
\* template has a value in each (bulkFetch).
Whole ==
  \A c \in returned :
    LET T == Template[c.model]
        mine == {x \in delivered : x.call = c.call}
    IN /\ {x.doc : x \in mine} \subseteq 1 .. c.bulk_size
       /\ \A d \in 1 .. c.bulk_size, r \in DOMAIN T :
            \E x \in mine : x.doc = d /\ T[x.row].path = T[r].path

=============================================================================
