-------------------------- MODULE FakerUtil_proofs --------------------------
(***************************************************************************)
(* What is proved of FakerUtil for any templates, batch sizes and number   *)
(* of calls: that the values of ID do not repeat (IdInv), that merged      *)
(* lists agree (ShapeInv) and so lose no value, that what is returned is   *)
(* whole (WholeInv), and that lists keep to the last setArraySize          *)
(* (SizeInv).                                                              *)
(***************************************************************************)
EXTENDS FakerUtil, TLAPS

\* No number beyond the counter of its key is in use.
IdBound ==
  \A x \in issued :
    /\ x.key \in Keys \cup {None}
    /\ x.key # None => x.no \in Nat /\ x.no <= id_map[x.key]

IdInv == TypeOK /\ IdBound /\ UniqueIds

\* The row that is evaluated is one of the template.
LEMMA CurrentRow ==
  ASSUME TypeOK, pc = "eval"
  PROVE  /\ Rows[row].gen \in Generator
         /\ Rows[row].gen.op = "ID" => Rows[row].gen.key \in Keys
         /\ Rows[row].gen.op = "setArraySize" => Rows[row].gen.size \in Nat
<1>1. Rows \in Seq(Row) /\ row \in 1 .. Len(Rows)
  BY TemplateAssumption DEF TypeOK, Rows
<1>2. Rows[row] \in Row
  BY <1>1
<1> QED
  BY <1>2 DEF Row, Generator

\* A step that issues no value and moves the issued ones between the lists
\* of the call and the histories keeps the facts about identifiers.
LEMMA NothingIssued ==
  ASSUME IdInv, issued' \subseteq issued, UNCHANGED id_map
  PROVE  IdBound' /\ UniqueIds'
BY DEF IdInv, IdBound, UniqueIds

-----------------------------------------------------------------------------
\* An exception ends the call in a state of the right types.
LEMMA RaiseType == TypeOK /\ Raise => TypeOK'
BY DEF TypeOK, Raise, globals, args, Rows

\* Every step of a call keeps the types of the variables.
LEMMA TypeStep ==
  ASSUME TypeOK, [Next]_vars
  PROVE  TypeOK'
<1> USE DEF globals, args, document, history
<1>1. ASSUME NEW m \in Models, NEW b \in BulkSizes, bulkFetch(m, b)
      PROVE  TypeOK'
  BY <1>1, TemplateAssumption DEF TypeOK, bulkFetch
<1>2. CASE StartDoc
  BY <1>2 DEF TypeOK, StartDoc
<1>3. CASE procpath
  <2>1. CASE Raise
    BY <2>1, RaiseType
  <2>2. CASE ~Raise
    <3>1. /\ UNCHANGED <<id_map, maxArraySize, call, model, bulk_size, J>>
          /\ pc' = "eval" /\ row' = row + 1 /\ row < Len(Rows)
      BY <1>3, <2>2 DEF procpath
    <3>2. Len(Rows) \in Nat
      BY <1>3, TemplateAssumption DEF TypeOK, procpath, Rows
    <3>3. counts' \in [Segments -> Nat]
      <4>1. PICK new : \E drawn \in [new -> 1 .. maxArraySize] :
              counts' = [s \in Segments |-> IF s \in new THEN drawn[s] ELSE counts[s]]
        BY <1>3, <2>2 DEF procpath
      <4> QED
        BY <4>1 DEF TypeOK
    <3> QED
      BY <1>3, <3>1, <3>2, <3>3 DEF TypeOK, procpath, Rows
  <2> QED
    BY <2>1, <2>2
<1>4. CASE Eval
  <2>1. CASE Raise
    BY <2>1, RaiseType
  <2>2. CASE ~Raise
    <3>1. id_map' \in [Keys -> Nat]
      BY <1>4, <2>2, CurrentRow DEF TypeOK, Eval
    <3>2. maxArraySize' \in Nat
      BY <1>4, <2>2, CurrentRow DEF TypeOK, Eval, NewArraySize
    <3> QED
      BY <1>4, <2>2, <3>1, <3>2 DEF TypeOK, Eval, Rows
  <2> QED
    BY <2>1, <2>2
<1>5. CASE merge
  BY <1>5, RaiseType DEF TypeOK, merge, Rows
<1>6. CASE AppendDoc \/ Return
  BY <1>6 DEF TypeOK, AppendDoc, Return
<1>7. CASE UNCHANGED vars
  BY <1>7 DEF TypeOK, vars, Rows
<1> QED
  BY <1>1, <1>2, <1>3, <1>4, <1>5, <1>6, <1>7 DEF Next

\* Every step keeps the numbering: only ID issues a value, one above the
\* last one of its key.
LEMMA IdStep ==
  ASSUME IdInv, [Next]_vars
  PROVE  IdBound' /\ UniqueIds'
<1> USE DEF globals, args, document, history
<1>1. ASSUME NEW m \in Models, NEW b \in BulkSizes, bulkFetch(m, b)
      PROVE  IdBound' /\ UniqueIds'
  BY <1>1, NothingIssued DEF bulkFetch, issued
<1>2. Raise => IdBound' /\ UniqueIds'
  BY NothingIssued DEF Raise, issued
<1>3. CASE StartDoc \/ procpath
  BY <1>2, <1>3, NothingIssued DEF StartDoc, procpath, issued
<1>4. CASE Eval
  <2> DEFINE gen == Rows[row].gen
  <2>1. ASSUME NEW a, partial' = partial \cup {Leaf(a, None, 0)},
               UNCHANGED <<id_map, delivered, dropped, l, data>>
        PROVE  IdBound' /\ UniqueIds'
    <3>1. issued' = issued \cup {Leaf(a, None, 0)}
      BY <2>1 DEF issued
    <3> QED
      BY <2>1, <3>1 DEF IdInv, IdBound, UniqueIds, Leaf
  <2>2. ASSUME NEW a, gen.op = "ID",
               id_map' = [id_map EXCEPT ![gen.key] = @ + 1],
               partial' = partial \cup {Leaf(a, gen.key, id_map'[gen.key])},
               UNCHANGED <<delivered, dropped, l, data>>
        PROVE  IdBound' /\ UniqueIds'
    <3>1. gen.key \in Keys /\ gen.key # None /\ id_map \in [Keys -> Nat]
      BY <1>4, <2>2, CurrentRow, TemplateAssumption DEF Eval, IdInv, TypeOK
    <3> HIDE DEF gen
    <3>2. /\ issued' = issued \cup {Leaf(a, gen.key, id_map[gen.key] + 1)}
          /\ id_map'[gen.key] = id_map[gen.key] + 1
          /\ \A k \in Keys \ {gen.key} : id_map'[k] = id_map[k]
      BY <2>2, <3>1 DEF issued
    <3> QED
      BY <3>1, <3>2 DEF IdInv, IdBound, UniqueIds, Leaf
  <2> QED
    BY <1>2, <1>4, <2>1, <2>2 DEF Eval
<1>5. CASE merge
  BY <1>2, <1>5, NothingIssued DEF merge, Overridden, Zipped, issued
<1>6. CASE AppendDoc \/ Return
  BY <1>6, NothingIssued DEF AppendDoc, Return, issued
<1>7. CASE UNCHANGED vars
  BY <1>7, NothingIssued DEF vars, issued
<1> QED
  BY <1>1, <1>3, <1>4, <1>5, <1>6, <1>7 DEF Next

\* The invariant is inductive.
THEOREM IdInvariance == Spec => []IdInv
<1>1. Init => IdInv
  BY TemplateAssumption
  DEF Init, IdInv, TypeOK, IdBound, UniqueIds, issued
<1>2. IdInv /\ [Next]_vars => IdInv'
  BY TypeStep, IdStep DEF IdInv
<1> QED
  BY <1>1, <1>2, PTL DEF Spec

\* Type correctness of every state.
THEOREM TypeCorrect == Spec => []TypeOK
BY IdInvariance, PTL DEF IdInv

\* No value of ID repeats: for any templates, across elements, documents,
\* calls and models, and after any call that raised.
THEOREM IdsUnique == Spec => []UniqueIds
BY IdInvariance, PTL DEF IdInv

-----------------------------------------------------------------------------
(* Lengths: why zipmerge may assume lists of equal length. *)

\* Every list on path p has a length in c.
Drawn(p, c) == \A i \in Lists(p) : c[p[i].name] >= 1

ElementsOf(d, r) == {x.at : x \in {y \in d : y.row = r}}

\* Each row of the document has a leaf for every element of its lists.
DataShape ==
  \A x \in data : /\ x.row \in 1 .. Len(Rows)
                  /\ Drawn(Path(x.row), counts)
                  /\ ElementsOf(data, x.row) = Elements(Path(x.row), counts)

\* So will the row in hand, once nothing is pending.
RowShape ==
  pc = "eval" =>
    /\ Drawn(Path(row), counts)
    /\ \A y \in partial : y.row = row
    /\ ElementsOf(partial, row) \cup pending = Elements(Path(row), counts)

BetweenRows ==
  /\ pc # "eval" => partial = {}
  /\ pc \in {"idle", "doc"} => data = {}

ShapeInv == TypeOK /\ DataShape /\ RowShape /\ BetweenRows

\* The indices that the elements on path p have for the lists in S, and all
\* the indices that the lengths in c allow for them.
Slices(p, c, S) == {[i \in S |-> at[i]] : at \in Elements(p, c)}
Grid(p, c, S) == {v \in [S -> Nat] : \A i \in S : v[i] \in 1 .. c[p[i].name]}

\* Each combination of indices occurs, because no list is empty.
LEMMA Projection ==
  ASSUME NEW p \in Seq(Segment), NEW c \in [Segments -> Nat], Drawn(p, c),
         NEW S \in SUBSET Lists(p)
  PROVE  Slices(p, c, S) = Grid(p, c, S)
<1>1. \A i \in Lists(p) : c[p[i].name] \in Nat \ {0}
  <2> SUFFICES ASSUME NEW i \in Lists(p) PROVE c[p[i].name] \in Nat \ {0}
    OBVIOUS
  <2>1. i \in 1 .. Len(p)
    BY DEF Lists
  <2>2. p[i].name \in Segments
    <3>1. p[i] \in Segment
      BY <2>1
    <3> QED
      BY <3>1 DEF Segment
  <2>3. c[p[i].name] >= 1
    BY DEF Drawn
  <2> QED
    BY <2>2, <2>3
<1>2. ASSUME NEW at \in Elements(p, c)
      PROVE  \A i \in Lists(p) : at[i] \in 1 .. c[p[i].name]
  BY <1>1, <1>2 DEF Elements
<1>3. ASSUME NEW v \in [S -> Nat], \A i \in S : v[i] \in 1 .. c[p[i].name]
      PROVE  \E at \in Elements(p, c) : v = [i \in S |-> at[i]]
  <2> DEFINE at == [i \in Lists(p) |-> IF i \in S THEN v[i] ELSE 1]
  <2>1. \A i \in Lists(p) : at[i] \in 1 .. c[p[i].name]
    BY <1>1, <1>3
  <2>2. at \in Elements(p, c)
    BY <1>1, <2>1 DEF Elements
  <2>3. v = [i \in S |-> at[i]]
    BY <1>3
  <2> QED
    BY <2>2, <2>3
<1>4. ASSUME NEW at \in Elements(p, c)
      PROVE  [i \in S |-> at[i]] \in Grid(p, c, S)
  BY <1>1, <1>2 DEF Grid
<1> QED
  BY <1>3, <1>4 DEF Slices, Grid

\* The lists that two paths share have the same names on both.
LEMMA CommonLists ==
  ASSUME NEW p \in Seq(Segment), NEW q \in Seq(Segment)
  PROVE  /\ Common(p, q) \subseteq Lists(p) /\ Common(p, q) \subseteq Lists(q)
         /\ \A i \in Common(p, q) : p[i] = q[i]
BY DEF Common, Lists

\* When a row is complete, zipmerge finds lists of equal length.
LEMMA ShapeIsEqual == ShapeInv => ZipEqual
<1> SUFFICES ASSUME ShapeInv, pc = "eval", pending = {}, NEW x \in data
             PROVE  Spine(data, x.row, Shared(x.row))
                      = Spine(partial, row, Shared(x.row))
  BY DEF ZipEqual, DocRows
<1> DEFINE p == Path(x.row)
           q == Path(row)
           lists == Shared(x.row)
<1>1. p \in Seq(Segment) /\ q \in Seq(Segment)
  <2>1. Rows \in Seq(Row) /\ row \in 1 .. Len(Rows) /\ x.row \in 1 .. Len(Rows)
    BY TemplateAssumption DEF ShapeInv, TypeOK, DataShape, Rows
  <2>2. Rows[row] \in Row /\ Rows[x.row] \in Row
    BY <2>1
  <2> QED
    BY <2>2 DEF Row, Path
<1>2. /\ ElementsOf(data, x.row) = Elements(p, counts) /\ Drawn(p, counts)
      /\ ElementsOf(partial, row) = Elements(q, counts) /\ Drawn(q, counts)
      /\ counts \in [Segments -> Nat]
  BY DEF ShapeInv, DataShape, RowShape, TypeOK
<1>3. Spine(data, x.row, lists) = Slices(p, counts, lists)
  <2>1. Spine(data, x.row, lists)
          = {[i \in lists |-> at[i]] : at \in ElementsOf(data, x.row)}
    BY DEF Spine, ElementsOf
  <2> QED
    BY <1>2, <2>1 DEF Slices
<1>4. Spine(partial, row, lists) = Slices(q, counts, lists)
  <2>1. Spine(partial, row, lists)
          = {[i \in lists |-> at[i]] : at \in ElementsOf(partial, row)}
    BY DEF Spine, ElementsOf
  <2> QED
    BY <1>2, <2>1 DEF Slices
<1>5. /\ lists \subseteq Lists(p) /\ lists \subseteq Lists(q)
      /\ \A i \in lists : p[i] = q[i]
  BY <1>1, CommonLists DEF Shared
<1> HIDE DEF p, q, lists
<1>6. /\ Slices(p, counts, lists) = Grid(p, counts, lists)
      /\ Slices(q, counts, lists) = Grid(q, counts, lists)
  BY <1>1, <1>2, <1>5, Projection
<1>7. Grid(p, counts, lists) = Grid(q, counts, lists)
  BY <1>5 DEF Grid
<1>8. Spine(data, x.row, lists) = Spine(partial, row, lists)
  BY <1>3, <1>4, <1>6, <1>7
<1> QED
  BY <1>8 DEF lists

\* Therefore zipmerge neither raises nor loses a value of the row for the lists
\* on its path; it may raise for values that are lists themselves.
LEMMA MergeKeepsAll == ShapeInv /\ merge => ~Shorter /\ Zipped = partial
<1> SUFFICES ASSUME ShapeInv, merge PROVE ~Shorter /\ Zipped = partial
  OBVIOUS
<1>1. \A r \in DocRows :
        Spine(data, r, Shared(r)) = Spine(partial, row, Shared(r))
  BY ShapeIsEqual DEF merge, ZipEqual
<1>2. ASSUME NEW y \in partial, NEW r \in DocRows
      PROVE  [i \in Shared(r) |-> y.at[i]] \in Spine(partial, row, Shared(r))
  <2>1. y \in {z \in partial : z.row = row}
    BY DEF ShapeInv, RowShape, merge
  <2> QED
    BY <2>1 DEF Spine
<1>3. ~Shorter
  BY <1>1, Zenon DEF Shorter
<1>4. ASSUME NEW y \in partial PROVE y \in Zipped
  <2>1. \A r \in DocRows :
          [i \in Shared(r) |-> y.at[i]] \in Spine(data, r, Shared(r))
    BY <1>1, <1>2, Zenon
  <2> QED
    BY <2>1, Zenon DEF Zipped
<1>5. Zipped \subseteq partial
  BY DEF Zipped
<1> QED
  BY <1>3, <1>4, <1>5

\* An exception leaves no document and no row behind.
LEMMA RaiseShape == ShapeInv /\ Raise => DataShape' /\ RowShape' /\ BetweenRows'
BY DEF Raise, DataShape, RowShape, BetweenRows

\* The dictionary counts keeps the lengths of the lists that the document has.
LEMMA DrawShape ==
  ASSUME ShapeInv, procpath, ~Raise
  PROVE  DataShape' /\ RowShape' /\ BetweenRows'
<1> USE DEF globals, args, history
<1> DEFINE p == Path(row + 1)
           new == {p[i].name : i \in {j \in Lists(p) : counts[p[j].name] = 0}}
<1>1. PICK drawn \in [new -> 1 .. maxArraySize] :
        /\ counts' = [s \in Segments |-> IF s \in new THEN drawn[s] ELSE counts[s]]
        /\ pending' = Elements(p, counts')
        /\ row' = row + 1 /\ pc' = "eval"
        /\ UNCHANGED <<model, partial, data>>
  BY DEF procpath
<1>2. /\ pc = "row" /\ row + 1 \in 1 .. Len(Rows) /\ Rows \in Seq(Row)
      /\ maxArraySize \in Nat /\ counts \in [Segments -> Nat]
  BY TemplateAssumption DEF ShapeInv, TypeOK, procpath, Rows
<1>3. \A r \in 1 .. Len(Rows) : \A i \in Lists(Path(r)) : Path(r)[i].name \in Segments
  <2> SUFFICES ASSUME NEW r \in 1 .. Len(Rows), NEW i \in Lists(Path(r))
               PROVE  Path(r)[i].name \in Segments
    OBVIOUS
  <2>1. Path(r) \in Seq(Segment)
    <3>1. Rows[r] \in Row
      BY <1>2
    <3> QED
      BY <3>1 DEF Row, Path
  <2>2. Path(r)[i] \in Segment
    BY <2>1 DEF Lists
  <2> QED
    BY <2>2 DEF Segment
<1>4. Rows' = Rows /\ \A r : Path(r)' = Path(r)
  BY <1>1 DEF Rows, Path
<1>5. RowShape'
  <2>1. \A i \in Lists(p) : counts'[p[i].name] >= 1
    <3> SUFFICES ASSUME NEW i \in Lists(p) PROVE counts'[p[i].name] >= 1
      OBVIOUS
    <3>1. p[i].name \in Segments
      BY <1>2, <1>3
    <3>2. CASE counts[p[i].name] = 0
      <4>1. p[i].name \in new
        BY <3>2
      <4>2. drawn[p[i].name] \in 1 .. maxArraySize
        BY <4>1
      <4> QED
        BY <1>1, <1>2, <3>1, <4>1, <4>2
    <3>3. CASE counts[p[i].name] # 0
      <4>1. p[i].name \notin new
        BY <3>3
      <4> QED
        BY <1>1, <1>2, <3>1, <3>3, <4>1
    <3> QED
      BY <3>2, <3>3
  <2>2. Path(row)' = p
    BY <1>1, <1>4
  <2>3. partial' = {}
    BY <1>1, <1>2 DEF ShapeInv, BetweenRows
  <2> HIDE DEF p
  <2>4. ElementsOf(partial, row)' = {}
    BY <2>3 DEF ElementsOf
  <2> QED
    BY <1>1, <2>1, <2>2, <2>3, <2>4 DEF RowShape, Drawn
<1>6. DataShape'
  <2> SUFFICES ASSUME NEW x \in data
               PROVE  /\ Drawn(Path(x.row), counts')
                      /\ Elements(Path(x.row), counts') = Elements(Path(x.row), counts)
    <3>1. Len(Rows)' = Len(Rows) /\ data' = data
      BY <1>1, <1>4
    <3>2. \A x \in data : ElementsOf(data, x.row)' = ElementsOf(data, x.row)
      BY <3>1 DEF ElementsOf
    <3> QED
      BY <1>4, <3>1, <3>2 DEF ShapeInv, DataShape
  <2> DEFINE q == Path(x.row)
  <2>1. x.row \in 1 .. Len(Rows) /\ \A i \in Lists(q) : counts[q[i].name] >= 1
    BY DEF ShapeInv, DataShape, Drawn
  <2>2. ASSUME NEW i \in Lists(q) PROVE counts'[q[i].name] = counts[q[i].name]
    <3>1. q[i].name \in Segments /\ counts[q[i].name] # 0
      <4>1. q[i].name \in Segments
        BY <1>3, <2>1
      <4>2. counts[q[i].name] >= 1
        BY <2>1
      <4> HIDE DEF q
      <4> QED
        BY <4>1, <4>2
    <3>2. q[i].name \notin new
      BY <3>1
    <3> QED
      BY <1>1, <3>1, <3>2
  <2> HIDE DEF q
  <2>3. {1 .. counts'[q[i].name] : i \in Lists(q)} = {1 .. counts[q[i].name] : i \in Lists(q)}
    BY <2>2
  <2>4. Elements(q, counts') = Elements(q, counts)
    BY <2>2, <2>3 DEF Elements
  <2>5. Drawn(q, counts')
    BY <2>1, <2>2 DEF Drawn
  <2> QED
    BY <2>4, <2>5 DEF q
<1> QED
  BY <1>1, <1>5, <1>6 DEF BetweenRows

\* An element that is evaluated moves from the pending ones to the row.
LEMMA EvalShape ==
  ASSUME ShapeInv, Eval, ~Raise
  PROVE  DataShape' /\ RowShape' /\ BetweenRows'
<1> USE DEF globals, args, history
<1>1. PICK a \in pending : \E leaf :
        /\ leaf.row = row /\ leaf.at = a
        /\ pending' = pending \ {a}
        /\ partial' = partial \cup {leaf}
        /\ UNCHANGED <<pc, model, row, counts, data>>
  BY DEF Eval, Leaf
<1>2. pc = "eval"
  BY DEF Eval
<1>3. Rows' = Rows /\ \A r : Path(r)' = Path(r)
  BY <1>1 DEF Rows, Path
<1>4. ElementsOf(partial', row) = ElementsOf(partial, row) \cup {a}
  BY <1>1 DEF ElementsOf
<1>5. RowShape'
  BY <1>1, <1>2, <1>3, <1>4 DEF ShapeInv, RowShape, Drawn, ElementsOf
<1>6. DataShape' /\ BetweenRows'
  BY <1>1, <1>2, <1>3 DEF ShapeInv, DataShape, BetweenRows, Drawn, ElementsOf
<1> QED
  BY <1>5, <1>6

\* A merged row replaces the leaves of the rows with its path.
LEMMA MergeShape ==
  ASSUME ShapeInv, merge, ~Raise
  PROVE  DataShape' /\ RowShape' /\ BetweenRows'
<1> USE DEF globals, args
<1>1. /\ data' = (data \ Overridden) \cup partial
      /\ partial' = {} /\ pc' = "row" /\ pc = "eval" /\ pending = {}
      /\ UNCHANGED <<model, row, counts>>
  BY MergeKeepsAll DEF merge
<1>2. Rows' = Rows /\ \A r : Path(r)' = Path(r)
  BY <1>1 DEF Rows, Path
<1>3. /\ Drawn(Path(row), counts) /\ row \in 1 .. Len(Rows)
      /\ \A y \in partial : y.row = row
      /\ ElementsOf(partial, row) = Elements(Path(row), counts)
  BY <1>1 DEF ShapeInv, RowShape, TypeOK
<1>4. ASSUME NEW x \in data'
      PROVE  /\ x.row \in 1 .. Len(Rows) /\ Drawn(Path(x.row), counts)
             /\ ElementsOf(data', x.row) = Elements(Path(x.row), counts)
  <2>1. CASE Path(x.row) = Path(row)
    <3>1. x.row = row
      BY <1>1, <1>3, <2>1 DEF Overridden
    <3>2. {y \in data' : y.row = row} = {y \in partial : y.row = row}
      BY <1>1 DEF Overridden
    <3> QED
      BY <1>3, <3>1, <3>2 DEF ElementsOf
  <2>2. CASE Path(x.row) # Path(row)
    <3>1. x \in data
      BY <1>1, <1>3, <2>2
    <3>2. {y \in data' : y.row = x.row} = {y \in data : y.row = x.row}
      BY <1>1, <1>3, <2>2 DEF Overridden
    <3> QED
      BY <3>1, <3>2 DEF ElementsOf, ShapeInv, DataShape
  <2> QED
    BY <2>1, <2>2
<1>5. DataShape'
  BY <1>1, <1>2, <1>4 DEF DataShape, Drawn, ElementsOf
<1> QED
  BY <1>1, <1>5 DEF RowShape, BetweenRows

\* Every step keeps the agreement between counts, the document and the row
\* that is being generated.
LEMMA ShapeStep ==
  ASSUME ShapeInv, [Next]_vars
  PROVE  ShapeInv'
<1> USE DEF globals, args, document, history
<1>1. TypeOK'
  BY TypeStep DEF ShapeInv
<1>2. DataShape' /\ RowShape' /\ BetweenRows'
  <2>1. ASSUME NEW m \in Models, NEW b \in BulkSizes, bulkFetch(m, b)
        PROVE  DataShape' /\ RowShape' /\ BetweenRows'
    BY <2>1 DEF ShapeInv, DataShape, RowShape, BetweenRows, bulkFetch
  <2>2. CASE StartDoc
    BY <2>2 DEF ShapeInv, DataShape, RowShape, BetweenRows, StartDoc
  <2>3. CASE procpath
    BY <2>3, DrawShape, RaiseShape
  <2>4. CASE Eval
    BY <2>4, EvalShape, RaiseShape
  <2>5. CASE merge
    BY <2>5, MergeShape, RaiseShape
  <2>6. CASE AppendDoc \/ Return
    BY <2>6 DEF ShapeInv, DataShape, RowShape, BetweenRows, AppendDoc, Return
  <2>7. CASE UNCHANGED vars
    BY <2>7 DEF ShapeInv, DataShape, RowShape, BetweenRows, vars, Drawn,
                ElementsOf, Path, Rows
  <2> QED
    BY <2>1, <2>2, <2>3, <2>4, <2>5, <2>6, <2>7 DEF Next
<1> QED
  BY <1>1, <1>2 DEF ShapeInv

\* In every state the lists of the document, and those of the row to be
\* merged, have the lengths that the dictionary counts holds (procpath).
THEOREM ShapeInvariance == Spec => []ShapeInv
<1>1. Init => ShapeInv
  BY TemplateAssumption
  DEF Init, ShapeInv, TypeOK, DataShape, RowShape, BetweenRows
<1>2. ShapeInv /\ [Next]_vars => ShapeInv'
  BY ShapeStep
<1> QED
  BY <1>1, <1>2, PTL DEF Spec

\* The assumption of zipmerge holds for any templates, also when setArraySize
\* runs between two rows of one list.
THEOREM ZipAssumption == Spec => []ZipEqual
BY ShapeInvariance, ShapeIsEqual, PTL

-----------------------------------------------------------------------------
(* Identifiers again: none is lost. *)

\* A step that issues no value and keeps the issued ones in the lists of the
\* call or in the histories loses none.
LEMMA NothingLost ==
  ASSUME IdsAccounted, issued' = issued, UNCHANGED id_map
  PROVE  IdsAccounted'
BY DEF IdsAccounted

\* Evaluating ID extends the numbers of its key by the next one.
LEMMA NextNumber ==
  ASSUME TypeOK, IdsAccounted, Eval, ~Raise
  PROVE  IdsAccounted'
<1> DEFINE gen == Rows[row].gen
<1>1. PICK a \in pending :
        /\ UNCHANGED <<delivered, dropped, l, data>>
        /\ IF gen.op = "ID"
           THEN /\ id_map' = [id_map EXCEPT ![gen.key] = @ + 1]
                /\ partial' = partial \cup {Leaf(a, gen.key, id_map'[gen.key])}
           ELSE /\ partial' = partial \cup {Leaf(a, None, 0)}
                /\ UNCHANGED id_map
  BY DEF Eval, history
<1>2. gen.op = "ID" => gen.key \in Keys
  BY CurrentRow DEF Eval
<1>3. id_map \in [Keys -> Nat]
  BY DEF TypeOK
<1> HIDE DEF gen
<1>4. CASE gen.op = "ID"
  <2>1. PICK leaf : /\ leaf.key = gen.key /\ leaf.no = id_map[gen.key] + 1
                    /\ issued' = issued \cup {leaf}
    BY <1>1, <1>2, <1>3, <1>4 DEF issued, Leaf
  <2> SUFFICES ASSUME NEW k \in Keys
               PROVE  {x.no : x \in {y \in issued' : y.key = k}} = 1 .. id_map'[k]
    BY DEF IdsAccounted
  <2>2. {x.no : x \in {y \in issued : y.key = k}} = 1 .. id_map[k]
    BY DEF IdsAccounted
  <2>3. CASE k = gen.key
    <3>1. {x.no : x \in {y \in issued' : y.key = k}}
            = {x.no : x \in {y \in issued : y.key = k}} \cup {id_map[k] + 1}
      BY <2>1, <2>3
    <3>2. id_map'[k] = id_map[k] + 1
      BY <1>1, <1>2, <1>3, <1>4, <2>3
    <3>3. id_map[k] \in Nat
      BY <1>3
    <3>4. \A n \in Nat : 1 .. n + 1 = (1 .. n) \cup {n + 1}
      OBVIOUS
    <3> QED
      BY <2>2, <3>1, <3>2, <3>3, <3>4
  <2>4. CASE k # gen.key
    <3>1. {y \in issued' : y.key = k} = {y \in issued : y.key = k}
      BY <2>1, <2>4
    <3>2. id_map'[k] = id_map[k]
      BY <1>1, <1>3, <1>4, <2>4
    <3> QED
      BY <2>2, <3>1, <3>2
  <2> QED
    BY <2>3, <2>4
<1>5. CASE gen.op # "ID"
  <2>1. PICK leaf : leaf.key = None /\ issued' = issued \cup {leaf}
    BY <1>1, <1>5 DEF issued, Leaf
  <2>2. \A k \in Keys : {y \in issued' : y.key = k} = {y \in issued : y.key = k}
    BY <2>1, TemplateAssumption
  <2> QED
    BY <1>1, <1>5, <2>2 DEF IdsAccounted
<1> QED
  BY <1>4, <1>5

\* Every step of a call keeps every issued value accounted for.
LEMMA AccountStep ==
  ASSUME ShapeInv, IdsAccounted, [Next]_vars
  PROVE  IdsAccounted'
<1> USE DEF globals, args, document, history
<1>1. ASSUME NEW m \in Models, NEW b \in BulkSizes, bulkFetch(m, b)
      PROVE  IdsAccounted'
  BY <1>1, NothingLost DEF bulkFetch, issued
<1>2. Raise => IdsAccounted'
  BY NothingLost DEF Raise, issued
<1>3. CASE StartDoc \/ procpath
  BY <1>2, <1>3, NothingLost DEF StartDoc, procpath, issued
<1>4. CASE Eval
  BY <1>2, <1>4, NextNumber DEF ShapeInv
<1>5. CASE merge /\ ~Raise
  <2>1. issued' = issued /\ UNCHANGED id_map
    BY <1>5, MergeKeepsAll DEF merge, Overridden, issued
  <2> QED
    BY <2>1, NothingLost
<1>6. CASE AppendDoc \/ Return
  BY <1>6, NothingLost DEF AppendDoc, Return, issued
<1>7. CASE UNCHANGED vars
  BY <1>7, NothingLost DEF vars, issued
<1> QED
  BY <1>1, <1>2, <1>3, <1>4, <1>5, <1>6, <1>7 DEF Next

\* Every number that ID counted is in a list, or was lost to an exception or
\* to a later row of the same path; merging loses none.
THEOREM IdsNotLost == Spec => []IdsAccounted
<1>1. Init => ShapeInv /\ IdsAccounted
  BY TemplateAssumption
  DEF Init, ShapeInv, TypeOK, DataShape, RowShape, BetweenRows, IdsAccounted, issued
<1>2. ShapeInv /\ IdsAccounted /\ [Next]_vars => (ShapeInv /\ IdsAccounted)'
  BY ShapeStep, AccountStep
<1> QED
  BY <1>1, <1>2, PTL DEF Spec

-----------------------------------------------------------------------------
(* A list that is returned is whole. The leaves of the call are kept apart *)
(* from those of earlier calls by its number, and those of the document    *)
(* from the finished ones by J.                                            *)

\* The documents of the call that are finished.
Finished == IF pc = "doc" THEN J ELSE J - 1

\* The rows of the current document that are merged.
Merged == IF pc = "row" THEN row ELSE row - 1

OfCall ==
  /\ \A x \in l \cup data \cup partial : x.call = call
  /\ \A x \in l : x.doc \in 1 .. Finished
  /\ \A x \in data \cup partial : x.doc = J
  /\ pc = "idle" => l = {}

Progress ==
  /\ pc # "idle" => J <= bulk_size /\ call >= 1
  /\ pc \in {"row", "eval"} => J >= 1 /\ row <= Len(Rows)

\* Numbers of earlier calls.
Earlier ==
  /\ \A c \in returned : c.call \in 1 .. call /\ (pc # "idle" => c.call < call)
  /\ \A x \in delivered : x.call \in 1 .. call /\ (pc # "idle" => x.call < call)

\* Each path has a value: in the finished documents, in the current one as
\* far as its rows are merged.
Covered ==
  /\ pc # "idle" =>
       \A d \in 1 .. Finished, r \in DOMAIN Rows :
         \E x \in l : x.doc = d /\ Rows[x.row].path = Rows[r].path
  /\ pc \in {"row", "eval"} =>
       \A r \in 1 .. Merged : \E x \in data : Rows[x.row].path = Rows[r].path

WholeInv == OfCall /\ Progress /\ Earlier /\ Covered /\ Whole

\* A row has at least one element, whatever lists are on its path.
LEMMA SomeElement ==
  ASSUME NEW p \in Seq(Segment), NEW c \in [Segments -> Nat], Drawn(p, c)
  PROVE  Elements(p, c) # {}
<1>1. /\ {} \in SUBSET Lists(p) /\ Slices(p, c, {}) = Grid(p, c, {})
  BY Projection
<1>2. [i \in {} |-> 0] \in Grid(p, c, {})
  BY DEF Grid
<1> QED
  BY <1>1, <1>2 DEF Slices

\* Nothing that Whole looks at has changed, or a list was returned.
LEMMA StillWhole ==
  ASSUME WholeInv, UNCHANGED <<returned, delivered>>
  PROVE  Whole'
BY DEF WholeInv, Whole

LEMMA RaiseWhole == WholeInv /\ ShapeInv /\ Raise => WholeInv'
<1> SUFFICES ASSUME WholeInv, ShapeInv, Raise PROVE WholeInv'
  OBVIOUS
<1> USE DEF Raise, globals, args
<1>1. OfCall' /\ Progress' /\ Covered'
  BY DEF OfCall, Progress, Covered
<1>2. Earlier'
  BY DEF WholeInv, Earlier
<1> QED
  BY <1>1, <1>2, StillWhole DEF WholeInv

LEMMA FetchWhole ==
  ASSUME WholeInv, ShapeInv, NEW m \in Models, NEW b \in BulkSizes, bulkFetch(m, b)
  PROVE  WholeInv'
<1> USE DEF bulkFetch, document, history, globals
<1>1. /\ data = {} /\ partial = {} /\ l = {} /\ pc = "idle" /\ call \in Nat /\ b \in Nat
      /\ pc' \in {"idle", "doc"} /\ J' = 0 /\ bulk_size' = b /\ call' = call + 1
      /\ UNCHANGED <<data, partial, l, returned, delivered>>
  BY TemplateAssumption DEF WholeInv, OfCall, ShapeInv, BetweenRows, TypeOK
<1>2. OfCall' /\ Progress' /\ Covered'
  BY <1>1 DEF OfCall, Progress, Covered, Finished
<1>3. Earlier'
  <2>1. \A c \in returned : c.call \in 1 .. call
    BY DEF WholeInv, Earlier
  <2>2. \A x \in delivered : x.call \in 1 .. call
    BY DEF WholeInv, Earlier
  <2> QED
    BY <1>1, <2>1, <2>2 DEF Earlier
<1> QED
  BY <1>1, <1>2, <1>3, StillWhole DEF WholeInv

\* The steps of a call that neither end a document nor merge a row.
LEMMA DrawWhole ==
  ASSUME WholeInv, ShapeInv, StartDoc \/ procpath \/ Eval, ~Raise
  PROVE  WholeInv'
<1> USE DEF document, history, globals, args
<1>1. /\ UNCHANGED <<call, model, bulk_size, l, data, returned, delivered>>
      /\ pc \in {"doc", "row", "eval"} /\ pc' \in {"row", "eval"}
      /\ call \in Nat /\ J \in Nat /\ row \in Nat /\ bulk_size \in Nat /\ Len(Rows) \in Nat
  <2>1. pc # "idle" => Rows \in Seq(Row)
    BY TemplateAssumption DEF ShapeInv, TypeOK, Rows
  <2>2. call \in Nat /\ J \in Nat /\ row \in Nat /\ bulk_size \in Nat
    BY DEF ShapeInv, TypeOK
  <2>3. CASE StartDoc
    BY <2>1, <2>2, <2>3 DEF StartDoc
  <2>4. CASE procpath
    <3>1. /\ UNCHANGED <<call, model, bulk_size, l, data, returned, delivered>>
          /\ pc = "row" /\ pc' = "eval"
      BY <2>4 DEF procpath
    <3> QED
      BY <2>1, <2>2, <3>1
  <2>5. CASE Eval
    BY <2>1, <2>2, <2>5 DEF Eval
  <2> QED
    BY <2>3, <2>4, <2>5
<1>2. Rows' = Rows
  BY <1>1 DEF Rows
<1>3. CASE StartDoc
  <2>1. /\ pc = "doc" /\ J < bulk_size /\ J' = J + 1 /\ row' = 0 /\ pc' = "row"
        /\ data = {} /\ partial' = {}
    BY <1>3 DEF StartDoc, ShapeInv, BetweenRows
  <2>2. Finished' = Finished
    BY <1>1, <2>1 DEF Finished
  <2>3. OfCall'
    BY <1>1, <2>1, <2>2 DEF WholeInv, OfCall
  <2>4. Progress'
    BY <1>1, <1>2, <2>1 DEF WholeInv, Progress
  <2>5. Covered'
    BY <1>1, <1>2, <2>1, <2>2 DEF WholeInv, Covered, Merged
  <2> QED
    BY <1>1, <2>1, <2>3, <2>4, <2>5, StillWhole DEF WholeInv, Earlier
<1>4. CASE procpath
  <2>1. /\ pc = "row" /\ row < Len(Rows) /\ J' = J /\ row' = row + 1 /\ pc' = "eval"
        /\ partial' = partial
    BY <1>4 DEF procpath
  <2>2. Finished' = Finished /\ Merged' = Merged
    BY <1>1, <2>1 DEF Finished, Merged
  <2>3. OfCall'
    BY <1>1, <2>1, <2>2 DEF WholeInv, OfCall
  <2>4. Progress'
    BY <1>1, <1>2, <2>1 DEF WholeInv, Progress
  <2>5. Covered'
    BY <1>1, <1>2, <2>1, <2>2 DEF WholeInv, Covered
  <2> QED
    BY <1>1, <2>1, <2>3, <2>4, <2>5, StillWhole DEF WholeInv, Earlier
<1>5. CASE Eval
  <2>1. /\ pc = "eval" /\ UNCHANGED <<J, row, pc>>
        /\ \E leaf : leaf.call = call /\ leaf.doc = J /\ partial' = partial \cup {leaf}
    BY <1>5 DEF Eval, Leaf
  <2>2. Finished' = Finished /\ Merged' = Merged
    BY <2>1 DEF Finished, Merged
  <2>3. OfCall'
    BY <1>1, <2>1, <2>2 DEF WholeInv, OfCall
  <2>4. Progress' /\ Covered'
    BY <1>1, <1>2, <2>1, <2>2 DEF WholeInv, Progress, Covered
  <2> QED
    BY <1>1, <2>1, <2>3, <2>4, StillWhole DEF WholeInv, Earlier
<1> QED
  BY <1>3, <1>4, <1>5

LEMMA RowHasLeaf ==
  ASSUME ShapeInv, pc = "eval", pending = {}
  PROVE  \E y \in partial : y.row = row
<1>1. Rows \in Seq(Row) /\ row \in 1 .. Len(Rows)
  BY TemplateAssumption DEF ShapeInv, TypeOK, Rows
<1>2. Path(row) \in Seq(Segment)
  <2>1. Rows[row] \in Row
    BY <1>1
  <2> QED
    BY <2>1 DEF Row, Path
<1>3. Elements(Path(row), counts) # {}
  BY <1>2, SomeElement DEF ShapeInv, RowShape, TypeOK
<1> QED
  BY <1>3 DEF ShapeInv, RowShape, ElementsOf

\* A merge covers the path of its row, and of every row it overrides.
LEMMA MergeWhole ==
  ASSUME WholeInv, ShapeInv, merge, ~Raise
  PROVE  WholeInv'
<1> USE DEF globals, args
<1>1. /\ data' = (data \ Overridden) \cup partial
      /\ partial' = {} /\ pc = "eval" /\ pc' = "row" /\ pending = {}
      /\ UNCHANGED <<call, model, bulk_size, J, row, l, returned, delivered>>
  BY MergeKeepsAll DEF merge
<1>2. Rows' = Rows
  BY <1>1 DEF Rows
<1>3. Rows \in Seq(Row) /\ row \in 1 .. Len(Rows)
  BY <1>1, TemplateAssumption DEF ShapeInv, TypeOK, Rows
<1>4. \E y \in partial : y.row = row
  BY <1>1, RowHasLeaf
<1>5. ASSUME NEW r \in 1 .. row
      PROVE  \E x \in data' : Rows[x.row].path = Rows[r].path
  <2>1. CASE Rows[r].path = Rows[row].path
    BY <1>1, <1>4, <2>1
  <2>2. CASE Rows[r].path # Rows[row].path
    <3>1. r \in 1 .. row - 1
      BY <1>3, <2>2
    <3>2. PICK x \in data : Rows[x.row].path = Rows[r].path
      BY <1>1, <3>1 DEF WholeInv, Covered, Merged
    <3>3. x \notin Overridden
      BY <2>2, <3>2 DEF Overridden, Path
    <3> QED
      BY <1>1, <3>2, <3>3
  <2> QED
    BY <2>1, <2>2
<1>6. Finished' = Finished
  BY <1>1 DEF Finished
<1>7. OfCall'
  BY <1>1, <1>6 DEF WholeInv, OfCall
<1>8. Progress'
  BY <1>1, <1>2 DEF WholeInv, Progress
<1>9. Covered'
  BY <1>1, <1>2, <1>5, <1>6 DEF WholeInv, Covered, Merged
<1> QED
  BY <1>1, <1>7, <1>8, <1>9, StillWhole DEF WholeInv, Earlier

\* The document that is appended has a value for every path.
LEMMA AppendWhole ==
  ASSUME WholeInv, ShapeInv, AppendDoc
  PROVE  WholeInv'
<1> USE DEF globals, args, history
<1>1. /\ l' = l \cup data /\ data' = {} /\ partial = {} /\ partial' = {}
      /\ pc = "row" /\ pc' = "doc" /\ row = Len(Rows)
      /\ UNCHANGED <<call, model, bulk_size, J, row, returned, delivered>>
  BY DEF AppendDoc, ShapeInv, BetweenRows
<1>2. Rows' = Rows /\ Rows \in Seq(Row) /\ J \in Nat /\ J >= 1 /\ J <= bulk_size
  BY <1>1, TemplateAssumption DEF ShapeInv, TypeOK, Rows, WholeInv, Progress
<1>3. Finished = J - 1 /\ Finished' = J
  BY <1>1 DEF Finished
<1>4. OfCall'
  BY <1>1, <1>2, <1>3 DEF WholeInv, OfCall
<1>5. Progress'
  BY <1>1, <1>2 DEF WholeInv, Progress
<1>6. ASSUME NEW d \in 1 .. J, NEW r \in DOMAIN Rows
      PROVE  \E x \in l' : x.doc = d /\ Rows[x.row].path = Rows[r].path
  <2>1. CASE d = J
    <3>1. r \in 1 .. Merged
      BY <1>1, <1>2 DEF Merged
    <3>2. \E x \in data : Rows[x.row].path = Rows[r].path
      BY <1>1, <3>1 DEF WholeInv, Covered
    <3> QED
      BY <1>1, <2>1, <3>2 DEF WholeInv, OfCall
  <2>2. CASE d # J
    <3>1. d \in 1 .. Finished
      BY <1>2, <1>3, <2>2
    <3> QED
      BY <1>1, <3>1 DEF WholeInv, Covered
  <2> QED
    BY <2>1, <2>2
<1>7. Covered'
  BY <1>1, <1>2, <1>3, <1>6 DEF Covered
<1> QED
  BY <1>1, <1>4, <1>5, <1>7, StillWhole DEF WholeInv, Earlier

\* So has each of the bulk_size documents of the list that is returned.
LEMMA ReturnWhole ==
  ASSUME WholeInv, ShapeInv, Return
  PROVE  WholeInv'
<1> USE DEF globals, args, document
<1> DEFINE new == [call |-> call, model |-> model, bulk_size |-> bulk_size]
<1>1. /\ returned' = returned \cup {new} /\ delivered' = delivered \cup l
      /\ l' = {} /\ data = {} /\ data' = {} /\ partial = {} /\ partial' = {}
      /\ pc = "doc" /\ pc' = "idle" /\ J = bulk_size
      /\ UNCHANGED <<call, model, bulk_size, J>>
  BY DEF Return, ShapeInv, BetweenRows
<1>2. /\ new.call = call /\ new.model = model /\ new.bulk_size = bulk_size
      /\ call \in Nat /\ J \in Nat
  BY DEF ShapeInv, TypeOK
<1> HIDE DEF new
<1>3. Finished = J /\ Rows = Template[model]
  BY <1>1 DEF Finished, Rows
<1>4. /\ \A x \in l : x.call = call /\ x.doc \in 1 .. J
      /\ \A c \in returned : c.call \in 1 .. call /\ c.call < call
      /\ \A x \in delivered : x.call \in 1 .. call /\ x.call < call
  BY <1>1, <1>3 DEF WholeInv, OfCall, Earlier
<1>5. OfCall' /\ Progress' /\ Covered'
  BY <1>1 DEF OfCall, Progress, Covered
<1>6. call >= 1
  BY <1>1 DEF WholeInv, Progress
<1>7. Earlier'
  BY <1>1, <1>2, <1>4, <1>6 DEF Earlier
<1>8. ASSUME NEW c \in returned'
      PROVE  LET T == Template[c.model]
                 mine == {x \in delivered' : x.call = c.call}
             IN /\ {x.doc : x \in mine} \subseteq 1 .. c.bulk_size
                /\ \A d \in 1 .. c.bulk_size, r \in DOMAIN T :
                     \E x \in mine : x.doc = d /\ T[x.row].path = T[r].path
  <2>1. CASE c = new
    <3>1. {x \in delivered' : x.call = c.call} = l
      BY <1>1, <1>2, <1>4, <2>1
    <3>2. \A d \in 1 .. J, r \in DOMAIN Rows :
            \E x \in l : x.doc = d /\ Rows[x.row].path = Rows[r].path
      BY <1>1, <1>3 DEF WholeInv, Covered
    <3> QED
      BY <1>1, <1>2, <1>3, <1>4, <2>1, <3>1, <3>2
  <2>2. CASE c # new
    <3>1. c \in returned /\ c.call < call /\ c.call \in Nat
      BY <1>1, <1>4, <2>2
    <3>2. {x \in delivered' : x.call = c.call} = {x \in delivered : x.call = c.call}
      BY <1>1, <1>2, <1>4, <3>1
    <3> QED
      BY <3>1, <3>2 DEF WholeInv, Whole
  <2> QED
    BY <2>1, <2>2
<1>9. Whole'
  BY <1>8 DEF Whole
<1> QED
  BY <1>5, <1>7, <1>9 DEF WholeInv

LEMMA WholeStep ==
  ASSUME WholeInv, ShapeInv, [Next]_vars
  PROVE  WholeInv'
<1>1. CASE UNCHANGED vars
  <2>1. UNCHANGED <<pc, call, model, bulk_size, J, row, partial, data, l, returned, delivered>>
    BY <1>1 DEF vars, args, document, history
  <2> QED
    BY <2>1, StillWhole
    DEF WholeInv, OfCall, Progress, Earlier, Covered, Finished, Merged, Rows
<1> QED
  BY <1>1, FetchWhole, RaiseWhole, DrawWhole, MergeWhole, AppendWhole, ReturnWhole DEF Next

\* A list that bulkFetch returns has bulk_size documents, each with a value for
\* every path of its template, whatever was merged, overridden or raised before.
THEOREM WholeHolds == Spec => []Whole
<1>1. Init => ShapeInv /\ WholeInv
  <2> SUFFICES ASSUME Init PROVE ShapeInv /\ WholeInv
    OBVIOUS
  <2>1. ShapeInv
    BY TemplateAssumption
    DEF Init, ShapeInv, TypeOK, DataShape, RowShape, BetweenRows
  <2>2. WholeInv
    BY DEF Init, WholeInv, OfCall, Progress, Earlier, Covered, Whole
  <2> QED
    BY <2>1, <2>2
<1>2. ShapeInv /\ WholeInv /\ [Next]_vars => (ShapeInv /\ WholeInv)'
  BY ShapeStep, WholeStep
<1>3. WholeInv => Whole
  BY DEF WholeInv
<1> QED
  BY <1>1, <1>2, <1>3, PTL DEF Spec

-----------------------------------------------------------------------------
(* The lengths that setArraySize allows. The first row of a document with  *)
(* a list draws its length, when maxArraySize is what the last             *)
(* setArraySize before that row made it.                                   *)

Names(r) == {Path(r)[i].name : i \in Lists(Path(r))}
FirstWith(f, s) == s \in Names(f) /\ \A r \in 1 .. f - 1 : s \notin Names(r)
Sets(r) == Rows[r].gen.op = "setArraySize"
LastBefore(q, f) == Sets(q) /\ \A r \in q + 1 .. f - 1 : ~Sets(r)
Allowed(f, n) == \A q \in 1 .. f - 1 : LastBefore(q, f) => n <= Rows[q].gen.size

\* maxArraySize is what the rows of this document that were evaluated made it.
CurrentSize ==
  /\ pc = "row" =>
       \A q \in 1 .. row : LastBefore(q, row + 1) => maxArraySize = Rows[q].gen.size
  /\ pc = "eval" =>
       /\ (partial = {} \/ ~Sets(row)) =>
            \A q \in 1 .. row - 1 : LastBefore(q, row) => maxArraySize = Rows[q].gen.size
       /\ Sets(row) /\ partial # {} => maxArraySize = Rows[row].gen.size

\* A list has a length from the first row of the document that has it on.
DrawnFirst ==
  pc \in {"row", "eval"} =>
    \A s \in Segments :
      /\ counts[s] # 0 => \E f \in 1 .. row : FirstWith(f, s) /\ Allowed(f, counts[s])
      /\ counts[s] = 0 => \A r \in 1 .. row : s \notin Names(r)

\* The finished documents of the call keep it.
Bounded(x) ==
  /\ x.row \in 1 .. Len(Rows)
  /\ \A i \in Lists(Path(x.row)) :
       \E f \in 1 .. x.row : FirstWith(f, Path(x.row)[i].name) /\ Allowed(f, x.at[i])

SizeInv == /\ CurrentSize /\ DrawnFirst
           /\ \A x \in l : Bounded(x)
           /\ pc = "idle" => l = {}

LEMMA FirstIsOne ==
  ASSUME NEW f \in Nat, NEW g \in Nat, NEW s, f >= 1, g >= 1, FirstWith(f, s), FirstWith(g, s)
  PROVE  f = g
BY DEF FirstWith

LEMMA NameIsSegment ==
  ASSUME TypeOK, pc # "idle", NEW r \in 1 .. Len(Rows)
  PROVE  /\ Path(r) \in Seq(Segment) /\ Rows[r] \in Row
         /\ \A i \in Lists(Path(r)) : Path(r)[i].name \in Segments
<1>1. Rows[r] \in Row
  BY TemplateAssumption DEF TypeOK, Rows
<1>2. Path(r) \in Seq(Segment)
  BY <1>1 DEF Row, Path
<1>3. \A i \in Lists(Path(r)) : Path(r)[i] \in Segment
  BY <1>2 DEF Lists
<1> QED
  BY <1>1, <1>2, <1>3 DEF Segment

\* What DrawnFirst says of a leaf of the document or of the row in hand.
LEMMA LeafBounded ==
  ASSUME ShapeInv, SizeInv, pc \in {"row", "eval"}, NEW x,
         x.row \in 1 .. Len(Rows), Drawn(Path(x.row), counts),
         x.at \in Elements(Path(x.row), counts)
  PROVE  Bounded(x)
<1> SUFFICES ASSUME NEW i \in Lists(Path(x.row))
             PROVE  \E f \in 1 .. x.row :
                      FirstWith(f, Path(x.row)[i].name) /\ Allowed(f, x.at[i])
  BY DEF Bounded
<1> DEFINE s == Path(x.row)[i].name
<1>1. row \in Nat /\ Len(Rows) \in Nat /\ Rows \in Seq(Row)
  BY TemplateAssumption DEF ShapeInv, TypeOK, Rows
<1>2. s \in Segments /\ s \in Names(x.row)
  BY NameIsSegment DEF ShapeInv, Names
<1>3. x.at[i] \in 1 .. counts[s]
  BY DEF Elements
<1>4. counts[s] \in Nat /\ counts[s] # 0 /\ x.at[i] \in Nat /\ x.at[i] <= counts[s]
  <2>1. counts[s] \in Nat
    BY <1>2 DEF ShapeInv, TypeOK
  <2> HIDE DEF s
  <2> QED
    BY <1>3, <2>1
<1> HIDE DEF s
<1>5. PICK f \in 1 .. row : FirstWith(f, s) /\ Allowed(f, counts[s])
  BY <1>2, <1>4 DEF SizeInv, DrawnFirst
<1>6. f <= x.row
  <2>1. f > x.row => x.row \in 1 .. f - 1
    BY <1>1, <1>5
  <2> QED
    BY <1>1, <1>2, <1>5, <2>1 DEF FirstWith
<1>7. Allowed(f, x.at[i])
  <2> SUFFICES ASSUME NEW q \in 1 .. f - 1, LastBefore(q, f)
               PROVE  x.at[i] <= Rows[q].gen.size
    BY DEF Allowed
  <2>1. q \in 1 .. Len(Rows) /\ Sets(q) /\ counts[s] <= Rows[q].gen.size
    BY <1>1, <1>5, <1>6 DEF Allowed, LastBefore
  <2>2. Rows[q].gen.size \in Nat
    <3>1. Rows[q] \in Row
      BY <1>1, <2>1
    <3> QED
      BY <2>1, <3>1 DEF Row, Generator, Sets
  <2> QED
    BY <1>4, <2>1, <2>2
<1> QED
  BY <1>1, <1>5, <1>6, <1>7 DEF s

\* A document as it is, with the row in hand, keeps to the sizes.
LEMMA DocumentBounded ==
  ASSUME ShapeInv, SizeInv
  PROVE  \A x \in l \cup data \cup partial : Bounded(x)
<1>1. ASSUME NEW x \in data PROVE Bounded(x)
  <2>1. pc \in {"row", "eval"}
    BY DEF ShapeInv, BetweenRows, TypeOK
  <2>2. /\ Drawn(Path(x.row), counts) /\ ElementsOf(data, x.row) = Elements(Path(x.row), counts)
        /\ x.at \in ElementsOf(data, x.row) /\ x.row \in 1 .. Len(Rows)
    BY DEF ShapeInv, DataShape, ElementsOf
  <2> QED
    BY <2>1, <2>2, LeafBounded
<1>2. ASSUME NEW x \in partial PROVE Bounded(x)
  <2>1. pc = "eval" /\ x.row = row /\ row \in 1 .. Len(Rows)
    BY DEF ShapeInv, BetweenRows, RowShape, TypeOK
  <2>2. Drawn(Path(x.row), counts) /\ x.at \in Elements(Path(x.row), counts)
    BY <2>1 DEF ShapeInv, RowShape, ElementsOf
  <2> QED
    BY <2>1, <2>2, LeafBounded
<1> QED
  BY <1>1, <1>2 DEF SizeInv

\* So no list is longer than the sizes allow.
LEMMA SizesKept == ShapeInv /\ SizeInv => CurrArraySize
<1> SUFFICES ASSUME ShapeInv, SizeInv, NEW x \in l \cup data \cup partial,
                    NEW i \in Lists(Path(x.row))
             PROVE  LET name == Path(x.row)[i].name
                        has(r) == \E j \in Lists(Path(r)) : Path(r)[j].name = name
                        sets(r) == Rows[r].gen.op = "setArraySize"
                        first == CHOOSE f \in 1 .. x.row :
                                   has(f) /\ \A r \in 1 .. f - 1 : ~has(r)
                    IN \A q \in 1 .. first - 1 :
                         sets(q) /\ (\A r \in q + 1 .. first - 1 : ~sets(r))
                           => x.at[i] <= Rows[q].gen.size
  BY DEF CurrArraySize
<1> DEFINE name == Path(x.row)[i].name
           has(r) == \E j \in Lists(Path(r)) : Path(r)[j].name = name
           first == CHOOSE f \in 1 .. x.row : has(f) /\ \A r \in 1 .. f - 1 : ~has(r)
<1>1. /\ Bounded(x) /\ x.row \in Nat
  <2>1. Bounded(x)
    BY DocumentBounded
  <2> QED
    BY <2>1 DEF Bounded
<1>2. PICK f \in 1 .. x.row : FirstWith(f, name) /\ Allowed(f, x.at[i])
  BY <1>1 DEF Bounded
<1>3. \A r : has(r) <=> name \in Names(r)
  BY DEF Names
<1> HIDE DEF name, has
<1>4. \A g \in 1 .. x.row : has(g) /\ (\A r \in 1 .. g - 1 : ~has(r)) <=> g = f
  <2>1. ASSUME NEW g \in 1 .. x.row, has(g), \A r \in 1 .. g - 1 : ~has(r) PROVE g = f
    <3>1. FirstWith(g, name)
      BY <1>3, <2>1 DEF FirstWith
    <3> QED
      BY <1>1, <1>2, <3>1, FirstIsOne
  <2>2. has(f) /\ \A r \in 1 .. f - 1 : ~has(r)
    BY <1>2, <1>3 DEF FirstWith
  <2> QED
    BY <2>1, <2>2
<1>5. first = f
  BY <1>4
<1> HIDE DEF first
<1>6. \A q \in 1 .. first - 1 :
        Sets(q) /\ (\A r \in q + 1 .. first - 1 : ~Sets(r)) => x.at[i] <= Rows[q].gen.size
  BY <1>2, <1>5 DEF Allowed, LastBefore
<1> QED
  BY <1>6 DEF Sets, first, has, name

\* A row draws the lengths of the lists that the document does not have yet.
LEMMA DrawSizes ==
  ASSUME ShapeInv, SizeInv, procpath, ~Raise
  PROVE  CurrentSize' /\ DrawnFirst'
<1> USE DEF globals, args, history
<1> DEFINE p == Path(row + 1)
           new == {p[i].name : i \in {j \in Lists(p) : counts[p[j].name] = 0}}
<1>1. PICK drawn \in [new -> 1 .. maxArraySize] :
        /\ counts' = [s \in Segments |-> IF s \in new THEN drawn[s] ELSE counts[s]]
        /\ row' = row + 1 /\ pc' = "eval" /\ UNCHANGED <<model, maxArraySize, partial>>
  BY DEF procpath
<1>2. /\ pc = "row" /\ row + 1 \in 1 .. Len(Rows) /\ Rows \in Seq(Row) /\ row \in Nat
      /\ maxArraySize \in Nat /\ counts \in [Segments -> Nat] /\ partial = {}
  BY TemplateAssumption DEF ShapeInv, TypeOK, BetweenRows, procpath, Rows
<1>3. Rows' = Rows /\ \A r : Path(r)' = Path(r)
  BY <1>1 DEF Rows, Path
<1>4. /\ \A r : Names(r)' = Names(r)
      /\ \A f, s : FirstWith(f, s)' <=> FirstWith(f, s)
      /\ \A q, f : LastBefore(q, f)' <=> LastBefore(q, f)
      /\ \A f, n : Allowed(f, n)' <=> Allowed(f, n)
  BY <1>3 DEF Names, FirstWith, LastBefore, Allowed, Sets
<1>5. \A q \in 1 .. row : LastBefore(q, row + 1) => maxArraySize = Rows[q].gen.size
  BY <1>2 DEF SizeInv, CurrentSize
<1>6. CurrentSize'
  BY <1>1, <1>2, <1>3, <1>5 DEF CurrentSize, LastBefore, Sets
<1>7. \A s \in Segments : s \in new <=> s \in Names(row + 1) /\ counts[s] = 0
  BY DEF Names
<1>8. ASSUME NEW s \in Segments
      PROVE  /\ counts'[s] # 0 =>
                  \E f \in 1 .. row + 1 : FirstWith(f, s) /\ Allowed(f, counts'[s])
             /\ counts'[s] = 0 => \A r \in 1 .. row + 1 : s \notin Names(r)
  <2>0. /\ counts[s] # 0 => \E f \in 1 .. row : FirstWith(f, s) /\ Allowed(f, counts[s])
        /\ counts[s] = 0 => \A r \in 1 .. row : s \notin Names(r)
    BY <1>2 DEF SizeInv, DrawnFirst
  <2>1. CASE s \in new
    <3>1. counts'[s] \in 1 .. maxArraySize
      BY <1>1, <2>1
    <3>2. FirstWith(row + 1, s)
      BY <1>2, <1>7, <2>0, <2>1 DEF FirstWith
    <3>3. ASSUME NEW q \in 1 .. row, LastBefore(q, row + 1)
          PROVE  counts'[s] <= Rows[q].gen.size
      BY <1>2, <1>5, <3>1, <3>3
    <3>4. Allowed(row + 1, counts'[s])
      BY <1>2, <3>3 DEF Allowed
    <3> QED
      BY <1>2, <3>1, <3>2, <3>4
  <2>2. CASE s \notin new
    <3>1. counts'[s] = counts[s]
      BY <1>1, <2>2
    <3>2. CASE counts[s] # 0
      BY <1>2, <2>0, <3>1, <3>2
    <3>3. CASE counts[s] = 0
      <4>1. s \notin Names(row + 1)
        BY <1>7, <2>2, <3>3
      <4> QED
        BY <1>2, <2>0, <3>1, <3>3, <4>1
    <3> QED
      BY <3>2, <3>3
  <2> QED
    BY <2>1, <2>2
<1>9. DrawnFirst'
  BY <1>1, <1>4, <1>8 DEF DrawnFirst
<1> QED
  BY <1>6, <1>9

\* An expression changes what the rows to come may draw.
LEMMA EvalSizes ==
  ASSUME ShapeInv, SizeInv, Eval, ~Raise
  PROVE  CurrentSize' /\ DrawnFirst'
<1> USE DEF globals, args, history
<1>1. /\ pc = "eval" /\ pc' = "eval" /\ UNCHANGED <<model, row, counts>> /\ partial' # {}
      /\ maxArraySize' = IF Sets(row) THEN Rows[row].gen.size ELSE maxArraySize
  BY DEF Eval, NewArraySize, Sets
<1>2. Rows' = Rows /\ \A r : Path(r)' = Path(r)
  BY <1>1 DEF Rows, Path
<1>3. CurrentSize'
  BY <1>1, <1>2 DEF SizeInv, CurrentSize, LastBefore, Sets
<1>4. DrawnFirst'
  BY <1>1, <1>2 DEF SizeInv, DrawnFirst, FirstWith, Names, Allowed, LastBefore, Sets
<1> QED
  BY <1>3, <1>4

\* A row that is merged was evaluated at least once.
LEMMA MergeSizes ==
  ASSUME ShapeInv, SizeInv, merge, ~Raise
  PROVE  CurrentSize' /\ DrawnFirst'
<1> USE DEF globals, args
<1>1. /\ pc = "eval" /\ pc' = "row" /\ pending = {}
      /\ UNCHANGED <<model, row, counts, maxArraySize>>
  BY MergeKeepsAll DEF merge
<1>2. Rows' = Rows /\ \A r : Path(r)' = Path(r)
  BY <1>1 DEF Rows, Path
<1>3. row \in Nat /\ row >= 1 /\ partial # {}
  BY <1>1, RowHasLeaf DEF ShapeInv, TypeOK
<1>4. ASSUME NEW q \in 1 .. row, LastBefore(q, row + 1)
      PROVE  maxArraySize = Rows[q].gen.size
  <2>1. CASE q = row
    BY <1>1, <1>3, <1>4, <2>1 DEF SizeInv, CurrentSize, LastBefore
  <2>2. CASE q # row
    <3>1. q \in 1 .. row - 1 /\ ~Sets(row) /\ LastBefore(q, row)
      BY <1>3, <1>4, <2>2 DEF LastBefore
    <3> QED
      BY <1>1, <3>1 DEF SizeInv, CurrentSize
  <2> QED
    BY <2>1, <2>2
<1>5. CurrentSize'
  BY <1>1, <1>2, <1>4 DEF CurrentSize, LastBefore, Sets
<1>6. DrawnFirst'
  BY <1>1, <1>2 DEF SizeInv, DrawnFirst, FirstWith, Names, Allowed, LastBefore, Sets
<1> QED
  BY <1>5, <1>6

\* The documents of a list keep to the sizes while the template is the same.
LEMMA SameBounded ==
  ASSUME UNCHANGED model, NEW x, Bounded(x)
  PROVE  Bounded(x)'
<1>1. Rows' = Rows /\ \A r : Path(r)' = Path(r)
  BY DEF Rows, Path
<1>2. /\ \A f, s : FirstWith(f, s)' <=> FirstWith(f, s)
      /\ \A f, n : Allowed(f, n)' <=> Allowed(f, n)
  BY <1>1 DEF FirstWith, Names, Allowed, LastBefore, Sets
<1> QED
  BY <1>1, <1>2 DEF Bounded

LEMMA SizeStep ==
  ASSUME ShapeInv, SizeInv, [Next]_vars
  PROVE  SizeInv'
<1> USE DEF globals, args, document, history
<1>1. ASSUME NEW m \in Models, NEW b \in BulkSizes, bulkFetch(m, b)
      PROVE  SizeInv'
  BY <1>1 DEF SizeInv, bulkFetch, CurrentSize, DrawnFirst
<1>2. Raise => SizeInv'
  BY DEF Raise, SizeInv, CurrentSize, DrawnFirst
<1>3. CASE StartDoc
  <2>1. /\ pc' = "row" /\ row' = 0 /\ counts' = [s \in Segments |-> 0]
        /\ UNCHANGED <<model, l>>
    BY <1>3 DEF StartDoc
  <2>2. CurrentSize' /\ DrawnFirst'
    BY <2>1 DEF CurrentSize, DrawnFirst
  <2> QED
    BY <2>1, <2>2, SameBounded DEF SizeInv
<1>4. CASE (procpath \/ Eval) /\ ~Raise
  <2>1. UNCHANGED <<model, l>> /\ pc' # "idle"
    BY <1>4 DEF procpath, Eval
  <2> QED
    BY <1>4, <2>1, DrawSizes, EvalSizes, SameBounded DEF SizeInv
<1>5. CASE merge /\ ~Raise
  <2>1. UNCHANGED <<model, l>> /\ pc' # "idle"
    BY <1>5, MergeKeepsAll DEF merge
  <2> QED
    BY <1>5, <2>1, MergeSizes, SameBounded DEF SizeInv
<1>6. CASE AppendDoc
  <2>1. l' = l \cup data /\ pc' = "doc" /\ UNCHANGED model
    BY <1>6 DEF AppendDoc
  <2> QED
    BY <2>1, DocumentBounded, SameBounded DEF SizeInv, CurrentSize, DrawnFirst
<1>7. CASE Return
  BY <1>7 DEF Return, SizeInv, CurrentSize, DrawnFirst
<1>8. CASE UNCHANGED vars
  <2>1. UNCHANGED <<pc, model, row, counts, partial, maxArraySize, l>>
    BY <1>8 DEF vars
  <2>2. CurrentSize' /\ DrawnFirst'
    BY <2>1 DEF SizeInv, CurrentSize, DrawnFirst, FirstWith, Names, Allowed,
                LastBefore, Sets, Path, Rows
  <2> QED
    BY <2>1, <2>2, SameBounded DEF SizeInv
<1> QED
  BY <1>1, <1>2, <1>3, <1>4, <1>5, <1>6, <1>7, <1>8 DEF Next

\* A list that appears first after a setArraySize in its document has at most
\* as many elements as it allowed, whatever ran in the documents before.
THEOREM CurrArraySizeHolds == Spec => []CurrArraySize
<1>1. Init => ShapeInv /\ SizeInv
  <2> SUFFICES ASSUME Init PROVE ShapeInv /\ SizeInv
    OBVIOUS
  <2>1. ShapeInv
    BY TemplateAssumption
    DEF Init, ShapeInv, TypeOK, DataShape, RowShape, BetweenRows
  <2>2. SizeInv
    BY DEF Init, SizeInv, CurrentSize, DrawnFirst
  <2> QED
    BY <2>1, <2>2
<1>2. ShapeInv /\ SizeInv /\ [Next]_vars => (ShapeInv /\ SizeInv)'
  BY ShapeStep, SizeStep
<1> QED
  BY <1>1, <1>2, SizesKept, PTL DEF Spec
=============================================================================
