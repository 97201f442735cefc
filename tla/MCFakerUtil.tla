----------------------------- MODULE MCFakerUtil -----------------------------
(* Small templates for TLC, with the constructs of models/*.csv. *)
EXTENDS FakerUtil

CONSTANTS
  reference,  \* lists of rows, elements and sizes as in _reference.csv
  leftover,   \* a list before the first setArraySize, a path given twice (as
              \* EffDt in member.csv)
  zero,       \* setArraySize(0) before a list
  faulty,     \* two rows of lists for one path, then one that raises
  missing,    \* a model that was not checked in
  a, b, x, y, id, size1, size2,  \* path segments
  M           \* the key of ID

Object(s) == [name |-> s, list |-> FALSE]
List(s) == [name |-> s, list |-> TRUE]
Given(path, gen) == [path |-> path, gen |-> gen]
ID(key) == [op |-> "ID", key |-> key]
setArraySize(n) == [op |-> "setArraySize", size |-> n]
fake == [op |-> "fake"]
list == [op |-> "list"]
raise == [op |-> "raise"]

MCModels == {reference, leftover, zero, faulty, missing}
MCTemplate == [m \in MCModels |->
  CASE m = reference ->
         << Given(<<Object(size1)>>, setArraySize(2)),
            Given(<<List(a), Object(x)>>, ID(M)),
            Given(<<Object(size2)>>, setArraySize(1)),
            Given(<<List(b), Object(x)>>, fake),
            Given(<<List(a), List(b), Object(y)>>, ID(M)) >>
    [] m = leftover ->
         << Given(<<List(b), List(a), Object(x)>>, ID(M)),
            Given(<<Object(size2)>>, setArraySize(1)),
            Given(<<List(b), Object(y)>>, ID(M)),
            Given(<<List(b), Object(y)>>, ID(M)) >>
    [] m = zero ->
         << Given(<<Object(id)>>, ID(M)),
            Given(<<Object(size1)>>, setArraySize(0)),
            Given(<<List(a), Object(x)>>, fake) >>
    [] m = faulty ->
         << Given(<<List(b), Object(y)>>, list),
            Given(<<List(b), Object(y)>>, list),
            Given(<<List(b), Object(id)>>, ID(M)),
            Given(<<Object(x)>>, raise) >>
    [] m = missing -> <<>> ]

MCSegments == {a, b, x, y, id, size1, size2}
=============================================================================
