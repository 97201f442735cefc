\* Two calls, of any models and sizes: the second one finds the globals as
\* the first one left them.
CONSTANTS
  reference = reference  leftover = leftover  zero = zero
  faulty = faulty  missing = missing
  a = a  b = b  x = x  y = y  id = id  size1 = size1  size2 = size2
  M = M
  Models <- MCModels
  Template <- MCTemplate
  Missing = {missing}
  Segments <- MCSegments
  Keys = {M}
  BulkSizes = {0, 1, 2}
  DefaultArraySize = 2
  MaxCalls = 2
  None = None
SPECIFICATION Spec
CHECK_DEADLOCK FALSE
INVARIANTS UniqueIds IdsAccounted ZipEqual CurrArraySize Whole
