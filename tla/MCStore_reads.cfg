SPECIFICATION Spec
CONSTANTS
  f1 = f1
  a1 = a1
  b1 = b1
  d1 = d1
  Threads = {r1, r2}
  Files = {f1}
  Slices = {a1, b1, d1}
  Typed = {d1}
  Requests = {{b1}, {a1, b1}, {d1}}
  Hashed = {f1}
  FileOf <- MCFileOf
  Cost <- MCCost
  Chunks <- MCChunks
  SliceBudget = 2
  TypedBudget = 2
  NoOne = NoOne
CHECK_DEADLOCK FALSE
INVARIANTS
  ReadsSound
PROPERTIES
  CloseEnds
