\* Two coroutines at once on one symbol, orders executed in parts, every fault
\* of the requests.
SPECIFICATION FlattenSpec
CONSTANTS
  Symbols = {s1}
  Callers = {c1, c2}
  MaxSize = 2
  Attempts = 2
  Faults <- NoSkew
SYMMETRY Alike
INVARIANT
  FlatIsFlat
PROPERTIES
  ClosesOnlyShrink
  UnlocksClean
