\* A task stops the run by itself while the other one places an order.
SPECIFICATION Spec
CONSTANTS
  Symbols = {s1, s2}
  Clients = {c1}
  Requests <- AllRequests
  Kinds <- AllKinds
  Results <- AllResults
  RescueLimit = 1
  MaxRuns = 1
  CycleTimeouts = FALSE
INVARIANTS
  FlattenSticks
