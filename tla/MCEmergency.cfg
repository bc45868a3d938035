\* Emergencies of the cadence task, two callers and two successive runs.
SPECIFICATION Spec
CONSTANTS
  Symbols = {s1, s2}
  Clients = {c1, c2}
  Requests <- AllRequests
  Kinds <- Immediate
  Results <- AllResults
  RescueLimit = 1
  MaxRuns = 2
  CycleTimeouts = FALSE
INVARIANTS
  LockIsEffective
  NoTradingOverNaked
  FlattenSticks
SYMMETRY Symmetry
