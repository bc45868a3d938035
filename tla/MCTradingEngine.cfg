\* Two API callers against a run whose orders never need an emergency, cycles may time out.
SPECIFICATION Spec
CONSTANTS
  Symbols = {s1, s2}
  Clients = {c1, c2}
  Requests <- StartsAndStops
  Kinds <- AllKinds
  Results <- SafeResults
  RescueLimit = 1
  MaxRuns = 1
  CycleTimeouts = TRUE
INVARIANTS
  StoppedIsQuiet
  NoStrayIntents
PROPERTIES
  AutoStopEnds
