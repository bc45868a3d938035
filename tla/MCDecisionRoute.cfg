\* Every adapter and both modes, two cycles and another job at the provider.
SPECIFICATION Spec
CONSTANTS
  Adapters = {"codex", "claude", "http", "local"}
  Callers = {"cycle", "job"}
  Tokens <- OddTokens
  MaxOrphans = 1
  Batches <- OneOrTwo
  Modes <- AllModes
  Readings <- FewReadings
  Advices <- FewAdvices
  Choices <- FewChoices
  MaxAttempts = 3
  MaxCycles = 2
INVARIANTS
  TokensRecorded
  ReplayMatchesDecision
  ShadowNeverTrades
  OneCallAtATime
  RowsCloseUnlessCut
PROPERTY
  ThresholdStops
CHECK_DEADLOCK FALSE
