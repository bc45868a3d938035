\* Every request may fail in every way and the task may be cancelled.
SPECIFICATION Spec
CONSTANTS
  Qty = 3
  MaxPosition = 5
  RecoveryAttempts = 3
  MarketFills <- AnyFill
  Rejects <- Endpoints
  Lost <- Endpoints
  Applied <- Endpoints
  AnswersBreak = TRUE
  Cancellable = TRUE
INVARIANTS
  SuccessIsBracketed
  RescueUndoes
PROPERTY
  OldBracketOutlivesEntry
