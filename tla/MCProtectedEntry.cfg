\* The faults the code handles: API errors, lost requests and requests whose
\* answer is lost, on a LIMIT or MARKET entry that may fill in parts.
SPECIFICATION Spec
CONSTANTS
  Qty = 3
  MaxPosition = 5
  RecoveryAttempts = 4
  MarketFills <- AllOrNothing
  Rejects <- HandledRejects
  Lost <- Endpoints
  Applied <- HandledApplied
  AnswersBreak = FALSE
  Cancellable = FALSE
INVARIANTS
  RestsProtected
  ReportedEntryIsDead
  NoOrphanLegs
PROPERTIES
  ImplementsContract
  NakedIsTemporary
