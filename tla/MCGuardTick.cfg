\* The guard over one position at a time, two openings, with stops of the
\* engine, crashes and failing requests.
SPECIFICATION Spec
CONSTANTS
  Prices <- PriceRange
  Tick = 1
  Entries <- OneEntry
  Risk = 1
  Lot = 4
  MaxOpenings = 2
  Faults <- HandledFaults
  Profiles <- TwoProfiles
  LiveProfile = 2
  Modes <- AllModes
  Targets <- OneTarget
  Step = 1
  MinQuantity = 2
  MaxMishaps = 1
INVARIANTS
  LostStopEscalates
  StopKeepsDistance
  SimulatedSalesInOrder
  StopOnlyTightens
