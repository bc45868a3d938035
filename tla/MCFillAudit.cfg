\* A position of the past and one that is played, orders filled in parts.
SPECIFICATION Spec
CONSTANTS
  Rounds = 2
  Size = 2
  Backlog = 1
  Faults <- AllFaults
INVARIANTS
  RowsKeepUp
  FillsListedOnce
  PollFindsExits
PROPERTY
  PartialFillsFreeze
