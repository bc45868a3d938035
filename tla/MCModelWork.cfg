SPECIFICATION Spec
CONSTANTS
    Analyses = {1, 2}
    MaxBatch = 2
    Backtests = {"b"}
    Probes = {"p"}
    RunTimeouts = {"t1"}
    RequiresProbe = TRUE
    MaxSettings = 2
    MaxStarts = 3
    MaxBoots = 1
INVARIANTS
    LiveExcludesAdvice
    TimeoutsRestored
    RunMatchesProbe
    OpenWorkHasTask
