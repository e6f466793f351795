SPECIFICATION Spec
CONSTANTS
  MaxRuns = 2
  MaxSignals = 1
  EarlySignals = TRUE
INVARIANTS
  FailuresAreAnnounced
