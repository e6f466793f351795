SPECIFICATION Spec
CONSTANTS
  MaxRuns = 3
  MaxSignals = 3
  EarlySignals = FALSE
INVARIANTS
  StopIsClean
  FailuresAreAnnounced
PROPERTIES
  SignalStops
