SPECIFICATION Spec
CONSTANTS
  MaxUpdates = 3
  MaxSignals = 2
INVARIANTS
  TypeOK
  RefusedTouchesNothing
  AtMostOneInDoubt
  ExitReleasesEverything
  SuccessIsEarned
PROPERTIES
  Terminates
  Delivery
