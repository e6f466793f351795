SPECIFICATION Spec
CONSTANTS
  NumBackends = 3
  Kind <- MCKind
  Older = {old}
  New = new
  NumDestinations = 2
  MaxSignals = 2
INVARIANTS
  TypeOK
  NewArchiveSurvives
  ReportFaithful
  ReturnReleasesEverything
  SuccessIsEarned
  OneVerdict
  EveryDestinationTried
PROPERTIES
  DeletionIsSafe
  Terminates
  Delivery
