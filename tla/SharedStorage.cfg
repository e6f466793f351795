SPECIFICATION Spec
CONSTANTS
  Archiver = {a1, a2}
  Restorer = {r1}
  NumNames = 3
  PageSize = 1
  DeleteMissingFails = FALSE
  FailureCommits = TRUE
  ExpiryDays = 2
  MaxStall = 1
  MaxSkew = 1
  MaxTime = 3
SYMMETRY Interchangeable
INVARIANTS
  TypeOK
  NewestSurvives
  RetentionComplete
  PickIsNewest
  MissingMeansNewer
PROPERTIES
  DeletedOnlyWhenNewer
CHECK_DEADLOCK FALSE
