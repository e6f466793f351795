SPECIFICATION Spec
CONSTANTS
  NumRecipients = 3
INVARIANTS
  ClearOnlyWithOverride
  NilMeansDelivered
PROPERTIES
  ReturnsClean
