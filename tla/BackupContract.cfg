SPECIFICATION Spec
CONSTANTS
  Leaf <- MCLeaf
  Stamped <- MCStamped
  Dir <- MCDir
  Root = 0
  Prefix = 1
  Below <- MCBelow
  MaxTime = 4
  MaxObjects = 3
  Day = 1
INVARIANTS
  LatestIsNewest
  LookupNeverGuesses
  RetentionKeepsRestorable
