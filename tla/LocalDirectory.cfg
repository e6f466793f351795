SPECIFICATION LocalSpec
CONSTANTS
  w1 = w1
  w2 = w2
  Writer = {w1, w2}
  Pruner = {w1, w2}
  Nobody = nobody
  Chunks = 2
  Name = {2, 3, 4}
  NameOf <- MCNameOf
  Watched = 2
  Restorer = {r1}
  Older = {3, 4}
INVARIANTS
  PartialsAreRemoved
  WalksAreSound
PROPERTIES
  Replaces
CHECK_DEADLOCK FALSE
