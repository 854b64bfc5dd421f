SPECIFICATION Spec
CONSTANTS
  Key = {k1, k2}
  Url = {u1}
  NoValue = NoValue
  TokenTTL = 1
  Lifetime = 3
  TokenMax = 2
  CacheMax = 2
  Polls = {1}
  Delays = {2}
  Resets = {3}
  MaxTime = 3
  MaxIssued = 3
  MaxVersion = 2
SYMMETRY Symmetry
INVARIANTS
  OwnBodies
  NotStale
  EvictionOrder
PROPERTIES
  EarlyByCallAtMost
  TokenStillValid
