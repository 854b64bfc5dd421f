SPECIFICATION Spec
CONSTANTS
  Key = {k1, k2}
  Url = {u1}
  NoValue = NoValue
  TokenTTL = 2
  Lifetime = 3
  TokenMax = 2
  CacheMax = 2
  Polls = {1}
  Delays = {2}
  Resets = {}
  MaxTime = 4
  MaxIssued = 3
  MaxVersion = 1
INVARIANT TokenKept
