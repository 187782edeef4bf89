CONSTANTS
  h1 = h1
  h2 = h2
  n1 = n1
  n2 = n2
  NoRequest = NoRequest
  Handlers <- MCHandlers
  Nonces <- MCNonces
  ShortNonces <- MCShortNonces
  TimestampFreshness = 2
  NonceCacheTTL = 4
  MaxDelay = 1
  MaxSkew = 3
  MaxTime = 7
SYMMETRY Symmetry
SPECIFICATION Spec
INVARIANTS NoReplay OnlyAdmittedRemembered
PROPERTY AtMostOnceSpec
CHECK_DEADLOCK FALSE
