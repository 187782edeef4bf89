CONSTANTS
  None = None
  a1 = a1
  a2 = a2
  k1 = k1
  k2 = k2
  k3 = k3
  Addrs = {a1, a2}
  Calls = {k1, k2, k3}
  Mixes <- MCMixes
  MaxPeers = 1
  ReconnectMaxRetries = 2
  MaxMissed = 2
SPECIFICATION FairSpec
INVARIANT EntryTruthful
PROPERTIES InProgressKept ReconnectionEnds DeadNoticed
CHECK_DEADLOCK FALSE
