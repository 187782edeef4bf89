CONSTANTS
  None = None
  Torn = Torn
  o0 = o0
  o1 = o1
  o2 = o2
  o4 = o4
  o5 = o5
  f1 = f1
  f2 = f2
  Local <- Self
  Ids <- Four
  NumBuckets = 3
  K = 2
  MaxPerSource = 2
  RateLimit = 1
  Calls = {f1, f2}
  Target <- MCTarget
  Service <- Hosted
  OnionsOf <- Onions
  Answers <- MCAnswers
  LanPeers <- Lan
  FailureThreshold = 2
  LookupMaxIterations = 2
  PeerChanBuffer = 1
  Files <- MCFiles
  MaxCrashes = 1
  MaxEvents <- MCEvents
SPECIFICATION FairSpec
INVARIANTS TableSound RestoreExact
PROPERTIES EvictedForCause FindPeerEnds
CHECK_DEADLOCK FALSE
