CONSTANTS
  k1 = k1
  Total = 3
  WindowSize = 2
  MaxRetries = 1
  MaxUint32 = 9
  FwdCap = 1
  BwdCap = 2
  Callers <- OneCaller
  Faults <- Untimed
SPECIFICATION FairSpec
INVARIANTS WindowRespected SavedIsOffered CompleteMeansHeld
PROPERTIES DeliverySpec TransferEnds AcceptedIsDelivered
CHECK_DEADLOCK FALSE
