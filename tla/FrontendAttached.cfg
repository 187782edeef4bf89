CONSTANTS
  None = None
  a1 = a1
  a2 = a2
  f1 = f1
  f2 = f2
  f3 = f3
  t1 = t1
  t2 = t2
  Ready = Ready
  Bootstrapping = Bootstrapping
  Unknown = Unknown
  AllEventTypes <- EventTypes
  SubscriberBuffer = 1
  StreamWindow = 1
  Peers = {a1, a2}
  Sends = {1, 2}
  MaxMessagesPerPeer = 2
  Offers = {f1, f2, f3}
  TransferIds = {t1, t2}
  IdOf <- MCIdOf
  Mixes <- MCMixes
SPECIFICATION FairSpec
PROPERTY OfferReachesUser
CHECK_DEADLOCK FALSE
