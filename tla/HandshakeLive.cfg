CONSTANTS
  x = x
  y = y
  n = n
  p = p
  q = q
  z = z
  c1 = c1
  c2 = c2
  None = None
  Initiators <- JustX
  Clients <- JustX
  Services <- MixedServices
  Acl <- MixedAcl
  Allowlist <- JustX
  HasContacts <- NodeOnly
  KnownPeers = {}
  Lax = {}
  Claimed <- XHonest
  Conns <- MCConns
  MaxRetries = 2
SPECIFICATION FairSpec
PROPERTIES ClientReturns HandlersReturn
CHECK_DEADLOCK FALSE
