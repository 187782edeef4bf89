CONSTANTS
  x = x
  y = y
  n = n
  p = p
  q = q
  z = z
  c1 = c1
  c2 = c2
  None = None
  Initiators <- Peers
  Clients <- JustY
  Services <- NodeAndGated
  Acl <- NodeAndGatedAcl
  Allowlist <- JustY
  HasContacts <- NodeOnly
  KnownPeers <- JustY
  Lax <- JustP
  Claimed <- Masked
  Conns <- MCConns
  MaxRetries = 2
SYMMETRY ConnSymmetry
SPECIFICATION Spec
INVARIANTS AddressesToApproved Reachable Agreement AuthenticatedResponder
CHECK_DEADLOCK FALSE
