CONSTANTS
  None = None
  d = d
  s1 = s1
  s2 = s2
  s3 = s3
  s4 = s4
  node = node
  app = app
  Daemon = d
  Names <- TwoNames
  Streams <- Three
  NameOf <- Competing
  Early <- Clients
  Keyed <- TwoNames
  Faults <- AllFaults
SPECIFICATION Spec
INVARIANTS LiveIsWired KeyedAddressStable
CHECK_DEADLOCK FALSE
