CONSTANTS
  None = None
  d = d
  s1 = s1
  s2 = s2
  s3 = s3
  s4 = s4
  node = node
  app = app
  Daemon = d
  Names <- TwoNames
  Streams <- Four
  NameOf <- Mixed
  Early = {}
  Keyed = {}
  Faults <- AllFaults
SPECIFICATION Spec
INVARIANTS OwnerServed Coherent
CHECK_DEADLOCK FALSE
