CONSTANTS
  None = None
  Absent = Absent
  Empty = Empty
  Torn = Torn
  node = node
  app = app
  s1 = s1
  s2 = s2
  c1 = c1
  c2 = c2
  a1 = a1
  a2 = a2
  h1 = h1
  r1 = r1
  r2 = r2
  p1 = p1
  p2 = p2
  w1 = w1
  Node = node
  Services = {node, app}
  Addrs = {a1, a2}
  Calls = {c1, c2}
  Passphrases = {p1, p2}
  Streams = {s1, s2}
  Chats = {h1}
  Requests = {r1, r2}
  EventQueueSize = 1
  Rpcs = {w1}
  NameOf <- AppOnly
  Mixes <- MCMixes
SPECIFICATION FairSpec
INVARIANTS IdentityStable TorIntact ContactsDurable StreamSettled
PROPERTIES StopReturns
CHECK_DEADLOCK FALSE
