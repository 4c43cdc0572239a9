SPECIFICATION FairSpec
CONSTANTS
  n1 = n1
  n2 = n2
  a = a
  b = b
  c = c
  d = d
  Nodes = {n1, n2}
  Procs = {a, b, c, d}
  NodeOf <- NodeOfAll
  NoProc = NoProc
  Calls <- CallsAll
  HWM = 1
  PeerCounts = {2}
  MaxSends <- SendsAll
INVARIANTS
  NoLockCycle
  OrderDelivery
  TypeOK
PROPERTIES
  WaitsOnlyForPeer
