SPECIFICATION Spec
CONSTANTS
  a = a
  b = b
  c = c
  Procs = {a, b, c}
  NoProc = NoProc
  Calls <- CallsDuplex
  SocketType = "DEALER"
  FrameCounts = {0, 1, 2}
  Filters = {}
  HWMs = {}
  DefaultHWM = 1
  MaxArrivals = 2
  MaxSends = 2
INVARIANTS
  TypeOK
  SentExact
  ReceivedExact
  SnapshotSentExact
PROPERTIES
  ClosedFreezes
