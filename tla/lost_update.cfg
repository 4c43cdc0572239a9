SPECIFICATION Spec
CONSTANTS
  a = a
  b = b
  c = c
  Procs = {a, b, c}
  NoProc = NoProc
  Calls <- CallsReceivers
  SocketType = "DEALER"
  FrameCounts = {1}
  Filters = {}
  HWMs = {}
  DefaultHWM = 1
  MaxArrivals = 2
  MaxSends = 0
INVARIANTS
  ReceivedExact
