SPECIFICATION FairSpec
CONSTANTS
  a = a
  b = b
  c = c
  Procs = {a, b, c}
  NoProc = NoProc
  Calls <- CallsDuplex
  SocketType = "DEALER"
  FrameCounts = {1}
  Filters = {}
  HWMs = {}
  DefaultHWM = 2
  MaxArrivals = 1
  MaxSends = 1
PROPERTIES
  SendReturns
