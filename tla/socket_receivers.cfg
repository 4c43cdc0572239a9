SPECIFICATION Spec
CONSTANTS
  a = a
  b = b
  c = c
  Procs = {a, b, c}
  NoProc = NoProc
  Calls <- CallsReceivers
  SocketType = "SUB"
  FrameCounts = {0, 1, 2}
  Filters = {"f"}
  HWMs = {}
  DefaultHWM = 1
  MaxArrivals = 3
  MaxSends = 0
INVARIANTS
  NeverOvercounts
  NoUseAfterClose
PROPERTIES
  CloseIsNotOvertaken
