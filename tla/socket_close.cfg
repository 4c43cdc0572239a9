SPECIFICATION FairSpec
CONSTANTS
  a = a
  b = b
  c = c
  Procs = {a, b, c}
  NoProc = NoProc
  Calls <- CallsClosers
  SocketType = "XSUB"
  FrameCounts = {1, 2}
  Filters = {}
  HWMs = {2}
  DefaultHWM = 1
  MaxArrivals = 1
  MaxSends = 1
INVARIANTS
  NoUseAfterClose
  SomebodyHasMu
PROPERTIES
  CloseDrains
  LifeSpec
