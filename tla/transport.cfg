SPECIFICATION FairSpec
CONSTANTS
  a = a
  b = b
  c = c
  s1 = s1
  s2 = s2
  s3 = s3
  Procs = {a, b, c}
  NoProc = NoProc
  Calls <- CallsBusy
  Socks = {s1, s2, s3}
  Addrs = {x1, x2}
  NoSock = NoSock
  Deaf = {}
INVARIANTS
  TypeOK
  CloseReachesAll
  CountCoversOpen
  WaitsOnlyForCancelled
PROPERTIES
  NoOverwrite
  CallsReturn
  SocketLives
