SPECIFICATION FairSpec
CONSTANTS
  a = a
  b = b
  c = c
  s1 = s1
  s2 = s2
  s3 = s3
  Procs = {a, b, c}
  NoProc = NoProc
  Calls <- CallsEnding
  Socks = {s1}
  Addrs = {x1}
  NoSock = NoSock
  Deaf = {s1}
PROPERTIES
  CallsReturn
