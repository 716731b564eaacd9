\* Concurrent requests on a file of one and a half blocks, which the host may fail to
\* read or write.
SPECIFICATION FairSpec
CONSTANTS
  a = a
  b = b
  x = x
  y = y
  None = None
  Threads <- MCThreads
  Values <- MCValues
  FileSize = 3
  BlockSize = 2
  Word = 16
  MaxBlks = 2
  Requests = 3
  Stray = FALSE
  HostFails = TRUE
INVARIANTS
  TypeOK
  RightCount
PROPERTIES
  ImplementsDisk
  RequestCompletes
  WritesOwnData
