\* Four calls on three threads, the first alone until it has made the mutex.
SPECIFICATION FairSpec
CONSTANTS
  a = a
  b = b
  c = c
  None = None
  Threads <- MCThreads
  Kmsg <- MCKmsg
  Mutexes <- MCMutexes
  Calls = 4
  Overlap = FALSE
INVARIANTS
  TypeOK
PROPERTIES
  AppendOnly
  CallReturns
