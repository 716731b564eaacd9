\* Both sockets nonblocking, room for all that is written.
SPECIFICATION FairSpec
CONSTANTS
  Nonblock <- MCBoth
  Native = {"out"}
  Room <- MCRoomy
  BufSize = 2
  MaxBytes = 3
INVARIANTS
  TypeOK
PROPERTIES
  ImplementsPipe
  EveryByteArrives
