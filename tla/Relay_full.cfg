\* Room for one byte each way; the socket towards the client is blocking.
SPECIFICATION Spec
CONSTANTS
  Nonblock <- MCOutOnly
  Native = {"out"}
  Room <- MCTight
  BufSize = 2
  MaxBytes = 3
PROPERTIES
  ClosedForCause
  DrainedBeforeClose
  PipeToBlocking
