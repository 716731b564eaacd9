\* A send() that accepts part of the buffer.
SPECIFICATION Spec
CONSTANTS
  Nonblock <- MCBoth
  Native = {"out"}
  Room <- MCTight
  BufSize = 2
  MaxBytes = 3
PROPERTIES
  ImplementsPipe
