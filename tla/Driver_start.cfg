\* Two calls of the hooked function, two block devices, three visits of another
\* kernel thread to the classes.
SPECIFICATION FairSpec
CONSTANTS
  a = a
  b = b
  k = k
  None = None
  Callers <- MCCallers
  Kernel <- MCKernel
  NumBlockDevs = 2
  Prompt = TRUE
  Visits = 3
INVARIANTS
  TypeOK
  
  
  DiskOrder
PROPERTIES
  ImplementsRegistry
  
