\* Two vCPUs trap while the module is loaded and unloaded any number of times.
SPECIFICATION FairSpec
CONSTANTS
  v = v
  w = w
  x = x
  None = None
  VCpus <- MCVCpus
  Names <- MCNames
  Regs <- MCRegs
  Values <- MCValues
  Zero = 0
INVARIANTS
  TypeOK
  FallsBackToKernel
  ResumesAtNext
PROPERTIES
  ImplementsRegisterFile
  TrapReturns
