\* Two commands with at most two retries and one breakpoint; a decoder with bytes
\* of two bits; trust caches of up to three hashes.
SPECIFICATION MCSpec
CONSTANTS
  t1 = t1
  t2 = t2
  t3 = t3
  kernelTask = kernelTask
  userTask = userTask
  space = space
  voucher = voucher
  bp = bp
  Bad = Bad
  ListHead = ListHead
  None = None
  Threads <- MCThreads
  AtFirst <- MCAtFirst
  Tasks <- MCTasks
  TaskOf <- MCTaskOf
  UserThreads <- MCUserThreads
  SpaceOf <- MCSpaceOf
  InUse <- MCInUse
  Others <- MCOthers
  Breakpoints <- MCBreakpoints
  MaxTries = 2
  Commands = 2
  Bits = 2
  Half = 2
  Threshold = 1
  Space = 2
  Idle = Idle
  Files <- MCFiles
  Digits = 2
  Value <- MCValue
  Tails = {0, 1}
  MaxLines = 3
INVARIANTS
  TypeOK
  
  LeavesNoTrace
  LzssTypeOK
  EveryHashFound
PROPERTIES
  CommandEnds
  ImplementsLz77
