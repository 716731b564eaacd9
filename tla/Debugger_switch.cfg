\* One command, at most two retries, one breakpoint.
SPECIFICATION Spec
CONSTANTS
  t1 = t1
  t2 = t2
  t3 = t3
  kernelTask = kernelTask
  userTask = userTask
  space = space
  voucher = voucher
  bp = bp
  Bad = Bad
  ListHead = ListHead
  None = None
  Threads <- MCThreads
  AtFirst <- MCAtFirst
  Tasks <- MCTasks
  TaskOf <- MCTaskOf
  UserThreads <- MCUserThreads
  SpaceOf <- MCSpaceOf
  InUse <- MCInUse
  Others <- MCOthers
  Breakpoints <- MCBreakpoints
  MaxTries = 2
  Commands = 1
INVARIANTS
  FindsThread
