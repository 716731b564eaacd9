\* Two threads of one process, two types of notifications, two ports and two
\* callbacks.
SPECIFICATION Spec
CONSTANTS
  a = a
  b = b
  p = p
  q = q
  c1 = c1
  c2 = c2
  None = None
  Threads <- MCThreads
  Ports <- MCPorts
  Callbacks <- MCCallbacks
  NotifPorts = 2
  FrameInfos = 2
INVARIANTS
  TypeOK
  AnswersWhole
PROPERTIES
  ImplementsNotifications
SYMMETRY MCSymmetry
