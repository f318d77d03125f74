SPECIFICATION Spec
CONSTANTS
  NoTag = NoTag
  Paths <- AllPaths
  MaxFrames = 3
  MaxBurst = 2
INVARIANTS
  TagIsKept
  LaterQueuesAreMoreUrgent
  InOrderPerPriority
PROPERTIES
  EventuallyArrives
CHECK_DEADLOCK FALSE
