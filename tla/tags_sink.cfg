SPECIFICATION Spec
CONSTANTS
  NoTag = NoTag
  Paths <- SinkOnly
  MaxFrames = 3
  MaxBurst = 2
INVARIANTS
  NeverStalls
CHECK_DEADLOCK FALSE
