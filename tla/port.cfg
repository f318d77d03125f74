SPECIFICATION Spec
CONSTANTS
  NoSchedule = NoSchedule
  Gate = {0, 1}
  Express = {0}
  MTU = 8
  ClockRate = 2
  Preemption = FALSE
  HoldAdvance = 0
  LengthAware = TRUE
  InitialSchedules <- TwoWindows
  SwapSchedules <- None
  BufferCapacity = 5
  Overhead = 1
  PacketSizes = {1, 4}
  MinFrame = 2
  InterframeGap = 1
  MaxArrivals = 3
INVARIANTS
  TypeOK
  GuardBand
  WorkConserving
  BufferAccounting
PROPERTIES
  EventuallyDrained
