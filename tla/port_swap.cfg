SPECIFICATION Spec
CONSTANTS
  NoSchedule = NoSchedule
  Gate = {0, 1, 2}
  Express = {0, 2}
  MTU = 6
  ClockRate = 1
  Preemption = FALSE
  HoldAdvance = 0
  LengthAware = TRUE
  InitialSchedules <- OpenOrNot
  SwapSchedules <- OpenOrNot
  BufferCapacity = 4
  Overhead = 1
  PacketSizes = {2}
  MinFrame = 2
  InterframeGap = 1
  MaxArrivals = 3
INVARIANTS
  NoAssertionFails
PROPERTIES
  ServesAtomically
