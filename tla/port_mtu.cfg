SPECIFICATION Spec
CONSTANTS
  NoSchedule = NoSchedule
  Gate = {0, 1}
  Express = {0}
  MTU = 6
  ClockRate = 1
  Preemption = FALSE
  HoldAdvance = 0
  LengthAware = FALSE
  InitialSchedules <- TwoWindows
  SwapSchedules <- None
  BufferCapacity = 6
  Overhead = 1
  PacketSizes = {6}
  MinFrame = 2
  InterframeGap = 1
  MaxArrivals = 3
INVARIANTS
  EveryPacketIsFine
