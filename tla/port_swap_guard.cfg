SPECIFICATION Spec
CONSTANTS
  NoSchedule = NoSchedule
  Gate = {0, 1}
  Express = {0}
  MTU = 6
  ClockRate = 1
  Preemption = FALSE
  HoldAdvance = 0
  LengthAware = TRUE
  InitialSchedules <- JustOpen
  SwapSchedules <- WindowAtEnd
  BufferCapacity = 4
  Overhead = 1
  PacketSizes = {1, 3}
  MinFrame = 2
  InterframeGap = 1
  MaxArrivals = 3
INVARIANTS
  GuardBand
