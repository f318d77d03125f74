SPECIFICATION Spec
CONSTANTS
  NoSchedule = NoSchedule
  Gate = {0, 1}
  Express = {}
  MTU = 6
  ClockRate = 1
  Preemption = FALSE
  HoldAdvance = 0
  LengthAware = FALSE
  InitialSchedules <- AllGates
  SwapSchedules <- AllGates
  x = x
  y = y
  HostFrame = {x, y}
  UnsignedRange = 64
  Plans <- OtherCycle
  LongestCycle = 4
PROPERTIES
  EventuallyInPhase
