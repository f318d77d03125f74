SPECIFICATION HoldsSpec
CONSTANTS
  NoSchedule = NoSchedule
  Gate = {0, 1}
  Express = {1}
  MTU = 6
  ClockRate = 2
  Preemption = TRUE
  HoldAdvance = 3
  LengthAware = TRUE
  InitialSchedules <- JustExpressFirst
  SwapSchedules <- None
PROPERTIES
  FirstEntryIsHeld
