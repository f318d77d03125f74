SPECIFICATION HoldsSpec
CONSTANTS
  NoSchedule = NoSchedule
  Gate = {0, 1}
  Express = {1}
  MTU = 6
  ClockRate = 1
  Preemption = FALSE
  HoldAdvance = 1
  LengthAware = TRUE
  InitialSchedules <- JustExpressFirst
  SwapSchedules <- OneEmpty
INVARIANTS
  EmptyScheduleOpensAllGates
