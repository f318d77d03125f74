SPECIFICATION HoldsSpec
CONSTANTS
  NoSchedule = NoSchedule
  Gate = {0, 1}
  Express = {1}
  MTU = 6
  ClockRate = 2
  Preemption = TRUE
  HoldAdvance = 3
  LengthAware = FALSE
  InitialSchedules <- FourOrEmpty
  SwapSchedules <- FourSchedules
INVARIANTS
  MaxBitIsWindow
  HoldOnlyForExpressWindow
PROPERTIES
  RunsItsProgram
  WaitingScheduleIsLoaded
  HeldBeforeExpressWindow
