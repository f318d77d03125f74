SPECIFICATION Spec
CONSTANTS
  Listener = {a, b}
  ClockRate = 2
  IdleTicks = {0, 1, 2, 3}
  Horizon = 8
INVARIANTS
  DueTickIsFront
  CountdownsAgree
PROPERTIES
  NotifiesOnTime
  SubscribesTheRightTick
