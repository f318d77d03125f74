SPECIFICATION Spec
CONSTANTS
  a = a
  b = b
  c = c
  low = low
  high = high
  Switch <- Switches
  Host <- Hosts
  Members <- GroupMembers
  Port <- Ports
  Peer <- Other
  Towards <- Way
  Priority <- Priorities
  Configurations <- Overtaking
  MaxFrames = 2
INVARIANTS
  DeliveredOnce
CHECK_DEADLOCK FALSE
