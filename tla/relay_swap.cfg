SPECIFICATION Spec
CONSTANTS
  a = a
  b = b
  c = c
  low = low
  high = high
  Switch <- Switches
  Host <- Hosts
  Members <- GroupMembers
  Port <- Ports
  Peer <- Other
  Towards <- Way
  Priority <- Priorities
  Configurations <- Forgetting
  MaxFrames = 2
INVARIANTS
  MovesAway
CHECK_DEADLOCK FALSE
