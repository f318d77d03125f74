SPECIFICATION Spec
CONSTANTS
  a = a
  b = b
  c = c
  low = low
  high = high
  Switch <- Switches
  Host <- Hosts
  Members <- GroupMembers
  Port <- Ports
  Peer <- Other
  Towards <- Way
  Priority <- Priorities
  Configurations <- Networks
  MaxFrames = 3
INVARIANTS
  EntriesLeadToHosts
  MovesAway
  DeliveredOnce
  GroupIsKnown
PROPERTIES
  EventuallyReceived
CHECK_DEADLOCK FALSE
