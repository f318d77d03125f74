SPECIFICATION Spec
CONSTANTS
  ByteTime = 2
  MinNonFinal = 3
  MinFinal = 3
  Checksum = 1
  Preamble = 2
  InterframeGap = 3
  ExpressBytes = {2}
  PreemptableBytes = {6, 9}
  HoldAndRelease = {TRUE}
  PreemptableWindow = 24
  ExpressWindow = 5
  MaxExpress = 1
  MaxPreemptable = 2
INVARIANTS
  AssertionsHold
