SPECIFICATION Spec
CONSTANTS
  ByteTime = 2
  MinNonFinal = 3
  MinFinal = 3
  Checksum = 1
  Preamble = 2
  InterframeGap = 3
  ExpressBytes = {2}
  PreemptableBytes = {6, 9}
  HoldAndRelease = {FALSE}
  PreemptableWindow = 20
  ExpressWindow = 20
  MaxExpress = 2
  MaxPreemptable = 2
INVARIANTS
  RecheckPointerIsValid
