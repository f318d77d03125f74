SPECIFICATION Spec
CONSTANTS
  CreditPerBit = 4
  PacketSizes = {2, 3}
  OtherSizes = {2, 3}
  InterframeGap = 1
  GateCloses = {FALSE}
  OpenTime = 7
  ClosedTime = 4
  MaxArrivals = 4
  MaxOthers = 4
INVARIANTS
  SendingIsSound
