SPECIFICATION Spec
CONSTANTS
  CreditPerBit = 2
  PacketSizes = {2, 3}
  OtherSizes = {2}
  InterframeGap = 1
  GateCloses = {TRUE}
  OpenTime = 7
  ClosedTime = 4
  MaxArrivals = 4
  MaxOthers = 2
INVARIANTS
  ZeroCreditFindsGateOpen
