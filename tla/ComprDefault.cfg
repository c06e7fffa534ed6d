CONSTANTS
  valueA = valueA
  valueB = valueB
  valueC = valueC
  valueD = valueD
  NoValue = NoValue
  Parts = {"NI"}
  Router = {0, 1, 2}
  Route <- Routes3
  Value <- Values3
  Payload <- Payloads
  EnSets = 1
  DeSets = 2
  VLBSets = 1
  Saturation = 2
  VLBSaturation = 1
  MaxInFlight = 2
  Shapes <- DefaultFlits
  Depth = 2
  NumPackets = 1
SPECIFICATION MCSpec
INVARIANT WordsFit
