CONSTANTS
  pktA = pktA
  pktB = pktB
  pktC = pktC
  NumRouter = 2
  NumPC = 2
  NumVC = 2
  NumEPC = 1
  SAType = "LRS"
  Wire <- TwoWire
  LinkLat <- Lat1
  Depth = 1
  Rsv = 1
  BufferType = "DAMQ_R"
  SelectOutPC <- TwoRouting
  isOutVCDeadlockFree <- AnyVC
  NIDepth = 2
  PerVC = TRUE
  SpecSA = TRUE
  LookaheadRC = TRUE
  Packet <- Packets3
  Src <- CrossSrc
  Dst <- CrossDst
  NumFlits <- CrossLen
SPECIFICATION Spec
INVARIANTS
  RoomDownstream
