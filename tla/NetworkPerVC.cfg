CONSTANTS
  pktA = pktA
  pktB = pktB
  pktC = pktC
  NumRouter = 2
  NumPC = 2
  NumVC = 2
  NumEPC = 1
  SAType = "LRS"
  Wire <- TwoWire
  LinkLat <- Lat2
  Depth = 2
  Rsv = 1
  BufferType = "DAMQ_P"
  SelectOutPC <- TwoRouting
  isOutVCDeadlockFree <- AnyVC
  NIDepth = 1
  PerVC = TRUE
  SpecSA = TRUE
  LookaheadRC = TRUE
  Packet <- Packets3
  Src <- Src3
  Dst <- Dst3
  NumFlits <- Len3
SPECIFICATION FairSpec
INVARIANTS
 
  XbarReady
  PacketsWhole
  LinkNotOverfull
  PktInNetCount
  NIAwake
  RoomDownstream
PROPERTIES
  LinkThere
