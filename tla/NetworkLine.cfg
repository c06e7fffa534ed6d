CONSTANTS
  pktA = pktA
  pktB = pktB
  pktC = pktC
  NumRouter = 3
  NumPC = 3
  NumVC = 2
  NumEPC = 1
  SAType = "RR"
  Wire <- LineWire
  LinkLat <- LineLat
  Depth = 2
  Rsv = 0
  BufferType = "SAMQ"
  SelectOutPC <- LineRouting
  isOutVCDeadlockFree <- AnyVC
  NIDepth = 1
  PerVC = FALSE
  SpecSA = FALSE
  LookaheadRC = FALSE
  Packet <- Packets3
  Src <- LineSrc
  Dst <- LineDst
  NumFlits <- LineLen
SPECIFICATION FairSpec
INVARIANTS
  VCExclusive
  NoSleepOnWork
PROPERTIES
  PromiseKept
  LinkBack
