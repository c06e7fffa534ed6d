SPECIFICATION FairSpec
CONSTANTS
  v1 = v1
  v2 = v2
  VC = {v1, v2}
  Depth = 2
  Rsv = 1
  BufferType = "DAMQ_P"
INVARIANTS
  TypeOK
  Conservation
  NoOverflow
  ReserveOwed
  NoShutOut
PROPERTY CreditComesBack
