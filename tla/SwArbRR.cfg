SPECIFICATION Spec
CONSTANTS
  NumPC = 4
  NumVC = 3
  SAType = "RR"
  LosersStay = TRUE
INVARIANTS
  TurnOfPC
