SPECIFICATION Spec
CONSTANTS
  NumPC = 4
  NumVC = 3
  SAType = "LRS"
  LosersStay = FALSE
INVARIANTS
  TurnOfVC
  TurnOfPC
  LostMeansMovedUp
