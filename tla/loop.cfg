SPECIFICATION Spec
CONSTANTS
  MaxPasses = 4
  MaxRefresh = 1
  Limit = 2
  MaxCost = 1
  MaxToolCost = 1
INVARIANTS
  TurnIsBounded
  DrawingHasItsTimer
  RequestsAreClean
PROPERTIES
  DrawingsGoAway
