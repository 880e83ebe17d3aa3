SPECIFICATION Spec
CONSTANTS
  Days <- MCDays
  Limit = 2
  PassCost = 2
  CallCost = 1
  MaxCalls = 1
  MaxFaults = 2
  Corrupt = Corrupt
INVARIANTS
  NothingElseIsForgotten
  OvershootIsBounded
