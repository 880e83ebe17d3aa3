SPECIFICATION Spec
CONSTANTS
  MaxSteps = 3
  MaxPasses = 4
  MaxRefresh = 1
  Timeout = 2
INVARIANTS
  VerdictStands
  ChipIsForTheUser
PROPERTIES
  ModesLapse
