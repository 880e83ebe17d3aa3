SPECIFICATION Spec
CONSTANTS
  c1 = c1
  c2 = c2
  None = None
  Containers <- MCContainers
  MaxRuns = 2
  MaxPasses = 3
  MaxHooks = 1
INVARIANTS
  NothingIsLeft
PROPERTIES
  RunsAndProgramsEnd
