SPECIFICATION McpSpec
CONSTANTS
  NoProc = NoProc
  Procs = {1, 2}
  MaxStrikes = 3
  MaxAsked = 3
INVARIANTS
  AnswersAreTheCallsOwn
PROPERTIES
  ContainedServerIsLeftAlone
  CallReturns
CHECK_DEADLOCK FALSE
