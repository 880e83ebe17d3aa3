SPECIFICATION Spec
CONSTANTS
  open = open
  search1 = search1
  search2 = search2
  fetch1 = fetch1
  fetch2 = fetch2
  NoCall = NoCall
  NoTool = NoTool
  Calls <- MCCalls
  Tools <- MCTools
  ToolOf <- MCToolOf
  HighImpact <- MCHighImpact
  Tainting <- MCTainting
  TurnGranted <- MCTurnGranted
  Precondition <- MCPrecondition
  MaxPasses = 4
INVARIANTS
  EgressIsApproved
  QuestionIsNotLost
  BrakeFollowsTheQuestion
PROPERTIES
  ImplementsApproval
