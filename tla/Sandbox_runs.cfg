SPECIFICATION Spec
CONSTANTS
  MaxRuns = 3
  ToolBudget = 2
  ToolsRaise = FALSE
INVARIANT OwnAnswer
PROPERTY RunsAreBounded
CHECK_DEADLOCK FALSE
