SPECIFICATION Spec
CONSTANTS
  Manager = manager
  Services = {cart, ad}
  Changes = {deploy}
  None = none
  Slots = 1
  MaxTries = 2
  ManagerIters = 2
  WorkerIters = 1
  ManagerBudget = 2
  WorkerBudget = 1
  OutputBudget = 0
  MaxTokens = 1
  MaxBatch = 2
INVARIANTS BudgetsHold ReportsAreFinal NoInvestigatorOutlives
PROPERTY InvestigationEnds
CHECK_DEADLOCK FALSE
