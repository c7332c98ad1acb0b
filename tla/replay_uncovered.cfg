CONSTANTS
  Designs <- Milestone
  MaxSetbacks <- MilestoneSetbacks
SPECIFICATION BudgetSpec
INVARIANT ReplayCovered
CHECK_DEADLOCK FALSE
