SPECIFICATION FairSpec
CONSTANTS
  MaxInitialQueries = 12
  MaxTotalQueries = 40
  MaxSearchPasses = 8
  MaxContinuationDecisions = 7
  MinFollowupQueries = 3
  MaxFollowupQueries = 6
  MaxRetries = 3
INVARIANTS TypeOK CeilingsHold BatchIsCurrent BatchIsAccepted FullPlanBudgetIsUsable
PROPERTIES SearchEnds
CHECK_DEADLOCK FALSE
