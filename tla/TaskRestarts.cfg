SPECIFICATION Spec
CONSTANTS
  Plans <- TwoStepPlans
  FirstVersions <- FirstOnly
  MaxRevisions = 1
  Costs = {1}
  Budget = 4
  MaxCrashes = 3
  MaxLost = 0
INVARIANTS
  RecoveryNeverRaises
  UncertainCallIsAlone
  DependenciesFirst
  RecordsAgree
PROPERTIES
  ToolRunsOnce
