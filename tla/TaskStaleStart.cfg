SPECIFICATION Spec
CONSTANTS
  Plans <- FewPlans
  FirstVersions <- FirstOnly
  MaxRevisions = 0
  Costs = {1}
  Budget = 2
  MaxCrashes = 0
  MaxLost = 0
PROPERTIES
  TerminalIsFinal
