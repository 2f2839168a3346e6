SPECIFICATION Spec
CONSTANTS
  Plans <- AllPlans
  FirstVersions <- FirstTwo
  MaxRevisions = 1
  Costs <- AllCosts
  Budget = 4
  MaxCrashes = 1
  MaxLost = 1
INVARIANTS
  TypeOK
  SuccessIsAccounted
  WithinBudget
  LoopIsBounded
  CancelStopsTools
  SummaryIsOnTimeline
PROPERTIES
  TerminalIsLeftOnlyByStaleStart
  CancelledNeverVerifies
  RefinesLifecycle
