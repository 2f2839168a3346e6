SPECIFICATION Spec
CONSTANTS
  Requests = {r1, r2, r3}
  Keys = {key}
  Values = {yes, no}
  Nobody = nobody
  Tasks = {a, b}
  MaxReports = 2
  MaxFaults = 2
  Paths = {"src/a", "src/b", "dist/c"}
  Ignored = {"dist/c"}
  Calls = {1, 2, 3}
  Sizes = {1, 2, 3}
  MaxFiles = 1
  MaxFile = 2
  MaxTotal = 2
  MaxRead = 1
  Steps <- SomeSteps
  PlanPaths = {"f"}
  Allowed = {"read", "create", "modify", "check", "ghost"}
  PlanRisk <- Risks
  MaxSteps = 3
  MaxLength = 3
  MaxChanges = 1
CHECK_DEADLOCK FALSE
INVARIANTS
  
  FilesKept
  AccessNarrows
  OneActiveValue
  MemoriesAreOfSuccess
PROPERTIES
  GoneStaysGone
