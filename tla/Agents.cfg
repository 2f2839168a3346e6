SPECIFICATION Spec
CONSTANTS
  Runs = {r1, r2}
  Calls = {k1}
  Limits = {1, 2}
  MaxContacts = 2
  MaxMail = 1
  Callers = {c1, c2}
  MaxWorks = 2
  MaxMessages = 5
  MaxQueued = 1
SYMMETRY Symmetry
CHECK_DEADLOCK FALSE
INVARIANTS
  ChildrenAccounted
  PromptsAnswered
PROPERTIES
  ChildrenSettle
  TurnsObey
