SPECIFICATION Spec
CONSTANTS
  Turns = {t1, t2}
  NeedsWorker = {t1}
  Executes = TRUE
  MaxAttempts = 2
  MaxCrashes = 1
  MaxCloses = 1
  MaxFaults = 1
  Tokens <- SomeTokens
  HexValue <- SomeHexValue
  Escapes <- SomeEscapes
  MaxRaw = 12
  MaxRestarts = 1
  Lengths = {0, 1, 4}
  Window = 4
  MaxMessages = 3
  MaxText = 3
  MaxTotal = 5
  MaxLog = 6
CHECK_DEADLOCK FALSE
INVARIANTS
  TurnsAreTold
  HistoryIsWhole

  
