SPECIFICATION Spec
CONSTANTS
  question = question
  draft1 = draft1
  draft2 = draft2
  answer = answer
  Sources = {s1, s2, s3}
  MaxCrashes = 2
  MaxFailures = 2
  Posts = {question, draft1, draft2, answer}
  AnswerOf <- Answers
  GetLimit = 2
  PollLimit = 2
  MaxLoads = 1
  MaxRefreshes = 1
  MaxCuts = 1
  MaxEvents = 3
  MaxMessages = 2
  MaxDrops = 1
CHECK_DEADLOCK FALSE
INVARIANTS
  TranscriptsSound
  ViewsAreWhole
PROPERTIES
  ImplementsLog
  
