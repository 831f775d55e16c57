SPECIFICATION Spec
CONSTANTS
  Prompts <- OnePrompt
  NoPrompt = NoPrompt
  Callers <- TwoCallers
  Worker = Worker
  MaxJobs = 2
  MaxAttempts = 2
  KeepFinished = 0
  Replies <- EachOutcome
  MaxRetries = 1
  MaxCrashes = 0
  MaxHangups = 1
  Missing = Missing
  Blank = Blank
  Torn = Torn
  c1 = c1
  c2 = c2
  p1 = p1
  p2 = p2
INVARIANTS TypeOK NoLostWakeup
PROPERTIES JobsMoveOn
CHECK_DEADLOCK FALSE
VIEW TableView
