SPECIFICATION FairSpec
CONSTANTS
  Prompts <- OnePrompt
  NoPrompt = NoPrompt
  Callers <- OneCaller
  Worker = Worker
  MaxJobs = 2
  MaxAttempts = 2
  KeepFinished = 0
  Replies <- TellingReplies
  MaxRetries = 0
  MaxCrashes = 1
  MaxHangups = 0
  Missing = Missing
  Blank = Blank
  Torn = Torn
  c1 = c1
  c2 = c2
  p1 = p1
  p2 = p2
INVARIANTS RunningIsWorkers JobsAreTrue
PROPERTIES LiveJobSettles
CHECK_DEADLOCK FALSE
