SPECIFICATION Behaviour
CONSTANTS
  shell = shell
  one = one
  Shell <- shell
  Helpers = {one}
  Kinds = {"exec", "stream", "git"}
  Written <- MCWritten
  PipeSize = 2
  StreamCap = 2
  GitCap = 1
  Bounds <- MCBounds
  Tasks = {1, 2}
  MaxSpawns = 3
  Limits <- MCLimits
  Scripts <- MCScripts
  Ports = {8001, 8002}
  MaxEngines = 2
  Looks = 2
  Callers = {1, 2}
  Images = {x, y}
  MaxSidecars = 3
  MaxChanges = 1
  MaxCalls = 4
INVARIANTS CommandsSafe SupervisorsSafe EnginesSafe
PROPERTIES EachReturns
CHECK_DEADLOCK FALSE
