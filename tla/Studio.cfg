SPECIFICATION Behaviour
CONSTANTS
  Requests = {r1, r2}
  notes = notes
  nested = nested
  Paths <- MCPaths
  InFolder = {nested}
  Other = Other
  Absent = Absent
  Starts <- MCStarts
  MaxOthers = 1
  MaxLosses = 1
  Changers = {one}
  Varied = {"models_dir", "summarizer_model", "strata.config_path"}
  StartingFiles <- MCFiles
  CommandLines <- MCFlags
  Platform = "linux"
  MaxApplies = 2
  MaxCrashes = 1
  MaxFailures = 1
  Tags = {b1, b2}
  Flavors = {vulkan, cuda}
  WithCompanion = {cuda}
  None = None
  MaxInstalls = 2
  Dirs = {"a", "b"}
  Ids = {"m"}
  RootLists <- MCRootLists
  MaxContents = 2
  MaxStoreAsks = 3
  MaxRuns = 2
  MAX_STEPS = 3
  REPEAT_WARN = 2
  REPEAT_STOP = 3
  Policies = {"read_only", "full_auto"}
  Beginnings <- MCBeginnings
  Threads = {t1, t2}
  Models = {m1, m2}
  MaxAsks = 3
  MaxLoads = 2
  ChatBeginnings <- MCChats
SYMMETRY MCSymmetry
INVARIANTS SettingsSafe LibrarySafe  
PROPERTIES ChangesAreAtomic
CHECK_DEADLOCK FALSE
