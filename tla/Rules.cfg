SPECIFICATION Spec
CONSTANTS
  HeadCap = 3
  TailCap = 3
  Snap = 2
  LineChars = 7
  Contents <- MCContents
  Olds <- MCOlds
  News <- MCNews
  Patches <- MCPatches
  Chunked <- MCChunked
  Root <- MCRoot
  GitNames = {".git"}
  MatchScore = 4
  Consecutive = 3
  GapStart = 2
  GapExtend = 1
  Disks <- MCDisks
  Parts <- MCParts
  Listings <- MCListings
  Queries <- MCQueries
  Texts <- MCTexts
  GlobRules <- MCGlobRules
  GlobLists <- MCGlobLists
  BoundaryBonus = 3
  DelimiterBonus = 2
  NameBonus = 5
  ExactBonus = 9
  Scans <- MCScans
  Porcelains <- MCPorcelains
  WordBytes = 2
  Symbols = 2
  OverheadFloor = 1
  OsReserve = 2
  DefaultKv = 2
  TrainedCap = 20
  DefaultTrained = 4
  CtxFloor = 2
  Tags <- MCTags
  FileTypes <- MCFileTypes
  MaxKv = 2
  MaxTensors = 2
  MaxString = 2
  MaxArray = 3
  Preview = 1
  FileLists <- MCFileLists
  Conversations <- MCConversations
  Records <- MCRecords
  Spoils <- MCSpoils
  Machines <- MCMachines
  Models <- MCModels
  Names <- MCNames
  Ggufs <- MCGgufs
  MAX_DEPTH = 2
  ShardNumbers <- MCShardNumbers
  ModelTrees <- MCModelTrees
  RootOrders <- MCRootOrders
  Talks <- MCTalks
  Pins <- MCPins
  Windows <- MCWindows
  Ceilings <- MCAsks
  Scales <- MCScales
  Summaries <- MCSummaries
  CharTexts <- MCCharTexts
  FitTables <- MCFitTables
  Olders <- MCPrefixes
  CacheEntries = 2
  FoldTokens = 5
  Streamed <- MCStreamed
  TailLength = 3
  LeastPeriod = 2
  MostPeriod = 3
  MAX_DAA_SKEW = 12
  COINBASE_MATURITY_DAA = 2
  MaxAmount = 6
  LOG_CAPACITY = 3
  EVENT_CAPACITY = 2
  CARRIER_CAPACITY = 2
  MinerSettings <- MCMinerSettings
  NodeReads <- MCNodeReads
  Programs <- MCPrograms
  Held <- MCHeld
  MinerLines <- MCMinerLines
  StackSettings <- MCStackSettings
  Frames <- MCFrames
  Utxos <- MCUtxos
  Tables <- MCTables
  Cards <- MCCards
  Releases <- MCReleases
  TagTexts <- MCTagTexts
  FileTrees <- MCFileTrees
  DeviceTexts <- MCDeviceTexts
  Runs <- MCRuns
  EngineModels <- MCEngineModels
  DeviceLists <- MCDeviceLists
  EarlierLogs <- MCEarlierLogs
  Banners <- MCBanners
  LoadWindows <- MCLoadWindows
  OffloadSettings <- MCOffloadSettings
  LoadLogs <- MCLoadLogs
INVARIANTS TextsAreExact  ModelsAreKnown  MinersAreTrue EnginesAreTrue
CHECK_DEADLOCK FALSE
