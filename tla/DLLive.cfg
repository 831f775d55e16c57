SPECIFICATION EagerSpec
CONSTANTS
  Slots <- OneSlot
  Hashers <- OneHasher
  Waiters <- OneWaiter
  Ids <- OneId
  Kind <- AModel
  Contents <- TwoContents
  Length <- SameLength
  Offers <- TwoRevisions
  Digested <- OneId
  IgnoresRange = FALSE
  LateWrites = TRUE
  MaxCuts = 1
  MaxCancels = 1
  MaxCrashes = 0
  MaxHangups = 1
  MaxDeletes = 0
  NoFile = NoFile
  NoSlot = NoSlot
  NoId = NoId
  NoContent = NoContent
  d1 = d1
  d2 = d2
  h1 = h1
  w1 = w1
  id1 = id1
  id2 = id2
  v1 = v1
  v2 = v2
INVARIANTS ArrivedIsTrue
PROPERTIES WaitReturns 
