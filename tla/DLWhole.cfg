SPECIFICATION Spec
CONSTANTS
  Slots <- OneSlot
  Hashers <- Nobody
  Waiters <- Nobody
  Ids <- TwoIds
  Kind <- ArtifactAndFetch
  Contents <- TwoContents
  Length <- Growing
  Offers <- BothIds
  Digested <- TwoIds
  IgnoresRange = TRUE
  LateWrites = FALSE
  MaxCuts = 2
  MaxCancels = 1
  MaxCrashes = 1
  MaxHangups = 1
  MaxDeletes = 1
  NoFile = NoFile
  NoSlot = NoSlot
  NoId = NoId
  NoContent = NoContent
  d1 = d1
  d2 = d2
  h1 = h1
  w1 = w1
  id1 = id1
  id2 = id2
  v1 = v1
  v2 = v2
INVARIANTS DestIsWhole JobsAreTracked
PROPERTIES BytesKept
