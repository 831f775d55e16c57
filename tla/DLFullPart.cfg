SPECIFICATION EagerSpec
CONSTANTS
  Slots <- OneSlot
  Hashers <- Nobody
  Waiters <- Nobody
  Ids <- OneId
  Kind <- AModel
  Contents <- OneContent
  Length <- Short
  Offers <- OneOffer
  Digested <- OneId
  IgnoresRange = FALSE
  LateWrites = FALSE
  MaxCuts = 0
  MaxCancels = 0
  MaxCrashes = 1
  MaxHangups = 0
  MaxDeletes = 0
  NoFile = NoFile
  NoSlot = NoSlot
  NoId = NoId
  NoContent = NoContent
  d1 = d1
  d2 = d2
  h1 = h1
  w1 = w1
  id1 = id1
  id2 = id2
  v1 = v1
  v2 = v2
PROPERTIES ArrivesInTheEnd
