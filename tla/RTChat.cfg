SPECIFICATION Spec
CONSTANTS
  Models <- TwoModels
  Kinds <- TwoKinds
  KindOf <- OwnKind
  Loaders <- OneLoader
  Unloaders <- Nobody
  Savers <- OneSaver
  Chats <- OneChat
  Pollers <- Nobody
  Hashers <- OneHasher
  Configured = gguf
  NoModel = NoModel
  MaxEngines = 3
  MaxProcs = 2
  MaxSaves = 1
  MaxDeaths = 0
  MaxHangups = 0
  l1 = l1
  l2 = l2
  u1 = u1
  s1 = s1
  s2 = s2
  c1 = c1
  q1 = q1
  x1 = x1
  m1 = m1
  m2 = m2
  gguf = gguf
  palw = palw
INVARIANTS TypeOK LoadedIsServed ActiveCountsStreams
CHECK_DEADLOCK FALSE
