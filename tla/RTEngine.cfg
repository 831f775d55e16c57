SPECIFICATION FairSpec
CONSTANTS
  Models <- TwoModels
  Kinds <- OneKind
  KindOf <- SameKind
  Loaders <- TwoLoaders
  Unloaders <- OneUnloader
  Savers <- Nobody
  Chats <- Nobody
  Pollers <- OnePoller
  Hashers <- Nobody
  Configured = gguf
  NoModel = NoModel
  MaxEngines = 1
  MaxProcs = 3
  MaxSaves = 0
  MaxDeaths = 1
  MaxHangups = 1
  l1 = l1
  l2 = l2
  u1 = u1
  s1 = s1
  s2 = s2
  c1 = c1
  q1 = q1
  x1 = x1
  m1 = m1
  m2 = m2
  gguf = gguf
  palw = palw
INVARIANTS OneEngineAtATime
PROPERTIES SameModelNotRestarted  DeadEngineIsForgotten
CHECK_DEADLOCK FALSE
