SPECIFICATION Spec
CONSTANTS
  safety = safety
  speeding = speeding
  Lanes <- OneLane
  AiLanes <- OneLane
  MusicLanes <- OneLane
  Speeding <- OneLane
  CrashLanes <- NoLanes
  ClipSets <- OneClipSets
  ClipSizes <- MCClipSizes
  Groups <- OneGroup
  NoGroup = NoGroup
  LinkedAtStart <- OneGroup
  TitlesAtStart <- OneTitle
  MaxEdits = 0
  GroqKey = TRUE
  GeminiKey = TRUE
  GroqModels = 2
  GeminiModels = 2
  MaxTries = 2
  FaultKinds = {}
  MaxFaults = 0
INVARIANT AiNeverBlocks
