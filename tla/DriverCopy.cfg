SPECIFICATION Spec
CONSTANTS
  safety = safety
  speeding = speeding
  Lanes <- MCLanes
  AiLanes <- MCLanes
  MusicLanes <- MCLanes
  Speeding <- MCSpeeding
  CrashLanes <- MCCrashLanes
  ClipSets <- MCClipSets
  ClipSizes <- MCClipSizes
  Groups <- MCGroups
  NoGroup = NoGroup
  LinkedAtStart <- MCLinked
  TitlesAtStart <- MCTitles
  MaxEdits = 1
  GroqKey = TRUE
  GeminiKey = TRUE
  GroqModels = 2
  GeminiModels = 1
  MaxTries = 2
  FaultKinds = {"query", "download", "telegram", "crash"}
  MaxFaults = 1
INVARIANTS
  TypeOK
  FindingsCurrent
  ClipsKept
  JobsAccounted
