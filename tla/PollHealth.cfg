SPECIFICATION FairSpec
CONSTANTS
  on = on
  off = off
  foreign = foreign
  Rows <- MCRows
  Panel <- MCPanel
  EnvSpeeding = TRUE
  EnvKey = FALSE
  Ttl = 3
  FailedTtl = 1
  Threshold = 3
  Grace = 2
  MaxSaves = 1
  MaxBeats = 1
  FaultKinds = {"query", "samsara", "slow", "crash"}
  MaxFaults = 1
INVARIANTS
  TypeOK
  AppliedIsRecent
  StallReported
PROPERTIES
  PanelApplies
  HealthRecovers
