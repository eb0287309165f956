\* Two workers, one event with a clip from both cameras, two faults of any kind,
\* a batch that outlives its claims included: under fairness.
CONSTANTS
  notifications = notifications
  driver = driver
  j1 = j1
  Jobs = {j1}
  Chats <- MCChats
  TargetsOf <- MCTargets
  DriverGroups = {driver}
  Dual = {j1}
  Traceable = {j1}
  Workers = {w1, w2}
  Batch = 1
  MaxAttempts = 2
  NoJob = NoJob
  NoChat = NoChat
  FaultKinds = {"samsara", "refusal", "dbRead", "dbWrite", "telegram", "lostAnswer", "crash", "slow"}
  MaxFaults = 2
SPECIFICATION FairSpec
INVARIANTS
  TypeOK
  VideosExplained
  AsksExplained
  AlertNeverLost
  CompletedReached
PROPERTIES
  TerminalStays
  JobEnds
