\* Two events without clips, two chats, a queue of one: one fault of any kind,
\* under fairness.  The second event has no driver group.  A poll whose page comes
\* without a cursor offers its events again, so runs are repeated without a fault.
\* Once the cursor has passed every event no poll finds one: a behaviour may end.
CONSTANTS
  e1 = e1
  e2 = e2
  Events = {e1, e2}
  NoEvent = NoEvent
  NoChat = NoChat
  notifications = notifications
  driver = driver
  Chats <- MCChats
  Forced = notifications
  DriverOf <- MCDriver
  ClipSets = {{}}
  Members = {}
  Panel = {driver}
  Batches <- Pages
  MaxQueue = 1
  MaxSeen = 1
  FaultKinds = {"dbRead", "dbWrite", "routing", "telegram", "lostAnswer", "refusal", "crash", "expire"}
  MaxFaults = 1
SPECIFICATION FairServiceSpec
INVARIANTS
  ProcessedReachedDriver
  PassedIsAccounted
PROPERTIES
  ContractSpec
  EveryEventReachesGroup
CHECK_DEADLOCK FALSE
