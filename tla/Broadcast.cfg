\* One alert, with or without clips, three chats, two of which come and go, and two faults.
CONSTANTS
  alert = alert
  notifications = notifications
  subscriber = subscriber
  driver = driver
  NoEvent = NoEvent
  NoChat = NoChat
  Events <- MCEvents
  Chats <- MCChats
  Forced = notifications
  DriverOf <- MCDriver
  ClipSets = {{}, {"road", "cabin"}}
  Members = {subscriber, driver}
  Panel = {driver}
  FaultKinds = {"dbRead", "dbWrite", "routing", "telegram", "lostAnswer", "refusal", "crash"}
  MaxFaults = 2
SPECIFICATION Spec
INVARIANTS
  TypeOK
  DuplicatesExplained
  LedgerTruthful
  CleanRunReachedAll
  OnlyAudience
