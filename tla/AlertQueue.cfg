\* Three events, a queue of one, a seen set of two: overflow and eviction both
\* happen; two faults of any kind.
CONSTANTS
  e1 = e1
  e2 = e2
  e3 = e3
  Events = {e1, e2, e3}
  NoEvent = NoEvent
  Batches <- Pages
  MaxQueue = 1
  MaxSeen = 2
  FaultKinds = {"dbRead", "dbWrite", "transform", "crash"}
  MaxFaults = 2
SPECIFICATION FairSpec
INVARIANTS
  TypeOK
  PendingAccounted
  OnePlace
  NoRedelivery
PROPERTIES
  QueueDrains
