\* Two events, an overlap and a bootstrap of one unit, so that an event may be older
\* than a first window; pages of one event; both pollers; one fault of any kind.
CONSTANTS
  e1 = e1
  e2 = e2
  Events = {e1, e2}
  Pollers = {"safety", "speeding"}
  Expiring = {"safety"}
  Overlap = 1
  Bootstrap = 1
  PageSize = 1
  MaxPages = 2
  MaxTime = 2
  NoTime = NoTime
  Unread = Unread
  FaultKinds = {"dbRead", "dbWrite", "disk", "http", "transform", "telegram", "crash", "expire"}
  MaxFaults = 1
SPECIFICATION FairSpec
INVARIANTS
  TypeOK
  CursorNotPastPickUp
  LossExplained
PROPERTIES
  OfferedIsDelivered
