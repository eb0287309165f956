\* A backlog of two pages when the poller has no watermark; no faults at all.
CONSTANTS
  e1 = e1
  e2 = e2
  Events = {e1, e2}
  Pollers = {"safety"}
  Expiring = {}
  Overlap = 1
  Bootstrap = 2
  PageSize = 1
  MaxPages = 2
  MaxTime = 2
  NoTime = NoTime
  Unread = Unread
  FaultKinds = {}
  MaxFaults = 0
SPECIFICATION FairSpec
PROPERTIES
  EveryEventPickedUp
