\* One event, one fault: the broadcast throws.
CONSTANTS
  e1 = e1
  Events = {e1}
  Pollers = {"safety"}
  Expiring = {}
  Overlap = 1
  Bootstrap = 2
  PageSize = 1
  MaxPages = 2
  MaxTime = 2
  NoTime = NoTime
  Unread = Unread
  FaultKinds = {"telegram"}
  MaxFaults = 1
SPECIFICATION Spec
INVARIANTS
  RetriedNextPoll
