\* Two chats, three calls to Redis in flight at once, both backends; two
\* faults of any kind.
CONSTANTS
  Chats = {x1, x2}
  Backends = {"upstash", "file"}
  Calls = {c1, c2, c3}
  NoChat = NoChat
  FaultKinds = {"redis", "disk", "crash", "host"}
  MaxFaults = 2
SYMMETRY Symmetry
SPECIFICATION Spec
INVARIANTS
  ListedWhenTold
