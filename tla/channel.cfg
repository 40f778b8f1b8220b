SPECIFICATION ChanSpec
CONSTANTS
  Cap = 7
  NotifyMin = 3
  Lens = {2}
  SendCap = 6
  QueueCap = 1
  Flags = {f1, f2, f3}
  Faults = {"post", "cancel"}
  Payloads = {p, q}
  None = None
SYMMETRY Symmetry
INVARIANTS
  BytesKept
PROPERTIES
  MessagesIntact
CHECK_DEADLOCK FALSE
