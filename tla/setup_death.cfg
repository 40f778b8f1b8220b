SPECIFICATION Spec
CONSTANTS
  c1 = c1
  Clients = {c1}
  ChannelCap = 1
  Faults = {"client"}
INVARIANTS
  AcceptNeverPanics
CHECK_DEADLOCK FALSE
