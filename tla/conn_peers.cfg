SPECIFICATION Spec
CONSTANTS
  Rqe = 2
  Slots = 8
  Batch = 2
  Initiators = {"client", "server"}
  Requests = 4
  Faults = {}
INVARIANTS
  RqeNeverShort
CHECK_DEADLOCK FALSE
