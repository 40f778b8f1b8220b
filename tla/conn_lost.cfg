SPECIFICATION Spec
CONSTANTS
  Rqe = 2
  Slots = 8
  Batch = 2
  Initiators = {"client"}
  Requests = 7
  Faults = {"lag", "cancel"}
INVARIANTS
  RqeNeverShort
CHECK_DEADLOCK FALSE
