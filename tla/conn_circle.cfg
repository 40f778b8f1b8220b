SPECIFICATION Spec
CONSTANTS
  Rqe = 3
  Slots = 3
  Batch = 1
  Initiators = {"client"}
  Requests = 8
  Faults = {}
INVARIANTS
  NoMutualWait
CHECK_DEADLOCK FALSE
