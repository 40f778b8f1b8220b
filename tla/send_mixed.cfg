SPECIFICATION Spec
CONSTANTS
  Cap = 8
  Lens = {1, 2}
  QueueCap = 2
  Flags = {f1, f2, f3, f4}
  Faults = {"post"}
SYMMETRY Symmetry
INVARIANTS
  TypeOK
  NoOverwriteLocal
  WaitsOnlyForSections
PROPERTIES
  DoneFollowsSections
CHECK_DEADLOCK FALSE
