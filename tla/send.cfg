SPECIFICATION FairSpec
CONSTANTS
  Cap = 9
  Lens = {2}
  QueueCap = 2
  Flags = {f1, f2, f3, f4}
  Faults = {"post", "cancel"}
INVARIANTS
  NoOverwriteLocal
  SendInv
PROPERTIES
  SectionServed
  StepKept
CHECK_DEADLOCK FALSE
