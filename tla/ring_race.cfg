SPECIFICATION Spec
CONSTANTS
  Cap = 10
  NotifyMin = 2
  Lens = {1, 3}
INVARIANTS
  NoOverwrite
