SPECIFICATION FairSpec
CONSTANTS
  Cap = 8
  NotifyMin = 3
  Lens = {1, 2}
INVARIANTS
  TypeOK
  NoOverwrite
  RingInv
  WaitsOnlyForReleases
PROPERTIES
  ReadsWhatWasWritten
  DoneFollowsReleases
  AllocServed
  ImplementsAtomicRing
