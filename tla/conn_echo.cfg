SPECIFICATION FairSpec
CONSTANTS
  Rqe = 2
  Slots = 4
  Batch = 1
  Initiators = {"client"}
  Requests = 14
  Faults = {}
INVARIANTS
  TypeOK
  RqeNeverShort
  DaemonNeverWaits
  ReleaseNeverStalls
  SendQueueNeverFull
  SpaceConserved
  ConnInv
PROPERTIES
  SendsComplete
  BothAreRings
CHECK_DEADLOCK FALSE
