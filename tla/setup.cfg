SPECIFICATION FairSpec
CONSTANTS
  c1 = c1
  c2 = c2
  Clients = {c1, c2}
  ChannelCap = 1
  Faults = {"client", "listener", "device", "application"}
INVARIANTS
  TypeOK
  OpenMeetsReadyPeer
  SetupInv
PROPERTIES
  ConnectEnds
  ConnectedIsAccepted
CHECK_DEADLOCK FALSE
