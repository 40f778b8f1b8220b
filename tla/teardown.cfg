SPECIFICATION FairSpec
CONSTANTS
  Conns = {c}
  Rqe = 2
  MaxRefs = 2
  MaxSends = 2
INVARIANTS
  TypeOK
  RegionsBacked
  DropsInOrder
  UsersHaveQp
  LifeInv
PROPERTIES
  DetachedEnds
CHECK_DEADLOCK FALSE
