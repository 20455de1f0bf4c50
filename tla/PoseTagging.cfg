CONSTANTS
  Position <- MCPosition
  Origin = 0
  NotFinite = NotFinite
  Kinds <- MCKinds
  Frame = {odom}
  UnknownFrame = UnknownFrame
  None = None
  MaxAge = 1
  Skew <- Behind
  MaxDelay = 1
  Depth = 1
  Start = 3
  MaxTime = 6
  MaxEvents = 2
SPECIFICATION Spec
INVARIANTS
  TypeOK
  CacheIsHonest
  EventsAreHonest
  UnsetStampIsUnlocated
