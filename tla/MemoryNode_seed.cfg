CONSTANTS
  odom = odom  map = map
  ramp = ramp  door = door
  e1 = e1  u1 = u1  u2 = u2  u3 = u3
  NotFinite = NotFinite
  NoSegment = NoSegment
  DefaultFrame = map
  NoFrame = NoFrame
  Blank = Blank
  NaN = NaN
  Infinite = Infinite
  None = None
  Message <- MCMessage
  SeedFile <- MCSeedFile
  EventId = {e1}
  FreshId = {u1, u2, u3}
  SegId = {ramp, door}
  Grid = 4
  Depth = 2
  MaxMessages = 3
  MaxRuns = 2
SPECIFICATION Spec
INVARIANT SeedIsNotFatal
