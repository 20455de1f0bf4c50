CONSTANTS
  body = body  site = site
  ramp = ramp  door = door  u1 = u1
  Position <- MCPosition
  Origin <- Here
  NotFinite = NotFinite
  Kinds = {"alert"}
  Frame = {body}
  UnknownFrame = UnknownFrame
  None = None
  MaxAge = 1
  Skew <- Behind
  MaxDelay = 1
  Depth = 1
  Start = 3
  MaxTime = 6
  MaxEvents = 1
  SeedFile <- MCSeedFile
  FreshId = {u1}
  SegId = {ramp, door}
  NaN = NaN
  Infinite = Infinite
  NoSegment = NoSegment
  DefaultFrame = site
  NoFrame = NoFrame
  Grid = 20
  Offset <- OneOrigin
  MemDepth = 1
  MaxDelivered = 1
  MaxMemRuns = 2
SPECIFICATION IngestSpec
INVARIANT JoinsAreTrue
CHECK_DEADLOCK FALSE
VIEW WhatMatters
