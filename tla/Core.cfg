CONSTANTS
  NotFinite = NotFinite
  NoSegment = NoSegment
  DefaultFrame = map
  NoFrame = NoFrame
  Width = 2
  Height = 1
  Grid = 20
  MaxSegs = 2
  Frame = {map, odom, NoFrame}
  FileSegment <- TwoPlaces
  SegId = {ramp, door, hall}
  MaxLines = 4
  MaxFiles = 3
SPECIFICATION Spec
INVARIANTS
  FindsTheNearest
  MergeIsOneFile
CHECK_DEADLOCK FALSE
