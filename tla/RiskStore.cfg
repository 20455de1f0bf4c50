CONSTANTS
  c1 = c1  c2 = c2
  i1 = i1  i2 = i2
  s1 = s1
  f1 = f1  f2 = f2
  NoSegment = NoSegment
  None = None
  Conn = {c1, c2}
  Id = {i1, i2}
  Segment = {s1}
  Factor = {f1, f2}
  Event <- MCEvent
  MaxStates = 2
  MaxTorn = 1
SPECIFICATION FairSpec
INVARIANTS
  TypeOK
  LockDiscipline
  TransactionIsolated
  RecoverableStatesAreWhole
  NoFactorlessRead
  EveryRowReturnedWhole
  ReadsInProgress
  ReadIsSnapshot
PROPERTIES
  ImplementsRiskLog
  LockIsReleased
  EveryCallEnds
