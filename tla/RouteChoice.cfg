CONSTANTS
  slip = slip  fault = fault
  stairs = stairs  hall = hall
  None = None
  NoCategory = NoCategory
  Category = {slip, fault}
  Horizon = 1
  MaxDominant = 3
  MaxEvidence = 1
  Segment = {stairs, hall}
  Event <- MCEvent
  RouteId = {"a", "b"}
  Request <- MCRequest
  Weights <- MCWeights
  Depth = 1
  MaxTime = 1
  MaxVersions = 4
SPECIFICATION Spec
INVARIANTS
  TypeOK
  ScoresAreBracketed
  ChoiceIsJustified
  AvoidanceIsEvidenced
  ShorterIsShorter
  RemainingRiskIsEvidenced
