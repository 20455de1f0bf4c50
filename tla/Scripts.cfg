CONSTANTS
  None = None
  MaxEvents = 2
  LiveArm <- MCLiveArm
  MaxEvidence = 2
  Depth = 2
  MaxLaunches = 2
  MaxChecks = 2
  Scenario <- MCScenario
  DemoDepth = 3
  MaxDemos = 3
  Period = 10
SPECIFICATION Spec
INVARIANTS
  PassProvesWiring
  FailIsForDelivery
  AnswersAreOwn
  CrossRunHolds
  RecordedInOrder
PROPERTIES
  LiveIsOffline
  EveryRunEnds
CHECK_DEADLOCK FALSE
