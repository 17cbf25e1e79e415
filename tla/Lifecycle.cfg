SPECIFICATION LiveSpec
CONSTANTS
  RawConfigs <- MCRawConfigs
  Launched <- MCLaunched
  OutcomeWindow = 4
  MinSamples = 3
  CountBase = 3
  MaxMoves = 2
CHECK_DEADLOCK FALSE
INVARIANTS LifecycleSound ComputedRight
PROPERTIES OutageIsWaitedOut Settles
