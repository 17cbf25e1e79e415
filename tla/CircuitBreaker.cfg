SPECIFICATION LiveSpec
CONSTANTS
  c1 = c1
  c2 = c2
  c3 = c3
  c4 = c4
  Calls <- FourCalls
  FailureThreshold = 3
  ResetTimeout = 4
  SuccessesToClose = 3
  HalfOpenProbes = 2
  FailureWindow = 7
  FailureCoalesce = 2
INVARIANTS
  BreakerSound
  FailuresAreBursts
PROPERTIES
  ClosesOnRecovery
  NoTrap
