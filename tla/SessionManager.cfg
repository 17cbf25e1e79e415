SPECIFICATION LiveSpec
CONSTANTS
  c1 = c1
  c2 = c2
  c3 = c3
  NoCaller = NoCaller
  Callers <- ThreeCallers
  Lifetime = 3
  FailedLoginFloor = 1
  MaxFloorWait = 2
  KeepAliveLimit = 2
  MaxSessions = 2
INVARIANTS
  SignInSound
PROPERTIES
  FloorIsKept
  OldProbeSparesNewSession
  HandedOutWasVerified
  RequestsEnd
