SPECIFICATION Spec
CONSTANTS
  c1 = c1
  c2 = c2
  c3 = c3
  NoCaller = NoCaller
  Callers <- TwoCallers
  Lifetime = 3
  FailedLoginFloor = 1
  MaxFloorWait = 2
  KeepAliveLimit = 2
  MaxSessions = 2
PROPERTY HeldWhileItWorks
