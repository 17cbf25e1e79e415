SPECIFICATION Spec
CONSTANTS
  None = None
  AllowHomeKitArming = TRUE
  NightOffered = FALSE
  BypassedTargets <- NoneBypassed
  UserTargets <- AwayAndDisarm
  Readings <- CalmReadings
  ContactConditions <- DoorsShut
  Outcomes <- Answered
  ReportingMayThrow = TRUE
  HapWindow = 1
  CommandLimit = 2
  SettleWindow = 3
  MaxRequests = 3
INVARIANT NeverTwoOut
