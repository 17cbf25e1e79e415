SPECIFICATION LiveSpec
CONSTANTS
  None = None
  AllowHomeKitArming = TRUE
  NightOffered = FALSE
  BypassedTargets <- NoneBypassed
  UserTargets <- NightAndDisarm
  Readings <- AllReadings
  ContactConditions <- DoorsMove
  Outcomes <- AnyOutcome
  ReportingMayThrow = FALSE
  HapWindow = 1
  CommandLimit = 2
  SettleWindow = 3
  MaxRequests = 3
INVARIANTS
  AccessorySound
  OneCommandOut
  NewestIsCarried
PROPERTIES
  OnlyNewestOutcomeDropsTarget
  IdleMeansReadBack
  TargetIsRetired
  PromiseKept
