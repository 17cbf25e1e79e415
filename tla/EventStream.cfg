SPECIFICATION LiveSpec
CONSTANTS
  MaxFailures = 2
  MaxAttempts = 3
INVARIANTS
  ConnectionSound
  NeverStranded
PROPERTIES
  RefreshIsKept
  LiveIsOnlyReplaced
  LinkKept
  ComesBack
