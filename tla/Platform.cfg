SPECIFICATION LiveSpec
CONSTANTS
  Partitions <- MCPartitions
  Sensors <- MCSensors
  Ignored <- MCIgnored
  IncludeUnmonitored = FALSE
  Readings <- MCReadings
  Tripped <- MCTripped
  AtFirst <- MCAtFirst
  Caches <- MCCaches
  Jobs = {1, 2}
  MaxMoves = 2
CHECK_DEADLOCK FALSE
INVARIANTS PlatformSound
PROPERTIES RemovedOnEvidence CatchesUp CycleEnds
