SPECIFICATION Spec
CONSTANTS
  Partitions <- MCPartitions
  Detectors <- MCDetectors
  Outages <- MCOutages
  Rejections <- MCRejections
  Grace = 2
  Threshold = 2
  MaxMoves = 3
PROPERTIES AlarmResolvedByReading
