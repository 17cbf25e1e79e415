SPECIFICATION LiveSpec
CONSTANTS
  Partitions <- MCPartitions
  Detectors <- MCDetectors
  Outages <- MCOutages
  Rejections <- MCRejections
  Grace = 2
  Threshold = 2
  MaxMoves = 3
INVARIANTS ReportsSound
PROPERTIES SeenAlarmPages OfflineAfterGrace PagesFollow
