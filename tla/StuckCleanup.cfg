SPECIFICATION RtlSpec
CONSTANTS
  PointsMax = 5
  LoopsMax = 1
  CleanupTrigger = 4
  CleanupMin = 4
  StartMargin = 1
PROPERTY
  CleanupNotStuck
