SPECIFICATION RtlSpec
CONSTANTS
  PointsMax = 6
  LoopsMax = 2
  CleanupTrigger = 4
  CleanupMin = 4
  StartMargin = 1
PROPERTIES
  ReturnStartsClean
  ErrorsHaveCauses
