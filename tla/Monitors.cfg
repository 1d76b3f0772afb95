SPECIFICATION MonitorsSpec
CONSTANTS
  N = 3
  LowActions <- ThreeLow
  CritActions <- ThreeCritical
  ResetLevels = {0}
  TripAfter = 2
  RepeatAfter = 1
  MaxTime = 4
  FsCounter = 3
  Timeout = 2
  PointsMax = 4
  LoopsMax = 1
  CleanupTrigger = 4
  CleanupMin = 4
  StartMargin = 1
INVARIANTS
  MonitorsTypeOK
  NoBatteryIgnored
  TriggeredIffFailsafe
PROPERTIES
  OnlySilentLoopTrips
  HungLoopStopsMotors
  LowThrottleEndsSlowly
  SilenceIsNoticed
  GoodLinkEndsFailsafe
  CleanupEnds
