SPECIFICATION MissionsSpec
CONSTANTS
  Stations = {"a", "b"}
  Sizes = {0, 1, 2, 3}
  MaxItems = 2
  UploadTimeout = 0
  BootPlans <- FourPlans
  Edits <- TwoEdits
  Restart = FALSE
  JumpSlots = 1
  FindLoops = 64
  SeekLoops = 255
  PreloadLoops = 255
  MaxPlan = 5
  MaxEdits = 1
INVARIANTS
  MissionsTypeOK
  ReceivingHasStore
  JumpsWithinPlan
  RunsOnlyInAuto
PROPERTIES
  AcceptedIsWhole
  FenceChangesAsAWhole
  UploadsEnd
  PlainRewindKeepsOrder
  MissionEnds
CHECK_DEADLOCK FALSE
