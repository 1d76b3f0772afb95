SPECIFICATION MissionsSpec
CONSTANTS
  Stations = {"a"}
  Sizes = {0, 1}
  MaxItems = 1
  UploadTimeout = 1
  BootPlans <- LapAndOn
  Edits <- NoEdits
  Restart = FALSE
  JumpSlots = 15
  FindLoops = 64
  SeekLoops = 255
  PreloadLoops = 255
  MaxPlan = 5
  MaxEdits = 0
PROPERTY
  RewindKeepsOrder
CHECK_DEADLOCK FALSE
