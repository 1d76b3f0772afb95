SPECIFICATION FairSpec
CONSTANTS
  Modes = {"STABILIZE", "ALT_HOLD", "AUTO", "LOITER", "RTL", "LAND", "BRAKE", "SMART_RTL"}
  Tasks = {"read_radio", "throttle_loop", "mode_switch", "ekf_check", "gcs_mode", "gcs_arm", "gcs_takeoff", "crash_check"}
  FsThr = "RTL"
  FsGcs = "RTL"
  FsDr = "NONE"
  FsEkf = "LAND"
  FenceAction = "RTL"
  LowAction = "RTL"
  CritAction = "LAND"
  FsOptions = {}
  DisarmOnLand = TRUE
  AutoArming = TRUE
  SprungThrottle = FALSE
  EkfIterMax = 2
  Envs <- AllEnvs
INVARIANTS
  EkfFailsafeHeld
  SubmodeBelongsToMode
PROPERTIES
  LandingEnds
