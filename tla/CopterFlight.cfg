SPECIFICATION Spec
CONSTANTS
  Modes = {"STABILIZE", "ALT_HOLD", "AUTO", "LOITER", "RTL", "LAND"}
  Tasks = {"read_radio", "throttle_loop", "mode_switch", "rudder", "gcs_check", "terrain_check", "deadreckon_check", "fence_check"}
  FsThr = "LAND"
  FsGcs = "RTL"
  FsDr = "RTL"
  FsEkf = "LAND"
  FenceAction = "RTL"
  LowAction = "RTL"
  CritAction = "LAND"
  FsOptions = {}
  DisarmOnLand = TRUE
  AutoArming = FALSE
  SprungThrottle = FALSE
  EkfIterMax = 2
  Envs <- FlightEnvs
PROPERTIES
  FlightKeepsMotors
