SPECIFICATION Spec
CONSTANTS
  Modes = {"STABILIZE", "ALT_HOLD", "AUTO", "LOITER", "RTL", "LAND", "BRAKE"}
  Tasks = {"read_radio", "throttle_loop", "mode_switch", "rudder", "gcs_check", "battery", "ekf_check"}
  FsThr = "AUTO_DO_LAND_START"
  FsGcs = "RTL"
  FsDr = "NONE"
  FsEkf = "LAND"
  FenceAction = "RTL"
  LowAction = "LAND"
  CritAction = "BRAKE_LAND"
  FsOptions = {}
  DisarmOnLand = TRUE
  AutoArming = FALSE
  SprungThrottle = FALSE
  EkfIterMax = 1
  Envs <- FlightEnvs
PROPERTIES
  BatteryLandingHeld
  BatteryIsMonitored
