SPECIFICATION Spec
CONSTANTS
  Modes = {"STABILIZE", "ALT_HOLD", "AUTO", "LOITER", "RTL", "LAND", "BRAKE", "SMART_RTL"}
  Tasks = {"read_radio", "throttle_loop", "mode_switch", "rudder", "auto_disarm", "ekf_check", "gcs_check"}
  FsThr = "RTL"
  FsGcs = "RTL"
  FsDr = "NONE"
  FsEkf = "ALT_HOLD"
  FenceAction = "RTL"
  LowAction = "RTL"
  CritAction = "LAND"
  FsOptions = {}
  DisarmOnLand = TRUE
  AutoArming = FALSE
  SprungThrottle = TRUE
  EkfIterMax = 2
  Envs <- AltitudeHeld
INVARIANTS
  TypeOK
  EkfLandsWithoutGPS
  RadioLossHeld
