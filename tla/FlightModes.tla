----------------------------- MODULE FlightModes -----------------------------
(***************************************************************************)
(* The flight modes of ArduCopter and the attributes Copter::set_mode, the *)
(* arming checks and the failsafe handlers ask of them (ArduCopter/mode.h),*)
(* and the failsafe actions with the modes each one falls back through     *)
(* (ArduCopter/events.cpp).  State-free: Copter.tla and BattMonitor.tla    *)
(* are built on it.                                                        *)
(*                                                                         *)
(* Of the 27 modes the eight that the failsafe handlers and the pilot's    *)
(* basic flight use are here.  AUTO_RTL is a mode number but not a mode:   *)
(* it is AUTO entered to fly a landing sequence, and the flag auto_RTL     *)
(* makes AUTO report it.                                                   *)
(***************************************************************************)
EXTENDS Naturals

TrueModes ==
    {"STABILIZE", "ALT_HOLD", "AUTO", "LOITER", "RTL", "LAND", "BRAKE", "SMART_RTL"}

ModeNumbers == TrueModes \cup {"AUTO_RTL"}

\* The modes mode_from_mode_num returns in every build, whatever the
\* MODE_*_ENABLED switches of config.h.
AlwaysBuilt == {"STABILIZE", "ALT_HOLD", "LAND"}

\* has_manual_throttle(): the pilot's stick is the throttle.
HasManualThrottle(m) == m = "STABILIZE"

\* requires_GPS().  ModeAuto answers FALSE in its NAV_ATTITUDE_TIME sub-mode,
\* which is left out: missions here have no such item.
RequiresGPS(m) == m \notin {"STABILIZE", "ALT_HOLD", "LAND"}

\* is_autopilot(): nobody is expected to hold the sticks.
IsAutopilot(m) == m \in {"AUTO", "RTL", "LAND", "SMART_RTL"}

\* allows_arming(): autoOK is ModeAuto's own answer, which depends on a
\* parameter and on its auto_RTL flag.
AllowsArming(m, autoOK) ==
    \/ m \in {"STABILIZE", "ALT_HOLD", "LOITER"}
    \/ m = "AUTO" /\ autoOK

\* requires_terrain_failsafe()
RequiresTerrain(m) == m \in {"AUTO", "RTL", "SMART_RTL"}

-----------------------------------------------------------------------------
\* enum FailsafeAction
FailsafeActions ==
    {"NONE", "LAND", "RTL", "SMARTRTL", "SMARTRTL_LAND", "TERMINATE",
     "AUTO_DO_LAND_START", "BRAKE_LAND"}

\* The modes the set_mode_*_or_* functions try in turn for an action: the
\* first that can be set is flown.  LOITER_OR_RTL is the obstacle failsafe's.
Fallbacks(action) ==
    CASE action = "LAND"               -> <<"LAND">>
      [] action = "RTL"                -> <<"RTL", "LAND">>
      [] action = "SMARTRTL"           -> <<"SMART_RTL", "RTL", "LAND">>
      [] action = "SMARTRTL_LAND"      -> <<"SMART_RTL", "LAND">>
      [] action = "AUTO_DO_LAND_START" -> <<"AUTO_RTL", "RTL", "LAND">>
      [] action = "BRAKE_LAND"         -> <<"BRAKE", "LAND">>
      [] action = "LOITER_OR_RTL"      -> <<"LOITER", "RTL", "LAND">>

\* The index AP_BattMonitor finds an action at in Copter::_failsafe_priorities,
\* highest priority first: that of the sentinel -1 for one that is not listed.
Priority(action) ==
    CASE action = "TERMINATE"     -> 0
      [] action = "LAND"          -> 1
      [] action = "RTL"           -> 2
      [] action = "SMARTRTL_LAND" -> 3
      [] action = "SMARTRTL"      -> 4
      [] action = "NONE"          -> 5
      [] OTHER                    -> 6

FAILSAFE_LAND_PRIORITY == 1

\* INT8_MAX, the value of _highest_failsafe_priority before any failsafe.
NoPriority == 127
=============================================================================
