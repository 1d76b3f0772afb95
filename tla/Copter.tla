------------------------------- MODULE Copter --------------------------------
(***************************************************************************)
(* The main loop of ArduCopter as far as flight modes, arming, landing and *)
(* the failsafes are concerned.                                            *)
(*                                                                         *)
(* One thread runs everything here, so the interleaving to check is the    *)
(* order of the loop: the fast tasks of Copter::scheduler_tasks one after  *)
(* another in their order (motors_output, update_flight_mode, the land and *)
(* crash detectors), then whatever scheduled tasks are due, MAVLink        *)
(* commands included, in any number and any order.  phase is the place     *)
(* reached in that loop.                                                   *)
(*                                                                         *)
(* A handler is a sequence of calls that each test and change the vehicle, *)
(* so the part of the state they change is one record, veh, and a handler  *)
(* is an operator from a vehicle to a vehicle.  What the handlers read of  *)
(* the world (estimators, home, mission, recorded path, throttle) is an    *)
(* environment, a record chosen at every step from the set Envs.           *)
(*                                                                         *)
(* Not here: the modes missing from FlightModes, motor interlock and       *)
(* emergency stop switches, ARMING_CHECK = 0, standby, airmode, vibration  *)
(* compensation; how loss of the radio is detected (RadioLink), several    *)
(* batteries (BattMonitor), the timer interrupt (CpuFailsafe); and the     *)
(* NAV_ATTITUDE_TIME items of a mission, which need no position.           *)
(***************************************************************************)
EXTENDS FlightModes

CONSTANTS
    Modes,         \* the modes this build has
    Tasks,         \* the scheduled tasks and commands that may run
    FsThr,         \* FS_THR_ENABLE: the action when the radio is lost
    FsGcs,         \* FS_GCS_ENABLE
    FsDr,          \* FS_DR_ENABLE
    FsEkf,         \* FS_EKF_ACTION
    FenceAction,   \* FENCE_ACTION, as a failsafe action or "REPORT"
    LowAction,     \* BATT_FS_LOW_ACT
    CritAction,    \* BATT_FS_CRT_ACT
    FsOptions,     \* the bits set in FS_OPTIONS
    DisarmOnLand,  \* THR_BEHAVE_DISARM_ON_LAND_DETECT
    AutoArming,    \* AUTO_OPTIONS allows arming in AUTO
    SprungThrottle,   \* THR_BEHAVE_FEEDBACK_FROM_MID_STICK
    EkfIterMax,    \* EKF_CHECK_ITERATIONS_MAX, scaled down
    Envs           \* the environments a step may meet

Environment ==
    [pos        : BOOLEAN,   \* the EKF has a horizontal position
     alt        : BOOLEAN,   \* ekf_alt_ok()
     home       : BOOLEAN,   \* home_is_set()
     srtl       : BOOLEAN,   \* smart_rtl.is_active()
     mission    : BOOLEAN,   \* mission.num_commands() > 1
     takeoffCmd : BOOLEAN,   \* mission.starts_with_takeoff_cmd()
     landSeq    : BOOLEAN,   \* mission.jump_to_landing_sequence() succeeds
     thrHigh    : BOOLEAN]   \* throttle in above get_non_takeoff_throttle()

TaskNames ==
    {"read_radio", "throttle_loop", "mode_switch", "rudder", "auto_disarm",
     "ekf_check", "gcs_check", "terrain_check", "deadreckon_check",
     "fence_check", "battery", "crash_check", "obstacle", "gcs_mode",
     "gcs_arm", "gcs_takeoff"}

ASSUME CopterAssumption ==
    /\ AlwaysBuilt \subseteq Modes /\ Modes \subseteq TrueModes
    /\ Tasks \subseteq TaskNames
    /\ {FsThr, FsGcs, FsDr, LowAction, CritAction} \subseteq FailsafeActions
    /\ FsEkf \in {"LAND", "ALT_HOLD", "LAND_EVEN_STABILIZE"}
    /\ FenceAction \in {"REPORT", "LAND", "RTL", "SMARTRTL", "SMARTRTL_LAND", "BRAKE_LAND"}
    /\ FsOptions \subseteq {"RC_CONTINUE_IF_AUTO", "GCS_CONTINUE_IF_AUTO",
                            "CONTINUE_IF_LANDING", "GCS_CONTINUE_IF_PILOT"}
    /\ {DisarmOnLand, AutoArming, SprungThrottle} \subseteq BOOLEAN
    /\ EkfIterMax \in Nat \ {0}
    /\ Envs \subseteq Environment

Legs == {"GO", "ARRIVED", "TAKEOFF", "DESCENT", "LAND"}
SpoolStates == {"SHUT_DOWN", "GROUND_IDLE", "SPOOLING", "UNLIMITED"}
DesiredSpoolStates == {"SHUT_DOWN", "GROUND_IDLE", "UNLIMITED"}
Phases == {"motors_output", "update_flight_mode", "land_detector", "tasks"}
DisarmMethods ==
    {"NONE", "RUDDER", "MAVLINK", "DISARMDELAY", "LANDED", "MISSIONEXIT",
     "CRASH", "FENCEBREACH", "RADIOFAILSAFE", "GCSFAILSAFE",
     "BATTERYFAILSAFE", "TERRAINFAILSAFE", "DEADRECKON_FAILSAFE", "TERMINATE"}

VARIABLES
    phase,          \* where the loop is
    veh,            \* the vehicle (see Vehicle)
    autoArmed,      \* ap.auto_armed
    throttleZero,   \* ap.throttle_zero
    spool,          \* motors->get_spool_state()
    spoolDesired,   \* motors->_spool_desired
    fsRadio, fsGcs, fsEkf, fsTerrain, fsDr,   \* struct failsafe
    ekf,            \* ekf_check_state: fail count, bad variance, ever passed
    batt,           \* state[0].failsafe of the battery: 0 none, 1 low, 2 critical
    battPriority    \* _highest_failsafe_priority

\* leg is the sub-mode, as far as it matters, of the RTL, SMART_RTL or AUTO
\* that is flown.  TAKEOFF is AUTO's, DESCENT the final descent of an RTL,
\* ARRIVED an RTL whose stay over home is over (_state_complete).
Vehicle ==
    [mode : TrueModes, leg : Legs, autoRTL : BOOLEAN,
     controlPos : BOOLEAN,     \* ModeLand::control_position
     takeoff : BOOLEAN,        \* Mode::takeoff.running()
     armed : BOOLEAN, armingDelay : BOOLEAN,
     landed : BOOLEAN,         \* ap.land_complete
     disarmedBy : DisarmMethods]   \* _last_disarm_method, NONE while armed

fsVars == <<fsRadio, fsGcs, fsEkf, fsTerrain, fsDr>>
battVars == <<batt, battPriority>>
vars == <<phase, veh, autoArmed, throttleZero, spool, spoolDesired, fsVars, ekf, battVars>>

-----------------------------------------------------------------------------
(* set_mode *)

\* Mode::mode_number() of the mode that is flown.
ModeNumber(v) == IF v.autoRTL THEN "AUTO_RTL" ELSE v.mode

\* Bug: position_ok() trusts the estimator through an EKF failsafe.
PositionOk_NoFailsafe(e) == e.pos

PositionOk(e) == ~fsEkf /\ e.pos

\* Mode::init() of a mode.  The checks are not made on a disarmed vehicle.
InitOk(v, m, e) ==
    /\ m = "RTL" /\ v.armed => e.home
    /\ m = "SMART_RTL" => e.srtl
    /\ m = "AUTO" /\ v.armed => e.mission /\ (v.landed => e.takeoffCmd)

\* What Copter::set_mode asks before it calls init().
MayInit(v, m, e) ==
    /\ m \in Modes
    /\ v.armed => /\ RequiresGPS(m) => PositionOk(e)
                  /\ HasManualThrottle(v.mode) /\ ~HasManualThrottle(m) => e.alt

\* The attitude controller's throttle input can only be high while the motors
\* turn, a pilot takeoff ramps it, or the mode's run() leaves it as it was.
ThrottleHigh(v, e) ==
    /\ e.thrHigh
    /\ spool \in {"SPOOLING", "UNLIMITED"} \/ v.takeoff \/ v.mode \in {"RTL", "SMART_RTL", "AUTO"}

\* takeoff.stop(): the vehicle may have left the ground without noticing.
TakeoffStop(v, e) ==
    [v EXCEPT !.takeoff = FALSE, !.landed = @ /\ ~ThrottleHigh(v, e)]

\* Bug: exit() of AUTO keeps auto_RTL.
Enter_KeepsAutoRTL(v, m, e) ==
    [TakeoffStop(v, e) EXCEPT !.mode = m, !.leg = "GO",
        !.controlPos = IF m = "LAND" THEN PositionOk(e) ELSE @]

\* The vehicle once init() succeeded: exit_mode() of the old mode stops its
\* takeoff and, for AUTO, clears auto_RTL; LAND decides whether to use GPS.
Enter(v, m, e) ==
    [TakeoffStop(v, e) EXCEPT
        !.mode = m, !.leg = "GO", !.autoRTL = FALSE,
        !.controlPos = IF m = "LAND" THEN PositionOk(e) ELSE @]

CanSetTrue(v, m, e) == m = ModeNumber(v) \/ (MayInit(v, m, e) /\ InitOk(v, m, e))

\* set_mode() on a mode.  ModeAuto::init() clears auto_RTL even when it then
\* refuses.
SetTrueMode(v, m, e) ==
    IF m = ModeNumber(v) THEN v
    ELSE IF CanSetTrue(v, m, e) THEN Enter(v, m, e)
    ELSE IF m = "AUTO" /\ MayInit(v, m, e) THEN [v EXCEPT !.autoRTL = FALSE]
    ELSE v

\* set_mode(), jump_to_landing_sequence_auto_RTL() included: whether it
\* returns true, and the vehicle it leaves.
CanSet(v, m, e) ==
    IF m = "AUTO_RTL"
    THEN v.autoRTL \/ (e.landSeq /\ (v.mode = "AUTO" \/ CanSetTrue(v, "AUTO", e)))
    ELSE CanSetTrue(v, m, e)

SetMode(v, m, e) ==
    IF m # "AUTO_RTL" THEN SetTrueMode(v, m, e)
    ELSE IF v.autoRTL \/ ~e.landSeq THEN v
    ELSE IF v.mode = "AUTO" THEN [v EXCEPT !.autoRTL = TRUE, !.leg = "GO"]
    ELSE IF CanSetTrue(v, "AUTO", e)
         THEN [Enter(v, "AUTO", e) EXCEPT !.autoRTL = TRUE]
         ELSE v

\* The set_mode_X_or_Y functions.  A vehicle that can take none is unchanged.
SetFirst(v, modes, e) ==
    LET works == {i \in DOMAIN modes : CanSet(v, modes[i], e)}
    IN  IF works = {} THEN v
        ELSE SetMode(v, modes[CHOOSE i \in works : \A j \in works : i <= j], e)

-----------------------------------------------------------------------------
(* Disarming and the failsafe actions *)

Disarm(v, method) ==
    IF v.armed
    THEN [v EXCEPT !.armed = FALSE, !.armingDelay = FALSE, !.landed = TRUE,
                   !.disarmedBy = method]
    ELSE v

\* set_land_complete(true), which may disarm.
LandComplete(v) ==
    IF v.armed /\ DisarmOnLand /\ ~HasManualThrottle(v.mode)
       /\ AllowsArming(v.mode, AutoArming /\ ~v.autoRTL)
    THEN Disarm(v, "LANDED")
    ELSE [v EXCEPT !.landed = TRUE]

\* Mode::is_landing() of the mode that is flown.
IsLanding(v) ==
    \/ v.mode = "LAND"
    \/ v.mode \in {"RTL", "SMART_RTL", "AUTO"} /\ v.leg = "LAND"

IsDisarmedOrLanded(v) == ~v.armed \/ ~autoArmed \/ v.landed

ShouldDisarmOnFailsafe(v) ==
    \/ v.armingDelay
    \/ CASE v.mode = "STABILIZE" -> throttleZero \/ v.landed
         [] v.mode = "AUTO"      -> ~autoArmed /\ v.landed
         [] OTHER                -> v.landed

DoFailsafeAction(v, action, e) ==
    CASE action = "NONE"      -> v
      [] action = "TERMINATE" -> Disarm(v, "TERMINATE")
      [] OTHER                -> SetFirst(v, Fallbacks(action), e)

HasFailsafed == batt > 0

\* A landing the battery asked for, which no loss of a link may end.
BatteryLanding(v) ==
    IsLanding(v) /\ HasFailsafed /\ battPriority <= FAILSAFE_LAND_PRIORITY

ContinueLanding(v) == IsLanding(v) /\ "CONTINUE_IF_LANDING" \in FsOptions

\* failsafe_radio_on_event
RadioOnEvent(v, e) ==
    IF ShouldDisarmOnFailsafe(v) THEN Disarm(v, "RADIOFAILSAFE")
    ELSE DoFailsafeAction(v,
           IF BatteryLanding(v) \/ ContinueLanding(v) THEN "LAND"
           ELSE IF ModeNumber(v) = "AUTO" /\ "RC_CONTINUE_IF_AUTO" \in FsOptions THEN "NONE"
           ELSE FsThr, e)

\* Bug: a battery landing does not go before FS_GCS_ENABLE.
GcsOnEvent_IgnoresBattery(v, e) ==
    IF ~v.armed THEN v
    ELSE IF ShouldDisarmOnFailsafe(v) THEN Disarm(v, "GCSFAILSAFE")
    ELSE DoFailsafeAction(v, IF ContinueLanding(v) THEN "LAND" ELSE FsGcs, e)

\* failsafe_gcs_on_event
GcsOnEvent(v, e) ==
    IF ~v.armed THEN v
    ELSE IF ShouldDisarmOnFailsafe(v) THEN Disarm(v, "GCSFAILSAFE")
    ELSE DoFailsafeAction(v,
           IF BatteryLanding(v) \/ ContinueLanding(v) THEN "LAND"
           ELSE IF \/ ModeNumber(v) = "AUTO" /\ "GCS_CONTINUE_IF_AUTO" \in FsOptions
                   \/ "GCS_CONTINUE_IF_PILOT" \in FsOptions /\ ~IsAutopilot(v.mode)
           THEN "NONE" ELSE FsGcs, e)

\* handle_battery_failsafe
BatteryEvent(v, action, e) ==
    IF ShouldDisarmOnFailsafe(v) THEN Disarm(v, "BATTERYFAILSAFE")
    ELSE DoFailsafeAction(v,
           IF ContinueLanding(v) /\ action # "NONE" THEN "LAND" ELSE action, e)

\* failsafe_terrain_on_event
TerrainOnEvent(v, e) ==
    IF ShouldDisarmOnFailsafe(v) THEN Disarm(v, "TERRAINFAILSAFE")
    ELSE IF v.mode = "RTL" THEN [v EXCEPT !.leg = "GO"]
    ELSE SetFirst(v, Fallbacks("RTL"), e)

\* failsafe_obstacle_on_event
ObstacleOnEvent(v, e) ==
    IF v.mode = "RTL" THEN [v EXCEPT !.leg = "GO"]
    ELSE SetFirst(v, Fallbacks("LOITER_OR_RTL"), e)

\* The part of failsafe_deadreckon_check that acts on its start.
DeadReckonOnEvent(v, e) ==
    IF ~RequiresGPS(v.mode) THEN v
    ELSE IF ShouldDisarmOnFailsafe(v) THEN Disarm(v, "DEADRECKON_FAILSAFE")
    ELSE DoFailsafeAction(v, FsDr, e)

\* Bug: a LAND that uses GPS counts as a mode that needs none.
EkfEvent_KeepsLand(v, e) ==
    IF ~v.armed \/ (~RequiresGPS(v.mode) /\ FsEkf # "LAND_EVEN_STABILIZE") THEN v
    ELSE SetFirst(v, IF FsEkf = "ALT_HOLD" /\ ~fsRadio THEN <<"ALT_HOLD", "LAND">>
                                                       ELSE <<"LAND">>, e)

\* Bug: FS_EKF_ACTION 2 chooses ALT_HOLD without a radio, too.
EkfEvent_IgnoresRadio(v, e) ==
    IF ~v.armed THEN v
    ELSE IF v.mode = "LAND" /\ v.controlPos THEN [v EXCEPT !.controlPos = FALSE]
    ELSE IF ~RequiresGPS(v.mode) /\ FsEkf # "LAND_EVEN_STABILIZE" THEN v
    ELSE SetFirst(v, IF FsEkf = "ALT_HOLD" THEN <<"ALT_HOLD", "LAND">> ELSE <<"LAND">>, e)

\* failsafe_ekf_event, failsafe.ekf being set already.
EkfEvent(v, e) ==
    IF ~v.armed THEN v
    ELSE IF v.mode = "LAND" /\ v.controlPos THEN [v EXCEPT !.controlPos = FALSE]
    ELSE IF ~RequiresGPS(v.mode) /\ FsEkf # "LAND_EVEN_STABILIZE" THEN v
    ELSE SetFirst(v, IF FsEkf = "ALT_HOLD" /\ ~fsRadio THEN <<"ALT_HOLD", "LAND">>
                                                       ELSE <<"LAND">>, e)

\* Bug: throttle at zero disarms in every mode.
FenceBreached_AnyMode(v, far, altMax, e) ==
    IF ~v.armed \/ FenceAction = "REPORT" THEN v
    ELSE IF v.landed \/ (throttleZero /\ ~fsRadio /\ ~altMax)
         THEN Disarm(v, "FENCEBREACH")
    ELSE SetFirst(v, IF far THEN <<"LAND">> ELSE Fallbacks(FenceAction), e)

\* fence_check() on a new breach: far outside, or of the maximum altitude.
FenceBreached(v, far, altMax, e) ==
    IF ~v.armed \/ FenceAction = "REPORT" THEN v
    ELSE IF \/ v.landed
            \/ HasManualThrottle(v.mode) /\ throttleZero /\ ~fsRadio /\ ~altMax
         THEN Disarm(v, "FENCEBREACH")
    ELSE SetFirst(v, IF far THEN <<"LAND">> ELSE Fallbacks(FenceAction), e)

-----------------------------------------------------------------------------
(* The fast loop: motors_output *)

\* AP_MotorsMulticopter::output_logic() of an armed, interlocked motor once
\* the ramp of the present state is over.
SpoolStep ==
    CASE spool = "SHUT_DOWN" -> IF spoolDesired = "SHUT_DOWN" THEN spool ELSE "GROUND_IDLE"
      [] spool = "GROUND_IDLE" ->
             CASE spoolDesired = "UNLIMITED" -> "SPOOLING"
               [] spoolDesired = "SHUT_DOWN" -> "SHUT_DOWN"
               [] OTHER                      -> spool
      [] spool = "SPOOLING" -> IF spoolDesired = "UNLIMITED" THEN "UNLIMITED" ELSE "GROUND_IDLE"
      [] spool = "UNLIMITED" -> IF spoolDesired = "UNLIMITED" THEN spool ELSE "SPOOLING"

\* expired: ARMING_DELAY_SEC are over; ramped: so is the ramp of the spool state.
MotorsOutput(expired, ramped) ==
    /\ phase = "motors_output" /\ phase' = "update_flight_mode"
    /\ LET delay == veh.armingDelay /\ veh.armed /\ ~expired
       IN  /\ veh' = [veh EXCEPT !.armingDelay = delay]
           /\ IF veh.armed /\ ~delay
              THEN /\ spool' = IF ramped \/ spool = "UNLIMITED" THEN SpoolStep ELSE spool
                   /\ UNCHANGED spoolDesired
              ELSE spool' = "SHUT_DOWN" /\ spoolDesired' = "SHUT_DOWN"
    /\ UNCHANGED <<autoArmed, throttleZero, fsVars, ekf, battVars>>

-----------------------------------------------------------------------------
(* The fast loop: update_flight_mode, the run() of each mode *)

\* motors->set_desired_spool_state
Desire(v, desired) ==
    spoolDesired' = IF v.armed \/ desired = "SHUT_DOWN" THEN desired ELSE spoolDesired

\* make_safe_ground_handling(), or the motors at full range in flight.
GroundOrFlight(v) ==
    Desire(v, IF IsDisarmedOrLanded(v) THEN "GROUND_IDLE" ELSE "UNLIMITED")

\* Bug: waits for the motors to stop before disarming.
DisarmIfLanded_WhenStopped(v) ==
    IF v.landed /\ spool = "SHUT_DOWN" THEN Disarm(v, "LANDED") ELSE v

\* "disarm when the landing detector says we've landed"
DisarmIfLanded(v) ==
    IF v.landed /\ spool = "GROUND_IDLE" THEN Disarm(v, "LANDED") ELSE v

\* Throttle held high gives a landing back to the pilot who has a radio.
PilotCancels(v, cancel, e) ==
    IF cancel /\ ~fsRadio /\ ~IsDisarmedOrLanded(v)
    THEN SetFirst(v, <<"LOITER", "ALT_HOLD">>, e) ELSE v

RunStabilize ==
    /\ veh.mode = "STABILIZE"
    /\ \E lifted \in {FALSE, spool = "UNLIMITED"} :
           veh' = [veh EXCEPT !.landed = @ /\ ~lifted]
    /\ Desire(veh, IF ~veh.armed THEN "SHUT_DOWN"
                   ELSE IF throttleZero THEN "GROUND_IDLE" ELSE "UNLIMITED")

\* get_alt_hold_state() and do_pilot_takeoff(): without a radio the desired
\* climb rate is zero.
ClimbRates == IF fsRadio THEN {"zero"} ELSE {"down", "zero", "up"}

TakeoffTriggered(climb) == veh.landed /\ climb = "up" /\ spool = "UNLIMITED"

AltHoldTakeoff(climb, lifted, reached) ==
    /\ veh.armed /\ (veh.takeoff \/ TakeoffTriggered(climb))
    /\ veh' = IF veh.landed
              THEN [veh EXCEPT !.takeoff = TRUE, !.landed = ~lifted]
              ELSE [veh EXCEPT !.takeoff = ~(climb = "down" \/ reached)]
    /\ UNCHANGED spoolDesired

AltHoldOther(climb) ==
    /\ ~(veh.armed /\ (veh.takeoff \/ TakeoffTriggered(climb)))
    /\ Desire(veh, IF ~veh.armed THEN "SHUT_DOWN"
                   ELSE IF (~autoArmed \/ veh.landed) /\ climb = "down" THEN "GROUND_IDLE"
                   ELSE "UNLIMITED")
    /\ UNCHANGED veh

RunAltHold ==
    /\ veh.mode \in {"ALT_HOLD", "LOITER"}
    /\ \E climb \in ClimbRates :
           \/ \E lifted, reached \in BOOLEAN : AltHoldTakeoff(climb, lifted, reached)
           \/ AltHoldOther(climb)

\* With GPS the landing can be cancelled in flight only, after the check for
\* the end of the landing; without, at any time and before it.
RunLand ==
    /\ veh.mode = "LAND"
    /\ \E cancel \in BOOLEAN, e \in Envs :
         IF veh.controlPos
         THEN LET v == DisarmIfLanded(veh)
              IN  veh' = PilotCancels(v, cancel, e) /\ GroundOrFlight(v)
         ELSE LET v == DisarmIfLanded(IF cancel /\ ~fsRadio THEN SetMode(veh, "ALT_HOLD", e)
                                                            ELSE veh)
              IN  veh' = v /\ GroundOrFlight(v)

\* The legs RTL and SMART_RTL share.  The final descent of an RTL hovers at
\* its end until the pilot takes over; a landing ends disarmed.
RunDescentOrLand(v, cancel, e) ==
    LET w == IF v.leg = "LAND" THEN DisarmIfLanded(v) ELSE v
    IN  veh' = PilotCancels(w, cancel, e) /\ GroundOrFlight(w)

\* From the climb to the end of the stay over home, which comes in flight only.
\* noTerrain is climb_start() finding no terrain data for its target.
RtlReturn(noTerrain, arrived, e) ==
    LET v == IF noTerrain THEN SetMode(veh, "LAND", e) ELSE veh
    IN  /\ veh' = IF arrived /\ v.mode = "RTL" /\ ~IsDisarmedOrLanded(v)
                  THEN [v EXCEPT !.leg = "ARRIVED"] ELSE v
        /\ GroundOrFlight(v)

\* The run() after that starts the last leg, even of a vehicle that has landed
\* since: a descent only with a radio.
RtlLastLegs ==
    CASE veh.leg = "ARRIVED" /\ fsRadio  -> {"LAND"}
      [] veh.leg = "ARRIVED" /\ ~fsRadio -> {"LAND", "DESCENT"}
      [] OTHER                           -> {veh.leg}

RunRTL ==
    /\ veh.mode = "RTL"
    /\ IF ~veh.armed THEN UNCHANGED <<veh, spoolDesired>>
       ELSE IF veh.leg = "GO"
       THEN \E noTerrain, arrived \in BOOLEAN, e \in Envs : RtlReturn(noTerrain, arrived, e)
       ELSE \E leg \in RtlLastLegs, cancel \in BOOLEAN, e \in Envs :
               RunDescentOrLand([veh EXCEPT !.leg = leg], cancel, e)

RunSmartRTL ==
    /\ veh.mode = "SMART_RTL"
    /\ IF veh.leg = "GO"
       THEN /\ \E next \in {"GO", "LAND"} \cup (IF fsRadio THEN {} ELSE {"DESCENT"}) :
                   veh' = [veh EXCEPT !.leg = next]
            /\ Desire(veh, "UNLIMITED")
       ELSE \E cancel \in BOOLEAN, e \in Envs : RunDescentOrLand(veh, cancel, e)

\* AP_Mission::update() as AUTO sees it: the next navigation command starts
\* (verify_land() lets only a takeoff follow a landing, and disarms otherwise)
\* or the mission is over and exit_mission() is called.
MissionStep(next, e) ==
    IF veh.leg = "LAND"
    THEN IF veh.armed /\ veh.landed /\ spool = "GROUND_IDLE"
         THEN IF next = "TAKEOFF" THEN [veh EXCEPT !.leg = next] ELSE Disarm(veh, "LANDED")
         ELSE veh
    ELSE CASE next = "stay" -> veh
           [] next = "over" -> IF veh.landed THEN Disarm(veh, "MISSIONEXIT")
                               ELSE IF PositionOk(e) THEN [veh EXCEPT !.leg = "GO"]
                               ELSE SetMode(veh, "LAND", e)
           [] OTHER -> [veh EXCEPT !.leg = next]

\* The controller of the leg: takeoff_run, wp_run or loiter_run, land_run.
AutoLeg(v, lifted, obstacle, cancel, e) ==
    CASE v.leg = "TAKEOFF" ->
             IF v.armed /\ autoArmed
             THEN /\ veh' = [v EXCEPT !.landed = @ /\ ~(lifted /\ spool = "UNLIMITED")]
                  /\ Desire(v, "UNLIMITED")
             ELSE veh' = v /\ UNCHANGED spoolDesired
      [] v.leg = "LAND" -> veh' = PilotCancels(v, cancel, e) /\ GroundOrFlight(v)
      [] OTHER -> /\ veh' = IF obstacle /\ ~IsDisarmedOrLanded(v) THEN ObstacleOnEvent(v, e) ELSE v
                  /\ GroundOrFlight(v)

\* auto_RTL is only kept while the mission is in its landing sequence.
AfterMission(next, leftSequence, e) ==
    LET v == MissionStep(IF e.mission THEN next ELSE "stay", e)
    IN  [v EXCEPT !.autoRTL = @ /\ ~leftSequence]

\* A waypoint that cannot start, or a takeoff that cannot go on, for want of
\* terrain data calls failsafe_terrain_on_event().
AutoStep(next, leftSequence, lifted, cancel, obstacle, noTerrain, e) ==
    LET noStart == noTerrain /\ e.mission /\ next = "GO" /\ veh.leg # "LAND"
        v == AfterMission(IF noStart THEN "stay" ELSE next, leftSequence, e)
        noTakeoff == noTerrain /\ v.leg = "TAKEOFF" /\ v.armed /\ autoArmed
    IN  IF noStart \/ noTakeoff
        THEN /\ veh' = TerrainOnEvent(v, e) /\ fsTerrain' = TRUE
             /\ IF v.leg = "TAKEOFF" THEN UNCHANGED spoolDesired ELSE GroundOrFlight(v)
        ELSE AutoLeg(v, lifted, obstacle, cancel, e) /\ UNCHANGED fsTerrain

MissionSteps == {"stay", "over", "GO", "TAKEOFF", "LAND"}

RunAuto ==
    /\ veh.mode = "AUTO"
    /\ \E next \in MissionSteps, leftSequence, lifted, cancel \in BOOLEAN,
          obstacle \in {FALSE, "obstacle" \in Tasks},
          noTerrain \in {FALSE, "terrain_check" \in Tasks}, e \in Envs :
         AutoStep(next, leftSequence, lifted, cancel, obstacle, noTerrain, e)

\* BRAKE gives up after its timeout, if it was given one.
RunBrake ==
    /\ veh.mode = "BRAKE"
    /\ \E timeout \in BOOLEAN, e \in Envs :
           veh' = IF timeout /\ ~IsDisarmedOrLanded(veh)
                  THEN SetFirst(veh, <<"LOITER", "ALT_HOLD">>, e) ELSE veh
    /\ GroundOrFlight(veh)

UpdateFlightMode ==
    /\ phase = "update_flight_mode" /\ phase' = "land_detector"
    /\ \/ RunAuto
       \/ /\ RunStabilize \/ RunAltHold \/ RunLand \/ RunRTL \/ RunSmartRTL \/ RunBrake
          /\ UNCHANGED fsTerrain
    /\ UNCHANGED <<autoArmed, throttleZero, spool, fsRadio, fsGcs, fsEkf, fsDr, ekf, battVars>>

-----------------------------------------------------------------------------
(* The fast loop: the land and crash detectors *)

\* Mode::is_taking_off().  AUTO stops answering TRUE at its destination.
TakingOff(v) ==
    CASE v.mode \in {"ALT_HOLD", "LOITER"}      -> {v.takeoff}
      [] v.mode = "AUTO" /\ v.leg = "TAKEOFF"   -> BOOLEAN
      [] OTHER                                  -> {FALSE}

\* update_land_detector(): the output says the vehicle flies (high) or the
\* landing criteria have held long enough (touched).
DetectLanding(v, high, touched) ==
    CASE ~v.armed  -> [v EXCEPT !.landed = TRUE]
      [] v.armed /\ v.landed  -> [v EXCEPT !.landed = ~(high /\ spool = "UNLIMITED")]
      [] v.armed /\ ~v.landed -> IF touched THEN LandComplete(v) ELSE v

\* crash_check()
CheckCrash(v, crashed) ==
    IF crashed /\ v.armed /\ ~v.landed THEN Disarm(v, "CRASH") ELSE v

LandDetector ==
    /\ phase = "land_detector" /\ phase' = "tasks"
    /\ \E high, touched \in BOOLEAN, takingOff \in TakingOff(veh),
          crashed \in {FALSE, "crash_check" \in Tasks} :
         veh' = CheckCrash(DetectLanding(veh, high /\ ~takingOff, touched), crashed)
    /\ UNCHANGED <<autoArmed, throttleZero, spool, spoolDesired, fsVars, ekf, battVars>>

-----------------------------------------------------------------------------
(* The scheduled tasks *)

EndLoop ==
    /\ phase = "tasks" /\ phase' = "motors_output"
    /\ UNCHANGED <<veh, autoArmed, throttleZero, spool, spoolDesired, fsVars, ekf, battVars>>

Task(name) == phase = "tasks" /\ name \in Tasks /\ UNCHANGED <<phase, spool, spoolDesired>>

\* read_radio(): low throttle or silence starts the failsafe and good frames
\* end it (RadioLink).  The throttle-zero flag of a frame comes last, so the
\* failsafe handler still sees the flag of the frame before.
ReadRadio ==
    /\ Task("read_radio")
    /\ throttleZero' \in BOOLEAN
    /\ \E lost \in IF FsThr = "NONE" THEN {FALSE} ELSE BOOLEAN, e \in Envs :
         /\ fsRadio' = lost
         /\ veh' = IF lost /\ ~fsRadio THEN RadioOnEvent(veh, e) ELSE veh
    /\ UNCHANGED <<autoArmed, fsGcs, fsEkf, fsTerrain, fsDr, ekf, battVars>>

\* throttle_loop(): update_auto_armed()
ThrottleLoop ==
    /\ Task("throttle_loop")
    /\ autoArmed' = /\ veh.armed
                    /\ IF autoArmed
                       THEN ~(HasManualThrottle(veh.mode) /\ throttleZero /\ ~fsRadio)
                       ELSE ~throttleZero
    /\ UNCHANGED <<veh, throttleZero, fsVars, ekf, battVars>>

\* rc_loop(): the pilot moves the mode switch, which is read while the radio
\* is good.
ModeSwitch ==
    /\ Task("mode_switch") /\ ~fsRadio
    /\ \E m \in ModeNumbers, e \in Envs : veh' = SetMode(veh, m, e)
    /\ UNCHANGED <<autoArmed, throttleZero, fsVars, ekf, battVars>>

\* AP_Arming_Copter::arm(): a forced arming skips all but the mandatory checks.
MayArm(v, forced, e) ==
    /\ RequiresGPS(v.mode) => PositionOk(e)
    /\ HasManualThrottle(v.mode) \/ e.alt
    /\ \/ forced
       \/ AllowsArming(v.mode, AutoArming /\ ~v.autoRTL) /\ ~fsGcs /\ ~fsRadio

Arm(v, forced, e) ==
    IF ~v.armed /\ MayArm(v, forced, e)
    THEN [v EXCEPT !.armed = TRUE, !.armingDelay = TRUE, !.disarmedBy = "NONE"]
    ELSE v

\* arm_motors_check(): full rudder arms or disarms.
Rudder ==
    /\ Task("rudder")
    /\ \/ \E e \in Envs : veh' = Arm(veh, FALSE, e)
       \/ /\ HasManualThrottle(veh.mode) \/ veh.landed
          /\ veh' = Disarm(veh, "RUDDER")
    /\ UNCHANGED <<autoArmed, throttleZero, fsVars, ekf, battVars>>

\* auto_disarm_check() once DISARM_DELAY is over.  A sprung throttle is low
\* anywhere up to its middle.
AutoDisarm ==
    /\ Task("auto_disarm")
    /\ veh.armed /\ veh.landed /\ spool \in {"SHUT_DOWN", "GROUND_IDLE"}
    /\ throttleZero \/ (SprungThrottle /\ ~HasManualThrottle(veh.mode))
    /\ veh' = Disarm(veh, "DISARMDELAY")
    /\ UNCHANGED <<autoArmed, throttleZero, fsVars, ekf, battVars>>

\* ekf_check(): what the checks do to its counters.
EkfState == [fails : 0..EkfIterMax, bad : BOOLEAN, everPassed : BOOLEAN]

\* Bug: the count goes on after the failure is flagged.
NextEkfState_Uncapped(passed) ==
    LET fails == CASE ~passed                  -> ekf.fails + 1
                   [] passed /\ ekf.fails > 0  -> ekf.fails - 1
                   [] OTHER                    -> ekf.fails
    IN  IF ~passed /\ ~ekf.everPassed THEN ekf
        ELSE [fails |-> fails, everPassed |-> TRUE,
              bad |-> IF passed THEN ekf.bad /\ fails > 0 ELSE ekf.bad \/ fails = EkfIterMax]

NextEkfState(passed) ==
    LET fails == CASE ~passed /\ ~ekf.bad          -> ekf.fails + 1
                   [] passed /\ ekf.fails > 0      -> ekf.fails - 1
                   [] OTHER                        -> ekf.fails
    IN  IF ~passed /\ ~ekf.everPassed THEN ekf
        ELSE [fails |-> fails, everPassed |-> TRUE,
              bad |-> IF passed THEN ekf.bad /\ fails > 0 ELSE ekf.bad \/ fails = EkfIterMax]

\* FS_EKF_THRESH <= 0 clears the check and the failsafe.  (Before the EKF has an
\* origin the check does nothing.)
EkfCheckDisabled ==
    /\ Task("ekf_check")
    /\ ekf' = [ekf EXCEPT !.fails = 0, !.bad = FALSE] /\ fsEkf' = FALSE
    /\ UNCHANGED <<veh, autoArmed, throttleZero, fsRadio, fsGcs, fsTerrain, fsDr, battVars>>

EkfCheck ==
    /\ Task("ekf_check")
    /\ \E passed \in BOOLEAN : ekf' = NextEkfState(passed)
    /\ fsEkf' = ekf'.bad
    /\ IF ekf'.bad /\ ~ekf.bad
       THEN \E e \in Envs : veh' = EkfEvent(veh, [e EXCEPT !.pos = FALSE])
       ELSE UNCHANGED veh
    /\ UNCHANGED <<autoArmed, throttleZero, fsRadio, fsGcs, fsTerrain, fsDr, battVars>>

\* three_hz_loop(): four checks in this order on the same vehicle, each on
\* what the ones before it left.
ThreeHzLoop ==
    /\ phase = "tasks" /\ UNCHANGED <<phase, spool, spoolDesired>>
    /\ \E lost \in {FALSE, "gcs_check" \in Tasks},
          noTerrain \in {FALSE, "terrain_check" \in Tasks},
          deadReckoning \in {FALSE, "deadreckon_check" \in Tasks},
          breach \in {FALSE, "fence_check" \in Tasks},
          far, altMax \in BOOLEAN, e \in Envs :
         LET newGcs     == FsGcs # "NONE" /\ lost
             afterGcs   == IF newGcs /\ ~fsGcs THEN GcsOnEvent(veh, e) ELSE veh
             newTerrain == noTerrain /\ RequiresTerrain(afterGcs.mode)
             afterTerrain == IF newTerrain /\ ~fsTerrain THEN TerrainOnEvent(afterGcs, e)
                                                        ELSE afterGcs
             newDr      == FsDr # "NONE" /\ deadReckoning
             afterDr    == IF newDr /\ ~fsDr THEN DeadReckonOnEvent(afterTerrain, e)
                                            ELSE afterTerrain
         IN  /\ breach \/ (~far /\ ~altMax)
             /\ fsGcs' = newGcs /\ fsTerrain' = newTerrain /\ fsDr' = newDr
             /\ veh' = IF breach THEN FenceBreached(afterDr, far, altMax, e) ELSE afterDr
    /\ UNCHANGED <<autoArmed, throttleZero, fsRadio, fsEkf, ekf, battVars>>

\* Bug: the handler is called for an action of any priority.
BatteryUrgent_Always(action) == TRUE

BatteryUrgent(action) == Priority(action) <= battPriority

\* AP_BattMonitor::check_failsafes(): the battery reaches level.
BatteryCheck ==
    /\ Task("battery") /\ veh.armed
    /\ \E level \in {1, 2}, e \in Envs :
         LET action == IF level = 1 THEN LowAction ELSE CritAction
         IN  /\ level > batt /\ batt' = level
             /\ IF BatteryUrgent(action)
                THEN battPriority' = Priority(action) /\ veh' = BatteryEvent(veh, action, e)
                ELSE UNCHANGED <<veh, battPriority>>
    /\ UNCHANGED <<autoArmed, throttleZero, fsVars, ekf>>

\* SET_MODE, DO_SET_MODE, NAV_LAND and the like, and DO_LAND_START.
GcsSetMode ==
    /\ Task("gcs_mode")
    /\ \E m \in ModeNumbers, e \in Envs : veh' = SetMode(veh, m, e)
    /\ UNCHANGED <<autoArmed, throttleZero, fsVars, ekf, battVars>>

\* MISSION_START, whose set_auto_armed(true) does not ask for armed motors.
GcsMissionStart ==
    /\ Task("gcs_mode")
    /\ \E e \in Envs : /\ veh' = SetMode(veh, "AUTO", e)
                       /\ autoArmed' = (autoArmed \/ CanSet(veh, "AUTO", e))
    /\ UNCHANGED <<throttleZero, fsVars, ekf, battVars>>

\* COMPONENT_ARM_DISARM
GcsArm ==
    /\ Task("gcs_arm")
    /\ \E forced \in BOOLEAN, e \in Envs : veh' = Arm(veh, forced, e)
    /\ UNCHANGED <<autoArmed, throttleZero, fsVars, ekf, battVars>>

GcsDisarm ==
    /\ Task("gcs_arm")
    /\ \E forced \in BOOLEAN : (forced \/ veh.landed) /\ veh' = Disarm(veh, "MAVLINK")
    /\ UNCHANGED <<autoArmed, throttleZero, fsVars, ekf, battVars>>

\* NAV_TAKEOFF: Mode::do_user_takeoff()
GcsTakeoff ==
    /\ Task("gcs_takeoff")
    /\ veh.armed /\ veh.landed /\ veh.mode \in {"ALT_HOLD", "LOITER"}
    /\ veh' = [veh EXCEPT !.takeoff = TRUE] /\ autoArmed' = TRUE
    /\ UNCHANGED <<throttleZero, fsVars, ekf, battVars>>

-----------------------------------------------------------------------------
\* The state the loop is entered in after boot.
Init ==
    /\ phase = "motors_output"
    /\ veh = [mode |-> "STABILIZE", leg |-> "GO", autoRTL |-> FALSE, controlPos |-> FALSE,
              takeoff |-> FALSE, armed |-> FALSE, armingDelay |-> FALSE, landed |-> TRUE,
              disarmedBy |-> "NONE"]
    /\ autoArmed = FALSE /\ throttleZero = TRUE
    /\ spool = "SHUT_DOWN" /\ spoolDesired = "SHUT_DOWN"
    /\ fsRadio = FALSE /\ fsGcs = FALSE /\ fsEkf = FALSE /\ fsTerrain = FALSE /\ fsDr = FALSE
    /\ ekf = [fails |-> 0, bad |-> FALSE, everPassed |-> FALSE]
    /\ batt = 0 /\ battPriority = NoPriority

FastLoop ==
    \/ \E expired, ramped \in BOOLEAN : MotorsOutput(expired, ramped)
    \/ UpdateFlightMode
    \/ LandDetector
    \/ EndLoop

ScheduledTask ==
    \/ ReadRadio \/ ThrottleLoop \/ ModeSwitch \/ Rudder \/ AutoDisarm
    \/ EkfCheck \/ EkfCheckDisabled \/ ThreeHzLoop \/ BatteryCheck
    \/ GcsSetMode \/ GcsMissionStart \/ GcsArm \/ GcsDisarm \/ GcsTakeoff

Next == FastLoop \/ ScheduledTask

Spec == Init /\ [][Next]_vars

\* The scheduler always comes back to the fast loop, and the timers in it run
\* out: ARMING_DELAY_SEC and the ramps of the motors.
Fairness ==
    /\ WF_vars(FastLoop)
    /\ SF_vars(MotorsOutput(TRUE, TRUE))

FairSpec == Spec /\ Fairness

-----------------------------------------------------------------------------
(* Properties *)

TypeOK ==
    /\ phase \in Phases
    /\ veh \in Vehicle
    /\ autoArmed \in BOOLEAN /\ throttleZero \in BOOLEAN
    /\ spool \in SpoolStates /\ spoolDesired \in DesiredSpoolStates
    /\ fsRadio \in BOOLEAN /\ fsGcs \in BOOLEAN /\ fsEkf \in BOOLEAN
    /\ fsTerrain \in BOOLEAN /\ fsDr \in BOOLEAN
    /\ ekf \in EkfState
    /\ batt \in 0..2 /\ battPriority \in 0..6 \cup {NoPriority}

\* While the EKF failsafe lasts no armed vehicle flies a mode that needs a
\* position: the failsafe left such modes, and neither the pilot, the ground
\* station, another failsafe nor a mode's own run() enters one again.
EkfFailsafeHeld == veh.armed /\ fsEkf => ~RequiresGPS(veh.mode)

\* Nor does it land with the position controller: do_not_use_GPS() and the
\* init() of LAND between them see to it in whatever order they come.
EkfLandsWithoutGPS == veh.armed /\ fsEkf => ~(veh.mode = "LAND" /\ veh.controlPos)

\* A vehicle without its radio is never left in a mode a pilot has to fly,
\* whichever failsafe came first and whatever came after.  For runs with
\* no ground station commands, no obstacles and an altitude estimate.
RadioLossHeld == veh.armed /\ fsRadio => veh.mode \notin {"STABILIZE", "ALT_HOLD", "LOITER"}

\* What a mode leaves behind does not outlive it: the landing sequence of
\* AUTO_RTL, a pilot takeoff, the sub-mode of a mission or of a return.
\* exit_mode() and the init() functions clear them on every path.
SubmodeBelongsToMode ==
    /\ veh.autoRTL => veh.mode = "AUTO"
    /\ veh.takeoff => veh.mode \in {"ALT_HOLD", "LOITER"}
    /\ veh.leg = "ARRIVED" => veh.mode = "RTL"
    /\ veh.leg = "TAKEOFF" => veh.mode = "AUTO"
    /\ veh.leg = "DESCENT" => veh.mode \in {"RTL", "SMART_RTL"}
    /\ veh.leg = "LAND" => veh.mode \in {"RTL", "SMART_RTL", "AUTO"}

\* The motors of a flying vehicle are stopped by the land and crash detectors,
\* by a termination or by a command only: a failsafe disarms in flight at most
\* a vehicle flown in a manual mode whose throttle is at zero.
FlightKeepsMotors ==
    [][veh.armed /\ ~veh.landed /\ ~veh.armingDelay /\ ~veh'.armed =>
         \/ veh'.disarmedBy \in {"MAVLINK", "CRASH", "TERMINATE"}
         \/ veh'.disarmedBy = "LANDED" /\ phase = "land_detector"
         \/ HasManualThrottle(veh.mode) /\ (throttleZero \/ veh'.disarmedBy = "RUDDER")]_vars

\* A landing the battery asked for goes on to the ground once the radio is
\* lost: no later loss of a link, of the EKF or of the battery ends it.  For
\* runs with no ground station commands and no terrain, fence or dead
\* reckoning failsafe, which do end it.
BatteryLandingHeld ==
    [][BatteryLanding(veh) /\ veh.armed /\ ~veh.landed /\ fsRadio' /\ veh'.armed => IsLanding(veh')]_vars

\* A vehicle that landed in a landing mode does not stay there armed: spool
\* state machine, land detector and the mode's run() get the motors stopped.
LandingEnds == ~<>[](veh.armed /\ veh.landed /\ IsLanding(veh))
=============================================================================
