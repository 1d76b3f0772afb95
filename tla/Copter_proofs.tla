---------------------------- MODULE Copter_proofs ----------------------------
(***************************************************************************)
(* Proofs about Copter, for every build, every parameter setting and every *)
(* set of environments.  A handler is an operator from a vehicle to a      *)
(* vehicle, so the proof has one lemma per handler, that it keeps a sound  *)
(* vehicle sound, and one step per action.  The last section shows that    *)
(* Copter implements BattMonitor: the step that needs an argument is the   *)
(* battery's own, whose handler may go through any of the mode changes of  *)
(* the failsafe actions and must not arm the vehicle on the way.           *)
(***************************************************************************)
EXTENDS CopterBatteries, TLAPS

\* What every handler preserves of the vehicle's own record.
WellFormed(v) ==
    /\ v \in Vehicle
    /\ v.autoRTL => v.mode = "AUTO"
    /\ v.takeoff => v.mode \in {"ALT_HOLD", "LOITER"}
    /\ v.leg = "ARRIVED" => v.mode = "RTL"
    /\ v.leg = "TAKEOFF" => v.mode = "AUTO"
    /\ v.leg = "DESCENT" => v.mode \in {"RTL", "SMART_RTL"}
    /\ v.leg = "LAND" => v.mode \in {"RTL", "SMART_RTL", "AUTO"}

\* A forced arming is the one way to start in LAND; without the command no
\* vehicle does.
NeverForced == "gcs_arm" \notin Tasks

\* No position is needed while the EKF failsafe lasts, nor used for landing.
LandsBlind(v) == NeverForced => ~(v.mode = "LAND" /\ v.controlPos)
FliesBlind(v) == v.armed => ~RequiresGPS(v.mode) /\ LandsBlind(v)

Sound(v) == WellFormed(v) /\ (fsEkf => FliesBlind(v))

-----------------------------------------------------------------------------
(* set_mode *)

\* init() of a mode leaves a vehicle with its types.
LEMMA EnterWellFormed ==
    ASSUME NEW v, NEW m \in TrueModes, NEW e, WellFormed(v)
    PROVE  /\ WellFormed(Enter(v, m, e))
           /\ Enter(v, m, e).mode = m
           /\ Enter(v, m, e).armed = v.armed
           /\ ~PositionOk(e) => LandsBlind(Enter(v, m, e))
<1> DEFINE w == TakeoffStop(v, e)
<1>1. w \in Vehicle /\ w.armed = v.armed /\ w.takeoff = FALSE
  BY DEF WellFormed, Vehicle, TakeoffStop
<1>2. (IF m = "LAND" THEN PositionOk(e) ELSE w.controlPos) \in BOOLEAN
  BY <1>1 DEF Vehicle, PositionOk
<1>3. Enter(v, m, e) \in Vehicle
  BY <1>1, <1>2 DEF Vehicle, Legs, Enter
<1>4. WellFormed(Enter(v, m, e)) /\ Enter(v, m, e).mode = m /\ Enter(v, m, e).armed = v.armed
  BY <1>1, <1>3 DEF WellFormed, Vehicle, Enter
<1>5. ~PositionOk(e) => LandsBlind(Enter(v, m, e))
  BY <1>1 DEF Enter, LandsBlind, Vehicle
<1>6. QED BY <1>4, <1>5

\* set_mode() keeps a vehicle sound: in an EKF failsafe it refuses what needs a position.
LEMMA SetTrueModeSound ==
    ASSUME NEW v, NEW m \in TrueModes, NEW e, Sound(v)
    PROVE  Sound(SetTrueMode(v, m, e))
<1>1. CASE m = ModeNumber(v) \/ ~CanSetTrue(v, m, e)
  BY <1>1 DEF SetTrueMode, Sound, WellFormed, Vehicle, FliesBlind, LandsBlind
<1>2. CASE m # ModeNumber(v) /\ CanSetTrue(v, m, e)
  <2>1. SetTrueMode(v, m, e) = Enter(v, m, e)
    BY <1>2 DEF SetTrueMode
  <2>2. v.armed /\ fsEkf => ~RequiresGPS(m)
    BY <1>2 DEF CanSetTrue, MayInit, PositionOk
  <2>3. /\ WellFormed(Enter(v, m, e))
        /\ Enter(v, m, e).mode = m /\ Enter(v, m, e).armed = v.armed
        /\ ~PositionOk(e) => LandsBlind(Enter(v, m, e))
    BY EnterWellFormed DEF Sound
  <2>4. fsEkf => LandsBlind(Enter(v, m, e))
    BY <2>3 DEF PositionOk
  <2>5. QED BY <2>1, <2>2, <2>3, <2>4 DEF Sound, FliesBlind
<1>3. QED BY <1>1, <1>2

\* The same through AUTO_RTL, which sets AUTO and then its landing sequence
LEMMA SetModeSound ==
    ASSUME NEW v, NEW m \in ModeNumbers, NEW e, Sound(v)
    PROVE  Sound(SetMode(v, m, e))
<1>1. CASE m # "AUTO_RTL"
  BY <1>1, SetTrueModeSound DEF ModeNumbers, SetMode
<1>2. CASE m = "AUTO_RTL" /\ (v.autoRTL \/ ~e.landSeq)
  BY <1>2 DEF SetMode
<1>3. CASE m = "AUTO_RTL" /\ ~(v.autoRTL \/ ~e.landSeq) /\ v.mode = "AUTO"
  <2> DEFINE w == [v EXCEPT !.autoRTL = TRUE, !.leg = "GO"]
  <2>1. SetMode(v, m, e) = w
    BY <1>3 DEF SetMode
  <2>2. Sound(w)
    BY <1>3 DEF Sound, WellFormed, FliesBlind, LandsBlind, Vehicle, Legs
  <2>3. QED BY <2>1, <2>2
<1>4. CASE m = "AUTO_RTL" /\ ~(v.autoRTL \/ ~e.landSeq) /\ v.mode # "AUTO"
  <2>1. CASE ~CanSetTrue(v, "AUTO", e)
    BY <1>4, <2>1 DEF SetMode
  <2>2. CASE CanSetTrue(v, "AUTO", e)
    <3> DEFINE w == Enter(v, "AUTO", e)
    <3>1. "AUTO" \in TrueModes
      BY DEF TrueModes
    <3>2. v.armed /\ fsEkf => ~RequiresGPS("AUTO")
      BY <1>4, <2>2 DEF CanSetTrue, ModeNumber, MayInit, PositionOk
    <3>3. WellFormed(w) /\ w.mode = "AUTO" /\ w.armed = v.armed
      BY <3>1, EnterWellFormed DEF Sound
    <3>4. SetMode(v, m, e) = [w EXCEPT !.autoRTL = TRUE]
      BY <1>4, <2>2 DEF SetMode
    <3>5. Sound([w EXCEPT !.autoRTL = TRUE])
      <4> HIDE DEF w
      <4>1. QED BY <3>2, <3>3 DEF Sound, WellFormed, FliesBlind, LandsBlind, Vehicle
    <3>6. QED BY <3>4, <3>5
  <2>3. QED BY <2>1, <2>2
<1>5. QED BY <1>1, <1>2, <1>3, <1>4

\* The modes a list of fallbacks names; the lists have at most three.
ModeList(modes) == DOMAIN modes \subseteq 1..3 /\ \A i \in DOMAIN modes : modes[i] \in ModeNumbers

\* A list of fallbacks sets one of its modes, or none.
LEMMA SetFirstTakesOne ==
    ASSUME NEW v, NEW modes, NEW e, ModeList(modes)
    PROVE  \/ /\ SetFirst(v, modes, e) = v
              /\ \A i \in DOMAIN modes : ~CanSet(v, modes[i], e)
           \/ \E i \in DOMAIN modes : /\ CanSet(v, modes[i], e)
                                      /\ SetFirst(v, modes, e) = SetMode(v, modes[i], e)
<1> DEFINE works == {i \in DOMAIN modes : CanSet(v, modes[i], e)}
           first == CHOOSE i \in works : \A j \in works : i <= j
<1>1. CASE works = {}
  BY <1>1 DEF SetFirst
<1>2. CASE works # {}
  <2>1. works \subseteq 1..3
    BY DEF ModeList
  <2>2. \E i \in works : \A j \in works : i <= j
    <3> HIDE DEF works
    <3>1. CASE 1 \in works
      BY <2>1, <3>1
    <3>2. CASE 1 \notin works /\ 2 \in works
      <4>1. \A j \in works : 2 <= j
        BY <2>1, <3>2
      <4>2. QED BY <3>2, <4>1
    <3>3. CASE 1 \notin works /\ 2 \notin works
      <4>1. \A j \in works : j = 3
        BY <2>1, <3>3
      <4>2. QED BY <1>2, <4>1
    <3>4. QED BY <3>1, <3>2, <3>3
  <2>3. first \in works
    BY <2>2
  <2>4. SetFirst(v, modes, e) = SetMode(v, modes[first], e)
    BY <1>2 DEF SetFirst
  <2>5. QED BY <2>3, <2>4
<1>3. QED BY <1>1, <1>2

\* So it keeps a vehicle sound,
LEMMA SetFirstSound ==
    ASSUME NEW v, NEW modes, NEW e, ModeList(modes), Sound(v)
    PROVE  Sound(SetFirst(v, modes, e))
BY SetFirstTakesOne, SetModeSound DEF ModeList

\* and the lists of the failsafe actions are such lists.
LEMMA FallbacksAreModes ==
    ASSUME NEW action \in (FailsafeActions \cup {"LOITER_OR_RTL"}) \ {"NONE", "TERMINATE"}
    PROVE  ModeList(Fallbacks(action))
BY DEF FailsafeActions, Fallbacks, ModeList, ModeNumbers, TrueModes

-----------------------------------------------------------------------------
(* Disarming and the failsafe handlers *)

\* disarm() keeps it so, whoever calls it.
LEMMA DisarmSound ==
    ASSUME NEW v, NEW method \in DisarmMethods, Sound(v)
    PROVE  Sound(Disarm(v, method))
<1>1. CASE ~v.armed
  BY <1>1 DEF Disarm
<1>2. CASE v.armed
  <2> DEFINE w == [v EXCEPT !.armed = FALSE, !.armingDelay = FALSE, !.landed = TRUE,
                            !.disarmedBy = method]
  <2>1. Sound(w)
    BY DEF Sound, WellFormed, FliesBlind, LandsBlind, Vehicle
  <2>2. QED BY <1>2, <2>1 DEF Disarm
<1>3. QED BY <1>1, <1>2

\* Being landed or not is of no account to it.
LEMMA LandedSound ==
    ASSUME NEW v, NEW b \in BOOLEAN, Sound(v)
    PROVE  Sound([v EXCEPT !.landed = b])
BY DEF Sound, WellFormed, FliesBlind, LandsBlind, Vehicle

\* Any failsafe action
LEMMA DoFailsafeActionSound ==
    ASSUME NEW v, NEW action \in FailsafeActions, NEW e, Sound(v)
    PROVE  Sound(DoFailsafeAction(v, action, e))
<1>1. CASE action = "NONE"
  BY <1>1 DEF DoFailsafeAction
<1>2. CASE action = "TERMINATE"
  BY <1>2, DisarmSound DEF DoFailsafeAction, DisarmMethods
<1>3. CASE action \notin {"NONE", "TERMINATE"}
  BY <1>3, FallbacksAreModes, SetFirstSound DEF DoFailsafeAction
<1>4. QED BY <1>1, <1>2, <1>3

\* A return that begins
LEMMA LegGoSound ==
    ASSUME NEW v, Sound(v)
    PROVE  Sound([v EXCEPT !.leg = "GO"])
BY DEF Sound, WellFormed, FliesBlind, LandsBlind, Vehicle, Legs

\* The loss of a link
LEMMA LinkEventsSound ==
    ASSUME NEW v, NEW e, Sound(v)
    PROVE  Sound(RadioOnEvent(v, e)) /\ Sound(GcsOnEvent(v, e))
<1> USE CopterAssumption DEF DisarmMethods, FailsafeActions
<1>1. Sound(RadioOnEvent(v, e))
  <2> DEFINE action ==
         IF BatteryLanding(v) \/ ContinueLanding(v) THEN "LAND"
         ELSE IF ModeNumber(v) = "AUTO" /\ "RC_CONTINUE_IF_AUTO" \in FsOptions THEN "NONE"
         ELSE FsThr
  <2>1. action \in FailsafeActions
    OBVIOUS
  <2>2. Sound(DoFailsafeAction(v, action, e))
    BY <2>1, DoFailsafeActionSound
  <2>3. QED BY <2>2, DisarmSound DEF RadioOnEvent
<1>2. Sound(GcsOnEvent(v, e))
  <2> DEFINE action ==
         IF BatteryLanding(v) \/ ContinueLanding(v) THEN "LAND"
         ELSE IF \/ ModeNumber(v) = "AUTO" /\ "GCS_CONTINUE_IF_AUTO" \in FsOptions
                 \/ "GCS_CONTINUE_IF_PILOT" \in FsOptions /\ ~IsAutopilot(v.mode)
         THEN "NONE" ELSE FsGcs
  <2>1. action \in FailsafeActions
    OBVIOUS
  <2>2. Sound(DoFailsafeAction(v, action, e))
    BY <2>1, DoFailsafeActionSound
  <2>3. QED BY <2>2, DisarmSound DEF GcsOnEvent
<1>3. QED BY <1>1, <1>2

\* A battery's failsafe
LEMMA BatteryEventSound ==
    ASSUME NEW v, NEW action \in FailsafeActions, NEW e, Sound(v)
    PROVE  Sound(BatteryEvent(v, action, e))
<1>1. (IF ContinueLanding(v) /\ action # "NONE" THEN "LAND" ELSE action) \in FailsafeActions
  BY DEF FailsafeActions
<1>2. Sound(DoFailsafeAction(v, IF ContinueLanding(v) /\ action # "NONE" THEN "LAND" ELSE action, e))
  BY <1>1, DoFailsafeActionSound
<1>3. QED BY <1>2, DisarmSound DEF BatteryEvent, DisarmMethods

\* Lost terrain data
LEMMA TerrainOnEventSound ==
    ASSUME NEW v, NEW e, Sound(v)
    PROVE  Sound(TerrainOnEvent(v, e))
<1>1. ModeList(Fallbacks("RTL"))
  BY FallbacksAreModes DEF FailsafeActions
<1>2. QED BY <1>1, SetFirstSound, DisarmSound, LegGoSound DEF TerrainOnEvent, DisarmMethods

\* An obstacle in AUTO
LEMMA ObstacleOnEventSound ==
    ASSUME NEW v, NEW e, Sound(v)
    PROVE  Sound(ObstacleOnEvent(v, e))
<1>1. ModeList(Fallbacks("LOITER_OR_RTL"))
  BY FallbacksAreModes DEF FailsafeActions
<1>2. QED BY <1>1, SetFirstSound, LegGoSound DEF ObstacleOnEvent

\* The end of dead reckoning
LEMMA DeadReckonOnEventSound ==
    ASSUME NEW v, NEW e, Sound(v)
    PROVE  Sound(DeadReckonOnEvent(v, e))
BY CopterAssumption, DoFailsafeActionSound, DisarmSound DEF DeadReckonOnEvent, DisarmMethods

\* A breached fence
LEMMA FenceBreachedSound ==
    ASSUME NEW v, NEW far, NEW altMax, NEW e, Sound(v)
    PROVE  Sound(FenceBreached(v, far, altMax, e))
<1>1. CASE ~v.armed \/ FenceAction = "REPORT"
  BY <1>1 DEF FenceBreached
<1>2. CASE v.armed /\ FenceAction # "REPORT"
  <2>1. ModeList(<<"LAND">>)
    BY DEF ModeList, ModeNumbers, TrueModes
  <2>2. ModeList(Fallbacks(FenceAction))
    BY <1>2, CopterAssumption, FallbacksAreModes DEF FailsafeActions
  <2>3. /\ Sound(SetFirst(v, <<"LAND">>, e))
        /\ Sound(SetFirst(v, Fallbacks(FenceAction), e))
        /\ Sound(Disarm(v, "FENCEBREACH"))
    BY <2>1, <2>2, SetFirstSound, DisarmSound DEF DisarmMethods
  <2>4. QED BY <1>2, <2>3 DEF FenceBreached
<1>3. QED BY <1>1, <1>2

\* The EKF failsafe itself starts from a vehicle that may need a position and
\* leaves one that does not: LAND can be set from every such mode, and is
\* entered with the position already taken for lost.
LEMMA EkfEventSound ==
    ASSUME NEW v, NEW e, Sound(v), ~PositionOk(e)
    PROVE  WellFormed(EkfEvent(v, e)) /\ FliesBlind(EkfEvent(v, e))
<1> DEFINE modes == IF FsEkf = "ALT_HOLD" /\ ~fsRadio THEN <<"ALT_HOLD", "LAND">> ELSE <<"LAND">>
           w == SetFirst(v, modes, e)
<1>1. ModeList(modes)
  <2>1. ModeList(<<"ALT_HOLD", "LAND">>) /\ ModeList(<<"LAND">>)
    BY DEF ModeList, ModeNumbers, TrueModes
  <2>2. QED BY <2>1
<1>2. CASE ~v.armed \/ (~RequiresGPS(v.mode) /\ FsEkf # "LAND_EVEN_STABILIZE"
                       /\ ~(v.mode = "LAND" /\ v.controlPos))
  BY <1>2 DEF EkfEvent, Sound, FliesBlind, LandsBlind
<1>3. CASE v.armed /\ v.mode = "LAND" /\ v.controlPos
  <2>1. EkfEvent(v, e) = [v EXCEPT !.controlPos = FALSE]
    BY <1>3 DEF EkfEvent
  <2>2. WellFormed([v EXCEPT !.controlPos = FALSE])
    BY DEF Sound, WellFormed, Vehicle
  <2>3. FliesBlind([v EXCEPT !.controlPos = FALSE])
    BY <1>3 DEF Sound, WellFormed, Vehicle, FliesBlind, LandsBlind, RequiresGPS
  <2>4. QED BY <2>1, <2>2, <2>3
<1>4. CASE /\ v.armed /\ ~(v.mode = "LAND" /\ v.controlPos)
           /\ RequiresGPS(v.mode) \/ FsEkf = "LAND_EVEN_STABILIZE"
  <2>1. EkfEvent(v, e) = w
    BY <1>4 DEF EkfEvent
  <2>2. WellFormed(w)
    BY <1>1, SetFirstSound DEF Sound
  <2>3. FliesBlind(w)
    <3>1. CASE w = v /\ \A i \in DOMAIN modes : ~CanSet(v, modes[i], e)
      <4>1. \E i \in DOMAIN modes : modes[i] = "LAND"
        <5>1. 2 \in DOMAIN <<"ALT_HOLD", "LAND">> /\ <<"ALT_HOLD", "LAND">>[2] = "LAND"
          OBVIOUS
        <5>2. 1 \in DOMAIN <<"LAND">> /\ <<"LAND">>[1] = "LAND"
          OBVIOUS
        <5>3. QED BY <5>1, <5>2
      <4>2. ~CanSet(v, "LAND", e)
        BY <3>1, <4>1
      <4>3. HasManualThrottle(v.mode)
        BY <4>2, CopterAssumption
           DEF CanSet, CanSetTrue, MayInit, InitOk, AlwaysBuilt, RequiresGPS
      <4>4. QED BY <3>1, <4>3 DEF FliesBlind, LandsBlind, HasManualThrottle, RequiresGPS
    <3>2. CASE \E i \in DOMAIN modes : /\ CanSet(v, modes[i], e)
                                       /\ w = SetMode(v, modes[i], e)
      <4>1. PICK m \in {"ALT_HOLD", "LAND"} : CanSet(v, m, e) /\ w = SetMode(v, m, e)
        <5>1. \A i \in DOMAIN modes : modes[i] \in {"ALT_HOLD", "LAND"}
          OBVIOUS
        <5>2. QED BY <3>2, <5>1
      <4>2. w.mode = m /\ LandsBlind(w)
        <5>1. CanSetTrue(v, m, e) /\ w = SetTrueMode(v, m, e)
          BY <4>1 DEF CanSet, SetMode
        <5>2. CASE m = ModeNumber(v)
          BY <1>4, <5>1, <5>2, <4>1 DEF SetTrueMode, ModeNumber, LandsBlind
        <5>3. CASE m # ModeNumber(v)
          <6>1. w = Enter(v, m, e)
            BY <5>1, <5>3 DEF SetTrueMode
          <6>2. m \in TrueModes /\ WellFormed(v)
            BY DEF Sound, TrueModes
          <6>3. Enter(v, m, e).mode = m /\ LandsBlind(Enter(v, m, e))
            BY <6>2, EnterWellFormed
          <6>4. QED BY <6>1, <6>3
        <5>4. QED BY <5>2, <5>3
      <4>3. QED BY <4>2 DEF FliesBlind, RequiresGPS
    <3>3. QED BY <1>1, <3>1, <3>2, SetFirstTakesOne
  <2>4. QED BY <2>1, <2>2, <2>3
<1>5. QED BY <1>2, <1>3, <1>4

-----------------------------------------------------------------------------
(* The run() of each mode *)

\* What is asked of the motors is one of their states.
LEMMA DesireType ==
    ASSUME NEW v, NEW desired \in DesiredSpoolStates, spoolDesired \in DesiredSpoolStates
    PROVE  Desire(v, desired) => spoolDesired' \in DesiredSpoolStates
BY DEF Desire

\* The same of what follows the land detector
LEMMA GroundOrFlightType ==
    ASSUME NEW v, spoolDesired \in DesiredSpoolStates
    PROVE  GroundOrFlight(v) => spoolDesired' \in DesiredSpoolStates
BY DEF GroundOrFlight, Desire, DesiredSpoolStates

\* A landed vehicle is disarmed, if it asks for that.
LEMMA DisarmIfLandedSound ==
    ASSUME NEW v, Sound(v)
    PROVE  Sound(DisarmIfLanded(v))
BY DisarmSound DEF DisarmIfLanded, DisarmMethods

\* What a cancelled landing falls back on are modes.
LEMMA PilotModesAreModes == ModeList(<<"LOITER", "ALT_HOLD">>)
BY DEF ModeList, ModeNumbers, TrueModes

\* A pilot who cancels a landing
LEMMA PilotCancelsSound ==
    ASSUME NEW v, NEW cancel, NEW e, Sound(v)
    PROVE  Sound(PilotCancels(v, cancel, e))
BY PilotModesAreModes, SetFirstSound DEF PilotCancels

\* A run of the final descent or the landing
LEMMA RunDescentOrLandSound ==
    ASSUME NEW v, NEW cancel, NEW e, Sound(v), spoolDesired \in DesiredSpoolStates,
           RunDescentOrLand(v, cancel, e)
    PROVE  Sound(veh') /\ spoolDesired' \in DesiredSpoolStates
BY PilotCancelsSound, DisarmIfLandedSound, GroundOrFlightType DEF RunDescentOrLand

\* A new leg belongs to the mode that is flown.
LEMMA LegSound ==
    ASSUME NEW v, NEW leg \in Legs, Sound(v),
           leg = "ARRIVED" => v.mode = "RTL",
           leg = "TAKEOFF" => v.mode = "AUTO",
           leg = "DESCENT" => v.mode \in {"RTL", "SMART_RTL"},
           leg = "LAND" => v.mode \in {"RTL", "SMART_RTL", "AUTO"}
    PROVE  Sound([v EXCEPT !.leg = leg])
BY DEF Sound, WellFormed, FliesBlind, LandsBlind, Vehicle

\* A run of STABILIZE
LEMMA RunStabilizeSound ==
    ASSUME TypeOK, Sound(veh), RunStabilize
    PROVE  Sound(veh') /\ spoolDesired' \in DesiredSpoolStates
<1>1. Sound(veh')
  BY LandedSound DEF RunStabilize
<1>2. spoolDesired' \in DesiredSpoolStates
  BY DEF RunStabilize, Desire, TypeOK, DesiredSpoolStates
<1>3. QED BY <1>1, <1>2

\* A run of ALT_HOLD or LOITER
LEMMA RunAltHoldSound ==
    ASSUME TypeOK, Sound(veh), RunAltHold
    PROVE  Sound(veh') /\ spoolDesired' \in DesiredSpoolStates
<1>1. PICK climb \in ClimbRates :
         \/ \E lifted, reached \in BOOLEAN : AltHoldTakeoff(climb, lifted, reached)
         \/ AltHoldOther(climb)
  BY DEF RunAltHold
<1>2. CASE \E lifted, reached \in BOOLEAN : AltHoldTakeoff(climb, lifted, reached)
  <2>1. PICK lifted \in BOOLEAN, reached \in BOOLEAN : AltHoldTakeoff(climb, lifted, reached)
    BY <1>2
  <2>2. /\ Sound([veh EXCEPT !.takeoff = TRUE, !.landed = ~lifted])
        /\ Sound([veh EXCEPT !.takeoff = ~(climb = "down" \/ reached)])
    BY DEF RunAltHold, Sound, WellFormed, FliesBlind, LandsBlind, Vehicle
  <2>3. QED BY <2>1, <2>2 DEF AltHoldTakeoff, TypeOK
<1>3. CASE AltHoldOther(climb)
  BY <1>3 DEF AltHoldOther, Desire, TypeOK, DesiredSpoolStates
<1>4. QED BY <1>1, <1>2, <1>3

\* A run of LAND
LEMMA RunLandSound ==
    ASSUME TypeOK, Sound(veh), RunLand
    PROVE  Sound(veh') /\ spoolDesired' \in DesiredSpoolStates
<1>1. PICK cancel \in BOOLEAN, e \in Envs :
         IF veh.controlPos
         THEN LET v == DisarmIfLanded(veh)
              IN  veh' = PilotCancels(v, cancel, e) /\ GroundOrFlight(v)
         ELSE LET v == DisarmIfLanded(IF cancel /\ ~fsRadio THEN SetMode(veh, "ALT_HOLD", e)
                                                            ELSE veh)
              IN  veh' = v /\ GroundOrFlight(v)
  BY DEF RunLand
<1>2. Sound(SetMode(veh, "ALT_HOLD", e))
  BY SetModeSound DEF ModeNumbers, TrueModes
<1>3. Sound(IF cancel /\ ~fsRadio THEN SetMode(veh, "ALT_HOLD", e) ELSE veh)
  BY <1>2
<1>4. QED BY <1>1, <1>3, DisarmIfLandedSound, PilotCancelsSound, GroundOrFlightType DEF TypeOK

\* The way home of an RTL
LEMMA RtlReturnSound ==
    ASSUME TypeOK, Sound(veh), veh.mode = "RTL", NEW noTerrain, NEW arrived, NEW e,
           RtlReturn(noTerrain, arrived, e)
    PROVE  Sound(veh') /\ spoolDesired' \in DesiredSpoolStates
<1> DEFINE v == IF noTerrain THEN SetMode(veh, "LAND", e) ELSE veh
<1>1. Sound(v)
  BY SetModeSound DEF ModeNumbers, TrueModes
<1>2. v.mode = "RTL" => Sound([v EXCEPT !.leg = "ARRIVED"])
  <2> HIDE DEF v
  <2>1. QED BY <1>1, LegSound DEF Legs
<1>3. /\ veh' = v \/ (v.mode = "RTL" /\ veh' = [v EXCEPT !.leg = "ARRIVED"])
      /\ GroundOrFlight(v)
  BY DEF RtlReturn
<1>4. QED
  <2> HIDE DEF v
  <2>1. QED BY <1>1, <1>2, <1>3, GroundOrFlightType DEF TypeOK

\* Its last leg
LEMMA RtlLastLegSound ==
    ASSUME Sound(veh), veh.mode = "RTL", NEW leg \in RtlLastLegs
    PROVE  Sound([veh EXCEPT !.leg = leg])
<1>1. leg = veh.leg \/ leg \in {"LAND", "DESCENT"}
  BY DEF RtlLastLegs
<1>2. CASE leg = veh.leg
  <2>1. [veh EXCEPT !.leg = leg] = veh
    BY <1>2 DEF Vehicle, Sound, WellFormed
  <2>2. QED BY <2>1
<1>3. CASE leg \in {"LAND", "DESCENT"}
  BY <1>3, LegSound DEF Legs
<1>4. QED BY <1>1, <1>2, <1>3

\* A run of RTL
LEMMA RunRTLSound ==
    ASSUME TypeOK, Sound(veh), RunRTL
    PROVE  Sound(veh') /\ spoolDesired' \in DesiredSpoolStates
<1>1. CASE ~veh.armed
  BY <1>1 DEF RunRTL, TypeOK
<1>2. CASE veh.armed /\ veh.leg = "GO"
  BY <1>2, RtlReturnSound DEF RunRTL
<1>3. CASE veh.armed /\ veh.leg # "GO"
  <2>1. PICK leg \in RtlLastLegs, cancel \in BOOLEAN, e \in Envs :
           RunDescentOrLand([veh EXCEPT !.leg = leg], cancel, e)
    BY <1>3 DEF RunRTL
  <2>2. Sound([veh EXCEPT !.leg = leg])
    BY RtlLastLegSound DEF RunRTL
  <2>3. QED BY <2>1, <2>2, RunDescentOrLandSound DEF TypeOK
<1>4. QED BY <1>1, <1>2, <1>3

\* A run of SMART_RTL
LEMMA RunSmartRTLSound ==
    ASSUME TypeOK, Sound(veh), RunSmartRTL
    PROVE  Sound(veh') /\ spoolDesired' \in DesiredSpoolStates
<1>1. CASE veh.leg = "GO"
  <2>1. PICK next \in {"GO", "LAND", "DESCENT"} : veh' = [veh EXCEPT !.leg = next]
    BY <1>1 DEF RunSmartRTL
  <2>2. Sound([veh EXCEPT !.leg = next])
    BY LegSound DEF Legs, RunSmartRTL
  <2>3. spoolDesired' \in DesiredSpoolStates
    BY <1>1 DEF RunSmartRTL, Desire, TypeOK, DesiredSpoolStates
  <2>4. QED BY <2>1, <2>2, <2>3
<1>2. CASE veh.leg # "GO"
  BY <1>2, RunDescentOrLandSound DEF RunSmartRTL, TypeOK
<1>3. QED BY <1>1, <1>2

\* A mission goes on, or is over and lands or returns.
LEMMA MissionStepSound ==
    ASSUME Sound(veh), veh.mode = "AUTO", NEW e,
           NEW next \in {"stay", "over", "GO", "TAKEOFF", "LAND"}
    PROVE  Sound(MissionStep(next, e))
<1>1. next \in {"GO", "TAKEOFF", "LAND"} => Sound([veh EXCEPT !.leg = next])
  BY LegSound DEF Legs
<1>2. Sound([veh EXCEPT !.leg = "GO"])
  BY LegGoSound
<1>3. Sound(SetMode(veh, "LAND", e))
  BY SetModeSound DEF ModeNumbers, TrueModes
<1>4. Sound(Disarm(veh, "LANDED")) /\ Sound(Disarm(veh, "MISSIONEXIT"))
  BY DisarmSound DEF DisarmMethods
<1>5. CASE veh.leg = "LAND"
  BY <1>1, <1>4, <1>5 DEF MissionStep
<1>6. CASE veh.leg # "LAND"
  BY <1>1, <1>2, <1>3, <1>4, <1>6 DEF MissionStep
<1>7. QED BY <1>5, <1>6

\* The leg of AUTO that is flown
LEMMA AutoLegSound ==
    ASSUME TypeOK, NEW v, NEW lifted, NEW obstacle, NEW cancel, NEW e,
           Sound(v), AutoLeg(v, lifted, obstacle, cancel, e)
    PROVE  Sound(veh') /\ spoolDesired' \in DesiredSpoolStates
<1>1. CASE v.leg = "TAKEOFF"
  <2>1. Sound([v EXCEPT !.landed = @ /\ ~(lifted /\ spool = "UNLIMITED")])
    BY DEF Sound, WellFormed, FliesBlind, LandsBlind, Vehicle
  <2>2. Desire(v, "UNLIMITED") => spoolDesired' \in DesiredSpoolStates
    BY DEF Desire, TypeOK, DesiredSpoolStates
  <2>3. CASE v.armed /\ autoArmed
    BY <1>1, <2>1, <2>2, <2>3 DEF AutoLeg
  <2>4. CASE ~(v.armed /\ autoArmed)
    BY <1>1, <2>4 DEF AutoLeg, TypeOK
  <2>5. QED BY <2>3, <2>4
<1>2. CASE v.leg = "LAND"
  BY <1>2, PilotCancelsSound, GroundOrFlightType DEF AutoLeg, TypeOK
<1>3. CASE v.leg \notin {"TAKEOFF", "LAND"}
  BY <1>3, ObstacleOnEventSound, GroundOrFlightType DEF AutoLeg, TypeOK
<1>4. QED BY <1>1, <1>2, <1>3

\* A run of AUTO
LEMMA RunAutoSound ==
    ASSUME TypeOK, Sound(veh), RunAuto
    PROVE  /\ Sound(veh') /\ spoolDesired' \in DesiredSpoolStates
           /\ fsTerrain' \in BOOLEAN
<1>1. PICK next \in MissionSteps, leftSequence \in BOOLEAN,
           lifted \in BOOLEAN, cancel \in BOOLEAN,
           obstacle \in {FALSE, "obstacle" \in Tasks},
           noTerrain \in {FALSE, "terrain_check" \in Tasks}, e \in Envs :
         AutoStep(next, leftSequence, lifted, cancel, obstacle, noTerrain, e)
  BY DEF RunAuto
<1> DEFINE noStart == noTerrain /\ e.mission /\ next = "GO" /\ veh.leg # "LAND"
           step == IF e.mission THEN (IF noStart THEN "stay" ELSE next) ELSE "stay"
           v == MissionStep(step, e)
           w == [v EXCEPT !.autoRTL = @ /\ ~leftSequence]
<1>2. \/ /\ noTerrain /\ veh' = TerrainOnEvent(w, e) /\ fsTerrain' = TRUE
         /\ UNCHANGED spoolDesired \/ GroundOrFlight(w)
      \/ AutoLeg(w, lifted, obstacle, cancel, e) /\ UNCHANGED fsTerrain
  BY <1>1 DEF AutoStep, AfterMission
<1>3. step \in MissionSteps
  BY DEF MissionSteps
<1>4. Sound(v)
  <2> HIDE DEF step
  <2>1. QED BY <1>3, MissionStepSound DEF RunAuto, MissionSteps
<1>5. Sound(w)
  <2> HIDE DEF v
  <2>1. QED BY <1>4 DEF Sound, WellFormed, FliesBlind, LandsBlind, Vehicle
<1> HIDE DEF w
<1>6. CASE AutoLeg(w, lifted, obstacle, cancel, e) /\ UNCHANGED fsTerrain
  BY <1>5, <1>6, AutoLegSound DEF TypeOK
<1>7. CASE /\ veh' = TerrainOnEvent(w, e) /\ fsTerrain' = TRUE
           /\ UNCHANGED spoolDesired \/ GroundOrFlight(w)
  BY <1>5, <1>7, TerrainOnEventSound, GroundOrFlightType DEF TypeOK
<1>8. QED BY <1>2, <1>6, <1>7

\* A run of BRAKE
LEMMA RunBrakeSound ==
    ASSUME TypeOK, Sound(veh), RunBrake
    PROVE  Sound(veh') /\ spoolDesired' \in DesiredSpoolStates
BY PilotModesAreModes, SetFirstSound, GroundOrFlightType DEF RunBrake, TypeOK

-----------------------------------------------------------------------------
(* The inductive invariant and its steps *)

\* Beside the types: the vehicle is sound, and the failsafe flag the handlers
\* read says what the counters of ekf_check() say.  Without the latter a
\* failure could be flagged without the failsafe's having been acted upon.
IInv ==
    /\ TypeOK
    /\ Sound(veh)
    /\ fsEkf = ekf.bad
    /\ ekf.bad \/ ekf.fails < EkfIterMax

\* Initially
LEMMA InitIInv == Init => IInv
<1> SUFFICES ASSUME Init PROVE IInv
  OBVIOUS
<1>1. TypeOK
  <2>1. veh \in Vehicle
    BY DEF Init, Vehicle, TrueModes, Legs, DisarmMethods
  <2>2. ekf \in EkfState
    BY CopterAssumption DEF Init, EkfState
  <2>3. /\ phase \in Phases
        /\ spool \in SpoolStates /\ spoolDesired \in DesiredSpoolStates
        /\ batt \in 0..2 /\ battPriority = NoPriority
    BY DEF Init, Phases, SpoolStates, DesiredSpoolStates
  <2>4. /\ autoArmed \in BOOLEAN /\ throttleZero \in BOOLEAN
        /\ fsRadio \in BOOLEAN /\ fsGcs \in BOOLEAN /\ fsEkf \in BOOLEAN
        /\ fsTerrain \in BOOLEAN /\ fsDr \in BOOLEAN
    BY DEF Init
  <2>5. QED BY <2>1, <2>2, <2>3, <2>4 DEF TypeOK
<1>2. Sound(veh)
  BY <1>1 DEF Init, Sound, WellFormed, FliesBlind, LandsBlind, TypeOK
<1>3. ekf.fails < EkfIterMax
  BY CopterAssumption DEF Init
<1>4. QED BY <1>1, <1>2, <1>3 DEF Init, IInv

\* What is left to show of a step that moves neither the EKF's state nor the
\* battery's.
LEMMA VehicleStep ==
    ASSUME IInv, Sound(veh'), UNCHANGED <<fsEkf, ekf, battVars>>,
           phase' \in Phases, autoArmed' \in BOOLEAN, throttleZero' \in BOOLEAN,
           spool' \in SpoolStates, spoolDesired' \in DesiredSpoolStates,
           fsRadio' \in BOOLEAN, fsGcs' \in BOOLEAN, fsTerrain' \in BOOLEAN, fsDr' \in BOOLEAN
    PROVE  IInv'
<1>1. TypeOK'
  BY DEF IInv, TypeOK, Sound, WellFormed, battVars
<1>2. Sound(veh)'
  BY DEF Sound, WellFormed, FliesBlind, LandsBlind
<1>3. QED BY <1>1, <1>2 DEF IInv

\* The fast tasks keep the invariant,
LEMMA FastLoopStep == IInv /\ FastLoop => IInv'
<1> SUFFICES ASSUME IInv, FastLoop PROVE IInv'
  OBVIOUS
<1> USE DEF fsVars
<1>1. ASSUME NEW expired \in BOOLEAN, NEW ramped \in BOOLEAN, MotorsOutput(expired, ramped)
      PROVE  IInv'
  <2> DEFINE delay == veh.armingDelay /\ veh.armed /\ ~expired
  <2>1. Sound([veh EXCEPT !.armingDelay = delay])
    BY DEF IInv, Sound, WellFormed, FliesBlind, LandsBlind, Vehicle
  <2>2. SpoolStep \in SpoolStates
    BY DEF SpoolStep, IInv, TypeOK, SpoolStates
  <2>3. spool' \in SpoolStates /\ spoolDesired' \in DesiredSpoolStates
    BY <1>1, <2>2 DEF MotorsOutput, IInv, TypeOK, SpoolStates, DesiredSpoolStates
  <2>4. Sound(veh')
    BY <1>1, <2>1 DEF MotorsOutput
  <2>5. QED BY <1>1, <2>3, <2>4, VehicleStep DEF MotorsOutput, IInv, TypeOK, Phases
<1>2. CASE UpdateFlightMode
  <2>1. /\ Sound(veh') /\ spoolDesired' \in DesiredSpoolStates
        /\ fsTerrain' \in BOOLEAN
    BY <1>2, RunStabilizeSound, RunAltHoldSound, RunLandSound, RunRTLSound, RunSmartRTLSound,
       RunAutoSound, RunBrakeSound DEF UpdateFlightMode, IInv, TypeOK
  <2>2. QED BY <1>2, <2>1, VehicleStep DEF UpdateFlightMode, IInv, TypeOK, Phases
<1>3. CASE LandDetector
  <2>1. ASSUME NEW high, NEW touched PROVE Sound(DetectLanding(veh, high, touched))
    <3>1. Sound(LandComplete(veh))
      BY DisarmSound, LandedSound DEF LandComplete, IInv, DisarmMethods
    <3>2. /\ Sound([veh EXCEPT !.landed = TRUE])
          /\ Sound([veh EXCEPT !.landed = ~(high /\ spool = "UNLIMITED")])
      BY LandedSound DEF IInv
    <3>3. veh.armed \in BOOLEAN /\ veh.landed \in BOOLEAN
      BY DEF IInv, TypeOK, Vehicle
    <3>4. QED BY <3>1, <3>2, <3>3 DEF DetectLanding, IInv
  <2>2. ASSUME NEW v, NEW crashed, Sound(v) PROVE Sound(CheckCrash(v, crashed))
    BY <2>2, DisarmSound DEF CheckCrash, DisarmMethods
  <2>3. Sound(veh')
    BY <1>3, <2>1, <2>2 DEF LandDetector
  <2>4. QED BY <1>3, <2>3, VehicleStep DEF LandDetector, IInv, TypeOK, Phases
<1>4. CASE EndLoop
  BY <1>4, VehicleStep DEF EndLoop, IInv, TypeOK, Phases
<1>5. QED BY <1>1, <1>2, <1>3, <1>4 DEF FastLoop

\* Arming asks a mode that needs a position for one, and refuses LAND.
LEMMA ArmSound ==
    ASSUME NEW v, NEW forced, NEW e, Sound(v), NeverForced => ~forced
    PROVE  Sound(Arm(v, forced, e))
<1>1. CASE ~v.armed /\ MayArm(v, forced, e)
  <2> DEFINE w == [v EXCEPT !.armed = TRUE, !.armingDelay = TRUE, !.disarmedBy = "NONE"]
  <2>1. fsEkf => ~RequiresGPS(v.mode)
    BY <1>1 DEF MayArm, PositionOk
  <2>2. WellFormed(w) /\ w.mode = v.mode
    BY DEF Sound, WellFormed, Vehicle, DisarmMethods
  <2>3. LandsBlind(w)
    BY <1>1, <2>2 DEF MayArm, AllowsArming, LandsBlind
  <2>4. QED BY <1>1, <2>1, <2>2, <2>3 DEF Arm, Sound, FliesBlind
<1>2. CASE ~(~v.armed /\ MayArm(v, forced, e))
  BY <1>2 DEF Arm
<1>3. QED BY <1>1, <1>2

\* and so does the check of the EKF, which is where a failsafe begins,
LEMMA EkfCheckStep == IInv /\ EkfCheck => IInv'
<1> SUFFICES ASSUME IInv, EkfCheck PROVE IInv'
  OBVIOUS
<1>1. PICK passed \in BOOLEAN : ekf' = NextEkfState(passed)
  BY DEF EkfCheck
<1>2. ekf' \in EkfState
  <2>1. EkfIterMax \in Nat \ {0}
    BY CopterAssumption
  <2>2. ekf \in EkfState /\ (ekf.bad \/ ekf.fails < EkfIterMax)
    BY DEF IInv, TypeOK
  <2> DEFINE fails == CASE ~passed /\ ~ekf.bad      -> ekf.fails + 1
                        [] passed /\ ekf.fails > 0  -> ekf.fails - 1
                        [] OTHER                    -> ekf.fails
  <2>3. fails \in 0..EkfIterMax
    BY <2>1, <2>2 DEF EkfState
  <2> DEFINE bad == IF passed THEN ekf.bad /\ fails > 0 ELSE ekf.bad \/ fails = EkfIterMax
  <2>4. bad \in BOOLEAN
    OBVIOUS
  <2>5. ekf' = ekf \/ ekf' = [fails |-> fails, everPassed |-> TRUE, bad |-> bad]
    BY <1>1 DEF NextEkfState
  <2> HIDE DEF fails, bad
  <2>6. [fails |-> fails, everPassed |-> TRUE, bad |-> bad] \in EkfState
    BY <2>3, <2>4 DEF EkfState
  <2>7. QED BY <2>2, <2>5, <2>6
<1>3. fsEkf' = ekf'.bad /\ fsEkf' \in BOOLEAN
  BY <1>2 DEF EkfCheck, EkfState
<1>4. WellFormed(veh') /\ (fsEkf' => FliesBlind(veh'))
  <2>1. CASE ekf'.bad /\ ~ekf.bad
    <3>1. PICK e \in Envs : veh' = EkfEvent(veh, [e EXCEPT !.pos = FALSE])
      BY <2>1 DEF EkfCheck
    <3>2. ~PositionOk([e EXCEPT !.pos = FALSE])
      BY CopterAssumption DEF PositionOk, Environment
    <3>3. QED BY <3>1, <3>2, EkfEventSound DEF IInv
  <2>2. CASE ~(ekf'.bad /\ ~ekf.bad)
    BY <1>3, <2>2 DEF EkfCheck, IInv, Sound
  <2>3. QED BY <2>1, <2>2
<1>5. TypeOK'
  BY <1>2, <1>3, <1>4 DEF EkfCheck, Task, IInv, TypeOK, WellFormed, battVars
<1>6. Sound(veh)'
  BY <1>4 DEF Sound, WellFormed, FliesBlind, LandsBlind
<1>7. ekf'.bad \/ ekf'.fails < EkfIterMax
  <2>1. EkfIterMax \in Nat \ {0} /\ ekf \in EkfState /\ (ekf.bad \/ ekf.fails < EkfIterMax)
    BY CopterAssumption DEF IInv, TypeOK
  <2>2. CASE passed
    BY <1>1, <2>1, <2>2 DEF NextEkfState, EkfState
  <2>3. CASE ~passed
    BY <1>1, <2>1, <2>3 DEF NextEkfState, EkfState
  <2>4. QED BY <2>2, <2>3
<1>8. QED BY <1>3, <1>5, <1>6, <1>7 DEF IInv

\* so does the check switched off,
LEMMA EkfCheckDisabledStep == IInv /\ EkfCheckDisabled => IInv'
<1> SUFFICES ASSUME IInv, EkfCheckDisabled PROVE IInv'
  OBVIOUS
<1>1. EkfIterMax \in Nat \ {0} /\ ekf \in EkfState
  BY CopterAssumption DEF IInv, TypeOK
<1>2. ekf' = [ekf EXCEPT !.fails = 0, !.bad = FALSE] /\ fsEkf' = FALSE
  BY DEF EkfCheckDisabled
<1>3. ekf' \in EkfState
  <2>1. 0 \in 0..EkfIterMax
    BY <1>1
  <2>2. ekf' = [fails |-> 0, bad |-> FALSE, everPassed |-> ekf.everPassed]
    BY <1>1, <1>2 DEF EkfState
  <2>3. QED BY <1>1, <2>1, <2>2 DEF EkfState
<1>4. ekf'.bad = FALSE /\ ekf'.fails = 0
  BY <1>1, <1>2 DEF EkfState
<1>5. TypeOK'
  BY <1>2, <1>3 DEF EkfCheckDisabled, Task, IInv, TypeOK, battVars
<1>6. Sound(veh)'
  BY <1>2 DEF EkfCheckDisabled, Sound, WellFormed, IInv
<1>7. ekf'.fails < EkfIterMax
  BY <1>1, <1>4
<1>8. QED BY <1>2, <1>4, <1>5, <1>6, <1>7 DEF IInv

\* the four checks of three_hz_loop(),
LEMMA ThreeHzLoopStep == IInv /\ ThreeHzLoop => IInv'
<1> SUFFICES ASSUME IInv, ThreeHzLoop PROVE IInv'
  OBVIOUS
<1>1. PICK lost \in {FALSE, "gcs_check" \in Tasks},
           noTerrain \in {FALSE, "terrain_check" \in Tasks},
           deadReckoning \in {FALSE, "deadreckon_check" \in Tasks},
           breach \in {FALSE, "fence_check" \in Tasks},
           far \in BOOLEAN, altMax \in BOOLEAN, e \in Envs :
         LET newGcs     == FsGcs # "NONE" /\ lost
             afterGcs   == IF newGcs /\ ~fsGcs THEN GcsOnEvent(veh, e) ELSE veh
             newTerrain == noTerrain /\ RequiresTerrain(afterGcs.mode)
             afterTerrain == IF newTerrain /\ ~fsTerrain THEN TerrainOnEvent(afterGcs, e)
                                                        ELSE afterGcs
             newDr      == FsDr # "NONE" /\ deadReckoning
             afterDr    == IF newDr /\ ~fsDr THEN DeadReckonOnEvent(afterTerrain, e)
                                            ELSE afterTerrain
         IN  /\ breach \/ (~far /\ ~altMax)
             /\ fsGcs' = newGcs /\ fsTerrain' = newTerrain /\ fsDr' = newDr
             /\ veh' = IF breach THEN FenceBreached(afterDr, far, altMax, e) ELSE afterDr
  BY DEF ThreeHzLoop
<1> DEFINE newGcs     == FsGcs # "NONE" /\ lost
           afterGcs   == IF newGcs /\ ~fsGcs THEN GcsOnEvent(veh, e) ELSE veh
           newTerrain == noTerrain /\ RequiresTerrain(afterGcs.mode)
           afterTerrain == IF newTerrain /\ ~fsTerrain THEN TerrainOnEvent(afterGcs, e)
                                                      ELSE afterGcs
           newDr      == FsDr # "NONE" /\ deadReckoning
           afterDr    == IF newDr /\ ~fsDr THEN DeadReckonOnEvent(afterTerrain, e)
                                          ELSE afterTerrain
<1>2. Sound(afterGcs)
  BY LinkEventsSound DEF IInv
<1>3. Sound(afterTerrain)
  <2> HIDE DEF afterGcs
  <2>1. QED BY <1>2, TerrainOnEventSound
<1>4. Sound(afterDr)
  <2> HIDE DEF afterTerrain
  <2>1. QED BY <1>3, DeadReckonOnEventSound
<1>5. veh' = IF breach THEN FenceBreached(afterDr, far, altMax, e) ELSE afterDr
  BY <1>1
<1>6. Sound(veh')
  <2> HIDE DEF afterDr
  <2>1. QED BY <1>4, <1>5, FenceBreachedSound
<1>7. fsGcs' \in BOOLEAN /\ fsTerrain' \in BOOLEAN /\ fsDr' \in BOOLEAN
  <2>1. fsGcs' = newGcs /\ fsTerrain' = newTerrain /\ fsDr' = newDr
    BY <1>1
  <2>2. newGcs \in BOOLEAN /\ newDr \in BOOLEAN
    OBVIOUS
  <2>3. newTerrain \in BOOLEAN
    <3> HIDE DEF afterGcs
    <3>1. QED BY DEF RequiresTerrain
  <2>4. QED BY <2>1, <2>2, <2>3
<1>8. QED BY <1>6, <1>7, VehicleStep DEF ThreeHzLoop, IInv, TypeOK

\* the pass over the battery,
LEMMA BatteryCheckStep == IInv /\ BatteryCheck => IInv'
<1> SUFFICES ASSUME IInv, BatteryCheck PROVE IInv'
  OBVIOUS
<1>1. PICK level \in {1, 2}, e \in Envs :
         LET action == IF level = 1 THEN LowAction ELSE CritAction
         IN  /\ level > batt /\ batt' = level
             /\ IF BatteryUrgent(action)
                THEN battPriority' = Priority(action) /\ veh' = BatteryEvent(veh, action, e)
                ELSE UNCHANGED <<veh, battPriority>>
  BY DEF BatteryCheck
<1> DEFINE action == IF level = 1 THEN LowAction ELSE CritAction
<1>2. action \in FailsafeActions
  BY CopterAssumption
<1>3. Sound(BatteryEvent(veh, action, e))
  <2> HIDE DEF action
  <2>1. QED BY <1>2, BatteryEventSound DEF IInv
<1>4. Priority(action) \in 0..6
  BY DEF Priority
<1>5. batt' \in 0..2 /\ battPriority' \in 0..6 \cup {NoPriority}
  <2> HIDE DEF action
  <2>1. battPriority' \in {Priority(action), battPriority}
    <3>1. USE DEF action
    <3>2. QED BY <1>1
  <2>2. QED BY <1>1, <1>4, <2>1 DEF IInv, TypeOK
<1>6. Sound(veh')
  BY <1>1, <1>3 DEF IInv
<1>7. TypeOK'
  BY <1>5, <1>6 DEF BatteryCheck, Task, IInv, TypeOK, Sound, WellFormed, fsVars
<1>8. Sound(veh)' /\ (fsEkf = ekf.bad)' /\ (ekf.bad \/ ekf.fails < EkfIterMax)'
  BY <1>6 DEF BatteryCheck, IInv, Sound, WellFormed, FliesBlind, LandsBlind, fsVars
<1>9. QED BY <1>7, <1>8 DEF IInv

\* and so every scheduled task.
LEMMA TaskStep == IInv /\ ScheduledTask => IInv'
<1> SUFFICES ASSUME IInv, ScheduledTask PROVE IInv'
  OBVIOUS
<1> USE DEF fsVars, Task
<1>1. CASE ReadRadio
  <2>1. Sound(veh')
    BY <1>1, LinkEventsSound DEF ReadRadio, IInv
  <2>2. fsRadio' \in BOOLEAN /\ throttleZero' \in BOOLEAN
    BY <1>1 DEF ReadRadio
  <2>3. QED BY <1>1, <2>1, <2>2, VehicleStep DEF ReadRadio, IInv, TypeOK
<1>2. CASE ThrottleLoop
  <2>1. autoArmed' \in BOOLEAN
    BY <1>2 DEF ThrottleLoop
  <2>2. QED BY <1>2, <2>1, VehicleStep DEF ThrottleLoop, IInv, TypeOK
<1>3. CASE ModeSwitch
  BY <1>3, SetModeSound, VehicleStep DEF ModeSwitch, IInv, TypeOK
<1>4. CASE Rudder
  <2>1. Sound(veh')
    BY <1>4, ArmSound, DisarmSound DEF Rudder, IInv, DisarmMethods
  <2>2. QED BY <1>4, <2>1, VehicleStep DEF Rudder, IInv, TypeOK
<1>5. CASE AutoDisarm
  <2>1. Sound(veh')
    BY <1>5, DisarmSound DEF AutoDisarm, IInv, DisarmMethods
  <2>2. QED BY <1>5, <2>1, VehicleStep DEF AutoDisarm, IInv, TypeOK
<1>6. CASE EkfCheck \/ EkfCheckDisabled
  BY <1>6, EkfCheckStep, EkfCheckDisabledStep
<1>7. CASE ThreeHzLoop
  BY <1>7, ThreeHzLoopStep
<1>8. CASE BatteryCheck
  BY <1>8, BatteryCheckStep
<1>9. CASE GcsSetMode
  BY <1>9, SetModeSound, VehicleStep DEF GcsSetMode, IInv, TypeOK
<1>10. CASE GcsMissionStart
  <2>1. "AUTO" \in ModeNumbers
    BY DEF ModeNumbers, TrueModes
  <2>2. Sound(veh') /\ autoArmed' \in BOOLEAN
    BY <1>10, <2>1, SetModeSound DEF GcsMissionStart, IInv
  <2>3. QED BY <1>10, <2>2, VehicleStep DEF GcsMissionStart, IInv, TypeOK
<1>11. CASE GcsArm
  BY <1>11, ArmSound, VehicleStep DEF GcsArm, IInv, TypeOK, NeverForced
<1>12. CASE GcsDisarm
  <2>1. Sound(veh')
    BY <1>12, DisarmSound DEF GcsDisarm, IInv, DisarmMethods
  <2>2. QED BY <1>12, <2>1, VehicleStep DEF GcsDisarm, IInv, TypeOK
<1>13. CASE GcsTakeoff
  <2>1. Sound([veh EXCEPT !.takeoff = TRUE])
    BY <1>13 DEF GcsTakeoff, IInv, Sound, WellFormed, FliesBlind, LandsBlind, Vehicle
  <2>2. QED BY <1>13, <2>1, VehicleStep DEF GcsTakeoff, IInv, TypeOK
<1>14. QED
  BY <1>1, <1>2, <1>3, <1>4, <1>5, <1>6, <1>7, <1>8, <1>9, <1>10, <1>11, <1>12, <1>13
  DEF ScheduledTask

\* Doing nothing keeps it.
LEMMA StutteringStep == IInv /\ UNCHANGED vars => IInv'
<1> SUFFICES ASSUME IInv, UNCHANGED vars PROVE IInv'
  OBVIOUS
<1>1. /\ UNCHANGED <<phase, veh, autoArmed, throttleZero, spool, spoolDesired, fsRadio, fsGcs>>
      /\ UNCHANGED <<fsEkf, fsTerrain, fsDr, ekf, batt, battPriority>>
  BY DEF vars, fsVars, battVars
<1>2. QED BY <1>1, VehicleStep DEF IInv, TypeOK, battVars

-----------------------------------------------------------------------------
\* The invariant is inductive.
THEOREM Inductive == Spec => []IInv
<1>1. IInv /\ [Next]_vars => IInv'
  BY FastLoopStep, TaskStep, StutteringStep DEF Next
<1>2. QED BY InitIInv, <1>1, PTL DEF Spec

\* Type correctness of the main loop, for every build, parameter setting and
\* set of environments.
THEOREM TypeCorrect == Spec => []TypeOK
<1>1. IInv => TypeOK
  BY DEF IInv
<1>2. QED BY Inductive, <1>1, PTL

\* No handler of the code, in whatever order they run, flies a mode that needs
\* a position through an EKF failsafe.
THEOREM EkfFailsafeIsHeld == Spec => []EkfFailsafeHeld
<1>1. IInv => EkfFailsafeHeld
  BY DEF IInv, Sound, FliesBlind, EkfFailsafeHeld
<1>2. QED BY Inductive, <1>1, PTL

\* Where no station can force an arming, no vehicle lands with the position
\* controller through an EKF failsafe: do_not_use_GPS() and the init() of LAND
\* between them leave no order of handlers in which it does.
THEOREM EkfFailsafeLandsWithoutGPS ==
    ASSUME NeverForced
    PROVE  Spec => []EkfLandsWithoutGPS
<1>1. IInv => EkfLandsWithoutGPS
  BY NeverForced DEF IInv, Sound, FliesBlind, LandsBlind, EkfLandsWithoutGPS
<1>2. QED BY Inductive, <1>1, PTL

\* The flags and sub-modes of a mode never outlive it, whichever of set_mode's
\* callers ended it.
THEOREM SubmodesEndWithTheirMode == Spec => []SubmodeBelongsToMode
<1>1. IInv => SubmodeBelongsToMode
  BY DEF IInv, Sound, WellFormed, SubmodeBelongsToMode
<1>2. QED BY Inductive, <1>1, PTL

-----------------------------------------------------------------------------
(* The battery: Copter implements BattMonitor *)

\* A handler that may disarm the vehicle and never arms it.
OnlyDisarms(v, w) == w.armed \in {v.armed, FALSE}

\* No change of mode arms or disarms.
LEMMA SetTrueModeKeepsArmed ==
    ASSUME NEW v, NEW m \in TrueModes, NEW e, WellFormed(v)
    PROVE  SetTrueMode(v, m, e).armed = v.armed
<1>1. Enter(v, m, e).armed = v.armed
  BY EnterWellFormed
<1>2. [v EXCEPT !.autoRTL = FALSE].armed = v.armed
  BY DEF WellFormed, Vehicle
<1>3. QED BY <1>1, <1>2 DEF SetTrueMode

\* Nor does one in the disguise of AUTO_RTL,
LEMMA SetModeKeepsArmed ==
    ASSUME NEW v, NEW m \in ModeNumbers, NEW e, WellFormed(v)
    PROVE  SetMode(v, m, e).armed = v.armed
<1>1. CASE m # "AUTO_RTL"
  BY <1>1, SetTrueModeKeepsArmed DEF ModeNumbers, SetMode
<1>2. CASE m = "AUTO_RTL"
  <2> DEFINE w == Enter(v, "AUTO", e)
  <2>1. [v EXCEPT !.autoRTL = TRUE, !.leg = "GO"].armed = v.armed
    BY DEF WellFormed, Vehicle
  <2>2. w \in Vehicle /\ w.armed = v.armed
    BY EnterWellFormed DEF TrueModes, WellFormed
  <2>3. [w EXCEPT !.autoRTL = TRUE].armed = v.armed
    <3> HIDE DEF w
    <3>1. QED BY <2>2 DEF Vehicle
  <2>4. QED BY <1>2, <2>1, <2>3 DEF SetMode
<1>3. QED BY <1>1, <1>2

\* nor a list of fallbacks.
LEMMA SetFirstKeepsArmed ==
    ASSUME NEW v, NEW modes, NEW e, ModeList(modes), WellFormed(v)
    PROVE  SetFirst(v, modes, e).armed = v.armed
BY SetFirstTakesOne, SetModeKeepsArmed DEF ModeList

\* disarm() never arms.
LEMMA DisarmOnlyDisarms ==
    ASSUME NEW v, NEW method, WellFormed(v)
    PROVE  OnlyDisarms(v, Disarm(v, method))
BY DEF OnlyDisarms, Disarm, WellFormed, Vehicle

\* A battery failsafe at most disarms: that is all its action may do to armed.
LEMMA BatteryEventOnlyDisarms ==
    ASSUME NEW v, NEW action \in FailsafeActions, NEW e, WellFormed(v)
    PROVE  OnlyDisarms(v, BatteryEvent(v, action, e))
<1> DEFINE chosen == IF ContinueLanding(v) /\ action # "NONE" THEN "LAND" ELSE action
<1>1. chosen \in FailsafeActions
  BY DEF FailsafeActions
<1>2. OnlyDisarms(v, DoFailsafeAction(v, chosen, e))
  <2> HIDE DEF chosen
  <2>1. CASE chosen = "NONE"
    BY <2>1 DEF DoFailsafeAction, OnlyDisarms
  <2>2. CASE chosen = "TERMINATE"
    BY <2>2, DisarmOnlyDisarms DEF DoFailsafeAction
  <2>3. CASE chosen \notin {"NONE", "TERMINATE"}
    BY <1>1, <2>3, FallbacksAreModes, SetFirstKeepsArmed DEF DoFailsafeAction, OnlyDisarms
  <2>4. QED BY <2>1, <2>2, <2>3
<1>3. QED BY <1>2, DisarmOnlyDisarms DEF BatteryEvent

-----------------------------------------------------------------------------
\* Only the battery's own task changes what the battery has asked for.
LEMMA OthersKeepBattery == Next => BatteryCheck \/ UNCHANGED battVars
<1>1. FastLoop => UNCHANGED battVars
  BY DEF FastLoop, MotorsOutput, UpdateFlightMode, LandDetector, EndLoop
<1>2. ScheduledTask => BatteryCheck \/ UNCHANGED battVars
  BY DEF ScheduledTask, ReadRadio, ThrottleLoop, ModeSwitch, Rudder, AutoDisarm, EkfCheck, EkfCheckDisabled,
         ThreeHzLoop, GcsSetMode, GcsMissionStart, GcsArm, GcsDisarm, GcsTakeoff
<1>3. QED BY <1>1, <1>2 DEF Next

\* The two components rank the actions alike.
LEMMA SamePriorities ==
    /\ \A action : Battery!Priority(action) = Priority(action)
    /\ Battery!NoPriority = NoPriority
BY DEF Priority, Battery!Priority, NoPriority, Battery!NoPriority

\* Copter's initial states are BattMonitor's.
LEMMA InitIsMonitored == Init => Battery!BattMonitorInit
<1> SUFFICES ASSUME Init PROVE Battery!BattMonitorInit
  OBVIOUS
<1>1. veh.armed = FALSE /\ battPriority = NoPriority /\ batt = 0
  BY DEF Init
<1>2. (batt > 0) = FALSE
  BY <1>1
<1>3. [b \in {1} |-> batt] = [b \in Battery!Batteries |-> 0]
  BY <1>1 DEF Battery!Batteries
<1>4. QED BY <1>1, <1>2, <1>3, SamePriorities DEF Battery!BattMonitorInit

\* Copter's pass over its battery is a turn of that battery.
LEMMA BatteryCheckIsMonitored ==
    ASSUME IInv, BatteryCheck
    PROVE  Battery!BattMonitorNext
<1>1. PICK level \in {1, 2}, e \in Envs :
         LET action == IF level = 1 THEN LowAction ELSE CritAction
         IN  /\ level > batt /\ batt' = level
             /\ IF BatteryUrgent(action)
                THEN battPriority' = Priority(action) /\ veh' = BatteryEvent(veh, action, e)
                ELSE UNCHANGED <<veh, battPriority>>
  BY DEF BatteryCheck
<1> DEFINE action == IF level = 1 THEN LowAction ELSE CritAction
<1>2. Battery!ActionAt(1, level) = action
  BY DEF Battery!ActionAt
<1>3. action \in FailsafeActions
  BY CopterAssumption
<1>4. OnlyDisarms(veh, BatteryEvent(veh, action, e))
  <2> HIDE DEF action
  <2>1. QED BY <1>3, BatteryEventOnlyDisarms DEF IInv, Sound
<1>5. veh.armed /\ batt \in 0..2
  BY DEF BatteryCheck, IInv, TypeOK
<1>6. [b \in {1} |-> batt]' = [[b \in {1} |-> batt] EXCEPT ![1] = level]
  BY <1>1
<1>7. ~(level <= [b \in {1} |-> batt][1]) /\ (batt > 0)' = TRUE
  BY <1>1, <1>5
<1>8. \/ /\ Battery!Urgent(action)
         /\ battPriority' = Priority(action) /\ (veh.armed)' \in {veh.armed, FALSE}
      \/ ~Battery!Urgent(action) /\ UNCHANGED <<veh.armed, battPriority>>
  <2>1. BatteryUrgent(action) = Battery!Urgent(action)
    BY SamePriorities DEF BatteryUrgent, Battery!Urgent
  <2>2. \/ /\ BatteryUrgent(action)
           /\ battPriority' = Priority(action) /\ veh' = BatteryEvent(veh, action, e)
        \/ ~BatteryUrgent(action) /\ UNCHANGED <<veh, battPriority>>
    BY <1>1
  <2> HIDE DEF action
  <2>3. QED BY <1>4, <2>1, <2>2 DEF OnlyDisarms
<1>9. Battery!CheckFailsafes(level)
  <2> HIDE DEF action
  <2>1. Battery!NextTurn(1) = 1
    BY DEF Battery!NextTurn
  <2>2. (1 = 1 => veh.armed) /\ 1 = Battery!NextTurn(1)
    BY <1>5, <2>1
  <2>3. QED BY <1>2, <1>6, <1>7, <1>8, <2>2, SamePriorities DEF Battery!CheckFailsafes
<1>10. QED BY <1>9 DEF Battery!BattMonitorNext, Battery!Levels

\* Every step is a step of BattMonitor or leaves it alone.
LEMMA StepIsMonitored ==
    IInv /\ IInv' /\ [Next]_vars => [Battery!BattMonitorNext]_Battery!battMonitorVars
<1> SUFFICES ASSUME IInv, IInv', [Next]_vars
             PROVE  [Battery!BattMonitorNext]_Battery!battMonitorVars
  OBVIOUS
<1>1. CASE BatteryCheck
  BY <1>1, BatteryCheckIsMonitored
<1>2. CASE UNCHANGED battVars
  <2>1. (veh.armed)' \in BOOLEAN
    BY DEF IInv, TypeOK, Vehicle
  <2>2. Battery!ArmOrDisarm
    BY <1>2, <2>1 DEF Battery!ArmOrDisarm, battVars
  <2>3. QED BY <2>2 DEF Battery!BattMonitorNext
<1>3. QED BY <1>1, <1>2, OthersKeepBattery DEF vars

\* Refinement: every behaviour of the vehicle is one of its battery monitor.
THEOREM CopterMonitorsItsBattery == Spec => BatteryIsMonitored
BY InitIsMonitored, Inductive, StepIsMonitored, PTL
   DEF Spec, BatteryIsMonitored, Battery!BattMonitorSpec
=============================================================================
