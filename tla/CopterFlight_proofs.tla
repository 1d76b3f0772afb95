------------------------- MODULE CopterFlight_proofs -------------------------
(***************************************************************************)
(* What the handlers of Copter do to a vehicle in the air, alone and one   *)
(* after another.  First the motors: a mode change leaves them alone, a    *)
(* handler is a few mode changes or one disarm, and a disarm needs a       *)
(* vehicle that has landed, that still waits for its arming delay, or that *)
(* is flown by hand with the throttle at zero.  Then a vehicle without its *)
(* radio, which flies itself, and a landing the battery asked for, which   *)
(* goes on.  The last two hold where what ends them on purpose does not    *)
(* run: LeftAlone and NothingElseFails say what that is.                   *)
(***************************************************************************)
EXTENDS Copter_proofs

InFlight(v) == v.armed /\ ~v.landed /\ ~v.armingDelay

\* What a mode change may do to the motors: nothing, and it never lands.
Steady(v, w) ==
    /\ w.armed = v.armed /\ w.armingDelay = v.armingDelay /\ w.disarmedBy = v.disarmedBy
    /\ w.landed => v.landed

\* A handler takes no vehicle to a mode flown by hand.
KeepsPilotAway(v, w) == HasManualThrottle(w.mode) => HasManualThrottle(v.mode)

\* The ways out of the air that a handler has.
MayStop(v, w) ==
    \/ w.disarmedBy \in {"MAVLINK", "CRASH", "TERMINATE"}
    \/ HasManualThrottle(v.mode) /\ (throttleZero \/ w.disarmedBy = "RUDDER")

\* The second part lets handlers follow one another: what one has disarmed
\* the next leaves as it is.
KeepsFlying(v, w) ==
    /\ InFlight(v) => \/ InFlight(w) /\ KeepsPilotAway(v, w)
                      \/ ~w.armed /\ MayStop(v, w)
    /\ ~v.armed => ~w.armed /\ w.disarmedBy = v.disarmedBy

\* What two handlers keep in flight they keep one after the other.
LEMMA KeepsFlyingComposes ==
    ASSUME NEW u, NEW v, NEW w, KeepsFlying(u, v), KeepsFlying(v, w)
    PROVE  KeepsFlying(u, w)
BY DEF KeepsFlying, InFlight, KeepsPilotAway, MayStop

\* A handler that does nothing keeps all of it.
LEMMA KeepsFlyingReflexive == ASSUME NEW v PROVE KeepsFlying(v, v)
BY DEF KeepsFlying, KeepsPilotAway

\* A change of mode that takes the pilot no farther keeps a flight.
LEMMA SteadyKeepsFlying ==
    ASSUME NEW v, NEW w, Steady(v, w), KeepsPilotAway(v, w)
    PROVE  KeepsFlying(v, w)
BY DEF Steady, KeepsFlying, InFlight

-----------------------------------------------------------------------------
(* Mode changes *)

\* init() of a mode touches neither motors nor landing.
LEMMA EnterSteady ==
    ASSUME NEW v, NEW m \in TrueModes, NEW e, WellFormed(v)
    PROVE  Steady(v, Enter(v, m, e))
<1> DEFINE w == TakeoffStop(v, e)
<1>1. w \in Vehicle /\ Steady(v, w)
  BY DEF WellFormed, Vehicle, TakeoffStop, Steady
<1>2. Steady(w, Enter(v, m, e))
  BY <1>1 DEF Steady, Vehicle, Enter
<1>3. QED BY <1>1, <1>2 DEF Steady

\* Nor does set_mode(), and it hands the pilot a manual mode only when that is asked for.
LEMMA SetTrueModeSteady ==
    ASSUME NEW v, NEW m \in TrueModes, NEW e, WellFormed(v)
    PROVE  /\ Steady(v, SetTrueMode(v, m, e))
           /\ SetTrueMode(v, m, e).mode \in {v.mode, m}
<1>1. Steady(v, Enter(v, m, e)) /\ Enter(v, m, e).mode = m
  BY EnterSteady, EnterWellFormed
<1>2. Steady(v, [v EXCEPT !.autoRTL = FALSE]) /\ [v EXCEPT !.autoRTL = FALSE].mode = v.mode
  BY DEF Steady, WellFormed, Vehicle
<1>3. Steady(v, v)
  BY DEF Steady
<1>4. QED BY <1>1, <1>2, <1>3 DEF SetTrueMode

\* The same through AUTO_RTL
LEMMA SetModeSteady ==
    ASSUME NEW v, NEW m \in ModeNumbers, NEW e, WellFormed(v)
    PROVE  /\ Steady(v, SetMode(v, m, e))
           /\ m # "STABILIZE" => KeepsPilotAway(v, SetMode(v, m, e))
<1>1. CASE m # "AUTO_RTL"
  <2>1. m \in TrueModes /\ SetMode(v, m, e) = SetTrueMode(v, m, e)
    BY <1>1 DEF ModeNumbers, SetMode
  <2>2. QED BY <2>1, SetTrueModeSteady DEF KeepsPilotAway, HasManualThrottle
<1>2. CASE m = "AUTO_RTL"
  <2> DEFINE w == Enter(v, "AUTO", e)
  <2>1. Steady(v, [v EXCEPT !.autoRTL = TRUE, !.leg = "GO"])
    BY DEF Steady, WellFormed, Vehicle
  <2>2. [v EXCEPT !.autoRTL = TRUE, !.leg = "GO"].mode = v.mode
    BY DEF WellFormed, Vehicle
  <2>3. w \in Vehicle /\ w.mode = "AUTO" /\ Steady(v, w)
    BY EnterWellFormed, EnterSteady DEF TrueModes, WellFormed
  <2>4. Steady(v, [w EXCEPT !.autoRTL = TRUE]) /\ [w EXCEPT !.autoRTL = TRUE].mode = "AUTO"
    <3> HIDE DEF w
    <3>1. QED BY <2>3 DEF Steady, Vehicle
  <2>5. Steady(v, v)
    BY DEF Steady
  <2>6. \/ SetMode(v, m, e) = v
        \/ SetMode(v, m, e) = [v EXCEPT !.autoRTL = TRUE, !.leg = "GO"]
        \/ SetMode(v, m, e) = [w EXCEPT !.autoRTL = TRUE]
    BY <1>2 DEF SetMode
  <2> HIDE DEF w
  <2>7. QED BY <2>1, <2>2, <2>4, <2>5, <2>6 DEF KeepsPilotAway, HasManualThrottle
<1>3. QED BY <1>1, <1>2

\* The lists of the failsafes name no mode flown by hand.
AutomaticList(modes) == ModeList(modes) /\ \A i \in DOMAIN modes : modes[i] # "STABILIZE"

\* A list of automatic fallbacks keeps a flight, whichever is taken.
LEMMA SetFirstKeepsFlying ==
    ASSUME NEW v, NEW modes, NEW e, AutomaticList(modes), WellFormed(v)
    PROVE  KeepsFlying(v, SetFirst(v, modes, e))
<1>1. CASE SetFirst(v, modes, e) = v
  BY <1>1, KeepsFlyingReflexive
<1>2. CASE \E i \in DOMAIN modes : SetFirst(v, modes, e) = SetMode(v, modes[i], e)
  <2>1. PICK i \in DOMAIN modes : SetFirst(v, modes, e) = SetMode(v, modes[i], e)
    BY <1>2
  <2>2. modes[i] \in ModeNumbers /\ modes[i] # "STABILIZE"
    BY DEF AutomaticList, ModeList
  <2>3. QED BY <2>1, <2>2, SetModeSteady, SteadyKeepsFlying
<1>3. QED BY <1>1, <1>2, SetFirstTakesOne DEF AutomaticList

\* Every failsafe action falls back on automatic modes only,
LEMMA FallbacksAreAutomatic ==
    ASSUME NEW action \in (FailsafeActions \cup {"LOITER_OR_RTL"}) \ {"NONE", "TERMINATE"}
    PROVE  AutomaticList(Fallbacks(action))
<1>1. \A i \in DOMAIN Fallbacks(action) : Fallbacks(action)[i] # "STABILIZE"
  BY DEF FailsafeActions, Fallbacks
<1>2. QED BY <1>1, FallbacksAreModes DEF AutomaticList

\* and so do the lists of the handlers that name their own.
LEMMA LandAndHoverAreAutomatic ==
    AutomaticList(<<"LAND">>) /\ AutomaticList(<<"ALT_HOLD", "LAND">>)
    /\ AutomaticList(<<"LOITER", "ALT_HOLD">>)
BY DEF AutomaticList, ModeList, ModeNumbers, TrueModes

-----------------------------------------------------------------------------
(* Disarming and the failsafe handlers *)

\* A disarm in flight is one of those a flight may end by.
LEMMA DisarmKeepsFlying ==
    ASSUME NEW v, NEW method, WellFormed(v),
           InFlight(v) => \/ method \in {"MAVLINK", "CRASH", "TERMINATE"}
                          \/ HasManualThrottle(v.mode) /\ (throttleZero \/ method = "RUDDER")
    PROVE  KeepsFlying(v, Disarm(v, method))
<1>1. CASE ~v.armed
  BY <1>1, KeepsFlyingReflexive DEF Disarm
<1>2. CASE v.armed
  BY <1>2 DEF Disarm, KeepsFlying, MayStop, WellFormed, Vehicle
<1>3. QED BY <1>1, <1>2

\* should_disarm_on_failsafe() stops no vehicle in flight but one flown by
\* hand with the throttle at zero.
LEMMA ShouldDisarmInFlight ==
    ASSUME NEW v, InFlight(v), ShouldDisarmOnFailsafe(v)
    PROVE  HasManualThrottle(v.mode) /\ throttleZero
BY DEF InFlight, ShouldDisarmOnFailsafe, HasManualThrottle

\* A failsafe disarms what is not in flight, or at zero throttle in a manual mode.
LEMMA FailsafeDisarmKeepsFlying ==
    ASSUME NEW v, NEW method, WellFormed(v), ShouldDisarmOnFailsafe(v)
    PROVE  KeepsFlying(v, Disarm(v, method))
BY ShouldDisarmInFlight, DisarmKeepsFlying

\* No failsafe action but a termination stops motors in flight.
LEMMA DoFailsafeActionKeepsFlying ==
    ASSUME NEW v, NEW action \in FailsafeActions, NEW e, WellFormed(v)
    PROVE  KeepsFlying(v, DoFailsafeAction(v, action, e))
<1>1. CASE action = "NONE"
  BY <1>1, KeepsFlyingReflexive DEF DoFailsafeAction
<1>2. CASE action = "TERMINATE"
  BY <1>2, DisarmKeepsFlying DEF DoFailsafeAction
<1>3. CASE action \notin {"NONE", "TERMINATE"}
  BY <1>3, FallbacksAreAutomatic, SetFirstKeepsFlying DEF DoFailsafeAction
<1>4. QED BY <1>1, <1>2, <1>3

\* The loss of a link
LEMMA LinkEventsKeepFlying ==
    ASSUME NEW v, NEW e, WellFormed(v)
    PROVE  KeepsFlying(v, RadioOnEvent(v, e)) /\ KeepsFlying(v, GcsOnEvent(v, e))
<1> USE CopterAssumption DEF FailsafeActions
<1>1. KeepsFlying(v, RadioOnEvent(v, e))
  <2> DEFINE action ==
         IF BatteryLanding(v) \/ ContinueLanding(v) THEN "LAND"
         ELSE IF ModeNumber(v) = "AUTO" /\ "RC_CONTINUE_IF_AUTO" \in FsOptions THEN "NONE"
         ELSE FsThr
  <2>1. action \in FailsafeActions
    OBVIOUS
  <2>2. KeepsFlying(v, DoFailsafeAction(v, action, e))
    BY <2>1, DoFailsafeActionKeepsFlying
  <2>3. QED BY <2>2, FailsafeDisarmKeepsFlying DEF RadioOnEvent
<1>2. KeepsFlying(v, GcsOnEvent(v, e))
  <2> DEFINE action ==
         IF BatteryLanding(v) \/ ContinueLanding(v) THEN "LAND"
         ELSE IF \/ ModeNumber(v) = "AUTO" /\ "GCS_CONTINUE_IF_AUTO" \in FsOptions
                 \/ "GCS_CONTINUE_IF_PILOT" \in FsOptions /\ ~IsAutopilot(v.mode)
         THEN "NONE" ELSE FsGcs
  <2>1. action \in FailsafeActions
    OBVIOUS
  <2>2. KeepsFlying(v, DoFailsafeAction(v, action, e))
    BY <2>1, DoFailsafeActionKeepsFlying
  <2>3. QED BY <2>2, FailsafeDisarmKeepsFlying, KeepsFlyingReflexive DEF GcsOnEvent
<1>3. QED BY <1>1, <1>2

\* A battery's failsafe
LEMMA BatteryEventKeepsFlying ==
    ASSUME NEW v, NEW action \in FailsafeActions, NEW e, WellFormed(v)
    PROVE  KeepsFlying(v, BatteryEvent(v, action, e))
<1> DEFINE chosen == IF ContinueLanding(v) /\ action # "NONE" THEN "LAND" ELSE action
<1>1. chosen \in FailsafeActions
  BY DEF FailsafeActions
<1>2. KeepsFlying(v, DoFailsafeAction(v, chosen, e))
  BY <1>1, DoFailsafeActionKeepsFlying
<1>3. QED BY <1>2, FailsafeDisarmKeepsFlying DEF BatteryEvent

\* A return that begins
LEMMA LegGoKeepsFlying ==
    ASSUME NEW v, WellFormed(v)
    PROVE  KeepsFlying(v, [v EXCEPT !.leg = "GO"])
<1>1. Steady(v, [v EXCEPT !.leg = "GO"]) /\ KeepsPilotAway(v, [v EXCEPT !.leg = "GO"])
  BY DEF Steady, KeepsPilotAway, WellFormed, Vehicle
<1>2. QED BY <1>1, SteadyKeepsFlying

\* Lost terrain data and obstacles
LEMMA PathEventsKeepFlying ==
    ASSUME NEW v, NEW e, WellFormed(v)
    PROVE  KeepsFlying(v, TerrainOnEvent(v, e)) /\ KeepsFlying(v, ObstacleOnEvent(v, e))
<1>1. AutomaticList(Fallbacks("RTL")) /\ AutomaticList(Fallbacks("LOITER_OR_RTL"))
  BY FallbacksAreAutomatic DEF FailsafeActions
<1>2. KeepsFlying(v, TerrainOnEvent(v, e))
  BY <1>1, SetFirstKeepsFlying, FailsafeDisarmKeepsFlying, LegGoKeepsFlying DEF TerrainOnEvent
<1>3. KeepsFlying(v, ObstacleOnEvent(v, e))
  BY <1>1, SetFirstKeepsFlying, LegGoKeepsFlying DEF ObstacleOnEvent
<1>4. QED BY <1>2, <1>3

\* The end of dead reckoning
LEMMA DeadReckonOnEventKeepsFlying ==
    ASSUME NEW v, NEW e, WellFormed(v)
    PROVE  KeepsFlying(v, DeadReckonOnEvent(v, e))
BY CopterAssumption, DoFailsafeActionKeepsFlying, FailsafeDisarmKeepsFlying,
   KeepsFlyingReflexive DEF DeadReckonOnEvent

\* An EKF failsafe
LEMMA EkfEventKeepsFlying ==
    ASSUME NEW v, NEW e, WellFormed(v)
    PROVE  KeepsFlying(v, EkfEvent(v, e))
<1>1. Steady(v, [v EXCEPT !.controlPos = FALSE])
      /\ KeepsPilotAway(v, [v EXCEPT !.controlPos = FALSE])
  BY DEF Steady, KeepsPilotAway, WellFormed, Vehicle
<1>2. KeepsFlying(v, [v EXCEPT !.controlPos = FALSE])
  BY <1>1, SteadyKeepsFlying
<1>3. QED
  BY <1>2, LandAndHoverAreAutomatic, SetFirstKeepsFlying, KeepsFlyingReflexive DEF EkfEvent

\* A breached fence
LEMMA FenceBreachedKeepsFlying ==
    ASSUME NEW v, NEW far, NEW altMax, NEW e, WellFormed(v)
    PROVE  KeepsFlying(v, FenceBreached(v, far, altMax, e))
<1>1. CASE ~v.armed \/ FenceAction = "REPORT"
  BY <1>1, KeepsFlyingReflexive DEF FenceBreached
<1>2. CASE v.armed /\ FenceAction # "REPORT"
  <2>1. AutomaticList(Fallbacks(FenceAction))
    BY <1>2, CopterAssumption, FallbacksAreAutomatic DEF FailsafeActions
  <2>2. KeepsFlying(v, SetFirst(v, IF far THEN <<"LAND">> ELSE Fallbacks(FenceAction), e))
    BY <2>1, LandAndHoverAreAutomatic, SetFirstKeepsFlying
  <2>3. ASSUME \/ v.landed
               \/ HasManualThrottle(v.mode) /\ throttleZero /\ ~fsRadio /\ ~altMax
        PROVE  KeepsFlying(v, Disarm(v, "FENCEBREACH"))
    BY <2>3, DisarmKeepsFlying DEF InFlight
  <2>4. QED BY <1>2, <2>2, <2>3 DEF FenceBreached
<1>3. QED BY <1>1, <1>2

-----------------------------------------------------------------------------
(* The run() of each mode *)

\* The modes disarm a vehicle that has landed only.
LEMMA DisarmIfLandedKeepsFlying ==
    ASSUME NEW v, WellFormed(v)
    PROVE  KeepsFlying(v, DisarmIfLanded(v))
BY DisarmKeepsFlying, KeepsFlyingReflexive DEF DisarmIfLanded, InFlight

\* A pilot who cancels a landing
LEMMA PilotCancelsKeepsFlying ==
    ASSUME NEW v, NEW cancel, NEW e, WellFormed(v)
    PROVE  KeepsFlying(v, PilotCancels(v, cancel, e))
BY LandAndHoverAreAutomatic, SetFirstKeepsFlying, KeepsFlyingReflexive DEF PilotCancels

\* A new leg of a return or a mission
LEMMA LegKeepsFlying ==
    ASSUME NEW v, NEW leg, WellFormed(v)
    PROVE  KeepsFlying(v, [v EXCEPT !.leg = leg])
<1>1. Steady(v, [v EXCEPT !.leg = leg]) /\ KeepsPilotAway(v, [v EXCEPT !.leg = leg])
  BY DEF Steady, KeepsPilotAway, WellFormed, Vehicle
<1>2. QED BY <1>1, SteadyKeepsFlying

\* The modes that a running mode sets
LEMMA SetModeKeepsFlying ==
    ASSUME NEW v, NEW m \in {"LAND", "ALT_HOLD", "AUTO"}, NEW e, WellFormed(v)
    PROVE  KeepsFlying(v, SetMode(v, m, e))
BY SetModeSteady, SteadyKeepsFlying DEF ModeNumbers, TrueModes

\* A run of the final descent or the landing
LEMMA RunDescentOrLandKeepsFlying ==
    ASSUME NEW v, NEW cancel, NEW e, Sound(v), RunDescentOrLand(v, cancel, e)
    PROVE  KeepsFlying(v, veh')
<1> DEFINE w == IF v.leg = "LAND" THEN DisarmIfLanded(v) ELSE v
<1>1. KeepsFlying(v, w) /\ WellFormed(w)
  BY DisarmIfLandedKeepsFlying, KeepsFlyingReflexive, DisarmIfLandedSound DEF Sound
<1>2. veh' = PilotCancels(w, cancel, e)
  BY DEF RunDescentOrLand
<1> HIDE DEF w
<1>3. QED BY <1>1, <1>2, PilotCancelsKeepsFlying, KeepsFlyingComposes

\* The pilot's modes disarm nothing.
LEMMA RunPilotModesKeepFlying ==
    ASSUME TypeOK, RunStabilize \/ RunAltHold
    PROVE  veh.armed => veh'.armed
<1>1. CASE RunStabilize
  BY <1>1 DEF RunStabilize, TypeOK, Vehicle
<1>2. CASE RunAltHold
  BY <1>2 DEF RunAltHold, AltHoldTakeoff, AltHoldOther, TypeOK, Vehicle
<1>3. QED BY <1>1, <1>2

\* LAND disarms a vehicle that has landed only,
LEMMA RunLandKeepsFlying ==
    ASSUME Sound(veh), RunLand
    PROVE  KeepsFlying(veh, veh')
<1>1. PICK cancel \in BOOLEAN, e \in Envs :
         IF veh.controlPos
         THEN LET v == DisarmIfLanded(veh)
              IN  veh' = PilotCancels(v, cancel, e) /\ GroundOrFlight(v)
         ELSE LET v == DisarmIfLanded(IF cancel /\ ~fsRadio THEN SetMode(veh, "ALT_HOLD", e)
                                                            ELSE veh)
              IN  veh' = v /\ GroundOrFlight(v)
  BY DEF RunLand
<1>2. CASE veh.controlPos
  <2>1. veh' = PilotCancels(DisarmIfLanded(veh), cancel, e)
    BY <1>1, <1>2
  <2>2. KeepsFlying(veh, DisarmIfLanded(veh)) /\ WellFormed(DisarmIfLanded(veh))
    BY DisarmIfLandedKeepsFlying, DisarmIfLandedSound DEF Sound
  <2>3. QED BY <2>1, <2>2, PilotCancelsKeepsFlying, KeepsFlyingComposes
<1>3. CASE ~veh.controlPos
  <2> DEFINE w == IF cancel /\ ~fsRadio THEN SetMode(veh, "ALT_HOLD", e) ELSE veh
  <2>1. veh' = DisarmIfLanded(w)
    BY <1>1, <1>3
  <2>2. KeepsFlying(veh, w) /\ WellFormed(w)
    BY SetModeKeepsFlying, KeepsFlyingReflexive, SetModeSound DEF Sound, ModeNumbers, TrueModes
  <2> HIDE DEF w
  <2>3. QED BY <2>1, <2>2, DisarmIfLandedKeepsFlying, KeepsFlyingComposes
<1>4. QED BY <1>2, <1>3

\* and so do RTL and SMART_RTL,
LEMMA RunReturnsKeepFlying ==
    ASSUME Sound(veh), RunRTL \/ RunSmartRTL
    PROVE  KeepsFlying(veh, veh')
<1>1. CASE RunRTL /\ ~veh.armed
  BY <1>1, KeepsFlyingReflexive DEF RunRTL
<1>2. CASE RunRTL /\ veh.armed /\ veh.leg = "GO"
  <2>1. PICK noTerrain \in BOOLEAN, arrived \in BOOLEAN, e \in Envs :
           RtlReturn(noTerrain, arrived, e)
    BY <1>2 DEF RunRTL
  <2> DEFINE v == IF noTerrain THEN SetMode(veh, "LAND", e) ELSE veh
  <2>2. KeepsFlying(veh, v) /\ WellFormed(v)
    BY SetModeKeepsFlying, KeepsFlyingReflexive, SetModeSound DEF Sound, ModeNumbers, TrueModes
  <2>3. veh' = v \/ veh' = [v EXCEPT !.leg = "ARRIVED"]
    BY <2>1 DEF RtlReturn
  <2> HIDE DEF v
  <2>4. QED BY <2>2, <2>3, LegKeepsFlying, KeepsFlyingComposes
<1>3. CASE RunRTL /\ veh.armed /\ veh.leg # "GO"
  <2>1. PICK leg \in RtlLastLegs, cancel \in BOOLEAN, e \in Envs :
           RunDescentOrLand([veh EXCEPT !.leg = leg], cancel, e)
    BY <1>3 DEF RunRTL
  <2>2. Sound([veh EXCEPT !.leg = leg])
    BY <1>3, RtlLastLegSound DEF RunRTL
  <2>3. QED BY <2>1, <2>2, LegKeepsFlying, RunDescentOrLandKeepsFlying, KeepsFlyingComposes DEF Sound
<1>4. CASE RunSmartRTL
  BY <1>4, LegKeepsFlying, RunDescentOrLandKeepsFlying DEF RunSmartRTL, Sound
<1>5. QED BY <1>1, <1>2, <1>3, <1>4

\* and a mission that goes on,
LEMMA MissionStepKeepsFlying ==
    ASSUME NEW next, NEW e, WellFormed(veh)
    PROVE  KeepsFlying(veh, MissionStep(next, e))
<1>1. veh.landed => /\ KeepsFlying(veh, Disarm(veh, "LANDED"))
                    /\ KeepsFlying(veh, Disarm(veh, "MISSIONEXIT"))
  BY DisarmKeepsFlying DEF InFlight
<1>2. CASE veh.leg = "LAND"
  BY <1>1, <1>2, LegKeepsFlying, KeepsFlyingReflexive DEF MissionStep
<1>3. CASE veh.leg # "LAND"
  <2>1. CASE next = "stay"
    BY <1>3, <2>1, KeepsFlyingReflexive DEF MissionStep
  <2>2. CASE next = "over"
    BY <1>1, <1>3, <2>2, LegKeepsFlying, SetModeKeepsFlying DEF MissionStep
  <2>3. CASE next \notin {"stay", "over"}
    BY <1>3, <2>3, LegKeepsFlying DEF MissionStep
  <2>4. QED BY <2>1, <2>2, <2>3
<1>4. QED BY <1>2, <1>3

\* whatever leg of it is flown,
LEMMA AutoLegKeepsFlying ==
    ASSUME NEW v, NEW lifted, NEW obstacle, NEW cancel, NEW e,
           WellFormed(v), AutoLeg(v, lifted, obstacle, cancel, e)
    PROVE  KeepsFlying(v, veh')
<1>1. CASE v.leg = "TAKEOFF"
  <2> DEFINE w == [v EXCEPT !.landed = @ /\ ~(lifted /\ spool = "UNLIMITED")]
  <2>1. Steady(v, w) /\ KeepsPilotAway(v, w)
    BY DEF Steady, KeepsPilotAway, WellFormed, Vehicle
  <2>2. veh' = w \/ veh' = v
    BY <1>1 DEF AutoLeg
  <2>3. QED BY <2>1, <2>2, SteadyKeepsFlying, KeepsFlyingReflexive
<1>2. CASE v.leg = "LAND"
  BY <1>2, PilotCancelsKeepsFlying DEF AutoLeg
<1>3. CASE v.leg \notin {"TAKEOFF", "LAND"}
  BY <1>3, PathEventsKeepFlying, KeepsFlyingReflexive DEF AutoLeg
<1>4. QED BY <1>1, <1>2, <1>3

\* in a run of AUTO.
LEMMA RunAutoKeepsFlying ==
    ASSUME Sound(veh), RunAuto
    PROVE  KeepsFlying(veh, veh')
<1>1. PICK next \in MissionSteps, leftSequence \in BOOLEAN,
           lifted \in BOOLEAN, cancel \in BOOLEAN,
           obstacle \in {FALSE, "obstacle" \in Tasks},
           noTerrain \in {FALSE, "terrain_check" \in Tasks}, e \in Envs :
         AutoStep(next, leftSequence, lifted, cancel, obstacle, noTerrain, e)
  BY DEF RunAuto
<1> DEFINE noStart == noTerrain /\ e.mission /\ next = "GO" /\ veh.leg # "LAND"
           step == IF e.mission THEN (IF noStart THEN "stay" ELSE next) ELSE "stay"
           v == MissionStep(step, e)
           w == [v EXCEPT !.autoRTL = @ /\ ~leftSequence]
<1>2. \/ /\ noTerrain /\ veh' = TerrainOnEvent(w, e) /\ fsTerrain' = TRUE
         /\ UNCHANGED spoolDesired \/ GroundOrFlight(w)
      \/ AutoLeg(w, lifted, obstacle, cancel, e) /\ UNCHANGED fsTerrain
  BY <1>1 DEF AutoStep, AfterMission
<1>3. KeepsFlying(veh, v) /\ WellFormed(v)
  <2>1. step \in MissionSteps
    BY DEF MissionSteps
  <2> HIDE DEF step
  <2>2. QED BY <2>1, MissionStepKeepsFlying, MissionStepSound DEF Sound, RunAuto, MissionSteps
<1>4. KeepsFlying(v, w) /\ WellFormed(w)
  <2> HIDE DEF v
  <2>1. Steady(v, w) /\ KeepsPilotAway(v, w) /\ WellFormed(w)
    BY <1>3 DEF Steady, KeepsPilotAway, WellFormed, Vehicle
  <2>2. QED BY <2>1, SteadyKeepsFlying
<1> HIDE DEF v, w
<1>5. KeepsFlying(w, veh')
  BY <1>2, <1>4, AutoLegKeepsFlying, PathEventsKeepFlying
<1>6. QED BY <1>3, <1>4, <1>5, KeepsFlyingComposes

\* BRAKE disarms nothing.
LEMMA RunBrakeKeepsFlying ==
    ASSUME WellFormed(veh), RunBrake
    PROVE  KeepsFlying(veh, veh')
BY LandAndHoverAreAutomatic, SetFirstKeepsFlying, KeepsFlyingReflexive DEF RunBrake

-----------------------------------------------------------------------------
(* The steps *)

\* What FlightKeepsMotors says of one step.
MotorsKept ==
    veh.armed /\ ~veh.landed /\ ~veh.armingDelay /\ ~veh'.armed =>
         \/ veh'.disarmedBy \in {"MAVLINK", "CRASH", "TERMINATE"}
         \/ veh'.disarmedBy = "LANDED" /\ phase = "land_detector"
         \/ HasManualThrottle(veh.mode) /\ (throttleZero \/ veh'.disarmedBy = "RUDDER")

\* What KeepsFlying says of a vehicle is what the property asks of a step.
LEMMA KeepsFlyingKeepsMotors == KeepsFlying(veh, veh') => MotorsKept
BY DEF KeepsFlying, InFlight, MayStop, MotorsKept

\* The land detector disarms only what it finds landed or crashed.
LEMMA LandDetectorKeepsMotors == TypeOK /\ LandDetector => MotorsKept
<1> SUFFICES ASSUME TypeOK, LandDetector, InFlight(veh), ~veh'.armed
             PROVE  \/ veh'.disarmedBy = "CRASH"
                    \/ veh'.disarmedBy = "LANDED" /\ phase = "land_detector"
  BY DEF MotorsKept, InFlight
<1>1. PICK high \in BOOLEAN, touched \in BOOLEAN, takingOff \in TakingOff(veh),
           crashed \in {FALSE, "crash_check" \in Tasks} :
         veh' = CheckCrash(DetectLanding(veh, high /\ ~takingOff, touched), crashed)
  BY DEF LandDetector
<1>2. DetectLanding(veh, high /\ ~takingOff, touched) = IF touched THEN LandComplete(veh) ELSE veh
  BY DEF DetectLanding, InFlight
<1>3. CASE ~touched
  BY <1>1, <1>2, <1>3 DEF CheckCrash, Disarm, InFlight, TypeOK, Vehicle
<1>4. CASE touched
  <2> DEFINE v == LandComplete(veh)
  <2>1. v.landed = TRUE /\ (v.armed \/ v.disarmedBy = "LANDED")
    BY DEF LandComplete, Disarm, InFlight, TypeOK, Vehicle
  <2>2. veh' = v
    BY <1>1, <1>2, <1>4, <2>1 DEF CheckCrash
  <2>3. QED BY <2>1, <2>2 DEF LandDetector
<1>5. QED BY <1>3, <1>4

\* So the fast tasks of a loop keep the motors,
LEMMA FastLoopKeepsMotors == IInv /\ FastLoop => MotorsKept
<1> SUFFICES ASSUME IInv, FastLoop PROVE MotorsKept
  OBVIOUS
<1>1. Sound(veh) /\ WellFormed(veh) /\ TypeOK
  BY DEF IInv, Sound
<1>2. ASSUME NEW expired \in BOOLEAN, NEW ramped \in BOOLEAN, MotorsOutput(expired, ramped)
      PROVE  MotorsKept
  BY <1>1, <1>2 DEF MotorsOutput, MotorsKept, TypeOK, Vehicle
<1>3. CASE UpdateFlightMode
  <2>1. (veh.armed => veh'.armed) => MotorsKept
    BY DEF MotorsKept
  <2>2. QED BY <1>1, <1>3, <2>1, KeepsFlyingKeepsMotors, RunPilotModesKeepFlying,
               RunLandKeepsFlying, RunReturnsKeepFlying, RunAutoKeepsFlying,
               RunBrakeKeepsFlying DEF UpdateFlightMode
<1>4. CASE LandDetector
  BY <1>1, <1>4, LandDetectorKeepsMotors
<1>5. CASE EndLoop
  BY <1>5 DEF EndLoop, MotorsKept
<1>6. QED BY <1>2, <1>3, <1>4, <1>5 DEF FastLoop

\* Four handlers in a row, each on what the ones before it left.
LEMMA ThreeHzLoopKeepsFlying == IInv /\ ThreeHzLoop => KeepsFlying(veh, veh')
<1> SUFFICES ASSUME IInv, ThreeHzLoop PROVE KeepsFlying(veh, veh')
  OBVIOUS
<1>1. PICK lost \in {FALSE, "gcs_check" \in Tasks},
           noTerrain \in {FALSE, "terrain_check" \in Tasks},
           deadReckoning \in {FALSE, "deadreckon_check" \in Tasks},
           breach \in {FALSE, "fence_check" \in Tasks},
           far \in BOOLEAN, altMax \in BOOLEAN, e \in Envs :
         LET newGcs     == FsGcs # "NONE" /\ lost
             afterGcs   == IF newGcs /\ ~fsGcs THEN GcsOnEvent(veh, e) ELSE veh
             newTerrain == noTerrain /\ RequiresTerrain(afterGcs.mode)
             afterTerrain == IF newTerrain /\ ~fsTerrain THEN TerrainOnEvent(afterGcs, e)
                                                        ELSE afterGcs
             newDr      == FsDr # "NONE" /\ deadReckoning
             afterDr    == IF newDr /\ ~fsDr THEN DeadReckonOnEvent(afterTerrain, e)
                                            ELSE afterTerrain
         IN  /\ breach \/ (~far /\ ~altMax)
             /\ fsGcs' = newGcs /\ fsTerrain' = newTerrain /\ fsDr' = newDr
             /\ veh' = IF breach THEN FenceBreached(afterDr, far, altMax, e) ELSE afterDr
  BY DEF ThreeHzLoop
<1> DEFINE newGcs     == FsGcs # "NONE" /\ lost
           afterGcs   == IF newGcs /\ ~fsGcs THEN GcsOnEvent(veh, e) ELSE veh
           newTerrain == noTerrain /\ RequiresTerrain(afterGcs.mode)
           afterTerrain == IF newTerrain /\ ~fsTerrain THEN TerrainOnEvent(afterGcs, e)
                                                      ELSE afterGcs
           newDr      == FsDr # "NONE" /\ deadReckoning
           afterDr    == IF newDr /\ ~fsDr THEN DeadReckonOnEvent(afterTerrain, e)
                                          ELSE afterTerrain
           Kept(v) == Sound(v) /\ KeepsFlying(veh, v)
<1>2. Kept(veh)
  BY KeepsFlyingReflexive DEF IInv
<1>3. Kept(afterGcs)
  BY <1>2, LinkEventsSound, LinkEventsKeepFlying DEF Sound
<1>4. Kept(afterTerrain)
  <2> HIDE DEF afterGcs
  <2>1. QED BY <1>3, TerrainOnEventSound, PathEventsKeepFlying, KeepsFlyingComposes DEF Sound
<1>5. Kept(afterDr)
  <2> HIDE DEF afterTerrain
  <2>1. QED BY <1>4, DeadReckonOnEventSound, DeadReckonOnEventKeepsFlying,
               KeepsFlyingComposes DEF Sound
<1>6. veh' = IF breach THEN FenceBreached(afterDr, far, altMax, e) ELSE afterDr
  BY <1>1
<1>7. QED
  <2> HIDE DEF afterDr
  <2>1. QED BY <1>5, <1>6, FenceBreachedKeepsFlying, KeepsFlyingComposes DEF Sound

\* and each scheduled task does, with all the handlers it calls.
LEMMA TaskKeepsMotors == IInv /\ ScheduledTask => MotorsKept
<1> SUFFICES ASSUME IInv, ScheduledTask PROVE MotorsKept
  OBVIOUS
<1>1. WellFormed(veh) /\ TypeOK
  BY DEF IInv, Sound
<1>2. KeepsFlying(veh, veh)
  BY KeepsFlyingReflexive
<1>3. (veh.armed => veh'.armed) => MotorsKept
  BY DEF MotorsKept
<1>4. ASSUME NEW forced, NEW e, veh.armed PROVE Arm(veh, forced, e) = veh
  BY <1>4 DEF Arm
<1>5. ASSUME NEW m \in ModeNumbers, NEW e PROVE SetMode(veh, m, e).armed = veh.armed
  BY <1>1, SetModeSteady DEF Steady
<1>6. CASE ReadRadio
  BY <1>1, <1>2, <1>6, LinkEventsKeepFlying, KeepsFlyingKeepsMotors DEF ReadRadio
<1>7. CASE ThrottleLoop
  BY <1>3, <1>7 DEF ThrottleLoop
<1>8. CASE ModeSwitch \/ GcsSetMode
  BY <1>3, <1>5, <1>8 DEF ModeSwitch, GcsSetMode
<1>9. CASE Rudder
  <2>1. CASE \E e \in Envs : veh' = Arm(veh, FALSE, e)
    BY <1>3, <1>4, <2>1
  <2>2. CASE (HasManualThrottle(veh.mode) \/ veh.landed) /\ veh' = Disarm(veh, "RUDDER")
    <3>1. KeepsFlying(veh, Disarm(veh, "RUDDER"))
      BY <1>1, <2>2, DisarmKeepsFlying DEF InFlight
    <3>2. QED BY <2>2, <3>1, KeepsFlyingKeepsMotors
  <2>3. QED BY <1>9, <2>1, <2>2 DEF Rudder
<1>10. CASE AutoDisarm
  BY <1>10 DEF AutoDisarm, MotorsKept
<1>11. CASE EkfCheck \/ EkfCheckDisabled
  BY <1>1, <1>2, <1>11, EkfEventKeepsFlying, KeepsFlyingKeepsMotors DEF EkfCheck, EkfCheckDisabled
<1>12. CASE ThreeHzLoop
  BY <1>12, ThreeHzLoopKeepsFlying, KeepsFlyingKeepsMotors
<1>13. CASE BatteryCheck
  <2>1. LowAction \in FailsafeActions /\ CritAction \in FailsafeActions
    BY CopterAssumption
  <2>2. \/ UNCHANGED veh
        \/ \E e \in Envs : \/ veh' = BatteryEvent(veh, LowAction, e)
                           \/ veh' = BatteryEvent(veh, CritAction, e)
    BY <1>13 DEF BatteryCheck
  <2>3. QED BY <1>1, <1>2, <2>1, <2>2, BatteryEventKeepsFlying, KeepsFlyingKeepsMotors
<1>14. CASE GcsMissionStart
  <2>1. "AUTO" \in ModeNumbers
    BY DEF ModeNumbers, TrueModes
  <2>2. QED BY <1>3, <1>5, <1>14, <2>1 DEF GcsMissionStart
<1>15. CASE GcsArm
  BY <1>3, <1>4, <1>15 DEF GcsArm
<1>16. CASE GcsDisarm
  <2>1. KeepsFlying(veh, Disarm(veh, "MAVLINK"))
    BY <1>1, DisarmKeepsFlying
  <2>2. QED BY <1>16, <2>1, KeepsFlyingKeepsMotors DEF GcsDisarm
<1>17. CASE GcsTakeoff
  BY <1>1, <1>3, <1>17 DEF GcsTakeoff, TypeOK, Vehicle
<1>18. QED
  BY <1>6, <1>7, <1>8, <1>9, <1>10, <1>11, <1>12, <1>13, <1>14, <1>15, <1>16, <1>17
  DEF ScheduledTask

\* For every build, parameter setting and set of tasks, the motors of a flying
\* vehicle are stopped by the land and crash detectors, by a termination or a
\* command, or in a manual mode with the throttle at zero: no failsafe, alone
\* or after another in the same loop, stops them otherwise.
THEOREM FlyingKeepsMotors == Spec => FlightKeepsMotors
<1>1. IInv /\ [Next]_vars => [MotorsKept]_vars
  BY FastLoopKeepsMotors, TaskKeepsMotors DEF Next
<1>2. QED BY Inductive, <1>1, PTL DEF Spec, FlightKeepsMotors, MotorsKept

-----------------------------------------------------------------------------
(* No radio, no pilot *)

\* What RadioLossHeld needs: nobody commands the vehicle from the ground, no
\* obstacle sends it to LOITER and no failsafe to BRAKE, whose timeout, a free
\* choice here, ends there too; and LAND can be set from a manual mode.
LeftAlone ==
    /\ Tasks \cap {"gcs_mode", "gcs_arm", "obstacle"} = {}
    /\ "BRAKE_LAND" \notin {FsThr, FsGcs, FsDr, FenceAction, LowAction, CritAction}
    /\ \A e \in Envs : e.alt

\* The modes that wait for a pilot, and the one that leads to them.
PilotModes == {"STABILIZE", "ALT_HOLD", "LOITER", "BRAKE"}

FliesItself(v) == v.armed => v.mode \notin PilotModes

\* The actions that lead to no such mode.
ReturnActions == {"LAND", "RTL", "SMARTRTL", "SMARTRTL_LAND", "AUTO_DO_LAND_START"}

\* A mode that can be set is set.
LEMMA SetModeReaches ==
    ASSUME NEW v, NEW m \in ModeNumbers, NEW e, WellFormed(v), CanSet(v, m, e)
    PROVE  SetMode(v, m, e).mode = IF m = "AUTO_RTL" THEN "AUTO" ELSE m
<1>1. CASE m # "AUTO_RTL"
  <2>1. m \in TrueModes /\ CanSetTrue(v, m, e) /\ SetMode(v, m, e) = SetTrueMode(v, m, e)
    BY <1>1 DEF ModeNumbers, CanSet, SetMode
  <2>2. CASE m = ModeNumber(v)
    BY <1>1, <2>1, <2>2 DEF SetTrueMode, ModeNumber
  <2>3. CASE m # ModeNumber(v)
    BY <1>1, <2>1, <2>3, EnterWellFormed DEF SetTrueMode
  <2>4. QED BY <2>2, <2>3
<1>2. CASE m = "AUTO_RTL"
  <2> DEFINE w == Enter(v, "AUTO", e)
  <2>1. w \in Vehicle /\ w.mode = "AUTO"
    BY EnterWellFormed DEF TrueModes, WellFormed
  <2>2. [w EXCEPT !.autoRTL = TRUE].mode = "AUTO"
    <3> HIDE DEF w
    <3>1. QED BY <2>1 DEF Vehicle
  <2>3. v.autoRTL => v.mode = "AUTO"
    BY DEF WellFormed
  <2>4. [v EXCEPT !.autoRTL = TRUE, !.leg = "GO"].mode = v.mode
    BY DEF WellFormed, Vehicle
  <2>5. QED BY <1>2, <2>2, <2>3, <2>4 DEF CanSet, SetMode
<1>3. QED BY <1>1, <1>2

\* A list that ends in LAND leaves the vehicle as it is in a manual mode with
\* no altitude only, and in one of its modes otherwise.
LEMMA SetFirstFliesItself ==
    ASSUME NEW v, NEW action \in ReturnActions, NEW e, WellFormed(v),
           e.alt \/ ~HasManualThrottle(v.mode)
    PROVE  SetFirst(v, Fallbacks(action), e).mode \notin PilotModes
<1> DEFINE modes == Fallbacks(action)
<1>1. ModeList(modes)
  BY FallbacksAreModes DEF ReturnActions, FailsafeActions
<1>2. \A i \in DOMAIN modes : modes[i] \in {"LAND", "RTL", "SMART_RTL", "AUTO_RTL"}
  BY DEF ReturnActions, Fallbacks
<1>3. \E i \in DOMAIN modes : modes[i] = "LAND"
  <2>1. modes \in {<<"LAND">>, <<"RTL", "LAND">>, <<"SMART_RTL", "RTL", "LAND">>,
                   <<"SMART_RTL", "LAND">>, <<"AUTO_RTL", "RTL", "LAND">>}
    BY DEF ReturnActions, Fallbacks
  <2>2. 1 \in DOMAIN <<"LAND">> /\ <<"LAND">>[1] = "LAND"
    OBVIOUS
  <2>3. 2 \in DOMAIN <<"RTL", "LAND">> /\ <<"RTL", "LAND">>[2] = "LAND"
    OBVIOUS
  <2>4. 2 \in DOMAIN <<"SMART_RTL", "LAND">> /\ <<"SMART_RTL", "LAND">>[2] = "LAND"
    OBVIOUS
  <2>5. /\ 3 \in DOMAIN <<"SMART_RTL", "RTL", "LAND">>
        /\ <<"SMART_RTL", "RTL", "LAND">>[3] = "LAND"
    OBVIOUS
  <2>6. /\ 3 \in DOMAIN <<"AUTO_RTL", "RTL", "LAND">>
        /\ <<"AUTO_RTL", "RTL", "LAND">>[3] = "LAND"
    OBVIOUS
  <2> HIDE DEF modes
  <2>7. QED BY <2>1, <2>2, <2>3, <2>4, <2>5, <2>6
<1>4. CanSet(v, "LAND", e)
  BY CopterAssumption DEF CanSet, CanSetTrue, MayInit, InitOk, AlwaysBuilt, RequiresGPS
<1> HIDE DEF modes
<1>5. PICK i \in DOMAIN modes : /\ CanSet(v, modes[i], e)
                                /\ SetFirst(v, modes, e) = SetMode(v, modes[i], e)
  BY <1>1, <1>3, <1>4, SetFirstTakesOne
<1>6. modes[i] \in ModeNumbers
  BY <1>1 DEF ModeList
<1>7. SetMode(v, modes[i], e).mode = IF modes[i] = "AUTO_RTL" THEN "AUTO" ELSE modes[i]
  BY <1>5, <1>6, SetModeReaches
<1>8. QED BY <1>2, <1>5, <1>7 DEF PilotModes, modes

\* A disarmed vehicle needs no pilot.
LEMMA DisarmFliesItself ==
    ASSUME NEW v, NEW method, WellFormed(v)
    PROVE  FliesItself(Disarm(v, method))
BY DEF FliesItself, Disarm, WellFormed, Vehicle

\* A failsafe action leaves a vehicle that flies itself in a mode that does.
LEMMA ActionFliesItself ==
    ASSUME LeftAlone, NEW v, NEW e \in Envs, WellFormed(v),
           NEW action \in {"NONE", FsThr, FsGcs, FsDr, LowAction, CritAction, "LAND"},
           action = "NONE" => FliesItself(v)
    PROVE  FliesItself(DoFailsafeAction(v, action, e))
<1>1. action \in ReturnActions \cup {"NONE", "TERMINATE"}
  BY CopterAssumption DEF LeftAlone, FailsafeActions, ReturnActions
<1>2. CASE action = "NONE"
  BY <1>2 DEF DoFailsafeAction
<1>3. CASE action = "TERMINATE"
  BY <1>3, DisarmFliesItself DEF DoFailsafeAction
<1>4. CASE action \in ReturnActions
  <2>1. SetFirst(v, Fallbacks(action), e).mode \notin PilotModes
    BY <1>4, SetFirstFliesItself DEF LeftAlone
  <2>2. DoFailsafeAction(v, action, e) = SetFirst(v, Fallbacks(action), e)
    BY <1>4 DEF DoFailsafeAction, ReturnActions
  <2>3. QED BY <2>1, <2>2 DEF FliesItself
<1>5. QED BY <1>1, <1>2, <1>3, <1>4

\* The start of the radio failsafe: the pilot's modes are left.
LEMMA RadioOnEventFliesItself ==
    ASSUME LeftAlone, NEW v, NEW e \in Envs, WellFormed(v), FsThr # "NONE"
    PROVE  FliesItself(RadioOnEvent(v, e))
<1> DEFINE action ==
       IF BatteryLanding(v) \/ ContinueLanding(v) THEN "LAND"
       ELSE IF ModeNumber(v) = "AUTO" /\ "RC_CONTINUE_IF_AUTO" \in FsOptions THEN "NONE"
       ELSE FsThr
<1>1. action \in {"NONE", FsThr, "LAND"}
  OBVIOUS
<1>2. action = "NONE" => FliesItself(v)
  BY DEF ModeNumber, FliesItself, PilotModes, WellFormed
<1>3. FliesItself(DoFailsafeAction(v, action, e))
  <2> HIDE DEF action
  <2>1. QED BY <1>1, <1>2, ActionFliesItself
<1>4. QED BY <1>3, DisarmFliesItself DEF RadioOnEvent

\* The others keep a vehicle that flies itself flying so.
LEMMA GcsOnEventFliesItself ==
    ASSUME LeftAlone, NEW v, NEW e \in Envs, WellFormed(v), FliesItself(v)
    PROVE  FliesItself(GcsOnEvent(v, e))
<1> DEFINE action ==
       IF BatteryLanding(v) \/ ContinueLanding(v) THEN "LAND"
       ELSE IF \/ ModeNumber(v) = "AUTO" /\ "GCS_CONTINUE_IF_AUTO" \in FsOptions
               \/ "GCS_CONTINUE_IF_PILOT" \in FsOptions /\ ~IsAutopilot(v.mode)
       THEN "NONE" ELSE FsGcs
<1>1. action \in {"NONE", FsGcs, "LAND"}
  OBVIOUS
<1>2. FliesItself(DoFailsafeAction(v, action, e))
  <2> HIDE DEF action
  <2>1. QED BY <1>1, ActionFliesItself
<1>3. QED BY <1>2, DisarmFliesItself DEF GcsOnEvent

\* So does a battery's failsafe.
LEMMA BatteryEventFliesItself ==
    ASSUME LeftAlone, NEW v, NEW e \in Envs, WellFormed(v), FliesItself(v),
           NEW action \in {LowAction, CritAction}
    PROVE  FliesItself(BatteryEvent(v, action, e))
<1> DEFINE chosen == IF ContinueLanding(v) /\ action # "NONE" THEN "LAND" ELSE action
<1>1. chosen \in {LowAction, CritAction, "LAND"}
  OBVIOUS
<1>2. FliesItself(DoFailsafeAction(v, chosen, e))
  <2> HIDE DEF chosen
  <2>1. QED BY <1>1, ActionFliesItself
<1>3. QED BY <1>2, DisarmFliesItself DEF BatteryEvent

\* A new leg changes no mode.
LEMMA LegFliesItself ==
    ASSUME NEW v, NEW leg, WellFormed(v), FliesItself(v)
    PROVE  FliesItself([v EXCEPT !.leg = leg])
BY DEF FliesItself, WellFormed, Vehicle

\* Terrain, dead reckoning, fence and EKF take no vehicle back to the pilot.
LEMMA OtherEventsFlyThemselves ==
    ASSUME LeftAlone, NEW v, NEW e \in Envs, NEW far, NEW altMax, WellFormed(v), FliesItself(v)
    PROVE  /\ FliesItself(TerrainOnEvent(v, e))
           /\ FliesItself(DeadReckonOnEvent(v, e))
           /\ FliesItself(FenceBreached(v, far, altMax, e))
<1>1. ASSUME NEW action \in ReturnActions PROVE FliesItself(SetFirst(v, Fallbacks(action), e))
  BY <1>1, SetFirstFliesItself DEF LeftAlone, FliesItself
<1>2. FliesItself(SetFirst(v, Fallbacks("RTL"), e))
  BY <1>1 DEF ReturnActions
<1>3. FliesItself(TerrainOnEvent(v, e))
  BY <1>2, DisarmFliesItself, LegFliesItself DEF TerrainOnEvent
<1>4. FliesItself(DeadReckonOnEvent(v, e))
  BY ActionFliesItself, DisarmFliesItself DEF DeadReckonOnEvent
<1>5. FliesItself(FenceBreached(v, far, altMax, e))
  <2>1. FenceAction # "REPORT" => FenceAction \in ReturnActions
    BY CopterAssumption DEF LeftAlone, ReturnActions
  <2>2. <<"LAND">> = Fallbacks("LAND") /\ "LAND" \in ReturnActions
    BY DEF Fallbacks, ReturnActions
  <2>3. FenceAction # "REPORT" =>
          FliesItself(SetFirst(v, IF far THEN <<"LAND">> ELSE Fallbacks(FenceAction), e))
    BY <1>1, <2>1, <2>2
  <2>4. QED BY <2>3, DisarmFliesItself DEF FenceBreached
<1>6. QED BY <1>3, <1>4, <1>5

\* Without a radio FS_EKF_ACTION 2 lands as the others do.
LEMMA EkfEventFliesItself ==
    ASSUME fsRadio, NEW v, NEW e, e.alt, WellFormed(v), FliesItself(v)
    PROVE  FliesItself(EkfEvent(v, e))
<1>1. <<"LAND">> = Fallbacks("LAND") /\ "LAND" \in ReturnActions
  BY DEF Fallbacks, ReturnActions
<1>2. FliesItself(SetFirst(v, <<"LAND">>, e))
  BY <1>1, SetFirstFliesItself DEF FliesItself
<1>3. FliesItself([v EXCEPT !.controlPos = FALSE])
  BY DEF FliesItself, WellFormed, Vehicle
<1>4. QED BY <1>2, <1>3 DEF EkfEvent

\* LAND can always be set, and flies itself.
LEMMA SetLandFliesItself ==
    ASSUME NEW v, NEW e, WellFormed(v), FliesItself(v)
    PROVE  FliesItself(SetMode(v, "LAND", e))
<1>1. SetMode(v, "LAND", e) = SetTrueMode(v, "LAND", e)
  BY DEF SetMode
<1>2. Steady(v, SetTrueMode(v, "LAND", e)) /\ SetTrueMode(v, "LAND", e).mode \in {v.mode, "LAND"}
  BY SetTrueModeSteady DEF TrueModes
<1>3. QED BY <1>1, <1>2 DEF Steady, FliesItself, PilotModes

\* Without a radio no landing is given back to the pilot.
LEMMA LandingsFlyThemselves ==
    ASSUME fsRadio, NEW v, NEW cancel, NEW e, WellFormed(v), FliesItself(v)
    PROVE  /\ FliesItself(DisarmIfLanded(v))
           /\ PilotCancels(v, cancel, e) = v
           /\ RunDescentOrLand(v, cancel, e) => FliesItself(veh')
<1>1. FliesItself(DisarmIfLanded(v))
  BY DisarmFliesItself DEF DisarmIfLanded
<1>2. ASSUME NEW w PROVE PilotCancels(w, cancel, e) = w
  BY DEF PilotCancels
<1>3. RunDescentOrLand(v, cancel, e) => FliesItself(veh')
  BY <1>1, <1>2 DEF RunDescentOrLand
<1>4. QED BY <1>1, <1>2, <1>3

\* A mission that goes on or is over
LEMMA MissionStepFliesItself ==
    ASSUME NEW next, NEW e, WellFormed(veh), FliesItself(veh)
    PROVE  FliesItself(MissionStep(next, e))
<1>1. /\ FliesItself(Disarm(veh, "LANDED")) /\ FliesItself(Disarm(veh, "MISSIONEXIT"))
      /\ FliesItself([veh EXCEPT !.leg = next]) /\ FliesItself([veh EXCEPT !.leg = "GO"])
      /\ FliesItself(SetMode(veh, "LAND", e))
  BY DisarmFliesItself, LegFliesItself, SetLandFliesItself
<1>2. CASE veh.leg = "LAND"
  BY <1>1, <1>2 DEF MissionStep
<1>3. CASE veh.leg # "LAND"
  BY <1>1, <1>3 DEF MissionStep
<1>4. QED BY <1>2, <1>3

\* A run of AUTO, its end in RTL or LAND included
LEMMA RunAutoFliesItself ==
    ASSUME LeftAlone, Sound(veh), fsRadio, FliesItself(veh), RunAuto
    PROVE  FliesItself(veh')
<1>1. PICK next \in MissionSteps, leftSequence \in BOOLEAN,
           lifted \in BOOLEAN, cancel \in BOOLEAN,
           obstacle \in {FALSE, "obstacle" \in Tasks},
           noTerrain \in {FALSE, "terrain_check" \in Tasks}, e \in Envs :
         AutoStep(next, leftSequence, lifted, cancel, obstacle, noTerrain, e)
  BY DEF RunAuto
<1> DEFINE noStart == noTerrain /\ e.mission /\ next = "GO" /\ veh.leg # "LAND"
           step == IF e.mission THEN (IF noStart THEN "stay" ELSE next) ELSE "stay"
           v == MissionStep(step, e)
           w == [v EXCEPT !.autoRTL = @ /\ ~leftSequence]
<1>2. \/ /\ noTerrain /\ veh' = TerrainOnEvent(w, e) /\ fsTerrain' = TRUE
         /\ UNCHANGED spoolDesired \/ GroundOrFlight(w)
      \/ AutoLeg(w, lifted, obstacle, cancel, e) /\ UNCHANGED fsTerrain
  BY <1>1 DEF AutoStep, AfterMission
<1>3. FliesItself(v) /\ WellFormed(v)
  <2>1. step \in MissionSteps
    BY DEF MissionSteps
  <2> HIDE DEF step
  <2>2. QED BY <2>1, MissionStepFliesItself, MissionStepSound DEF Sound, RunAuto, MissionSteps
<1>4. FliesItself(w) /\ WellFormed(w)
  <2> HIDE DEF v
  <2>1. QED BY <1>3 DEF FliesItself, WellFormed, Vehicle
<1> HIDE DEF v, w
<1>5. CASE veh' = TerrainOnEvent(w, e)
  BY <1>4, <1>5, OtherEventsFlyThemselves
<1>6. CASE AutoLeg(w, lifted, obstacle, cancel, e)
  <2>1. ~obstacle
    BY DEF LeftAlone
  <2>2. CASE w.leg = "TAKEOFF"
    BY <1>4, <1>6, <2>2 DEF AutoLeg, FliesItself, WellFormed, Vehicle
  <2>3. CASE w.leg = "LAND"
    BY <1>4, <1>6, <2>3 DEF AutoLeg, PilotCancels
  <2>4. CASE w.leg \notin {"TAKEOFF", "LAND"}
    BY <1>4, <1>6, <2>1, <2>4 DEF AutoLeg
  <2>5. QED BY <2>2, <2>3, <2>4
<1>7. QED BY <1>2, <1>5, <1>6

\* A run of any mode
LEMMA RunFliesItself ==
    ASSUME LeftAlone, IInv, fsRadio, FliesItself(veh), UpdateFlightMode
    PROVE  FliesItself(veh')
<1>1. Sound(veh) /\ WellFormed(veh) /\ TypeOK
  BY DEF IInv, Sound
<1>2. CASE RunStabilize \/ RunAltHold
  <2>1. ~veh.armed
    BY <1>2 DEF RunStabilize, RunAltHold, FliesItself, PilotModes
  <2>2. ~veh'.armed
    BY <1>1, <1>2, <2>1
       DEF RunStabilize, RunAltHold, AltHoldTakeoff, AltHoldOther, TypeOK, Vehicle
  <2>3. QED BY <2>2 DEF FliesItself
<1>3. CASE RunBrake
  <2>1. ~veh.armed
    BY <1>3 DEF RunBrake, FliesItself, PilotModes
  <2>2. QED BY <1>1, <1>3, <2>1, RunBrakeKeepsFlying DEF KeepsFlying, FliesItself
<1>4. CASE RunLand
  BY <1>1, <1>4, LandingsFlyThemselves, DisarmIfLandedSound DEF RunLand, Sound
<1>5. CASE RunRTL
  <2>1. CASE ~veh.armed
    BY <1>5, <2>1 DEF RunRTL
  <2>2. CASE veh.armed /\ veh.leg = "GO"
    <3>1. PICK noTerrain \in BOOLEAN, arrived \in BOOLEAN, e \in Envs :
             RtlReturn(noTerrain, arrived, e)
      BY <1>5, <2>2 DEF RunRTL
    <3> DEFINE v == IF noTerrain THEN SetMode(veh, "LAND", e) ELSE veh
    <3>2. FliesItself(v) /\ WellFormed(v)
      BY <1>1, SetLandFliesItself, SetModeSound DEF Sound, ModeNumbers, TrueModes
    <3>3. veh' = v \/ veh' = [v EXCEPT !.leg = "ARRIVED"]
      BY <3>1 DEF RtlReturn
    <3> HIDE DEF v
    <3>4. QED BY <3>2, <3>3, LegFliesItself
  <2>3. CASE veh.armed /\ veh.leg # "GO"
    <3>1. PICK leg \in RtlLastLegs, cancel \in BOOLEAN, e \in Envs :
             RunDescentOrLand([veh EXCEPT !.leg = leg], cancel, e)
      BY <1>5, <2>3 DEF RunRTL
    <3>2. WellFormed([veh EXCEPT !.leg = leg])
      BY <1>1, <1>5, RtlLastLegSound DEF RunRTL, Sound
    <3>3. FliesItself([veh EXCEPT !.leg = leg])
      BY <1>1, LegFliesItself
    <3>4. QED BY <3>1, <3>2, <3>3, LandingsFlyThemselves
  <2>4. QED BY <2>1, <2>2, <2>3
<1>6. CASE RunSmartRTL
  BY <1>1, <1>6, LegFliesItself, LandingsFlyThemselves DEF RunSmartRTL
<1>7. CASE RunAuto
  BY <1>1, <1>7, RunAutoFliesItself
<1>8. QED BY <1>2, <1>3, <1>4, <1>5, <1>6, <1>7 DEF UpdateFlightMode

\* The fast tasks
LEMMA FastLoopFliesItself ==
    ASSUME LeftAlone, IInv, fsRadio, FliesItself(veh), FastLoop
    PROVE  FliesItself(veh')
<1>1. veh \in Vehicle /\ WellFormed(veh)
  BY DEF IInv, Sound, TypeOK
<1>2. ASSUME NEW expired \in BOOLEAN, NEW ramped \in BOOLEAN, MotorsOutput(expired, ramped)
      PROVE  FliesItself(veh')
  BY <1>1, <1>2 DEF MotorsOutput, FliesItself, Vehicle
<1>3. CASE UpdateFlightMode
  BY <1>3, RunFliesItself
<1>4. CASE LandDetector
  <2>1. ASSUME NEW b, NEW v, v \in Vehicle, FliesItself(v)
        PROVE  FliesItself([v EXCEPT !.landed = b])
    BY <2>1 DEF FliesItself, Vehicle
  <2>2. ASSUME NEW high, NEW touched PROVE FliesItself(DetectLanding(veh, high, touched))
    <3>1. FliesItself(LandComplete(veh))
      BY <1>1, <2>1, DisarmFliesItself DEF LandComplete
    <3>2. /\ FliesItself([veh EXCEPT !.landed = TRUE])
          /\ FliesItself([veh EXCEPT !.landed = ~(high /\ spool = "UNLIMITED")])
      BY <1>1, <2>1
    <3>3. QED BY <1>1, <3>1, <3>2 DEF DetectLanding, Vehicle
  <2>3. ASSUME NEW v, NEW crashed, FliesItself(v), WellFormed(v)
        PROVE  FliesItself(CheckCrash(v, crashed))
    BY <2>3, DisarmFliesItself DEF CheckCrash
  <2>4. ASSUME NEW high, NEW touched PROVE WellFormed(DetectLanding(veh, high, touched))
    <3>1. WellFormed(LandComplete(veh))
      BY DisarmSound, LandedSound DEF LandComplete, IInv, DisarmMethods, Sound
    <3>2. /\ WellFormed([veh EXCEPT !.landed = TRUE])
          /\ WellFormed([veh EXCEPT !.landed = ~(high /\ spool = "UNLIMITED")])
      BY LandedSound DEF IInv, Sound
    <3>3. QED BY <1>1, <3>1, <3>2 DEF DetectLanding, Vehicle
  <2>5. QED BY <1>4, <2>2, <2>3, <2>4 DEF LandDetector
<1>5. CASE EndLoop
  BY <1>5 DEF EndLoop
<1>6. QED BY <1>2, <1>3, <1>4, <1>5 DEF FastLoop

\* The four checks of three_hz_loop(), one on the result of the other
LEMMA ThreeHzLoopFliesItself ==
    ASSUME LeftAlone, IInv, FliesItself(veh), ThreeHzLoop
    PROVE  FliesItself(veh')
<1>1. PICK lost \in {FALSE, "gcs_check" \in Tasks},
           noTerrain \in {FALSE, "terrain_check" \in Tasks},
           deadReckoning \in {FALSE, "deadreckon_check" \in Tasks},
           breach \in {FALSE, "fence_check" \in Tasks},
           far \in BOOLEAN, altMax \in BOOLEAN, e \in Envs :
         LET newGcs     == FsGcs # "NONE" /\ lost
             afterGcs   == IF newGcs /\ ~fsGcs THEN GcsOnEvent(veh, e) ELSE veh
             newTerrain == noTerrain /\ RequiresTerrain(afterGcs.mode)
             afterTerrain == IF newTerrain /\ ~fsTerrain THEN TerrainOnEvent(afterGcs, e)
                                                        ELSE afterGcs
             newDr      == FsDr # "NONE" /\ deadReckoning
             afterDr    == IF newDr /\ ~fsDr THEN DeadReckonOnEvent(afterTerrain, e)
                                            ELSE afterTerrain
         IN  /\ breach \/ (~far /\ ~altMax)
             /\ fsGcs' = newGcs /\ fsTerrain' = newTerrain /\ fsDr' = newDr
             /\ veh' = IF breach THEN FenceBreached(afterDr, far, altMax, e) ELSE afterDr
  BY DEF ThreeHzLoop
<1> DEFINE newGcs     == FsGcs # "NONE" /\ lost
           afterGcs   == IF newGcs /\ ~fsGcs THEN GcsOnEvent(veh, e) ELSE veh
           newTerrain == noTerrain /\ RequiresTerrain(afterGcs.mode)
           afterTerrain == IF newTerrain /\ ~fsTerrain THEN TerrainOnEvent(afterGcs, e)
                                                      ELSE afterGcs
           newDr      == FsDr # "NONE" /\ deadReckoning
           afterDr    == IF newDr /\ ~fsDr THEN DeadReckonOnEvent(afterTerrain, e)
                                          ELSE afterTerrain
           Kept(v) == Sound(v) /\ FliesItself(v)
<1>2. Kept(afterGcs)
  BY LinkEventsSound, GcsOnEventFliesItself DEF IInv, Sound
<1>3. Kept(afterTerrain)
  <2> HIDE DEF afterGcs
  <2>1. FliesItself(TerrainOnEvent(afterGcs, e))
    BY <1>2, OtherEventsFlyThemselves DEF Sound
  <2>2. QED BY <1>2, <2>1, TerrainOnEventSound
<1>4. Kept(afterDr)
  <2> HIDE DEF afterTerrain
  <2>1. FliesItself(DeadReckonOnEvent(afterTerrain, e))
    BY <1>3, OtherEventsFlyThemselves DEF Sound
  <2>2. QED BY <1>3, <2>1, DeadReckonOnEventSound
<1>5. veh' = IF breach THEN FenceBreached(afterDr, far, altMax, e) ELSE afterDr
  BY <1>1
<1>6. QED
  <2> HIDE DEF afterDr
  <2>1. FliesItself(FenceBreached(afterDr, far, altMax, e))
    BY <1>4, OtherEventsFlyThemselves DEF Sound
  <2>2. QED BY <1>4, <1>5, <2>1

\* A scheduled task: the one that notices the lost radio chooses a mode that needs none.
LEMMA TaskFliesItself ==
    ASSUME LeftAlone, IInv, fsRadio => FliesItself(veh), ScheduledTask
    PROVE  fsRadio' => FliesItself(veh')
<1>1. WellFormed(veh) /\ TypeOK
  BY DEF IInv, Sound
<1> USE DEF Task, fsVars
<1>2. CASE ReadRadio
  <2>1. PICK lost \in (IF FsThr = "NONE" THEN {FALSE} ELSE BOOLEAN), e \in Envs :
           fsRadio' = lost /\ veh' = IF lost /\ ~fsRadio THEN RadioOnEvent(veh, e) ELSE veh
    BY <1>2 DEF ReadRadio
  <2>2. lost => FsThr # "NONE"
    BY <2>1
  <2>3. lost => FliesItself(RadioOnEvent(veh, e))
    BY <1>1, <2>2, RadioOnEventFliesItself
  <2>4. CASE lost /\ ~fsRadio
    BY <2>1, <2>3, <2>4
  <2>5. CASE ~(lost /\ ~fsRadio)
    BY <2>1, <2>5
  <2>6. QED BY <2>4, <2>5
<1>3. CASE ThrottleLoop
  BY <1>3 DEF ThrottleLoop
<1>4. CASE ModeSwitch
  BY <1>4 DEF ModeSwitch
<1>5. CASE Rudder
  <2>1. ASSUME NEW e, fsRadio PROVE Arm(veh, FALSE, e) = veh
    BY <2>1 DEF Arm, MayArm
  <2>2. fsRadio' = fsRadio
    BY <1>5 DEF Rudder
  <2>3. (\E e \in Envs : veh' = Arm(veh, FALSE, e)) \/ veh' = Disarm(veh, "RUDDER")
    BY <1>5 DEF Rudder
  <2>4. CASE \E e \in Envs : veh' = Arm(veh, FALSE, e)
    BY <2>1, <2>2, <2>4
  <2>5. CASE veh' = Disarm(veh, "RUDDER")
    BY <1>1, <2>5, DisarmFliesItself
  <2>6. QED BY <2>3, <2>4, <2>5
<1>6. CASE AutoDisarm
  BY <1>1, <1>6, DisarmFliesItself DEF AutoDisarm
<1>7. CASE EkfCheck \/ EkfCheckDisabled
  <2>1. fsRadio' = fsRadio
    BY <1>7 DEF EkfCheck, EkfCheckDisabled
  <2>2. UNCHANGED veh \/ \E e \in Envs : veh' = EkfEvent(veh, [e EXCEPT !.pos = FALSE])
    BY <1>7 DEF EkfCheck, EkfCheckDisabled
  <2>3. \A e \in Envs : [e EXCEPT !.pos = FALSE].alt
    BY CopterAssumption DEF Environment, LeftAlone
  <2>4. QED BY <1>1, <2>1, <2>2, <2>3, EkfEventFliesItself
<1>8. CASE ThreeHzLoop
  <2>1. fsRadio' = fsRadio
    BY <1>8 DEF ThreeHzLoop
  <2>2. QED BY <1>8, <2>1, ThreeHzLoopFliesItself
<1>9. CASE BatteryCheck
  <2>1. fsRadio' = fsRadio
    BY <1>9 DEF BatteryCheck
  <2>2. \/ UNCHANGED veh
        \/ \E e \in Envs : \/ veh' = BatteryEvent(veh, LowAction, e)
                           \/ veh' = BatteryEvent(veh, CritAction, e)
    BY <1>9 DEF BatteryCheck
  <2>3. QED BY <1>1, <2>1, <2>2, BatteryEventFliesItself
<1>10. ~GcsSetMode /\ ~GcsMissionStart /\ ~GcsArm /\ ~GcsDisarm
  BY DEF GcsSetMode, GcsMissionStart, GcsArm, GcsDisarm, LeftAlone
<1>11. CASE GcsTakeoff
  BY <1>1, <1>11 DEF GcsTakeoff, FliesItself, TypeOK, Vehicle
<1>12. QED
  BY <1>2, <1>3, <1>4, <1>5, <1>6, <1>7, <1>8, <1>9, <1>10, <1>11 DEF ScheduledTask

\* A vehicle that is left alone never waits for a pilot it cannot hear,
\* whichever failsafes meet and in whatever order.
THEOREM RadioLossIsHeld ==
    ASSUME LeftAlone
    PROVE  Spec => []RadioLossHeld
<1> DEFINE NoPilot == fsRadio => FliesItself(veh)
<1>1. Init => NoPilot
  BY DEF Init
<1>2. IInv /\ NoPilot /\ [Next]_vars => NoPilot'
  <2> SUFFICES ASSUME IInv, NoPilot, [Next]_vars PROVE fsRadio' => FliesItself(veh')
    BY DEF FliesItself
  <2>1. CASE FastLoop
    <3>1. fsRadio' = fsRadio
      BY <2>1 DEF FastLoop, MotorsOutput, UpdateFlightMode, LandDetector, EndLoop, fsVars
    <3>2. QED BY <2>1, <3>1, FastLoopFliesItself, LeftAlone
  <2>2. CASE ScheduledTask
    BY <2>2, TaskFliesItself, LeftAlone
  <2>3. CASE UNCHANGED vars
    BY <2>3 DEF vars, fsVars
  <2>4. QED BY <2>1, <2>2, <2>3 DEF Next
<1>3. NoPilot => RadioLossHeld
  BY DEF FliesItself, PilotModes, RadioLossHeld
<1> HIDE DEF NoPilot
<1>4. QED BY Inductive, <1>1, <1>2, <1>3, PTL DEF Spec

-----------------------------------------------------------------------------
(* A landing the battery asked for *)

\* The tasks that end such a landing on purpose do not run.
NothingElseFails ==
    Tasks \cap {"gcs_mode", "terrain_check", "fence_check", "deadreckon_check"} = {}

StillLands(w) == w.armed => IsLanding(w)

\* From a landing, LAND at the head of the fallbacks is LAND again.
LEMMA LandFromLanding ==
    ASSUME NEW v, NEW e, WellFormed(v), IsLanding(v)
    PROVE  SetFirst(v, <<"LAND">>, e).mode = "LAND"
<1>1. ModeList(<<"LAND">>) /\ DOMAIN <<"LAND">> = {1} /\ <<"LAND">>[1] = "LAND"
  BY DEF ModeList, ModeNumbers, TrueModes
<1>2. CanSet(v, "LAND", e)
  BY CopterAssumption
     DEF CanSet, CanSetTrue, MayInit, InitOk, AlwaysBuilt, RequiresGPS, IsLanding, HasManualThrottle
<1>3. SetFirst(v, <<"LAND">>, e) = SetMode(v, "LAND", e)
  BY <1>1, <1>2, SetFirstTakesOne
<1>4. QED BY <1>2, <1>3, SetModeReaches DEF ModeNumbers, TrueModes

\* disarm() succeeds on whatever vehicle.
LEMMA DisarmEndsFlight ==
    ASSUME NEW v, NEW method, WellFormed(v)
    PROVE  ~Disarm(v, method).armed
BY DEF Disarm, WellFormed, Vehicle

\* Both link failsafes give LAND the first word.
LEMMA LinkEventsLandOn ==
    ASSUME NEW v, NEW e, WellFormed(v), BatteryLanding(v)
    PROVE  StillLands(RadioOnEvent(v, e)) /\ StillLands(GcsOnEvent(v, e))
<1>1. StillLands(DoFailsafeAction(v, "LAND", e))
  BY LandFromLanding
     DEF DoFailsafeAction, Fallbacks, FailsafeActions, BatteryLanding, StillLands, IsLanding
<1>2. \/ RadioOnEvent(v, e) = Disarm(v, "RADIOFAILSAFE")
      \/ RadioOnEvent(v, e) = DoFailsafeAction(v, "LAND", e)
  BY DEF RadioOnEvent
<1>3. \/ GcsOnEvent(v, e) = v
      \/ GcsOnEvent(v, e) = Disarm(v, "GCSFAILSAFE")
      \/ GcsOnEvent(v, e) = DoFailsafeAction(v, "LAND", e)
  BY DEF GcsOnEvent
<1>4. QED BY <1>1, <1>2, <1>3, DisarmEndsFlight DEF StillLands, BatteryLanding

\* An EKF failsafe lets a vehicle that is landing land.
LEMMA EkfEventLandsOn ==
    ASSUME fsRadio, NEW v, NEW e, WellFormed(v), IsLanding(v)
    PROVE  StillLands(EkfEvent(v, e))
<1>1. IsLanding([v EXCEPT !.controlPos = FALSE])
  BY DEF IsLanding, WellFormed, Vehicle
<1>2. IsLanding(SetFirst(v, <<"LAND">>, e))
  BY LandFromLanding DEF IsLanding
<1>3. \/ EkfEvent(v, e) = v
      \/ EkfEvent(v, e) = [v EXCEPT !.controlPos = FALSE]
      \/ EkfEvent(v, e) = SetFirst(v, <<"LAND">>, e)
  BY DEF EkfEvent
<1>4. IsLanding(EkfEvent(v, e))
  BY <1>1, <1>2, <1>3
<1>5. QED BY <1>4 DEF StillLands

\* Only actions as urgent as a landing are taken: LAND again, or the end.
LEMMA BatteryEventLandsOn ==
    ASSUME NEW v, NEW e, WellFormed(v), IsLanding(v),
           NEW action, Priority(action) \in 0..1
    PROVE  StillLands(BatteryEvent(v, action, e))
<1>1. action \in {"LAND", "TERMINATE"}
  BY DEF Priority
<1>2. StillLands(DoFailsafeAction(v, "LAND", e))
  BY LandFromLanding DEF DoFailsafeAction, Fallbacks, StillLands, IsLanding
<1>3. StillLands(DoFailsafeAction(v, "TERMINATE", e))
  BY DisarmEndsFlight DEF DoFailsafeAction, StillLands
<1>4. BatteryEvent(v, action, e) \in {Disarm(v, "BATTERYFAILSAFE"),
            DoFailsafeAction(v, "LAND", e), DoFailsafeAction(v, "TERMINATE", e)}
  BY <1>1 DEF BatteryEvent
<1>5. QED BY <1>2, <1>3, <1>4, DisarmEndsFlight DEF StillLands

\* So does a run of the mode, with no pilot to cancel,
LEMMA RunLandsOn ==
    ASSUME NothingElseFails, TypeOK, WellFormed(veh), fsRadio, IsLanding(veh), ~veh.landed,
           UpdateFlightMode
    PROVE  IsLanding(veh')
<1>1. ASSUME NEW v, NEW cancel, NEW e PROVE PilotCancels(v, cancel, e) = v
  BY DEF PilotCancels
<1>2. DisarmIfLanded(veh) = veh
  BY DEF DisarmIfLanded
<1>3. ~RunStabilize /\ ~RunAltHold /\ ~RunBrake
  BY DEF RunStabilize, RunAltHold, RunBrake, IsLanding
<1>4. CASE RunLand
  <2>1. PICK cancel \in BOOLEAN, e \in Envs :
           IF veh.controlPos
           THEN LET v == DisarmIfLanded(veh)
                IN  veh' = PilotCancels(v, cancel, e) /\ GroundOrFlight(v)
           ELSE LET v == DisarmIfLanded(IF cancel /\ ~fsRadio THEN SetMode(veh, "ALT_HOLD", e)
                                                              ELSE veh)
                IN  veh' = v /\ GroundOrFlight(v)
    BY <1>4 DEF RunLand
  <2>2. veh' = veh
    BY <1>1, <1>2, <2>1
  <2>3. QED BY <2>2
<1>5. ASSUME NEW cancel, NEW e, RunDescentOrLand(veh, cancel, e) PROVE veh' = veh
  BY <1>1, <1>2, <1>5 DEF RunDescentOrLand
<1>6. CASE RunRTL
  <2>1. veh.leg = "LAND" /\ RtlLastLegs = {veh.leg}
    BY <1>6 DEF RunRTL, IsLanding, RtlLastLegs
  <2>2. [veh EXCEPT !.leg = veh.leg] = veh
    BY DEF TypeOK, Vehicle
  <2>3. veh' = veh
    BY <1>5, <1>6, <2>1, <2>2 DEF RunRTL
  <2>4. QED BY <2>3
<1>7. CASE RunSmartRTL
  BY <1>5, <1>7 DEF RunSmartRTL, IsLanding
<1>8. CASE RunAuto
  <2>1. veh.leg = "LAND" /\ veh.mode = "AUTO"
    BY <1>8 DEF RunAuto, IsLanding
  <2>2. ASSUME NEW next, NEW e PROVE MissionStep(next, e) = veh
    BY <2>1 DEF MissionStep
  <2>3. PICK next \in MissionSteps, leftSequence \in BOOLEAN,
             lifted \in BOOLEAN, cancel \in BOOLEAN,
             obstacle \in {FALSE, "obstacle" \in Tasks},
             noTerrain \in {FALSE, "terrain_check" \in Tasks}, e \in Envs :
           AutoStep(next, leftSequence, lifted, cancel, obstacle, noTerrain, e)
    BY <1>8 DEF RunAuto
  <2> DEFINE w == [veh EXCEPT !.autoRTL = @ /\ ~leftSequence]
  <2>4. w.leg = "LAND" /\ w.mode = "AUTO"
    BY <2>1 DEF TypeOK, Vehicle
  <2>5. AutoLeg(w, lifted, obstacle, cancel, e)
    <3>1. ~noTerrain
      BY DEF NothingElseFails
    <3>2. QED BY <2>2, <2>3, <3>1 DEF AutoStep, AfterMission
  <2> HIDE DEF w
  <2>6. veh' = w
    BY <1>1, <2>4, <2>5 DEF AutoLeg
  <2>7. QED BY <2>4, <2>6 DEF IsLanding
<1>9. QED BY <1>3, <1>4, <1>6, <1>7, <1>8 DEF UpdateFlightMode

\* the fast tasks of a loop,
LEMMA FastLoopLandsOn ==
    ASSUME NothingElseFails, TypeOK, WellFormed(veh), fsRadio, IsLanding(veh), veh.armed,
           ~veh.landed, FastLoop
    PROVE  StillLands(veh')
<1>1. ASSUME NEW expired \in BOOLEAN, NEW ramped \in BOOLEAN, MotorsOutput(expired, ramped)
      PROVE  StillLands(veh')
  BY <1>1 DEF MotorsOutput, StillLands, IsLanding, TypeOK, Vehicle
<1>2. CASE UpdateFlightMode
  BY <1>2, RunLandsOn DEF StillLands
<1>3. CASE LandDetector
  <2>1. PICK high \in BOOLEAN, touched \in BOOLEAN, takingOff \in TakingOff(veh),
             crashed \in {FALSE, "crash_check" \in Tasks} :
           veh' = CheckCrash(DetectLanding(veh, high /\ ~takingOff, touched), crashed)
    BY <1>3 DEF LandDetector
  <2> DEFINE v == DetectLanding(veh, high /\ ~takingOff, touched)
  <2>2. v = IF touched THEN LandComplete(veh) ELSE veh
    BY DEF DetectLanding
  <2>3. LandComplete(veh) \in Vehicle /\ StillLands(LandComplete(veh))
    <3>1. IsLanding([veh EXCEPT !.landed = TRUE]) /\ [veh EXCEPT !.landed = TRUE] \in Vehicle
      BY DEF IsLanding, TypeOK, Vehicle
    <3>2. Disarm(veh, "LANDED") \in Vehicle /\ ~Disarm(veh, "LANDED").armed
      BY DEF Disarm, TypeOK, Vehicle, DisarmMethods
    <3>3. QED BY <3>1, <3>2 DEF LandComplete, StillLands
  <2>4. v \in Vehicle /\ StillLands(v)
    BY <2>2, <2>3 DEF StillLands, TypeOK
  <2>5. veh' = v \/ veh' = Disarm(v, "CRASH")
    BY <2>1 DEF CheckCrash
  <2> HIDE DEF v
  <2>6. ~Disarm(v, "CRASH").armed
    BY <2>4 DEF Disarm, Vehicle
  <2>7. QED BY <2>4, <2>5, <2>6 DEF StillLands
<1>4. CASE EndLoop
  BY <1>4 DEF EndLoop, StillLands
<1>5. QED BY <1>1, <1>2, <1>3, <1>4 DEF FastLoop

\* and each scheduled task that may run here.
LEMMA TaskLandsOn ==
    ASSUME NothingElseFails, IInv, BatteryLanding(veh), veh.armed, ~veh.landed, ScheduledTask,
           fsRadio'
    PROVE  StillLands(veh')
<1>1. WellFormed(veh) /\ TypeOK /\ IsLanding(veh)
  BY DEF IInv, Sound, BatteryLanding
<1>2. StillLands(veh)
  BY <1>1 DEF StillLands
<1> USE DEF Task, fsVars
<1>3. CASE ReadRadio
  BY <1>1, <1>2, <1>3, LinkEventsLandOn DEF ReadRadio
<1>4. CASE ThrottleLoop
  BY <1>2, <1>4 DEF ThrottleLoop
<1>5. CASE ModeSwitch
  BY <1>5 DEF ModeSwitch
<1>6. CASE Rudder \/ GcsArm \/ AutoDisarm \/ GcsDisarm
  <2>1. ASSUME NEW forced, NEW e PROVE Arm(veh, forced, e) = veh
    BY DEF Arm
  <2>2. veh' = veh \/ \E method \in DisarmMethods : veh' = Disarm(veh, method)
    BY <1>6, <2>1 DEF Rudder, GcsArm, AutoDisarm, GcsDisarm, DisarmMethods
  <2>3. QED BY <1>1, <1>2, <2>2, DisarmEndsFlight DEF StillLands
<1>7. CASE EkfCheck \/ EkfCheckDisabled
  <2>1. fsRadio
    BY <1>7 DEF EkfCheck, EkfCheckDisabled
  <2>2. veh' = veh \/ \E e \in Envs : veh' = EkfEvent(veh, [e EXCEPT !.pos = FALSE])
    BY <1>7 DEF EkfCheck, EkfCheckDisabled
  <2>3. QED BY <1>1, <1>2, <2>1, <2>2, EkfEventLandsOn
<1>8. CASE ThreeHzLoop
  <2>1. PICK lost \in {FALSE, "gcs_check" \in Tasks},
             noTerrain \in {FALSE, "terrain_check" \in Tasks},
             deadReckoning \in {FALSE, "deadreckon_check" \in Tasks},
             breach \in {FALSE, "fence_check" \in Tasks},
             far \in BOOLEAN, altMax \in BOOLEAN, e \in Envs :
           LET newGcs     == FsGcs # "NONE" /\ lost
               afterGcs   == IF newGcs /\ ~fsGcs THEN GcsOnEvent(veh, e) ELSE veh
               newTerrain == noTerrain /\ RequiresTerrain(afterGcs.mode)
               afterTerrain == IF newTerrain /\ ~fsTerrain THEN TerrainOnEvent(afterGcs, e)
                                                          ELSE afterGcs
               newDr      == FsDr # "NONE" /\ deadReckoning
               afterDr    == IF newDr /\ ~fsDr THEN DeadReckonOnEvent(afterTerrain, e)
                                              ELSE afterTerrain
           IN  /\ breach \/ (~far /\ ~altMax)
               /\ fsGcs' = newGcs /\ fsTerrain' = newTerrain /\ fsDr' = newDr
               /\ veh' = IF breach THEN FenceBreached(afterDr, far, altMax, e) ELSE afterDr
    BY <1>8 DEF ThreeHzLoop
  <2>2. ~noTerrain /\ ~deadReckoning /\ ~breach
    BY DEF NothingElseFails
  <2>3. veh' = veh \/ veh' = GcsOnEvent(veh, e)
    BY <2>1, <2>2
  <2>4. QED BY <1>1, <1>2, <2>3, LinkEventsLandOn
<1>9. CASE BatteryCheck
  <2>1. \/ veh' = veh
        \/ \E action \in {LowAction, CritAction}, e \in Envs :
              BatteryUrgent(action) /\ veh' = BatteryEvent(veh, action, e)
    BY <1>9 DEF BatteryCheck
  <2>2. ASSUME NEW action, BatteryUrgent(action) PROVE Priority(action) \in 0..1
    <3>1. Priority(action) \in 0..6
      BY DEF Priority
    <3>2. Priority(action) <= battPriority /\ battPriority <= 1 /\ battPriority \in Nat
      BY <2>2 DEF BatteryUrgent, BatteryLanding, FAILSAFE_LAND_PRIORITY, TypeOK, NoPriority, IInv
    <3>3. QED BY <3>1, <3>2
  <2>3. QED BY <1>1, <1>2, <2>1, <2>2, BatteryEventLandsOn
<1>10. ~GcsSetMode /\ ~GcsMissionStart
  BY DEF GcsSetMode, GcsMissionStart, NothingElseFails
<1>11. CASE GcsTakeoff
  BY <1>1, <1>11 DEF GcsTakeoff, IsLanding
<1>12. QED
  BY <1>3, <1>4, <1>5, <1>6, <1>7, <1>8, <1>9, <1>10, <1>11 DEF ScheduledTask

\* Once the battery has asked to land and the radio is gone, no loss of a link,
\* of the EKF or of more of the battery ends the landing before the ground.
THEOREM BatteryLandingIsHeld ==
    ASSUME NothingElseFails
    PROVE  Spec => BatteryLandingHeld
<1> DEFINE LandsOn == BatteryLanding(veh) /\ veh.armed /\ ~veh.landed /\ fsRadio' /\ veh'.armed
                         => IsLanding(veh')
<1>1. IInv /\ [Next]_vars => [LandsOn]_vars
  <2> SUFFICES ASSUME IInv, Next, BatteryLanding(veh), veh.armed, ~veh.landed, fsRadio',
                      veh'.armed
               PROVE  IsLanding(veh')
    OBVIOUS
  <2>1. CASE FastLoop
    <3>1. fsRadio
      BY <2>1 DEF FastLoop, MotorsOutput, UpdateFlightMode, LandDetector, EndLoop, fsVars
    <3>2. QED
      BY <2>1, <3>1, NothingElseFails, FastLoopLandsOn DEF IInv, Sound, BatteryLanding, StillLands
  <2>2. CASE ScheduledTask
    BY <2>2, NothingElseFails, TaskLandsOn DEF StillLands
  <2>3. QED BY <2>1, <2>2 DEF Next
<1>2. QED BY Inductive, <1>1, PTL DEF Spec, BatteryLandingHeld
=============================================================================
