--------------------------- MODULE Monitors_proofs ---------------------------
(***************************************************************************)
(* The four watches of MCMonitors, each for every value of its constants:  *)
(* the batteries, the main loop, the radio link and the path home.         *)
(***************************************************************************)
EXTENDS MCMonitors, Iteration, FiniteSetTheorems, TLAPS

-----------------------------------------------------------------------------
(* The batteries, however many and whatever their parameters.  A battery   *)
(* that is reset while it is still low breaks both properties (its action  *)
(* is never asked for), so they are proved for resets that leave it well.  *)

\* Both properties are inductive together with the types.
BattMonitorIInv == BattMonitorTypeOK /\ NoBatteryIgnored /\ TriggeredIffFailsafe

\* Every action has a priority, the unknown ones too.
LEMMA PriorityType == \A action : Priority(action) \in 0..6
BY DEF Priority

\* Initially no battery has failed.
LEMMA BattMonitorInitIInv == BattMonitorInit => BattMonitorIInv
<1> SUFFICES ASSUME BattMonitorInit PROVE BattMonitorIInv
  OBVIOUS
<1>1. BattMonitorTypeOK
  <2>1. turn \in Batteries
    BY BattMonitorAssumption DEF BattMonitorInit, Batteries
  <2>2. failsafe \in [Batteries -> Levels]
    BY DEF BattMonitorInit, Levels
  <2>3. QED BY <2>1, <2>2 DEF BattMonitorInit, BattMonitorTypeOK, Priorities
<1>2. NoBatteryIgnored /\ TriggeredIffFailsafe
  BY DEF BattMonitorInit, NoBatteryIgnored, TriggeredIffFailsafe
<1>3. QED BY <1>1, <1>2 DEF BattMonitorIInv

\* A battery's turn: it alone changes level, and if the action in force
\* changes, it becomes this battery's and no less urgent than it was.
LEMMA CheckFailsafesIInv ==
    ASSUME BattMonitorIInv, NEW level \in Levels, CheckFailsafes(level)
    PROVE  BattMonitorIInv'
<1> USE DEF BattMonitorIInv
<1> DEFINE action == ActionAt(turn, level)
<1>0. turn \in Batteries /\ turn' \in Batteries /\ Priority(action) \in 0..6
  BY BattMonitorAssumption, PriorityType
     DEF BattMonitorTypeOK, CheckFailsafes, NextTurn, Batteries
<1>1. CASE level <= failsafe[turn]
  <2>1. UNCHANGED <<armed, failsafe, highest, triggered>>
    BY <1>1 DEF CheckFailsafes
  <2>2. BattMonitorTypeOK'
    BY <1>0, <2>1 DEF BattMonitorTypeOK
  <2>3. NoBatteryIgnored' /\ TriggeredIffFailsafe'
    BY <2>1 DEF NoBatteryIgnored, TriggeredIffFailsafe
  <2>4. QED BY <2>2, <2>3
<1>2. CASE ~(level <= failsafe[turn])
  <2>1. failsafe' = [failsafe EXCEPT ![turn] = level] /\ triggered' = TRUE
    BY <1>2 DEF CheckFailsafes
  <2>2. \/ Urgent(action) /\ highest' = Priority(action) /\ armed' \in {armed, FALSE}
        \/ ~Urgent(action) /\ UNCHANGED <<armed, highest>>
    BY <1>2 DEF CheckFailsafes
  <2>3. level # 0
    BY <1>0, <1>2 DEF BattMonitorTypeOK, Levels
  <2>4. BattMonitorTypeOK'
    BY <1>0, <2>1, <2>2 DEF BattMonitorTypeOK, Priorities
  <2>5. highest' <= highest /\ highest' <= Priority(action)
    <3> DEFINE p == Priority(action)
    <3>1. highest \in Nat /\ p \in Nat
      BY <1>0 DEF BattMonitorTypeOK, Priorities, NoPriority
    <3>2. \/ p <= highest /\ highest' = p
          \/ ~(p <= highest) /\ highest' = highest
      BY <2>2 DEF Urgent
    <3> HIDE DEF p
    <3>3. highest' <= highest /\ highest' <= p
      BY <3>1, <3>2
    <3>4. QED BY <3>3 DEF p
  <2>6. NoBatteryIgnored'
    <3> SUFFICES ASSUME NEW b \in Batteries, failsafe'[b] # 0
                 PROVE  highest' <= Priority(ActionAt(b, failsafe'[b]))
      BY DEF NoBatteryIgnored, ActionAt
    <3>1. CASE b = turn
      BY <1>0, <2>1, <2>5, <3>1 DEF BattMonitorTypeOK
    <3>2. CASE b # turn
      <4>1. failsafe'[b] = failsafe[b]
        BY <2>1, <3>2 DEF BattMonitorTypeOK
      <4>2. highest <= Priority(ActionAt(b, failsafe[b]))
        BY <4>1 DEF NoBatteryIgnored
      <4>3. QED
        BY <2>4, <2>5, <4>1, <4>2, PriorityType
           DEF BattMonitorTypeOK, Priorities, NoPriority
    <3>3. QED BY <3>1, <3>2
  <2>7. TriggeredIffFailsafe'
    BY <1>0, <2>1, <2>3 DEF TriggeredIffFailsafe, BattMonitorTypeOK
  <2>8. QED BY <2>4, <2>6, <2>7
<1>3. QED BY <1>1, <1>2

\* A reset that leaves its batteries well: the action in force is kept for the others.
LEMMA ResetRemainingIInv ==
    ASSUME ResetLevels \subseteq {0}, BattMonitorIInv,
           NEW reset \in SUBSET Batteries, NEW levels \in [Batteries -> ResetLevels],
           ResetRemaining(reset, levels)
    PROVE  BattMonitorIInv'
<1> USE DEF BattMonitorIInv
<1>1. failsafe' = [b \in Batteries |-> IF b \in reset THEN levels[b] ELSE failsafe[b]]
  BY DEF ResetRemaining
<1>2. \A b \in Batteries : failsafe'[b] = 0 \/ failsafe'[b] = failsafe[b]
  BY <1>1
<1>3. failsafe' \in [Batteries -> Levels]
  BY <1>1 DEF BattMonitorTypeOK, Levels
<1>4. CASE NoneLeft(reset, failsafe')
  <2>1. highest' = NoPriority /\ triggered' = FALSE
    BY <1>4 DEF ResetRemaining
  <2>2. BattMonitorTypeOK'
    BY <1>3, <2>1 DEF ResetRemaining, BattMonitorTypeOK, Priorities
  <2>3. NoBatteryIgnored' /\ TriggeredIffFailsafe'
    BY <1>4, <2>1 DEF NoneLeft, NoBatteryIgnored, TriggeredIffFailsafe
  <2>4. QED BY <2>2, <2>3
<1>5. CASE ~NoneLeft(reset, failsafe')
  <2>1. UNCHANGED <<highest, triggered>>
    BY <1>5 DEF ResetRemaining
  <2>2. BattMonitorTypeOK'
    BY <1>3, <2>1 DEF ResetRemaining, BattMonitorTypeOK
  <2>3. NoBatteryIgnored'
    BY <1>2, <2>1 DEF NoBatteryIgnored, ActionAt
  <2>4. TriggeredIffFailsafe'
    BY <1>2, <1>5, <2>1 DEF NoneLeft, TriggeredIffFailsafe
  <2>5. QED BY <2>2, <2>3, <2>4
<1>6. QED BY <1>4, <1>5

\* Every step of the battery monitor keeps the invariant.
LEMMA BattMonitorStep ==
    ASSUME ResetLevels \subseteq {0}
    PROVE  BattMonitorIInv /\ [BattMonitorNext]_battMonitorVars => BattMonitorIInv'
<1> SUFFICES ASSUME BattMonitorIInv, [BattMonitorNext]_battMonitorVars
             PROVE  BattMonitorIInv'
  OBVIOUS
<1>1. CASE \E level \in Levels : CheckFailsafes(level)
  BY <1>1, CheckFailsafesIInv
<1>2. CASE \E reset \in SUBSET Batteries, levels \in [Batteries -> ResetLevels] :
              ResetRemaining(reset, levels)
  BY <1>2, ResetRemainingIInv
<1>3. CASE ArmOrDisarm
  BY <1>3 DEF ArmOrDisarm, BattMonitorIInv, BattMonitorTypeOK, NoBatteryIgnored,
              ActionAt, TriggeredIffFailsafe
<1>4. CASE UNCHANGED battMonitorVars
  BY <1>4 DEF battMonitorVars, BattMonitorIInv, BattMonitorTypeOK, NoBatteryIgnored,
              ActionAt, TriggeredIffFailsafe
<1>5. QED BY <1>1, <1>2, <1>3, <1>4 DEF BattMonitorNext

\* So it always holds.
THEOREM BattMonitorInductive ==
    ASSUME ResetLevels \subseteq {0}
    PROVE  BattMonitorSpec => []BattMonitorIInv
BY BattMonitorInitIInv, BattMonitorStep, PTL DEF BattMonitorSpec

\* However many batteries fail in whatever order, the action in force is at
\* least as urgent as each of them asks for.
THEOREM NoBatteryIsIgnored ==
    ASSUME ResetLevels \subseteq {0}
    PROVE  BattMonitorSpec => []NoBatteryIgnored
<1>1. BattMonitorIInv => NoBatteryIgnored
  BY DEF BattMonitorIInv
<1>2. QED BY <1>1, BattMonitorInductive, PTL

\* What the vehicle is told of its batteries is true.
THEOREM FailsafeIsTriggered ==
    ASSUME ResetLevels \subseteq {0}
    PROVE  BattMonitorSpec => []TriggeredIffFailsafe
<1>1. BattMonitorIInv => TriggeredIffFailsafe
  BY DEF BattMonitorIInv
<1>2. QED BY <1>1, BattMonitorInductive, PTL

-----------------------------------------------------------------------------
(* The watch over the main loop *)

\* Until a tick is noticed, the time stamp is no older than the silence, and a
\* failsafe that has tripped is one of a silent loop.
SilenceKnown ==
    ~ticked => age <= silent /\ (inFailsafe => silent > TripAfter)

CpuIInv == CpuTypeOK /\ SilenceKnown

\* Time starts within the clock.
LEMMA ZeroIsTime == 0 \in Clock
BY CpuFailsafeAssumption DEF Clock

\* Initially the stamp is as old as the silence.
LEMMA CpuInitIInv == CpuInit => CpuIInv
<1> SUFFICES ASSUME CpuInit PROVE CpuIInv
  OBVIOUS
<1>1. CpuTypeOK
  BY ZeroIsTime DEF CpuInit, CpuTypeOK, Places
<1>2. SilenceKnown
  BY DEF CpuInit, SilenceKnown
<1>3. QED BY <1>1, <1>2 DEF CpuIInv

\* The main loop, wherever it is in arming and disarming
LEMMA MainLoopIInv ==
    ASSUME CpuIInv, MainLoop
    PROVE  CpuIInv'
<1> USE CpuFailsafeAssumption DEF CpuIInv, CpuTypeOK, SilenceKnown, Places, InArm, Clock, Goto
<1>1. CASE Tick
  BY <1>1 DEF Tick
<1>2. CASE ArmPasses
  BY <1>2 DEF ArmPasses
<1>3. CASE FailsafeDisable
  BY <1>3 DEF FailsafeDisable
<1>4. CASE ArmMotors
  BY <1>4 DEF ArmMotors
<1>5. CASE FailsafeEnable
  BY <1>5 DEF FailsafeEnable
<1>6. CASE FailsafeStamp
  BY <1>6 DEF FailsafeStamp
<1>7. CASE DisarmFlag
  BY <1>7 DEF DisarmFlag
<1>8. CASE DisarmMotors
  BY <1>8 DEF DisarmMotors
<1>9. QED BY <1>1, <1>2, <1>3, <1>4, <1>5, <1>6, <1>7, <1>8 DEF MainLoop

\* The timer: it sees a tick, or trips on a loop that has been silent.
LEMMA FailsafeCheckIInv ==
    ASSUME CpuIInv, FailsafeCheck
    PROVE  CpuIInv'
<1> USE CpuFailsafeAssumption DEF CpuIInv, CpuTypeOK, SilenceKnown, Clock
<1>1. CASE LoopRuns
  <2>1. /\ age' = 0 /\ inFailsafe' = FALSE /\ ticked' = FALSE /\ checked' = TRUE
        /\ UNCHANGED <<enabled, motorsArmed, pc, arming, silent>>
    BY <1>1 DEF FailsafeCheck, LoopRuns
  <2>2. age' \in Clock
    BY <2>1, ZeroIsTime
  <2>3. CpuTypeOK'
    BY <2>1, <2>2
  <2>4. SilenceKnown'
    BY <2>1
  <2>5. QED BY <2>3, <2>4
<1>2. CASE LoopSilent
  <2> DEFINE trips == ~inFailsafe /\ enabled /\ age > TripAfter
             stops == enabled /\ (inFailsafe \/ trips) /\ age > RepeatAfter
  <2>1. /\ ~ticked /\ inFailsafe' = (inFailsafe \/ trips)
        /\ age' = IF stops THEN 0 ELSE age
        /\ motorsArmed' = (motorsArmed /\ ~stops)
        /\ UNCHANGED <<enabled, pc, arming, silent>>
        /\ ticked' = FALSE /\ checked' = TRUE
    BY <1>2 DEF FailsafeCheck, LoopSilent
  <2>2. inFailsafe' \in BOOLEAN /\ motorsArmed' \in BOOLEAN
    BY <2>1
  <2>3. age' \in Clock /\ age' <= silent'
    BY <2>1
  <2>4. inFailsafe' => silent' > TripAfter
    BY <2>1
  <2>5. QED BY <2>1, <2>2, <2>3, <2>4
<1>3. QED BY <1>1, <1>2 DEF FailsafeCheck

\* Stamp and silence grow old together.
LEMMA TimePassesIInv ==
    ASSUME CpuIInv, TimePasses
    PROVE  CpuIInv'
<1> USE CpuFailsafeAssumption DEF CpuIInv, CpuTypeOK, SilenceKnown, Clock
<1>1. /\ checked' = FALSE /\ age' = Elapsed(age) /\ silent' = Elapsed(silent)
      /\ UNCHANGED <<pc, ticked, enabled, inFailsafe, motorsArmed, arming>>
  BY DEF TimePasses
<1>2. age' \in Clock /\ silent' \in Clock /\ silent <= silent'
  BY <1>1 DEF Elapsed
<1>3. age <= silent => age' <= silent'
  BY <1>1 DEF Elapsed
<1>4. CpuTypeOK'
  BY <1>1, <1>2
<1>5. SilenceKnown'
  BY <1>1, <1>2, <1>3
<1>6. QED BY <1>4, <1>5

\* Every step of the two threads keeps the invariant.
LEMMA CpuStepIInv == CpuIInv /\ [CpuNext]_cpuVars => CpuIInv'
<1> SUFFICES ASSUME CpuIInv, [CpuNext]_cpuVars PROVE CpuIInv'
  OBVIOUS
<1>1. CASE UNCHANGED cpuVars
  BY <1>1 DEF cpuVars, CpuIInv, CpuTypeOK, SilenceKnown
<1>2. QED BY <1>1, MainLoopIInv, FailsafeCheckIInv, TimePassesIInv DEF CpuNext

\* So it always holds.
THEOREM CpuInductive == CpuSpec => []CpuIInv
BY CpuInitIInv, CpuStepIInv, PTL DEF CpuSpec

-----------------------------------------------------------------------------
\* What stops motors is a disarm, or a timer that has met a silent loop.
LEMMA StopsOnlySilent ==
    ASSUME CpuIInv, CpuNext, motorsArmed, ~motorsArmed'
    PROVE  silent > TripAfter \/ pc = "disarming"
<1>1. MainLoop => pc = "disarming"
  BY DEF MainLoop, Tick, ArmPasses, FailsafeDisable, ArmMotors, FailsafeEnable,
         FailsafeStamp, DisarmFlag, DisarmMotors, Goto
<1>2. ASSUME LoopSilent PROVE silent > TripAfter
  <2>1. ~ticked /\ (inFailsafe \/ age > TripAfter)
    BY <1>2 DEF LoopSilent
  <2>2. age <= silent /\ (inFailsafe => silent > TripAfter)
    BY <2>1 DEF CpuIInv, SilenceKnown
  <2>3. age \in Nat /\ silent \in Nat /\ TripAfter \in Nat
    BY CpuFailsafeAssumption DEF CpuIInv, CpuTypeOK, Clock
  <2>4. QED BY <2>1, <2>2, <2>3
<1>3. FailsafeCheck => LoopSilent
  BY DEF FailsafeCheck, LoopRuns
<1>4. ~TimePasses
  BY DEF TimePasses
<1>5. QED BY <1>1, <1>2, <1>3, <1>4 DEF CpuNext

\* For any thresholds and however the timer falls between the steps of the
\* main loop, motors are stopped under a loop that has been silent only.
THEOREM OnlyASilentLoopTrips == CpuSpec => OnlySilentLoopTrips
<1>1. CpuIInv /\ [CpuNext]_cpuVars =>
        [motorsArmed /\ ~motorsArmed' => silent > TripAfter \/ pc = "disarming"]_cpuVars
  BY StopsOnlySilent
<1>2. QED BY <1>1, CpuInductive, PTL DEF CpuSpec, OnlySilentLoopTrips

-----------------------------------------------------------------------------
(* The radio link, for any FS_COUNTER and any timeout *)

\* A failsafe low throttle began still counts what it has not heard of good
\* frames; nothing but a good frame counts it down.
CountHeld ==
    /\ radioFailsafe /\ byLow => counter + goods >= FsCounter
    /\ byLow => radioFailsafe

RadioIInv == RadioTypeOK /\ CountHeld

\* A counter that is capped stays in its range.
LEMMA UpToType ==
    ASSUME NEW bound \in Nat, NEW n \in 0..bound
    PROVE  UpTo(bound, n) \in 0..bound
BY DEF UpTo

\* Initially there is no failsafe.
LEMMA RadioInitIInv == RadioInit => RadioIInv
<1> SUFFICES ASSUME RadioInit PROVE RadioIInv
  OBVIOUS
<1>1. 0 \in Count /\ 0 \in 0..Timeout
  BY RadioLinkAssumption DEF Count
<1>2. RadioTypeOK
  BY <1>1 DEF RadioInit, RadioTypeOK
<1>3. CountHeld
  BY DEF RadioInit, CountHeld
<1>4. QED BY <1>2, <1>3 DEF RadioIInv

\* A frame with low throttle counts up, and may begin a failsafe.
LEMMA LowFrameIInv ==
    ASSUME RadioIInv, LowFrame
    PROVE  RadioIInv'
<1> USE RadioLinkAssumption DEF RadioIInv
<1>1. counter' \in Count /\ radioFailsafe' \in BOOLEAN
  <2>1. UpTo(FsCounter, counter) \in Count
    BY UpToType DEF RadioTypeOK, Count
  <2>2. CASE Ignored
    BY <2>2 DEF LowFrame, LowThrottle, RadioTypeOK
  <2>3. CASE ~Ignored
    BY <2>1, <2>3 DEF LowFrame, LowThrottle
  <2>4. QED BY <2>2, <2>3
<1>2. goods' \in Count /\ sinceFrame' \in 0..Timeout
  BY UpToType DEF LowFrame, RadioTypeOK, Count
<1>3. byLow' \in BOOLEAN /\ present' \in BOOLEAN /\ polled' \in BOOLEAN
  BY DEF LowFrame, RadioTypeOK
<1>4. heard' \in {"nothing", "low", "good"} /\ fsThr' \in BOOLEAN /\ vehicleArmed' \in BOOLEAN
  BY DEF LowFrame, RadioTypeOK
<1>5. RadioTypeOK'
  BY <1>1, <1>2, <1>3, <1>4 DEF RadioTypeOK
<1>6. CASE Ignored
  <2>1. UNCHANGED <<counter, radioFailsafe>>
    BY <1>6 DEF LowFrame, LowThrottle
  <2>2. UNCHANGED <<goods, byLow>>
    BY <2>1 DEF LowFrame, Began, RadioTypeOK
  <2>3. CountHeld'
    BY <2>1, <2>2 DEF CountHeld
  <2>4. QED BY <1>5, <2>3
<1>7. CASE ~Ignored
  <2>1. /\ counter' = UpTo(FsCounter, counter)
        /\ radioFailsafe' = (counter + 1 >= FsCounter)
        /\ ~radioFailsafe /\ ~byLow
    BY <1>7 DEF LowFrame, LowThrottle, Ignored, CountHeld
  <2>2. radioFailsafe' => counter' = FsCounter /\ goods' = 0
    BY <2>1 DEF LowFrame, Began, UpTo, RadioTypeOK, Count
  <2>3. byLow' => radioFailsafe'
    BY <2>1 DEF LowFrame, Began
  <2>4. CountHeld'
    BY <2>2, <2>3 DEF CountHeld
  <2>5. QED BY <1>5, <2>4
<1>8. QED BY <1>6, <1>7

\* What a good frame does to the count.
LEMMA GoodFrameCounts ==
    ASSUME RadioIInv, GoodFrame
    PROVE  /\ counter' \in Count /\ goods' \in Count /\ radioFailsafe' \in BOOLEAN
           /\ radioFailsafe' => radioFailsafe
           /\ radioFailsafe /\ byLow => counter' + goods' >= FsCounter
           /\ radioFailsafe /\ ~radioFailsafe' /\ byLow => goods' = FsCounter
<1> USE RadioLinkAssumption DEF RadioIInv
<1>1. counter \in Count /\ goods \in Count /\ radioFailsafe \in BOOLEAN
  BY DEF RadioTypeOK
<1>2. goods' = UpTo(FsCounter, goods)
  BY DEF GoodFrame
<1>3. CASE ~fsThr
  <2>1. UNCHANGED <<counter, radioFailsafe>>
    BY <1>3 DEF GoodFrame, GoodThrottle
  <2>2. QED BY <1>1, <1>2, <2>1 DEF UpTo, Count, CountHeld
<1>4. CASE fsThr
  <2>1. counter' = (IF counter > 0 THEN counter - 1 ELSE 0) /\ radioFailsafe' = (radioFailsafe /\ counter > 1)
    BY <1>4 DEF GoodFrame, GoodThrottle
  <2>2. counter' \in Count /\ goods' \in Count /\ radioFailsafe' \in BOOLEAN /\ (radioFailsafe' => radioFailsafe)
    BY <1>1, <1>2, <2>1 DEF UpTo, Count
  <2>3. radioFailsafe /\ byLow => counter' + goods' >= FsCounter
    BY <1>1, <1>2, <2>1 DEF UpTo, Count, CountHeld
  <2>4. ASSUME radioFailsafe, ~radioFailsafe', byLow PROVE goods' = FsCounter
    <3>1. ~(counter > 1)
      BY <2>1, <2>4
    <3>2. counter + goods >= FsCounter
      BY <2>4 DEF CountHeld
    <3>3. QED BY <1>1, <1>2, <3>1, <3>2 DEF UpTo, Count
  <2>5. QED BY <2>2, <2>3, <2>4
<1>5. QED BY <1>3, <1>4 DEF RadioTypeOK

\* A good frame counts down, and may end one.
LEMMA GoodFrameIInv ==
    ASSUME RadioIInv, GoodFrame
    PROVE  RadioIInv'
<1>1. byLow' = (byLow /\ radioFailsafe') /\ sinceFrame' = 0
      /\ present' = TRUE /\ polled' = TRUE /\ heard' = "good" /\ UNCHANGED <<fsThr, vehicleArmed>>
  BY DEF GoodFrame
<1>2. 0 \in Count /\ 0 \in 0..Timeout
  BY RadioLinkAssumption DEF Count
<1>3. RadioTypeOK'
  BY <1>1, <1>2, GoodFrameCounts DEF RadioIInv, RadioTypeOK
<1>4. CountHeld'
  BY <1>1, GoodFrameCounts DEF CountHeld
<1>5. QED BY <1>3, <1>4 DEF RadioIInv

\* A silence begins one without counting.
LEMMA NoFrameIInv ==
    ASSUME RadioIInv, NoFrame
    PROVE  RadioIInv'
<1> USE RadioLinkAssumption DEF RadioIInv
<1>1. /\ radioFailsafe' = (radioFailsafe \/ LateFrame)
      /\ polled' = TRUE /\ heard' = "nothing"
      /\ goods' = (IF Began THEN 0 ELSE goods)
      /\ UNCHANGED <<counter, present, fsThr, vehicleArmed, sinceFrame, byLow>>
  BY DEF NoFrame
<1>2. radioFailsafe' \in BOOLEAN /\ goods' \in Count
  BY <1>1 DEF RadioTypeOK, LateFrame, Count
<1>3. RadioTypeOK'
  BY <1>1, <1>2 DEF RadioTypeOK
<1>4. CountHeld'
  BY <1>1 DEF CountHeld, Began
<1>5. QED BY <1>3, <1>4

\* Nothing else counts.
LEMMA OthersIInv ==
    ASSUME RadioIInv, LinkTimePasses \/ ArmOrDisarmVehicle \/ SetParameter \/ UNCHANGED radioVars
    PROVE  RadioIInv'
<1> USE RadioLinkAssumption DEF RadioIInv, RadioTypeOK, CountHeld, linkHistory
<1>1. CASE LinkTimePasses
  <2>1. sinceFrame' \in 0..Timeout
    BY <1>1, UpToType DEF LinkTimePasses
  <2>2. QED BY <1>1, <2>1 DEF LinkTimePasses
<1>2. CASE ArmOrDisarmVehicle
  BY <1>2 DEF ArmOrDisarmVehicle
<1>3. CASE SetParameter
  BY <1>3 DEF SetParameter
<1>4. CASE UNCHANGED radioVars
  BY <1>4 DEF radioVars, linkVars
<1>5. QED BY <1>1, <1>2, <1>3, <1>4

\* So the invariant always holds.
THEOREM RadioInductive == RadioSpec => []RadioIInv
<1>1. RadioIInv /\ [RadioNext]_radioVars => RadioIInv'
  BY LowFrameIInv, GoodFrameIInv, NoFrameIInv, OthersIInv DEF RadioNext, ReadRadio
<1>2. QED BY RadioInitIInv, <1>1, PTL DEF RadioSpec

-----------------------------------------------------------------------------
\* Only a good frame ends a failsafe.
LEMMA OnlyGoodFramesEnd ==
    ASSUME RadioIInv, RadioNext, radioFailsafe, ~radioFailsafe', byLow
    PROVE  goods' = FsCounter
<1>1. ~LowFrame
  BY DEF LowFrame, LowThrottle, Ignored
<1>2. ~NoFrame
  BY DEF NoFrame
<1>3. ~LinkTimePasses /\ ~ArmOrDisarmVehicle /\ ~SetParameter
  BY DEF LinkTimePasses, ArmOrDisarmVehicle, SetParameter
<1>4. GoodFrame
  BY <1>1, <1>2, <1>3 DEF RadioNext, ReadRadio
<1>5. QED BY <1>4, GoodFrameCounts

\* For any FS_COUNTER: a failsafe that low throttle began is not ended by
\* fewer good frames than it took low ones, whatever comes between them.
THEOREM LowThrottleFailsafeEndsSlowly == RadioSpec => LowThrottleEndsSlowly
<1>1. RadioIInv /\ [RadioNext]_radioVars =>
        [radioFailsafe /\ ~radioFailsafe' /\ byLow => goods' = FsCounter]_radioVars
  BY OnlyGoodFramesEnd
<1>2. QED BY <1>1, RadioInductive, PTL DEF RadioSpec, LowThrottleEndsSlowly

-----------------------------------------------------------------------------
(* The path home: the loops that are found *)

Proper(loops) == \A k \in DOMAIN loops : loops[k].start < loops[k].end
Disjoint(loops) == \A k, l \in DOMAIN loops : k # l => ~Overlap(loops[k], loops[l])

\* A sequence of loops without the others in it: the elements of s come from
\* the first n of loops, and none of them overlaps with new.
FromFirst(s, n, loops, new) ==
    /\ s \in Seq(Loop) /\ Len(s) <= n
    /\ \A a \in DOMAIN s : ~Overlap(s[a], new) /\ \E i \in 1..n : s[a] = loops[i]
    /\ Disjoint(s)

\* Going on by one loop, which is kept or not, keeps what is known of those kept.
LEMMA KeptStep ==
    ASSUME NEW loops \in Seq(Loop), NEW new \in Loop, Disjoint(loops),
           NEW n \in 1..Len(loops), NEW s, FromFirst(s, n - 1, loops, new)
    PROVE  FromFirst(IF Overlap(loops[n], new) THEN s ELSE Append(s, loops[n]), n, loops, new)
<1> USE DEF FromFirst
<1>1. n - 1 \in Nat /\ n \in DOMAIN loops /\ loops[n] \in Loop /\ Len(s) \in Nat
  OBVIOUS
<1>2. CASE Overlap(loops[n], new)
  BY <1>1, <1>2
<1>3. CASE ~Overlap(loops[n], new)
  <2> DEFINE t == Append(s, loops[n])
  <2>1. /\ t \in Seq(Loop) /\ Len(t) = Len(s) + 1 /\ t[Len(s) + 1] = loops[n]
        /\ \A a \in DOMAIN s : t[a] = s[a]
        /\ DOMAIN s = 1..Len(s) /\ DOMAIN t = 1..(Len(s) + 1)
    BY <1>1
  <2> HIDE DEF t
  <2>2. \A a \in DOMAIN t : a \in DOMAIN s \/ a = Len(s) + 1
    BY <1>1, <2>1
  <2>3. ASSUME NEW a \in DOMAIN t
        PROVE  ~Overlap(t[a], new) /\ \E i \in 1..n : t[a] = loops[i]
    BY <1>1, <1>3, <2>1, <2>2
  <2>4. ASSUME NEW a \in DOMAIN s
        PROVE  ~Overlap(s[a], loops[n]) /\ ~Overlap(loops[n], s[a])
    <3>1. PICK i \in 1..(n - 1) : s[a] = loops[i]
      OBVIOUS
    <3>2. i # n /\ i \in DOMAIN loops
      BY <1>1
    <3> QED BY <1>1, <3>1, <3>2 DEF Disjoint
  <2>5. Disjoint(t)
    <3> SUFFICES ASSUME NEW a \in DOMAIN t, NEW b \in DOMAIN t, a # b
                 PROVE  ~Overlap(t[a], t[b])
      BY DEF Disjoint
    <3>1. CASE a \in DOMAIN s /\ b \in DOMAIN s
      BY <2>1, <3>1 DEF Disjoint
    <3>2. CASE a \in DOMAIN s /\ b = Len(s) + 1
      BY <2>1, <2>4, <3>2
    <3>3. CASE a = Len(s) + 1 /\ b \in DOMAIN s
      BY <2>1, <2>4, <3>3
    <3> QED BY <2>2, <3>1, <3>2, <3>3
  <2> QED BY <1>1, <1>3, <2>1, <2>3, <2>5 DEF t
<1> QED BY <1>2, <1>3

\* add_loop()'s removal of what overlaps leaves loops that were there, and
\* none that overlaps with the new one.
LEMMA ApartIs ==
    ASSUME NEW loops \in Seq(Loop), NEW new \in Loop, Disjoint(loops)
    PROVE  FromFirst(Apart(loops, new), Len(loops), loops, new)
<1> DEFINE upper == Len(loops)
           S == Seq(Loop)
           step == [n \in 1..upper |-> [s \in S |->
                       IF Overlap(loops[n], new) THEN s ELSE Append(s, loops[n])]]
           isKept(f) == f = [n \in 0..upper |->
                       IF n = 0 THEN <<>>
                       ELSE IF Overlap(loops[n], new) THEN f[n - 1]
                       ELSE Append(f[n - 1], loops[n])]
           u == CHOOSE f : isKept(f)
<1>1. upper \in Nat /\ <<>> \in S /\ \A n \in 1..upper : loops[n] \in Loop
  OBVIOUS
<1>2. step \in [1..upper -> [S -> S]]
  BY <1>1
<1>3. PICK g \in [0..upper -> S] :
          g[0] = <<>> /\ \A n \in 1..upper : g[n] = step[n][g[n - 1]]
  <2> HIDE DEF upper, S, step
  <2>1. \E g : Iterates(g, upper, S, <<>>, step)
    BY <1>1, <1>2, IterationExists
  <2> QED BY <2>1 DEF Iterates
<1>4. isKept(g)
  <2>1. \A n \in 1..upper : \A s \in S :
           step[n][s] = IF Overlap(loops[n], new) THEN s ELSE Append(s, loops[n])
    OBVIOUS
  <2> HIDE DEF step, S
  <2>2. ASSUME NEW n \in 1..upper
        PROVE  g[n] = IF Overlap(loops[n], new) THEN g[n - 1] ELSE Append(g[n - 1], loops[n])
    BY <1>1, <1>3, <2>1
  <2>3. \A n \in 0..upper : n = 0 \/ n \in 1..upper
    BY <1>1
  <2> HIDE DEF upper
  <2> QED BY <1>3, <2>2, <2>3
<1>5. isKept(u)
  <2> HIDE DEF isKept
  <2> QED BY <1>4
<1>6. u[0] = <<>> /\ \A n \in 1..upper : u[n] = IF Overlap(loops[n], new) THEN u[n - 1]
                                            ELSE Append(u[n - 1], loops[n])
  <2> HIDE DEF u
  <2> DEFINE v == [n \in 0..upper |-> IF n = 0 THEN <<>>
                       ELSE IF Overlap(loops[n], new) THEN u[n - 1]
                       ELSE Append(u[n - 1], loops[n])]
  <2>1. v[0] = <<>> /\ \A n \in 1..upper : v[n] = IF Overlap(loops[n], new) THEN u[n - 1]
                                              ELSE Append(u[n - 1], loops[n])
    BY <1>1
  <2>2. u = v
    BY <1>5
  <2> HIDE DEF v
  <2> QED BY <2>1, <2>2
<1>7. Apart(loops, new) = u[upper]
  BY DEF Apart
<1> HIDE DEF u
<1>8. 0..upper \subseteq {n \in 0..upper : FromFirst(u[n], n, loops, new)}
  <2> DEFINE K == {n \in 0..upper : FromFirst(u[n], n, loops, new)}
  <2>1. 0 \in K
    <3>1. FromFirst(<<>>, 0, loops, new)
      BY <1>1 DEF FromFirst, Disjoint
    <3> HIDE DEF upper
    <3>2. 0 \in 0..upper
      BY <1>1
    <3> QED BY <1>6, <3>1, <3>2
  <2>2. ASSUME NEW n \in 0..(upper - 1), n \in K PROVE n + 1 \in K
    <3>1. n + 1 \in 1..upper /\ (n + 1) - 1 = n /\ n + 1 \in 0..upper
      BY <1>1
    <3>2. FromFirst(u[n], (n + 1) - 1, loops, new)
      BY <2>2, <3>1
    <3>3. FromFirst(IF Overlap(loops[n + 1], new) THEN u[n] ELSE Append(u[n], loops[n + 1]),
                n + 1, loops, new)
      BY <3>1, <3>2, KeptStep
    <3> HIDE DEF upper
    <3>4. u[n + 1] = IF Overlap(loops[n + 1], new) THEN u[n] ELSE Append(u[n], loops[n + 1])
      BY <1>6, <3>1
    <3> QED BY <3>1, <3>3, <3>4
  <2> HIDE DEF K, upper
  <2>3. 0..upper \subseteq K
    BY <1>1, <2>1, <2>2, LoopInduction
  <2> QED BY <2>3 DEF K
<1>9. upper \in 0..upper
  BY <1>1
<1> QED BY <1>7, <1>8, <1>9

WellFormed(loops) == loops \in Seq(Loop) /\ Proper(loops) /\ Disjoint(loops)

\* The parts of a loop that has been found
LEMMA LoopParts ==
    ASSUME NEW loops, WellFormed(loops), NEW k \in DOMAIN loops
    PROVE  /\ loops[k] \in Loop /\ loops[k].start < loops[k].end
           /\ loops[k].start \in Nat \ {0} /\ loops[k].end \in Nat /\ loops[k].end <= PointsMax
<1>1. loops \in Seq(Loop) /\ DOMAIN loops = 1..Len(loops)
  BY DEF WellFormed
<1>2. loops[k] \in Loop
  BY <1>1
<1> QED BY <1>2 DEF WellFormed, Proper, Loop, Points

\* add_loop() keeps the loops apart from each other.
LEMMA AddLoopIs ==
    ASSUME NEW loops, WellFormed(loops), Len(loops) < LoopsMax,
           NEW new \in Loop, new.start < new.end, NEW added \in AddLoop(loops, new)
    PROVE  /\ WellFormed(added) /\ Len(added) <= LoopsMax
           /\ \A a \in DOMAIN added : added[a] = new \/ \E i \in DOMAIN loops : added[a] = loops[i]
<1> USE DEF WellFormed
<1>0. Len(loops) \in Nat /\ LoopsMax \in Nat /\ DOMAIN loops = 1..Len(loops)
  BY SmartRTLAssumption
<1>1. CASE added = loops
  BY <1>0, <1>1
<1>2. CASE added = Append(Apart(loops, new), new)
  <2> DEFINE s == Apart(loops, new)
  <2>1. FromFirst(s, Len(loops), loops, new)
    BY ApartIs
  <2> HIDE DEF s
  <2>2. /\ s \in Seq(Loop) /\ Len(s) <= Len(loops) /\ Disjoint(s) /\ Len(s) \in Nat
        /\ \A a \in DOMAIN s : ~Overlap(s[a], new) /\ \E i \in DOMAIN loops : s[a] = loops[i]
    BY <1>0, <2>1 DEF FromFirst
  <2>3. added = Append(s, new)
    BY <1>2 DEF s
  <2>4. /\ added \in Seq(Loop) /\ Len(added) = Len(s) + 1 /\ added[Len(s) + 1] = new
        /\ \A a \in DOMAIN s : added[a] = s[a]
        /\ DOMAIN s = 1..Len(s) /\ DOMAIN added = 1..(Len(s) + 1)
    BY <2>2, <2>3
  <2>5. \A a \in DOMAIN added : a \in DOMAIN s \/ a = Len(s) + 1
    BY <2>2, <2>4
  <2>6. \A a \in DOMAIN added : added[a] = new \/ \E i \in DOMAIN loops : added[a] = loops[i]
    BY <2>2, <2>4, <2>5
  <2>7. Proper(added)
    BY <2>6 DEF Proper
  <2>8. Disjoint(added)
    <3> SUFFICES ASSUME NEW a \in DOMAIN added, NEW b \in DOMAIN added, a # b
                 PROVE  ~Overlap(added[a], added[b])
      BY DEF Disjoint
    <3>1. CASE a \in DOMAIN s /\ b \in DOMAIN s
      BY <2>2, <2>4, <3>1 DEF Disjoint
    <3>2. CASE a \in DOMAIN s /\ b = Len(s) + 1
      BY <2>2, <2>4, <3>2
    <3>3. CASE a = Len(s) + 1 /\ b \in DOMAIN s
      BY <2>2, <2>4, <3>3 DEF Overlap
    <3> QED BY <2>5, <3>1, <3>2, <3>3
  <2> QED BY <1>0, <2>2, <2>4, <2>6, <2>7, <2>8
<1> QED BY <1>1, <1>2 DEF AddLoop

-----------------------------------------------------------------------------
(* The path home: the loops that are cut out *)

\* What is left of a loop when another, apart from it, is cut out.
LEMMA MovedIs ==
    ASSUME NEW l \in Loop, NEW gone \in Loop, l.start < l.end, gone.start < gone.end,
           ~Overlap(l, gone)
    PROVE  /\ Moved(l, gone) \in Loop
           /\ Moved(l, gone).start < Moved(l, gone).end
           /\ Moved(l, gone).end <= l.end
           /\ Moved(l, gone).stale = (l.stale \/ gone.stale)
           /\ \A n \in Points : gone.end + 2 <= n /\ l.end + 2 <= n
                                  => Moved(l, gone).end + 2 <= n - Length(gone)
<1>0. /\ l.start \in Nat \ {0} /\ l.end \in Nat /\ l.end <= PointsMax
      /\ gone.start \in Nat \ {0} /\ gone.end \in Nat /\ l.stale \in BOOLEAN /\ gone.stale \in BOOLEAN
      /\ PointsMax \in Nat /\ l.start <= PointsMax
  BY SmartRTLAssumption DEF Loop, Points
<1>1. l.end < gone.start \/ l.start > gone.end
  BY <1>0 DEF Overlap
<1> DEFINE m == Moved(l, gone)
<1>2. CASE l.end < gone.start
  <2>1. m = [start |-> l.start, end |-> l.end, stale |-> l.stale \/ gone.stale]
    BY <1>0, <1>2 DEF Moved
  <2> HIDE DEF m
  <2>2. \A n \in Points : gone.end + 2 <= n => m.end + 2 <= n - Length(gone)
    BY <1>0, <1>2, <2>1 DEF Length, Points
  <2> QED BY <1>0, <2>1, <2>2 DEF m, Loop
<1>3. CASE l.start > gone.end
  <2>1. m = [start |-> l.start - Length(gone), end |-> l.end - Length(gone),
             stale |-> l.stale \/ gone.stale]
    BY <1>0, <1>3 DEF Moved
  <2>2. /\ l.start - Length(gone) \in Points \ {0} /\ l.end - Length(gone) \in Points
        /\ l.start - Length(gone) < l.end - Length(gone) /\ l.end - Length(gone) <= l.end
    BY <1>0, <1>3 DEF Length, Points
  <2>3. \A n \in Points : l.end + 2 <= n => (l.end - Length(gone)) + 2 <= n - Length(gone)
    BY <1>0 DEF Length, Points
  <2> HIDE DEF m
  <2> QED BY <1>0, <2>1, <2>2, <2>3 DEF m, Loop
<1> QED BY <1>1, <1>2, <1>3

\* Loops apart from each other stay so, wherever one of them is cut out.
LEMMA MovedApart ==
    ASSUME NEW l \in Loop, NEW k \in Loop, NEW gone \in Loop,
           l.start < l.end, k.start < k.end, gone.start < gone.end,
           ~Overlap(l, gone), ~Overlap(k, gone), ~Overlap(k, l)
    PROVE  ~Overlap(Moved(k, gone), Moved(l, gone))
<1>0. /\ l.start \in Nat \ {0} /\ l.end \in Nat /\ k.start \in Nat \ {0} /\ k.end \in Nat
      /\ gone.start \in Nat \ {0} /\ gone.end \in Nat
  BY DEF Loop, Points
<1>1. /\ l.end < gone.start \/ l.start > gone.end
      /\ k.end < gone.start \/ k.start > gone.end
      /\ l.end < k.start \/ k.end < l.start
  BY <1>0 DEF Overlap
<1> DEFINE to(x) == IF x >= gone.end THEN x - (gone.end - gone.start) ELSE x
<1>2. to(l.end) < to(k.start) \/ to(k.end) < to(l.start)
  BY <1>0, <1>1
<1>3. /\ Moved(l, gone).start = to(l.start) /\ Moved(l, gone).end = to(l.end)
      /\ Moved(k, gone).start = to(k.start) /\ Moved(k, gone).end = to(k.end)
  BY DEF Moved, Length
<1>4. to(l.start) \in Int /\ to(l.end) \in Int /\ to(k.start) \in Int /\ to(k.end) \in Int
  BY <1>0
<1> HIDE DEF to
<1> QED BY <1>2, <1>3, <1>4 DEF Overlap

\* The loops that are left after a cut, their indices moved, are as they were found.
LEMMA ShiftIs ==
    ASSUME NEW loops, WellFormed(loops), NEW gone \in Loop, gone.start < gone.end,
           \A k \in DOMAIN loops : ~Overlap(loops[k], gone)
    PROVE  /\ WellFormed(Shift(loops, gone)) /\ Len(Shift(loops, gone)) = Len(loops)
           /\ \A k \in DOMAIN loops :
                 /\ Shift(loops, gone)[k].end <= loops[k].end
                 /\ Shift(loops, gone)[k].stale = (loops[k].stale \/ gone.stale)
                 /\ \A n \in Points : gone.end + 2 <= n /\ loops[k].end + 2 <= n
                        => Shift(loops, gone)[k].end + 2 <= n - Length(gone)
<1> DEFINE s == Shift(loops, gone)
<1>1. /\ Len(loops) \in Nat /\ DOMAIN loops = 1..Len(loops)
      /\ \A k \in DOMAIN loops : loops[k] \in Loop /\ loops[k].start < loops[k].end
  BY DEF WellFormed, Proper
<1>2. DOMAIN s = 1..Len(loops) /\ \A k \in DOMAIN loops : s[k] = Moved(loops[k], gone)
  BY <1>1 DEF Shift
<1>3. s = [k \in 1..Len(loops) |-> Moved(loops[k], gone)]
  BY <1>1 DEF Shift
<1> HIDE DEF s
<1>4. \A k \in DOMAIN loops :
           /\ s[k] \in Loop /\ s[k].start < s[k].end /\ s[k].end <= loops[k].end
           /\ s[k].stale = (loops[k].stale \/ gone.stale)
           /\ \A n \in Points : gone.end + 2 <= n /\ loops[k].end + 2 <= n
                  => s[k].end + 2 <= n - Length(gone)
  BY <1>1, <1>2, MovedIs
<1>5. s \in Seq(Loop) /\ Len(s) = Len(loops)
  BY <1>1, <1>2, <1>3, <1>4
<1>6. Proper(s)
  BY <1>1, <1>2, <1>4 DEF Proper
<1>7. Disjoint(s)
  <2> SUFFICES ASSUME NEW k \in DOMAIN loops, NEW l \in DOMAIN loops, k # l
               PROVE  ~Overlap(s[k], s[l])
    BY <1>1, <1>2 DEF Disjoint
  <2>1. ~Overlap(loops[k], loops[l])
    BY DEF WellFormed, Disjoint
  <2> QED BY <1>1, <1>2, <2>1, MovedApart
<1> QED BY <1>4, <1>5, <1>6, <1>7 DEF s, WellFormed

\* What cutting some of loops out of a path of n points leads to.
Cutting(loops, n) ==
    {r \in [loops : Seq(Loop), n : Points, removed : Points, error : BOOLEAN] :
        /\ WellFormed(r.loops) /\ Len(r.loops) <= Len(loops)
        /\ r.n + r.removed = n /\ (r.removed = 0 \/ r.n > 0)
        /\ \A a \in DOMAIN r.loops : ~r.loops[a].stale =>
              /\ r.loops[a].end + 2 <= r.n
              /\ \E i \in DOMAIN loops : ~loops[i].stale /\ r.loops[a].end <= loops[i].end
        /\ r.error \/ (\E a \in DOMAIN r.loops : r.loops[a].stale)
              => \E i \in DOMAIN loops : loops[i].stale}

\* The last loop, and the others.
LEMMA LastIs ==
    ASSUME NEW loops, WellFormed(loops), loops # <<>>
    PROVE  /\ Len(loops) \in DOMAIN loops /\ Last(loops) = loops[Len(loops)]
           /\ Last(loops) \in Loop /\ Last(loops).start < Last(loops).end
           /\ WellFormed(Front(loops)) /\ Len(Front(loops)) = Len(loops) - 1
           /\ \A k \in DOMAIN Front(loops) :
                 k \in DOMAIN loops /\ Front(loops)[k] = loops[k] /\ ~Overlap(loops[k], Last(loops))
<1> DEFINE f == Front(loops)
           upper == Len(loops)
<1>1. loops \in Seq(Loop) /\ upper \in Nat \ {0} /\ DOMAIN loops = 1..upper
  BY DEF WellFormed
<1>2. f \in Seq(Loop) /\ Len(f) = upper - 1 /\ \A k \in 1..(upper - 1) : f[k] = loops[k]
  BY <1>1 DEF Front
<1>3. upper \in DOMAIN loops /\ Last(loops) = loops[upper]
  BY <1>1 DEF Last
<1> HIDE DEF f, upper
<1>4. /\ DOMAIN f = 1..(upper - 1)
      /\ \A k \in DOMAIN f : k \in DOMAIN loops /\ k # upper /\ f[k] = loops[k]
  BY <1>1, <1>2
<1>5. Last(loops) \in Loop /\ Last(loops).start < Last(loops).end
  BY <1>1, <1>3 DEF WellFormed, Proper
<1>6. \A k \in DOMAIN f : ~Overlap(loops[k], Last(loops))
  BY <1>3, <1>4 DEF WellFormed, Disjoint
<1>7. Proper(f) /\ Disjoint(f)
  BY <1>4 DEF WellFormed, Proper, Disjoint
<1> QED BY <1>2, <1>3, <1>4, <1>5, <1>6, <1>7 DEF WellFormed, f, upper

\* One loop: an error is one of a path that has shrunk since it was found.
LEMMA CutStep ==
    ASSUME NEW loops, WellFormed(loops), NEW n \in Points,
           NEW number \in Nat, NEW r \in Cutting(loops, n)
    PROVE  /\ Cut(r, number) \in Cutting(loops, n)
           /\ \A m \in Nat : number = AllPoints /\ (r.error \/ Len(r.loops) <= m + 1)
                 => Cut(r, number).error \/ Len(Cut(r, number).loops) <= m
<1> DEFINE loop == Last(r.loops)
           c == Cut(r, number)
<1>1. /\ r \in [loops : Seq(Loop), n : Points, removed : Points, error : BOOLEAN]
      /\ WellFormed(r.loops) /\ Len(r.loops) <= Len(loops)
      /\ r.n + r.removed = n /\ (r.removed = 0 \/ r.n > 0)
      /\ \A a \in DOMAIN r.loops : ~r.loops[a].stale =>
            /\ r.loops[a].end + 2 <= r.n
            /\ \E i \in DOMAIN loops : ~loops[i].stale /\ r.loops[a].end <= loops[i].end
      /\ r.error \/ (\E a \in DOMAIN r.loops : r.loops[a].stale)
            => \E i \in DOMAIN loops : loops[i].stale
  BY DEF Cutting
<1>2. r.n \in Nat /\ r.n <= PointsMax /\ r.removed \in Nat /\ n \in Nat /\ n <= PointsMax
      /\ PointsMax \in Nat \ {0} /\ AllPoints \in Nat /\ AllPoints >= PointsMax
      /\ Len(r.loops) \in Nat /\ Len(loops) \in Nat
  BY <1>1, SmartRTLAssumption DEF Points, AllPoints, WellFormed
<1>3. CASE r.error \/ r.loops = <<>> \/ r.removed >= number
  <2>1. c = r
    BY <1>3 DEF Cut
  <2>2. number = AllPoints => ~(r.removed >= number)
    BY <1>1, <1>2
  <2>3. \A m \in Nat : number = AllPoints /\ (r.error \/ Len(r.loops) <= m + 1)
                 => r.error \/ Len(r.loops) <= m
    <3>1. r.loops = <<>> => Len(r.loops) = 0
      OBVIOUS
    <3> QED BY <1>3, <2>2, <3>1
  <2> HIDE DEF c
  <2> QED BY <2>1, <2>3 DEF c
<1>4. CASE ~(r.error \/ r.loops = <<>> \/ r.removed >= number)
  <2>1. /\ Len(r.loops) \in DOMAIN r.loops /\ loop = r.loops[Len(r.loops)]
        /\ loop \in Loop /\ loop.start < loop.end
        /\ WellFormed(Front(r.loops)) /\ Len(Front(r.loops)) = Len(r.loops) - 1
        /\ \A k \in DOMAIN Front(r.loops) :
              k \in DOMAIN r.loops /\ Front(r.loops)[k] = r.loops[k] /\ ~Overlap(r.loops[k], loop)
    BY <1>1, <1>4, LastIs
  <2>2. Length(loop) \in Nat \ {0} /\ loop.end \in Nat /\ Length(loop) < loop.end
    BY <2>1 DEF Length, Loop, Points
  <2> HIDE DEF loop
  <2>3. CASE r.n <= Length(loop)
    <3>1. c = [r EXCEPT !.error = TRUE]
      BY <1>4, <2>3 DEF Cut, loop
    <3>2. c \in [loops : Seq(Loop), n : Points, removed : Points, error : BOOLEAN]
          /\ c.loops = r.loops /\ c.n = r.n /\ c.removed = r.removed /\ c.error = TRUE
      BY <1>1, <3>1
    <3>3. loop.stale
      BY <1>1, <1>2, <2>1, <2>2, <2>3
    <3>4. \E i \in DOMAIN loops : loops[i].stale
      BY <1>1, <2>1, <3>3
    <3> HIDE DEF c
    <3>5. c \in Cutting(loops, n)
      BY <1>1, <3>2, <3>4 DEF Cutting
    <3> QED BY <3>2, <3>5 DEF c
  <2>4. CASE ~(r.n <= Length(loop))
    <3> DEFINE f == Front(r.loops)
               s == Shift(f, loop)
    <3>1. c = [loops |-> s, n |-> r.n - Length(loop),
               removed |-> r.removed + Length(loop), error |-> FALSE]
      BY <1>4, <2>4 DEF Cut, loop
    <3>2. \A k \in DOMAIN f : ~Overlap(f[k], loop)
      BY <2>1
    <3>3. WellFormed(f) /\ Len(f) = Len(r.loops) - 1
      BY <2>1
    <3> HIDE DEF f
    <3>4. /\ WellFormed(s) /\ Len(s) = Len(f)
          /\ \A k \in DOMAIN f :
                /\ s[k].end <= f[k].end
                /\ s[k].stale = (f[k].stale \/ loop.stale)
                /\ \A x \in Points : loop.end + 2 <= x /\ f[k].end + 2 <= x
                        => s[k].end + 2 <= x - Length(loop)
      BY <2>1, <3>2, <3>3, ShiftIs
    <3> HIDE DEF s
    <3>5. DOMAIN s = DOMAIN f /\ s \in Seq(Loop)
          /\ \A k \in DOMAIN f : s[k] \in Loop /\ f[k] \in Loop
      BY <3>3, <3>4 DEF WellFormed
    <3>6. /\ r.n - Length(loop) \in Points /\ r.removed + Length(loop) \in Points
          /\ (r.n - Length(loop)) + (r.removed + Length(loop)) = n /\ r.n - Length(loop) > 0
      BY <1>1, <1>2, <2>2, <2>4 DEF Points
    <3>7. \A k \in DOMAIN f : k \in DOMAIN r.loops /\ f[k] = r.loops[k]
      BY <2>1 DEF f
    <3>8. ASSUME NEW a \in DOMAIN s, ~s[a].stale
          PROVE  /\ s[a].end + 2 <= r.n - Length(loop)
                 /\ \E i \in DOMAIN loops : ~loops[i].stale /\ s[a].end <= loops[i].end
      <4>1. a \in DOMAIN f /\ ~f[a].stale /\ ~loop.stale
        BY <3>4, <3>5, <3>8
      <4>2. loop.end + 2 <= r.n /\ f[a].end + 2 <= r.n
        BY <1>1, <2>1, <3>7, <4>1
      <4>3. s[a].end + 2 <= r.n - Length(loop)
        BY <1>1, <3>4, <4>1, <4>2
      <4>4. PICK i \in DOMAIN loops : ~loops[i].stale /\ f[a].end <= loops[i].end
        BY <1>1, <3>7, <4>1
      <4>5. s[a].end \in Nat /\ f[a].end \in Nat /\ loops[i].end \in Nat
        <5>1. loops[i].end \in Nat
          BY LoopParts
        <5>2. s[a].end \in Nat /\ f[a].end \in Nat
          BY <3>5, <4>1 DEF Loop, Points
        <5> QED BY <5>1, <5>2
      <4>6. s[a].end <= loops[i].end
        BY <3>4, <4>1, <4>4, <4>5
      <4> QED BY <4>3, <4>4, <4>6
    <3>9. ASSUME NEW a \in DOMAIN s, s[a].stale
          PROVE  \E i \in DOMAIN loops : loops[i].stale
      <4>1. f[a].stale \/ loop.stale
        BY <3>4, <3>5, <3>9
      <4> QED BY <1>1, <2>1, <3>5, <3>7, <4>1
    <3>10. /\ c \in [loops : Seq(Loop), n : Points, removed : Points, error : BOOLEAN]
           /\ c.loops = s /\ c.n = r.n - Length(loop)
           /\ c.removed = r.removed + Length(loop) /\ c.error = FALSE
      BY <3>1, <3>5, <3>6
    <3> HIDE DEF c
    <3>11. Len(s) <= Len(loops) /\ Len(s) = Len(r.loops) - 1
      BY <1>1, <1>2, <3>3, <3>4
    <3>12. c \in Cutting(loops, n)
      BY <3>4, <3>6, <3>8, <3>9, <3>10, <3>11 DEF Cutting
    <3>13. \A m \in Nat : Len(r.loops) <= m + 1 => Len(s) <= m
      BY <1>2, <3>11
    <3> QED BY <1>4, <3>10, <3>12, <3>13 DEF c
  <2> QED BY <2>3, <2>4
<1> QED BY <1>3, <1>4

\* remove_points_by_loops(), whole: what is left is well formed and, but for
\* stale loops, within the path; asked for all points it leaves no loop.
LEMMA CutLoopsIs ==
    ASSUME NEW loops, WellFormed(loops), NEW n \in Points, NEW number \in Nat,
           \A a \in DOMAIN loops : ~loops[a].stale => loops[a].end + 2 <= n
    PROVE  /\ CutLoops(loops, n, number) \in Cutting(loops, n)
           /\ number = AllPoints =>
                 CutLoops(loops, n, number).error \/ CutLoops(loops, n, number).loops = <<>>
<1> DEFINE upper == Len(loops)
           S == Cutting(loops, n)
           base == [loops |-> loops, n |-> n, removed |-> 0, error |-> FALSE]
           step == [k \in 1..upper |-> [r \in S |-> Cut(r, number)]]
           cuts(f) == f = [k \in 0..upper |-> IF k = 0 THEN base ELSE Cut(f[k - 1], number)]
           u == CHOOSE f : cuts(f)
<1>1. upper \in Nat /\ loops \in Seq(Loop) /\ PointsMax \in Nat /\ n \in Nat
  BY SmartRTLAssumption DEF WellFormed, Points
<1>2. base \in S
  <2>1. \A a \in DOMAIN loops : loops[a].end \in Nat
    BY LoopParts
  <2>2. base \in [loops : Seq(Loop), n : Points, removed : Points, error : BOOLEAN]
    BY <1>1 DEF Points
  <2>3. \A a \in DOMAIN loops : ~loops[a].stale =>
            \E i \in DOMAIN loops : ~loops[i].stale /\ loops[a].end <= loops[i].end
    BY <2>1
  <2>4. base.loops = loops /\ base.n = n /\ base.removed = 0 /\ base.error = FALSE
    OBVIOUS
  <2> HIDE DEF base
  <2> QED BY <1>1, <2>2, <2>3, <2>4 DEF Cutting
<1>3. \A r \in S : Cut(r, number) \in S
  BY CutStep
<1>4. step \in [1..upper -> [S -> S]]
  BY <1>3
<1>5. PICK g \in [0..upper -> S] :
          g[0] = base /\ \A k \in 1..upper : g[k] = step[k][g[k - 1]]
  <2> HIDE DEF upper, S, step, base
  <2>1. \E g : Iterates(g, upper, S, base, step)
    BY <1>1, <1>2, <1>4, IterationExists
  <2> QED BY <2>1 DEF Iterates
<1>6. cuts(g)
  <2> HIDE DEF S, base
  <2>1. \A k \in 1..upper : \A r \in S : step[k][r] = Cut(r, number)
    OBVIOUS
  <2> HIDE DEF step
  <2> HIDE DEF upper
  <2>2. ASSUME NEW k \in 1..upper PROVE g[k] = Cut(g[k - 1], number)
    <3>1. k - 1 \in 0..upper
      BY <1>1
    <3>2. g[k - 1] \in S
      BY <1>5, <3>1
    <3> QED BY <1>5, <2>1, <3>2
  <2>3. \A k \in 0..upper : k = 0 \/ k \in 1..upper
    BY <1>1
  <2> QED BY <1>5, <2>2, <2>3
<1>7. cuts(u)
  <2> HIDE DEF cuts
  <2> QED BY <1>6
<1>8. u[0] = base /\ \A k \in 1..upper : u[k] = Cut(u[k - 1], number)
  <2> HIDE DEF u, base
  <2> DEFINE v == [k \in 0..upper |-> IF k = 0 THEN base ELSE Cut(u[k - 1], number)]
  <2>1. v[0] = base /\ \A k \in 1..upper : v[k] = Cut(u[k - 1], number)
    BY <1>1
  <2>2. u = v
    BY <1>7
  <2> HIDE DEF v
  <2> QED BY <2>1, <2>2
<1>9. CutLoops(loops, n, number) = u[upper]
  BY DEF CutLoops
<1> DEFINE K == {k \in 0..upper : /\ u[k] \in S
                                  /\ number = AllPoints => u[k].error \/ Len(u[k].loops) <= upper - k}
<1> HIDE DEF u
<1>10. 0 \in K
  <2>1. u[0] \in S /\ u[0].loops = loops
    BY <1>2, <1>8
  <2> HIDE DEF S
  <2> QED BY <1>1, <2>1
<1>11. ASSUME NEW k \in 0..(upper - 1), k \in K PROVE k + 1 \in K
  <2>1. k + 1 \in 1..upper /\ (k + 1) - 1 = k /\ k + 1 \in 0..upper /\ upper - (k + 1) \in Nat
        /\ (upper - (k + 1)) + 1 = upper - k
    <3> HIDE DEF upper
    <3> QED BY <1>1
  <2> DEFINE m == upper - (k + 1)
             r == u[k]
  <2>2. r \in S /\ (number = AllPoints => r.error \/ Len(r.loops) <= m + 1)
    BY <1>11, <2>1
  <2> HIDE DEF m, r
  <2>3. /\ Cut(r, number) \in Cutting(loops, n)
        /\ \A j \in Nat : number = AllPoints /\ (r.error \/ Len(r.loops) <= j + 1)
                 => Cut(r, number).error \/ Len(Cut(r, number).loops) <= j
    BY <2>2, CutStep
  <2>4. m \in Nat
    BY <2>1 DEF m
  <2>5. number = AllPoints => Cut(r, number).error \/ Len(Cut(r, number).loops) <= m
    BY <2>2, <2>3, <2>4
  <2>6. u[k + 1] = Cut(r, number)
    BY <1>8, <2>1 DEF r
  <2> QED BY <2>1, <2>3, <2>5, <2>6 DEF m
<1>12. 0..upper \subseteq K
  <2> HIDE DEF K, upper
  <2> QED BY <1>1, <1>10, <1>11, LoopInduction
<1>13. /\ u[upper] \in Cutting(loops, n)
       /\ number = AllPoints => u[upper].error \/ Len(u[upper].loops) <= 0
  <2>1. upper \in K /\ upper - upper = 0
    BY <1>1, <1>12
  <2> HIDE DEF upper
  <2> QED BY <2>1
<1> DEFINE w == u[upper]
<1>14. w \in Cutting(loops, n) /\ (number = AllPoints => w.error \/ Len(w.loops) <= 0)
  BY <1>13
<1> HIDE DEF w
<1>15. w.loops \in Seq(Loop)
  BY <1>14 DEF Cutting
<1>16. Len(w.loops) <= 0 => w.loops = <<>>
  BY <1>15
<1> QED BY <1>9, <1>14, <1>16 DEF w

-----------------------------------------------------------------------------
(* The path home: the two searches *)

SimpSet ==
    [complete : BOOLEAN, removal : BOOLEAN, flagged : SUBSET (1..PointsMax),
     count : Points, done : Points, shrunk : BOOLEAN]
PruneSet ==
    [complete : BOOLEAN, i : Points, count : Points, done : Points,
     loops : Seq(Loop), shrunk : BOOLEAN]

\* _simplify, of a path of n points: what is flagged is what the search had to
\* look at, and that is within the path unless the path has shrunk.
SimpGood(s, n) ==
    /\ s \in SimpSet
    /\ s.removal => s.complete /\ s.done = s.count /\ s.count >= 3
    /\ s.removal => s.flagged \subseteq 1..(s.count - 2)
    /\ ~s.removal => s.flagged = {}
    /\ (~s.complete \/ s.removal) /\ ~s.shrunk => s.count <= n

\* _simplify will remove no point below b.
SimpHolds(s, b) ==
    /\ b <= s.done
    /\ ~s.complete => b <= s.count
    /\ \A x \in s.flagged : b <= x

PruneGood(p) ==
    /\ p \in PruneSet
    /\ Len(p.loops) <= LoopsMax /\ WellFormed(p.loops)
    /\ ~p.complete => p.i + 1 <= p.count \/ p.count = 0

\* The search for loops, and the loops it has found, are within the lengths W,
\* unless the path has shrunk since.
PruneHolds(p, W) ==
    /\ ~p.complete /\ ~p.shrunk => p.count \in W
    /\ \A k \in DOMAIN p.loops : ~p.loops[k].stale => p.loops[k].end + 2 \in W

DownClosed(W) == W \subseteq Nat /\ \A a \in Nat, b \in W : a <= b => a \in W

\* What is within some lengths is within more of them.
LEMMA PruneHoldsMore ==
    ASSUME NEW p, NEW W, NEW V, W \subseteq V, PruneHolds(p, W)
    PROVE  PruneHolds(p, V)
BY DEF PruneHolds

\* detect_simplifications() flags nothing below what was done before.
LEMMA DetectIs ==
    ASSUME NEW n \in Points, NEW s, SimpGood(s, n), ~s.complete,
           NEW t \in DetectSimplifications(s)
    PROVE  /\ SimpGood(t, n) /\ t.complete
           /\ \A b \in Nat : SimpHolds(s, b) => SimpHolds(t, b)
<1>1. /\ s \in SimpSet /\ ~s.removal /\ s.flagged = {} /\ s.count \in Nat /\ s.done \in Nat
      /\ PointsMax \in Nat /\ s.count <= PointsMax /\ s.done <= PointsMax
  BY SmartRTLAssumption DEF SimpGood, SimpSet, Points
<1>2. CASE s.count < 3
  <2>1. t = [s EXCEPT !.complete = TRUE, !.shrunk = FALSE]
    BY <1>2 DEF DetectSimplifications
  <2>2. /\ t \in SimpSet /\ t.complete = TRUE /\ t.removal = s.removal
        /\ t.flagged = s.flagged /\ t.done = s.done /\ t.count = s.count
    BY <1>1, <2>1 DEF SimpSet
  <2> QED BY <1>1, <2>2 DEF SimpGood, SimpHolds
<1>3. CASE ~(s.count < 3)
  <2>1. PICK f \in SUBSET ((From(s) + 1)..(s.count - 2)) :
            t = [s EXCEPT !.flagged = @ \cup f, !.removal = @ \/ f # {}, !.done = s.count,
                    !.complete = TRUE, !.shrunk = @ /\ f # {}]
    BY <1>3 DEF DetectSimplifications
  <2>2. From(s) + 1 \in Nat /\ From(s) + 1 >= 1 /\ From(s) + 1 >= s.done
    BY <1>1 DEF From
  <2>3. f \subseteq 1..(s.count - 2) /\ f \subseteq 1..PointsMax /\ \A x \in f : s.done <= x
    BY <1>1, <2>2
  <2>4. (s.flagged \cup f) = f /\ (s.removal \/ f # {}) = (f # {})
    BY <1>1 DEF SimpSet
  <2>5. t = [complete |-> TRUE, removal |-> f # {}, flagged |-> f, count |-> s.count,
             done |-> s.count, shrunk |-> s.shrunk /\ f # {}]
    BY <1>1, <2>1, <2>4 DEF SimpSet
  <2>6. t \in SimpSet
    BY <1>1, <2>3, <2>5 DEF SimpSet
  <2>7. SimpGood(t, n)
    <3>1. /\ t.complete /\ t.flagged = f /\ t.count = s.count /\ t.done = s.count
          /\ (t.removal <=> f # {}) /\ (t.shrunk <=> s.shrunk /\ f # {})
      BY <2>5
    <3>2. ~s.shrunk => s.count <= n
      BY DEF SimpGood
    <3>3. s.count >= 3
      BY <1>1, <1>3
    <3> QED BY <2>3, <2>6, <3>1, <3>2, <3>3 DEF SimpGood
  <2>8. \A b \in Nat : SimpHolds(s, b) => SimpHolds(t, b)
    BY <1>1, <2>3, <2>5 DEF SimpHolds
  <2> QED BY <2>5, <2>7, <2>8
<1> QED BY <1>2, <1>3

\* A search that starts again has the whole path before it, unless that has shrunk.
LEMMA RestartIs ==
    ASSUME count \in Points, NEW s, SimpGood(s, count), NEW n \in Points
    PROVE  /\ SimpGood(RestartSimplification(s, n), count)
           /\ ~RestartSimplification(s, n).complete
           /\ \A b \in Nat : SimpHolds(s, b) /\ b <= n => SimpHolds(RestartSimplification(s, n), b)
<1> DEFINE t == RestartSimplification(s, n)
           e == count < n
<1>1. s \in SimpSet /\ count \in Nat /\ n \in Nat /\ e \in BOOLEAN /\ (~e => n <= count)
  BY DEF SimpGood, Points
<1>2. t = [s EXCEPT !.complete = FALSE, !.removal = FALSE, !.flagged = {}, !.count = n,
                    !.shrunk = e]
  BY DEF RestartSimplification
<1> HIDE DEF t, e
<1>3. /\ t \in SimpSet /\ t.complete = FALSE /\ t.removal = FALSE /\ t.flagged = {}
      /\ t.count = n /\ t.done = s.done /\ t.shrunk = e
  BY <1>1, <1>2 DEF SimpSet
<1>4. ~t.shrunk => n <= count
  BY <1>1, <1>3
<1>5. SimpGood(t, count)
  BY <1>3, <1>4 DEF SimpGood
<1>6. \A b \in Nat : SimpHolds(s, b) /\ b <= n => SimpHolds(t, b)
  BY <1>3 DEF SimpHolds
<1> QED BY <1>3, <1>5, <1>6 DEF t

\* The path has been found shorter than what was searched of it.
LEMMA ShrinkIs ==
    ASSUME NEW c \in Points, NEW s, SimpGood(s, c), s.complete, ~s.removal, NEW n \in Points
    PROVE  /\ SimpGood(Shrink(s, n), c) /\ Shrink(s, n).complete /\ ~Shrink(s, n).removal
           /\ Shrink(s, n).flagged = {} /\ Shrink(s, n).count = s.count
           /\ Shrink(s, n).done \in Points
           /\ \A b \in Nat : SimpHolds(s, b) /\ b <= n => SimpHolds(Shrink(s, n), b)
<1>1. /\ s \in SimpSet /\ s.flagged = {} /\ n \in Nat /\ s.done \in Nat
      /\ LeastOf(s.done, n) \in Points /\ LeastOf(s.done, n) \in {s.done, n}
  BY DEF SimpGood, SimpSet, Points, LeastOf
<1> DEFINE t == Shrink(s, n)
<1>2. t = [s EXCEPT !.done = LeastOf(s.done, n)]
  BY DEF Shrink
<1> HIDE DEF t
<1>3. /\ t \in SimpSet /\ t.complete = s.complete /\ t.removal = s.removal /\ t.flagged = s.flagged
      /\ t.count = s.count /\ t.done = LeastOf(s.done, n) /\ t.shrunk = s.shrunk
  BY <1>1, <1>2 DEF SimpSet
<1>4. SimpGood(t, c)
  BY <1>1, <1>3 DEF SimpGood
<1>5. \A b \in Nat : SimpHolds(s, b) /\ b <= n => SimpHolds(t, b)
  BY <1>1, <1>3 DEF SimpHolds
<1> QED BY <1>1, <1>3, <1>4, <1>5 DEF t

\* restart_pruning_if_new_points(): a search begun again is within what has
\* been simplified.
LEMMA PruningIs ==
    ASSUME count \in Points, limit \in Points, NEW p, PruneGood(p), NEW s, s.done \in Points,
           NEW W, PruneHolds(p, W), s.done <= count /\ s.done <= limit => s.done \in W
    PROVE  PruneGood(PruningOf(p, s)) /\ PruneHolds(PruningOf(p, s), W)
           /\ PruningOf(p, s).loops = p.loops
<1>1. CASE ~(p.complete /\ p.count # s.done)
  BY <1>1 DEF PruningOf
<1>2. CASE p.complete /\ p.count # s.done
  <2> DEFINE q == PruningOf(p, s)
             i == IF s.done > 0 THEN s.done - 1 ELSE 0
             e == count < s.done \/ limit < s.done
             d == s.done
  <2>1. /\ p \in PruneSet /\ d \in Nat /\ count \in Nat /\ limit \in Nat
        /\ d <= PointsMax /\ d \in Points
    BY DEF PruneGood, Points
  <2>2. q = [p EXCEPT !.complete = FALSE, !.i = i, !.count = d, !.shrunk = e]
    BY <1>2 DEF PruningOf, RestartPruning
  <2>3. d <= count /\ d <= limit => d \in W
    OBVIOUS
  <2>4. e \in BOOLEAN /\ (~e <=> d <= count /\ d <= limit)
    BY <2>1
  <2>5. i = IF d > 0 THEN d - 1 ELSE 0
    OBVIOUS
  <2> HIDE DEF d, e, i, q
  <2>6. i \in Points /\ (i + 1 <= d \/ d = 0)
    BY <2>1, <2>5, SmartRTLAssumption DEF Points
  <2>7. /\ q \in PruneSet /\ q.complete = FALSE /\ q.i = i /\ q.count = d
        /\ q.loops = p.loops /\ q.shrunk = e
    BY <2>1, <2>2, <2>4, <2>6 DEF PruneSet
  <2>8. PruneGood(q)
    BY <2>6, <2>7 DEF PruneGood
  <2>9. PruneHolds(q, W)
    BY <2>3, <2>4, <2>7 DEF PruneHolds
  <2> QED BY <2>7, <2>8, <2>9 DEF q
<1> QED BY <1>1, <1>2

\* detect_loops() finds loops within what it searches.
LEMMA DetectLoopsIs ==
    ASSUME NEW p, PruneGood(p), ~p.complete, NEW W, DownClosed(W), PruneHolds(p, W),
           NEW q \in DetectLoops(p)
    PROVE  PruneGood(q) /\ PruneHolds(q, W)
<1>1. /\ p \in PruneSet /\ p.i \in Nat /\ p.count \in Nat /\ p.i <= PointsMax
      /\ PointsMax \in Nat /\ 0 \in Points /\ p.done \in Points /\ p.count \in Points
      /\ (p.i + 1 <= p.count \/ p.count = 0)
      /\ Len(p.loops) <= LoopsMax /\ WellFormed(p.loops)
  BY SmartRTLAssumption DEF PruneGood, PruneSet, Points
<1>2. CASE p.count < 4
  <2>1. q = [p EXCEPT !.complete = TRUE, !.i = 0]
    BY <1>2 DEF DetectLoops
  <2>2. q \in PruneSet /\ q.complete = TRUE /\ q.loops = p.loops
    BY <1>1, <2>1 DEF PruneSet
  <2> QED BY <1>1, <2>2 DEF PruneGood, PruneHolds
<1>3. CASE ~(p.count < 4) /\ Len(p.loops) >= LoopsMax /\ q \in GivesUp(p)
  <2>1. PICK d \in {p.done, p.count} : q = [p EXCEPT !.complete = TRUE, !.i = 0, !.done = d]
    BY <1>3 DEF GivesUp
  <2>2. q \in PruneSet /\ q.complete = TRUE /\ q.loops = p.loops
    BY <1>1, <2>1 DEF PruneSet
  <2> QED BY <1>1, <2>2 DEF PruneGood, PruneHolds
<1>4. CASE /\ ~(p.count < 4)
           /\ ~(Len(p.loops) >= LoopsMax /\ q \in GivesUp(p))
  <2> DEFINE found == IF Len(p.loops) >= LoopsMax THEN {}
                      ELSE UNION {AddLoop(p.loops, LoopAt(p, j)) : j \in 1..(p.i - 2)}
             ends == p.i - 1 < 4 \/ p.i - 1 < p.done
  <2>1. PICK l \in {p.loops} \cup found :
            q = [p EXCEPT !.loops = l, !.i = IF ends THEN 0 ELSE @ - 1, !.complete = ends,
                    !.done = IF ends THEN p.count ELSE @]
    BY <1>4 DEF DetectLoops
  <2>2. /\ WellFormed(l) /\ Len(l) <= LoopsMax
        /\ \A k \in DOMAIN l : ~l[k].stale => l[k].end + 2 \in W
    <3>1. CASE l = p.loops
      BY <1>1, <3>1 DEF PruneHolds
    <3>2. CASE l \in found
      <4>1. Len(p.loops) < LoopsMax
        <5>1. ~(Len(p.loops) >= LoopsMax)
          BY <3>2
        <5>2. Len(p.loops) \in Nat /\ LoopsMax \in Nat
          BY <1>1, SmartRTLAssumption DEF WellFormed
        <5> QED BY <5>1, <5>2
      <4>2. PICK j \in 1..(p.i - 2) : l \in AddLoop(p.loops, LoopAt(p, j))
        BY <3>2
      <4> DEFINE new == LoopAt(p, j)
      <4>3. new = [start |-> j, end |-> p.i - 1, stale |-> p.shrunk]
        BY DEF LoopAt
      <4>4. /\ j \in Points \ {0} /\ p.i - 1 \in Points /\ p.shrunk \in BOOLEAN /\ j < p.i - 1
            /\ (p.i - 1) + 2 <= p.count /\ (p.i - 1) + 2 \in Nat
        BY <1>1, <1>4 DEF Points, PruneSet
      <4> HIDE DEF new
      <4>5. new \in Loop /\ new.start < new.end
        BY <4>3, <4>4 DEF Loop
      <4>6. /\ WellFormed(l) /\ Len(l) <= LoopsMax
            /\ \A a \in DOMAIN l : l[a] = new \/ \E i \in DOMAIN p.loops : l[a] = p.loops[i]
        BY <1>1, <4>1, <4>2, <4>5, AddLoopIs DEF new
      <4>7. ~p.shrunk => p.count \in W
        BY DEF PruneHolds
      <4>8. ~new.stale => new.end + 2 \in W
        BY <4>3, <4>4, <4>7 DEF DownClosed
      <4> QED BY <4>6, <4>8 DEF PruneHolds
    <3> QED BY <3>1, <3>2, <2>1
  <2>3. CASE ends
    <3>1. q = [complete |-> TRUE, i |-> 0, count |-> p.count, done |-> p.count,
               loops |-> l, shrunk |-> p.shrunk]
      BY <1>1, <2>1, <2>3 DEF PruneSet
    <3>2. q \in PruneSet
      BY <1>1, <2>2, <3>1 DEF PruneSet, WellFormed
    <3> QED BY <2>2, <3>1, <3>2 DEF PruneGood, PruneHolds
  <2>4. CASE ~ends
    <3>1. q = [complete |-> FALSE, i |-> p.i - 1, count |-> p.count, done |-> p.done,
               loops |-> l, shrunk |-> p.shrunk]
      BY <1>1, <2>1, <2>4 DEF PruneSet
    <3>2. p.i - 1 \in Points /\ (p.i - 1) + 1 <= p.count
      BY <1>1, <1>4, <2>4 DEF Points
    <3>3. q \in PruneSet
      BY <1>1, <2>2, <3>1, <3>2 DEF PruneSet, WellFormed
    <3>4. PruneGood(q)
      BY <2>2, <3>1, <3>2, <3>3 DEF PruneGood
    <3>5. PruneHolds(q, W)
      BY <2>2, <3>1 DEF PruneHolds
    <3> QED BY <3>4, <3>5
  <2> QED BY <2>3, <2>4
<1> QED BY <1>2, <1>3, <1>4

-----------------------------------------------------------------------------
(* The path home: the inductive invariant *)

IoSet ==
    [at : {"idle", "snapped", "simplify", "prune", "cleaned"}, count : Points,
     limit : Points, number : {0, CleanupMin, AllPoints}, raced : BOOLEAN,
     renewed : BOOLEAN]

\* What the IO thread is to remove is still there, but for set_home().
IoGood ==
    /\ io \in IoSet
    /\ io.at = "simplify" => simp.removal \/ io.raced
    /\ io.raced => io.at = "simplify" /\ simp.count = 0 /\ simp.flagged = {}
    /\ io.at = "prune" => ~simp.removal /\ (prune.complete \/ prune.count = 0)

\* The lengths below which no cleanup so far, and none under way, takes points
\* away.
Kept(s) == {b \in Nat : b <= count /\ b <= limit /\ SimpHolds(s, b)}
Safe == {b \in Kept(simp) : io.at = "snapped" => b <= io.count /\ b <= io.limit}

MainType ==
    /\ smart \in {"OFF", "WAIT", "FOLLOW", "PRELAND"}
    /\ active \in BOOLEAN /\ count \in Points /\ limit \in Points
    /\ request \in BOOLEAN /\ complete \in BOOLEAN

PathIInv ==
    /\ MainType /\ IoGood
    /\ SimpGood(simp, count)
    /\ PruneGood(prune) /\ PruneHolds(prune, Safe)

\* The record of what a completion was of, which no step of the path reads
MisreadIsKept == misread \in BOOLEAN

\* The invariant gives the types,
LEMMA PathInvTypes == PathIInv /\ MisreadIsKept => RtlTypeOK
<1> USE DEF MisreadIsKept
<1> SUFFICES ASSUME PathIInv, misread \in BOOLEAN PROVE RtlTypeOK
  OBVIOUS
<1>1. MainType /\ io \in IoSet /\ simp \in SimpSet /\ prune \in PruneSet
      /\ Len(prune.loops) <= LoopsMax /\ Proper(prune.loops)
  BY DEF PathIInv, IoGood, SimpGood, PruneGood, WellFormed
<1> QED BY <1>1 DEF RtlTypeOK, MainType, IoSet, SimpSet, PruneSet, Proper

\* and the ranges that the arithmetic of the steps needs.
LEMMA PathNumbers ==
    ASSUME PathIInv
    PROVE  /\ count \in Nat /\ limit \in Nat /\ count <= PointsMax /\ limit <= PointsMax
           /\ PointsMax \in Nat \ {0} /\ NoLimit \in Points /\ NoLimit = PointsMax
           /\ 0 \in Points
           /\ simp.count \in Nat /\ simp.done \in Points /\ simp.done \in Nat
           /\ io.count \in Points /\ io.limit \in Points /\ io.number \in Nat
           /\ AllPoints \in Nat /\ CleanupMin \in Nat
BY SmartRTLAssumption
   DEF PathIInv, MainType, IoGood, IoSet, SimpGood, SimpSet, Points, NoLimit, AllPoints

\* Initially there is no path.
LEMMA PathInit == RtlInit => PathIInv
<1> SUFFICES ASSUME RtlInit PROVE PathIInv
  OBVIOUS
<1>1. 0 \in Points /\ 1..PointsMax \subseteq Nat /\ LoopsMax \in Nat
  BY SmartRTLAssumption DEF Points
<1>2. MainType
  <2>1. /\ smart = "OFF" /\ active \in BOOLEAN /\ count \in Points /\ limit \in Points
        /\ request = FALSE /\ complete = FALSE
    BY <1>1 DEF RtlInit
  <2> QED BY <2>1 DEF MainType
<1>3. simp \in SimpSet
  BY <1>1 DEF RtlInit, ResetSimplification, SimpSet
<1>4. SimpGood(simp, count)
  BY <1>1, <1>3 DEF RtlInit, ResetSimplification, SimpGood
<1>5. prune = ResetPruning /\ prune.loops = <<>> /\ prune.count = 0 /\ <<>> \in Seq(Loop)
      /\ DOMAIN prune.loops = {}
  BY DEF RtlInit, ResetPruning
<1>6. prune \in PruneSet
  BY <1>1, <1>5 DEF ResetPruning, PruneSet
<1>7. Len(prune.loops) = 0
  BY <1>5
<1>8. PruneGood(prune)
  BY <1>1, <1>5, <1>6, <1>7 DEF PruneGood, WellFormed, Proper, Disjoint
<1>9. 0 \in Safe
  BY <1>1 DEF RtlInit, ResetSimplification, Safe, Kept, SimpHolds, Idle
<1>10. PruneHolds(prune, Safe)
  BY <1>5, <1>9 DEF PruneHolds
<1>11. IoGood
  BY <1>1 DEF RtlInit, IoGood, IoSet, Idle
<1> QED BY <1>2, <1>4, <1>8, <1>10, <1>11 DEF PathIInv

\* What keeps a length keeps a smaller one.
LEMMA SafeDown ==
    ASSUME PathIInv
    PROVE  /\ DownClosed(Safe) /\ Safe \subseteq Kept(simp)
           /\ \A s \in SimpSet : DownClosed(Kept(s))
<1>1. /\ count \in Nat /\ limit \in Nat /\ simp \in SimpSet /\ io.count \in Nat /\ io.limit \in Nat
  BY DEF PathIInv, SimpGood, MainType, Points, IoGood, IoSet
<1>2. ASSUME NEW s \in SimpSet, NEW a \in Nat, NEW b \in Kept(s), a <= b PROVE a \in Kept(s)
  <2>1. b \in Nat /\ b <= count /\ b <= limit /\ SimpHolds(s, b)
    BY DEF Kept
  <2>2. s.done \in Nat /\ s.count \in Nat /\ \A x \in s.flagged : x \in Nat
    BY DEF SimpSet, Points
  <2>3. SimpHolds(s, a)
    BY <1>2, <2>1, <2>2 DEF SimpHolds
  <2> QED BY <1>1, <1>2, <2>1, <2>3 DEF Kept
<1>3. \A s \in SimpSet : DownClosed(Kept(s))
  BY <1>2 DEF DownClosed, Kept
<1>4. ASSUME NEW a \in Nat, NEW b \in Safe, a <= b PROVE a \in Safe
  BY <1>1, <1>2, <1>4 DEF Safe, Kept
<1>5. DownClosed(Safe)
  BY <1>4 DEF DownClosed, Safe, Kept
<1> QED BY <1>3, <1>5 DEF Safe

-----------------------------------------------------------------------------
(* The path home: the steps of the main thread *)

\* A step of the main thread leaves the IO thread where it is.
LEMMA MeanwhileIs ==
    ASSUME io \in IoSet, NEW raced \in BOOLEAN, Meanwhile(raced)
    PROVE  /\ io' \in IoSet /\ io'.at = io.at /\ io'.count = io.count /\ io'.limit = io.limit
           /\ io'.number = io.number
           /\ io'.raced = (io.raced \/ (raced /\ io.at = "simplify"))
           /\ io'.renewed = (io.renewed \/ (io.at # "idle" /\ ~request /\ request'))
<1>1. io.renewed \in BOOLEAN /\ io.raced \in BOOLEAN
  BY DEF IoSet
<1>2. CASE io.at = "idle"
  BY <1>1, <1>2 DEF Meanwhile
<1>3. CASE io.at # "idle"
  <2> DEFINE r == io.raced \/ (raced /\ io.at = "simplify")
             n == io.renewed \/ (~request /\ request')
  <2>1. io' = [io EXCEPT !.raced = r, !.renewed = n]
    BY <1>3 DEF Meanwhile
  <2>2. r \in BOOLEAN /\ n \in BOOLEAN
    BY <1>1
  <2> HIDE DEF r, n
  <2>3. /\ io' \in IoSet /\ io'.at = io.at /\ io'.count = io.count /\ io'.limit = io.limit
        /\ io'.number = io.number /\ io'.raced = r /\ io'.renewed = n
    BY <2>1, <2>2 DEF IoSet
  <2> QED BY <1>3, <2>3 DEF r, n
<1> QED BY <1>2, <1>3

\* Steps that at most add points to the path.
LEMMA QuietIInv ==
    ASSUME PathIInv, Meanwhile(FALSE), MainType', count' >= count,
           UNCHANGED <<limit, simp, prune>>
    PROVE  PathIInv'
<1>1. io \in IoSet
  BY DEF PathIInv, IoGood
<1>2. /\ io' \in IoSet /\ io'.at = io.at /\ io'.count = io.count /\ io'.limit = io.limit
      /\ io'.raced = io.raced
  <2>1. io.raced \in BOOLEAN
    BY <1>1 DEF IoSet
  <2> QED BY <1>1, <2>1, MeanwhileIs
<1>3. IoGood'
  BY <1>2 DEF PathIInv, IoGood
<1>4. count \in Nat /\ count' \in Nat /\ simp.count \in Nat
  BY DEF MainType, Points, PathIInv, SimpGood, SimpSet
<1>5. SimpGood(simp', count')
  BY <1>4 DEF PathIInv, SimpGood
<1>6. Safe \subseteq Safe'
  BY <1>2, <1>4 DEF Safe, Kept
<1>7. PruneHolds(prune', Safe') /\ PruneGood(prune')
  <2>1. PruneHolds(prune, Safe) /\ PruneGood(prune)
    BY DEF PathIInv
  <2> DEFINE W == Safe
             V == Safe'
  <2> HIDE DEF W, V
  <2>2. PruneHolds(prune, V)
    BY <1>6, <2>1, PruneHoldsMore DEF W, V
  <2> QED BY <2>1, <2>2 DEF V
<1> QED BY <1>3, <1>5, <1>7 DEF PathIInv

\* SMART_RTL takes a point off: searches and loops that reach so far are shrunk or stale.
LEMMA PopPointIInv ==
    ASSUME PathIInv, PopPoint, Meanwhile(FALSE)
    PROVE  PathIInv'
<1>1. io \in IoSet /\ simp \in SimpSet /\ prune \in PruneSet /\ PruneGood(prune) /\ WellFormed(prune.loops)
  BY DEF PathIInv, IoGood, SimpGood, PruneGood
<1>2. /\ io' \in IoSet /\ io'.at = io.at /\ io'.count = io.count /\ io'.limit = io.limit
      /\ io'.raced = io.raced
  <2>1. io.raced \in BOOLEAN
    BY <1>1 DEF IoSet
  <2> QED BY <1>1, <2>1, MeanwhileIs
<1>3. /\ count' = count - 1 /\ limit' = count' /\ count > 0 /\ count \in Nat /\ count <= PointsMax
      /\ count' \in Nat /\ count' \in Points
  BY PathNumbers DEF PopPoint, Points
<1>4. MainType'
  BY <1>3 DEF PathIInv, MainType, PopPoint
<1> DEFINE e == simp.shrunk \/ (TRUE /\ (~simp.complete \/ simp.removal))
<1>5. simp' = [simp EXCEPT !.shrunk = e]
  BY DEF PopPoint, Shrunk
<1>6. e \in BOOLEAN /\ (~simp.complete \/ simp.removal => e)
  BY <1>1 DEF SimpSet
<1> HIDE DEF e
<1>7. /\ simp' \in SimpSet /\ simp'.complete = simp.complete /\ simp'.removal = simp.removal
      /\ simp'.flagged = simp.flagged /\ simp'.count = simp.count /\ simp'.done = simp.done
      /\ simp'.shrunk = e
  BY <1>1, <1>5, <1>6 DEF SimpSet
<1>8. SimpGood(simp', count')
  BY <1>6, <1>7 DEF PathIInv, SimpGood
<1>9. \A b \in Nat : SimpHolds(simp, b) <=> SimpHolds(simp', b)
  BY <1>7 DEF SimpHolds
<1> DEFINE d == prune.shrunk \/ ~prune.complete
           l == [k \in DOMAIN prune.loops |-> Shortened(prune.loops[k], count')]
<1>10. prune' = [prune EXCEPT !.shrunk = d, !.loops = l]
  BY DEF PopPoint
<1>11. d \in BOOLEAN /\ (~prune.complete => d)
  BY <1>1 DEF PruneSet
<1>12. DOMAIN l = DOMAIN prune.loops /\ DOMAIN prune.loops = 1..Len(prune.loops) /\ Len(prune.loops) \in Nat
  BY <1>1 DEF WellFormed
<1>13. ASSUME NEW k \in DOMAIN prune.loops
       PROVE  /\ l[k] \in Loop /\ l[k].start = prune.loops[k].start /\ l[k].end = prune.loops[k].end
              /\ ~l[k].stale => ~prune.loops[k].stale /\ prune.loops[k].end + 2 <= count'
  <2> DEFINE a == prune.loops[k]
             f == a.stale \/ Stale(a, count')
  <2>1. a \in Loop /\ a.end \in Nat
    BY <1>1, LoopParts
  <2>2. l[k] = [a EXCEPT !.stale = f]
    BY DEF Shortened
  <2>3. f \in BOOLEAN /\ (~f => ~a.stale /\ a.end + 2 <= count')
    BY <1>3, <2>1 DEF Stale, Loop
  <2> HIDE DEF l, a, f
  <2>4. l[k] \in Loop /\ l[k].start = a.start /\ l[k].end = a.end /\ l[k].stale = f
    BY <2>1, <2>2, <2>3 DEF Loop
  <2> QED BY <2>3, <2>4 DEF a
<1> HIDE DEF l, d
<1>14. l \in Seq(Loop) /\ Len(l) = Len(prune.loops)
  <2>1. l = [k \in 1..Len(prune.loops) |-> l[k]]
    BY <1>12 DEF l
  <2> QED BY <1>12, <1>13, <2>1
<1>15. WellFormed(l)
  BY <1>1, <1>12, <1>13, <1>14 DEF WellFormed, Proper, Disjoint, Overlap
<1>16. /\ prune' \in PruneSet /\ prune'.complete = prune.complete /\ prune'.i = prune.i
       /\ prune'.count = prune.count /\ prune'.loops = l /\ prune'.shrunk = d
  BY <1>1, <1>10, <1>11, <1>14 DEF PruneSet
<1>17. PruneGood(prune')
  BY <1>1, <1>14, <1>15, <1>16 DEF PruneGood
<1>18. ASSUME NEW k \in DOMAIN l, ~l[k].stale PROVE l[k].end + 2 \in Safe'
  <2>1. k \in DOMAIN prune.loops /\ ~prune.loops[k].stale
    BY <1>12, <1>13, <1>18
  <2>2. prune.loops[k].end + 2 \in Safe
    BY <2>1 DEF PathIInv, PruneHolds
  <2>3. l[k].end + 2 <= count' /\ l[k].end + 2 \in Nat /\ l[k].end = prune.loops[k].end
    BY <1>13, <1>18, <2>1 DEF Loop, Points
  <2> QED BY <1>2, <1>3, <1>9, <2>2, <2>3 DEF Safe, Kept
<1>19. PruneHolds(prune', Safe')
  BY <1>11, <1>16, <1>18 DEF PruneHolds
<1>20. IoGood'
  BY <1>2, <1>7, <1>16 DEF PathIInv, IoGood
<1> QED BY <1>4, <1>8, <1>17, <1>19, <1>20 DEF PathIInv

\* A new home forgets the path and all that was found in it.
LEMMA SetHomeIInv ==
    ASSUME PathIInv, NEW stored \in BOOLEAN, SetHome(stored), Meanwhile(TRUE)
    PROVE  PathIInv'
<1>1. io \in IoSet /\ io.raced \in BOOLEAN
  BY DEF PathIInv, IoGood, IoSet
<1>2. /\ io' \in IoSet /\ io'.at = io.at /\ io'.count = io.count /\ io'.limit = io.limit
      /\ io'.raced = (io.raced \/ io.at = "simplify")
  BY <1>1, MeanwhileIs
<1>3. 0 \in Points /\ 1 \in Points /\ LoopsMax \in Nat
  BY SmartRTLAssumption DEF Points
<1>4. simp' = ResetSimplification /\ prune' = ResetPruning /\ count' \in {0, 1}
      /\ UNCHANGED <<smart, limit, request, complete>> /\ active' \in {active, TRUE}
  BY DEF SetHome
<1>5. MainType'
  BY <1>3, <1>4 DEF PathIInv, MainType
<1>6. SimpGood(simp', count')
  <2>1. simp' \in SimpSet
    BY <1>3, <1>4 DEF ResetSimplification, SimpSet
  <2> QED BY <1>4, <2>1 DEF SimpGood, ResetSimplification
<1>7. prune'.loops = <<>> /\ prune'.count = 0 /\ DOMAIN prune'.loops = {} /\ Len(prune'.loops) = 0
  BY <1>4 DEF ResetPruning
<1>8. PruneGood(prune')
  <2>1. prune' \in PruneSet
    BY <1>3, <1>4 DEF ResetPruning, PruneSet
  <2> QED BY <1>3, <1>7, <2>1 DEF PruneGood, WellFormed, Proper, Disjoint
<1>9. 0 \in Safe'
  <2>1. limit' \in Nat /\ io'.count \in Nat /\ io'.limit \in Nat
    BY <1>2, <1>5 DEF MainType, IoSet, Points
  <2>2. SimpHolds(simp', 0)
    BY <1>4 DEF SimpHolds, ResetSimplification
  <2> QED BY <1>4, <2>1, <2>2 DEF Safe, Kept
<1>10. PruneHolds(prune', Safe')
  BY <1>7, <1>9 DEF PruneHolds
<1>11. IoGood'
  <2>1. simp'.removal = FALSE /\ simp'.count = 0 /\ simp'.flagged = {}
    BY <1>4 DEF ResetSimplification
  <2> QED BY <1>2, <1>7, <2>1 DEF PathIInv, IoGood
<1> QED BY <1>5, <1>6, <1>8, <1>10, <1>11 DEF PathIInv

-----------------------------------------------------------------------------
(* The path home: the steps of the IO thread *)

\* _simplify and _prune as a cleanup may leave them or go on from.
Ready(s, p) ==
    /\ SimpGood(s, count) /\ PruneGood(p) /\ PruneHolds(p, Kept(s))

\* A step of the IO thread that leaves path and request alone.
LEMMA CleanupIInv ==
    ASSUME PathIInv, UNCHANGED <<smart, active, count, limit, request>>, complete' \in BOOLEAN,
           Ready(simp', prune'), IoGood', io'.at # "snapped"
    PROVE  PathIInv'
<1>1. MainType'
  BY DEF PathIInv, MainType
<1>2. Safe' = {b \in Nat : b <= count /\ b <= limit /\ SimpHolds(simp', b)}
  BY DEF Safe, Kept
<1>3. PruneHolds(prune', Safe')
  <2>1. PruneHolds(prune', Kept(simp'))
    BY DEF Ready
  <2> QED BY <1>2, <2>1 DEF Kept
<1>4. SimpGood(simp', count') /\ PruneGood(prune')
  BY DEF Ready
<1> QED BY <1>1, <1>3, <1>4 DEF PathIInv

\* The IO thread's local copies, at the end of a run
LEMMA IdleIs ==
    ASSUME PathIInv, NEW at \in {"idle", "snapped", "simplify", "prune", "cleaned"}
    PROVE  /\ [Idle EXCEPT !.at = at] \in IoSet /\ [Idle EXCEPT !.at = at].at = at
           /\ [Idle EXCEPT !.at = at].raced = FALSE /\ Idle \in IoSet
BY PathNumbers DEF Idle, IoSet

\* More lengths are kept by a search that holds what another did.
LEMMA KeptMore ==
    ASSUME NEW s, NEW t, \A b \in Nat : SimpHolds(s, b) => SimpHolds(t, b)
    PROVE  Kept(s) \subseteq Kept(t)
BY DEF Kept

\* A search for points,
LEMMA SearchesIInv ==
    ASSUME PathIInv, UNCHANGED <<smart, active, count, limit, request>>, complete' \in BOOLEAN,
           NEW s, Ready(s, prune), ~s.complete, Searches(s)
    PROVE  PathIInv'
<1>1. simp' \in DetectSimplifications(s) /\ io' = Idle /\ UNCHANGED prune
  BY DEF Searches
<1>2. count \in Points
  BY DEF PathIInv, MainType
<1> DEFINE t == simp'
           W == Kept(s)
           V == Kept(t)
<1>3. SimpGood(t, count) /\ \A b \in Nat : SimpHolds(s, b) => SimpHolds(t, b)
  <2>1. SimpGood(s, count)
    BY DEF Ready
  <2> QED BY <1>1, <1>2, <2>1, DetectIs
<1> HIDE DEF t
<1>4. W \subseteq V
  BY <1>3, KeptMore
<1>5. PruneHolds(prune, W) /\ PruneGood(prune)
  BY DEF Ready
<1> HIDE DEF W, V
<1>6. PruneHolds(prune, V)
  BY <1>4, <1>5, PruneHoldsMore
<1>7. Ready(simp', prune')
  BY <1>1, <1>3, <1>5, <1>6 DEF Ready, t, V
<1>8. IoGood' /\ io'.at # "snapped"
  <2>1. Idle \in IoSet /\ Idle.at = "idle" /\ Idle.raced = FALSE
    BY IdleIs, PathNumbers DEF Idle
  <2> QED BY <1>1, <2>1 DEF IoGood
<1> QED BY <1>7, <1>8, CleanupIInv

\* a search for loops,
LEMMA LooksIInv ==
    ASSUME PathIInv, UNCHANGED <<smart, active, count, limit, request>>, complete' \in BOOLEAN,
           NEW s, NEW p, Ready(s, p), ~p.complete, LooksForLoops(p, s)
    PROVE  PathIInv'
<1>1. prune' \in DetectLoops(p) /\ simp' = s /\ io' = Idle
  BY DEF LooksForLoops
<1>2. SimpGood(s, count) /\ PruneGood(p) /\ PruneHolds(p, Kept(s))
  BY DEF Ready
<1>3. DownClosed(Kept(s))
  BY <1>2, SafeDown DEF SimpGood
<1>4. PruneGood(prune') /\ PruneHolds(prune', Kept(s))
  BY <1>1, <1>2, <1>3, DetectLoopsIs
<1>5. Ready(simp', prune')
  BY <1>1, <1>2, <1>4 DEF Ready
<1>6. IoGood' /\ io'.at # "snapped"
  <2>1. Idle \in IoSet /\ Idle.at = "idle" /\ Idle.raced = FALSE
    BY IdleIs, PathNumbers DEF Idle
  <2> QED BY <1>1, <2>1 DEF IoGood
<1> QED BY <1>5, <1>6, CleanupIInv

\* the beginning of a removal
LEMMA RemovesIInv ==
    ASSUME PathIInv, UNCHANGED <<smart, active, count, limit, request>>, complete' \in BOOLEAN,
           NEW s, NEW p, Ready(s, p), NEW what \in {"simplify", "prune"},
           what = "simplify" => s.removal, what = "prune" => ~s.removal /\ p.complete,
           NEW n \in {0, CleanupMin, AllPoints}, Removes(what, n, s, p)
    PROVE  PathIInv'
<1>1. /\ io' = [Idle EXCEPT !.at = what, !.number = n, !.renewed = io.renewed]
      /\ simp' = s /\ prune' = p
  BY DEF Removes
<1>2. io' \in IoSet /\ io'.at = what /\ io'.raced = FALSE
  <2>1. 0 \in Points /\ io.renewed \in BOOLEAN
    BY PathNumbers DEF PathIInv, IoGood, IoSet
  <2>2. io' = [at |-> what, count |-> 0, limit |-> 0, number |-> n, raced |-> FALSE,
               renewed |-> io.renewed]
    BY <1>1 DEF Idle
  <2> QED BY <2>1, <2>2 DEF IoSet
<1>3. IoGood' /\ io'.at # "snapped"
  BY <1>1, <1>2 DEF IoGood
<1> QED BY <1>1, <1>3, CleanupIInv

\* What the IO thread carries when a run has ended
LEMMA IdleOrCleaned ==
    ASSUME 0 \in Points, NEW renewed \in BOOLEAN, NEW x,
           x = Idle \/ x = [Idle EXCEPT !.at = "cleaned", !.renewed = renewed]
    PROVE  x \in IoSet /\ x.at \in {"idle", "cleaned"} /\ x.raced = FALSE
<1>1. CASE x = Idle
  BY <1>1 DEF Idle, IoSet
<1>2. CASE x = [Idle EXCEPT !.at = "cleaned", !.renewed = renewed]
  <2>1. x = [at |-> "cleaned", count |-> 0, limit |-> 0, number |-> 0, raced |-> FALSE,
             renewed |-> renewed]
    BY <1>2 DEF Idle
  <2> QED BY <2>1 DEF IoSet
<1> QED BY <1>1, <1>2

\* and the end of a run keep the invariant if what they start from is Ready.
LEMMA EndsIInv ==
    ASSUME PathIInv, UNCHANGED <<smart, active, count, limit, request>>, complete' \in BOOLEAN,
           NEW s, NEW p, Ready(s, p), Ends(s, p) \/ Completes(s, p)
    PROVE  PathIInv'
<1>1. /\ io' = Idle \/ io' = [Idle EXCEPT !.at = "cleaned", !.renewed = io.renewed]
      /\ simp' = s /\ prune' = p
  BY DEF Ends, Completes
<1>2. io' \in IoSet /\ io'.at \in {"idle", "cleaned"} /\ io'.raced = FALSE
  <2>1. 0 \in Points /\ io.renewed \in BOOLEAN
    BY PathNumbers DEF PathIInv, IoGood, IoSet
  <2> QED BY <1>1, <2>1, IdleOrCleaned
<1>3. IoGood' /\ io'.at # "snapped"
  BY <1>1, <1>2 DEF IoGood
<1> QED BY <1>1, <1>3, CleanupIInv

\* Where a run of either cleanup starts from
LEMMA ReadyNow ==
    ASSUME PathIInv
    PROVE  /\ Ready(simp, prune)
           /\ simp.complete /\ ~simp.removal => Ready(simp, PruningOf(prune, simp))
<1>1. SimpGood(simp, count) /\ PruneGood(prune) /\ PruneHolds(prune, Kept(simp))
  <2> DEFINE W == Safe
             V == Kept(simp)
  <2>1. W \subseteq V /\ PruneHolds(prune, W)
    BY SafeDown DEF PathIInv
  <2> HIDE DEF W, V
  <2>2. PruneHolds(prune, V)
    BY <2>1, PruneHoldsMore
  <2> QED BY <2>2 DEF PathIInv, V
<1>2. ASSUME simp.complete, ~simp.removal PROVE Ready(simp, PruningOf(prune, simp))
  <2>1. simp.flagged = {}
    BY <1>1, <1>2 DEF SimpGood
  <2>2. simp.done \in Nat /\ simp.done \in Points
    BY PathNumbers
  <2>3. SimpHolds(simp, simp.done)
    BY <1>2, <2>1, <2>2 DEF SimpHolds
  <2>4. simp.done <= count /\ simp.done <= limit => simp.done \in Kept(simp)
    BY <2>2, <2>3 DEF Kept
  <2>5. count \in Points /\ limit \in Points
    BY DEF PathIInv, MainType
  <2>6. PruneGood(PruningOf(prune, simp)) /\ PruneHolds(PruningOf(prune, simp), Kept(simp))
    BY <1>1, <2>2, <2>4, <2>5, PruningIs
  <2> QED BY <1>1, <2>6 DEF Ready
<1> QED BY <1>1, <1>2 DEF Ready

\* A routine cleanup, whichever of these it does
LEMMA RoutineIInv ==
    ASSUME PathIInv, io.at = "snapped", UNCHANGED <<smart, active, count, limit, request>>,
           complete' \in BOOLEAN, RoutineCleanup
    PROVE  PathIInv'
<1> DEFINE p == PruningOf(prune, simp)
           s == Shrink(simp, io.limit)
           q == Shrink(p, io.limit)
           toSimplify == IF io.count > s.done THEN io.count - s.done ELSE 0
           low == Room <= StartMargin
           restart == toSimplify >= CleanupTrigger \/ (low /\ toSimplify >= CleanupMin)
<1>1. \/ ~simp.complete /\ Searches(simp)
      \/ simp.complete /\ simp.removal /\ Removes("simplify", 0, simp, prune)
      \/ simp.complete /\ ~simp.removal /\ ~p.complete /\ LooksForLoops(p, simp)
      \/ /\ simp.complete /\ ~simp.removal /\ p.complete
         /\ \/ Ends(RestartSimplification(s, io.count), q)
            \/ Removes("prune", CleanupMin, s, q)
            \/ Ends(s, q)
  <2> HIDE DEF restart, low
  <2> QED BY DEF RoutineCleanup, restart, low
<1>2. CASE ~simp.complete /\ Searches(simp)
  BY <1>2, ReadyNow, SearchesIInv
<1>3. CASE simp.complete /\ simp.removal /\ Removes("simplify", 0, simp, prune)
  BY <1>3, ReadyNow, RemovesIInv
<1>4. CASE simp.complete /\ ~simp.removal /\ ~p.complete /\ LooksForLoops(p, simp)
  BY <1>4, ReadyNow, LooksIInv
<1>5. CASE /\ simp.complete /\ ~simp.removal /\ p.complete
           /\ \/ Ends(RestartSimplification(s, io.count), q)
              \/ Removes("prune", CleanupMin, s, q)
              \/ Ends(s, q)
  <2>1. SimpGood(simp, count) /\ PruneGood(prune) /\ PruneHolds(prune, Safe)
    BY DEF PathIInv
  <2>2. count \in Points /\ io.limit \in Points /\ io.count \in Points
    BY PathNumbers DEF PathIInv, MainType
  <2>3. p = prune /\ prune.complete
    BY <1>5 DEF PruningOf, RestartPruning, PruneGood, PruneSet
  <2>4. /\ SimpGood(s, count) /\ s.complete /\ ~s.removal
        /\ \A b \in Nat : SimpHolds(simp, b) /\ b <= io.limit => SimpHolds(s, b)
    BY <1>5, <2>1, <2>2, ShrinkIs
  <2> DEFINE r == RestartSimplification(s, io.count)
  <2>5. /\ SimpGood(r, count)
        /\ \A b \in Nat : SimpHolds(s, b) /\ b <= io.count => SimpHolds(r, b)
    BY <2>2, <2>4, RestartIs
  <2> HIDE DEF r, s
  <2>6. \A b \in Safe : b \in Kept(s) /\ b \in Kept(r)
    BY <2>4, <2>5 DEF Safe, Kept
  <2>7. q = [prune EXCEPT !.done = LeastOf(prune.done, io.limit)]
    BY <2>3 DEF Shrink
  <2>8. LeastOf(prune.done, io.limit) \in Points
    BY <2>1, <2>2 DEF LeastOf, PruneGood, PruneSet
  <2>9. /\ q \in PruneSet /\ q.complete = prune.complete /\ q.loops = prune.loops
    BY <2>1, <2>7, <2>8 DEF PruneGood, PruneSet
  <2>10. PruneGood(q) /\ PruneHolds(q, Safe) /\ q.complete
    BY <2>1, <2>3, <2>9 DEF PruneGood, PruneHolds
  <2> HIDE DEF q, p
  <2>11. PruneHolds(q, Kept(s)) /\ PruneHolds(q, Kept(r))
    <3> DEFINE W == Safe
               V == Kept(s)
               U == Kept(r)
    <3>1. W \subseteq V /\ W \subseteq U /\ PruneHolds(q, W)
      BY <2>6, <2>10
    <3> HIDE DEF W, V, U
    <3>2. PruneHolds(q, V) /\ PruneHolds(q, U)
      BY <3>1, PruneHoldsMore
    <3> QED BY <3>2 DEF V, U
  <2>12. Ready(s, q) /\ Ready(r, q)
    BY <2>4, <2>5, <2>10, <2>11 DEF Ready
  <2>13. CASE Ends(RestartSimplification(s, io.count), q)
    <3>1. Ends(r, q)
      BY <2>13 DEF r
    <3> QED BY <2>12, <3>1, EndsIInv
  <2>14. CASE Removes("prune", CleanupMin, s, q)
    BY <2>4, <2>10, <2>12, <2>14, RemovesIInv
  <2>15. CASE Ends(s, q)
    BY <2>12, <2>15, EndsIInv
  <2> QED BY <1>5, <2>13, <2>14, <2>15
<1> QED BY <1>1, <1>2, <1>3, <1>4, <1>5

\* A thorough cleanup, the same
LEMMA ThoroughIInv ==
    ASSUME PathIInv, io.at = "snapped", UNCHANGED <<smart, active, count, limit, request>>,
           complete' \in BOOLEAN, ThoroughCleanup
    PROVE  PathIInv'
<1> DEFINE r == RestartSimplification(simp, io.count)
           s == IF simp.complete /\ simp.count # io.count THEN r ELSE simp
           p == PruningOf(prune, s)
<1>1. \/ ~s.complete /\ Searches(s)
      \/ s.complete /\ s.removal /\ Removes("simplify", 0, s, prune)
      \/ s.complete /\ ~s.removal /\ ~p.complete /\ LooksForLoops(p, s)
      \/ s.complete /\ ~s.removal /\ p.complete /\ Removes("prune", AllPoints, s, p)
      \/ s.complete /\ ~s.removal /\ p.complete /\ Completes(s, p)
  <2> HIDE DEF s, p
  <2> QED BY DEF ThoroughCleanup, s, p, r
<1>2. SimpGood(simp, count) /\ PruneGood(prune) /\ PruneHolds(prune, Safe)
  BY DEF PathIInv
<1>3. count \in Points /\ io.count \in Points
  BY PathNumbers DEF PathIInv, MainType
<1>4. /\ SimpGood(r, count) /\ ~r.complete
      /\ \A b \in Nat : SimpHolds(simp, b) /\ b <= io.count => SimpHolds(r, b)
  BY <1>2, <1>3, RestartIs
<1> HIDE DEF r
<1>5. Ready(r, prune)
  <2>1. Safe \subseteq Kept(r)
    BY <1>4 DEF Safe, Kept
  <2> DEFINE W == Safe
             U == Kept(r)
  <2>2. W \subseteq U /\ PruneHolds(prune, W)
    BY <1>2, <2>1
  <2> HIDE DEF W, U
  <2>3. PruneHolds(prune, U)
    BY <2>2, PruneHoldsMore
  <2> QED BY <1>2, <1>4, <2>3 DEF Ready, U
<1>6. CASE s = r
  <2>1. ~s.complete /\ Searches(s)
    BY <1>1, <1>4, <1>6
  <2>2. Ready(s, prune)
    BY <1>5, <1>6
  <2> HIDE DEF s
  <2> QED BY <2>1, <2>2, SearchesIInv
<1>7. CASE s = simp
  <2>1. Ready(s, prune) /\ (s.complete /\ ~s.removal => Ready(s, p))
    BY <1>7, ReadyNow
  <2> HIDE DEF s, p
  <2>2. CASE ~s.complete /\ Searches(s)
    BY <2>1, <2>2, SearchesIInv
  <2>3. CASE s.complete /\ s.removal /\ Removes("simplify", 0, s, prune)
    BY <2>1, <2>3, RemovesIInv
  <2>4. CASE s.complete /\ ~s.removal /\ ~p.complete /\ LooksForLoops(p, s)
    BY <2>1, <2>4, LooksIInv
  <2>5. CASE s.complete /\ ~s.removal /\ p.complete /\ Removes("prune", AllPoints, s, p)
    BY <2>1, <2>5, RemovesIInv
  <2>6. CASE s.complete /\ ~s.removal /\ p.complete /\ Completes(s, p)
    BY <2>1, <2>6, EndsIInv
  <2> QED BY <1>1, <2>2, <2>3, <2>4, <2>5, <2>6
<1> QED BY <1>6, <1>7

\* A run of either, or of none
LEMMA CleanupStepIInv ==
    ASSUME PathIInv, Cleanup
    PROVE  PathIInv'
<1>1. io.at = "snapped" /\ UNCHANGED <<smart, active, count, limit, request>>
  BY DEF Cleanup
<1>2. complete \in BOOLEAN
  BY DEF PathIInv, MainType
<1>3. CASE request /\ ~complete
  <2>1. ThoroughCleanup /\ UNCHANGED complete
    BY <1>3 DEF Cleanup
  <2> QED BY <1>1, <1>2, <2>1, ThoroughIInv
<1>4. CASE request /\ complete
  <2>1. Ends(simp, prune) /\ UNCHANGED complete
    BY <1>4 DEF Cleanup
  <2>2. Ready(simp, prune)
    BY ReadyNow
  <2> QED BY <1>1, <1>2, <2>1, <2>2, EndsIInv
<1>5. CASE ~request
  <2>1. complete' = FALSE /\ RoutineCleanup
    BY <1>5 DEF Cleanup
  <2> QED BY <1>1, <1>2, <2>1, RoutineIInv
<1> QED BY <1>3, <1>4, <1>5

\* The local copies are taken: they are within the path, and the limit is forgotten.
LEMMA SnapshotIInv ==
    ASSUME PathIInv, Snapshot
    PROVE  PathIInv'
<1>1. /\ io' = [Idle EXCEPT !.at = "snapped", !.count = count, !.limit = limit]
      /\ limit' = NoLimit
      /\ UNCHANGED <<smart, active, count, request, complete, simp, prune>>
  BY DEF Snapshot
<1>2. count \in Points /\ limit \in Points
  BY DEF PathIInv, MainType
<1>3. io' \in IoSet /\ io'.at = "snapped" /\ io'.raced = FALSE /\ io'.count = count /\ io'.limit = limit
  <2>1. io' = [at |-> "snapped", count |-> count, limit |-> limit, number |-> 0,
               raced |-> FALSE, renewed |-> FALSE]
    BY <1>1 DEF Idle
  <2> QED BY <1>2, <2>1 DEF IoSet
<1>4. MainType'
  BY <1>1, PathNumbers DEF PathIInv, MainType
<1>5. IoGood'
  BY <1>3 DEF IoGood
<1>6. Safe \subseteq Safe'
  BY <1>1, <1>3, PathNumbers DEF Safe, Kept
<1>7. PruneHolds(prune', Safe')
  <2> DEFINE W == Safe
             V == Safe'
  <2>1. W \subseteq V /\ PruneHolds(prune, W)
    BY <1>6 DEF PathIInv
  <2> HIDE DEF W, V
  <2>2. PruneHolds(prune, V)
    BY <2>1, PruneHoldsMore
  <2> QED BY <1>1, <2>2 DEF V
<1> QED BY <1>1, <1>4, <1>5, <1>7 DEF PathIInv

\* How many of the points flagged are on a path of n points.
LEMMA RemovedIs ==
    ASSUME NEW flagged \in SUBSET (1..PointsMax), NEW n \in Points
    PROVE  /\ Cardinality(flagged \cap 1..(n - 1)) \in Nat
           /\ n > 0 => Cardinality(flagged \cap 1..(n - 1)) < n
           /\ flagged = {} => Cardinality(flagged \cap 1..(n - 1)) = 0
           /\ \A b \in Nat : (\A x \in flagged : b <= x) /\ b <= n
                 => b <= n - Cardinality(flagged \cap 1..(n - 1))
           /\ \A b, c \in Nat :
                 flagged \subseteq 1..(c - 2) /\ c >= 3 /\ (\A x \in flagged : b <= x) /\ b <= c
                 => /\ Cardinality(flagged \cap 1..(n - 1)) < c
                    /\ b <= c - Cardinality(flagged \cap 1..(n - 1))
<1> DEFINE F == flagged \cap 1..(n - 1)
           m == Cardinality(F)
<1>0. n \in Nat /\ PointsMax \in Nat
  BY SmartRTLAssumption DEF Points
<1>1. ASSUME NEW a \in Int, NEW b \in Int, F \subseteq a..b
      PROVE  m \in Nat /\ m <= IF a > b THEN 0 ELSE b - a + 1
  <2>1. IsFiniteSet(a..b) /\ Cardinality(a..b) = IF a > b THEN 0 ELSE b - a + 1
    BY FS_Interval
  <2> HIDE DEF F
  <2>2. IsFiniteSet(F) /\ Cardinality(F) <= Cardinality(a..b)
    BY <1>1, <2>1, FS_Subset
  <2>3. Cardinality(F) \in Nat
    BY <2>2, FS_CardinalityType
  <2> QED BY <2>1, <2>2, <2>3
<1>2. m \in Nat /\ m <= IF 1 > n - 1 THEN 0 ELSE (n - 1) - 1 + 1
  <2>1. F \subseteq 1..(n - 1) /\ n - 1 \in Int
    BY <1>0
  <2> HIDE DEF F, m
  <2> QED BY <1>1, <2>1
<1>3. flagged = {} => m = 0
  <2>1. flagged = {} => F \subseteq 1..0
    OBVIOUS
  <2>2. flagged = {} => m <= 0
    BY <1>1, <2>1
  <2> QED BY <1>2, <2>2
<1>4. ASSUME NEW b \in Nat, \A x \in flagged : b <= x, b <= n
      PROVE  b <= n - m
  <2>1. F \subseteq b..(n - 1)
    BY <1>0, <1>4
  <2>2. n - 1 \in Int /\ b \in Int
    BY <1>0
  <2> HIDE DEF m, F
  <2>3. m \in Nat /\ m <= IF b > n - 1 THEN 0 ELSE (n - 1) - b + 1
    BY <1>1, <2>1, <2>2
  <2> QED BY <1>0, <1>4, <2>3
<1>5. ASSUME NEW b \in Nat, NEW c \in Nat, flagged \subseteq 1..(c - 2), c >= 3,
             \A x \in flagged : b <= x, b <= c
      PROVE  m < c /\ b <= c - m
  <2>1. F \subseteq b..(c - 2) /\ F \subseteq 1..(c - 2)
    BY <1>0, <1>5
  <2>2. c - 2 \in Int /\ b \in Int
    OBVIOUS
  <2> HIDE DEF m, F
  <2>3. m \in Nat /\ m <= IF b > c - 2 THEN 0 ELSE (c - 2) - b + 1
    BY <1>1, <2>1, <2>2
  <2>4. m <= IF 1 > c - 2 THEN 0 ELSE (c - 2) - 1 + 1
    BY <1>1, <2>1, <2>2
  <2> QED BY <1>5, <2>3, <2>4
<1>6. n > 0 => m < n
  <2> HIDE DEF m, F
  <2> QED BY <1>0, <1>2
<1> QED BY <1>2, <1>3, <1>4, <1>5, <1>6

\* A removal of points; an error is of a race or of a search that has shrunk.
LEMMA RemoveSimplifiedIInv ==
    ASSUME PathIInv, RemoveSimplified
    PROVE  /\ PathIInv'
           /\ active /\ ~active' => io.raced \/ simp.shrunk
<1> DEFINE removed == Cardinality(simp.flagged \cap 1..(count - 1))
           fits == count > removed /\ simp.count > removed
           left == IF fits THEN simp.count - removed ELSE simp.count
           done == IF fits THEN left ELSE simp.done
<1>1. /\ io.at = "simplify" /\ io' = Idle
      /\ count' = (IF fits THEN count - removed ELSE count) /\ active' = (active /\ fits)
      /\ simp' = [simp EXCEPT !.flagged = {}, !.removal = FALSE, !.shrunk = FALSE,
                              !.count = left, !.done = IF fits THEN left ELSE @]
      /\ UNCHANGED <<smart, limit, request, complete, prune>>
  BY DEF RemoveSimplified
<1>2. /\ SimpGood(simp, count) /\ simp \in SimpSet /\ simp.flagged \in SUBSET (1..PointsMax)
      /\ PruneGood(prune) /\ PruneHolds(prune, Safe) /\ IoGood /\ MainType
  BY DEF PathIInv, SimpGood, SimpSet
<1>3. /\ count \in Points /\ count \in Nat /\ simp.count \in Nat /\ simp.count \in Points
      /\ simp.done \in Points /\ count <= PointsMax /\ PointsMax \in Nat /\ simp.count <= PointsMax
      /\ simp.done \in Nat
  BY <1>2, PathNumbers DEF SimpSet, MainType, Points
<1>4. /\ removed \in Nat /\ (count > 0 => removed < count)
      /\ (simp.flagged = {} => removed = 0)
      /\ \A b \in Nat : (\A x \in simp.flagged : b <= x) /\ b <= count => b <= count - removed
      /\ \A b, c \in Nat :
            simp.flagged \subseteq 1..(c - 2) /\ c >= 3 /\ (\A x \in simp.flagged : b <= x) /\ b <= c
            => removed < c /\ b <= c - removed
  BY <1>2, <1>3, RemovedIs
<1>5. count = 0 /\ simp.flagged = {} => ~fits
  BY <1>4
<1>6. ~io.raced => /\ simp.removal /\ simp.complete /\ simp.done = simp.count /\ simp.count >= 3
                   /\ simp.flagged \subseteq 1..(simp.count - 2)
                   /\ (~simp.shrunk => simp.count <= count)
  BY <1>1, <1>2 DEF IoGood, SimpGood
<1>7. io.raced => /\ simp.count = 0 /\ simp.flagged = {} /\ removed = 0 /\ ~fits
  BY <1>2, <1>4 DEF IoGood
<1>8. ~io.raced => removed < simp.count
  <2>1. \A x \in simp.flagged : 0 <= x
    BY <1>2
  <2> HIDE DEF removed
  <2> QED BY <1>3, <1>4, <1>6, <2>1
<1>9. ~io.raced => (fits <=> count > 0)
  <2> HIDE DEF removed
  <2> QED BY <1>3, <1>4, <1>8
<1>10. active /\ ~active' => io.raced \/ simp.shrunk
  <2> SUFFICES ASSUME active, ~active', ~io.raced PROVE simp.shrunk
    OBVIOUS
  <2>1. ~fits
    BY <1>1
  <2>2. count = 0
    <3> HIDE DEF fits
    <3> QED BY <1>3, <1>9, <2>1
  <2> QED BY <1>3, <1>6, <2>2
<1>11. /\ left \in Points /\ done \in Points
       /\ count' \in Points /\ (io.raced => count' = count)
  <2> HIDE DEF removed
  <2> QED BY <1>1, <1>3, <1>4, <1>7 DEF Points
<1>12. ASSUME NEW b \in Nat, b <= count, SimpHolds(simp, b)
       PROVE  b <= count' /\ b <= done /\ (~simp.complete => b <= left)
  <2>1. b <= simp.done /\ (~simp.complete => b <= simp.count) /\ \A x \in simp.flagged : b <= x
    BY <1>12 DEF SimpHolds
  <2>2. b <= count - removed
    BY <1>4, <1>12, <2>1
  <2>3. CASE io.raced
    BY <1>7, <1>11, <1>12, <2>1, <2>3
  <2>4. CASE ~io.raced
    <3>1. b <= simp.count - removed
      BY <1>3, <1>4, <1>6, <2>1, <2>4
    <3> HIDE DEF removed
    <3> QED BY <1>1, <1>6, <1>12, <2>1, <2>2, <2>4, <3>1
  <2> QED BY <2>3, <2>4
<1>13. simp' = [simp EXCEPT !.flagged = {}, !.removal = FALSE, !.shrunk = FALSE,
                            !.count = left, !.done = done]
  BY <1>1, <1>2 DEF SimpSet
<1> HIDE DEF left, done, fits, removed
<1>14. /\ simp' \in SimpSet /\ simp'.flagged = {} /\ simp'.removal = FALSE /\ simp'.shrunk = FALSE
       /\ simp'.count = left /\ simp'.done = done /\ simp'.complete = simp.complete
  BY <1>2, <1>11, <1>13 DEF SimpSet
<1>15. ~simp.complete => left <= count'
  BY <1>3, <1>6, <1>7, <1>11 DEF left
<1>16. SimpGood(simp', count')
  BY <1>14, <1>15 DEF SimpGood
<1>17. \A b \in Safe : b \in Safe'
  <2> SUFFICES ASSUME NEW b \in Safe PROVE b \in Safe'
    OBVIOUS
  <2>1. b \in Nat /\ b <= count /\ b <= limit /\ SimpHolds(simp, b)
    BY DEF Safe, Kept
  <2>2. b <= count' /\ SimpHolds(simp', b)
    BY <1>12, <1>14, <2>1 DEF SimpHolds
  <2>3. io'.at # "snapped" /\ limit' = limit
    BY <1>1 DEF Idle
  <2> QED BY <2>1, <2>2, <2>3 DEF Safe, Kept
<1>18. PruneHolds(prune', Safe')
  <2> DEFINE W == Safe
             V == Safe'
  <2>1. W \subseteq V /\ PruneHolds(prune, W)
    BY <1>2, <1>17
  <2> HIDE DEF W, V
  <2>2. PruneHolds(prune, V)
    BY <2>1, PruneHoldsMore
  <2> QED BY <1>1, <2>2 DEF V
<1>19. MainType'
  BY <1>1, <1>2, <1>11 DEF MainType
<1>20. IoGood'
  <2>1. Idle \in IoSet /\ Idle.at = "idle" /\ Idle.raced = FALSE
    BY IdleIs, PathNumbers DEF Idle
  <2> QED BY <1>1, <2>1 DEF IoGood
<1> QED BY <1>1, <1>2, <1>10, <1>16, <1>18, <1>19, <1>20 DEF PathIInv

\* A removal of loops; an error is of a loop that is stale.
LEMMA RemoveLoopsIInv ==
    ASSUME PathIInv, RemoveLoops
    PROVE  /\ PathIInv'
           /\ active /\ ~active' => \E k \in DOMAIN prune.loops : prune.loops[k].stale
           /\ count' <= count
           /\ io.number = AllPoints /\ active' => prune'.loops = <<>>
<1> DEFINE r == CutLoops(prune.loops, count, io.number)
           l == prune.loops
           e == simp.shrunk \/ ((r.n # count) /\ (~simp.complete \/ simp.removal))
<1>1. /\ io.at = "prune" /\ count' = r.n /\ prune' = [prune EXCEPT !.loops = r.loops]
      /\ active' = (active /\ ~r.error) /\ simp' = [simp EXCEPT !.shrunk = e]
      /\ \/ io' = [Idle EXCEPT !.at = "cleaned", !.renewed = io.renewed]
         \/ io' = Idle
      /\ UNCHANGED <<smart, limit, request, complete>>
  BY DEF RemoveLoops, Shrunk
<1>2. /\ SimpGood(simp, count) /\ simp \in SimpSet /\ prune \in PruneSet
      /\ PruneGood(prune) /\ PruneHolds(prune, Safe) /\ IoGood /\ MainType /\ WellFormed(l)
  BY DEF PathIInv, SimpGood, PruneGood
<1>3. /\ count \in Points /\ count \in Nat /\ io.number \in Nat /\ LoopsMax \in Nat /\ Len(l) \in Nat
      /\ count <= PointsMax /\ PointsMax \in Nat
  BY <1>2, PathNumbers, SmartRTLAssumption DEF MainType, WellFormed
<1>4. \A a \in DOMAIN l : ~l[a].stale => l[a].end + 2 <= count
  BY <1>2 DEF PruneHolds, Safe, Kept
<1> HIDE DEF l
<1>5. r \in Cutting(l, count) /\ (io.number = AllPoints => r.error \/ r.loops = <<>>)
  BY <1>2, <1>3, <1>4, CutLoopsIs DEF l
<1> HIDE DEF r
<1>6. /\ r.n \in Points /\ r.n \in Nat /\ r.removed \in Nat /\ r.error \in BOOLEAN
      /\ WellFormed(r.loops) /\ Len(r.loops) <= Len(l) /\ r.n + r.removed = count
      /\ r.loops \in Seq(Loop) /\ Len(r.loops) \in Nat
  BY <1>5 DEF Cutting, Points, WellFormed
<1>7. \A a \in DOMAIN r.loops : ~r.loops[a].stale =>
              /\ r.loops[a].end + 2 <= r.n
              /\ \E i \in DOMAIN l : ~l[i].stale /\ r.loops[a].end <= l[i].end
  BY <1>5 DEF Cutting
<1>8. r.error => \E i \in DOMAIN l : l[i].stale
  BY <1>5 DEF Cutting
<1>9. e \in BOOLEAN /\ (~e => ~simp.shrunk /\ (r.n = count \/ ~(~simp.complete \/ simp.removal)))
  BY <1>2 DEF SimpSet
<1> HIDE DEF e
<1>10. /\ simp' \in SimpSet /\ simp'.complete = simp.complete /\ simp'.removal = simp.removal
       /\ simp'.flagged = simp.flagged /\ simp'.count = simp.count /\ simp'.done = simp.done
       /\ simp'.shrunk = e
  BY <1>1, <1>2, <1>9 DEF SimpSet
<1>11. SimpGood(simp', count')
  BY <1>1, <1>2, <1>9, <1>10 DEF SimpGood
<1>12. /\ prune' \in PruneSet /\ prune'.complete = prune.complete /\ prune'.i = prune.i
       /\ prune'.count = prune.count /\ prune'.loops = r.loops /\ prune'.shrunk = prune.shrunk
  BY <1>1, <1>2, <1>6 DEF PruneSet
<1>13. PruneGood(prune')
  <2>1. Len(r.loops) <= LoopsMax
    BY <1>2, <1>3, <1>6 DEF PruneGood, l
  <2> QED BY <1>2, <1>6, <1>12, <2>1 DEF PruneGood
<1>14. io' \in IoSet /\ io'.at \in {"idle", "cleaned"} /\ io'.raced = FALSE
  <2>1. 0 \in Points /\ io.renewed \in BOOLEAN
    BY <1>2, PathNumbers DEF IoGood, IoSet
  <2> QED BY <1>1, <2>1, IdleOrCleaned
<1>15. \A b \in Nat : b <= limit /\ SimpHolds(simp, b) /\ b <= r.n => b \in Safe'
  <2>1. \A b \in Nat : SimpHolds(simp, b) => SimpHolds(simp', b)
    BY <1>10 DEF SimpHolds
  <2>2. count' = r.n /\ limit' = limit /\ io'.at # "snapped"
    BY <1>1, <1>14
  <2> QED BY <2>1, <2>2 DEF Safe, Kept
<1>16. \A a \in DOMAIN r.loops : ~r.loops[a].stale => r.loops[a].end + 2 \in Safe'
  <2> SUFFICES ASSUME NEW a \in DOMAIN r.loops, ~r.loops[a].stale
               PROVE  r.loops[a].end + 2 \in Safe'
    OBVIOUS
  <2>1. r.loops[a].end + 2 <= r.n
    BY <1>7
  <2>2. PICK i \in DOMAIN l : ~l[i].stale /\ r.loops[a].end <= l[i].end
    BY <1>7
  <2>3. r.loops[a].end \in Nat /\ l[i].end \in Nat
    BY <1>2, <1>6, LoopParts
  <2>4. l[i].end + 2 \in Safe
    BY <1>2, <2>2 DEF PruneHolds, l
  <2>5. r.loops[a].end + 2 \in Safe
    <3>1. r.loops[a].end + 2 <= l[i].end + 2 /\ r.loops[a].end + 2 \in Nat
      BY <2>2, <2>3
    <3> QED BY <2>4, <3>1, SafeDown DEF DownClosed
  <2> QED BY <1>15, <2>1, <2>3, <2>5 DEF Safe, Kept
<1>17. ~prune'.complete => prune'.count = 0 /\ 0 \in Safe'
  <2>1. ~prune.complete => prune.count = 0
    BY <1>1, <1>2 DEF IoGood
  <2>2. 0 \in Safe'
    <3>1. SimpHolds(simp, 0)
      BY <1>2, PathNumbers DEF SimpHolds, SimpSet
    <3> QED BY <1>6, <1>15, <3>1, PathNumbers
  <2> QED BY <1>12, <2>1, <2>2
<1>18. PruneHolds(prune', Safe')
  BY <1>12, <1>16, <1>17 DEF PruneHolds
<1>19. MainType'
  BY <1>1, <1>2, <1>6 DEF MainType
<1>20. IoGood'
  BY <1>14 DEF IoGood
<1>21. PathIInv'
  BY <1>11, <1>13, <1>18, <1>19, <1>20 DEF PathIInv
<1>22. count' <= count
  BY <1>1, <1>6
<1>23. active /\ ~active' => \E k \in DOMAIN prune.loops : prune.loops[k].stale
  BY <1>1, <1>6, <1>8 DEF l
<1>24. io.number = AllPoints /\ active' => prune'.loops = <<>>
  BY <1>1, <1>5, <1>12
<1> QED BY <1>14, <1>21, <1>22, <1>23, <1>24

-----------------------------------------------------------------------------
(* The path home: the theorems *)

\* The flight takes points off, or at most adds some.
LEMMA FlightStepIs ==
    ASSUME PathIInv, FlightStep
    PROVE  \/ PopPoint
           \/ /\ MainType' /\ count' >= count
              /\ UNCHANGED <<limit, simp, prune>>
<1>1. /\ count \in Nat /\ MainType
      /\ (count < PointsMax => count + 1 \in Points) /\ count >= count
  BY PathNumbers DEF PathIInv, Points
<1>2. CASE AddPoint
  BY <1>1, <1>2 DEF AddPoint, MainType
<1>3. CASE SavingTimesOut
  BY <1>1, <1>3 DEF SavingTimesOut, MainType
<1>4. CASE EnterSmartRTL
  BY <1>1, <1>4 DEF EnterSmartRTL, MainType
<1>5. CASE ExitSmartRTL
  BY <1>1, <1>5 DEF ExitSmartRTL, MainType
<1>6. CASE WaitCleanupRun
  <2>1. /\ request' \in BOOLEAN /\ complete' \in BOOLEAN
        /\ smart' \in {"OFF", "WAIT", "FOLLOW", "PRELAND"}
    BY <1>1, <1>6 DEF WaitCleanupRun, MainType
  <2>2. UNCHANGED <<active, count, limit, simp, prune>>
    BY <1>6 DEF WaitCleanupRun
  <2> QED BY <1>1, <2>1, <2>2 DEF MainType
<1>7. CASE FollowGivesUp
  BY <1>1, <1>7 DEF FollowGivesUp, MainType
<1> QED BY <1>2, <1>3, <1>4, <1>5, <1>6, <1>7 DEF FlightStep, SmartRTLRun

\* The end of a cleanup is told.
LEMMA AcknowledgeIInv ==
    ASSUME PathIInv, Acknowledge
    PROVE  PathIInv'
<1>1. io' = Idle /\ complete' = request /\ UNCHANGED <<smart, active, count, limit, request, simp, prune>>
  BY DEF Acknowledge
<1>2. complete' \in BOOLEAN
  BY <1>1 DEF PathIInv, MainType
<1>3. Ready(simp', prune')
  BY <1>1, ReadyNow DEF Ready, Kept
<1>4. IoGood' /\ io'.at # "snapped"
  <2>1. Idle \in IoSet /\ Idle.at = "idle" /\ Idle.raced = FALSE
    BY IdleIs, PathNumbers DEF Idle
  <2> QED BY <1>1, <2>1 DEF IoGood
<1> QED BY <1>1, <1>2, <1>3, <1>4, CleanupIInv

\* Without the semaphore nothing is removed.
LEMMA RemovalFailsIInv ==
    ASSUME PathIInv, RemovalFails
    PROVE  PathIInv'
<1>1. io' = Idle /\ UNCHANGED <<smart, active, count, limit, request, complete, simp, prune>>
  BY DEF RemovalFails
<1>2. complete' \in BOOLEAN
  BY <1>1 DEF PathIInv, MainType
<1>3. Ready(simp', prune')
  BY <1>1, ReadyNow DEF Ready, Kept
<1>4. IoGood' /\ io'.at # "snapped"
  <2>1. Idle \in IoSet /\ Idle.at = "idle" /\ Idle.raced = FALSE
    BY IdleIs, PathNumbers DEF Idle
  <2> QED BY <1>1, <2>1 DEF IoGood
<1> QED BY <1>1, <1>2, <1>3, <1>4, CleanupIInv

\* Every step of the two threads keeps the invariant.
LEMMA PathStep == PathIInv /\ [RtlNext]_rtlVars => PathIInv'
<1> SUFFICES ASSUME PathIInv, [RtlNext]_rtlVars PROVE PathIInv'
  OBVIOUS
<1>1. CASE HomeStep /\ Meanwhile(TRUE)
  BY <1>1, SetHomeIInv DEF HomeStep
<1>2. CASE FlightStep /\ Meanwhile(FALSE)
  BY <1>2, FlightStepIs, PopPointIInv, QuietIInv
<1>3. CASE RunBackgroundCleanup
  BY <1>3, SnapshotIInv, CleanupStepIInv, RemoveSimplifiedIInv, RemoveLoopsIInv,
     RemovalFailsIInv, AcknowledgeIInv
     DEF RunBackgroundCleanup, Removal
<1>4. CASE UNCHANGED rtlVars
  <2>1. MainType' /\ IoGood' /\ SimpGood(simp', count') /\ PruneGood(prune')
    BY <1>4 DEF rtlVars, PathIInv, MainType, IoGood, SimpGood
  <2>2. Safe' = Safe
    BY <1>4 DEF rtlVars, Safe, Kept
  <2>3. PruneHolds(prune', Safe')
    BY <1>4, <2>2 DEF rtlVars, PathIInv
  <2> QED BY <2>1, <2>3 DEF PathIInv
<1> QED BY <1>1, <1>2, <1>3, <1>4 DEF RtlNext

\* Whether a completion is of a run begun before its request is one or the other.
LEMMA MisreadInit == RtlInit => MisreadIsKept
BY DEF RtlInit, MisreadIsKept

\* It stays so.
LEMMA MisreadStep == PathIInv /\ MisreadIsKept /\ [RtlNext]_rtlVars => MisreadIsKept'
<1> USE DEF MisreadIsKept
<1> SUFFICES ASSUME PathIInv, misread \in BOOLEAN, [RtlNext]_rtlVars PROVE misread' \in BOOLEAN
  OBVIOUS
<1>1. io.renewed \in BOOLEAN
  BY DEF PathIInv, IoGood, IoSet
<1>2. (\E raced \in BOOLEAN : Meanwhile(raced)) \/ RunBackgroundCleanup \/ UNCHANGED rtlVars
  BY DEF RtlNext
<1> QED BY <1>1, <1>2 DEF Meanwhile, RunBackgroundCleanup, Acknowledge, rtlVars

\* The path home, its searches and the loops they find keep their types: loops
\* do not overlap, so that the indices of those left, shifted by each that is
\* cut out, still have their start before their end.
THEOREM PathType == RtlSpec => []RtlTypeOK
BY PathInit, PathStep, MisreadInit, MisreadStep, PathInvTypes, PTL DEF RtlSpec

\* What deactivates a path in a removal
LEMMA ErrorStep ==
    ASSUME PathIInv, active, ~active'
    PROVE  /\ RemoveSimplified => io.raced \/ simp.shrunk
           /\ RemoveLoops => \E k \in DOMAIN prune.loops : prune.loops[k].stale
BY RemoveSimplifiedIInv, RemoveLoopsIInv

\* Whatever the length of the path, the number of loops and of the main
\* thread's steps in between: the program error that should never happen has
\* no cause but these two.
THEOREM ErrorsAreCaused == RtlSpec => ErrorsHaveCauses
<1>1. PathIInv /\ [RtlNext]_rtlVars =>
        [active /\ ~active' =>
          /\ RemoveSimplified => io.raced \/ simp.shrunk
          /\ RemoveLoops => \E k \in DOMAIN prune.loops : prune.loops[k].stale]_rtlVars
  BY ErrorStep
<1>2. QED BY <1>1, PathInit, PathStep, PTL DEF RtlSpec, ErrorsHaveCauses

-----------------------------------------------------------------------------
(* The path home: a return starts clean *)

\* What a thorough cleanup has found when only loops are left to remove
Searched ==
    simp.complete /\ simp.flagged = {} /\ prune.complete /\ count <= simp.count

Flyable == active /\ count > 1

\* A request is of a SMART_RTL that waits, and its completion is told at the end
\* of a run.  Unless it has been made since the thread's run began, no point has
\* been added that the run does not know, so what it finds is true of the path.
Asked ==
    /\ request => smart = "WAIT"
    /\ request /\ complete => io.at \in {"idle", "snapped"}
    /\ request /\ complete /\ ~misread /\ Flyable => Clean

Pending ==
    request /\ ~io.renewed /\ Flyable =>
        /\ io.at = "snapped" => count <= io.count
        /\ io.at = "prune" /\ io.number = AllPoints => Searched
        /\ io.at = "cleaned" => Clean

CleanIInv == PathIInv /\ Asked /\ Pending

\* Home is set: there is at most one point.
LEMMA SetHomeClean ==
    ASSUME CleanIInv, NEW stored \in BOOLEAN, SetHome(stored), Meanwhile(TRUE)
    PROVE  Asked' /\ Pending'
<1>1. count' \in {0, 1} /\ UNCHANGED <<smart, request, complete>>
  BY DEF SetHome
<1>2. ~Flyable'
  BY <1>1 DEF Flyable
<1>3. io'.at = io.at
  BY MeanwhileIs DEF CleanIInv, PathIInv, IoGood
<1> QED BY <1>1, <1>2, <1>3 DEF CleanIInv, Asked, Pending

\* The flight's other steps: only SMART_RTL asks, and not twice.
LEMMA FlightClean ==
    ASSUME CleanIInv, FlightStep, Meanwhile(FALSE)
    PROVE  Asked' /\ Pending'
<1>1. /\ io'.at = io.at
      /\ io'.renewed = (io.renewed \/ (io.at # "idle" /\ ~request /\ request'))
  BY MeanwhileIs DEF CleanIInv, PathIInv, IoGood
<1>2. Asked /\ request \in BOOLEAN /\ complete \in BOOLEAN
  BY DEF CleanIInv, PathIInv, MainType
<1>3. CASE WaitCleanupRun /\ ~request
  <2>1. smart' = "WAIT" /\ ~complete'
    BY <1>3 DEF WaitCleanupRun
  <2>2. io.at = "idle" \/ io'.renewed
    BY <1>1, <1>3 DEF WaitCleanupRun
  <2> QED BY <1>1, <2>1, <2>2 DEF Asked, Pending
<1>4. CASE ~(WaitCleanupRun /\ ~request)
  <2>1. request' = FALSE
    BY <1>2, <1>4 DEF FlightStep, SmartRTLRun, AddPoint, SavingTimesOut, Saves, EnterSmartRTL,
                      ExitSmartRTL, WaitCleanupRun, PopPoint, FollowGivesUp, Asked
  <2> QED BY <2>1 DEF Asked, Pending
<1> QED BY <1>3, <1>4

\* A cleanup leaves its snapshot only to end, or to remove some points.  It is
\* told complete, or all loops are removed, when it has been asked for and has
\* found nothing in the path as it was at its snapshot.
LEMMA ThoroughClean ==
    ASSUME CleanIInv, Cleanup, request, ~complete
    PROVE  /\ io'.at # "snapped" /\ UNCHANGED complete
           /\ io'.at = "prune" \/ io'.at = "cleaned" =>
                /\ io'.renewed = io.renewed
                /\ count <= io.count => Searched'
                /\ io'.at = "cleaned" => prune'.loops = <<>>
<1>1. /\ io.at = "snapped" /\ ThoroughCleanup
      /\ UNCHANGED <<smart, active, count, request, complete>>
  BY DEF Cleanup
<1>2. /\ count \in Nat /\ simp.count \in Nat /\ io.count \in Nat
      /\ SimpGood(simp, count) /\ simp.complete \in BOOLEAN
  BY PathNumbers DEF CleanIInv, PathIInv, SimpGood, SimpSet, Points
<1> DEFINE r == RestartSimplification(simp, io.count)
           s == IF simp.complete /\ simp.count # io.count THEN r ELSE simp
           p == PruningOf(prune, s)
<1>3. ~r.complete
  BY <1>2 DEF SimpGood, SimpSet, RestartSimplification
<1>4. /\ Idle.at = "idle"
      /\ \A at \in {"simplify", "prune"}, n \in {0, CleanupMin, AllPoints} :
            LET w == [Idle EXCEPT !.at = at, !.number = n, !.renewed = io.renewed]
            IN  w.at = at /\ w.renewed = io.renewed
      /\ LET w == [Idle EXCEPT !.at = "cleaned", !.renewed = io.renewed]
         IN  w.at = "cleaned" /\ w.renewed = io.renewed
  BY DEF Idle
<1>5. \/ ~s.complete /\ Searches(s)
      \/ s.complete /\ s.removal /\ Removes("simplify", 0, s, prune)
      \/ s.complete /\ ~s.removal /\
         \/ ~p.complete /\ LooksForLoops(p, s)
         \/ p.complete /\ p.loops # <<>> /\ Removes("prune", AllPoints, s, p)
         \/ p.complete /\ p.loops = <<>> /\ Completes(s, p)
  <2> HIDE DEF s, p
  <2> QED BY <1>1 DEF ThoroughCleanup, s, p, r
<1>6. CASE ~s.complete \/ s.removal \/ ~p.complete
  <2>1. Searches(s) \/ Removes("simplify", 0, s, prune) \/ LooksForLoops(p, s)
    <3> HIDE DEF s, p
    <3> QED BY <1>5, <1>6
  <2> HIDE DEF s, p
  <2>2. io'.at \in {"idle", "simplify"}
    BY <1>4, <2>1 DEF Searches, Removes, LooksForLoops
  <2> QED BY <1>1, <2>2
<1>7. CASE s.complete /\ ~s.removal /\ p.complete
  <2>1. s = simp /\ simp.count = io.count /\ simp.complete /\ ~simp.removal
    BY <1>3, <1>7
  <2>2. simp.flagged = {}
    BY <1>2, <2>1 DEF SimpGood
  <2>3. \/ Removes("prune", AllPoints, simp, p)
        \/ p.loops = <<>> /\ Completes(simp, p)
    <3> HIDE DEF s, p
    <3> QED BY <1>5, <1>7, <2>1
  <2>4. p.complete
    BY <1>7
  <2> HIDE DEF s, p
  <2>5. /\ simp' = simp /\ prune' = p /\ io'.renewed = io.renewed
        /\ io'.at \in {"prune", "cleaned"} /\ (io'.at = "cleaned" => p.loops = <<>>)
    BY <1>4, <2>3 DEF Removes, Completes
  <2>6. count <= io.count => Searched'
    BY <1>1, <2>1, <2>2, <2>4, <2>5 DEF Searched
  <2> QED BY <1>1, <2>5, <2>6
<1> QED BY <1>6, <1>7

\* The steps of the IO thread
LEMMA BackgroundClean ==
    ASSUME CleanIInv, RunBackgroundCleanup
    PROVE  Asked' /\ Pending'
<1>1. /\ Asked /\ Pending /\ count \in Nat /\ simp \in SimpSet /\ prune \in PruneSet
      /\ request \in BOOLEAN /\ complete \in BOOLEAN
  BY PathNumbers DEF CleanIInv, PathIInv, MainType, SimpGood, PruneGood
<1>2. CASE Snapshot /\ UNCHANGED misread
  <2>1. /\ io.at = "idle" /\ io'.at = "snapped" /\ io'.count = count
        /\ UNCHANGED <<smart, active, count, request, complete, simp, prune, misread>>
    BY <1>2 DEF Snapshot, Idle
  <2> QED BY <1>1, <2>1 DEF Asked, Pending, Clean, Flyable
<1>3. CASE Cleanup /\ UNCHANGED misread
  <2>1. /\ UNCHANGED <<smart, active, count, request, misread>> /\ io.at = "snapped"
    BY <1>3 DEF Cleanup
  <2>2. CASE ~request
    BY <2>1, <2>2 DEF Asked, Pending
  <2>3. CASE request /\ complete
    <3>1. io' = Idle /\ UNCHANGED <<complete, simp, prune>>
      BY <1>3, <2>3 DEF Cleanup, Ends
    <3>2. io'.at = "idle"
      BY <3>1 DEF Idle
    <3> QED BY <1>1, <2>1, <2>3, <3>1, <3>2 DEF Asked, Pending, Clean, Flyable
  <2>4. CASE request /\ ~complete
    <3>1. /\ io'.at # "snapped" /\ complete' = complete
          /\ io'.at = "prune" \/ io'.at = "cleaned" =>
               /\ io'.renewed = io.renewed
               /\ count <= io.count => Searched'
               /\ io'.at = "cleaned" => prune'.loops = <<>>
      BY <1>3, <2>4, ThoroughClean
    <3>2. Asked'
      BY <1>1, <2>1, <2>4, <3>1 DEF Asked
    <3>3. Pending'
      BY <1>1, <2>1, <2>4, <3>1 DEF Pending, Flyable, Searched, Clean
    <3> QED BY <3>2, <3>3
  <2> QED BY <1>1, <2>2, <2>3, <2>4
<1>4. CASE (RemoveSimplified \/ RemovalFails) /\ UNCHANGED misread
  <2>1. /\ io.at \in {"simplify", "prune"} /\ io'.at = "idle"
        /\ UNCHANGED <<smart, request, complete>>
    BY <1>4 DEF RemoveSimplified, RemovalFails, Idle
  <2> QED BY <1>1, <2>1 DEF Asked, Pending
<1>5. CASE RemoveLoops /\ UNCHANGED misread
  <2>1. /\ count' <= count /\ count' \in Nat
        /\ (io.number = AllPoints /\ active' => prune'.loops = <<>>)
    <3>1. PathIInv /\ PathIInv'
      BY <1>5, RemoveLoopsIInv DEF CleanIInv
    <3> QED BY <1>5, <3>1, RemoveLoopsIInv, PathNumbers DEF PathIInv, MainType, Points
  <2>2. /\ io.at = "prune" /\ UNCHANGED <<smart, request, complete>> /\ (active' => active)
        /\ \/ io'.at = "cleaned" /\ io'.renewed = io.renewed /\ io.number = AllPoints
           \/ io'.at = "idle"
    BY <1>5 DEF RemoveLoops, Idle
  <2>3. /\ simp'.complete = simp.complete /\ simp'.flagged = simp.flagged
        /\ simp'.count = simp.count /\ prune'.complete = prune.complete
        /\ simp.count \in Nat
    BY <1>1, <1>5 DEF RemoveLoops, Shrunk, SimpSet, PruneSet, Points
  <2>4. Asked'
    BY <1>1, <2>2 DEF Asked
  <2>5. Pending'
    BY <1>1, <2>1, <2>2, <2>3 DEF Pending, Flyable, Searched, Clean
  <2> QED BY <2>4, <2>5
<1>6. CASE Acknowledge
  <2>1. /\ io.at = "cleaned" /\ io'.at = "idle" /\ complete' = request
        /\ misread' = (io.renewed /\ request)
        /\ UNCHANGED <<smart, active, count, request, simp, prune>>
    BY <1>6 DEF Acknowledge, Idle
  <2> QED BY <1>1, <2>1 DEF Asked, Pending, Clean, Flyable
<1> QED BY <1>2, <1>3, <1>4, <1>5, <1>6 DEF RunBackgroundCleanup, Removal

\* Initially nothing is asked for.
LEMMA CleanInit == RtlInit => CleanIInv
BY PathInit DEF RtlInit, CleanIInv, Asked, Pending

\* Every step keeps it.
LEMMA CleanStep == CleanIInv /\ [RtlNext]_rtlVars => CleanIInv'
<1> SUFFICES ASSUME CleanIInv, [RtlNext]_rtlVars PROVE Asked' /\ Pending'
  BY PathStep DEF CleanIInv
<1>1. CASE HomeStep /\ Meanwhile(TRUE)
  BY <1>1, SetHomeClean DEF HomeStep
<1>2. CASE FlightStep /\ Meanwhile(FALSE)
  BY <1>2, FlightClean
<1>3. CASE RunBackgroundCleanup
  BY <1>3, BackgroundClean
<1>4. CASE UNCHANGED rtlVars
  BY <1>4 DEF rtlVars, CleanIInv, Asked, Pending, Flyable, Searched, Clean
<1> QED BY <1>1, <1>2, <1>3, <1>4 DEF RtlNext

\* SMART_RTL turns to fly back: what Asked says of a request that is complete
LEMMA FollowsClean ==
    ASSUME CleanIInv, [RtlNext]_rtlVars, Returns, ~misread
    PROVE  Clean
<1>1. smart = "WAIT" /\ smart' = "FOLLOW" /\ count > 1
  BY DEF Returns
<1>2. WaitCleanupRun
  <2>1. ~RunBackgroundCleanup /\ ~HomeStep /\ ~UNCHANGED rtlVars
    BY <1>1 DEF RunBackgroundCleanup, Snapshot, Cleanup, Removal, RemoveSimplified, RemoveLoops,
                RemovalFails, Acknowledge, HomeStep, SetHome, rtlVars
  <2>2. FlightStep
    BY <2>1 DEF RtlNext
  <2> QED BY <1>1, <2>2 DEF FlightStep, AddPoint, SavingTimesOut, EnterSmartRTL, ExitSmartRTL,
                            Saves, SmartRTLRun, PopPoint, FollowGivesUp
<1>3. active /\ request /\ complete
  BY <1>1, <1>2 DEF WaitCleanupRun
<1> QED BY <1>1, <1>3 DEF CleanIInv, Asked, Flyable

\* Whatever the length of the path, and however many steps the main thread takes
\* within a run of the IO thread's, withdrawing its request and repeating it
\* among them: SMART_RTL flies back along a path that is clean to its last
\* point, unless what it was told is the end of a run begun before its request.
THEOREM ReturnIsClean == RtlSpec => ReturnStartsClean
<1>1. CleanIInv /\ [RtlNext]_rtlVars => [Returns /\ ~misread => Clean]_rtlVars
  BY FollowsClean
<1> QED BY <1>1, CleanInit, CleanStep, PTL DEF RtlSpec, ReturnStartsClean

-----------------------------------------------------------------------------
(* All four watches *)

\* The types of the batteries, whatever they may read after a reset
LEMMA BattTypeStep == BattMonitorTypeOK /\ [BattMonitorNext]_battMonitorVars => BattMonitorTypeOK'
<1> SUFFICES ASSUME BattMonitorTypeOK, [BattMonitorNext]_battMonitorVars
             PROVE  BattMonitorTypeOK'
  OBVIOUS
<1> USE DEF BattMonitorTypeOK
<1>1. ASSUME NEW level \in Levels, CheckFailsafes(level) PROVE BattMonitorTypeOK'
  <2> DEFINE p == Priority(ActionAt(turn, level))
  <2>1. turn' \in Batteries
    BY <1>1, BattMonitorAssumption DEF CheckFailsafes, NextTurn, Batteries
  <2>2. p \in Priorities
    BY PriorityType DEF Priorities
  <2>3. failsafe' \in [Batteries -> Levels]
    BY <1>1 DEF CheckFailsafes
  <2>4. triggered' \in BOOLEAN
    BY <1>1 DEF CheckFailsafes
  <2>5. highest' \in {highest, p} /\ armed' \in {armed, FALSE}
    BY <1>1 DEF CheckFailsafes
  <2> HIDE DEF p
  <2> QED BY <2>1, <2>2, <2>3, <2>4, <2>5
<1>2. ASSUME NEW reset \in SUBSET Batteries, NEW levels \in [Batteries -> ResetLevels],
             ResetRemaining(reset, levels)
      PROVE  BattMonitorTypeOK'
  <2>1. failsafe' \in [Batteries -> Levels]
    BY <1>2, BattMonitorAssumption DEF ResetRemaining
  <2>2. /\ highest' \in {highest, NoPriority} /\ triggered' \in {triggered, FALSE}
        /\ UNCHANGED <<armed, turn>>
    BY <1>2 DEF ResetRemaining
  <2> QED BY <2>1, <2>2 DEF Priorities
<1>3. CASE ArmOrDisarm
  BY <1>3 DEF ArmOrDisarm
<1>4. CASE UNCHANGED battMonitorVars
  BY <1>4 DEF battMonitorVars
<1> QED BY <1>1, <1>2, <1>3, <1>4 DEF BattMonitorNext

\* A step of the composition is a step of each watch or leaves it alone.
LEMMA MonitorsSteps ==
    /\ MonitorsInit => BattMonitorInit /\ CpuInit /\ RadioInit /\ RtlInit
    /\ [MonitorsNext]_monitorsVars =>
          /\ [BattMonitorNext]_battMonitorVars /\ [CpuNext]_cpuVars
          /\ [RadioNext]_radioVars /\ [RtlNext]_rtlVars
BY DEF MonitorsInit, MonitorsNext, BattPart, CpuPart, RadioPart, PathPart, monitorsVars

\* So a behaviour of the composition is one of the main loop's watch and one of
\* the radio link's.
LEMMA MonitorsAreWatches == MonitorsSpec => CpuSpec /\ RadioSpec
BY MonitorsSteps, PTL DEF MonitorsSpec, CpuSpec, RadioSpec

\* Side by side, the watches and the path keep their types for any numbers of
\* batteries, ticks, frames, points and loops, and levels after a reset.
THEOREM MonitorsType == MonitorsSpec => []MonitorsTypeOK
<1>1. MonitorsSpec => []BattMonitorTypeOK
  <2>1. BattMonitorInit => BattMonitorTypeOK
    BY BattMonitorInitIInv DEF BattMonitorIInv
  <2> QED BY <2>1, BattTypeStep, MonitorsSteps, PTL DEF MonitorsSpec
<1>2. MonitorsSpec => []CpuTypeOK
  <2>1. CpuIInv => CpuTypeOK
    BY DEF CpuIInv
  <2> QED BY <2>1, CpuInductive, MonitorsAreWatches, PTL
<1>3. MonitorsSpec => []RadioTypeOK
  <2>1. RadioIInv => RadioTypeOK
    BY DEF RadioIInv
  <2> QED BY <2>1, RadioInductive, MonitorsAreWatches, PTL
<1>4. MonitorsSpec => []RtlTypeOK
  BY PathInit, PathStep, MisreadInit, MisreadStep, PathInvTypes, MonitorsSteps, PTL
     DEF MonitorsSpec
<1> QED BY <1>1, <1>2, <1>3, <1>4, PTL DEF MonitorsTypeOK

\* What is proved of the loop, the link and the path's errors holds of the
\* composition whatever the constants are.
THEOREM MonitorsKeep ==
    MonitorsSpec => OnlySilentLoopTrips /\ LowThrottleEndsSlowly /\ ErrorsHaveCauses
<1>1. PathIInv /\ [RtlNext]_rtlVars =>
        [active /\ ~active' =>
          /\ RemoveSimplified => io.raced \/ simp.shrunk
          /\ RemoveLoops => \E k \in DOMAIN prune.loops : prune.loops[k].stale]_rtlVars
  BY ErrorStep
<1>2. MonitorsSpec => ErrorsHaveCauses
  BY <1>1, PathInit, PathStep, MonitorsSteps, PTL DEF MonitorsSpec, ErrorsHaveCauses
<1> QED BY <1>2, MonitorsAreWatches, OnlyASilentLoopTrips, LowThrottleFailsafeEndsSlowly, PTL
=============================================================================
