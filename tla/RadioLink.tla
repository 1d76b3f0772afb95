------------------------------ MODULE RadioLink ------------------------------
(***************************************************************************)
(* How the loss of the radio is detected (ArduCopter/radio.cpp): frames    *)
(* whose throttle is below FS_THR_VALUE count up to FS_COUNTER, good ones  *)
(* count down, and silence for RC_FS_TIMEOUT counts as a loss at once.     *)
(* What the failsafe then does to the vehicle is Copter's ReadRadio.       *)
(*                                                                         *)
(* rc_loop() polls the receiver 250 times a second; what it finds (nothing,*)
(* a low or a good frame) is the environment's choice, and so are arming   *)
(* and the parameter FS_THR_ENABLE, which may be set in flight.            *)
(***************************************************************************)
EXTENDS Naturals

CONSTANTS
    FsCounter,   \* FS_COUNTER
    Timeout      \* RC_FS_TIMEOUT, in units of time

ASSUME RadioLinkAssumption == FsCounter \in Nat \ {0} /\ Timeout \in Nat \ {0}

VARIABLES
    counter,       \* failsafe.radio_counter
    radioFailsafe, \* failsafe.radio
    present,       \* ap.rc_receiver_present
    fsThr,         \* FS_THR_ENABLE is not 0
    vehicleArmed,  \* motors->armed()
    sinceFrame,    \* millis() - last_radio_update_ms
    polled,        \* rc_loop() has run since time last passed
    heard,         \* what the last poll found
    goods,         \* good frames since the failsafe began
    byLow          \* the failsafe began with a low frame

linkVars == <<counter, radioFailsafe, present, fsThr, vehicleArmed, sinceFrame, polled>>
linkHistory == <<heard, goods, byLow>>
radioVars == <<linkVars, linkHistory>>

Count == 0..FsCounter
UpTo(bound, n) == IF n < bound THEN n + 1 ELSE bound

RadioInit ==
    /\ counter = 0 /\ radioFailsafe = FALSE /\ present = FALSE /\ fsThr = TRUE
    /\ vehicleArmed = FALSE /\ sinceFrame = 0 /\ polled = FALSE
    /\ heard = "nothing" /\ goods = 0 /\ byLow = FALSE

-----------------------------------------------------------------------------
(* set_throttle_and_failsafe() *)

Ignored == ~fsThr \/ radioFailsafe \/ ~(present \/ vehicleArmed)

\* Bug: the count is not held at FS_COUNTER.
LowThrottle_Uncapped ==
    IF Ignored THEN UNCHANGED <<counter, radioFailsafe>>
    ELSE /\ counter' = counter + 1
         /\ radioFailsafe' = (counter + 1 > FsCounter)

LowThrottle ==
    IF Ignored THEN UNCHANGED <<counter, radioFailsafe>>
    ELSE /\ counter' = UpTo(FsCounter, counter)
         /\ radioFailsafe' = (counter + 1 >= FsCounter)

\* Bug: ends one frame early.
GoodThrottle_Early ==
    IF ~fsThr THEN UNCHANGED <<counter, radioFailsafe>>
    ELSE /\ counter' = IF counter > 0 THEN counter - 1 ELSE 0
         /\ radioFailsafe' = (radioFailsafe /\ counter > 2)

\* Bug: in failsafe good frames are passed over, as low ones are.
GoodThrottle_Ignored ==
    IF Ignored THEN UNCHANGED <<counter, radioFailsafe>>
    ELSE /\ counter' = IF counter > 0 THEN counter - 1 ELSE 0
         /\ radioFailsafe' = (radioFailsafe /\ counter > 1)

GoodThrottle ==
    IF ~fsThr THEN UNCHANGED <<counter, radioFailsafe>>
    ELSE /\ counter' = IF counter > 0 THEN counter - 1 ELSE 0
         /\ radioFailsafe' = (radioFailsafe /\ counter > 1)

-----------------------------------------------------------------------------
(* read_radio() *)

Began == ~radioFailsafe /\ radioFailsafe'

LowFrame ==
    /\ LowThrottle
    /\ present' = TRUE /\ sinceFrame' = 0 /\ polled' = TRUE
    /\ heard' = "low"
    /\ goods' = IF Began THEN 0 ELSE goods
    /\ byLow' = (byLow \/ Began)
    /\ UNCHANGED <<fsThr, vehicleArmed>>

GoodFrame ==
    /\ GoodThrottle
    /\ present' = TRUE /\ sinceFrame' = 0 /\ polled' = TRUE
    /\ heard' = "good"
    /\ goods' = UpTo(FsCounter, goods)
    /\ byLow' = (byLow /\ radioFailsafe')
    /\ UNCHANGED <<fsThr, vehicleArmed>>

\* Bug: without a receiver seen since boot silence means nothing.
LateFrame_Unseen == fsThr /\ ~radioFailsafe /\ sinceFrame >= Timeout /\ present

LateFrame == fsThr /\ ~radioFailsafe /\ sinceFrame >= Timeout /\ (present \/ vehicleArmed)

NoFrame ==
    /\ radioFailsafe' = (radioFailsafe \/ LateFrame)
    /\ polled' = TRUE
    /\ heard' = "nothing" /\ goods' = IF Began THEN 0 ELSE goods
    /\ UNCHANGED <<counter, present, fsThr, vehicleArmed, sinceFrame, byLow>>

ReadRadio == LowFrame \/ GoodFrame \/ NoFrame

\* Time never passes without a poll.
LinkTimePasses ==
    /\ polled /\ polled' = FALSE
    /\ sinceFrame' = UpTo(Timeout, sinceFrame)
    /\ UNCHANGED <<counter, radioFailsafe, present, fsThr, vehicleArmed, linkHistory>>

ArmOrDisarmVehicle ==
    /\ vehicleArmed' = ~vehicleArmed
    /\ UNCHANGED <<counter, radioFailsafe, present, fsThr, sinceFrame, polled, linkHistory>>

SetParameter ==
    /\ fsThr' = ~fsThr
    /\ UNCHANGED <<counter, radioFailsafe, present, vehicleArmed, sinceFrame, polled, linkHistory>>

-----------------------------------------------------------------------------
RadioNext == ReadRadio \/ LinkTimePasses \/ ArmOrDisarmVehicle \/ SetParameter

RadioSpec == RadioInit /\ [][RadioNext]_radioVars

\* rc_loop() is scheduled and time passes; frames need not come.
RadioFairSpec == RadioSpec /\ WF_radioVars(ReadRadio) /\ WF_radioVars(LinkTimePasses)

-----------------------------------------------------------------------------
(* Properties *)

RadioTypeOK ==
    /\ counter \in Count /\ goods \in Count
    /\ radioFailsafe \in BOOLEAN /\ present \in BOOLEAN /\ fsThr \in BOOLEAN
    /\ vehicleArmed \in BOOLEAN /\ sinceFrame \in 0..Timeout /\ polled \in BOOLEAN
    /\ heard \in {"nothing", "low", "good"} /\ byLow \in BOOLEAN

\* A failsafe that low throttle began ends after as many good frames as it
\* took to begin, whatever silences, low frames, arming or changes of the
\* parameter come between.
LowThrottleEndsSlowly ==
    [][radioFailsafe /\ ~radioFailsafe' /\ byLow => goods' = FsCounter]_radioVars

\* A vehicle that is armed and hears nothing goes into failsafe, even one that
\* has never had a receiver.
SilenceIsNoticed ==
    vehicleArmed /\ fsThr ~> radioFailsafe \/ ~vehicleArmed \/ ~fsThr \/ sinceFrame = 0

\* Once good frames are all there is to hear, the failsafe ends for good, as
\* long as the parameter stays on: FS_THR_ENABLE set to 0 during a failsafe
\* keeps it.
GoodLinkEndsFailsafe ==
    <>[](fsThr /\ heard = "good") => <>[]~radioFailsafe
=============================================================================
