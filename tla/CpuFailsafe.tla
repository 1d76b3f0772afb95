----------------------------- MODULE CpuFailsafe -----------------------------
(***************************************************************************)
(* The watch over the main loop (ArduCopter/failsafe.cpp): the timer       *)
(* thread calls failsafe_check() a thousand times a second, above the      *)
(* main loop's priority, and stops the motors of a loop that has locked    *)
(* up.  It shares its variables with the main loop without a lock, so      *)
(* arming and disarming are taken step by step (pc) and the check may come *)
(* between any two.  Nothing makes the main loop go on: a lockup is a      *)
(* main loop that takes no more steps.                                     *)
(***************************************************************************)
EXTENDS Naturals

CONSTANTS
    TripAfter,     \* silence, in units of time, that is tolerated: 2 s
    RepeatAfter,   \* then the motors are disarmed again after this: 1 s
    MaxTime        \* clocks stop counting here

ASSUME CpuFailsafeAssumption ==
    /\ TripAfter \in Nat /\ RepeatAfter \in Nat /\ MaxTime \in Nat
    /\ RepeatAfter <= TripAfter /\ TripAfter < MaxTime

VARIABLES
    pc,            \* where the main loop is
    ticked,        \* scheduler.ticks() # failsafe_last_ticks
    enabled,       \* failsafe_enabled
    inFailsafe,    \* in_failsafe
    age,           \* micros() - failsafe_last_timestamp
    motorsArmed,   \* motors->armed()
    arming,        \* AP_Arming::armed
    silent,        \* time since the main loop last ticked
    checked        \* the timer has fired since time last passed

cpuVars == <<pc, ticked, enabled, inFailsafe, age, motorsArmed, arming, silent, checked>>

\* loop is the top of the main loop; the others are places in arm() and disarm().
InArm == {"passed", "initialising", "spinning", "enabling"}
Places == {"loop", "disarming"} \cup InArm
Clock == 0..MaxTime

CpuInit ==
    /\ pc = "loop" /\ ticked = FALSE
    /\ enabled = TRUE /\ inFailsafe = FALSE /\ age = 0
    /\ motorsArmed = FALSE /\ arming = FALSE
    /\ silent = 0 /\ checked = FALSE

-----------------------------------------------------------------------------
(* The main loop *)

Goto(from, to) == pc = from /\ pc' = to

\* AP_Scheduler::loop()
Tick ==
    /\ pc = "loop"
    /\ ticked' = TRUE /\ silent' = 0
    /\ UNCHANGED <<pc, enabled, inFailsafe, age, motorsArmed, arming, checked>>

\* AP_Arming::arm() passes; it refuses when its own flag is set.
ArmPasses ==
    /\ Goto("loop", "passed") /\ ~motorsArmed /\ ~arming
    /\ arming' = TRUE
    /\ UNCHANGED <<ticked, enabled, inFailsafe, age, motorsArmed, silent, checked>>

\* failsafe_disable(), for the slow part of arming that follows.
FailsafeDisable ==
    /\ Goto("passed", "initialising")
    /\ enabled' = FALSE
    /\ UNCHANGED <<ticked, inFailsafe, age, motorsArmed, arming, silent, checked>>

\* motors->armed(true)
ArmMotors ==
    /\ Goto("initialising", "spinning")
    /\ motorsArmed' = TRUE
    /\ UNCHANGED <<ticked, enabled, inFailsafe, age, arming, silent, checked>>

\* failsafe_enable(): the flag, then the time.
FailsafeEnable ==
    /\ Goto("spinning", "enabling")
    /\ enabled' = TRUE
    /\ UNCHANGED <<ticked, inFailsafe, age, motorsArmed, arming, silent, checked>>

FailsafeStamp ==
    /\ Goto("enabling", "loop")
    /\ age' = 0
    /\ UNCHANGED <<ticked, enabled, inFailsafe, motorsArmed, arming, silent, checked>>

\* disarm() of an armed vehicle: AP_Arming's flag, then the motors.
DisarmFlag ==
    /\ Goto("loop", "disarming") /\ motorsArmed /\ arming
    /\ arming' = FALSE
    /\ UNCHANGED <<ticked, enabled, inFailsafe, age, motorsArmed, silent, checked>>

DisarmMotors ==
    /\ Goto("disarming", "loop")
    /\ motorsArmed' = FALSE
    /\ UNCHANGED <<ticked, enabled, inFailsafe, age, arming, silent, checked>>

MainLoop ==
    Tick \/ ArmPasses \/ FailsafeDisable \/ ArmMotors \/ FailsafeEnable \/ FailsafeStamp
    \/ DisarmFlag \/ DisarmMotors

-----------------------------------------------------------------------------
(* The timer thread *)

\* Bug: the loop runs again, but the failsafe is not over.
LoopRuns_StillFailing ==
    ticked /\ age' = 0 /\ UNCHANGED <<enabled, inFailsafe, motorsArmed>>

\* "the main loop is running, all is OK"
LoopRuns ==
    ticked /\ age' = 0 /\ inFailsafe' = FALSE /\ UNCHANGED <<enabled, motorsArmed>>

\* Bug: the time of the last check is kept, not that of the last tick.
LoopSilent_Restamps ==
    LET trips == ~inFailsafe /\ enabled /\ age > TripAfter
        stops == enabled /\ (inFailsafe \/ trips) /\ age > RepeatAfter
    IN  /\ ~ticked /\ inFailsafe' = (inFailsafe \/ trips)
        /\ age' = 0
        /\ motorsArmed' = (motorsArmed /\ ~stops)
        /\ UNCHANGED enabled

\* Trips once, and in the same call already disarms; then once every second.
LoopSilent ==
    LET trips == ~inFailsafe /\ enabled /\ age > TripAfter
        stops == enabled /\ (inFailsafe \/ trips) /\ age > RepeatAfter
    IN  /\ ~ticked /\ inFailsafe' = (inFailsafe \/ trips)
        /\ age' = IF stops THEN 0 ELSE age
        /\ motorsArmed' = (motorsArmed /\ ~stops)
        /\ UNCHANGED enabled

FailsafeCheck ==
    /\ LoopRuns \/ LoopSilent
    /\ ticked' = FALSE /\ checked' = TRUE
    /\ UNCHANGED <<pc, arming, silent>>

\* Bug: a clock that runs over.
Elapsed_Unbounded(t) == t + 1

Elapsed(t) == IF t < MaxTime THEN t + 1 ELSE t

\* A unit of time never passes without a timer interrupt.
TimePasses ==
    /\ checked /\ checked' = FALSE
    /\ age' = Elapsed(age) /\ silent' = Elapsed(silent)
    /\ UNCHANGED <<pc, ticked, enabled, inFailsafe, motorsArmed, arming>>

-----------------------------------------------------------------------------
CpuNext == MainLoop \/ FailsafeCheck \/ TimePasses

CpuSpec == CpuInit /\ [][CpuNext]_cpuVars

\* The timer fires and time passes, whatever the main loop does.
CpuFairSpec == CpuSpec /\ WF_cpuVars(FailsafeCheck) /\ WF_cpuVars(TimePasses)

-----------------------------------------------------------------------------
(* Properties *)

CpuTypeOK ==
    /\ pc \in Places
    /\ ticked \in BOOLEAN /\ enabled \in BOOLEAN /\ inFailsafe \in BOOLEAN
    /\ age \in Clock /\ silent \in Clock /\ checked \in BOOLEAN
    /\ motorsArmed \in BOOLEAN /\ arming \in BOOLEAN

\* The timer never stops the motors under a main loop that runs: whatever it
\* meets half way through arming or after an earlier failsafe, the loop has
\* then been silent for longer than is tolerated.
OnlySilentLoopTrips ==
    [][motorsArmed /\ ~motorsArmed' => silent > TripAfter \/ pc = "disarming"]_cpuVars

\* A main loop that locks up with its motors armed has them stopped, unless
\* it locks up inside arm() while the failsafe is disabled.
HungLoopStopsMotors ==
    motorsArmed /\ enabled ~> ~motorsArmed \/ ~enabled \/ silent = 0

-----------------------------------------------------------------------------
(* What comments say, and the code does not do. *)

\* AP_Arming::arm() refuses a vehicle that is "already armed" by its own flag,
\* so the flag is set of an armed vehicle only.
AlreadyArmedIsArmed == pc = "loop" /\ arming => motorsArmed
=============================================================================
