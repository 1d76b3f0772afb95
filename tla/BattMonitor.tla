----------------------------- MODULE BattMonitor -----------------------------
(***************************************************************************)
(* AP_BattMonitor's failsafe: each battery has a level that has triggered, *)
(* the vehicle has the priority of the most urgent action asked of it.     *)
(*                                                                         *)
(* check_failsafes() visits the batteries in one pass.  It looks at        *)
(* soft_armed once, before the pass, while the handler of one battery may  *)
(* disarm the vehicle before the next is looked at; turn is the battery    *)
(* the pass has reached.  How a level comes from voltages, capacities and  *)
(* their timers is left open: a reading is any level at any time.          *)
(***************************************************************************)
EXTENDS FlightModes

CONSTANTS
    N,             \* number of batteries
    LowActions,    \* BATTx_FS_LOW_ACT of each battery
    CritActions,   \* BATTx_FS_CRT_ACT of each battery
    ResetLevels    \* the levels a battery may have just after a reset

Batteries == 1..N
Levels == {0, 1, 2}   \* enum Failsafe: None, Low, Critical

ASSUME BattMonitorAssumption ==
    /\ N \in Nat \ {0}
    /\ LowActions \in [Batteries -> FailsafeActions]
    /\ CritActions \in [Batteries -> FailsafeActions]
    /\ ResetLevels \subseteq Levels

VARIABLES
    armed,      \* hal.util->get_soft_armed()
    turn,       \* the battery check_failsafes() has reached, 1 between passes
    failsafe,   \* state[i].failsafe
    highest,    \* _highest_failsafe_priority
    triggered   \* _has_triggered_failsafe

battMonitorVars == <<armed, turn, failsafe, highest, triggered>>

Priorities == 0..6 \cup {NoPriority}

BattMonitorTypeOK ==
    /\ armed \in BOOLEAN
    /\ turn \in Batteries
    /\ failsafe \in [Batteries -> Levels]
    /\ highest \in Priorities
    /\ triggered \in BOOLEAN

BattMonitorInit ==
    /\ armed = FALSE
    /\ turn = 1
    /\ failsafe = [b \in Batteries |-> 0]
    /\ highest = NoPriority
    /\ triggered = FALSE

ActionAt(b, level) == IF level = 1 THEN LowActions[b] ELSE CritActions[b]

\* Bug: whatever battery fails last has its way.
Urgent_Always(action) == TRUE

\* "trigger failsafe if the action was equal or higher priority"
Urgent(action) == Priority(action) <= highest

\* Bug: the pass goes one battery too far.
NextTurn_Beyond(b) == IF b > N THEN 1 ELSE b + 1

NextTurn(b) == IF b = N THEN 1 ELSE b + 1

\* The turn of one battery whose reading is level.  A level no worse than the
\* one that has triggered does nothing; the handler may disarm.
CheckFailsafes(level) ==
    /\ turn = 1 => armed
    /\ turn' = NextTurn(turn)
    /\ LET b == turn
           action == ActionAt(b, level)
       IN  IF level <= failsafe[b]
           THEN UNCHANGED <<armed, failsafe, highest, triggered>>
           ELSE /\ failsafe' = [failsafe EXCEPT ![b] = level]
                /\ triggered' = TRUE
                /\ IF Urgent(action)
                   THEN highest' = Priority(action) /\ armed' \in {armed, FALSE}
                   ELSE UNCHANGED <<armed, highest>>

\* Bug: only the batteries that are reset are asked.
NoneLeft_Reset(reset, levels) == \A b \in reset : levels[b] = 0

NoneLeft(reset, levels) == \A b \in Batteries : levels[b] = 0

\* reset_remaining_mask(), from MAVLink's BATTERY_RESET: the reset batteries
\* get the level they read now, with no call of the handler.  A driver that
\* cannot be reset is as good as not in the mask.
ResetRemaining(reset, levels) ==
    /\ turn = 1
    /\ failsafe' = [b \in Batteries |-> IF b \in reset THEN levels[b] ELSE failsafe[b]]
    /\ IF NoneLeft(reset, failsafe')
       THEN highest' = NoPriority /\ triggered' = FALSE
       ELSE UNCHANGED <<highest, triggered>>
    /\ UNCHANGED <<armed, turn>>

\* Anything else arms or disarms the vehicle.
ArmOrDisarm ==
    /\ turn = 1
    /\ armed' \in BOOLEAN
    /\ UNCHANGED <<turn, failsafe, highest, triggered>>

BattMonitorNext ==
    \/ \E level \in Levels : CheckFailsafes(level)
    \/ \E reset \in SUBSET Batteries, levels \in [Batteries -> ResetLevels] :
           ResetRemaining(reset, levels)
    \/ ArmOrDisarm

BattMonitorSpec == BattMonitorInit /\ [][BattMonitorNext]_battMonitorVars

-----------------------------------------------------------------------------
(* Properties *)

\* Every battery that has triggered was listened to: the action in force is at
\* least as urgent as the one its own parameters ask for at its level, in
\* whatever order the batteries fail and whichever of them recover.
NoBatteryIgnored ==
    \A b \in Batteries :
        failsafe[b] # 0 => highest <= Priority(ActionAt(b, failsafe[b]))

\* The vehicle-wide state goes when the last battery's does, not before: what
\* has_failsafed() tells the radio and ground station failsafes is true.
TriggeredIffFailsafe == triggered <=> \E b \in Batteries : failsafe[b] # 0
=============================================================================
