--------------------------- MODULE CopterBatteries ---------------------------
(***************************************************************************)
(* Copter's battery is a BattMonitor of one battery, which the flight      *)
(* never resets: what Copter does to batt and battPriority between its     *)
(* other handlers is what BattMonitor promises.                            *)
(***************************************************************************)
EXTENDS Copter

Battery == INSTANCE BattMonitor
    WITH N           <- 1,
         LowActions  <- [b \in {1} |-> LowAction],
         CritActions <- [b \in {1} |-> CritAction],
         ResetLevels <- {},
         armed       <- veh.armed,
         turn        <- 1,
         failsafe    <- [b \in {1} |-> batt],
         highest     <- battPriority,
         triggered   <- batt > 0

\* Every step of the vehicle is a step of its battery monitor or none of it:
\* the failsafe handler runs with the priority of the moment, and no other
\* handler, mode or command changes what the battery has asked for.
BatteryIsMonitored == Battery!BattMonitorSpec
=============================================================================
