------------------------------ MODULE MCCopter -------------------------------
(* Small instances of Copter for TLC: the environments a step may meet.    *)
EXTENDS CopterBatteries

Good ==
    [pos |-> TRUE, alt |-> TRUE, home |-> TRUE, srtl |-> TRUE, mission |-> TRUE,
     takeoffCmd |-> TRUE, landSeq |-> TRUE, thrHigh |-> FALSE]

NoPosition == [Good EXCEPT !.pos = FALSE, !.srtl = FALSE]
NoAltitude == [Good EXCEPT !.alt = FALSE]
NothingStored ==
    [Good EXCEPT !.home = FALSE, !.srtl = FALSE, !.mission = FALSE, !.landSeq = FALSE]
ThrottleUp == [Good EXCEPT !.thrHigh = TRUE]

AllEnvs == {Good, NoPosition, NoAltitude, NothingStored, ThrottleUp}
AltitudeHeld == AllEnvs \ {NoAltitude}
FlightEnvs == {Good, NoPosition, ThrottleUp}
=============================================================================
