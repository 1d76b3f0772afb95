----------------------------- MODULE MCMonitors -----------------------------
(***************************************************************************)
(* The watches of the vehicle that share no state, and the way home, side  *)
(* by side: the battery monitor, the watch over the main loop, the radio   *)
(* link, and the path that SMART_RTL flies.  A behaviour is one of theirs: *)
(* part says whose, the others stay at rest.                               *)
(***************************************************************************)
EXTENDS BattMonitor, CpuFailsafe, RadioLink, SmartRTLPath

VARIABLE part

monitorsVars == <<part, battMonitorVars, cpuVars, radioVars, rtlVars>>

ThreeLow == <<"NONE", "RTL", "SMARTRTL">>
ThreeCritical == <<"LAND", "RTL", "TERMINATE">>

BattPart(A) == part = "batteries" /\ A /\ UNCHANGED <<part, cpuVars, radioVars, rtlVars>>
CpuPart(A) == part = "main loop" /\ A /\ UNCHANGED <<part, battMonitorVars, radioVars, rtlVars>>
RadioPart(A) == part = "radio" /\ A /\ UNCHANGED <<part, battMonitorVars, cpuVars, rtlVars>>
PathPart(A) == part = "path" /\ A /\ UNCHANGED <<part, battMonitorVars, cpuVars, radioVars>>

MonitorsInit ==
    /\ part \in {"batteries", "main loop", "radio", "path"}
    /\ BattMonitorInit /\ CpuInit /\ RadioInit /\ RtlInit

MonitorsNext ==
    \/ BattPart(BattMonitorNext)
    \/ CpuPart(CpuNext)
    \/ RadioPart(RadioNext)
    \/ PathPart(RtlNext)

\* Fairness of the IO thread written out: nothing but active keeps an idle one
\* from a run, each of its steps changes io.at, and it does not fail for ever.
CleanupRuns ==
    \/ []<>~(part = "path" /\ (active \/ io.at # "idle"))
    \/ []<><<io.at' # io.at>>_io

RemovalSucceeds ==
    \/ <>[]~(part = "path" /\ io.at \in {"simplify", "prune"})
    \/ []<><<Removal>>_io

\* The fairness of CpuFairSpec, RadioFairSpec and RtlSpec.
MonitorsSpec ==
    /\ MonitorsInit /\ [][MonitorsNext]_monitorsVars
    /\ WF_monitorsVars(CpuPart(FailsafeCheck)) /\ WF_monitorsVars(CpuPart(TimePasses))
    /\ WF_monitorsVars(RadioPart(ReadRadio)) /\ WF_monitorsVars(RadioPart(LinkTimePasses))
    /\ CleanupRuns /\ RemovalSucceeds
    /\ WF_monitorsVars(PathPart(WaitCleanupRun /\ Meanwhile(FALSE)))

\* Each part keeps its types.
MonitorsTypeOK == BattMonitorTypeOK /\ CpuTypeOK /\ RadioTypeOK /\ RtlTypeOK
=============================================================================
