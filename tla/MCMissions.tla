------------------------------ MODULE MCMissions ------------------------------
(***************************************************************************)
(* The upload of a mission or fence and the flight of a mission, side by   *)
(* side.  A behaviour is one of theirs: part says whose, the other stays   *)
(* at rest.  What an upload does to the mission in flight, its truncation  *)
(* and the items that replace and extend it, AutoMission has as actions.   *)
(***************************************************************************)
EXTENDS MissionUpload, AutoMission

VARIABLE part

missionsVars == <<part, uploadVars, missionVars>>

WP(p) == [id |-> "WP", place |-> p, target |-> 0, times |-> 0]
NoPlace(id) == [id |-> id, place |-> "", target |-> 0, times |-> 0]
Jump(t, n) == [id |-> "JUMP", place |-> "", target |-> t, times |-> n]

\* A lap flown twice, a DO command and a delay on the way, a landing sequence
\* behind a lap flown for ever, and more jumps than there are slots for.
FourPlans ==
    {<<WP("a"), WP("b"), Jump(1, 1)>>,
     <<NoPlace("DO"), NoPlace("DELAY"), WP("b"), WP("c")>>,
     <<WP("a"), Jump(1, Forever), NoPlace("LAND_START"), WP("b")>>,
     <<NoPlace("DO"), Jump(1, 2), WP("a"), Jump(3, 2)>>}
TwoEdits == {WP("d"), Jump(1, 1)}

\* For the run of AutoMission that shows a disagreement.
LapAndOn == {<<WP("a"), WP("b"), Jump(1, 1), WP("c")>>}
NoEdits == {}

UploadPart(A) == part = "upload" /\ A /\ UNCHANGED <<part, missionVars>>
FlightPart(A) == part = "flight" /\ A /\ UNCHANGED <<part, uploadVars>>

\* A part at rest has one start.
MissionsInit ==
    /\ part \in {"upload", "flight"}
    /\ UploadInit /\ MissionInit
    /\ part = "upload" => plan = <<Home>> \o <<WP("a"), WP("b"), Jump(1, 1)>>
    /\ part = "flight" => /\ kind = "MISSION" /\ items = NoItems
                          /\ dest = CHOOSE g \in Stations : TRUE

MissionsNext == UploadPart(UploadNext) \/ FlightPart(MissionNext)

\* The fairness of UploadSpec and of MissionSpec.
MissionsSpec ==
    /\ MissionsInit /\ [][MissionsNext]_missionsVars
    /\ WF_missionsVars(UploadPart(CancelUpload)) /\ WF_missionsVars(UploadPart(UploadTimePasses))
    /\ MissionFairness

\* Both parts keep their types.
MissionsTypeOK == UploadTypeOK /\ MissionTypeOK
=============================================================================
