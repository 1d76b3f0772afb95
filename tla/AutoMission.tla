---------------------------- MODULE AutoMission ----------------------------
(***************************************************************************)
(* AP_Mission: the stored mission and its execution in AUTO.  A mission is *)
(* flown while ground stations rewrite it, while AUTO is left and entered  *)
(* again, and from copies of the commands taken when they were started.    *)
(*                                                                         *)
(* An operation of the class is an operator from a mission executor m, a   *)
(* record of the members of AP_Mission, to the next one.  Commands are WP  *)
(* (a navigation command with a place), DELAY (one without), DO,           *)
(* LAND_START (a DO command too) and JUMP.  All start when told to.        *)
(*                                                                         *)
(* This fork rewinds on every resume, with _repeat_dist 0 too, so only the *)
(* last two entries of _wp_index_history are ever read.  No mission here   *)
(* has a DO_SET_RESUME_REPEAT_DIST.                                        *)
(***************************************************************************)
EXTENDS Integers, FiniteSets, Sequences

CONSTANTS
    BootPlans,   \* missions stored when the vehicle boots, without home
    Edits,       \* commands a ground station may write
    Restart,     \* MIS_RESTART
    JumpSlots,   \* AP_MISSION_MAX_NUM_DO_JUMP_COMMANDS
    FindLoops,   \* max_loops of get_next_cmd(), 64 in the code
    SeekLoops,   \* max_loops of advance_current_nav_cmd(), 255 in the code
    PreloadLoops, \* bound: rounds of the loop of set_current_cmd(), which has no limit
    MaxPlan,     \* bound: commands of a mission, home included
    MaxEdits     \* bound: writes of ground stations, jumps of theirs and disarms

None == -1       \* AP_MISSION_CMD_INDEX_NONE
Forever == -1    \* AP_MISSION_JUMP_REPEAT_FOREVER
Never == 99      \* AP_MISSION_JUMP_TIMES_MAX

Home == [id |-> "WP", place |-> "home", target |-> 0, times |-> 0]
NoCmd == [index |-> None, id |-> "NONE", place |-> "", target |-> 0, times |-> 0]
NoJumps == [i \in 1..MaxPlan |-> None]
NoLaps == [i \in 1..MaxPlan |-> 0]
NoHist == [passed |-> None, last |-> None]

\* The commands there may be, and their places: a rewound one is on a leg.
Commands == {Home} \cup Edits \cup UNION {{q[k] : k \in DOMAIN q} : q \in BootPlans}
Places == {c.place : c \in Commands} \cup {"", "leg"}
Times == {Forever} \cup (0..Never)

ASSUME AutoMissionAssumption ==
    /\ {JumpSlots, FindLoops, SeekLoops, PreloadLoops, MaxPlan, MaxEdits} \subseteq Nat
    /\ MaxPlan # 0 /\ Restart \in BOOLEAN
    /\ Commands \subseteq [id : {"WP", "DELAY", "DO", "LAND_START", "JUMP"}, place : Places,
                         target : Nat, times : Times]
    /\ \A q \in BootPlans : q \in Seq(Commands) /\ Len(q) < MaxPlan

VARIABLES
    plan,        \* storage: command i is plan[i + 1], home is command 0
    m,           \* the members of AP_Mission, and _mode of ModeAuto as m.sub;
                 \* history: taken, how often each limited jump was, to one too many
    auto,        \* flightmode is AUTO
    waiting,     \* waiting_to_start
    det,         \* mis_change_detect; changed: the times of the last change differ
    meddled,     \* history: what else than flying has moved the mission
    edits        \* ghost of MaxEdits

missionVars == <<plan, m, auto, waiting, det, meddled, edits>>

Booted ==
    [state |-> "STOPPED", nav |-> NoCmd, navLoaded |-> FALSE,
     doc |-> NoCmd, doLoaded |-> FALSE, doDone |-> FALSE,
     jumps |-> NoJumps, taken |-> NoLaps, hist |-> NoHist, resumeCmd |-> NoCmd,
     resuming |-> FALSE, reason |-> FALSE, force |-> FALSE, sub |-> "LOITER"]

Total(p) == Len(p)                         \* _cmd_total
\* read_cmd_from_storage(): home is command 0 of every mission
Readable(p, i) == i = 0 \/ i \in 1..(Total(p) - 1)
Read(p, i) ==
    LET c == IF i = 0 THEN Home ELSE p[i + 1]
    IN  [index |-> i, id |-> c.id, place |-> c.place, target |-> c.target, times |-> c.times]

IsNav(c) == c.id \in {"WP", "DELAY"}
HasPlace(c) == c.id = "WP"

-----------------------------------------------------------------------------
(* Jumps.  _jump_tracking has a count, None for no slot, of every command.  *)

\* get_jump_times_run(): looking up a jump reserves a slot for it
Tracked(e, i) ==
    IF e.jumps[i] # None \/ Cardinality({j \in 1..MaxPlan : e.jumps[j] # None}) >= JumpSlots
      THEN e
      ELSE [e EXCEPT !.jumps[i] = 0]
TimesRun(e, i) == IF e.jumps[i] # None THEN e.jumps[i] ELSE Never

IncrementJump(e, i) ==
    IF e.jumps[i] # None THEN [e EXCEPT !.jumps[i] = @ + 1] ELSE e

\* a jump is taken by the advance of the mission, counting, or by a search
Counts(e, inc) == inc /\ ~e.resuming
Unlimited(c) == c.times = Forever
\* bug: one lap too many
MoreLaps_Late(e, c) == TimesRun(e, c.index) <= c.times
MoreLaps(e, c) == TimesRun(e, c.index) < c.times

\* A search of get_next_cmd(): where it is, the first jump it has met, how many
\* more it may meet, and what it has found: NoCmd for failure.
Search(e, i) ==
    [m |-> e, at |-> i, first |-> None, left |-> FindLoops, cmd |-> NoCmd, over |-> FALSE]
Ended(s, c) ==
    [m |-> s.m, at |-> s.at, first |-> s.first, left |-> s.left, cmd |-> c, over |-> TRUE]
GoesOn(s, e, to) ==
    [m |-> e, at |-> to, first |-> IF s.first = None THEN s.at ELSE s.first,
     left |-> s.left - 1, cmd |-> NoCmd, over |-> FALSE]

\* The mission goes the way of a limited jump, whether it is counted or not.
Taken(e, c, inc) ==
    IF inc /\ e.taken[c.index] <= c.times THEN [e EXCEPT !.taken[c.index] = @ + 1] ELSE e

\* a jump that ends the search
Barred(p, s, c, inc) ==
    s.left = 0 \/ c.target >= Total(p) \/ c.target = 0 \/ (~inc /\ s.first = s.at)

MeetJump(s, c, inc) ==
    LET t == Tracked(s.m, s.at)
    IN  IF Unlimited(c) THEN GoesOn(s, s.m, c.target)
        ELSE IF ~MoreLaps(t, c) THEN GoesOn(s, t, s.at + 1)
        ELSE GoesOn(s, Taken(IF Counts(t, inc) THEN IncrementJump(t, s.at) ELSE t, c, inc),
                    c.target)

SearchRound(p, s, inc) ==
    LET c == Read(p, s.at)
    IN  IF s.over THEN s
        ELSE IF s.at >= Total(p) THEN Ended(s, NoCmd)
        ELSE IF c.id # "JUMP" THEN Ended(s, c)
        ELSE IF Barred(p, s, c, inc) THEN Ended(s, NoCmd)
        ELSE MeetJump(s, c, inc)

\* Of the rounds of a loop, here and below, the one that ends it counts.
LastRound(rounds, limit) == rounds[CHOOSE k \in 0..limit : rounds[k].over \/ k = limit]

Fetched(s) == [m |-> s.m, cmd |-> s.cmd]
NextCmd(p, e, i, inc) ==
    LET search[k \in 0..(FindLoops + 1)] ==
            IF k = 0 THEN Search(e, i) ELSE SearchRound(p, search[k - 1], inc)
    IN  Fetched(LastRound(search, FindLoops + 1))

-----------------------------------------------------------------------------
(* The operations of AP_Mission.                                           *)

ResetHistory(e) ==
    [e EXCEPT !.hist = NoHist, !.resumeCmd = NoCmd, !.resuming = FALSE]

Reset(e) ==
    ResetHistory([e EXCEPT !.navLoaded = FALSE, !.doLoaded = FALSE, !.doDone = FALSE,
                           !.nav = [@ EXCEPT !.index = None],
                           !.doc = [@ EXCEPT !.index = None], !.jumps = NoJumps,
                           !.taken = NoLaps])

\* complete(): exit_mission() loiters where it is
Complete(e) == [e EXCEPT !.state = "COMPLETE", !.sub = "LOITER"]

\* start_command() of a navigation command: do_nav_wp() sets the sub-mode
Started(e, c) == [e EXCEPT !.sub = IF c.id = "WP" THEN "WP" ELSE @]

\* bug: the history is written while the vehicle resumes
RecordLoaded_Always(e) ==
    IF HasPlace(e.nav)
      THEN [e EXCEPT !.hist = [passed |-> @.last, last |-> e.nav.index]]
      ELSE e
\* a waypoint is recorded when it is loaded, not while resuming
RecordLoaded(e) ==
    IF e.reason THEN [e EXCEPT !.reason = FALSE]
    ELSE IF e.resuming \/ ~HasPlace(e.nav) THEN e
    ELSE [e EXCEPT !.hist = [passed |-> @.last, last |-> e.nav.index]]
LoadNav(e, c) ==
    LET r == RecordLoaded([Started(e, c) EXCEPT !.nav = c, !.navLoaded = TRUE])
    IN  [r EXCEPT !.resuming = @ /\ c.index # r.hist.last]

LoadDo(e, c) == IF e.doLoaded THEN e ELSE [e EXCEPT !.doc = c, !.doLoaded = TRUE]

Stopped(e) == [e EXCEPT !.doc = [@ EXCEPT !.index = None],
                        !.doLoaded = FALSE, !.doDone = FALSE]

\* the loop of advance_current_nav_cmd().  max_loops is a uint8_t that the
\* loop decrements after it compares: used up it has wrapped, and 0 means
\* that the last round found the command.
Sought(s) == ~s.ok \/ s.m.navLoaded \/ s.left = 0
SeekTakes(s, f) ==
    IF f.cmd = NoCmd THEN [m |-> f.m, at |-> s.at, left |-> s.left - 1, ok |-> FALSE]
    ELSE [m |-> IF IsNav(f.cmd) THEN LoadNav(f.m, f.cmd) ELSE LoadDo(f.m, f.cmd),
          at |-> f.cmd.index + 1, left |-> s.left - 1, ok |-> TRUE]
SeekRound(p, s) ==
    IF Sought(s) THEN s ELSE SeekTakes(s, NextCmd(p, s.m, s.at, TRUE))
LastSought(rounds, limit) == rounds[CHOOSE k \in 0..limit : Sought(rounds[k]) \/ k = limit]
Answer(s) ==
    IF ~s.ok \/ (s.m.navLoaded /\ s.left = 0) THEN [m |-> s.m, ok |-> FALSE]
    ELSE [m |-> [s.m EXCEPT !.doDone = ~s.m.doLoaded], ok |-> TRUE]
Seek(p, e, i) ==
    LET seek[k \in 0..SeekLoops] ==
            IF k = 0 THEN [m |-> e, at |-> i, left |-> SeekLoops, ok |-> TRUE]
            ELSE SeekRound(p, seek[k - 1])
    IN  Answer(LastSought(seek, SeekLoops))

\* bug: the search starts at the command that has just completed
SearchFrom_Current(e, start) ==
    IF start > 0 THEN start ELSE IF e.nav.index = None THEN 1 ELSE e.nav.index
SearchFrom(e, start) ==
    IF start > 0 THEN start ELSE IF e.nav.index = None THEN 1 ELSE e.nav.index + 1

\* advance_current_nav_cmd(start)
AdvanceNav(p, e, start) ==
    IF e.state # "RUNNING" \/ e.navLoaded THEN [m |-> e, ok |-> FALSE]
    ELSE Seek(p, Stopped(e), SearchFrom(e, start))

OrComplete(r) == IF r.ok THEN r.m ELSE Complete(r.m)

Start(p, e) == OrComplete(AdvanceNav(p, Reset([e EXCEPT !.state = "RUNNING"]), 0))

\* set_current_cmd() of a mission that is not running: find what to resume
PreloadTakes(s, f) ==
    IF f.cmd = NoCmd
      THEN [m |-> [f.m EXCEPT !.nav = [@ EXCEPT !.index = None]], at |-> s.at, over |-> TRUE]
    ELSE IF IsNav(f.cmd)
      THEN [m |-> [f.m EXCEPT !.nav = f.cmd, !.navLoaded = TRUE,
                              !.doDone = ~f.m.doLoaded, !.state = "STOPPED"],
            at |-> s.at, over |-> TRUE]
    ELSE [m |-> LoadDo(f.m, f.cmd), at |-> f.cmd.index + 1, over |-> FALSE]
PreloadRound(p, s) ==
    IF s.over THEN s ELSE PreloadTakes(s, NextCmd(p, s.m, s.at, TRUE))
Preload(p, e, i) ==
    LET load[k \in 0..PreloadLoops] ==
            IF k = 0 THEN [m |-> e, at |-> i, over |-> FALSE] ELSE PreloadRound(p, load[k - 1])
    IN  LastRound(load, PreloadLoops).m

\* set_current_cmd(): what it forgets, where it looks, when it does neither
Aside(e, index) ==
    LET s == [Stopped(ResetHistory(e)) EXCEPT !.navLoaded = FALSE]
        afresh == index = 0 \/ e.state = "COMPLETE"
    IN  IF afresh THEN [s EXCEPT !.jumps = NoJumps, !.taken = NoLaps] ELSE s
FirstSought(index) == IF index = 0 THEN 1 ELSE index
Refused(p, index) == index >= Total(p) \/ Total(p) = 1

SetCurrent(p, e, index) ==
    LET t == Aside(e, index)
        i == FirstSought(index)
    IN  IF Refused(p, index) THEN ResetHistory(e)
        ELSE IF e.state = "RUNNING" THEN OrComplete(AdvanceNav(p, t, i))
        ELSE Preload(p, t, i)

\* and what it returns
SetsCurrent(p, e, index) ==
    /\ ~Refused(p, index)
    /\ IF e.state = "RUNNING" THEN AdvanceNav(p, Aside(e, index), FirstSought(index)).ok
       ELSE SetCurrent(p, e, index).navLoaded

\* calc_rewind_pos() with _repeat_dist 0: a place on the leg between the last
\* waypoint passed and the one interrupted, with the index of the former, if
\* located: the last update() has had a position to note as _exit_position
CanRewind(p, e, located) == /\ e.hist.passed # None /\ located
                            /\ Readable(p, e.hist.passed) /\ Readable(p, e.hist.last)
RewindPos(p, e) == [Read(p, e.hist.passed) EXCEPT !.place = "leg"]

Rewound(p, e, located) ==
    IF ~e.reason /\ ~e.resuming /\ CanRewind(p, e, located)
      THEN [e EXCEPT !.resumeCmd = RewindPos(p, e)]
      ELSE e

\* the last lines of resume(): restart the active command
RestartActive(p, e) ==
    IF e.doLoaded /\ e.doc.index # None THEN SetCurrent(p, e, e.doc.index)
    ELSE IF e.navLoaded THEN SetCurrent(p, e, e.nav.index)
    ELSE e

\* a command that has become a JUMP does not start
Rewinds(p, e) == /\ ~e.reason /\ e.hist.passed # None
                 /\ e.resumeCmd.index # None /\ e.resumeCmd.id # "JUMP"

FlyRewound(e) ==
    LET c == e.resumeCmd
    IN  [Started(e, c) EXCEPT !.nav = c, !.navLoaded = TRUE, !.resuming = TRUE]

Resume(p, e, located) ==
    LET run == [e EXCEPT !.state = "RUNNING"]
    IN  IF e.state = "COMPLETE" THEN Start(p, e)
        ELSE IF e.state = "STOPPED" /\ e.nav.index = None THEN Start(p, run)
        ELSE IF ~Readable(p, e.nav.index) THEN Start(p, run)
        ELSE LET c == [run EXCEPT !.nav = Read(p, e.nav.index)]
                 w == Rewound(p, c, located)
             IN  IF Rewinds(p, w) THEN FlyRewound(w)
                 ELSE RestartActive(p, [w EXCEPT !.reason = FALSE])

StartOrResume(p, e, located) ==
    IF Restart /\ ~e.force THEN Start(p, e) ELSE [Resume(p, e, located) EXCEPT !.force = FALSE]

\* advance_current_do_cmd(): searching for it takes no jump's lap
DoFound(f) ==
    IF f.cmd = NoCmd \/ IsNav(f.cmd)
      THEN [f.m EXCEPT !.doDone = TRUE]
      ELSE [f.m EXCEPT !.doc = f.cmd, !.doLoaded = TRUE]
AdvanceDo(p, e) ==
    LET i == IF e.doc.index = None THEN 1 ELSE e.doc.index + 1
    IN  IF e.state # "RUNNING" \/ e.doDone THEN e
        ELSE DoFound(IF i >= Total(p) THEN [m |-> e, cmd |-> NoCmd] ELSE NextCmd(p, e, i, FALSE))

\* update(), with what verify_command() answers
UpdateDo(p, r, doVerified) ==
    IF ~r.ok THEN Complete(r.m)
    ELSE IF ~r.m.doLoaded THEN AdvanceDo(p, r.m)
    ELSE [r.m EXCEPT !.doLoaded = ~doVerified]
Update(p, e, navVerified, doVerified) ==
    IF e.state # "RUNNING" \/ Total(p) = 0 THEN e
    ELSE UpdateDo(p, IF ~e.navLoaded \/ e.nav.index = None THEN AdvanceNav(p, e, 0)
                     ELSE IF navVerified THEN AdvanceNav(p, [e EXCEPT !.navLoaded = FALSE], 0)
                     ELSE [m |-> e, ok |-> TRUE],
                  doVerified)

-----------------------------------------------------------------------------
(* The change detector of AUTO.                                            *)

CurrentIndex(e) == IF e.nav.index = None THEN 0 ELSE e.nav.index

\* get_next_nav_cmd(), whose loop counts on when it passes a DO command
NavTakes(s, f) ==
    IF f.cmd = NoCmd \/ IsNav(f.cmd)
      THEN [m |-> f.m, at |-> s.at, cmd |-> f.cmd, over |-> TRUE]
      ELSE [m |-> f.m, at |-> s.at + 1, cmd |-> NoCmd, over |-> FALSE]
NavRound(p, s) ==
    IF s.over \/ s.at >= Total(p) THEN s ELSE NavTakes(s, NextCmd(p, s.m, s.at, FALSE))
NextNav(p, e, i) ==
    LET next[k \in 0..Total(p)] ==
            IF k = 0 THEN [m |-> e, at |-> i, cmd |-> NoCmd, over |-> FALSE]
            ELSE NavRound(p, next[k - 1])
    IN  LastRound(next, Total(p))

\* the loop of the detector, over at most three commands
CollectTakes(s, f) ==
    IF f.cmd = NoCmd THEN [m |-> f.m, at |-> s.at, cmds |-> s.cmds, over |-> TRUE]
    ELSE [m |-> f.m, at |-> f.cmd.index + 1, cmds |-> Append(s.cmds, f.cmd), over |-> FALSE]
Collect(p, s) == IF s.over THEN s ELSE CollectTakes(s, NextNav(p, s.m, s.at))
Upcoming(p, e, i) ==
    Collect(p, Collect(p, Collect(p, [m |-> e, at |-> i, cmds |-> <<>>, over |-> FALSE])))

\* check_for_mission_change()
Seen(u, i, d) ==
    [m |-> u.m, det |-> [changed |-> FALSE, idx |-> i, cmds |-> u.cmds],
     report |-> u.cmds # d.cmds /\ i = d.idx]
Look(p, e, d) ==
    LET i == CurrentIndex(e)
    IN  IF ~d.changed /\ i = d.idx THEN [m |-> e, det |-> d, report |-> FALSE]
        ELSE Seen(Upcoming(p, e, i), i, d)

\* restart_current_nav_cmd()
RestartNav(p, e) ==
    IF CurrentIndex(e) \in 1..(Total(p) - 1) THEN SetCurrent(p, e, e.nav.index) ELSE e

-----------------------------------------------------------------------------
(* Actions.                                                                *)

MissionInit ==
    /\ \E q \in BootPlans : plan = <<Home>> \o q
    /\ m = Booted /\ auto = FALSE /\ waiting = FALSE
    /\ det = [changed |-> TRUE, idx |-> 0, cmds |-> <<>>]
    /\ meddled = {} /\ edits = 0

Touch(what) == /\ edits < MaxEdits /\ edits' = edits + 1
               /\ meddled' = meddled \cup {what}

\* ModeAuto::init(), of a vehicle in the air
InitAuto(e) ==
    /\ Total(plan) > 1
    /\ auto' = TRUE /\ waiting' = TRUE
    /\ LET d == Look(plan, e, det)
       IN  m' = [d.m EXCEPT !.sub = "LOITER"] /\ det' = d.det

EnterAuto == ~auto /\ InitAuto(m) /\ UNCHANGED <<plan, meddled, edits>>

\* bug: leaving AUTO leaves the mission running
StopMission_Not(e) == e
\* ModeAuto::exit() stops a running mission
StopMission(e) == IF e.state = "RUNNING" THEN [e EXCEPT !.state = "STOPPED"] ELSE e

ExitAuto ==
    /\ auto /\ auto' = FALSE
    /\ m' = StopMission(m)
    /\ UNCHANGED <<plan, waiting, det, meddled, edits>>

\* wp_run() meets an obstacle: AUTO is left unless LOITER and RTL are refused
ObstacleStop ==
    /\ auto /\ ~waiting /\ m.sub = "WP"
    /\ \E left \in BOOLEAN :
         /\ auto' = ~left
         /\ LET e == [m EXCEPT !.reason = TRUE]
            IN  m' = IF left THEN StopMission(e) ELSE e
    /\ UNCHANGED <<plan, waiting, det, meddled, edits>>

\* run() of AUTO with the mission not started yet; without an origin it waits
RunStart ==
    /\ auto /\ waiting /\ waiting' = FALSE
    /\ \E located \in BOOLEAN :
         LET d == Look(plan, StartOrResume(plan, m, located), det)
         IN  m' = d.m /\ det' = d.det
    /\ meddled' = IF m'.resuming THEN meddled \cup {"rewind"} ELSE meddled
    /\ UNCHANGED <<plan, auto, edits>>

\* run() of AUTO: the detector, then update()
Noted(d) ==
    IF d.report /\ d.m.state = "RUNNING" /\ d.m.sub = "WP" THEN RestartNav(plan, d.m) ELSE d.m
Ran(navVerified, doVerified) ==
    LET d == Look(plan, m, det)
    IN  [m |-> Update(plan, Noted(d), navVerified, doVerified), det |-> d.det]

RunUpdate(navVerified, doVerified) ==
    /\ auto /\ ~waiting
    /\ LET r == Ran(navVerified, doVerified)
       IN  m' = r.m /\ det' = r.det
    /\ UNCHANGED <<plan, auto, waiting, meddled, edits>>

\* MAV_CMD_MISSION_START
MissionStart ==
    /\ auto \/ Total(plan) > 1
    /\ LET d == Look(plan, m, det)
           e == IF auto THEN m ELSE [d.m EXCEPT !.sub = "LOITER"]
       IN  /\ \E located \in BOOLEAN :
                m' = IF m.state = "RUNNING" THEN e ELSE StartOrResume(plan, e, located)
           /\ det' = IF auto THEN det ELSE d.det
    /\ auto' = TRUE /\ waiting' = (waiting \/ ~auto)
    /\ meddled' = IF m'.resuming THEN meddled \cup {"rewind"} ELSE meddled
    /\ UNCHANGED <<plan, edits>>

\* MISSION_SET_CURRENT, DO_SET_MISSION_CURRENT
SetCurrentItem(i) ==
    /\ Touch("jump")
    /\ m' = SetCurrent(plan, m, i)
    /\ UNCHANGED <<plan, auto, waiting, det>>

\* set_mode(AUTO_RTL): jump_to_landing_sequence() starts the landing of the
\* mission, with no history to rewind to, before AUTO is asked for, which may
\* be refused
Landing(i) ==
    LET s == SetCurrent(plan, m, i)
    IN  IF s.state = "STOPPED" THEN Resume(plan, s, FALSE) ELSE s

JumpToLanding(i) ==
    /\ i < Total(plan) /\ plan[i + 1].id = "LAND_START"
    /\ IF ~SetsCurrent(plan, m, i)
         THEN /\ m' = SetCurrent(plan, m, i) /\ Touch("jump")
              /\ UNCHANGED <<auto, waiting, det>>
         ELSE \/ /\ auto /\ m' = [Landing(i) EXCEPT !.force = TRUE] /\ Touch("jump")
                 /\ UNCHANGED <<auto, waiting, det>>
              \/ /\ ~auto /\ InitAuto([Landing(i) EXCEPT !.force = TRUE]) /\ Touch("jump")
              \/ /\ ~auto /\ m' = [Landing(i) EXCEPT !.force = FALSE] /\ Touch("refused")
                 /\ UNCHANGED <<auto, waiting, det>>
    /\ UNCHANGED plan

\* disarm() resets a mission without stopping it
Disarm ==
    /\ m' = Reset(m)
    /\ Touch("disarm")
    /\ UNCHANGED <<plan, auto, waiting, det>>

\* The time of a change is in milliseconds: the detector misses one that comes
\* in the same as the last it has seen.
Stamped ==
    \E missed \in {FALSE, "edit" \in meddled} : det' = [det EXCEPT !.changed = @ \/ ~missed]

\* an upload: truncate(), then replace_cmd() and add_cmd() item by item
Truncate(n) ==
    /\ Total(plan) > n
    /\ plan' = SubSeq(plan, 1, n)
    /\ Stamped /\ Touch("edit")
    /\ UNCHANGED <<m, auto, waiting>>

ReplaceCmd(i, c) ==
    /\ i < Total(plan)
    /\ plan' = [plan EXCEPT ![i + 1] = c]
    /\ Stamped /\ Touch("edit")
    /\ UNCHANGED <<m, auto, waiting>>

AddCmd(c) ==
    /\ Total(plan) < MaxPlan
    /\ plan' = Append(plan, IF plan = <<>> THEN Home ELSE c)
    /\ Stamped /\ Touch("edit")
    /\ UNCHANGED <<m, auto, waiting>>

\* clear(): not while the mission runs
Clear ==
    /\ m.state # "RUNNING"
    /\ plan' = <<>>
    /\ m' = [m EXCEPT !.nav = [@ EXCEPT !.index = None], !.doc = [@ EXCEPT !.index = None],
                      !.navLoaded = FALSE, !.doLoaded = FALSE]
    /\ IF plan # <<>> THEN Stamped ELSE UNCHANGED det
    /\ Touch("edit")
    /\ UNCHANGED <<auto, waiting>>

RunAuto == RunStart \/ \E nv, dv \in BOOLEAN : RunUpdate(nv, dv)

MissionNext ==
    \/ EnterAuto \/ ExitAuto \/ ObstacleStop \/ RunAuto \/ MissionStart
    \/ \E i \in 0..MaxPlan : SetCurrentItem(i) \/ JumpToLanding(i)
    \/ Disarm \/ Clear
    \/ \E n \in 0..MaxPlan : Truncate(n)
    \/ \E c \in Edits : AddCmd(c) \/ \E i \in 1..MaxPlan : ReplaceCmd(i, c)

\* The loop calls run(), and the vehicle gets where a command sends it.  The
\* fairness is WF_missionVars(Progress) with the condition that enables it
\* written out, as TLC cannot evaluate ENABLED of so deep an action in time.
Progress == RunStart \/ RunUpdate(TRUE, TRUE)
CanProgress == auto /\ (waiting \/ Ran(TRUE, TRUE) # [m |-> m, det |-> det])
MissionFairness == ([]<>~CanProgress) \/ ([]<><<Progress>>_missionVars)
MissionSpec == MissionInit /\ [][MissionNext]_missionVars /\ MissionFairness

-----------------------------------------------------------------------------
Loaded == [index : -1..MaxPlan, id : {"WP", "DELAY", "DO", "LAND_START", "JUMP", "NONE"},
           place : Places, target : Nat, times : Times]
History == [passed : -1..MaxPlan, last : -1..MaxPlan]
Executors ==
    [state : {"STOPPED", "RUNNING", "COMPLETE"},
     nav : Loaded, navLoaded : BOOLEAN, doc : Loaded, doLoaded : BOOLEAN, doDone : BOOLEAN,
     jumps : [1..MaxPlan -> {None} \cup (0..Never)],
     taken : [1..MaxPlan -> 0..(Never + 1)], hist : History, resumeCmd : Loaded,
     resuming : BOOLEAN, reason : BOOLEAN, force : BOOLEAN, sub : {"LOITER", "WP"}]

\* The members of AP_Mission, of ModeAuto and of its change detector keep
\* their ranges, and a mission its size.
MissionTypeOK ==
    /\ plan \in Seq(Commands) /\ Len(plan) <= MaxPlan
    /\ m \in Executors
    /\ auto \in BOOLEAN /\ waiting \in BOOLEAN
    /\ det \in [changed : BOOLEAN, idx : 0..MaxPlan, cmds : Seq(Loaded)] /\ Len(det.cmds) <= 3
    /\ meddled \subseteq {"edit", "jump", "rewind", "disarm", "refused"}
    /\ edits \in 0..MaxEdits

\* A jump is not taken more often than its mission says, by the vehicle, by a
\* ground station's choice of a command or by a pause that ends without a
\* rewind, until the mission starts afresh (get_next_cmd(), with its slots and
\* the searches that look ahead).  Once a rewind has resumed it there is no such
\* bound: under resuming_mission a jump is taken and not counted, and the flag
\* stays set if the rewind misses the waypoint at which it was interrupted.
JumpsWithinPlan ==
    "edit" \notin meddled /\ "rewind" \notin meddled =>
        \A i \in 1..MaxPlan :
            m.taken[i] # 0 =>
                /\ i < Total(plan) /\ plan[i + 1].id = "JUMP"
                /\ m.taken[i] <= plan[i + 1].times

\* A mission runs in AUTO only: otherwise MISSION_SET_CURRENT would start
\* commands, and move the target, of another mode.  The exception is a
\* landing sequence whose AUTO was refused (jump_to_landing_sequence()).
RunsOnlyInAuto ==
    m.state = "RUNNING" => auto \/ "refused" \in meddled

\* While the vehicle resumes from a rewind it neither passes nor ends short of
\* the waypoint at which it was interrupted (resume(), calc_rewind_pos(): "This
\* ensures that the mission order continues as planned").
Later(a, b) == IF a < b THEN b ELSE a
KeepsOrder ==
    m.resuming /\ m'.resuming /\ "edit" \notin meddled' =>
        /\ m'.state # "COMPLETE"
        /\ m'.nav.index <= Later(m.hist.passed, m.hist.last)
RewindKeepsOrder == [][KeepsOrder]_missionVars

\* The same for missions without a JUMP.
PlainRewindKeepsOrder ==
    [][(\A i \in DOMAIN plan : plan[i].id # "JUMP") => KeepsOrder]_missionVars

\* A mission all of whose jumps are limited ends, if nothing but the vehicle
\* moves it on: it is not resumed by a rewind, edited, jumped in or disarmed
\* (advance_current_nav_cmd()).
Limited == \A i \in DOMAIN plan : plan[i].id = "JUMP" => plan[i].times # Forever
MissionEnds ==
    (auto /\ m.state = "RUNNING" /\ Limited) ~>
        (~auto \/ m.state # "RUNNING" \/ meddled # {})
=============================================================================
