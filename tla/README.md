# Flight safety logic of the ArduCopter firmware in TLA+

This directory specifies, model-checks and proves properties of the part of
this repository that decides what a multicopter does when something goes wrong:
which flight mode is flown, when motors are armed and disarmed, and what the
failsafes do when the radio, the ground station, the position estimate, the
battery, the terrain data or the main loop itself fail, one after another or
together; of the mission such a vehicle flies, uploads and resumes; and of the
storage missions and parameters live in.

The repository is a fork of ArduPilot (5086 files, with vendored
cryptography, a simulator and tools). What it builds for the agricultural
multicopter is `ArduCopter/` and the libraries it uses.

## 1. Inventory

### How the program runs

One main thread runs `AP_Scheduler::loop()`. Every loop first runs the *fast
tasks* in the order of `Copter::scheduler_tasks` (`ArduCopter/Copter.cpp:115`):
rate controller, `motors_output()`, AHRS, `update_flight_mode()`, the land and
crash detectors. The other tasks follow in priority order if they are due and
if time is left; a task that finds no time is put off. MAVLink commands are
handled in one of these tasks. A timer thread, above the main thread's
priority, runs the drivers and `failsafe_check()` a thousand times a second. An
IO thread writes storage and logs.

So there are two kinds of concurrency. Inside the main thread no handler is
interrupted, but handlers come in any order and each one calls others that
change what it has already tested. Between main thread and timer thread shared
variables change between any two statements.

### Components

| Component | State | Operations | What makes it correct |
|---|---|---|---|
| Flight modes, `set_mode` (`mode*.cpp`, `takeoff.cpp`) | flight mode, sub-modes, pilot takeoff | `set_mode`, `init`, `exit`, `run` | a mode is flown only while what it needs is there; what a mode sets ends with it |
| AUTO and mission (`mode_auto.cpp`, AP_Mission, its change detector) | sub-mode, `auto_RTL`, current commands, laps of jumps, waypoints passed, where to resume | start, advance, jumps, resume, rewind, edit, exit | the mission goes on, ends and resumes where it should |
| Failsafe events (`events.cpp`, `fence.cpp`, `ekf_check.cpp`) | a flag per failsafe, EKF counters | an `on` and `off` event each | the safest action in force wins, whatever the order; motors go on in flight |
| Arming (`AP_Arming*.cpp`, `motors.cpp`) | motors armed, AP_Arming's own flag, arming delay | arm, disarm, rudder, auto disarm | both flags agree; no arming in a failsafe |
| Land and crash detectors | `land_complete` | every loop | a landing ends disarmed, a flight does not |
| Motors (AP_MotorsMulticopter) | spool state, desired state | `output_logic` | full range only through the ramps |
| Radio link (`radio.cpp`) | frame counter, time of last frame | `read_radio` | loss is noticed, and ends neither early nor never |
| CPU failsafe (`failsafe.cpp`) | enabled, in failsafe, last tick | enable, disable, check | a hung loop's motors stop, a running loop's never do |
| Battery monitor | a level per battery, highest priority | check, reset | no battery is ignored, none has a lesser action replace a greater one |
| Scheduler | tick, last run of every task | loop | fast tasks in every loop |
| MAVLink commands | | arm, mode, takeoff, mission start, land start | same guards as the pilot's |
| Mission upload (`GCS_MAVLink/MissionItemProtocol*.cpp`) | request counters, station, list of a fence | count, partial list, item, clear, timeout | what is accepted is what was announced, whole |
| Flash storage (AP_FlashStorage) | two sectors with a header and a log each | write, switch sectors, boot | a loss of power loses no acknowledged write |
| HAL storage (`AP_HAL_ChibiOS/Storage.cpp`) | memory image, dirty lines, line being written | write, thread's tick, backup | what is not marked dirty is stored |
| Parameters, file transfer | save queue, sessions | | section 7 |
| SmartRTL (`AP_SmartRTL`, `mode_smart_rtl.cpp`) | length of the path, what is searched and found, request and completion of a cleanup | save a point, home, pop a point, request, the IO thread's searches and removals | the return starts on a clean path, and starts; no removal by a stale index |
| Fences, parachute, landing gear, sprayer, precision landing, advanced failsafe | small state machines | | section 7 |
| Commander, flight permission | the fork's own additions | | section 7 |
| Estimators, controllers, drivers | floating point state | | not specified, see section 6 |

`PROJECT.json` lists each one with its sources and says how much is modelled,
and lists under `hazards` what tests of this code would hardly reach.

## 2. Modules

    FlightModes            attributes of the modes, failsafe actions, priorities
      Copter               the main loop: modes, arming, landing, failsafes
        CopterBatteries    Copter's battery as an instance of BattMonitor
          MCCopter         instances for TLC
        Copter_proofs, CopterFlight_proofs (the former about CopterBatteries too)
    MCMonitors             three watches and the way home, which share nothing, for TLC
      BattMonitor          any number of batteries
      CpuFailsafe          timer thread against arming and disarming
      RadioLink            detection of a lost radio
      SmartRTLPath         the recorded path: main thread and IO thread
      Monitors_proofs      about all four
    MCStorage              two layers of storage, for TLC
      FlashStorage         the two-sector log, power lost at any write (FlashStorage_proofs)
      HalStorage           the memory image and the thread that stores it
      Storage_proofs       about the image, and both layers
    MCMissions             upload and flight of a mission, for TLC
      MissionUpload        items requested one by one (MissionUpload_proofs)
      AutoMission          AP_Mission under AUTO
      Missions_proofs      about AutoMission, and both
    Iteration              what loops written as recursive functions compute, for the proofs

**FlightModes** is the table of `mode.h`: eight modes and the disguise AUTO_RTL,
with `requires_GPS()`, `has_manual_throttle()`, `allows_arming()`, and for each
failsafe action the sequence of modes that the `set_mode_X_or_Y` functions of
`events.cpp` try.

**Copter** has one variable per flag of the code: `phase` (the place in the
loop), `veh` (flight mode, sub-mode, armed, arming delay, `land_complete`, how
the last disarm came about), `autoArmed`, `throttleZero`, the spool states, the
`failsafe` struct, `ekf_check_state` and the battery. A handler of the code
tests and changes the vehicle several times, through calls that change it
again; so everything such calls change is the one record `veh`, and a handler
is an operator from a vehicle to a vehicle (`RadioOnEvent`, `SetMode`,
`Disarm`, ...). Actions put these together in the code's order:
`three_hz_loop()` is one action in which the GCS, terrain, dead reckoning and
fence checks each see the vehicle the one before left.

Fast tasks are the actions `MotorsOutput`, `UpdateFlightMode` (one `Run...` per
mode) and `LandDetector`; then any scheduled tasks run in any number and order
before `EndLoop`. That contains every schedule the scheduler's priorities and
time budgets can produce, with some they cannot.

What a handler reads of the world is an environment chosen from `Envs` in each
step: is there a position, an altitude, a home, a recorded path, a mission, a
landing sequence, is the throttle high. The estimators may change their mind
between any two steps. `ekf_check()` may also return early, before there is an
origin or with FS_EKF_THRESH not above zero (`EkfCheckDisabled`).

A `leg` stands for the sub-mode of RTL, SMART_RTL and AUTO as far as other code
asks of it: on the way (`GO`), home with the stay over it done (`ARRIVED`), AUTO's
takeoff, the final descent that waits for the pilot, and the landing.

**BattMonitor** takes `check_failsafes()` battery by battery, since the handler
called for one may disarm the vehicle before the next is looked at.
**CopterBatteries** maps Copter's battery to it: `turn` stays at 1, because
Copter's pass over its one battery is one step; `triggered` is `batt > 0`.

**CpuFailsafe** splits `arm()` and `disarm()` at each shared variable, since the
timer interrupt may fall between two assignments; a lockup is a main loop that
takes no further step.

**RadioLink** models frames, time and `FS_THR_ENABLE`, and keeps a few history
variables for the properties (`heard`, `goods`, `byLow`).

**SmartRTLPath** is AP_SmartRTL with the part of SMART_RTL that uses it. Of the
path it keeps the length: where the points are decides only what the searches
find, so a search may flag any points between its ends and call any two
segments close. What is found is kept by index, as in the code, since that is
what goes stale when the path gets shorter. The IO thread's run is a few steps
(`Snapshot` of its local copies, one search or the begin of a removal, the
removal under the semaphore, or `RemovalFails` when the main thread has it, the
completion), with any number of steps of the main thread between two of them; a
search that takes many runs in the code takes one here, but the path may change
between `Restart...` and search, and between search and removal. Five pieces of
history serve the properties: `raced`, `shrunk` and `stale` tell why a removal
could fail, `renewed` that a cleanup was requested since the run began, and
`misread` that the completion recorded is that of such a run.

**FlashStorage** is AP_FlashStorage: `chip` is the flash (per sector a header
and a log of records), `ram` the driver's members, `mem` the memory image. An
operation is an operator on a machine that also collects `images`, every flash
content it passes through, so that `StoreBlockCut` and `PowerOnCut` lose power
at any of them. `Boot` is `init()`: it copies a full sector to the other one,
which may have been in use. `promised` is what each block may hold after the
next boot, and is all the promise of the class.

**HalStorage** is the layer above on ChibiOS: writers change `buffer` and mark
lines in `dirty`; the thread picks a line, copies it, writes it with the
semaphore released and clears the mark in four actions, with writers, failed
writes, a backup file and power losses between them. The load of a backup file is
one step: the code reads it in chunks, but holds the semaphore throughout
(`Storage.cpp:626`), which every writer and the thread's copy take.

**MissionUpload** is MissionItemProtocol for a mission and for a fence. An item
is known by its plan, which suffices to tell a mixed list from a whole one. Any
message may come at any time from any station, which covers loss, repetition
and timeouts of the requests; `broken` remembers which of the known accidents
has hit the upload under way. A count and a partial list may be refused for want
of memory, with what the code has freed by then gone.

**AutoMission** is AP_Mission and the part of AUTO that drives it. The members
of the class are one record `m`, its methods are operators on it (`NextCmd`,
`AdvanceNav`, `Resume`, `SetCurrent`). Each loop of the code is a step from one
round's locals to the next (`SearchRound`, `SeekRound`, `PreloadRound`,
`NavRound`), iterated by a recursive function until the loop ends, counters and
all. The table of jumps counts laps per command, with `None` for a jump that
has no slot in it; `taken` is history and counts every limited jump taken, also
one the table does not. Uploads in flight are its edit actions. The change
detector compares milliseconds, so that an edit may be missed (`Stamped`); a
`run()` that waits for an origin changes nothing and is a stutter. Copter's
AUTO, in contrast, has legs and no commands: what a mission's index says
matters to no failsafe.

**MCMonitors**, **MCStorage** and **MCMissions** put components that share no
state into one run, as a disjoint sum: the variable `part` says whose behaviour
it is. The run answers a question of each, and nothing is lost, since no step of
one could enable or disable a step of another.

## 3. What the runs check

| Run | Question | Instance |
|---|---|---|
| CopterFailsafes | do radio, GCS and EKF failsafes in any order leave modes that need neither pilot nor lost position? | 8 modes, 4 environments, EKF count 2; 428 thousand states |
| CopterCommands | do modes stay within an EKF failsafe against pilot and ground station commands, forced arming and takeoffs, and do landings end disarmed? | 5 environments; liveness; with the throttle stick up and down and arming at any time, vehicles fly, land with motors at full range, and wait on the ground; 309 thousand states |
| CopterBattery | does a battery landing go on, and does Copter implement BattMonitor? | LAND at the low level, BRAKE_LAND (which has no priority) at the critical one, EKF count 1, seven modes; 0.95 million states |
| CopterFlight | do combined failsafes of one loop stop the motors of a flying vehicle? | terrain, dead reckoning, fence, GCS, radio, six modes; 385 thousand states |
| Monitors | is the most urgent battery obeyed, does the timer stop hung loops and only those, is a lost radio noticed and its failsafe ended neither early nor never; does SMART_RTL start? | three batteries with different actions; silence 2, repetition 1, clock to 4; count 3, timeout 2; four points, one loop; 551 thousand states |
| SmartReturn | does SMART_RTL start on a clean path, and do the removals' errors have no causes but two? | six points, two loops; 6.5 million states |
| Storage | does what was acknowledged survive a loss of power at any write, and is what is not marked dirty stored? | two blocks, logs of four records; two lines; FRAM; 57 thousand states |
| Missions | is an accepted upload whole, does a mission stay in its plan, in AUTO, in order, and end? | two stations, plans of up to three items where two fit; four missions, one edit; 164 thousand states |

**Bounds.** `EkfIterMax` stands for ten iterations: one and two suffice to have
a count that is zero, in between and full. Environments are not all 256
combinations but those where one thing is missing at a time, plus a high
throttle; a handler asks at most two of its fields together, and consecutive
steps choose anew. Each run enables the tasks its question is about: all of
them at once would have about a hundred times the states. CopterFlight leaves
out BRAKE and SMART_RTL, CopterBattery SMART_RTL: modes none of the failsafe
actions configured there asks for. `Clock` stops at 4,
beyond both timeouts, where the code's comparisons no longer change. A single
battery has both levels, three batteries have low and critical actions of
different priorities including "none". `Timeout` 2 lets frames be late, nearly
late and in time. A flash log of four records holds a full copy, the reserve and
one record more, so that sectors switch after nearly every write; two blocks are
the fewest of which one may be lost and the other kept. An upload of two items
has a first and a last, three are refused. The missions have a lap, a DO
command, a delay, a landing sequence and one jump more than there are slots;
`FindLoops` and `SeekLoops` are the code's 64 and 255; `PreloadLoops`, the rounds
allowed to the one loop the code gives no bound, is 255 too, far more than any of
these missions needs. `MaxEdits` is one edit,
jump or disarm of a ground station per behaviour: with it used up outside AUTO,
a cleared mission has no next step, so Missions alone does not check deadlock.
A path of six points has room for two loops that do not overlap, and `LoopsMax`
2 lets them fill the buffer; StuckCleanup needs five points and
one loop, and Monitors, which only asks whether the threads wait for each other,
four points and one loop. `CleanupTrigger` and `CleanupMin` are 4, for 50 and 10:
a path of fewer than three points never counts as searched, so that a smaller one
would start searches over and over, which the code's numbers do not. Nothing else
is bounded; in particular the main thread takes as many steps as it likes
between two of the IO thread's.

**Properties.** `EkfFailsafeHeld` and `EkfLandsWithoutGPS`: whichever of a dozen
callers sets a mode, none that needs a position is flown by an armed vehicle in
an EKF failsafe, and a LAND does not use one. `SubmodeBelongsToMode`: no
landing sequence, takeoff or leg survives its mode. `RadioLossHeld`: no vehicle
without a radio is left in a pilot's mode; it assumes an altitude estimate, no
ground commands and no obstacles, without which the code gives no such
assurance (see section 4 and the hazards). `BatteryLandingHeld`: the
landing of a battery failsafe goes on once the radio is lost. `FlightKeepsMotors`:
a failsafe disarms in flight only at zero throttle in a manual mode.
`LandingEnds`: no vehicle stays landed and armed in a landing.
`NoBatteryIgnored`, `TriggeredIffFailsafe`: the action in force is at least as
urgent as every battery asks, and the flag other failsafes read is right.
`OnlySilentLoopTrips`, `HungLoopStopsMotors`: the timer never stops a running
loop's motors, and does stop a hung one's. `LowThrottleEndsSlowly`,
`SilenceIsNoticed`, `GoodLinkEndsFailsafe`: the three ways to get the end or the
start of a radio failsafe wrong.
`ReturnStartsClean`: whenever SMART_RTL is left, entered again and its cleanup
requested anew, the path flown back has been searched to its end and holds
nothing left to remove; excepted is a completion recorded by a run begun before
the request (`misread`, see section 4). `CleanupEnds`: the two
threads never wait for each other, nor does the IO thread search for ever.
`ErrorsHaveCauses`: the errors "that should never happen" happen for the two
reasons named, and for no other.

`AcknowledgedIsKept`: whatever boots, switches of sectors and losses of power
came before, the next boot reads what was acknowledged. `LapsesHaveCauses`
narrows its two exceptions down: a boot loses everything only after power was
lost in a switch or a boot, and never by the erase of two sectors in use or two
full ones; records go astray only with the second sector alone in use.
`DisarmedWritesSucceed`: full sectors never fail a disarmed vehicle's write.
`CleanMeansStored`, `MatchingCopyMeansStored`, `QuietMeansStored`: a line that
is not marked dirty is stored, the thread clears no mark it should not, and
when writers are quiet all is stored at last. `ReceivingHasStore`,
`AcceptedIsWhole`, `FenceChangesAsAWhole`, `UploadsEnd`: an upload begun by a
count is never accepted mixed or short, unless a partial list takes it over
(section 4); a fence in use never has gaps but where a partial list left them,
and an abandoned upload does not block the others for ever. `JumpsWithinPlan`:
no jump is taken more often than planned, pauses, restarts, commands of a
ground station and searches that look ahead notwithstanding; it says nothing
once a rewind has resumed the mission, since jumps are then taken uncounted,
nor of an edited one. `RunsOnlyInAuto`: leaving AUTO stops the mission, but for
the ways known. `PlainRewindKeepsOrder`: a paused and rewound mission goes on
in its order, jumps aside. `MissionEnds`: a mission flown and verified ends.

**Each property has a mutant**: an operator named `<definition>_<what is
wrong>` next to the definition it replaces, as a slip in that code would, with
which TLC finds the property violated.

**Fairness.** `LandingEnds` assumes `WF(FastLoop)`, which is
`AP_Scheduler::loop()` running its fast tasks in every loop whatever the other
tasks do, and `SF(MotorsOutput(TRUE, TRUE))`: arming delay and ramps are timers
in a task that runs every loop, so they run out. No fairness is asked of the
pilot, the ground station or any scheduled task. `CpuFairSpec` has weak
fairness of the timer interrupt and of time, and none of the main loop, which
may hang anywhere. `RadioFairSpec` has it of the poll and of time, none of
frames. `RtlFairness` has it of the IO thread's run and of
`wait_cleanup_run()`, both called at a fixed rate, and strong fairness of
removals: the main thread holds the semaphore for moments only, so that
`take_nonblocking()` does not fail for ever. MCMonitors writes it out
(`RemovalSucceeds`), which costs TLC less. `HalFairness`: the storage thread
goes on, and a write tried for ever does not fail for ever (strong, as each
failure disables it); writers owe nothing. `UploadFairness` has it of time and
of `update()`, none of any station. `MissionFairness` has it of AUTO's `run()`,
with an origin known, and of commands being verified; it is written out as what
`WF` means, with `CanProgress` for its ENABLED, which TLC would have to search
for.

## 4. Where code and documentation disagree

Four runs are expected to be violated; each checks what a comment says, and
`PROJECT.json` quotes it.

* `CpuRearm`: after a CPU failsafe the vehicle refuses to arm: "already armed".
  `failsafe_check()` clears the motors' flag, and nothing clears AP_Arming's.
* `FlashSwitch`: power lost between the two marks of `switch_sectors()` does
  leave an erase, in the very next boot. The last sector it loads is the full
  one, so `write_offset` is at its end when the other becomes the current one:
  `write_all()` has no room, neither `switch_sectors()` nor `switch_full_sector()`
  can help, and `init()` calls `erase_all()`. What was loaded lives on in memory
  only. (Where `switch_full_sector()` marked the sector, with room left in it, the
  copy succeeds, into a sector not marked in use, and the boot after it finds
  nothing to load.)
* `RewindLap`: a mission paused between a jump and the waypoint behind it does
  not continue as planned. The jump was counted when taken, the rewind lies in
  front of it, and the lap it was taken for is left out.
* `StuckCleanup`: a SMART_RTL left and entered again with most of its path flown
  back may find a loop among the points it has taken off. The removal is a
  program error, which deactivates SmartRTL and reports success "so
  thorough_cleanup does not get stuck"; but the request of a path that is not
  active is never answered, and SMART_RTL hovers until another mode is set.

Seen while modelling, and visible in the definitions named:

* Failsafes. `LoopSilent` disarms in the very call that trips, although
  `failsafe.cpp:56` says it does not immediately disarm. A timer interrupt
  between the two lines of `failsafe_enable()` disarms after a slow arming.
  A reset that leaves a battery critical (`ResetRemaining` with a level other
  than 0) swallows its action. Battery action 6 is missing from Copter's priority
  list and loses against no action at all. "Continue if landing on any failsafe"
  (FS_OPTIONS bit 3) does not cover terrain and dead reckoning. `LowThrottle` and
  `GoodThrottle` count to three, but not three consecutive ones, and a failsafe
  begun by silence ends with the first good frame.
* Modes. With a bad altitude estimate `MayInit` refuses a vehicle in STABILIZE
  every mode of FS_THR_ENABLE, LAND included. `GcsMissionStart` before arming
  gets around `auto_armed`. A takeoff command in the arming delay lets
  `AltHoldTakeoff` clear `land_complete` before the motors turn.
* SmartRTL. `_path_points_completed_limit`, by which the searches learn that
  the path got shorter, is lost in a run that returns early or serves a request
  (`Snapshot`, `ThoroughCleanup`). `restart_simplify_if_new_points()` compares
  lengths: a path flown back and recorded again to the same length is not
  searched (`ThoroughCleanup`). `path_follow_run()` "should always have at
  least two points" and may have none, after a home set in flight
  (`FollowGivesUp`). `Acknowledge`, which answers the request pending when the
  IO thread's run ends, may answer one made again after the run has searched:
  with home set anew, a point recorded and SMART_RTL left, entered and its
  cleanup requested between two statements of that thread, a path nobody has
  searched is flown back. Nothing in the code excludes it, but it takes an IO
  thread held up for as long. A SMART_RTL left on its way makes the rest of the
  path end where the pilot flew on.
* Missions. The guard against endless loops in `advance_current_nav_cmd()`
  (`AP_Mission.cpp:1855`) tests a `uint8_t` that has wrapped to 255 when it is
  used up: a DO command under a jump that repeats for ever keeps a mission
  running that has no navigation command (`Seek`). A rewind that misses the
  interrupted waypoint, because the jump before it is used up, leaves
  `resuming_mission` set: no later jump is counted, and one of a limited number
  of laps is taken for ever (`Taken`). `MissionItemProtocol.h:22` calls the
  upload a mutex over the mission; `HandleMissionWritePartialList` does not ask
  for it and takes an upload over. One for a fence that is being uploaded
  fails, and frees the mask of the upload
  (`HandleMissionWritePartialListRefused`). `set_current_cmd()` of a mission
  that is not running (`Preload`) has no bound on its search at all: a mission
  of a DO command under a jump that repeats for ever would hang the main loop
  at `AP_Mission.cpp:582`; the missions of the runs have none that does. The
  change detector forgets an edit that comes together with a new index
  (`Look`).
* Storage. For flash and SD card the thread writes the line as it is by then, not
  the copy it compares (`Written`), so that `MatchingCopyMeansStored` holds for
  FRAM only. A backup file that ends early (`LoadBackupFails`) leaves lines in
  memory that are neither stored nor marked.

## 5. What is proved

TLAPS checks these for every value of the constants: every set of tasks, modes,
environments and parameters, any number of batteries, any timeout. The
assumptions are the `ASSUME`s of the modules, which TLC also evaluates, and for
`BattMonitor` that resets recover (`ResetLevels \subseteq {0}`): a reset that
leaves a battery critical stores the level without asking for its action.

* **Copter** (`Copter_proofs`): `TypeCorrect`, `EkfFailsafeIsHeld`,
  `SubmodesEndWithTheirMode` and, where the ground station cannot force an
  arming, `EkfFailsafeLandsWithoutGPS`, all from one invariant `IInv`.
  `EkfFailsafeHeld` is not inductive alone: it needs `fsEkf = ekf.bad`, without
  which a failure could be flagged with no event that leaves the mode, and the
  types need `ekf.bad \/ ekf.fails < EkfIterMax`, without which the count runs
  over. `Sound(v)` is what each handler keeps of its vehicle, and there is a
  lemma per handler; a step of the specification composes them. A forced arming
  in LAND is the one way to break the last theorem: it starts a LAND whose
  `control_position` was chosen on the disarmed vehicle, before the estimator
  failed, hence the hypothesis `NeverForced`.
* **Flight** (`CopterFlight_proofs`), from `IInv` as well. `FlyingKeepsMotors`
  has no hypothesis. `KeepsFlying(v, w)` says what a handler that takes a vehicle
  from v to w may do to one in flight, and is closed under composition: four
  handlers in one run of `three_hz_loop` are no worse than one, since no failsafe
  enters the manual mode in which another could disarm. `RadioLossIsHeld` is for
  a vehicle that is `LeftAlone`: no ground commands, obstacles or BRAKE_LAND, and
  an altitude estimate. Its lemmas follow `FliesItself` through each handler; that
  LAND ends every list of fallbacks, and can be set, is what they rest on.
  `BatteryLandingIsHeld` is for `NothingElseFails`: no ground commands and no
  terrain, fence or dead reckoning check, which do end a landing. An action as
  urgent as a landing is LAND or a termination, and both link failsafes put the
  battery's landing first. The runs CopterFailsafes and CopterBattery meet these
  hypotheses.
* **BattMonitor** (`Monitors_proofs`): the two invariants and the types are
  inductive together. A step only lowers the priority or, when a reset has
  cleared every battery, forgets it, when no battery is left to compare with.
* **Refinement** (`Copter_proofs`, last section): `CopterMonitorsItsBattery` shows
  that Copter's initial states are BattMonitor's and that each step is
  `CheckFailsafes`, `ArmOrDisarm` or a stutter of it. The lemmas say what
  `BatteryEvent` does to `armed`, and that no other action touches `batt`.
* **CpuFailsafe** (`Monitors_proofs`): `OnlyASilentLoopTrips`. The invariant
  relates the three clocks and the flag: the age of the stamp never exceeds the
  true silence unless a tick waits to be seen, and an open failsafe means a
  silent loop.
* **RadioLink** (`Monitors_proofs`): `LowThrottleFailsafeEndsSlowly`, by the
  invariant that counter and good frames together make up FS_COUNTER at least.
* **SmartRTLPath** (`Monitors_proofs`): `PathType`, `ErrorsAreCaused` and
  `ReturnIsClean`, for paths of any length, any number of loops, any triggers and
  margins. `PathIInv` says of what the IO thread has found that it is where the
  path still is, unless history says otherwise. Its centre is `Safe`, the set of
  lengths below which no removal under way will take the path: a loop that is not
  stale ends two points below one of them, and a search that has not shrunk is of
  one. Every step of either thread only adds to `Safe`, or marks what falls out
  of it; from there an error means stale or shrunk. Loops do not overlap
  (`WellFormed`), so that cutting one out leaves the others' starts before their
  ends when their indices are moved. `ReturnIsClean` has no hypothesis either, on
  how many steps the main thread takes or on timing: the exception of its property
  is a fact about which run a completion belongs to. `CleanIInv` adds to
  `PathIInv` that a request answered, and not misread, has a clean path (`Asked`),
  and that a run about to answer has found it clean if the request is older than
  the run (`Pending`). Only pops shorten a path while its request stands, and they
  leave a clean path clean.
* **All four watches** (`Monitors_proofs`): `MonitorsType` and `MonitorsKeep` carry
  the above over to the composition that the run checks. The types of the
  batteries need no hypothesis on resets.
* **FlashStorage** (`FlashStorage_proofs`): `FlashType`, `AcknowledgedIsRead`,
  `LapsesAreCaused` and `DisarmedWrites`, for any number of blocks, any
  contents and any number of slots that leaves room for the reserve and a
  record. `Keeps(c, P)` says of one flash content that a boot finds in it, for
  every block, one of the values P allows, or finds nothing at all and so loses
  everything, which it never does to two sectors alike. The invariant `Kept`
  says it of the flash and of what it may become; `Ready(m, P)` says it of each
  image a machine passes through, and there is a lemma per operation that it
  stays so. A log is `Tight`: records at its head, empty slots behind, so that
  a cut record is skipped and the last one of a block wins. A copy of all
  blocks loads as what was copied wherever it stops, since the sector it is
  copied from is still loaded first. `Roomy` is the room behind
  `DisarmedWrites`: while the other sector is full, the one in use has the
  reserve left, which holds all blocks once; `Left(m, n)` counts it down in the
  copy. `Causes` tells a flash that has lost its contents from one that never
  had any by the first block, which is never zero once there is something.
* **HalStorage** (`Storage_proofs`): `CleanIsStored` and
  `MatchingCopyIsStored`, for boards whose backend is the FRAM, any number of
  lines and any contents. `CleanMeansStored` alone says nothing of a line between
  copy and mark; the invariant adds that the thread's line is marked dirty, and
  that once written the backend holds the copy. The second half is what fails
  for the other backends.
* **Both layers** (`Storage_proofs`): `StorageType`, with any backend, and
  `StorageKeeps`.
* **MissionUpload** (`MissionUpload_proofs`): `UploadType`,
  `ReceivingHasItsStore`, `AcceptedUploadIsWhole` and `FenceChangesWhole`, for
  any stations, plans, list length and timeout. `CollectedIsPlan` says what has
  been collected of an upload under way: the items up to the one requested are
  the announced plan's, the list is no longer than the plan, and the last
  request is its last item; a count refused for want of memory leaves an upload
  that receives without a list, which `broken` names. `MaskFits`,
  `PartialIsMasked` and `EmptyHasNoList` say the same of a partial list. One
  lemma per handler; all ways an upload ends share `EndKeeps`.

* **AutoMission** (`Missions_proofs`): `FlightKeepsLaps` and `MissionRunsInAuto`,
  for any missions, edits, jump slots and loop bounds. The invariant `MissionIInv`
  says that the executor is of its type, that a loaded navigation command has an
  index (`Aimed`: without it a resume or a restart would set a command that is
  none), and that before any rewind the table's laps are those taken and fit the
  plan (`LapsFit`). The last is what the guard of the code does not give by
  itself: a jump taken uncounted, or a table reset while the mission goes on,
  would break it. Each operation of the class has a lemma that says what it
  changes: `OnlyLaps` (a search), `Alike` (a search that loads), `Quiet` (an
  operation that never starts a mission), `Held` (one that may resume), `Kept` (one
  that may start). A step of the vehicle composes them; the edit actions keep the
  types and set `meddled`. Every loop has a lemma (`SearchLoop`, `SeekLoop`,
  `PreloadLoop`, `NavLoop`) that what each round keeps, the loop keeps.
  `RewindKeepsPlainOrder` needs `RewindInv` besides: the two waypoints recorded
  are waypoints of the plan, the older one first, and a vehicle that resumes
  flies between them, so that a search finds the newer one at the latest and
  loads nothing behind it. Its hypothesis is `MaxPlan < SeekLoops`. The search
  for the next waypoint gives up after 255 commands, and takes one found in the
  last of these rounds for none; a mission as long as that could end on the way
  back. With a JUMP the property is false: that is the run RewindLap.
* **Both parts of a mission** (`Missions_proofs`): `MissionsType` and
  `MissionsKeep` carry types, lists, laps and AUTO over to the composition that
  the run checks.

**Loops.** The code's loops over blocks, records, commands and loops of a path are
recursive functions in the modules, `f[k \in 0..n]`. The library's induction
theorems take a predicate as a parameter, which the provers cannot
instantiate; `Iteration` states induction for a *set* instead: a set that holds 0
and, with each number below n, the next one, holds all of `0..n` (`LoopInduction`),
and a function defined by its first value and its step is what those say
(`Iterates`, `IterationExists`). A proof about a loop defines the set of the numbers
for which its invariant holds and cites that.

Only model-checked: everything about liveness, which needs ENABLED
(`LandingEnds`, `HungLoopStopsMotors`, `SilenceIsNoticed`,
`GoodLinkEndsFailsafe`, `CleanupEnds`, `QuietMeansStored`, `UploadsEnd`,
`MissionEnds`). Every safety property of a passing run is stated by a theorem;
those with a hypothesis are named above.

## 6. What is not modelled

Nineteen flight modes; NAV_ATTITUDE_TIME; motor interlock, emergency stop,
standby and airmode; ARMING_CHECK = 0 and the sensor checks; GUIDED and its
failsafe option; vibration compensation; the GCS and terrain timers; time
budgets of the scheduler. Of missions: navigation commands that refuse to
start, DO_SET_RESUME_REPEAT_DIST, jump tags, the flag of the landing sequence,
downloads and rally points. Of AUTO: the option that lets it take off without
raised throttle. Of SmartRTL: where the points are, `set_home()` in the midst
of a search (its differences of `uint16_t` may wrap), the stack of the
simplification, which should never be full, and the example sketch's modes. Of
storage: flash writes and erases that fail, `re_initialise()`, blocks that
overlap. The vehicle is assumed to have passed the fork's motor test
(`req_motor_test`), without which nothing arms. Estimators and controllers are
floating point code; the models let them answer anything at any step, so what
holds does not depend on them. Drivers, the simulator and scripting are other
programs or pure input and output.

## 7. Plan

Done: modes, arming, landing, failsafes, battery, radio, CPU failsafe, flash log,
memory image, mission upload, mission execution, SmartRTL's path, with the
theorems above.

Next, in this order:

1. `AdvancedFailsafe`, `Fences`, `Parachute`, `Sprayer`: composed with Copter
   where they change modes.
2. `RingBuffer`, `FileTransfer`, `ParamSave`, then the Commander.
3. AUTO's NAV_ATTITUDE_TIME and the recheck of the EKF failsafe, and re-entrant
   `set_mode()` from `mission.update()`, in Copter.

Theorems to come: what the new modules are to promise, and `RewindKeepsPlainOrder`
for missions whose jumps all lie behind the waypoint at which the vehicle was
interrupted. `CopterMonitorsItsBattery` is the only refinement; an abstract store
that FlashStorage and HalStorage implement is the next one worth stating.
