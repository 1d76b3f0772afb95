---------------------------- MODULE SmartRTLPath ----------------------------
(***************************************************************************)
(* AP_SmartRTL: the main thread records the flight as a path of points and *)
(* SMART_RTL flies it back, taking points off its end; the IO thread looks *)
(* for points and loops the path can do without and removes them by index. *)
(*                                                                         *)
(* Of the path only its length matters: what the searches find depends on  *)
(* where the points are, so any points between the ends of what is         *)
(* searched may be found superfluous and any two segments close.           *)
(*                                                                         *)
(* A search or a removal by the IO thread is one step, and so is what the  *)
(* main thread does to the path; whoever meets the other's semaphore does  *)
(* without.  Between two steps of the IO thread the main thread may take   *)
(* any number.  set_home() in the midst of a search or a removal, when it  *)
(* resets what the thread is reading, is not modelled.                     *)
(***************************************************************************)
EXTENDS Integers, FiniteSets, Sequences, SequencesExt

CONSTANTS
    PointsMax,      \* _path_points_max
    LoopsMax,       \* _prune.loops_max
    CleanupTrigger, \* SMARTRTL_CLEANUP_POINT_TRIGGER
    CleanupMin,     \* SMARTRTL_CLEANUP_POINT_MIN
    StartMargin     \* SMARTRTL_CLEANUP_START_MARGIN

ASSUME SmartRTLAssumption ==
    /\ PointsMax \in Nat \ {0} /\ LoopsMax \in Nat
    /\ CleanupTrigger \in Nat /\ CleanupMin \in Nat /\ StartMargin \in Nat

VARIABLES
    smart,      \* SMART_RTL's sub-mode, "OFF" in other modes
    active,
    count,      \* _path_points_count
    limit,      \* _path_points_completed_limit
    request,    \* _thorough_clean_request_ms is not zero
    complete,   \* _thorough_clean_complete_ms is the time of the last request
    simp, prune,    \* _simplify, _prune
    io,         \* where the IO thread is, and its local copies
    misread     \* history: what was completed is a run begun before it was requested

rtlVars == <<smart, active, count, limit, request, complete, simp, prune, io, misread>>

Points == 0..PointsMax
\* prune_loop_t: its two segments' ends.  stale is history: see Stale.
Loop == [start : Points \ {0}, end : Points, stale : BOOLEAN]
\* SMARTRTL_POINTS_MAX, which no path exceeds, as a limit and as a number to remove
NoLimit == PointsMax
AllPoints == PointsMax + CleanupMin

\* shrunk is history, of both searches: points have been taken off the path
\* that is searched, or since the search flagged some.
ResetSimplification ==
    [complete |-> FALSE, removal |-> FALSE, flagged |-> {}, count |-> 0, done |-> 0,
     shrunk |-> FALSE]
RestartSimplification(s, n) ==
    [s EXCEPT !.complete = FALSE, !.removal = FALSE, !.flagged = {}, !.count = n,
              !.shrunk = count < n]

ResetPruning ==
    [complete |-> FALSE, i |-> 0, count |-> 0, done |-> 0, loops |-> <<>>, shrunk |-> FALSE]
RestartPruning(p, n) ==
    [p EXCEPT !.complete = FALSE, !.i = IF n > 0 THEN n - 1 ELSE 0, !.count = n,
              !.shrunk = count < n \/ limit < n]

\* Two members are history: raced, set_home() has reset the points the thread is
\* to remove; renewed, a cleanup has been requested since the thread's run began.
Idle == [at |-> "idle", count |-> 0, limit |-> 0, number |-> 0, raced |-> FALSE,
         renewed |-> FALSE]

RtlTypeOK ==
    /\ smart \in {"OFF", "WAIT", "FOLLOW", "PRELAND"}
    /\ active \in BOOLEAN /\ count \in Points /\ limit \in Points
    /\ request \in BOOLEAN /\ complete \in BOOLEAN
    /\ simp \in [complete : BOOLEAN, removal : BOOLEAN, flagged : SUBSET (1..PointsMax),
                 count : Points, done : Points, shrunk : BOOLEAN]
    /\ prune \in [complete : BOOLEAN, i : Points, count : Points, done : Points,
                  loops : Seq(Loop), shrunk : BOOLEAN]
    /\ Len(prune.loops) <= LoopsMax
    /\ \A k \in DOMAIN prune.loops : prune.loops[k].start < prune.loops[k].end
    /\ io \in [at : {"idle", "snapped", "simplify", "prune", "cleaned"}, count : Points,
               limit : Points, number : {0, CleanupMin, AllPoints}, raced : BOOLEAN,
               renewed : BOOLEAN]
    /\ misread \in BOOLEAN

RtlInit ==
    /\ smart = "OFF" /\ active = FALSE
    /\ count = 0 /\ limit = 0 /\ request = FALSE /\ complete = FALSE
    /\ simp = ResetSimplification /\ prune = ResetPruning /\ io = Idle
    /\ misread = FALSE

-----------------------------------------------------------------------------
(* The main thread *)

\* Bug: loops of an earlier flight are kept.
SetHome_KeepsLoops(stored) ==
    /\ simp' = ResetSimplification /\ prune' = [ResetPruning EXCEPT !.loops = prune.loops]
    /\ IF stored
       THEN count' = 1 /\ active' = TRUE
       ELSE count' = 0 /\ UNCHANGED active
    /\ UNCHANGED <<smart, limit, request, complete>>

\* set_home() of arm(), of a home set by the EKF or a ground station in flight
\* too, and of update() until one is saved.  Its first point is stored, unless
\* there is no position or no semaphore; a path that is active stays so.
SetHome(stored) ==
    /\ simp' = ResetSimplification /\ prune' = ResetPruning
    /\ IF stored
       THEN count' = 1 /\ active' = TRUE
       ELSE count' = 0 /\ UNCHANGED active
    /\ UNCHANGED <<smart, limit, request, complete>>

\* Points are saved while armed and not in SMART_RTL; to be disarmed is here
\* to travel nowhere.
Saves == smart = "OFF" /\ active

\* update() has travelled far enough: add_point()
AddPoint ==
    /\ Saves /\ count < PointsMax
    /\ count' = count + 1
    /\ UNCHANGED <<smart, active, limit, request, complete, simp, prune>>

\* update() has had no position, or stored none, for SMARTRTL_TIMEOUT.
SavingTimesOut ==
    /\ Saves /\ active' = FALSE
    /\ UNCHANGED <<smart, count, limit, request, complete, simp, prune>>

EnterSmartRTL ==
    /\ smart = "OFF" /\ active /\ smart' = "WAIT"
    /\ UNCHANGED <<active, count, limit, request, complete, simp, prune>>

\* Bug: exit() leaves the request.
ExitSmartRTL_KeepsRequest ==
    /\ smart # "OFF" /\ smart' = "OFF"
    /\ UNCHANGED <<active, count, limit, request, complete, simp, prune>>

ExitSmartRTL ==
    /\ smart # "OFF" /\ smart' = "OFF" /\ request' = FALSE
    /\ UNCHANGED <<active, count, limit, complete, simp, prune>>

\* wait_cleanup_run() and request_thorough_cleanup().  Milliseconds pass between
\* requests: a new one is never the one completed.
WaitCleanupRun ==
    /\ smart = "WAIT" /\ active
    /\ \/ ~request /\ request' = TRUE /\ complete' = FALSE /\ UNCHANGED smart
       \/ request /\ complete /\ request' = FALSE /\ smart' = "FOLLOW" /\ UNCHANGED complete
    /\ UNCHANGED <<active, count, limit, simp, prune>>

\* The last point of a loop, and the one behind it, are where the path closes.
\* A loop is stale when they have been taken off the path, or may have been: it
\* was found in a path, or a stale loop was cut out of one, that had shrunk.
Stale(loop, n) == n <= loop.end + 1
Shortened(loop, n) == [loop EXCEPT !.stale = loop.stale \/ Stale(loop, n)]

Shrunk(by) == [simp EXCEPT !.shrunk = @ \/ (by /\ (~simp.complete \/ simp.removal))]

\* path_follow_run() with its target reached: pop_point()
PopPoint ==
    /\ smart = "FOLLOW" /\ active /\ count > 0
    /\ count' = count - 1 /\ limit' = count'
    /\ smart' = IF count' = 0 THEN "PRELAND" ELSE smart
    /\ simp' = Shrunk(TRUE)
    /\ prune' = [prune EXCEPT
                    !.shrunk = prune.shrunk \/ ~prune.complete,
                    !.loops = [k \in DOMAIN prune.loops |-> Shortened(prune.loops[k], count')]]
    /\ UNCHANGED <<active, request, complete>>

\* There is no point left, or it has been impossible to get for ten seconds.
FollowGivesUp ==
    /\ smart = "FOLLOW" /\ (count = 0 \/ ~active) /\ smart' = "PRELAND"
    /\ UNCHANGED <<active, count, limit, request, complete, simp, prune>>

-----------------------------------------------------------------------------
(* The IO thread: run_background_cleanup() *)

\* Its local copies of count and limit
Snapshot ==
    /\ io.at = "idle" /\ active
    /\ io' = [Idle EXCEPT !.at = "snapped", !.count = count, !.limit = limit]
    /\ limit' = NoLimit
    /\ UNCHANGED <<smart, active, count, request, complete, simp, prune>>

\* detect_simplifications(): what lies between the last point already
\* simplified and the end may be found superfluous.
From(s) == IF s.done > 0 THEN s.done - 1 ELSE 0
DetectSimplifications(s) ==
    IF s.count < 3 THEN {[s EXCEPT !.complete = TRUE, !.shrunk = FALSE]}
    ELSE {[s EXCEPT !.flagged = @ \cup f, !.removal = @ \/ f # {}, !.done = s.count,
                    !.complete = TRUE, !.shrunk = @ /\ f # {}] : f \in SUBSET ((From(s) + 1)..(s.count - 2))}

Overlap(k, l) == k.start <= l.end /\ l.start <= k.end

\* The loops that do not overlap with new, in their order
Apart(loops, new) ==
    LET kept[k \in 0..Len(loops)] ==
            IF k = 0 THEN <<>>
            ELSE IF Overlap(loops[k], new) THEN kept[k - 1]
            ELSE Append(kept[k - 1], loops[k])
    IN  kept[Len(loops)]

\* add_loop(): a loop that overlaps with others takes their place or not,
\* whichever is longer.
AddLoop(loops, new) ==
    {Append(Apart(loops, new), new)}
        \cup {l \in {loops} : \E k \in DOMAIN loops : Overlap(loops[k], new)}

\* detect_loops() for one value of _prune.i, whose segment may be close to an
\* earlier one.  Once the search is complete its i is not looked at again.
LoopAt(p, j) == [start |-> j, end |-> p.i - 1, stale |-> p.shrunk]
\* A loop there is no room for ends the search, in this run or at its end.
GivesUp(p) == {[p EXCEPT !.complete = TRUE, !.i = 0, !.done = d] : d \in {p.done, p.count}}
DetectLoops(p) ==
    LET full == Len(p.loops) >= LoopsMax
        found == IF full THEN {}
                 ELSE UNION {AddLoop(p.loops, LoopAt(p, j)) : j \in 1..(p.i - 2)}
        ends == p.i - 1 < 4 \/ p.i - 1 < p.done
    IN  IF p.count < 4 THEN {[p EXCEPT !.complete = TRUE, !.i = 0]}
        ELSE {[p EXCEPT !.loops = l, !.i = IF ends THEN 0 ELSE @ - 1, !.complete = ends,
                        !.done = IF ends THEN p.count ELSE @] : l \in {p.loops} \cup found}
             \cup (IF full THEN GivesUp(p) ELSE {})

\* Bug: pruning starts again without new points.
PruningOf_Always(p, s) == IF p.complete THEN RestartPruning(p, s.done) ELSE p

\* restart_pruning_if_new_points()
PruningOf(p, s) == IF p.complete /\ p.count # s.done THEN RestartPruning(p, s.done) ELSE p

LeastOf(a, b) == IF a < b THEN a ELSE b
Shrink(r, n) == [r EXCEPT !.done = LeastOf(@, n)]
Room == PointsMax - io.count

\* What a run of either cleanup does: search, begin to remove points, or end.
Searches(s) ==
    /\ simp' \in DetectSimplifications(s) /\ io' = Idle /\ UNCHANGED prune
LooksForLoops(p, s) ==
    /\ prune' \in DetectLoops(p) /\ simp' = s /\ io' = Idle
Removes(what, n, s, p) ==
    /\ io' = [Idle EXCEPT !.at = what, !.number = n, !.renewed = io.renewed]
    /\ simp' = s /\ prune' = p
Ends(s, p) ==
    /\ io' = Idle /\ simp' = s /\ prune' = p
Completes(s, p) ==
    /\ io' = [Idle EXCEPT !.at = "cleaned", !.renewed = io.renewed] /\ simp' = s /\ prune' = p

RoutineCleanup ==
    LET p == PruningOf(prune, simp)
        s == Shrink(simp, io.limit)
        q == Shrink(p, io.limit)
        toSimplify == IF io.count > s.done THEN io.count - s.done ELSE 0
        low == Room <= StartMargin
        restart == toSimplify >= CleanupTrigger \/ (low /\ toSimplify >= CleanupMin)
    IN  \/ ~simp.complete /\ Searches(simp)
        \/ simp.complete /\ simp.removal /\ Removes("simplify", 0, simp, prune)
        \/ simp.complete /\ ~simp.removal /\
           \/ ~p.complete /\ LooksForLoops(p, simp)
           \/ p.complete /\
              \/ restart /\ Ends(RestartSimplification(s, io.count), q)
              \/ ~restart /\ low /\ q.loops # <<>> /\ Removes("prune", CleanupMin, s, q)
              \/ ~restart /\ ~(low /\ q.loops # <<>>) /\ Ends(s, q)

ThoroughCleanup ==
    LET s == IF simp.complete /\ simp.count # io.count
               THEN RestartSimplification(simp, io.count) ELSE simp
        p == PruningOf(prune, s)
    IN  \/ ~s.complete /\ Searches(s)
        \/ s.complete /\ s.removal /\ Removes("simplify", 0, s, prune)
        \/ s.complete /\ ~s.removal /\
           \/ ~p.complete /\ LooksForLoops(p, s)
           \/ p.complete /\ p.loops # <<>> /\ Removes("prune", AllPoints, s, p)
           \/ p.complete /\ p.loops = <<>> /\ Completes(s, p)

Cleanup ==
    /\ io.at = "snapped"
    /\ IF request
       THEN /\ IF complete THEN Ends(simp, prune) ELSE ThoroughCleanup
            /\ UNCHANGED complete
       ELSE complete' = FALSE /\ RoutineCleanup
    /\ UNCHANGED <<smart, active, count, limit, request>>

\* remove_points_by_simplify_bitmask(), with the semaphore
RemoveSimplified ==
    /\ io.at = "simplify" /\ io' = Idle
    /\ LET removed == Cardinality(simp.flagged \cap 1..(count - 1))
           fits == count > removed /\ simp.count > removed
           left == IF fits THEN simp.count - removed ELSE simp.count
       IN  /\ count' = IF fits THEN count - removed ELSE count
           /\ active' = (active /\ fits)
           /\ simp' = [simp EXCEPT !.flagged = {}, !.removal = FALSE, !.shrunk = FALSE,
                                   !.count = left,
                                   !.done = IF fits THEN left ELSE @]
    /\ UNCHANGED <<smart, limit, request, complete, prune>>

Length(loop) == loop.end - loop.start

\* The indices of a loop that is left, once gone has been cut out of the path
Moved(loop, gone) ==
    LET to(x) == IF x >= gone.end THEN x - Length(gone) ELSE x
    IN  [start |-> to(loop.start), end |-> to(loop.end), stale |-> loop.stale \/ gone.stale]

Shift(loops, gone) == [k \in DOMAIN loops |-> Moved(loops[k], gone)]

\* remove_points_by_loops(), from the last loop found: a state r of loops,
\* length of the path, points removed and the error that should never happen
Cut(r, number) ==
    LET loop == Last(r.loops)
    IN  IF r.error \/ r.loops = <<>> \/ r.removed >= number THEN r
        ELSE IF r.n <= Length(loop) THEN [r EXCEPT !.error = TRUE]
        ELSE [loops |-> Shift(Front(r.loops), loop), n |-> r.n - Length(loop),
              removed |-> r.removed + Length(loop), error |-> FALSE]

CutLoops(loops, n, number) ==
    LET cuts[k \in 0..Len(loops)] ==
            IF k = 0 THEN [loops |-> loops, n |-> n, removed |-> 0, error |-> FALSE]
            ELSE Cut(cuts[k - 1], number)
    IN  cuts[Len(loops)]

\* An error returns true, so that thorough_cleanup() does not get stuck.
RemoveLoops ==
    /\ io.at = "prune"
    /\ LET r == CutLoops(prune.loops, count, io.number)
       IN  /\ count' = r.n
           /\ prune' = [prune EXCEPT !.loops = r.loops]
           /\ active' = (active /\ ~r.error)
           /\ simp' = Shrunk(r.n # count)
    /\ io' = IF io.number = AllPoints
               THEN [Idle EXCEPT !.at = "cleaned", !.renewed = io.renewed] ELSE Idle
    /\ UNCHANGED <<smart, limit, request, complete>>

\* The main thread has the semaphore: either removal is left to a later run.
RemovalFails ==
    /\ io.at \in {"simplify", "prune"} /\ io' = Idle
    /\ UNCHANGED <<smart, active, count, limit, request, complete, simp, prune>>

\* The completion is that of whatever is requested by now.
Acknowledge ==
    /\ io.at = "cleaned" /\ io' = Idle /\ complete' = request
    /\ misread' = (io.renewed /\ request)
    /\ UNCHANGED <<smart, active, count, limit, request, simp, prune>>

Removal == RemoveSimplified \/ RemoveLoops
RunBackgroundCleanup ==
    \/ (Snapshot \/ Cleanup \/ Removal \/ RemovalFails) /\ UNCHANGED misread
    \/ Acknowledge

-----------------------------------------------------------------------------
SmartRTLRun == WaitCleanupRun \/ PopPoint \/ FollowGivesUp

\* What a step of the main thread is to a run of the IO thread that has begun
Meanwhile(raced) ==
    /\ IF io.at = "idle" THEN UNCHANGED io
       ELSE io' = [io EXCEPT !.raced = @ \/ (raced /\ io.at = "simplify"),
                             !.renewed = @ \/ (~request /\ request')]
    /\ misread' = (misread /\ request')

HomeStep == \E stored \in BOOLEAN : SetHome(stored)
FlightStep ==
    AddPoint \/ SavingTimesOut \/ EnterSmartRTL \/ ExitSmartRTL \/ SmartRTLRun

RtlNext ==
    \/ HomeStep /\ Meanwhile(TRUE)
    \/ FlightStep /\ Meanwhile(FALSE)
    \/ RunBackgroundCleanup

\* The main thread does not have the semaphore whenever the IO thread wants it.
RtlFairness ==
    /\ WF_rtlVars(RunBackgroundCleanup) /\ SF_rtlVars(Removal /\ UNCHANGED misread)
    /\ WF_rtlVars(WaitCleanupRun /\ Meanwhile(FALSE))

RtlSpec == RtlInit /\ [][RtlNext]_rtlVars /\ RtlFairness

-----------------------------------------------------------------------------
(* Properties *)

\* Nothing that was found is left to remove, and the path was searched to its end.
Clean ==
    /\ simp.complete /\ simp.flagged = {} /\ count <= simp.count
    /\ prune.complete /\ prune.loops = <<>>

Returns == smart = "WAIT" /\ smart' = "FOLLOW" /\ count > 1

\* SMART_RTL begins to fly back only along a path that is clean to its last
\* point, whatever the main thread does while the IO thread is at it, unless
\* the cleanup it has been told of had begun when it asked for one
\* (request_thorough_cleanup(), run_background_cleanup()).
ReturnStartsClean == [][Returns /\ ~misread => Clean]_rtlVars

\* The program error that "should never happen", which deactivates SmartRTL,
\* has one of two causes: set_home() has come between the two steps of a
\* simplification's removal, or points have been taken off the path since the
\* search began that found what is removed now, points or a loop
\* (remove_points_by_simplify_bitmask(), remove_points_by_loops()).
ErrorsHaveCauses ==
    [][active /\ ~active' =>
          /\ RemoveSimplified => io.raced \/ simp.shrunk
          /\ RemoveLoops => \E k \in DOMAIN prune.loops : prune.loops[k].stale]_rtlVars

\* A SMART_RTL that waits for the cleanup of its path gets to fly it, unless
\* SmartRTL is deactivated or home is set for ever (wait_cleanup_run()).
CleanupEnds ==
    []<>(smart # "WAIT" \/ ~active) \/ []<><<HomeStep>>_rtlVars

\* remove_points_by_loops() on a program error: "we return true so
\* thorough_cleanup does not get stuck".  Then it is not that error which
\* deactivates a path SMART_RTL waits for: request_thorough_cleanup() answers
\* false for a path not active, and SMART_RTL hovers until its mode is changed.
CleanupNotStuck == [][RemoveLoops /\ smart = "WAIT" => active']_rtlVars
=============================================================================
