--------------------------- MODULE Missions_proofs ---------------------------
(***************************************************************************)
(* Proofs about AutoMission, for any missions, edits and limits of its     *)
(* loops, and about the composition of flight and upload.  First what the  *)
(* loops do: what each round keeps, the loop keeps.  Then the operations   *)
(* of AP_Mission, on which executors they keep sound, and the actions.     *)
(* Last the history of waypoints and the rewind of resume(), in missions   *)
(* without a JUMP.                                                         *)
(***************************************************************************)
EXTENDS MCMissions, MissionUpload_proofs, Iteration

\* The numbers among the constants.
LEMMA Numbers ==
    /\ FindLoops \in Nat /\ SeekLoops \in Nat /\ PreloadLoops \in Nat
    /\ MaxPlan \in Nat \ {0} /\ MaxEdits \in Nat
BY AutoMissionAssumption

\* A loop whose rounds stay in a set stays there.
LEMMA LoopStays ==
    ASSUME NEW upper \in Nat, NEW S, NEW u,
           u[0] \in S, \A k \in 0..(upper - 1) : u[k] \in S => u[k + 1] \in S
    PROVE  \A k \in 0..upper : u[k] \in S
<1> DEFINE K == {k \in 0..upper : u[k] \in S}
<1>1. 0 \in K /\ \A k \in 0..(upper - 1) : k \in K => k + 1 \in K
  OBVIOUS
<1>2. 0..upper \subseteq K
  <2> HIDE DEF K
  <2> QED BY <1>1, LoopInduction
<1> QED BY <1>2

-----------------------------------------------------------------------------
(* The loops of the code.                                                  *)

\* What every round of a search keeps, the search keeps: get_next_cmd().
LEMMA SearchLoop ==
    ASSUME NEW p, NEW e, NEW i, NEW inc, NEW S,
           Search(e, i) \in S, \A s \in S : SearchRound(p, s, inc) \in S
    PROVE  \E s \in S : /\ NextCmd(p, e, i, inc) = [m |-> s.m, cmd |-> s.cmd]
                        /\ s.over \/ \E r \in S : s = SearchRound(p, r, inc)
<1> DEFINE upper == FindLoops + 1
           base == Search(e, i)
           step == [k \in 1..upper |-> [s \in S |-> SearchRound(p, s, inc)]]
           isLoop(f) ==
               f = [k \in 0..upper |->
                       IF k = 0 THEN base ELSE SearchRound(p, f[k - 1], inc)]
           u == CHOOSE f : isLoop(f)
           last == CHOOSE k \in 0..upper : u[k].over \/ k = upper
<1>1. upper \in Nat
  BY Numbers
<1>2. PICK g \in [0..upper -> S] :
          g[0] = base /\ \A k \in 1..upper : g[k] = step[k][g[k - 1]]
  <2>1. step \in [1..upper -> [S -> S]]
    OBVIOUS
  <2>2. base \in S
    OBVIOUS
  <2> HIDE DEF upper, step, base
  <2>3. \E g : Iterates(g, upper, S, base, step)
    BY <1>1, <2>1, <2>2, IterationExists
  <2> QED BY <2>3 DEF Iterates
<1>3. isLoop(g)
  <2>1. \A k \in 1..upper : \A s \in S : step[k][s] = SearchRound(p, s, inc)
    OBVIOUS
  <2> HIDE DEF step, upper, base
  <2>2. \A k \in 0..upper : k = 0 \/ (k \in 1..upper /\ k - 1 \in 0..upper)
    BY <1>1
  <2> QED BY <1>2, <2>1, <2>2
<1>4. isLoop(u)
  <2> HIDE DEF isLoop
  <2> QED BY <1>3
<1>5. u[0] = base /\ \A k \in 1..upper : u[k] = SearchRound(p, u[k - 1], inc)
  <2> HIDE DEF u, base
  <2> DEFINE v == [k \in 0..upper |-> IF k = 0 THEN base ELSE SearchRound(p, u[k - 1], inc)]
  <2>1. v[0] = base /\ \A k \in 1..upper : v[k] = SearchRound(p, u[k - 1], inc)
    BY <1>1
  <2>2. u = v
    BY <1>4
  <2> HIDE DEF v
  <2> QED BY <2>1, <2>2
<1>6. \A k \in 0..upper : u[k] \in S
  <2>1. u[0] \in S
    BY <1>5
  <2> HIDE DEF u, upper, base
  <2>2. \A k \in 0..(upper - 1) : k + 1 \in 1..upper /\ (k + 1) - 1 = k
    BY <1>1
  <2>3. \A k \in 0..(upper - 1) : u[k] \in S => u[k + 1] \in S
    BY <1>5, <2>2
  <2> QED BY <1>1, <2>1, <2>3, LoopStays
<1>7. last \in 0..upper /\ (u[last].over \/ last = upper)
  <2> HIDE DEF u, upper
  <2> QED BY <1>1
<1>8. NextCmd(p, e, i, inc) = [m |-> u[last].m, cmd |-> u[last].cmd]
  BY DEF NextCmd, Fetched, LastRound
<1>9. upper \in 1..upper /\ upper - 1 \in 0..upper
  BY Numbers
<1> HIDE DEF u, last, upper
<1>10. last = upper => u[last] = SearchRound(p, u[last - 1], inc) /\ u[last - 1] \in S
  BY <1>5, <1>6, <1>9
<1> QED BY <1>6, <1>7, <1>8, <1>10

\* The same for advance_current_nav_cmd(): what it answers, of its last round,
\* after which it seeks no more.
LEMMA SeekLoop ==
    ASSUME NEW p, NEW e, NEW i, NEW S,
           [m |-> e, at |-> i, left |-> SeekLoops, ok |-> TRUE] \in S,
           \A s \in S : SeekRound(p, s) \in S
    PROVE  \E s \in S : Seek(p, e, i) = Answer(s) /\ Sought(s)
<1> DEFINE upper == SeekLoops
           base == [m |-> e, at |-> i, left |-> SeekLoops, ok |-> TRUE]
           step == [k \in 1..upper |-> [s \in S |-> SeekRound(p, s)]]
           isLoop(f) == f = [k \in 0..upper |-> IF k = 0 THEN base ELSE SeekRound(p, f[k - 1])]
           u == CHOOSE f : isLoop(f)
           last == CHOOSE k \in 0..upper : Sought(u[k]) \/ k = upper
<1>1. upper \in Nat
  BY Numbers
<1>2. PICK g \in [0..upper -> S] :
          g[0] = base /\ \A k \in 1..upper : g[k] = step[k][g[k - 1]]
  <2>1. step \in [1..upper -> [S -> S]]
    OBVIOUS
  <2>2. base \in S
    OBVIOUS
  <2> HIDE DEF upper, step, base
  <2>3. \E g : Iterates(g, upper, S, base, step)
    BY <1>1, <2>1, <2>2, IterationExists
  <2> QED BY <2>3 DEF Iterates
<1>3. isLoop(g)
  <2>1. \A k \in 1..upper : \A s \in S : step[k][s] = SeekRound(p, s)
    OBVIOUS
  <2> HIDE DEF step, upper, base
  <2>2. \A k \in 0..upper : k = 0 \/ (k \in 1..upper /\ k - 1 \in 0..upper)
    BY <1>1
  <2> QED BY <1>2, <2>1, <2>2
<1>4. isLoop(u)
  <2> HIDE DEF isLoop
  <2> QED BY <1>3
<1>5. u[0] = base /\ \A k \in 1..upper : u[k] = SeekRound(p, u[k - 1])
  <2> HIDE DEF u, base
  <2> DEFINE v == [k \in 0..upper |-> IF k = 0 THEN base ELSE SeekRound(p, u[k - 1])]
  <2>1. v[0] = base /\ \A k \in 1..upper : v[k] = SeekRound(p, u[k - 1])
    BY <1>1
  <2>2. u = v
    BY <1>4
  <2> HIDE DEF v
  <2> QED BY <2>1, <2>2
<1>6. \A k \in 0..upper : u[k] \in S
  <2>1. u[0] \in S
    BY <1>5
  <2> HIDE DEF u, upper, base
  <2>2. \A k \in 0..(upper - 1) : k + 1 \in 1..upper /\ (k + 1) - 1 = k
    BY <1>1
  <2>3. \A k \in 0..(upper - 1) : u[k] \in S => u[k + 1] \in S
    BY <1>5, <2>2
  <2> QED BY <1>1, <2>1, <2>3, LoopStays
<1>7. last \in 0..upper /\ (Sought(u[last]) \/ last = upper)
  <2> HIDE DEF u, upper
  <2>1. \E k \in 0..upper : Sought(u[k]) \/ k = upper
    BY <1>1
  <2> QED BY <2>1, Zenon
<1>8. Seek(p, e, i) = Answer(u[last])
  BY DEF Seek, LastSought
<1>9. base.left = upper
  OBVIOUS
<1> HIDE DEF u, last, upper, base
<1>10. \A k \in 0..upper : Sought(u[k]) \/ u[k].left = upper - k
  <2> DEFINE K == {k \in 0..upper : Sought(u[k]) \/ u[k].left = upper - k}
  <2>1. 0 \in K
    BY <1>1, <1>5, <1>9
  <2>2. ASSUME NEW k \in 0..(upper - 1), k \in K PROVE k + 1 \in K
    <3>1. k + 1 \in 1..upper /\ (k + 1) - 1 = k /\ k + 1 \in 0..upper
      BY <1>1
    <3>2. u[k + 1] = SeekRound(p, u[k])
      BY <1>5, <3>1
    <3>3. CASE Sought(u[k])
      BY <3>1, <3>2, <3>3 DEF SeekRound, SeekTakes
    <3>4. CASE ~Sought(u[k])
      <4>1. u[k].left = upper - k
        BY <2>2, <3>4
      <4>2. u[k + 1].left = u[k].left - 1
        BY <3>2, <3>4 DEF SeekRound, SeekTakes
      <4> QED BY <1>1, <3>1, <4>1, <4>2
    <3> QED BY <3>3, <3>4
  <2>3. 0..upper \subseteq K
    <3> HIDE DEF K
    <3> QED BY <1>1, <2>1, <2>2, LoopInduction
  <2> QED BY <2>3
<1>11. Sought(u[last])
  BY <1>1, <1>7, <1>10 DEF Sought
<1> QED BY <1>6, <1>7, <1>8, <1>11

\* The same for set_current_cmd().
LEMMA PreloadLoop ==
    ASSUME NEW p, NEW e, NEW i, NEW S,
           [m |-> e, at |-> i, over |-> FALSE] \in S, \A s \in S : PreloadRound(p, s) \in S
    PROVE  \E s \in S : Preload(p, e, i) = s.m
<1> DEFINE upper == PreloadLoops
           base == [m |-> e, at |-> i, over |-> FALSE]
           step == [k \in 1..upper |-> [s \in S |-> PreloadRound(p, s)]]
           isLoop(f) == f = [k \in 0..upper |-> IF k = 0 THEN base ELSE PreloadRound(p, f[k - 1])]
           u == CHOOSE f : isLoop(f)
           last == CHOOSE k \in 0..upper : u[k].over \/ k = upper
<1>1. upper \in Nat
  BY Numbers
<1>2. PICK g \in [0..upper -> S] :
          g[0] = base /\ \A k \in 1..upper : g[k] = step[k][g[k - 1]]
  <2>1. step \in [1..upper -> [S -> S]]
    OBVIOUS
  <2>2. base \in S
    OBVIOUS
  <2> HIDE DEF upper, step, base
  <2>3. \E g : Iterates(g, upper, S, base, step)
    BY <1>1, <2>1, <2>2, IterationExists
  <2> QED BY <2>3 DEF Iterates
<1>3. isLoop(g)
  <2>1. \A k \in 1..upper : \A s \in S : step[k][s] = PreloadRound(p, s)
    OBVIOUS
  <2> HIDE DEF step, upper, base
  <2>2. \A k \in 0..upper : k = 0 \/ (k \in 1..upper /\ k - 1 \in 0..upper)
    BY <1>1
  <2> QED BY <1>2, <2>1, <2>2
<1>4. isLoop(u)
  <2> HIDE DEF isLoop
  <2> QED BY <1>3
<1>5. u[0] = base /\ \A k \in 1..upper : u[k] = PreloadRound(p, u[k - 1])
  <2> HIDE DEF u, base
  <2> DEFINE v == [k \in 0..upper |-> IF k = 0 THEN base ELSE PreloadRound(p, u[k - 1])]
  <2>1. v[0] = base /\ \A k \in 1..upper : v[k] = PreloadRound(p, u[k - 1])
    BY <1>1
  <2>2. u = v
    BY <1>4
  <2> HIDE DEF v
  <2> QED BY <2>1, <2>2
<1>6. \A k \in 0..upper : u[k] \in S
  <2>1. u[0] \in S
    BY <1>5
  <2> HIDE DEF u, upper, base
  <2>2. \A k \in 0..(upper - 1) : k + 1 \in 1..upper /\ (k + 1) - 1 = k
    BY <1>1
  <2>3. \A k \in 0..(upper - 1) : u[k] \in S => u[k + 1] \in S
    BY <1>5, <2>2
  <2> QED BY <1>1, <2>1, <2>3, LoopStays
<1>7. last \in 0..upper
  <2> HIDE DEF u, upper
  <2> QED BY <1>1
<1>8. Preload(p, e, i) = u[last].m
  BY DEF Preload, LastRound
<1> HIDE DEF u, last, upper
<1> QED BY <1>6, <1>7, <1>8

\* The same for get_next_nav_cmd().
LEMMA NavLoop ==
    ASSUME NEW p \in Seq(Commands), NEW e, NEW i, NEW S,
           [m |-> e, at |-> i, cmd |-> NoCmd, over |-> FALSE] \in S,
           \A s \in S : NavRound(p, s) \in S
    PROVE  \E s \in S : NextNav(p, e, i) = s
<1> DEFINE upper == Total(p)
           base == [m |-> e, at |-> i, cmd |-> NoCmd, over |-> FALSE]
           step == [k \in 1..upper |-> [s \in S |-> NavRound(p, s)]]
           isLoop(f) == f = [k \in 0..upper |-> IF k = 0 THEN base ELSE NavRound(p, f[k - 1])]
           u == CHOOSE f : isLoop(f)
           last == CHOOSE k \in 0..upper : u[k].over \/ k = upper
<1>1. upper \in Nat
  BY DEF Total
<1>2. PICK g \in [0..upper -> S] :
          g[0] = base /\ \A k \in 1..upper : g[k] = step[k][g[k - 1]]
  <2>1. step \in [1..upper -> [S -> S]]
    OBVIOUS
  <2>2. base \in S
    OBVIOUS
  <2> HIDE DEF upper, step, base
  <2>3. \E g : Iterates(g, upper, S, base, step)
    BY <1>1, <2>1, <2>2, IterationExists
  <2> QED BY <2>3 DEF Iterates
<1>3. isLoop(g)
  <2>1. \A k \in 1..upper : \A s \in S : step[k][s] = NavRound(p, s)
    OBVIOUS
  <2> HIDE DEF step, upper, base
  <2>2. \A k \in 0..upper : k = 0 \/ (k \in 1..upper /\ k - 1 \in 0..upper)
    BY <1>1
  <2> QED BY <1>2, <2>1, <2>2
<1>4. isLoop(u)
  <2> HIDE DEF isLoop
  <2> QED BY <1>3
<1>5. u[0] = base /\ \A k \in 1..upper : u[k] = NavRound(p, u[k - 1])
  <2> HIDE DEF u, base
  <2> DEFINE v == [k \in 0..upper |-> IF k = 0 THEN base ELSE NavRound(p, u[k - 1])]
  <2>1. v[0] = base /\ \A k \in 1..upper : v[k] = NavRound(p, u[k - 1])
    BY <1>1
  <2>2. u = v
    BY <1>4
  <2> HIDE DEF v
  <2> QED BY <2>1, <2>2
<1>6. \A k \in 0..upper : u[k] \in S
  <2>1. u[0] \in S
    BY <1>5
  <2> HIDE DEF u, upper, base
  <2>2. \A k \in 0..(upper - 1) : k + 1 \in 1..upper /\ (k + 1) - 1 = k
    BY <1>1
  <2>3. \A k \in 0..(upper - 1) : u[k] \in S => u[k + 1] \in S
    BY <1>5, <2>2
  <2> QED BY <1>1, <2>1, <2>3, LoopStays
<1>7. last \in 0..upper
  <2> HIDE DEF u, upper
  <2> QED BY <1>1
<1>8. NextNav(p, e, i) = u[last]
  BY DEF NextNav, LastRound
<1> HIDE DEF u, last, upper
<1> QED BY <1>6, <1>7, <1>8


-----------------------------------------------------------------------------
(* What the search for a command does to an executor.                      *)

IsPlan(p) == p \in Seq(Commands) /\ Len(p) <= MaxPlan
JumpTables == [1..MaxPlan -> {None} \cup (0..Never)]
LapTables == [1..MaxPlan -> 0..(Never + 1)]

\* The laps counted, j, are those taken, k: of jumps of the mission, and no more
\* than it has.
FitTables(p, j, k) ==
    \A i \in 1..MaxPlan :
        /\ k[i] = IF j[i] = None THEN 0 ELSE j[i]
        /\ j[i] # None =>
              /\ i < Total(p) /\ p[i + 1].id = "JUMP"
              /\ j[i] <= p[i + 1].times

\* A vehicle that resumes takes laps it does not count.
LapsFit(p, e) == ~e.resuming /\ FitTables(p, e.jumps, e.taken)

\* A search counts laps and does nothing else.
OnlyLaps(p, e, x) ==
    /\ x \in Executors
    /\ x = [e EXCEPT !.jumps = x.jumps, !.taken = x.taken]
    /\ LapsFit(p, e) => LapsFit(p, x)

\* What it finds is a command of the mission, which is not a jump.
FromPlan(p, c) ==
    /\ c.index \in 0..(Total(p) - 1) /\ c = Read(p, c.index)
    /\ c \in Loaded /\ c.id # "JUMP" /\ c.id # "NONE"

\* What the plan's commands are made of.
LEMMA CommandParts ==
    \A c \in Commands : /\ c.id \in {"WP", "DELAY", "DO", "LAND_START", "JUMP"}
                        /\ c.place \in Places /\ c.target \in Nat /\ c.times \in Times
BY AutoMissionAssumption

\* What is read from storage.
LEMMA ReadType ==
    ASSUME NEW p, IsPlan(p), NEW i, Readable(p, i) \/ i \in 0..(Total(p) - 1)
    PROVE  /\ Read(p, i) \in Loaded /\ Read(p, i).index = i
           /\ i \in 0..MaxPlan
           /\ Read(p, i).id # "NONE"
           /\ i # 0 => /\ Read(p, i).id = p[i + 1].id /\ Read(p, i).times = p[i + 1].times
                       /\ i \in 1..(Total(p) - 1)
           /\ i = 0 => Read(p, i).id = "WP"
<1> DEFINE c == IF i = 0 THEN Home ELSE p[i + 1]
<1>1. Home \in Commands /\ Home.id = "WP"
  BY DEF Commands, Home
<1>2. i \in 0..MaxPlan /\ (i # 0 => i \in 1..(Total(p) - 1) /\ i + 1 \in 1..Len(p))
  BY Numbers DEF IsPlan, Readable, Total
<1>3. c \in Commands
  BY <1>1, <1>2 DEF IsPlan
<1>4. /\ c.id \in {"WP", "DELAY", "DO", "LAND_START", "JUMP"}
      /\ c.place \in Places /\ c.target \in Nat /\ c.times \in Times
  <2> HIDE DEF c
  <2> QED BY <1>3, CommandParts
<1>5. Read(p, i) = [index |-> i, id |-> c.id, place |-> c.place, target |-> c.target,
                    times |-> c.times]
  BY DEF Read
<1>6. c = IF i = 0 THEN Home ELSE p[i + 1]
  OBVIOUS
<1> HIDE DEF c
<1>7. Read(p, i) \in Loaded
  BY <1>2, <1>4, <1>5 DEF Loaded
<1>8. Read(p, i).id = c.id /\ Read(p, i).times = c.times /\ Read(p, i).index = i
  BY <1>5
<1> QED BY <1>1, <1>2, <1>4, <1>6, <1>7, <1>8

\* No command at all is one that may be loaded.
LEMMA NoCmdType == NoCmd \in Loaded /\ NoCmd.index = None /\ NoCmd.id = "NONE"
<1>1. "" \in Places
  BY DEF Places
<1>2. 0 \in Times
  BY DEF Times, Never
<1>3. -1 \in -1..MaxPlan
  BY Numbers
<1> QED BY <1>1, <1>2, <1>3 DEF NoCmd, Loaded, None


\* An executor with other tables of laps.
LEMMA OtherLaps ==
    ASSUME NEW p, NEW e \in Executors, NEW j \in JumpTables, NEW k \in LapTables,
           LapsFit(p, e) => FitTables(p, j, k)
    PROVE  OnlyLaps(p, e, [e EXCEPT !.jumps = j, !.taken = k])
<1> DEFINE x == [e EXCEPT !.jumps = j, !.taken = k]
<1>1. x.jumps = j /\ x.taken = k /\ x.resuming = e.resuming
  BY DEF Executors
<1>2. x = [e EXCEPT !.jumps = x.jumps, !.taken = x.taken]
  BY <1>1
<1>3. x \in Executors
  BY DEF Executors, JumpTables, LapTables
<1> HIDE DEF x
<1>4. LapsFit(p, e) => LapsFit(p, x)
  BY <1>1 DEF LapsFit
<1>5. OnlyLaps(p, e, x)
  BY <1>2, <1>3, <1>4 DEF OnlyLaps
<1> QED BY <1>5 DEF x

\* Nothing done is one of the things a search does, and so are two of them.
LEMMA OnlyLapsTwice ==
    ASSUME NEW p, NEW e \in Executors, NEW x, NEW y, OnlyLaps(p, e, x), OnlyLaps(p, x, y)
    PROVE  OnlyLaps(p, e, y)
<1>1. y = [[e EXCEPT !.jumps = x.jumps, !.taken = x.taken] EXCEPT
               !.jumps = y.jumps, !.taken = y.taken]
  BY DEF OnlyLaps
<1>2. y = [e EXCEPT !.jumps = y.jumps, !.taken = y.taken]
  BY <1>1 DEF Executors
<1> QED BY <1>2 DEF OnlyLaps

\* Nothing done changes no laps.
LEMMA OnlyLapsNone ==
    ASSUME NEW p, NEW e \in Executors
    PROVE  OnlyLaps(p, e, e)
BY DEF OnlyLaps, Executors

\* A limited jump that is looked up, get_jump_times_run().
LEMMA TrackedEffect ==
    ASSUME NEW p, IsPlan(p), NEW e \in Executors, NEW i \in 1..(Total(p) - 1),
           p[i + 1].id = "JUMP", p[i + 1].times \in 0..Never
    PROVE  OnlyLaps(p, e, Tracked(e, i))
<1>1. i \in 1..MaxPlan /\ i < Total(p)
  BY Numbers DEF IsPlan, Total
<1> DEFINE j == [e.jumps EXCEPT ![i] = 0]
           k == e.taken
<1>2. e.jumps \in JumpTables /\ k \in LapTables
  BY DEF Executors, JumpTables, LapTables
<1>3. j \in JumpTables /\ \A a \in 1..MaxPlan : j[a] = IF a = i THEN 0 ELSE e.jumps[a]
  <2>1. 0 \in {None} \cup (0..Never)
    BY DEF Never
  <2> QED BY <1>1, <1>2, <2>1 DEF JumpTables
<1>4. e.jumps[i] = None /\ LapsFit(p, e) => FitTables(p, j, k)
  <2> HIDE DEF j
  <2>1. 0 # None
    BY DEF None
  <2> QED BY <1>1, <1>3, <2>1 DEF LapsFit, FitTables
<1>5. \/ Tracked(e, i) = e
      \/ e.jumps[i] = None /\ Tracked(e, i) = [e EXCEPT !.jumps = j]
  BY DEF Tracked
<1>6. [e EXCEPT !.jumps = j] = [e EXCEPT !.jumps = j, !.taken = k]
  <2> HIDE DEF j
  <2> QED BY DEF Executors
<1> HIDE DEF j, k
<1>7. e.jumps[i] = None => OnlyLaps(p, e, [e EXCEPT !.jumps = j, !.taken = k])
  BY <1>2, <1>3, <1>4, OtherLaps
<1> QED BY <1>5, <1>6, <1>7, OnlyLapsNone

\* A lap that is taken, and counted by increment_jump_times_run() unless the
\* vehicle resumes.
LEMMA LapEffect ==
    ASSUME NEW p, IsPlan(p), NEW e \in Executors, NEW i \in 1..(Total(p) - 1),
           p[i + 1].id = "JUMP", p[i + 1].times \in 0..Never, TimesRun(e, i) < p[i + 1].times,
           NEW c, c.index = i, c.times = p[i + 1].times, NEW inc \in BOOLEAN
    PROVE  OnlyLaps(p, e, Taken(IF Counts(e, inc) THEN IncrementJump(e, i) ELSE e, c, inc))
<1>1. i \in 1..MaxPlan /\ i < Total(p)
  BY Numbers DEF IsPlan, Total
<1>2. e.jumps \in JumpTables /\ e.taken \in LapTables /\ e.resuming \in BOOLEAN
  BY DEF Executors, JumpTables, LapTables
<1>3. SUFFICES ASSUME inc
               PROVE  OnlyLaps(p, e, Taken(IF Counts(e, inc) THEN IncrementJump(e, i) ELSE e,
                                           c, inc))
  BY OnlyLapsNone DEF Taken, Counts
<1> DEFINE t == p[i + 1].times
           a == e.jumps[i]
           b == e.taken[i]
           j == IF e.resuming THEN e.jumps ELSE [e.jumps EXCEPT ![i] = a + 1]
           k == IF b <= t THEN [e.taken EXCEPT ![i] = b + 1] ELSE e.taken
<1>4. t \in 0..Never /\ Never \in Nat /\ b \in 0..(Never + 1)
  BY <1>1, <1>2 DEF Never, LapTables
<1>5. a # None /\ a \in 0..Never /\ a < t
  <2>1. a \in {None} \cup (0..Never)
    BY <1>1, <1>2 DEF JumpTables
  <2>2. (IF a # None THEN a ELSE Never) < t
    BY DEF TimesRun
  <2> HIDE DEF a, t
  <2> QED BY <1>4, <2>1, <2>2
<1>6. a + 1 \in 0..Never /\ a + 1 <= t /\ (b <= t => b + 1 \in 0..(Never + 1))
  <2> HIDE DEF a, b, t
  <2> QED BY <1>4, <1>5
<1>7. j \in JumpTables /\ k \in LapTables
  <2> HIDE DEF a, b, t
  <2> QED BY <1>1, <1>2, <1>6 DEF JumpTables, LapTables
<1>8. LapsFit(p, e) => FitTables(p, j, k)
  <2> SUFFICES ASSUME LapsFit(p, e) PROVE FitTables(p, j, k)
    OBVIOUS
  <2>1. ~e.resuming /\ FitTables(p, e.jumps, e.taken)
    BY DEF LapsFit
  <2>2. b = a
    BY <1>1, <1>5, <2>1 DEF FitTables
  <2>3. j = [e.jumps EXCEPT ![i] = a + 1] /\ k = [e.taken EXCEPT ![i] = a + 1]
    <3> HIDE DEF a, b, t
    <3> QED BY <1>4, <1>5, <2>1, <2>2
  <2>4. /\ \A n \in 1..MaxPlan : j[n] = IF n = i THEN a + 1 ELSE e.jumps[n]
        /\ \A n \in 1..MaxPlan : k[n] = IF n = i THEN a + 1 ELSE e.taken[n]
    <3> HIDE DEF a, j, k
    <3> QED BY <1>1, <1>2, <2>3 DEF JumpTables, LapTables
  <2>5. a + 1 # None
    <3> HIDE DEF a
    <3> QED BY <1>5 DEF None
  <2>6. ASSUME NEW n \in 1..MaxPlan
        PROVE  /\ k[n] = IF j[n] = None THEN 0 ELSE j[n]
               /\ j[n] # None => n < Total(p) /\ p[n + 1].id = "JUMP" /\ j[n] <= p[n + 1].times
    <3>1. CASE n = i
      <4>1. j[n] = a + 1 /\ k[n] = a + 1
        BY <2>4, <3>1
      <4>2. n < Total(p) /\ p[n + 1].id = "JUMP" /\ p[n + 1].times = t
        BY <1>1, <3>1
      <4> HIDE DEF a, j, k, t
      <4> QED BY <1>6, <2>5, <4>1, <4>2
    <3>2. CASE n # i
      <4>1. j[n] = e.jumps[n] /\ k[n] = e.taken[n]
        BY <2>4, <3>2
      <4> HIDE DEF j, k
      <4> QED BY <2>1, <4>1 DEF FitTables
    <3> QED BY <3>1, <3>2
  <2> HIDE DEF j, k
  <2> QED BY <2>6 DEF FitTables
<1> DEFINE x == Taken(IF Counts(e, inc) THEN IncrementJump(e, i) ELSE e, c, inc)
<1>9. x = [e EXCEPT !.jumps = j, !.taken = k]
  <2> DEFINE u == IF Counts(e, inc) THEN IncrementJump(e, i) ELSE e
  <2>1. u = [e EXCEPT !.jumps = j]
    BY <1>2, <1>3, <1>5 DEF Counts, IncrementJump, Executors
  <2>2. u.taken = e.taken
    <3> HIDE DEF u, j
    <3> QED BY <2>1 DEF Executors
  <2>3. Taken(u, c, inc) = IF b <= t THEN [u EXCEPT !.taken = [e.taken EXCEPT ![i] = b + 1]] ELSE u
    <3> HIDE DEF u
    <3> QED BY <1>3, <2>2 DEF Taken
  <2>4. Taken(u, c, inc) = [u EXCEPT !.taken = k]
    <3>1. u = [u EXCEPT !.taken = e.taken]
      <4> HIDE DEF j, u
      <4> QED BY <2>1 DEF Executors
    <3> HIDE DEF u, b, t
    <3> QED BY <2>3, <3>1
  <2> HIDE DEF u, j, k
  <2>5. [u EXCEPT !.taken = k] = [e EXCEPT !.jumps = j, !.taken = k]
    BY <2>1 DEF Executors
  <2> QED BY <2>4, <2>5 DEF u
<1> HIDE DEF j, k, x
<1>10. OnlyLaps(p, e, [e EXCEPT !.jumps = j, !.taken = k])
  BY <1>7, <1>8, OtherLaps
<1>11. OnlyLaps(p, e, x)
  BY <1>9, <1>10
<1> QED BY <1>11 DEF x


\* The searches of get_next_cmd() in mission p that started from e at command i.
Searches(p, e, i) ==
    {s \in [m : Executors, at : Nat, first : Int, left : Int, cmd : Loaded, over : BOOLEAN] :
        /\ OnlyLaps(p, e, s.m)
        /\ s.cmd = NoCmd \/ (FromPlan(p, s.cmd) /\ (i > 0 => s.cmd.index > 0))
        /\ i > 0 => s.at > 0}

\* A search starts.
LEMMA SearchStarts ==
    ASSUME NEW p, NEW e \in Executors, NEW i \in Nat
    PROVE  Search(e, i) \in Searches(p, e, i)
BY Numbers, NoCmdType, OnlyLapsNone DEF Search, Searches, None

\* It goes on past a jump.
LEMMA GoesOnKeeps ==
    ASSUME NEW p, NEW e \in Executors, NEW i \in Nat, NEW s \in Searches(p, e, i),
           NEW x, OnlyLaps(p, s.m, x), NEW to \in Nat \ {0}
    PROVE  GoesOn(s, x, to) \in Searches(p, e, i)
<1> DEFINE f == IF s.first = None THEN s.at ELSE s.first
<1>1. /\ s.m \in Executors /\ s.at \in Nat /\ s.first \in Int /\ s.left \in Int
      /\ s.cmd \in Loaded /\ s.over \in BOOLEAN /\ OnlyLaps(p, e, s.m)
      /\ s.cmd = NoCmd \/ (FromPlan(p, s.cmd) /\ (i > 0 => s.cmd.index > 0))
  BY DEF Searches
<1>2. OnlyLaps(p, e, x) /\ x \in Executors
  <2>1. OnlyLaps(p, e, s.m) /\ OnlyLaps(p, s.m, x)
    BY <1>1
  <2> DEFINE y == s.m
  <2> HIDE DEF y
  <2>2. OnlyLaps(p, e, y) /\ OnlyLaps(p, y, x)
    BY <2>1 DEF y
  <2>3. OnlyLaps(p, e, x)
    BY <2>2, OnlyLapsTwice
  <2> QED BY <2>3 DEF OnlyLaps
<1>3. GoesOn(s, x, to) = [m |-> x, at |-> to, first |-> f, left |-> s.left - 1,
                          cmd |-> NoCmd, over |-> FALSE]
  BY DEF GoesOn
<1>4. f \in Int /\ s.left - 1 \in Int
  BY <1>1
<1> HIDE DEF f
<1> QED BY <1>1, <1>2, <1>3, <1>4, NoCmdType DEF Searches

\* Or ends.
LEMMA EndedKeeps ==
    ASSUME NEW p, NEW e \in Executors, NEW i \in Nat, NEW s \in Searches(p, e, i), NEW c,
           c = NoCmd \/ (FromPlan(p, c) /\ (i > 0 => c.index > 0))
    PROVE  Ended(s, c) \in Searches(p, e, i)
<1>1. c \in Loaded
  BY NoCmdType DEF FromPlan
<1> QED BY <1>1 DEF Searches, Ended

\* A jump that is not barred is taken or passed.
LEMMA MeetJumpKeeps ==
    ASSUME NEW p, IsPlan(p), NEW e \in Executors, NEW i \in Nat, NEW s \in Searches(p, e, i),
           NEW inc \in BOOLEAN, s.at \in 1..(Total(p) - 1), NEW c, c = Read(p, s.at),
           c.id = "JUMP", c.target # 0
    PROVE  MeetJump(s, c, inc) \in Searches(p, e, i)
<1> DEFINE a == s.at
           x == s.m
           t == Tracked(x, a)
           u == Taken(IF Counts(t, inc) THEN IncrementJump(t, a) ELSE t, c, inc)
<1>1. x \in Executors /\ a \in Nat
  BY DEF Searches
<1>2. c \in Loaded /\ c.index = a /\ p[a + 1].id = "JUMP" /\ c.times = p[a + 1].times
      /\ a \in 1..(Total(p) - 1)
  BY ReadType
<1>3. c.target \in Nat \ {0} /\ c.times \in Times
  BY <1>2 DEF Loaded
<1>4. CASE Unlimited(c)
  <2>1. MeetJump(s, c, inc) = GoesOn(s, s.m, c.target)
    BY <1>4 DEF MeetJump
  <2> QED BY <1>1, <1>3, <2>1, OnlyLapsNone, GoesOnKeeps
<1>5. CASE ~Unlimited(c)
  <2>1. p[a + 1].times \in 0..Never
    BY <1>2, <1>3, <1>5 DEF Unlimited, Times
  <2> HIDE DEF a, x
  <2>2. OnlyLaps(p, x, t)
    BY <1>1, <1>2, <2>1, TrackedEffect
  <2>3. t \in Executors
    BY <2>2 DEF OnlyLaps
  <2> HIDE DEF t
  <2>4. MoreLaps(t, c) => OnlyLaps(p, x, u)
    <3>1. SUFFICES ASSUME MoreLaps(t, c) PROVE OnlyLaps(p, x, u)
      OBVIOUS
    <3>2. TimesRun(t, a) < p[a + 1].times
      BY <1>2, <3>1 DEF MoreLaps
    <3>3. OnlyLaps(p, t, u)
      BY <1>2, <2>1, <2>3, <3>2, LapEffect
    <3> QED BY <1>1, <2>2, <3>3, OnlyLapsTwice
  <2>5. MeetJump(s, c, inc) = IF ~MoreLaps(t, c) THEN GoesOn(s, t, a + 1)
                              ELSE GoesOn(s, u, c.target)
    BY <1>5 DEF MeetJump, t, x, a
  <2>6. a + 1 \in Nat \ {0}
    BY <1>1
  <2> HIDE DEF u
  <2>7. OnlyLaps(p, s.m, t) /\ (MoreLaps(t, c) => OnlyLaps(p, s.m, u))
    BY <2>2, <2>4 DEF x
  <2> QED BY <1>3, <2>5, <2>6, <2>7, GoesOnKeeps
<1> QED BY <1>4, <1>5

\* A round is one of these.
LEMMA SearchRoundKeeps ==
    ASSUME NEW p, IsPlan(p), NEW e \in Executors, NEW i \in Nat, NEW s \in Searches(p, e, i),
           NEW inc \in BOOLEAN
    PROVE  SearchRound(p, s, inc) \in Searches(p, e, i)
<1> DEFINE a == s.at
           c == Read(p, a)
<1>1. a \in Nat /\ (i > 0 => a > 0) /\ Total(p) \in Nat
  BY DEF Searches, IsPlan, Total
<1>2. SUFFICES ASSUME a < Total(p), SearchRound(p, s, inc) # s,
                      SearchRound(p, s, inc) # Ended(s, NoCmd)
               PROVE  SearchRound(p, s, inc) \in Searches(p, e, i)
  BY <1>1, EndedKeeps DEF SearchRound
<1>3. a \in 0..(Total(p) - 1)
  BY <1>1, <1>2
<1>4. /\ c \in Loaded /\ c.index = a /\ c.id # "NONE"
      /\ a = 0 => c.id = "WP"
      /\ a # 0 => a \in 1..(Total(p) - 1)
  <2> HIDE DEF a
  <2> QED BY <1>3, ReadType
<1>5. CASE c.id # "JUMP"
  <2>1. SearchRound(p, s, inc) = Ended(s, c)
    BY <1>2, <1>5 DEF SearchRound
  <2>2. FromPlan(p, c) /\ (i > 0 => c.index > 0)
    <3> HIDE DEF a
    <3>1. c = Read(p, c.index) /\ c.index \in 0..(Total(p) - 1)
      BY <1>3, <1>4
    <3> HIDE DEF c
    <3> QED BY <1>1, <1>4, <1>5, <3>1 DEF FromPlan
  <2> HIDE DEF c
  <2> QED BY <2>1, <2>2, EndedKeeps
<1>6. CASE c.id = "JUMP"
  <2>1. SearchRound(p, s, inc) = MeetJump(s, c, inc) /\ ~Barred(p, s, c, inc)
    BY <1>2, <1>6 DEF SearchRound
  <2>2. c.target # 0
    BY <2>1 DEF Barred
  <2>3. s.at \in 1..(Total(p) - 1)
    BY <1>4, <1>6
  <2> QED BY <1>6, <2>1, <2>2, <2>3, MeetJumpKeeps
<1> QED BY <1>5, <1>6

\* get_next_cmd() counts laps and finds a command of the mission or none; one
\* behind home if it looks there.
LEMMA NextCmdEffect ==
    ASSUME NEW p, IsPlan(p), NEW e \in Executors, NEW i \in Nat, NEW inc \in BOOLEAN
    PROVE  LET f == NextCmd(p, e, i, inc)
           IN  /\ OnlyLaps(p, e, f.m)
               /\ f.cmd = NoCmd \/ (FromPlan(p, f.cmd) /\ (i > 0 => f.cmd.index > 0))
<1>1. Search(e, i) \in Searches(p, e, i)
  BY SearchStarts
<1>2. \A s \in Searches(p, e, i) : SearchRound(p, s, inc) \in Searches(p, e, i)
  BY SearchRoundKeeps
<1>3. PICK s \in Searches(p, e, i) : NextCmd(p, e, i, inc) = [m |-> s.m, cmd |-> s.cmd]
  BY <1>1, <1>2, SearchLoop
<1> QED BY <1>3 DEF Searches


-----------------------------------------------------------------------------
(* What the operations of AP_Mission do to an executor.                    *)

\* The command that is flown is one of the mission.
Aimed(e) == e.navLoaded => e.nav.index # None

\* The same laps, and no new rewind.
KeepsLaps(e, x) == x.jumps = e.jumps /\ x.taken = e.taken /\ (x.resuming => e.resuming)

\* An executor the same laps of which count, in the same state.
SameLaps(e, x) ==
    x \in Executors /\ KeepsLaps(e, x) /\ x.state = e.state /\ (Aimed(e) => Aimed(x))

\* What keeps the laps keeps them fit, and none at all fit.
LEMMA LapsFacts ==
    ASSUME NEW p
    PROVE  /\ \A e, x : KeepsLaps(e, x) /\ LapsFit(p, e) => LapsFit(p, x)
           /\ \A x : x.jumps = NoJumps /\ x.taken = NoLaps /\ ~x.resuming => LapsFit(p, x)
<1>1. \A i \in 1..MaxPlan : NoJumps[i] = None /\ NoLaps[i] = 0
  BY DEF NoJumps, NoLaps
<1>2. FitTables(p, NoJumps, NoLaps)
  BY <1>1 DEF FitTables
<1> QED BY <1>2 DEF KeepsLaps, LapsFit

\* The small constants.
LEMMA Smallest ==
    /\ None \in -1..MaxPlan /\ NoHist \in History /\ NoCmd \in Loaded
    /\ NoJumps \in [1..MaxPlan -> {None} \cup (0..Never)]
    /\ NoLaps \in [1..MaxPlan -> 0..(Never + 1)]
    /\ \A c \in Loaded : [c EXCEPT !.index = None] \in Loaded
<1>1. None \in -1..MaxPlan
  BY Numbers DEF None
<1>2. NoLaps \in [1..MaxPlan -> 0..(Never + 1)]
  BY DEF NoLaps, Never
<1> QED BY <1>1, <1>2, NoCmdType DEF NoHist, History, NoJumps, Loaded

\* reset_wp_history() forgets the waypoints passed and touches no lap.
LEMMA ResetHistorySame ==
    ASSUME NEW e \in Executors
    PROVE  SameLaps(e, ResetHistory(e))
BY Smallest DEF SameLaps, KeepsLaps, Aimed, ResetHistory, Executors

\* Neither does start_command().
LEMMA StartedSame ==
    ASSUME NEW e \in Executors, NEW c
    PROVE  SameLaps(e, Started(e, c))
BY DEF SameLaps, KeepsLaps, Aimed, Started, Executors

\* Nor does dropping the DO command.
LEMMA StoppedSame ==
    ASSUME NEW e \in Executors
    PROVE  SameLaps(e, Stopped(e))
BY Smallest DEF SameLaps, KeepsLaps, Aimed, Stopped, Executors

\* Nor does a DO command that is loaded,
LEMMA LoadDoSame ==
    ASSUME NEW e \in Executors, NEW c \in Loaded
    PROVE  SameLaps(e, LoadDo(e, c))
BY DEF SameLaps, KeepsLaps, Aimed, LoadDo, Executors

\* a waypoint that is noted in the history,
LEMMA RecordLoadedSame ==
    ASSUME NEW e \in Executors
    PROVE  SameLaps(e, RecordLoaded(e))
<1>1. e.hist \in History /\ e.nav.index \in -1..MaxPlan
  BY DEF Executors, Loaded
<1>2. [passed |-> e.hist.last, last |-> e.nav.index] \in History
  BY <1>1 DEF History
<1> QED BY <1>2 DEF SameLaps, KeepsLaps, Aimed, RecordLoaded, Executors

\* or a waypoint that is loaded: it is a command of the plan, so the vehicle stays aimed.
LEMMA LoadNavSame ==
    ASSUME NEW e \in Executors, NEW c \in Loaded, c.index # None
    PROVE  SameLaps(e, LoadNav(e, c))
<1> DEFINE s == Started(e, c)
           t == [s EXCEPT !.nav = c, !.navLoaded = TRUE]
           r == RecordLoaded(t)
<1>1. SameLaps(e, s)
  BY StartedSame
<1>2. LoadNav(e, c) = [r EXCEPT !.resuming = @ /\ c.index # r.hist.last]
  BY DEF LoadNav
<1> HIDE DEF s
<1>3. t \in Executors /\ KeepsLaps(e, t) /\ t.state = e.state /\ Aimed(t)
  BY <1>1 DEF SameLaps, KeepsLaps, Aimed, Executors
<1> HIDE DEF t
<1>4. r \in Executors /\ KeepsLaps(e, r) /\ r.state = e.state /\ Aimed(r)
  BY <1>3, RecordLoadedSame DEF SameLaps, KeepsLaps
<1> HIDE DEF r
<1>5. (r.resuming /\ c.index # r.hist.last) \in BOOLEAN
  OBVIOUS
<1> DEFINE b == r.resuming /\ c.index # r.hist.last
<1>6. LoadNav(e, c) = [r EXCEPT !.resuming = b] /\ b \in BOOLEAN /\ (b => r.resuming)
  BY <1>2, <1>5
<1> HIDE DEF b
<1> QED BY <1>4, <1>6 DEF SameLaps, KeepsLaps, Aimed, Executors


\* An operation that keeps the laps fit and the state as it was,
Alike(p, e, x) ==
    /\ x \in Executors /\ x.state = e.state
    /\ LapsFit(p, e) => LapsFit(p, x)
    /\ Aimed(e) => Aimed(x)
\* and one that does not make the mission run.
Quiet(p, e, x) ==
    /\ x \in Executors
    /\ x.state = "RUNNING" => e.state = "RUNNING"
    /\ LapsFit(p, e) => LapsFit(p, x)
    /\ Aimed(e) => Aimed(x)

\* The three relations between executors, from the narrowest to the widest, compose.
LEMMA AlikeFacts ==
    ASSUME NEW p, NEW e \in Executors
    PROVE  /\ Alike(p, e, e)
           /\ \A x : SameLaps(e, x) => Alike(p, e, x)
           /\ \A x : OnlyLaps(p, e, x) => Alike(p, e, x)
           /\ \A x, y : Alike(p, e, x) /\ Alike(p, x, y) => Alike(p, e, y)
           /\ \A x : Alike(p, e, x) => Quiet(p, e, x)
           /\ \A x, y : Quiet(p, e, x) /\ Quiet(p, x, y) => Quiet(p, e, y)
<1>1. \A x : KeepsLaps(e, x) /\ LapsFit(p, e) => LapsFit(p, x)
  BY LapsFacts
<1>2. ASSUME NEW x, OnlyLaps(p, e, x) PROVE Alike(p, e, x)
  <2>1. x = [e EXCEPT !.jumps = x.jumps, !.taken = x.taken] /\ x \in Executors /\ (LapsFit(p, e) => LapsFit(p, x))
    BY <1>2 DEF OnlyLaps
  <2>2. x.state = e.state /\ (Aimed(e) => Aimed(x))
    BY <2>1 DEF Executors, Aimed
  <2> QED BY <2>1, <2>2 DEF Alike
<1> QED BY <1>1, <1>2 DEF Alike, Quiet, SameLaps

\* Every round of advance_current_nav_cmd()'s loop leaves the state alone.
LEMMA SeekRoundKeeps ==
    ASSUME NEW p, IsPlan(p), NEW e \in Executors,
           NEW s \in [m : Executors, at : Nat, left : Int, ok : BOOLEAN], Alike(p, e, s.m)
    PROVE  LET r == SeekRound(p, s)
           IN  r \in [m : Executors, at : Nat, left : Int, ok : BOOLEAN] /\ Alike(p, e, r.m)
<1> DEFINE f == NextCmd(p, s.m, s.at, TRUE)
           x == IF IsNav(f.cmd) THEN LoadNav(f.m, f.cmd) ELSE LoadDo(f.m, f.cmd)
<1>1. s.m \in Executors /\ s.at \in Nat /\ s.left - 1 \in Int
  OBVIOUS
<1>2. /\ f.m \in Executors /\ Alike(p, s.m, f.m)
      /\ f.cmd = NoCmd \/ (f.cmd \in Loaded /\ f.cmd.index \in Nat)
  <2>1. OnlyLaps(p, s.m, f.m) /\ (f.cmd = NoCmd \/ FromPlan(p, f.cmd))
    BY <1>1, NextCmdEffect
  <2> HIDE DEF f
  <2>2. Alike(p, s.m, f.m)
    BY <1>1, <2>1, AlikeFacts
  <2> QED BY <2>1, <2>2 DEF OnlyLaps, FromPlan
<1>3. Alike(p, e, f.m)
  <2> HIDE DEF f
  <2> QED BY <1>2, AlikeFacts
<1>4. f.cmd # NoCmd => Alike(p, e, x)
  <2> HIDE DEF f
  <2>1. f.cmd # NoCmd => SameLaps(f.m, x)
    BY <1>2, LoadNavSame, LoadDoSame DEF None
  <2>2. f.cmd # NoCmd => Alike(p, f.m, x)
    BY <1>2, <2>1, AlikeFacts
  <2> QED BY <1>3, <2>2, AlikeFacts
<1>5. \/ SeekRound(p, s) = s
      \/ SeekRound(p, s) = [m |-> f.m, at |-> s.at, left |-> s.left - 1, ok |-> FALSE]
      \/ /\ f.cmd # NoCmd
         /\ SeekRound(p, s) = [m |-> x, at |-> f.cmd.index + 1, left |-> s.left - 1, ok |-> TRUE]
  BY DEF SeekRound, SeekTakes
<1> HIDE DEF f, x
<1>6. f.cmd # NoCmd => f.cmd.index + 1 \in Nat
  BY <1>2
<1>7. f.m \in Executors /\ (f.cmd # NoCmd => x \in Executors)
  BY <1>3, <1>4 DEF Alike
<1> DEFINE r == SeekRound(p, s)
<1>8. r \in [m : Executors, at : Nat, left : Int, ok : BOOLEAN]
  <2>1. [m |-> f.m, at |-> s.at, left |-> s.left - 1, ok |-> FALSE]
            \in [m : Executors, at : Nat, left : Int, ok : BOOLEAN]
    BY <1>1, <1>7
  <2>2. f.cmd # NoCmd =>
            [m |-> x, at |-> f.cmd.index + 1, left |-> s.left - 1, ok |-> TRUE]
                \in [m : Executors, at : Nat, left : Int, ok : BOOLEAN]
    BY <1>1, <1>6, <1>7
  <2> QED BY <1>5, <2>1, <2>2
<1>9. r.m = s.m \/ r.m = f.m \/ (f.cmd # NoCmd /\ r.m = x)
  BY <1>5
<1>10. Alike(p, e, r.m)
  <2> HIDE DEF r
  <2> QED BY <1>3, <1>4, <1>9
<1> QED BY <1>8, <1>10

\* advance_current_nav_cmd()'s search for the next waypoint keeps the vehicle aimed and
\* the laps within the plan.
LEMMA SeekEffect ==
    ASSUME NEW p, IsPlan(p), NEW e \in Executors, NEW i \in Nat
    PROVE  LET r == Seek(p, e, i) IN r.ok \in BOOLEAN /\ Alike(p, e, r.m)
<1> DEFINE All == [m : Executors, at : Nat, left : Int, ok : BOOLEAN]
           S == {s \in All : Alike(p, e, s.m)}
<1>1. [m |-> e, at |-> i, left |-> SeekLoops, ok |-> TRUE] \in S
  BY Numbers, AlikeFacts
<1>2. \A s \in S : SeekRound(p, s) \in S
  BY SeekRoundKeeps
<1>3. PICK s \in S : Seek(p, e, i) = Answer(s)
  <2> HIDE DEF S
  <2> QED BY <1>1, <1>2, SeekLoop
<1>4. s.m \in Executors /\ Alike(p, e, s.m)
  OBVIOUS
<1> DEFINE x == s.m
           y == [x EXCEPT !.doDone = ~x.doLoaded]
<1>5. SameLaps(x, y)
  <2>1. x \in Executors
    BY <1>4
  <2> HIDE DEF x
  <2>2. x.doLoaded \in BOOLEAN
    BY <2>1 DEF Executors
  <2>3. (~x.doLoaded) \in BOOLEAN
    BY <2>2
  <2> QED BY <2>1, <2>3 DEF SameLaps, KeepsLaps, Aimed, Executors
<1>6. Alike(p, e, y)
  <2>1. x \in Executors /\ Alike(p, e, x)
    BY <1>4
  <2> HIDE DEF x, y
  <2> QED BY <1>5, <2>1, AlikeFacts
<1>7. Answer(s) = [m |-> x, ok |-> FALSE] \/ Answer(s) = [m |-> y, ok |-> TRUE]
  BY DEF Answer
<1> DEFINE r == Seek(p, e, i)
<1>8. (r.ok = FALSE /\ r.m = x) \/ (r.ok = TRUE /\ r.m = y)
  BY <1>3, <1>7
<1>9. Alike(p, e, x)
  BY <1>4
<1> HIDE DEF x, y, r
<1>10. r.ok \in BOOLEAN /\ Alike(p, e, r.m)
  BY <1>6, <1>8, <1>9
<1> QED BY <1>10 DEF r

\* advance_current_nav_cmd() does not start or end the mission.
LEMMA AdvanceNavEffect ==
    ASSUME NEW p, IsPlan(p), NEW e \in Executors, NEW start \in Nat
    PROVE  LET r == AdvanceNav(p, e, start) IN r.ok \in BOOLEAN /\ Alike(p, e, r.m)
<1>1. SearchFrom(e, start) \in Nat
  <2>1. e.nav.index \in -1..MaxPlan
    BY DEF Executors, Loaded
  <2> QED BY <2>1, Numbers DEF SearchFrom, None
<1>2. Stopped(e) \in Executors /\ Alike(p, e, Stopped(e))
  BY StoppedSame, AlikeFacts DEF SameLaps, KeepsLaps
<1> DEFINE r == Seek(p, Stopped(e), SearchFrom(e, start))
<1>3. r.ok \in BOOLEAN /\ Alike(p, Stopped(e), r.m)
  BY <1>1, <1>2, SeekEffect
<1>4. \/ AdvanceNav(p, e, start) = [m |-> e, ok |-> FALSE]
      \/ AdvanceNav(p, e, start) = r
  BY DEF AdvanceNav
<1> HIDE DEF r
<1>5. Alike(p, e, r.m)
  BY <1>2, <1>3, AlikeFacts
<1> DEFINE a == AdvanceNav(p, e, start)
<1>6. (a.ok = FALSE /\ a.m = e) \/ (a.ok = r.ok /\ a.m = r.m)
  BY <1>4
<1> HIDE DEF a
<1>7. a.ok \in BOOLEAN /\ Alike(p, e, a.m)
  BY <1>3, <1>5, <1>6, AlikeFacts
<1> QED BY <1>7 DEF a

\* A search that fails completes the mission.
LEMMA OrCompleteEffect ==
    ASSUME NEW p, NEW e \in Executors, NEW r, r.ok \in BOOLEAN, Alike(p, e, r.m)
    PROVE  Quiet(p, e, OrComplete(r))
<1> DEFINE x == r.m
<1>1. x \in Executors /\ Quiet(p, e, x)
  BY AlikeFacts DEF Alike
<1>2. /\ Complete(x) \in Executors /\ KeepsLaps(x, Complete(x))
      /\ Complete(x).state = "COMPLETE" /\ (Aimed(x) => Aimed(Complete(x)))
  <2> HIDE DEF x
  <2> QED BY <1>1 DEF Complete, KeepsLaps, Aimed, Executors
<1>3. OrComplete(r) = x \/ OrComplete(r) = Complete(x)
  BY DEF OrComplete
<1> HIDE DEF x
<1> QED BY <1>1, <1>2, <1>3, LapsFacts DEF Quiet


\* reset() forgets the laps.
LEMMA ResetEffect ==
    ASSUME NEW e \in Executors
    PROVE  /\ Reset(e) \in Executors /\ Reset(e).state = e.state /\ Aimed(Reset(e))
           /\ \A p : LapsFit(p, Reset(e))
<1> DEFINE x == [e EXCEPT !.navLoaded = FALSE, !.doLoaded = FALSE, !.doDone = FALSE,
                          !.nav = [@ EXCEPT !.index = None],
                          !.doc = [@ EXCEPT !.index = None], !.jumps = NoJumps,
                          !.taken = NoLaps]
<1>1. [e.nav EXCEPT !.index = None] \in Loaded /\ [e.doc EXCEPT !.index = None] \in Loaded
  BY Smallest DEF Executors
<1>2. /\ x \in Executors /\ x.jumps = NoJumps /\ x.taken = NoLaps
      /\ x.state = e.state /\ Aimed(x)
  BY <1>1, Smallest DEF Executors, Aimed
<1>3. Reset(e) = ResetHistory(x)
  BY DEF Reset
<1> HIDE DEF x
<1>4. /\ Reset(e) \in Executors /\ Reset(e).jumps = NoJumps /\ Reset(e).taken = NoLaps
      /\ Reset(e).state = e.state /\ Aimed(Reset(e))
  BY <1>2, <1>3, ResetHistorySame DEF SameLaps, KeepsLaps
<1>5. ~Reset(e).resuming
  BY <1>2, <1>3 DEF ResetHistory, Executors
<1> QED BY <1>4, <1>5, LapsFacts

\* start()
LEMMA StartEffect ==
    ASSUME NEW p, IsPlan(p), NEW e \in Executors
    PROVE  Start(p, e) \in Executors /\ LapsFit(p, Start(p, e)) /\ Aimed(Start(p, e))
<1> DEFINE run == [e EXCEPT !.state = "RUNNING"]
           x == Reset(run)
           r == AdvanceNav(p, x, 0)
<1>1. run \in Executors
  BY DEF Executors
<1>2. x \in Executors /\ LapsFit(p, x) /\ Aimed(x)
  <2> HIDE DEF run
  <2> QED BY <1>1, ResetEffect
<1>3. Start(p, e) = OrComplete(r)
  BY DEF Start
<1> HIDE DEF x
<1>4. r.ok \in BOOLEAN /\ Alike(p, x, r.m)
  BY <1>2, AdvanceNavEffect
<1> HIDE DEF r
<1>5. Quiet(p, x, OrComplete(r))
  BY <1>2, <1>4, OrCompleteEffect
<1> QED BY <1>2, <1>3, <1>5 DEF Quiet

\* Every round of the loop of set_current_cmd() leaves the mission at rest.
LEMMA PreloadRoundKeeps ==
    ASSUME NEW p, IsPlan(p), NEW e \in Executors,
           NEW s \in [m : Executors, at : Nat, over : BOOLEAN], Quiet(p, e, s.m),
           s.over \/ ~s.m.navLoaded
    PROVE  LET r == PreloadRound(p, s)
           IN  /\ r \in [m : Executors, at : Nat, over : BOOLEAN] /\ Quiet(p, e, r.m)
               /\ r.over \/ ~r.m.navLoaded
<1> DEFINE f == NextCmd(p, s.m, s.at, TRUE)
           x == LoadDo(f.m, f.cmd)
           y == [f.m EXCEPT !.nav = [@ EXCEPT !.index = None]]
           z == [f.m EXCEPT !.nav = f.cmd, !.navLoaded = TRUE,
                            !.doDone = ~f.m.doLoaded, !.state = "STOPPED"]
<1>0. CASE s.over
  BY <1>0 DEF PreloadRound, PreloadTakes
<1>1. s.m \in Executors /\ s.at \in Nat
  OBVIOUS
<1>2. /\ f.m \in Executors /\ Quiet(p, s.m, f.m) /\ f.m.navLoaded = s.m.navLoaded
      /\ f.cmd = NoCmd \/ (f.cmd \in Loaded /\ f.cmd.index \in Nat)
  <2>1. OnlyLaps(p, s.m, f.m) /\ (f.cmd = NoCmd \/ FromPlan(p, f.cmd))
    BY <1>1, NextCmdEffect
  <2> DEFINE y0 == s.m
  <2>2. y0 \in Executors /\ OnlyLaps(p, y0, f.m)
    BY <1>1, <2>1
  <2> HIDE DEF f, y0
  <2>3. f.m = [y0 EXCEPT !.jumps = f.m.jumps, !.taken = f.m.taken]
    BY <2>2 DEF OnlyLaps
  <2>4. f.m.navLoaded = y0.navLoaded
    BY <2>2, <2>3 DEF Executors
  <2>5. f.m \in Executors /\ Quiet(p, y0, f.m)
    BY <2>2, AlikeFacts DEF OnlyLaps
  <2> QED BY <2>1, <2>4, <2>5 DEF FromPlan, y0
<1>3. Quiet(p, e, f.m)
  <2> HIDE DEF f
  <2> QED BY <1>2, AlikeFacts
<1>4. f.cmd # NoCmd => Quiet(p, e, x) /\ x.navLoaded = f.m.navLoaded
  <2> HIDE DEF f
  <2>1. f.cmd # NoCmd => SameLaps(f.m, x)
    BY <1>2, LoadDoSame
  <2>2. f.cmd # NoCmd => Quiet(p, f.m, x)
    <3> HIDE DEF x
    <3> QED BY <1>2, <2>1, AlikeFacts DEF SameLaps, KeepsLaps
  <2>3. x.navLoaded = f.m.navLoaded
    BY <1>2 DEF LoadDo, Executors
  <2> HIDE DEF x
  <2> QED BY <1>3, <2>2, <2>3, AlikeFacts
<1>5. ~s.m.navLoaded => Quiet(p, e, y)
  <2> HIDE DEF f
  <2>1. /\ y \in Executors /\ KeepsLaps(f.m, y) /\ y.state = f.m.state
        /\ y.navLoaded = f.m.navLoaded
    BY <1>2, Smallest DEF KeepsLaps, Executors
  <2> HIDE DEF y
  <2> QED BY <1>2, <1>3, <2>1, LapsFacts DEF Quiet, Aimed
<1>6. f.cmd # NoCmd => Quiet(p, e, z)
  <2> HIDE DEF f
  <2>1. f.m.doLoaded \in BOOLEAN
    BY <1>2 DEF Executors
  <2>2. (~f.m.doLoaded) \in BOOLEAN
    BY <2>1
  <2>3. f.cmd # NoCmd => /\ z \in Executors /\ KeepsLaps(f.m, z)
                         /\ z.state = "STOPPED" /\ z.nav = f.cmd
    BY <1>2, <2>2 DEF KeepsLaps, Executors
  <2> HIDE DEF z
  <2> QED BY <1>2, <1>3, <2>3, LapsFacts DEF Quiet, Aimed, None
<1>7. \/ s.over
      \/ PreloadRound(p, s) = [m |-> y, at |-> s.at, over |-> TRUE]
      \/ f.cmd # NoCmd /\ PreloadRound(p, s) = [m |-> z, at |-> s.at, over |-> TRUE]
      \/ f.cmd # NoCmd /\ PreloadRound(p, s) = [m |-> x, at |-> f.cmd.index + 1, over |-> FALSE]
  BY DEF PreloadRound, PreloadTakes
<1> HIDE DEF f, x, y, z
<1>8. f.cmd # NoCmd => f.cmd.index + 1 \in Nat
  BY <1>2
<1>9. s.over \/ (y \in Executors /\ (f.cmd # NoCmd => x \in Executors /\ z \in Executors))
  BY <1>4, <1>5, <1>6 DEF Quiet
<1> DEFINE All == [m : Executors, at : Nat, over : BOOLEAN]
<1>10. \/ s.over
       \/ /\ [m |-> y, at |-> s.at, over |-> TRUE] \in All
          /\ f.cmd # NoCmd => /\ [m |-> z, at |-> s.at, over |-> TRUE] \in All
                              /\ [m |-> x, at |-> f.cmd.index + 1, over |-> FALSE] \in All
  BY <1>1, <1>8, <1>9
<1> DEFINE r == PreloadRound(p, s)
<1>11. CASE ~s.over
  <2>1. r \in All
    <3> HIDE DEF All
    <3> QED BY <1>7, <1>10, <1>11
  <2>2. \/ r.m = y /\ r.over
        \/ f.cmd # NoCmd /\ r.m = z /\ r.over
        \/ f.cmd # NoCmd /\ r.m = x
    BY <1>7, <1>11
  <2>3. Quiet(p, e, r.m) /\ (r.over \/ ~r.m.navLoaded)
    <3> HIDE DEF r
    <3> QED BY <1>2, <1>4, <1>5, <1>6, <1>11, <2>2
  <2> QED BY <2>1, <2>3
<1> QED BY <1>0, <1>11

\* set_current_cmd()'s search, of a waypoint to start from, keeps what the mission relies on.
LEMMA PreloadEffect ==
    ASSUME NEW p, IsPlan(p), NEW e \in Executors, NEW i \in Nat, ~e.navLoaded
    PROVE  Quiet(p, e, Preload(p, e, i))
<1> DEFINE All == [m : Executors, at : Nat, over : BOOLEAN]
           S == {s \in All : Quiet(p, e, s.m) /\ (s.over \/ ~s.m.navLoaded)}
<1>1. [m |-> e, at |-> i, over |-> FALSE] \in S
  BY AlikeFacts
<1>2. \A s \in S : PreloadRound(p, s) \in S
  BY PreloadRoundKeeps
<1>3. PICK s \in S : Preload(p, e, i) = s.m
  <2> HIDE DEF S
  <2> QED BY <1>1, <1>2, PreloadLoop
<1> QED BY <1>3


\* What neither records nor loads a navigation command.
Unmoved(e, x) ==
    /\ x \in Executors
    /\ x.hist = e.hist /\ x.resuming = e.resuming /\ x.resumeCmd = e.resumeCmd
    /\ x.nav = e.nav /\ x.navLoaded = e.navLoaded /\ x.state = e.state

\* The operations that do not.
LEMMA UnmovedFacts ==
    ASSUME NEW e \in Executors
    PROVE  /\ \A p, x : OnlyLaps(p, e, x) => Unmoved(e, x)
           /\ Unmoved(e, Stopped(e))
           /\ \A c \in Loaded : Unmoved(e, LoadDo(e, c))
           /\ \A sub \in {"LOITER", "WP"} : Unmoved(e, [e EXCEPT !.sub = sub])
           /\ \A b \in BOOLEAN : Unmoved(e, [e EXCEPT !.force = b])
           /\ \A b \in BOOLEAN : Unmoved(e, [e EXCEPT !.reason = b])
           /\ \A b \in BOOLEAN : Unmoved(e, [e EXCEPT !.doDone = b])
           /\ \A b \in BOOLEAN : Unmoved(e, [e EXCEPT !.doLoaded = b])
<1>1. ASSUME NEW p, NEW x, OnlyLaps(p, e, x) PROVE Unmoved(e, x)
  <2>1. x \in Executors /\ x = [e EXCEPT !.jumps = x.jumps, !.taken = x.taken]
    BY <1>1 DEF OnlyLaps
  <2> QED BY <2>1 DEF Unmoved, Executors
<1>2. Unmoved(e, Stopped(e))
  BY Smallest DEF Unmoved, Stopped, Executors
<1>3. \A c \in Loaded : Unmoved(e, LoadDo(e, c))
  BY DEF Unmoved, LoadDo, Executors
<1>4. \A sub \in {"LOITER", "WP"} : Unmoved(e, [e EXCEPT !.sub = sub])
  BY DEF Unmoved, Executors
<1>5. \A b \in BOOLEAN : Unmoved(e, [e EXCEPT !.force = b])
  BY DEF Unmoved, Executors
<1>6. \A b \in BOOLEAN : Unmoved(e, [e EXCEPT !.reason = b])
  BY DEF Unmoved, Executors
<1>7. \A b \in BOOLEAN : Unmoved(e, [e EXCEPT !.doDone = b])
  BY DEF Unmoved, Executors
<1>8. \A b \in BOOLEAN : Unmoved(e, [e EXCEPT !.doLoaded = b])
  BY DEF Unmoved, Executors
<1> QED BY <1>1, <1>2, <1>3, <1>4, <1>5, <1>6, <1>7, <1>8

\* Nothing is known of the flight so far.
Forgotten(e) == e.hist = NoHist /\ ~e.resuming /\ e.resumeCmd.index = None

\* The loop of set_current_cmd() records nothing.
LEMMA PreloadForgets ==
    ASSUME NEW p, IsPlan(p), NEW e \in Executors, NEW i \in Nat, ~e.navLoaded,
           Forgotten(e)
    PROVE  Forgotten(Preload(p, e, i))
<1> DEFINE All == [m : Executors, at : Nat, over : BOOLEAN]
           S == {s \in All : /\ Quiet(p, e, s.m) /\ (s.over \/ ~s.m.navLoaded)
                             /\ Forgotten(s.m)}
<1>1. [m |-> e, at |-> i, over |-> FALSE] \in S
  BY AlikeFacts
<1>2. ASSUME NEW s \in S PROVE PreloadRound(p, s) \in S
  <2> DEFINE r == PreloadRound(p, s)
             f == NextCmd(p, s.m, s.at, TRUE)
             x == LoadDo(f.m, f.cmd)
             y == [f.m EXCEPT !.nav = [@ EXCEPT !.index = None]]
             z == [f.m EXCEPT !.nav = f.cmd, !.navLoaded = TRUE,
                              !.doDone = ~f.m.doLoaded, !.state = "STOPPED"]
             b == s.m
  <2>1. b \in Executors /\ s.at \in Nat /\ Forgotten(b)
    OBVIOUS
  <2>2. r \in All /\ Quiet(p, e, r.m) /\ (r.over \/ ~r.m.navLoaded)
    BY PreloadRoundKeeps
  <2>3. Unmoved(b, f.m) /\ (f.cmd = NoCmd \/ f.cmd \in Loaded)
    <3>1. OnlyLaps(p, b, f.m) /\ (f.cmd = NoCmd \/ FromPlan(p, f.cmd))
      BY <2>1, NextCmdEffect
    <3> HIDE DEF f, b
    <3> QED BY <2>1, <3>1, UnmovedFacts DEF FromPlan
  <2>4. r.m \in {b, x, y, z}
    BY DEF PreloadRound, PreloadTakes
  <2> HIDE DEF f, b
  <2>5. f.m \in Executors /\ Forgotten(f.m)
    BY <2>1, <2>3 DEF Unmoved, Forgotten
  <2>6. Forgotten(x)
    BY <2>5 DEF LoadDo, Forgotten, Executors
  <2>7. Forgotten(y) /\ Forgotten(z)
    BY <2>5 DEF Forgotten, Executors
  <2> HIDE DEF x, y, z, r
  <2>8. Forgotten(r.m)
    BY <2>1, <2>4, <2>6, <2>7
  <2> QED BY <2>2, <2>8 DEF r
<1>3. PICK s \in S : Preload(p, e, i) = s.m
  <2> HIDE DEF S
  <2> QED BY <1>1, <1>2, PreloadLoop
<1> QED BY <1>3

\* What set_current_cmd() forgets before it looks.
LEMMA AsideEffect ==
    ASSUME NEW p, NEW e \in Executors, NEW index \in Nat
    PROVE  LET x == Aside(e, index)
           IN  /\ Quiet(p, e, x) /\ Forgotten(x)
               /\ x \in Executors /\ x.state = e.state /\ x.navLoaded = FALSE
               /\ Quiet(p, e, ResetHistory(e)) /\ Forgotten(ResetHistory(e))
<1> DEFINE h == ResetHistory(e)
           g == Stopped(h)
           s == [g EXCEPT !.navLoaded = FALSE]
           afresh == index = 0 \/ e.state = "COMPLETE"
           t == IF afresh THEN [s EXCEPT !.jumps = NoJumps, !.taken = NoLaps] ELSE s
<1>1. h \in Executors /\ Quiet(p, e, h) /\ h.state = e.state
  BY ResetHistorySame, AlikeFacts DEF SameLaps
<1>2. Forgotten(h)
  <2>1. NoCmd.index = None
    BY NoCmdType
  <2> QED BY <2>1 DEF Forgotten, ResetHistory, Executors
<1>3. g \in Executors /\ Quiet(p, e, g) /\ Forgotten(g) /\ g.state = e.state
  <2> HIDE DEF h
  <2>1. SameLaps(h, g) /\ Unmoved(h, g)
    BY <1>1, StoppedSame, UnmovedFacts
  <2> HIDE DEF g
  <2>2. g \in Executors /\ Quiet(p, h, g) /\ Forgotten(g) /\ g.state = e.state
    BY <1>1, <1>2, <2>1, AlikeFacts DEF SameLaps, Unmoved, Forgotten
  <2> QED BY <1>1, <2>2, AlikeFacts
<1>4. /\ s \in Executors /\ KeepsLaps(g, s) /\ Forgotten(s) /\ s.state = e.state
      /\ s.navLoaded = FALSE
  <2> HIDE DEF g
  <2> QED BY <1>3 DEF KeepsLaps, Forgotten, Executors
<1>5. /\ t \in Executors /\ Forgotten(t) /\ t.state = e.state /\ t.navLoaded = FALSE
      /\ KeepsLaps(s, t) \/ (t.jumps = NoJumps /\ t.taken = NoLaps)
  <2> HIDE DEF s, afresh
  <2> QED BY <1>4, Smallest DEF KeepsLaps, Forgotten, Executors
<1> HIDE DEF h, g, s, t
<1>6. LapsFit(p, e) => LapsFit(p, t)
  <2>1. LapsFit(p, e) => LapsFit(p, s)
    BY <1>3, <1>4, LapsFacts DEF Quiet
  <2>2. ~t.resuming
    BY <1>5 DEF Forgotten
  <2> QED BY <1>5, <2>1, <2>2, LapsFacts
<1>7. Quiet(p, e, t)
  BY <1>5, <1>6 DEF Quiet, Aimed
<1>8. Aside(e, index) = t
  BY DEF Aside, t, s, g, h
<1> QED BY <1>1, <1>2, <1>5, <1>7, <1>8 DEF h

\* set_current_cmd() does not make the mission run, and one that is at rest
\* after it has no history.
LEMMA SetCurrentEffect ==
    ASSUME NEW p, IsPlan(p), NEW e \in Executors, NEW index \in Nat
    PROVE  /\ Quiet(p, e, SetCurrent(p, e, index))
           /\ SetCurrent(p, e, index).state = "STOPPED" => Forgotten(SetCurrent(p, e, index))
<1> DEFINE h == ResetHistory(e)
           t == Aside(e, index)
           i == FirstSought(index)
           r == AdvanceNav(p, t, i)
           x == SetCurrent(p, e, index)
<1>1. /\ t \in Executors /\ Quiet(p, e, t) /\ Forgotten(t) /\ t.navLoaded = FALSE
      /\ t.state = e.state /\ Quiet(p, e, h) /\ Forgotten(h)
  BY AsideEffect
<1>2. i \in Nat
  BY DEF FirstSought
<1>3. \/ x = h \/ (e.state = "RUNNING" /\ x = OrComplete(r))
      \/ x = Preload(p, t, i)
  BY DEF SetCurrent
<1> HIDE DEF t, i, h
<1>4. Quiet(p, e, OrComplete(r)) /\ (e.state = "RUNNING" => OrComplete(r).state # "STOPPED")
  <2>1. r.ok \in BOOLEAN /\ Alike(p, t, r.m)
    BY <1>1, <1>2, AdvanceNavEffect
  <2> HIDE DEF r
  <2>2. Quiet(p, t, OrComplete(r))
    BY <1>1, <2>1, OrCompleteEffect
  <2>3. r.m.state = e.state /\ r.m \in Executors
    BY <1>1, <2>1 DEF Alike
  <2>4. OrComplete(r).state \in {e.state, "COMPLETE"}
    BY <2>3 DEF OrComplete, Complete, Executors
  <2> QED BY <1>1, <2>2, <2>4, AlikeFacts
<1>5. Quiet(p, e, Preload(p, t, i)) /\ Forgotten(Preload(p, t, i))
  <2>1. Quiet(p, t, Preload(p, t, i)) /\ Forgotten(Preload(p, t, i))
    BY <1>1, <1>2, PreloadEffect, PreloadForgets
  <2> QED BY <1>1, <2>1, AlikeFacts
<1> HIDE DEF r, x
<1>6. Quiet(p, e, x) /\ (x.state = "STOPPED" => Forgotten(x))
  BY <1>1, <1>3, <1>4, <1>5
<1> QED BY <1>6 DEF x

\* What the operations that start or resume a mission keep.
Kept(p, e, x) == x \in Executors /\ (LapsFit(p, e) => LapsFit(p, x)) /\ (Aimed(e) => Aimed(x))

\* The same, but for the laps of a vehicle that resumes.
Held(p, e, x) ==
    x \in Executors /\ (LapsFit(p, e) => LapsFit(p, x) \/ x.resuming) /\ (Aimed(e) => Aimed(x))

\* What is kept is kept by a sequence of operations.
LEMMA KeptFacts ==
    ASSUME NEW p, NEW e \in Executors
    PROVE  /\ Kept(p, e, e)
           /\ \A x : Quiet(p, e, x) => Kept(p, e, x)
           /\ \A x : SameLaps(e, x) => Kept(p, e, x)
           /\ \A x, y : Kept(p, e, x) /\ Kept(p, x, y) => Kept(p, e, y)
           /\ \A x : Kept(p, e, x) => Held(p, e, x)
           /\ \A x, y : Kept(p, e, x) /\ Held(p, x, y) => Held(p, e, y)
           /\ \A x, y : Held(p, e, x) /\ Kept(p, x, y) /\ (x.resuming => y.resuming) =>
                          Held(p, e, y)
BY AlikeFacts DEF Kept, Held, Quiet, Alike

\* resume() without a waypoint to resume at starts the loaded command again.
LEMMA RestartActiveKeeps ==
    ASSUME NEW p, IsPlan(p), NEW e \in Executors, Aimed(e)
    PROVE  Kept(p, e, RestartActive(p, e))
<1>1. e.doc.index \in -1..MaxPlan /\ e.nav.index \in -1..MaxPlan
  BY DEF Executors, Loaded
<1>2. CASE e.doLoaded /\ e.doc.index # None
  <2>1. e.doc.index \in Nat
    BY <1>1, <1>2 DEF None
  <2>2. RestartActive(p, e) = SetCurrent(p, e, e.doc.index)
    BY <1>2 DEF RestartActive
  <2>3. Quiet(p, e, SetCurrent(p, e, e.doc.index))
    BY <2>1, SetCurrentEffect
  <2> QED BY <2>2, <2>3, KeptFacts
<1>3. CASE ~(e.doLoaded /\ e.doc.index # None) /\ e.navLoaded
  <2>1. e.nav.index \in Nat
    BY <1>1, <1>3 DEF None, Aimed
  <2>2. RestartActive(p, e) = SetCurrent(p, e, e.nav.index)
    BY <1>3 DEF RestartActive
  <2>3. Quiet(p, e, SetCurrent(p, e, e.nav.index))
    BY <2>1, SetCurrentEffect
  <2> QED BY <2>2, <2>3, KeptFacts
<1> QED BY <1>2, <1>3, KeptFacts DEF RestartActive

\* The place to which the vehicle rewinds is a command.
LEMMA RewoundKeeps ==
    ASSUME NEW p, IsPlan(p), NEW e \in Executors, NEW located
    PROVE  /\ SameLaps(e, Rewound(p, e, located))
           /\ Rewound(p, e, located).hist = e.hist
<1> DEFINE w == Rewound(p, e, located)
<1>1. CASE CanRewind(p, e, located)
  <2> DEFINE c == Read(p, e.hist.passed)
  <2>1. c \in Loaded
    BY <1>1, ReadType DEF CanRewind
  <2>2. RewindPos(p, e) = [c EXCEPT !.place = "leg"]
    BY DEF RewindPos
  <2> HIDE DEF c
  <2>3. "leg" \in Places
    BY DEF Places
  <2>4. RewindPos(p, e) \in Loaded
    BY <2>1, <2>2, <2>3 DEF Loaded
  <2> DEFINE a == RewindPos(p, e)
  <2>5. w = e \/ w = [e EXCEPT !.resumeCmd = a]
    BY DEF Rewound
  <2> HIDE DEF a, w
  <2>6. SameLaps(e, e) /\ SameLaps(e, [e EXCEPT !.resumeCmd = a])
    BY <2>4 DEF SameLaps, KeepsLaps, Aimed, Executors, a
  <2>7. [e EXCEPT !.resumeCmd = a].hist = e.hist
    BY DEF Executors
  <2>8. SameLaps(e, w) /\ w.hist = e.hist
    BY <2>5, <2>6, <2>7
  <2> QED BY <2>8 DEF w
<1>2. CASE ~CanRewind(p, e, located)
  BY <1>2 DEF Rewound, SameLaps, KeepsLaps
<1> QED BY <1>1, <1>2

\* The rewound waypoint is loaded as it is.
LEMMA FlyRewoundKeeps ==
    ASSUME NEW p, NEW e \in Executors, e.resumeCmd.index # None
    PROVE  Held(p, e, FlyRewound(e))
<1> DEFINE c == e.resumeCmd
           s == Started(e, c)
<1>1. c \in Loaded
  BY DEF Executors
<1>2. SameLaps(e, s)
  BY StartedSame
<1>3. FlyRewound(e) = [s EXCEPT !.nav = c, !.navLoaded = TRUE, !.resuming = TRUE]
  BY DEF FlyRewound
<1>4. c.index # None
  OBVIOUS
<1> HIDE DEF s, c
<1> QED BY <1>1, <1>2, <1>3, <1>4 DEF SameLaps, Held, Aimed, Executors

\* resume(), which rewinds only with a waypoint passed.
LEMMA ResumeKeeps ==
    ASSUME NEW p, IsPlan(p), NEW e \in Executors, Aimed(e), NEW located
    PROVE  /\ Held(p, e, Resume(p, e, located))
           /\ e.hist.passed = None => Kept(p, e, Resume(p, e, located))
<1> DEFINE run == [e EXCEPT !.state = "RUNNING"]
           a == Read(p, e.nav.index)
           c == [run EXCEPT !.nav = a]
           w == Rewound(p, c, located)
           v == [w EXCEPT !.reason = FALSE]
           x == Resume(p, e, located)
<1>1. /\ run \in Executors /\ KeepsLaps(e, run) /\ run.nav = e.nav
      /\ run.navLoaded = e.navLoaded /\ run.hist = e.hist
  BY DEF KeepsLaps, Executors
<1>2. Kept(p, e, Start(p, e)) /\ Kept(p, e, Start(p, run))
  <2> HIDE DEF run
  <2> QED BY <1>1, StartEffect DEF Kept
<1>3. SUFFICES ASSUME Readable(p, e.nav.index),
                      x = IF Rewinds(p, w) THEN FlyRewound(w) ELSE RestartActive(p, v)
               PROVE  Held(p, e, x) /\ (e.hist.passed = None => Kept(p, e, x))
  <2>1. \/ x = Start(p, e) \/ x = Start(p, run)
        \/ /\ Readable(p, e.nav.index)
           /\ x = IF Rewinds(p, w) THEN FlyRewound(w) ELSE RestartActive(p, v)
    BY DEF Resume
  <2> HIDE DEF run, w, v, x
  <2> QED BY <1>2, <2>1, KeptFacts DEF x
<1>4. a \in Loaded /\ a.index = e.nav.index
  BY <1>3, ReadType
<1>5. c \in Executors /\ KeepsLaps(e, c) /\ Aimed(c) /\ c.hist = e.hist
  <2> HIDE DEF run, a
  <2> QED BY <1>1, <1>4 DEF KeepsLaps, Executors, Aimed
<1> HIDE DEF c
<1>6. SameLaps(c, w) /\ w.hist = e.hist
  BY <1>5, RewoundKeeps
<1>7. w \in Executors /\ KeepsLaps(e, w) /\ Aimed(w)
  BY <1>5, <1>6 DEF SameLaps, KeepsLaps
<1> HIDE DEF w
<1>8. Kept(p, e, w)
  BY <1>7, LapsFacts DEF Kept
<1> HIDE DEF x
<1>9. CASE Rewinds(p, w)
  <2>1. Held(p, w, FlyRewound(w))
    BY <1>7, <1>9, FlyRewoundKeeps DEF Rewinds
  <2>2. e.hist.passed # None
    BY <1>6, <1>9 DEF Rewinds
  <2> QED BY <1>3, <1>7, <1>8, <1>9, <2>1, <2>2, KeptFacts
<1>10. CASE ~Rewinds(p, w)
  <2>1. v \in Executors /\ KeepsLaps(w, v) /\ Aimed(v)
    BY <1>7 DEF KeepsLaps, Executors, Aimed
  <2> HIDE DEF v
  <2>2. Kept(p, w, v)
    BY <2>1, LapsFacts DEF Kept
  <2>3. Kept(p, v, RestartActive(p, v))
    BY <2>1, RestartActiveKeeps
  <2>4. Kept(p, e, v)
    BY <1>7, <1>8, <2>2, KeptFacts
  <2>5. Kept(p, e, x)
    BY <1>3, <1>10, <2>1, <2>3, <2>4, KeptFacts
  <2> QED BY <2>5, KeptFacts
<1> QED BY <1>9, <1>10

\* start_or_resume()
LEMMA StartOrResumeKeeps ==
    ASSUME NEW p, IsPlan(p), NEW e \in Executors, Aimed(e), NEW located
    PROVE  Held(p, e, StartOrResume(p, e, located))
<1> DEFINE x == Resume(p, e, located)
           y == [x EXCEPT !.force = FALSE]
<1>1. Held(p, e, x)
  BY ResumeKeeps
<1>2. Held(p, e, Start(p, e))
  BY StartEffect DEF Held
<1>3. StartOrResume(p, e, located) = Start(p, e) \/ StartOrResume(p, e, located) = y
  BY DEF StartOrResume
<1> HIDE DEF x
<1>4. /\ y \in Executors /\ KeepsLaps(x, y) /\ (Aimed(x) => Aimed(y))
      /\ y.resuming = x.resuming
  BY <1>1 DEF Held, KeepsLaps, Executors, Aimed
<1> HIDE DEF y
<1>5. Held(p, e, y)
  BY <1>1, <1>4, LapsFacts DEF Held
<1> QED BY <1>2, <1>3, <1>5


\* advance_current_do_cmd() changes the DO command and what a search does.
LEMMA AdvanceDoEffect ==
    ASSUME NEW p, IsPlan(p), NEW e \in Executors
    PROVE  Alike(p, e, AdvanceDo(p, e))
<1> DEFINE i == IF e.doc.index = None THEN 1 ELSE e.doc.index + 1
           f == NextCmd(p, e, i, FALSE)
           g == IF i >= Total(p) THEN [m |-> e, cmd |-> NoCmd] ELSE f
           x == g.m
           y == [x EXCEPT !.doDone = TRUE]
           z == [x EXCEPT !.doc = g.cmd, !.doLoaded = TRUE]
<1>1. i \in Nat
  <2>1. e.doc.index \in -1..MaxPlan
    BY DEF Executors, Loaded
  <2> QED BY <2>1, Numbers DEF None
<1>2. /\ x \in Executors /\ Alike(p, e, x)
      /\ g.cmd \in Loaded
  <2>1. OnlyLaps(p, e, f.m) /\ (f.cmd = NoCmd \/ FromPlan(p, f.cmd))
    BY <1>1, NextCmdEffect
  <2>2. (x = e /\ g.cmd = NoCmd) \/ (x = f.m /\ g.cmd = f.cmd)
    OBVIOUS
  <2> HIDE DEF f, g, x
  <2>3. f.m \in Executors /\ Alike(p, e, f.m) /\ f.cmd \in Loaded
    BY <2>1, AlikeFacts, NoCmdType DEF OnlyLaps, FromPlan
  <2> QED BY <2>2, <2>3, AlikeFacts, NoCmdType
<1>3. AdvanceDo(p, e) = e \/ AdvanceDo(p, e) = y \/ AdvanceDo(p, e) = z
  BY DEF AdvanceDo, DoFound
<1> DEFINE c == g.cmd
<1>4. c \in Loaded /\ z = [x EXCEPT !.doc = c, !.doLoaded = TRUE]
  BY <1>2
<1> HIDE DEF x, c
<1>5. SameLaps(x, y)
  BY <1>2 DEF SameLaps, KeepsLaps, Aimed, Executors
<1>6. SameLaps(x, z)
  <2> HIDE DEF z
  <2> QED BY <1>2, <1>4 DEF SameLaps, KeepsLaps, Aimed, Executors
<1> HIDE DEF y, z
<1>7. Alike(p, e, y) /\ Alike(p, e, z)
  BY <1>2, <1>5, <1>6, AlikeFacts
<1> QED BY <1>3, <1>7, AlikeFacts

\* update()'s half for the DO command that is running.
LEMMA UpdateDoEffect ==
    ASSUME NEW p, IsPlan(p), NEW e \in Executors, NEW r, r.ok \in BOOLEAN, Alike(p, e, r.m),
           NEW done \in BOOLEAN
    PROVE  Quiet(p, e, UpdateDo(p, r, done))
<1> DEFINE x == r.m
           y == [x EXCEPT !.doLoaded = ~done]
<1>1. x \in Executors /\ Alike(p, e, x)
  BY DEF Alike
<1>2. Quiet(p, e, OrComplete(r))
  BY OrCompleteEffect
<1>3. ~r.ok => OrComplete(r) = Complete(x)
  BY DEF OrComplete
<1>4. \/ ~r.ok /\ UpdateDo(p, r, done) = Complete(x)
      \/ UpdateDo(p, r, done) = AdvanceDo(p, x)
      \/ UpdateDo(p, r, done) = y
  BY DEF UpdateDo
<1> HIDE DEF x
<1>5. Alike(p, x, AdvanceDo(p, x))
  BY <1>1, AdvanceDoEffect
<1>6. SameLaps(x, y)
  <2>1. (~done) \in BOOLEAN
    OBVIOUS
  <2> QED BY <1>1, <2>1 DEF SameLaps, KeepsLaps, Aimed, Executors
<1> HIDE DEF y
<1>7. Alike(p, x, y)
  BY <1>1, <1>6, AlikeFacts
<1>8. Quiet(p, e, AdvanceDo(p, x)) /\ Quiet(p, e, y)
  BY <1>1, <1>5, <1>7, AlikeFacts
<1> QED BY <1>2, <1>3, <1>4, <1>8

\* update()
LEMMA UpdateEffect ==
    ASSUME NEW p, IsPlan(p), NEW e \in Executors, NEW nv \in BOOLEAN, NEW dv \in BOOLEAN
    PROVE  Quiet(p, e, Update(p, e, nv, dv))
<1> DEFINE z == [e EXCEPT !.navLoaded = FALSE]
           a == AdvanceNav(p, e, 0)
           b == AdvanceNav(p, z, 0)
           c == [m |-> e, ok |-> TRUE]
<1>1. a.ok \in BOOLEAN /\ Alike(p, e, a.m)
  BY AdvanceNavEffect
<1>2. b.ok \in BOOLEAN /\ Alike(p, e, b.m)
  <2>1. z \in Executors /\ SameLaps(e, z)
    BY DEF SameLaps, KeepsLaps, Aimed, Executors
  <2> HIDE DEF z
  <2>2. b.ok \in BOOLEAN /\ Alike(p, z, b.m)
    BY <2>1, AdvanceNavEffect
  <2> HIDE DEF b
  <2> QED BY <2>1, <2>2, AlikeFacts
<1>3. c.ok \in BOOLEAN /\ Alike(p, e, c.m)
  BY AlikeFacts
<1>4. Update(p, e, nv, dv) = e \/ \E r \in {a, b, c} : Update(p, e, nv, dv) = UpdateDo(p, r, dv)
  BY DEF Update
<1> HIDE DEF a, b, c
<1>5. \A r \in {a, b, c} : Quiet(p, e, UpdateDo(p, r, dv))
  BY <1>1, <1>2, <1>3, UpdateDoEffect
<1> QED BY <1>4, <1>5, AlikeFacts


-----------------------------------------------------------------------------
(* What the change detector does: its searches count laps, no more.        *)

Navs(p, e) ==
    {s \in [m : Executors, at : Nat, cmd : Loaded, over : BOOLEAN] :
        OnlyLaps(p, e, s.m) /\ (s.cmd = NoCmd \/ FromPlan(p, s.cmd))}

\* get_next_nav_cmd() only looks: a round of it may count laps and changes nothing else.
LEMMA NavRoundKeeps ==
    ASSUME NEW p, IsPlan(p), NEW e \in Executors, NEW s \in Navs(p, e)
    PROVE  NavRound(p, s) \in Navs(p, e)
<1> DEFINE f == NextCmd(p, s.m, s.at, FALSE)
           x == s.m
<1>1. x \in Executors /\ s.at \in Nat /\ OnlyLaps(p, e, x)
  BY DEF Navs
<1>2. OnlyLaps(p, x, f.m) /\ (f.cmd = NoCmd \/ FromPlan(p, f.cmd))
  BY <1>1, NextCmdEffect
<1>3. \/ NavRound(p, s) = s
      \/ NavRound(p, s) = [m |-> f.m, at |-> s.at, cmd |-> f.cmd, over |-> TRUE]
      \/ NavRound(p, s) = [m |-> f.m, at |-> s.at + 1, cmd |-> NoCmd, over |-> FALSE]
  BY DEF NavRound, NavTakes
<1> HIDE DEF f, x
<1>4. OnlyLaps(p, e, f.m)
  BY <1>1, <1>2, OnlyLapsTwice
<1>5. f.m \in Executors /\ f.cmd \in Loaded /\ NoCmd \in Loaded
  BY <1>2, NoCmdType DEF OnlyLaps, FromPlan
<1>6. /\ [m |-> f.m, at |-> s.at, cmd |-> f.cmd, over |-> TRUE] \in Navs(p, e)
      /\ [m |-> f.m, at |-> s.at + 1, cmd |-> NoCmd, over |-> FALSE] \in Navs(p, e)
  BY <1>1, <1>2, <1>4, <1>5 DEF Navs
<1> QED BY <1>3, <1>6

\* get_next_nav_cmd()
LEMMA NextNavEffect ==
    ASSUME NEW p, IsPlan(p), NEW e \in Executors, NEW i \in Nat
    PROVE  LET f == NextNav(p, e, i)
           IN  OnlyLaps(p, e, f.m) /\ (f.cmd = NoCmd \/ FromPlan(p, f.cmd))
<1>1. [m |-> e, at |-> i, cmd |-> NoCmd, over |-> FALSE] \in Navs(p, e)
  BY OnlyLapsNone, NoCmdType DEF Navs
<1>2. \A s \in Navs(p, e) : NavRound(p, s) \in Navs(p, e)
  BY NavRoundKeeps
<1>3. p \in Seq(Commands)
  BY DEF IsPlan
<1>4. PICK s \in Navs(p, e) : NextNav(p, e, i) = s
  BY <1>1, <1>2, <1>3, NavLoop
<1> QED BY <1>4 DEF Navs

\* The detector with at most n commands collected.
Gathered(p, e, n) ==
    {s \in [m : Executors, at : Nat, cmds : Seq(Loaded), over : BOOLEAN] :
        OnlyLaps(p, e, s.m) /\ Len(s.cmds) <= n}

\* The detector collects one more command of the plan,
LEMMA CollectKeeps ==
    ASSUME NEW p, IsPlan(p), NEW e \in Executors, NEW n \in Nat, NEW s \in Gathered(p, e, n)
    PROVE  Collect(p, s) \in Gathered(p, e, n + 1)
<1> DEFINE f == NextNav(p, s.m, s.at)
           x == s.m
           q == Append(s.cmds, f.cmd)
<1>1. /\ x \in Executors /\ s.at \in Nat /\ OnlyLaps(p, e, x)
      /\ s.cmds \in Seq(Loaded) /\ Len(s.cmds) <= n
  BY DEF Gathered
<1>2. OnlyLaps(p, x, f.m) /\ (f.cmd = NoCmd \/ FromPlan(p, f.cmd))
  BY <1>1, NextNavEffect
<1>3. \/ Collect(p, s) = s
      \/ Collect(p, s) = [m |-> f.m, at |-> s.at, cmds |-> s.cmds, over |-> TRUE]
      \/ /\ f.cmd # NoCmd
         /\ Collect(p, s) = [m |-> f.m, at |-> f.cmd.index + 1, cmds |-> q, over |-> FALSE]
  BY DEF Collect, CollectTakes
<1> HIDE DEF f, x
<1>4. OnlyLaps(p, e, f.m) /\ f.m \in Executors
  BY <1>1, <1>2, OnlyLapsTwice DEF OnlyLaps
<1>5. f.cmd # NoCmd => q \in Seq(Loaded) /\ Len(q) <= n + 1 /\ f.cmd.index + 1 \in Nat
  BY <1>1, <1>2 DEF FromPlan
<1> HIDE DEF q
<1>6. Len(s.cmds) <= n + 1
  BY <1>1
<1>7. s \in Gathered(p, e, n + 1)
  BY <1>6 DEF Gathered
<1>8. [m |-> f.m, at |-> s.at, cmds |-> s.cmds, over |-> TRUE] \in Gathered(p, e, n + 1)
  BY <1>1, <1>4, <1>6 DEF Gathered
<1>9. f.cmd # NoCmd =>
          [m |-> f.m, at |-> f.cmd.index + 1, cmds |-> q, over |-> FALSE]
              \in Gathered(p, e, n + 1)
  BY <1>4, <1>5 DEF Gathered
<1> QED BY <1>3, <1>7, <1>8, <1>9

\* and three of them in all.
LEMMA UpcomingEffect ==
    ASSUME NEW p, IsPlan(p), NEW e \in Executors, NEW i \in Nat
    PROVE  LET u == Upcoming(p, e, i)
           IN  OnlyLaps(p, e, u.m) /\ u.cmds \in Seq(Loaded) /\ Len(u.cmds) <= 3
<1> DEFINE a == [m |-> e, at |-> i, cmds |-> <<>>, over |-> FALSE]
           b == Collect(p, a)
           c == Collect(p, b)
           d == Collect(p, c)
<1>1. a \in Gathered(p, e, 0)
  BY OnlyLapsNone DEF Gathered
<1> HIDE DEF a
<1>2. b \in Gathered(p, e, 0 + 1)
  BY <1>1, CollectKeeps
<1> HIDE DEF b
<1>3. c \in Gathered(p, e, (0 + 1) + 1)
  BY <1>2, CollectKeeps
<1> HIDE DEF c
<1>4. d \in Gathered(p, e, ((0 + 1) + 1) + 1)
  BY <1>3, CollectKeeps
<1>5. Upcoming(p, e, i) = d
  BY DEF Upcoming, a, b, c
<1> HIDE DEF d
<1> QED BY <1>4, <1>5 DEF Gathered

Detectors == {d \in [changed : BOOLEAN, idx : 0..MaxPlan, cmds : Seq(Loaded)] : Len(d.cmds) <= 3}

\* The index the detector compares is one of the plan's.
LEMMA CurrentIndexType ==
    ASSUME NEW e \in Executors
    PROVE  CurrentIndex(e) \in 0..MaxPlan
<1>1. e.nav.index \in -1..MaxPlan
  BY DEF Executors, Loaded
<1> QED BY <1>1, Numbers DEF CurrentIndex, None

\* check_for_mission_change()
LEMMA LookEffect ==
    ASSUME NEW p, IsPlan(p), NEW e \in Executors, NEW d \in Detectors
    PROVE  LET r == Look(p, e, d) IN OnlyLaps(p, e, r.m) /\ r.det \in Detectors
<1> DEFINE i == CurrentIndex(e)
           u == Upcoming(p, e, i)
           r == Look(p, e, d)
           seen == [changed |-> FALSE, idx |-> i, cmds |-> u.cmds]
<1>1. i \in 0..MaxPlan /\ i \in Nat
  BY CurrentIndexType, Numbers
<1> HIDE DEF i
<1>2. OnlyLaps(p, e, u.m) /\ u.cmds \in Seq(Loaded) /\ Len(u.cmds) <= 3
  BY <1>1, UpcomingEffect
<1>3. (r.m = e /\ r.det = d) \/ (r.m = u.m /\ r.det = seen)
  BY DEF Look, Seen, i
<1> HIDE DEF u
<1>4. seen \in Detectors
  BY <1>1, <1>2 DEF Detectors
<1> HIDE DEF seen
<1> QED BY <1>2, <1>3, <1>4, OnlyLapsNone

\* restart_current_nav_cmd()
LEMMA RestartNavEffect ==
    ASSUME NEW p, IsPlan(p), NEW e \in Executors
    PROVE  Quiet(p, e, RestartNav(p, e))
<1>1. CASE CurrentIndex(e) \in 1..(Total(p) - 1)
  <2>1. e.nav.index \in Nat
    BY <1>1, CurrentIndexType DEF CurrentIndex
  <2>2. RestartNav(p, e) = SetCurrent(p, e, e.nav.index)
    BY <1>1 DEF RestartNav
  <2> QED BY <2>1, <2>2, SetCurrentEffect
<1>2. CASE CurrentIndex(e) \notin 1..(Total(p) - 1)
  BY <1>2, AlikeFacts DEF RestartNav
<1> QED BY <1>1, <1>2


-----------------------------------------------------------------------------
(* The actions.                                                            *)

Meddling == {"edit", "jump", "rewind", "disarm", "refused"}
MissionFlagsOK == /\ auto \in BOOLEAN /\ waiting \in BOOLEAN
           /\ meddled \subseteq Meddling /\ edits \in 0..MaxEdits

\* The type invariant, taken apart as the operators' lemmas are.
LEMMA MissionTypeParts ==
    MissionTypeOK <=> IsPlan(plan) /\ m \in Executors /\ det \in Detectors /\ MissionFlagsOK
BY DEF MissionTypeOK, IsPlan, Detectors, MissionFlagsOK, Meddling

\* JumpsWithinPlan is LapsFit, of a plan nobody has edited and a vehicle that
\* has not rewound.
LEMMA JumpsAreLaps ==
    ASSUME "edit" \notin meddled /\ "rewind" \notin meddled => LapsFit(plan, m)
    PROVE  JumpsWithinPlan
<1> SUFFICES ASSUME LapsFit(plan, m), NEW i \in 1..MaxPlan, m.taken[i] # 0
             PROVE  /\ i < Total(plan) /\ plan[i + 1].id = "JUMP"
                    /\ m.taken[i] <= plan[i + 1].times
  BY DEF JumpsWithinPlan
<1>1. m.jumps[i] # None /\ m.taken[i] = m.jumps[i]
  BY DEF LapsFit, FitTables
<1> QED BY <1>1 DEF LapsFit, FitTables

\* What holds of the executor in every state.
ExecutorIInv ==
    /\ m \in Executors /\ Aimed(m)
    /\ "edit" \notin meddled /\ "rewind" \notin meddled => LapsFit(plan, m)
    /\ RunsOnlyInAuto

MissionIInv == IsPlan(plan) /\ det \in Detectors /\ MissionFlagsOK /\ ExecutorIInv

\* An action that moves the mission on under AUTO, or not at all.
LEMMA KeptStep ==
    ASSUME MissionIInv, plan' = plan, meddled \subseteq meddled',
           Kept(plan, m, m') \/ (Held(plan, m, m') /\ (m'.resuming => "rewind" \in meddled')),
           auto' \/ "refused" \in meddled' \/ (m'.state = "RUNNING" => m.state = "RUNNING" /\ ~auto)
    PROVE  ExecutorIInv'
<1>1. m' \in Executors /\ Aimed(m)'
  BY DEF MissionIInv, ExecutorIInv, Kept, Held, Aimed
<1>3. ("edit" \notin meddled /\ "rewind" \notin meddled => LapsFit(plan, m))'
  <2>1. "edit" \notin meddled /\ "rewind" \notin meddled => LapsFit(plan, m)
    BY DEF MissionIInv, ExecutorIInv
  <2>2. "edit" \notin meddled' /\ "rewind" \notin meddled' => LapsFit(plan, m')
    BY <2>1 DEF Kept, Held
  <2> QED BY <2>2 DEF LapsFit
<1>2. RunsOnlyInAuto'
  BY DEF MissionIInv, ExecutorIInv, RunsOnlyInAuto
<1> QED BY <1>1, <1>2, <1>3 DEF ExecutorIInv

\* The members outside the mission that an operation sets.
LEMMA SubEffect ==
    ASSUME NEW e \in Executors, NEW sub \in {"LOITER", "WP"}
    PROVE  SameLaps(e, [e EXCEPT !.sub = sub])
BY DEF SameLaps, KeepsLaps, Aimed, Executors

\* set_force_resume() touches no lap.
LEMMA ForceEffect ==
    ASSUME NEW e \in Executors, NEW force \in BOOLEAN
    PROVE  SameLaps(e, [e EXCEPT !.force = force])
BY DEF SameLaps, KeepsLaps, Aimed, Executors

\* stop()
LEMMA StopEffect ==
    ASSUME NEW p, NEW e \in Executors
    PROVE  Quiet(p, e, StopMission(e)) /\ StopMission(e).state # "RUNNING"
<1> DEFINE x == [e EXCEPT !.state = "STOPPED"]
<1>1. x \in Executors /\ KeepsLaps(e, x) /\ x.state = "STOPPED" /\ (Aimed(e) => Aimed(x))
  BY DEF KeepsLaps, Aimed, Executors
<1> HIDE DEF x
<1>2. Quiet(p, e, x)
  BY <1>1, LapsFacts DEF Quiet
<1>3. StopMission(e) = IF e.state = "RUNNING" THEN x ELSE e
  BY DEF StopMission, x
<1> QED BY <1>1, <1>2, <1>3, AlikeFacts

\* init() of AUTO, with the executor it begins from.
LEMMA InitAutoKeeps ==
    ASSUME MissionIInv, NEW e \in Executors, Kept(plan, m, e), InitAuto(e),
           plan' = plan, meddled \subseteq meddled'
    PROVE  ExecutorIInv' /\ det' \in Detectors /\ auto' \in BOOLEAN /\ waiting' \in BOOLEAN
<1> DEFINE d == Look(plan, e, det)
           x == d.m
<1>1. m' = [x EXCEPT !.sub = "LOITER"] /\ det' = d.det /\ auto' = TRUE /\ waiting' = TRUE
  BY DEF InitAuto
<1>2. OnlyLaps(plan, e, x) /\ d.det \in Detectors /\ m \in Executors
  BY LookEffect DEF MissionIInv, ExecutorIInv
<1> HIDE DEF d, x
<1>3. x \in Executors /\ Kept(plan, e, x)
  BY <1>2, AlikeFacts, KeptFacts DEF OnlyLaps
<1>4. Kept(plan, x, m')
  BY <1>1, <1>3, SubEffect, KeptFacts
<1>5. Kept(plan, m, m')
  <2>1. Kept(plan, m, x)
    BY <1>2, <1>3, KeptFacts
  <2> QED BY <1>2, <1>4, <2>1, KeptFacts
<1>6. ExecutorIInv'
  BY <1>1, <1>5, KeptStep
<1> QED BY <1>1, <1>2, <1>6


\* AUTO is entered.
LEMMA EnterAutoKeeps ==
    ASSUME MissionIInv, EnterAuto PROVE MissionIInv'
<1>1. plan' = plan /\ meddled' = meddled /\ edits' = edits /\ InitAuto(m)
  BY DEF EnterAuto
<1>2. m \in Executors /\ Kept(plan, m, m)
  BY KeptFacts DEF MissionIInv, ExecutorIInv
<1>3. ExecutorIInv' /\ det' \in Detectors /\ auto' \in BOOLEAN /\ waiting' \in BOOLEAN
  BY <1>1, <1>2, InitAutoKeeps
<1> QED BY <1>1, <1>3 DEF MissionIInv, MissionFlagsOK

\* AUTO is left.
LEMMA ExitAutoKeeps ==
    ASSUME MissionIInv, ExitAuto PROVE MissionIInv'
<1>1. /\ auto' = FALSE /\ m' = StopMission(m)
      /\ plan' = plan /\ meddled' = meddled /\ edits' = edits /\ waiting' = waiting /\ det' = det
  BY DEF ExitAuto
<1>2. Quiet(plan, m, m') /\ m'.state # "RUNNING" /\ m \in Executors
  BY <1>1, StopEffect DEF MissionIInv, ExecutorIInv
<1>3. ExecutorIInv'
  BY <1>1, <1>2, KeptStep, KeptFacts
<1> QED BY <1>1, <1>3 DEF MissionIInv, MissionFlagsOK

\* An obstacle stops the mission.
LEMMA ObstacleStopKeeps ==
    ASSUME MissionIInv, ObstacleStop PROVE MissionIInv'
<1> DEFINE e == [m EXCEPT !.reason = TRUE]
<1>1. PICK left \in BOOLEAN : auto' = ~left /\ m' = IF left THEN StopMission(e) ELSE e
  BY DEF ObstacleStop
<1>2. /\ plan' = plan /\ meddled' = meddled /\ edits' = edits /\ waiting' = waiting /\ det' = det
      /\ m \in Executors
  BY DEF ObstacleStop, MissionIInv, ExecutorIInv
<1>3. SameLaps(m, e)
  BY <1>2 DEF SameLaps, KeepsLaps, Aimed, Executors
<1> HIDE DEF e
<1>4. e \in Executors /\ Kept(plan, m, e)
  BY <1>2, <1>3, KeptFacts DEF SameLaps, KeepsLaps
<1>5. Kept(plan, e, StopMission(e)) /\ StopMission(e).state # "RUNNING"
  BY <1>4, StopEffect, KeptFacts
<1>6. Kept(plan, m, StopMission(e))
  BY <1>2, <1>4, <1>5, KeptFacts
<1>7. Kept(plan, m, m') /\ (auto' \/ m'.state # "RUNNING") /\ auto' \in BOOLEAN
  BY <1>1, <1>4, <1>5, <1>6
<1>8. ExecutorIInv'
  BY <1>2, <1>7, KeptStep
<1> QED BY <1>2, <1>7, <1>8 DEF MissionIInv, MissionFlagsOK

\* The first run() after AUTO was entered starts or resumes the mission.
LEMMA RunStartKeeps ==
    ASSUME MissionIInv, RunStart PROVE MissionIInv'
<1>0. PICK located \in BOOLEAN :
          LET d == Look(plan, StartOrResume(plan, m, located), det) IN m' = d.m /\ det' = d.det
  BY DEF RunStart
<1> DEFINE e == StartOrResume(plan, m, located)
           d == Look(plan, e, det)
           x == d.m
<1>1. /\ m' = x /\ det' = d.det /\ auto /\ auto' = auto /\ waiting' = FALSE
      /\ plan' = plan /\ edits' = edits
      /\ meddled' = IF m'.resuming THEN meddled \cup {"rewind"} ELSE meddled
  BY <1>0 DEF RunStart
<1>2. Held(plan, m, e) /\ e \in Executors /\ m \in Executors
  BY StartOrResumeKeeps DEF MissionIInv, ExecutorIInv, Held
<1> HIDE DEF e
<1>3. OnlyLaps(plan, e, x) /\ d.det \in Detectors
  BY <1>2, LookEffect DEF MissionIInv
<1> HIDE DEF d, x
<1>4. Held(plan, m, x)
  <2>1. Kept(plan, e, x) /\ x.resuming = e.resuming
    <3>1. Alike(plan, e, x)
      BY <1>2, <1>3, AlikeFacts
    <3>2. Unmoved(e, x)
      BY <1>2, <1>3, UnmovedFacts
    <3>3. Kept(plan, e, x)
      BY <1>2, <3>1, AlikeFacts, KeptFacts
    <3> QED BY <3>2, <3>3 DEF Unmoved
  <2> QED BY <1>2, <2>1, KeptFacts
<1>5. /\ meddled \subseteq meddled' /\ (meddled \subseteq Meddling => meddled' \subseteq Meddling)
      /\ m'.resuming => "rewind" \in meddled'
  BY <1>1 DEF Meddling
<1>6. ExecutorIInv'
  BY <1>1, <1>4, <1>5, KeptStep
<1> QED BY <1>1, <1>3, <1>5, <1>6 DEF MissionIInv, MissionFlagsOK

\* A change the detector noted restarts the waypoint.
LEMMA NotedEffect ==
    ASSUME NEW e \in Executors, IsPlan(plan), NEW d, OnlyLaps(plan, e, d.m)
    PROVE  Quiet(plan, e, Noted(d))
<1> DEFINE x == d.m
<1>1. Noted(d) = RestartNav(plan, x) \/ Noted(d) = x
  BY DEF Noted
<1>2. OnlyLaps(plan, e, x)
  OBVIOUS
<1> HIDE DEF x
<1>3. x \in Executors /\ Quiet(plan, e, x)
  BY <1>2, AlikeFacts DEF OnlyLaps
<1>4. Quiet(plan, x, RestartNav(plan, x))
  BY <1>3, RestartNavEffect
<1> QED BY <1>1, <1>3, <1>4, AlikeFacts

\* run() with a mission that runs.
LEMMA RunUpdateKeeps ==
    ASSUME MissionIInv, NEW nv \in BOOLEAN, NEW dv \in BOOLEAN, RunUpdate(nv, dv)
    PROVE  MissionIInv'
<1> DEFINE d == Look(plan, m, det)
           x == Noted(d)
<1>1. /\ m' = Update(plan, x, nv, dv) /\ det' = d.det
      /\ plan' = plan /\ meddled' = meddled /\ edits' = edits /\ waiting' = waiting /\ auto' = auto
      /\ auto
  BY DEF RunUpdate, Ran
<1>2. m \in Executors /\ IsPlan(plan)
  BY DEF MissionIInv, ExecutorIInv
<1>3. OnlyLaps(plan, m, d.m) /\ d.det \in Detectors
  BY <1>2, LookEffect DEF MissionIInv
<1> HIDE DEF d
<1>4. x \in Executors /\ Quiet(plan, m, x)
  BY <1>2, <1>3, NotedEffect DEF Quiet
<1> HIDE DEF x
<1>5. Quiet(plan, x, m')
  BY <1>1, <1>2, <1>4, UpdateEffect
<1>6. Kept(plan, m, m')
  BY <1>2, <1>4, <1>5, AlikeFacts, KeptFacts
<1>7. ExecutorIInv'
  BY <1>1, <1>6, KeptStep
<1> QED BY <1>1, <1>3, <1>7 DEF MissionIInv, MissionFlagsOK

\* MAV_CMD_MISSION_START.
LEMMA MissionStartKeeps ==
    ASSUME MissionIInv, MissionStart PROVE MissionIInv'
<1> DEFINE d == Look(plan, m, det)
           x == d.m
           y == [x EXCEPT !.sub = "LOITER"]
           e == IF auto THEN m ELSE y
<1>0. PICK located \in BOOLEAN :
          m' = IF m.state = "RUNNING" THEN e ELSE StartOrResume(plan, e, located)
  BY DEF MissionStart
<1> DEFINE r == StartOrResume(plan, e, located)
<1>1. /\ m' = (IF m.state = "RUNNING" THEN e ELSE r) /\ auto' = TRUE
      /\ waiting' = (waiting \/ ~auto) /\ plan' = plan /\ edits' = edits
      /\ det' = det \/ det' = d.det
      /\ meddled' = IF m'.resuming THEN meddled \cup {"rewind"} ELSE meddled
  BY <1>0 DEF MissionStart
<1>2. m \in Executors /\ IsPlan(plan) /\ Aimed(m)
  BY DEF MissionIInv, ExecutorIInv
<1>3. OnlyLaps(plan, m, x) /\ d.det \in Detectors
  BY <1>2, LookEffect DEF MissionIInv
<1> HIDE DEF d, x
<1>4. SameLaps(x, y) /\ x \in Executors
  BY <1>3, SubEffect DEF OnlyLaps
<1> HIDE DEF y
<1>5. Kept(plan, m, y)
  <2>1. Kept(plan, m, x)
    BY <1>2, <1>3, AlikeFacts, KeptFacts
  <2> QED BY <1>2, <1>4, <2>1, KeptFacts
<1>6. Kept(plan, m, e)
  BY <1>2, <1>5, KeptFacts
<1> HIDE DEF e
<1>7. Held(plan, m, r)
  <2>1. e \in Executors /\ Aimed(e)
    BY <1>2, <1>6 DEF Kept
  <2>2. Held(plan, e, r)
    BY <1>2, <2>1, StartOrResumeKeeps
  <2> QED BY <1>2, <1>6, <2>2, KeptFacts
<1> HIDE DEF r
<1>8. /\ meddled \subseteq meddled' /\ (meddled \subseteq Meddling => meddled' \subseteq Meddling)
      /\ m'.resuming => "rewind" \in meddled'
  BY <1>1 DEF Meddling
<1>9. ExecutorIInv'
  BY <1>1, <1>6, <1>7, <1>8, KeptStep
<1>10. waiting \in BOOLEAN /\ auto \in BOOLEAN
  BY DEF MissionIInv, MissionFlagsOK
<1>11. waiting' \in BOOLEAN
  BY <1>1, <1>10
<1> QED BY <1>1, <1>3, <1>8, <1>9, <1>11 DEF MissionIInv, MissionFlagsOK


\* What a ground station or a disarm leaves of the flags.
LEMMA TouchEffect ==
    ASSUME MissionIInv, NEW what \in Meddling, Touch(what)
    PROVE  /\ meddled \subseteq meddled' /\ what \in meddled'
           /\ meddled' \subseteq Meddling /\ edits' \in 0..MaxEdits
<1>1. MaxEdits \in Nat
  BY AutoMissionAssumption
<1> QED BY <1>1 DEF MissionIInv, MissionFlagsOK, Touch

\* A command of a ground station that does not make the mission run.
LEMMA QuietStep ==
    ASSUME MissionIInv, plan' = plan, auto' = auto, meddled \subseteq meddled',
           Quiet(plan, m, m')
    PROVE  ExecutorIInv'
<1>1. m \in Executors
  BY DEF MissionIInv, ExecutorIInv
<1>2. Kept(plan, m, m')
  BY <1>1, KeptFacts
<1>3. auto' \/ (m'.state = "RUNNING" => m.state = "RUNNING" /\ ~auto)
  BY DEF Quiet
<1> QED BY <1>2, <1>3, KeptStep

\* MISSION_SET_CURRENT keeps the invariant.
LEMMA SetCurrentItemKeeps ==
    ASSUME MissionIInv, NEW i \in 0..MaxPlan, SetCurrentItem(i) PROVE MissionIInv'
<1>1. /\ m' = SetCurrent(plan, m, i) /\ Touch("jump")
      /\ plan' = plan /\ auto' = auto /\ waiting' = waiting /\ det' = det
  BY DEF SetCurrentItem
<1>2. m \in Executors /\ IsPlan(plan) /\ i \in Nat
  BY Numbers DEF MissionIInv, ExecutorIInv
<1>3. Quiet(plan, m, m')
  BY <1>1, <1>2, SetCurrentEffect
<1>4. meddled \subseteq meddled' /\ meddled' \subseteq Meddling /\ edits' \in 0..MaxEdits
  BY <1>1, TouchEffect DEF Meddling
<1>5. ExecutorIInv'
  BY <1>1, <1>3, <1>4, QuietStep
<1> QED BY <1>1, <1>4, <1>5 DEF MissionIInv, MissionFlagsOK

\* jump_to_landing_sequence() up to the request for AUTO.
LEMMA LandingEffect ==
    ASSUME MissionIInv, NEW i \in 0..MaxPlan, NEW force \in BOOLEAN
    PROVE  /\ Quiet(plan, m, SetCurrent(plan, m, i))
           /\ [Landing(i) EXCEPT !.force = force] \in Executors
           /\ Kept(plan, m, [Landing(i) EXCEPT !.force = force])
<1> DEFINE s == SetCurrent(plan, m, i)
           r == Resume(plan, s, FALSE)
           x == Landing(i)
           y == [x EXCEPT !.force = force]
<1>1. m \in Executors /\ IsPlan(plan) /\ Aimed(m) /\ i \in Nat
  BY Numbers DEF MissionIInv, ExecutorIInv
<1>2. Quiet(plan, m, s) /\ (s.state = "STOPPED" => Forgotten(s))
  BY <1>1, SetCurrentEffect
<1>3. x = s \/ (s.state = "STOPPED" /\ x = r)
  BY DEF Landing
<1> HIDE DEF s, x
<1>4. s \in Executors /\ Aimed(s) /\ Kept(plan, m, s)
  BY <1>1, <1>2, KeptFacts DEF Quiet
<1>5. s.state = "STOPPED" => Kept(plan, s, r)
  <2>1. s.state = "STOPPED" => s.hist.passed = None
    BY <1>2 DEF Forgotten, NoHist
  <2> QED BY <1>1, <1>4, <2>1, ResumeKeeps
<1>6. Kept(plan, m, x)
  BY <1>1, <1>3, <1>4, <1>5, KeptFacts
<1>7. x \in Executors
  BY <1>6 DEF Kept
<1>8. SameLaps(x, y)
  BY <1>7, ForceEffect
<1> HIDE DEF y
<1>9. y \in Executors /\ Kept(plan, m, y)
  BY <1>1, <1>6, <1>7, <1>8, KeptFacts DEF SameLaps, KeepsLaps
<1> QED BY <1>2, <1>9 DEF s, y, x

\* A landing sequence keeps the invariant, AUTO entered, refused or on.
LEMMA JumpToLandingKeeps ==
    ASSUME MissionIInv, NEW i \in 0..MaxPlan, JumpToLanding(i) PROVE MissionIInv'
<1> DEFINE s == SetCurrent(plan, m, i)
           y == [Landing(i) EXCEPT !.force = TRUE]
           z == [Landing(i) EXCEPT !.force = FALSE]
<1>1. Quiet(plan, m, s) /\ y \in Executors /\ Kept(plan, m, y) /\ Kept(plan, m, z)
  BY LandingEffect
<1>2. plan' = plan
  BY DEF JumpToLanding
<1>3. \/ m' = s /\ Touch("jump") /\ auto' = auto /\ waiting' = waiting /\ det' = det
      \/ auto /\ m' = y /\ Touch("jump") /\ auto' = auto /\ waiting' = waiting /\ det' = det
      \/ ~auto /\ InitAuto(y) /\ Touch("jump")
      \/ m' = z /\ Touch("refused") /\ auto' = auto /\ waiting' = waiting /\ det' = det
  BY DEF JumpToLanding
<1> HIDE DEF s, y, z
<1>4. /\ meddled \subseteq meddled' /\ meddled' \subseteq Meddling /\ edits' \in 0..MaxEdits
      /\ Touch("refused") => "refused" \in meddled'
  BY <1>3, TouchEffect DEF Meddling
<1>5. CASE m' = s /\ auto' = auto /\ waiting' = waiting /\ det' = det
  <2>1. ExecutorIInv'
    BY <1>1, <1>2, <1>4, <1>5, QuietStep
  <2> QED BY <1>2, <1>4, <1>5, <2>1 DEF MissionIInv, MissionFlagsOK
<1>6. CASE auto /\ m' = y /\ auto' = auto /\ waiting' = waiting /\ det' = det
  <2>1. ExecutorIInv'
    BY <1>1, <1>2, <1>4, <1>6, KeptStep
  <2> QED BY <1>2, <1>4, <1>6, <2>1 DEF MissionIInv, MissionFlagsOK
<1>7. CASE InitAuto(y)
  <2>1. ExecutorIInv' /\ det' \in Detectors /\ auto' \in BOOLEAN /\ waiting' \in BOOLEAN
    BY <1>1, <1>2, <1>4, <1>7, InitAutoKeeps
  <2> QED BY <1>2, <1>4, <2>1 DEF MissionIInv, MissionFlagsOK
<1>8. CASE m' = z /\ Touch("refused") /\ auto' = auto /\ waiting' = waiting /\ det' = det
  <2>1. ExecutorIInv'
    BY <1>1, <1>2, <1>4, <1>8, KeptStep
  <2> QED BY <1>2, <1>4, <1>8, <2>1 DEF MissionIInv, MissionFlagsOK
<1> QED BY <1>3, <1>5, <1>6, <1>7, <1>8

\* A disarm keeps the invariant.
LEMMA DisarmKeeps ==
    ASSUME MissionIInv, Disarm PROVE MissionIInv'
<1>1. /\ m' = Reset(m) /\ Touch("disarm")
      /\ plan' = plan /\ auto' = auto /\ waiting' = waiting /\ det' = det
  BY DEF Disarm
<1>2. m \in Executors
  BY DEF MissionIInv, ExecutorIInv
<1>3. Quiet(plan, m, m')
  BY <1>1, <1>2, ResetEffect DEF Quiet
<1>4. meddled \subseteq meddled' /\ meddled' \subseteq Meddling /\ edits' \in 0..MaxEdits
  BY <1>1, TouchEffect DEF Meddling
<1>5. ExecutorIInv'
  BY <1>1, <1>3, <1>4, QuietStep
<1> QED BY <1>1, <1>4, <1>5 DEF MissionIInv, MissionFlagsOK

\* A write of a ground station, with a mission that is one, keeps the invariant.
LEMMA EditStep ==
    ASSUME MissionIInv, Touch("edit"), IsPlan(plan'), m' \in Executors, Aimed(m'),
           m'.state = m.state, auto' = auto, waiting' = waiting,
           \E changed \in BOOLEAN : det' = [det EXCEPT !.changed = changed]
    PROVE  MissionIInv'
<1>1. /\ meddled \subseteq meddled' /\ "edit" \in meddled'
      /\ meddled' \subseteq Meddling /\ edits' \in 0..MaxEdits
  BY TouchEffect DEF Meddling
<1>2. RunsOnlyInAuto'
  BY <1>1 DEF MissionIInv, ExecutorIInv, RunsOnlyInAuto
<1>3. Aimed(m)' /\ IsPlan(plan)'
  BY DEF Aimed, IsPlan
<1>4. ExecutorIInv'
  BY <1>1, <1>2, <1>3 DEF ExecutorIInv
<1>5. det' \in Detectors
  BY DEF MissionIInv, Detectors
<1> QED BY <1>1, <1>3, <1>4, <1>5 DEF MissionIInv, MissionFlagsOK

\* The detector may note the time of a change.
LEMMA StampedEffect ==
    ASSUME det \in Detectors, Stamped
    PROVE  \E changed \in BOOLEAN : det' = [det EXCEPT !.changed = changed]
<1>1. PICK missed \in {FALSE, "edit" \in meddled} :
          det' = [det EXCEPT !.changed = @ \/ ~missed]
  BY DEF Stamped
<1>2. det.changed \in BOOLEAN
  BY DEF Detectors
<1>3. (det.changed \/ ~missed) \in BOOLEAN
  BY <1>2
<1> QED BY <1>1, <1>3

\* What a write that changes the mission only needs.
LEMMA PlanStep ==
    ASSUME MissionIInv, IsPlan(plan'), Stamped, Touch("edit"), UNCHANGED <<m, auto, waiting>>
    PROVE  MissionIInv'
<1>1. /\ m' = m /\ auto' = auto /\ waiting' = waiting
      /\ \E changed \in BOOLEAN : det' = [det EXCEPT !.changed = changed]
  BY StampedEffect DEF MissionIInv
<1>2. m' \in Executors /\ Aimed(m') /\ m'.state = m.state
  BY <1>1 DEF MissionIInv, ExecutorIInv
<1> QED BY <1>1, <1>2, EditStep

\* truncate() keeps the invariant.
LEMMA TruncateKeeps ==
    ASSUME MissionIInv, NEW n \in 0..MaxPlan, Truncate(n) PROVE MissionIInv'
<1>1. /\ n < Len(plan) /\ plan' = SubSeq(plan, 1, n)
      /\ Stamped /\ Touch("edit") /\ UNCHANGED <<m, auto, waiting>>
  BY DEF Truncate, Total
<1>2. plan \in Seq(Commands) /\ Len(plan) <= MaxPlan
  BY DEF MissionIInv, IsPlan
<1>3. n \in Nat /\ \A i \in 1..n : plan[i] \in Commands
  BY <1>1, <1>2, Numbers
<1>4. SubSeq(plan, 1, n) \in Seq(Commands) /\ Len(SubSeq(plan, 1, n)) = n
  BY <1>1, <1>2, <1>3, SubSeqProperties
<1>5. IsPlan(plan')
  BY <1>1, <1>2, <1>4, Numbers DEF IsPlan
<1> QED BY <1>1, <1>5, PlanStep

\* replace_cmd() keeps the invariant.
LEMMA ReplaceCmdKeeps ==
    ASSUME MissionIInv, NEW c \in Edits, NEW i \in 1..MaxPlan, ReplaceCmd(i, c)
    PROVE  MissionIInv'
<1>1. /\ i < Len(plan) /\ plan' = [plan EXCEPT ![i + 1] = c]
      /\ Stamped /\ Touch("edit") /\ UNCHANGED <<m, auto, waiting>>
  BY DEF ReplaceCmd, Total
<1>2. plan \in Seq(Commands) /\ Len(plan) <= MaxPlan /\ c \in Commands
  BY DEF MissionIInv, IsPlan, Commands
<1>3. plan' \in Seq(Commands) /\ Len(plan') = Len(plan)
  BY <1>1, <1>2
<1>4. IsPlan(plan')
  BY <1>2, <1>3 DEF IsPlan
<1> QED BY <1>1, <1>4, PlanStep

\* add_cmd() keeps the invariant.
LEMMA AddCmdKeeps ==
    ASSUME MissionIInv, NEW c \in Edits, AddCmd(c) PROVE MissionIInv'
<1> DEFINE a == IF plan = <<>> THEN Home ELSE c
<1>1. /\ Len(plan) < MaxPlan /\ plan' = Append(plan, a)
      /\ Stamped /\ Touch("edit") /\ UNCHANGED <<m, auto, waiting>>
  BY DEF AddCmd, Total
<1>2. plan \in Seq(Commands) /\ a \in Commands
  BY DEF MissionIInv, IsPlan, Commands
<1> HIDE DEF a
<1>3. plan' \in Seq(Commands) /\ Len(plan') = Len(plan) + 1
  BY <1>1, <1>2
<1>4. IsPlan(plan')
  BY <1>1, <1>2, <1>3, Numbers DEF IsPlan
<1> QED BY <1>1, <1>4, PlanStep

\* clear() keeps the invariant.
LEMMA ClearKeeps ==
    ASSUME MissionIInv, Clear PROVE MissionIInv'
<1> DEFINE nav == [m.nav EXCEPT !.index = None]
           doc == [m.doc EXCEPT !.index = None]
<1>1. /\ m' = [m EXCEPT !.nav = nav, !.doc = doc, !.navLoaded = FALSE, !.doLoaded = FALSE]
      /\ plan' = <<>> /\ auto' = auto /\ waiting' = waiting /\ Touch("edit")
      /\ Stamped \/ det' = det
  BY DEF Clear
<1>2. m \in Executors /\ det \in Detectors
  BY DEF MissionIInv, ExecutorIInv
<1>3. nav \in Loaded /\ doc \in Loaded
  BY <1>2, Smallest DEF Executors
<1> HIDE DEF nav, doc
<1>4. m' \in Executors /\ Aimed(m') /\ m'.state = m.state
  BY <1>1, <1>2, <1>3 DEF Executors, Aimed
<1>5. det.changed \in BOOLEAN /\ det = [det EXCEPT !.changed = det.changed]
  BY <1>2 DEF Detectors
<1>6. \E changed \in BOOLEAN : det' = [det EXCEPT !.changed = changed]
  BY <1>1, <1>2, <1>5, StampedEffect
<1>7. IsPlan(plan')
  BY <1>1, Numbers DEF IsPlan
<1> QED BY <1>1, <1>4, <1>6, <1>7, EditStep


\* A vehicle that has booted satisfies the invariant.
LEMMA MissionStarts ==
    ASSUME MissionInit PROVE MissionIInv
<1>1. PICK q \in BootPlans : plan = <<Home>> \o q
  BY DEF MissionInit
<1>2. q \in Seq(Commands) /\ Len(q) < MaxPlan
  BY AutoMissionAssumption
<1>3. <<Home>> \in Seq(Commands) /\ Len(<<Home>>) = 1
  BY DEF Commands
<1>4. plan \in Seq(Commands) /\ Len(plan) = 1 + Len(q)
  BY <1>1, <1>2, <1>3
<1>5. IsPlan(plan)
  BY <1>2, <1>4, Numbers DEF IsPlan
<1>6. Booted \in Executors /\ ~Booted.navLoaded /\ Booted.state = "STOPPED"
  BY Smallest DEF Booted, Executors
<1>7. \A p : LapsFit(p, Booted)
  BY LapsFacts DEF Booted
<1>8. m = Booted /\ auto = FALSE /\ waiting = FALSE /\ meddled = {} /\ edits = 0
      /\ det = [changed |-> TRUE, idx |-> 0, cmds |-> <<>>]
  BY DEF MissionInit
<1>9. ExecutorIInv
  BY <1>6, <1>7, <1>8 DEF ExecutorIInv, Aimed, RunsOnlyInAuto
<1>10. det \in Detectors
  BY <1>8, Numbers DEF Detectors
<1>11. MissionFlagsOK
  <2>1. auto \in BOOLEAN /\ waiting \in BOOLEAN
    BY <1>8
  <2>2. edits \in 0..MaxEdits
    BY <1>8, Numbers
  <2>3. meddled \subseteq Meddling
    BY <1>8
  <2> QED BY <2>1, <2>2, <2>3 DEF MissionFlagsOK
<1> QED BY <1>5, <1>9, <1>10, <1>11 DEF MissionIInv

\* Nothing in the invariant is about anything else.
LEMMA MissionStutters ==
    ASSUME MissionIInv, UNCHANGED missionVars PROVE MissionIInv'
BY DEF MissionIInv, missionVars, IsPlan, Detectors, MissionFlagsOK, ExecutorIInv, Aimed, LapsFit,
       RunsOnlyInAuto

\* Every action of the flight keeps the invariant.
LEMMA MissionStepKeeps ==
    ASSUME MissionIInv, MissionNext PROVE MissionIInv'
<1>1. CASE EnterAuto
  BY <1>1, EnterAutoKeeps
<1>2. CASE ExitAuto
  BY <1>2, ExitAutoKeeps
<1>3. CASE ObstacleStop
  BY <1>3, ObstacleStopKeeps
<1>4. CASE RunAuto
  BY <1>4, RunStartKeeps, RunUpdateKeeps DEF RunAuto
<1>5. CASE MissionStart
  BY <1>5, MissionStartKeeps
<1>6. ASSUME NEW i \in 0..MaxPlan, SetCurrentItem(i) PROVE MissionIInv'
  BY <1>6, SetCurrentItemKeeps
<1>7. ASSUME NEW i \in 0..MaxPlan, JumpToLanding(i) PROVE MissionIInv'
  BY <1>7, JumpToLandingKeeps
<1>8. CASE Disarm
  BY <1>8, DisarmKeeps
<1>9. CASE Clear
  BY <1>9, ClearKeeps
<1>10. ASSUME NEW n \in 0..MaxPlan, Truncate(n) PROVE MissionIInv'
  BY <1>10, TruncateKeeps
<1>11. ASSUME NEW c \in Edits, AddCmd(c) PROVE MissionIInv'
  BY <1>11, AddCmdKeeps
<1>12. ASSUME NEW c \in Edits, NEW i \in 1..MaxPlan, ReplaceCmd(i, c) PROVE MissionIInv'
  BY <1>12, ReplaceCmdKeeps
<1> QED
  BY <1>1, <1>2, <1>3, <1>4, <1>5, <1>6, <1>7, <1>8, <1>9, <1>10, <1>11, <1>12 DEF MissionNext


-----------------------------------------------------------------------------
(* Rewinding in a mission without a JUMP.                                  *)

Plain(p) == \A i \in DOMAIN p : p[i].id # "JUMP"

\* What get_next_cmd() finds without a JUMP is the command it starts at.
LEMMA PlainSearch ==
    ASSUME NEW p, IsPlan(p), Plain(p), NEW e \in Executors, NEW i \in Nat, NEW inc \in BOOLEAN
    PROVE  LET f == NextCmd(p, e, i, inc)
           IN  f.m = e /\ f.cmd = IF i >= Total(p) THEN NoCmd ELSE Read(p, i)
<1> DEFINE c == IF i >= Total(p) THEN NoCmd ELSE Read(p, i)
           first == Search(e, i)
           second == Ended(first, c)
           S == {first, second}
<1>1. i < Total(p) => Read(p, i).id # "JUMP"
  <2>1. i < Total(p) => i \in 0..(Total(p) - 1) /\ i + 1 \in DOMAIN p
    BY DEF IsPlan, Total
  <2> QED BY <2>1, ReadType DEF Plain
<1>2. SearchRound(p, first, inc) = second
  <2>1. Total(p) \in Nat
    BY DEF Total, IsPlan
  <2>2. first.at = i /\ first.over = FALSE
    BY DEF Search
  <2> HIDE DEF first
  <2> QED BY <1>1, <2>1, <2>2 DEF SearchRound
<1>3. SearchRound(p, second, inc) = second
  BY DEF SearchRound, Ended
<1>4. first.over = FALSE /\ second.over = TRUE /\ second.m = e /\ second.cmd = c
  BY DEF Search, Ended
<1>5. PICK s \in S : /\ NextCmd(p, e, i, inc) = [m |-> s.m, cmd |-> s.cmd]
                     /\ s.over \/ \E r \in S : s = SearchRound(p, r, inc)
  <2>1. first \in S /\ \A s \in S : SearchRound(p, s, inc) \in S
    BY <1>2, <1>3
  <2> HIDE DEF S, first
  <2>2. Search(e, i) \in S
    BY <2>1 DEF first
  <2> QED BY <2>1, <2>2, SearchLoop
<1>6. s = second
  <2> HIDE DEF first, second
  <2> QED BY <1>2, <1>3, <1>4, <1>5
<1> HIDE DEF first, second, c
<1>7. NextCmd(p, e, i, inc) = [m |-> e, cmd |-> c]
  BY <1>4, <1>5, <1>6
<1> QED BY <1>7 DEF c

\* The waypoints recorded are waypoints of the mission, the older one first;
\* a vehicle that resumes is on its way from the older, or one passed earlier
\* if it has had no position since, to the newer.
RewindInv(p, e) ==
    /\ e.hist.passed = None \/ e.hist.passed < e.hist.last
    /\ e.hist.last # None => e.hist.last \in 1..(Total(p) - 1) /\ p[e.hist.last + 1].id = "WP"
    /\ ~e.resuming => e.hist.last <= e.nav.index
    /\ e.resumeCmd.index <= e.hist.passed
    /\ e.resuming => /\ e.hist.passed # None /\ e.nav.index < e.hist.last
                     /\ e.state # "COMPLETE"

\* It leaves the order as it is.
LEMMA UnmovedKeeps ==
    ASSUME NEW p, NEW e, NEW x, Unmoved(e, x)
    PROVE  /\ RewindInv(p, e) => RewindInv(p, x)
           /\ Aimed(e) => Aimed(x)
           /\ \A y : Unmoved(x, y) => Unmoved(e, y)
BY DEF Unmoved, RewindInv, Aimed

\* start_command() of a navigation command, and what is recorded of it.
LEMMA LoadNavRecords ==
    ASSUME NEW e \in Executors, NEW c \in Loaded
    PROVE  LET x == LoadNav(e, c)
               h == IF e.reason \/ e.resuming \/ c.id # "WP" THEN e.hist
                    ELSE [passed |-> e.hist.last, last |-> c.index]
           IN  /\ x.hist = h /\ x.nav = c /\ x.navLoaded = TRUE
               /\ x.resuming = (e.resuming /\ c.index # h.last)
               /\ x.resumeCmd = e.resumeCmd /\ x.state = e.state
<1> DEFINE s == Started(e, c)
           t == [s EXCEPT !.nav = c, !.navLoaded = TRUE]
           r == RecordLoaded(t)
           h == IF e.reason \/ e.resuming \/ c.id # "WP" THEN e.hist
                ELSE [passed |-> e.hist.last, last |-> c.index]
           x == LoadNav(e, c)
<1>1. s = e \/ s = [e EXCEPT !.sub = "WP"]
  BY DEF Started, Executors
<1>2. /\ s \in Executors /\ s.hist = e.hist /\ s.resuming = e.resuming /\ s.reason = e.reason
      /\ s.resumeCmd = e.resumeCmd /\ s.state = e.state
  <2> HIDE DEF s
  <2> QED BY <1>1 DEF Executors
<1>3. /\ t \in Executors /\ t.hist = e.hist /\ t.resuming = e.resuming /\ t.reason = e.reason
      /\ t.resumeCmd = e.resumeCmd /\ t.state = e.state /\ t.nav = c /\ t.navLoaded = TRUE
  <2> HIDE DEF s
  <2> QED BY <1>2 DEF Executors
<1>4. r = IF t.reason THEN [t EXCEPT !.reason = FALSE]
          ELSE IF t.resuming \/ t.nav.id # "WP" THEN t
          ELSE [t EXCEPT !.hist = [passed |-> t.hist.last, last |-> t.nav.index]]
  BY <1>3 DEF RecordLoaded, HasPlace, Executors
<1>5. /\ r.hist = h /\ r.resuming = e.resuming
      /\ r.resumeCmd = e.resumeCmd /\ r.state = e.state /\ r.nav = c /\ r.navLoaded = TRUE
  <2> HIDE DEF t, r
  <2> QED BY <1>3, <1>4 DEF Executors
<1>6. r \in Executors
  <2> HIDE DEF t
  <2> QED BY <1>3, RecordLoadedSame DEF SameLaps, KeepsLaps
<1>7. x = [r EXCEPT !.resuming = r.resuming /\ c.index # r.hist.last]
  BY DEF LoadNav
<1>8. /\ x.hist = h /\ x.nav = c /\ x.navLoaded = TRUE
      /\ x.resuming = (e.resuming /\ c.index # h.last)
      /\ x.resumeCmd = e.resumeCmd /\ x.state = e.state
  <2> HIDE DEF r, x, h
  <2> QED BY <1>5, <1>6, <1>7 DEF Executors
<1> QED BY <1>8


\* What the search for the next waypoint may do to the history: nothing, or
\* record one waypoint and resume no more.
Records(e, x) ==
    /\ x.hist = e.hist \/ x.hist.passed = e.hist.last
    /\ x.resuming => e.resuming /\ x.hist = e.hist

\* The executors the search passes through that started with e at command i:
\* it goes on, it has found a navigation command, or there is none.
Seeking(e, i, s) ==
    /\ s.ok /\ ~s.m.navLoaded /\ Unmoved(e, s.m)
    /\ s.at >= i /\ s.left = SeekLoops + i - s.at
    /\ e.resuming => s.at <= e.hist.last
Found(p, e, s) ==
    /\ s.ok /\ s.m.navLoaded /\ RewindInv(p, s.m) /\ Records(e, s.m)
    /\ s.m.resuming => s.left > 0
Lost(e, s) == ~s.ok /\ ~e.resuming /\ Unmoved(e, s.m)

SoughtFrom(p, e, i) ==
    {s \in [m : Executors, at : Nat, left : Int, ok : BOOLEAN] :
        Seeking(e, i, s) \/ Found(p, e, s) \/ Lost(e, s)}

\* Where the search may start.
Ready(p, e, i) ==
    /\ RewindInv(p, e) /\ ~e.navLoaded /\ i \in Nat \ {0}
    /\ ~e.resuming => e.hist.last < i
    /\ e.resuming => i <= e.hist.last

\* The numbers an executor's history has.
LEMMA HistoryType ==
    ASSUME NEW e \in Executors
    PROVE  /\ e.hist.passed \in -1..MaxPlan /\ e.hist.last \in -1..MaxPlan
           /\ e.nav.index \in -1..MaxPlan /\ e.resuming \in BOOLEAN
           /\ e.resumeCmd.index \in -1..MaxPlan
           /\ e.hist = [passed |-> e.hist.passed, last |-> e.hist.last]
BY DEF Executors, History, Loaded

\* The navigation command found at i is flown in the order of the mission.
LEMMA LoadNavOrder ==
    ASSUME MaxPlan < SeekLoops, NEW p, IsPlan(p), NEW e \in Executors, NEW i, Ready(p, e, i),
           NEW s \in [m : Executors, at : Nat, left : Int, ok : BOOLEAN], Seeking(e, i, s),
           s.at < Total(p), IsNav(Read(p, s.at))
    PROVE  Found(p, e, [m |-> LoadNav(s.m, Read(p, s.at)), at |-> Read(p, s.at).index + 1,
                        left |-> s.left - 1, ok |-> TRUE])
<1> DEFINE c == Read(p, s.at)
           x == LoadNav(s.m, c)
           n == s.at
           h == IF s.m.reason \/ s.m.resuming \/ c.id # "WP" THEN s.m.hist
                ELSE [passed |-> s.m.hist.last, last |-> c.index]
<1>1. /\ Unmoved(e, s.m) /\ n >= i /\ s.left = SeekLoops + i - n
      /\ e.resuming => n <= e.hist.last
  BY DEF Seeking
<1>2. /\ RewindInv(p, e) /\ i \in Nat \ {0} /\ (~e.resuming => e.hist.last < i)
  BY DEF Ready
<1>3. Total(p) \in Nat /\ Total(p) <= MaxPlan /\ MaxPlan \in Nat /\ SeekLoops \in Nat /\ n \in Nat
  BY Numbers DEF Total, IsPlan
<1>4. c \in Loaded /\ c.index = n /\ c.id = p[n + 1].id /\ n \in 1..(Total(p) - 1)
  <2>1. n \in 0..(Total(p) - 1) /\ n # 0
    BY <1>1, <1>2, <1>3
  <2> QED BY <2>1, ReadType
<1>5. /\ e.hist.passed \in -1..MaxPlan /\ e.hist.last \in -1..MaxPlan /\ e.resuming \in BOOLEAN
      /\ e.resumeCmd.index \in -1..MaxPlan
  BY HistoryType
<1> HIDE DEF c
<1>6. /\ x.hist = h /\ x.nav = c /\ x.navLoaded = TRUE
      /\ x.resuming = (s.m.resuming /\ c.index # h.last)
      /\ x.resumeCmd = s.m.resumeCmd /\ x.state = s.m.state
  BY <1>4, LoadNavRecords
<1>7. /\ s.m.hist = e.hist /\ s.m.resuming = e.resuming /\ s.m.resumeCmd = e.resumeCmd
      /\ s.m.state = e.state
  BY <1>1 DEF Unmoved
<1> HIDE DEF x
<1>8. CASE e.resuming
  <2>1. x.hist = e.hist /\ x.nav.index = n /\ x.resuming = (n # e.hist.last)
        /\ x.resumeCmd = e.resumeCmd /\ x.state = e.state
    BY <1>4, <1>6, <1>7, <1>8
  <2>2. RewindInv(p, x)
    <3>1. /\ e.hist.passed < e.hist.last /\ e.hist.passed # None
          /\ e.resumeCmd.index <= e.hist.passed
          /\ e.state # "COMPLETE"
          /\ e.hist.last # None =>
                 e.hist.last \in 1..(Total(p) - 1) /\ p[e.hist.last + 1].id = "WP"
      BY <1>2, <1>8 DEF RewindInv
    <3>2. n <= e.hist.last
      BY <1>1, <1>8
    <3> HIDE DEF n
    <3>3. x.resuming => n < e.hist.last
      <4>1. x.resuming => n # e.hist.last
        BY <2>1
      <4> QED BY <1>3, <1>5, <3>2, <4>1
    <3>4. ~x.resuming => e.hist.last <= n
      <4>1. ~x.resuming => n = e.hist.last
        BY <2>1
      <4> QED BY <1>3, <1>5, <4>1
    <3> QED BY <2>1, <3>1, <3>3, <3>4 DEF RewindInv
  <2>3. x.resuming => s.left - 1 > 0
    BY <1>1, <1>2, <1>3, <1>5, <1>8, <2>1
  <2> QED BY <1>6, <1>8, <2>1, <2>2, <2>3 DEF Found, Records, c, x
<1>9. CASE ~e.resuming /\ (s.m.reason \/ c.id # "WP")
  <2>1. /\ x.hist = e.hist /\ x.nav.index = n /\ x.resuming = FALSE
        /\ x.resumeCmd = e.resumeCmd
    BY <1>4, <1>6, <1>7, <1>9
  <2>2. RewindInv(p, x)
    BY <1>1, <1>2, <1>3, <1>5, <1>9, <2>1 DEF RewindInv
  <2> QED BY <1>6, <2>1, <2>2 DEF Found, Records, c, x
<1>10. CASE ~e.resuming /\ ~(s.m.reason \/ c.id # "WP")
  <2>1. /\ x.hist.passed = e.hist.last /\ x.hist.last = n
        /\ x.nav.index = n /\ x.resuming = FALSE /\ x.resumeCmd = e.resumeCmd
    <3>1. h = [passed |-> e.hist.last, last |-> n] /\ s.m.resuming = FALSE
      BY <1>4, <1>5, <1>7, <1>10
    <3> HIDE DEF h, n
    <3>2. x.hist = [passed |-> e.hist.last, last |-> n] /\ x.nav.index = n
      BY <1>4, <1>6, <3>1
    <3>3. x.resuming = FALSE /\ x.resumeCmd = e.resumeCmd
      BY <1>6, <1>7, <3>1
    <3> QED BY <3>2, <3>3
  <2>2. p[n + 1].id = "WP"
    BY <1>4, <1>10
  <2>3. e.resumeCmd.index <= e.hist.last
    BY <1>2, <1>5, Numbers DEF RewindInv, None
  <2>4. RewindInv(p, x)
    BY <1>1, <1>2, <1>3, <1>4, <1>5, <1>10, <2>1, <2>2, <2>3 DEF RewindInv
  <2> QED BY <1>6, <2>1, <2>4 DEF Found, Records, c, x
<1> QED BY <1>8, <1>9, <1>10

\* Every round of advance_current_nav_cmd()'s loop keeps the order.
LEMMA SeekRoundOrder ==
    ASSUME MaxPlan < SeekLoops, NEW p, IsPlan(p), Plain(p),
           NEW e \in Executors, NEW i, Ready(p, e, i), NEW s \in SoughtFrom(p, e, i)
    PROVE  SeekRound(p, s) \in SoughtFrom(p, e, i)
<1> DEFINE All == [m : Executors, at : Nat, left : Int, ok : BOOLEAN]
           n == s.at
           c == Read(p, n)
           r == SeekRound(p, s)
<1>1. s \in All /\ s.m \in Executors /\ n \in Nat
  BY DEF SoughtFrom
<1>2. r \in All
  <2>1. RewindInv(p, e) /\ Alike(p, s.m, s.m)
    BY <1>1, AlikeFacts DEF Ready
  <2> HIDE DEF r
  <2> QED BY <1>1, <2>1, SeekRoundKeeps DEF r
<1>3. CASE Sought(s)
  BY <1>3 DEF SeekRound, SeekTakes
<1>4. SUFFICES ASSUME ~Sought(s) PROVE Seeking(e, i, r) \/ Found(p, e, r) \/ Lost(e, r)
  <2> HIDE DEF r
  <2> QED BY <1>2, <1>3 DEF SoughtFrom, r
<1>5. Seeking(e, i, s)
  BY <1>4 DEF SoughtFrom, Sought, Found, Lost
<1>6. Total(p) \in Nat /\ SeekLoops \in Nat /\ i \in Nat \ {0}
  BY Numbers DEF Total, IsPlan, Ready
<1>7. LET f == NextCmd(p, s.m, n, TRUE)
      IN  f.m = s.m /\ f.cmd = IF n >= Total(p) THEN NoCmd ELSE c
  BY <1>1, PlainSearch
<1>8. CASE n >= Total(p)
  <2>1. r = [m |-> s.m, at |-> n, left |-> s.left - 1, ok |-> FALSE]
    BY <1>4, <1>7, <1>8 DEF SeekRound, SeekTakes
  <2>2. ~e.resuming
    BY <1>1, <1>5, <1>6, <1>8, HistoryType DEF Seeking, Ready, RewindInv, None
  <2> HIDE DEF r
  <2> QED BY <1>5, <2>1, <2>2 DEF Lost, Seeking
<1>9. CASE n < Total(p)
  <2>1. /\ c \in Loaded /\ c.index = n /\ n \in 1..(Total(p) - 1) /\ c.id = p[n + 1].id
    <3>1. n \in 0..(Total(p) - 1) /\ n # 0
      BY <1>1, <1>5, <1>6, <1>9 DEF Seeking
    <3> QED BY <3>1, ReadType
  <2>2. c # NoCmd
    BY <2>1, NoCmdType DEF None
  <2>3. r = [m |-> IF IsNav(c) THEN LoadNav(s.m, c) ELSE LoadDo(s.m, c),
             at |-> c.index + 1, left |-> s.left - 1, ok |-> TRUE]
    <3> DEFINE f == NextCmd(p, s.m, n, TRUE)
    <3>1. f.m = s.m /\ f.cmd = c
      <4>1. f.m = s.m /\ f.cmd = IF n >= Total(p) THEN NoCmd ELSE c
        BY <1>7
      <4>2. ~(n >= Total(p))
        BY <1>1, <1>6, <1>9
      <4> HIDE DEF f, c, n
      <4> QED BY <4>1, <4>2
    <3>2. r = IF f.cmd = NoCmd THEN [m |-> f.m, at |-> n, left |-> s.left - 1, ok |-> FALSE]
              ELSE [m |-> IF IsNav(f.cmd) THEN LoadNav(f.m, f.cmd) ELSE LoadDo(f.m, f.cmd),
                    at |-> f.cmd.index + 1, left |-> s.left - 1, ok |-> TRUE]
      BY <1>4 DEF SeekRound, SeekTakes
    <3> HIDE DEF f, r, c, n
    <3> QED BY <2>2, <3>1, <3>2
  <2> HIDE DEF r
  <2>4. CASE IsNav(c)
    <3>1. r = [m |-> LoadNav(s.m, c), at |-> c.index + 1, left |-> s.left - 1, ok |-> TRUE]
      BY <2>3, <2>4
    <3> QED BY <1>1, <1>5, <1>9, <2>4, <3>1, LoadNavOrder
  <2>5. CASE ~IsNav(c)
    <3>1. r = [m |-> LoadDo(s.m, c), at |-> n + 1, left |-> s.left - 1, ok |-> TRUE]
      BY <2>1, <2>3, <2>5
    <3>2. Unmoved(e, s.m) /\ Unmoved(s.m, LoadDo(s.m, c))
      BY <1>1, <1>5, <2>1, UnmovedFacts DEF Seeking
    <3>3. Unmoved(e, r.m)
      BY <3>1, <3>2, UnmovedKeeps
    <3>4. r.at = n + 1 /\ r.left = s.left - 1 /\ r.ok
      BY <3>1
    <3>5. e.resuming => n + 1 <= e.hist.last
      <4>1. e.resuming => n <= e.hist.last
        BY <1>5 DEF Seeking
      <4>2. e.resuming => p[e.hist.last + 1].id = "WP"
        BY <1>5, <2>1, HistoryType DEF Seeking, Ready, RewindInv, None
      <4>3. e.resuming => n # e.hist.last
        BY <2>1, <2>5, <4>2 DEF IsNav
      <4>4. n \in Nat /\ e.hist.last \in -1..MaxPlan /\ MaxPlan \in Nat
        BY <1>1, HistoryType, Numbers
      <4> HIDE DEF n
      <4> QED BY <4>1, <4>3, <4>4
    <3>6. ~r.m.navLoaded
      BY <3>3 DEF Unmoved, Ready
    <3>7. n + 1 >= i /\ s.left - 1 = SeekLoops + i - (n + 1)
      BY <1>1, <1>5, <1>6 DEF Seeking
    <3> QED BY <3>3, <3>4, <3>5, <3>6, <3>7 DEF Seeking
  <2> QED BY <2>4, <2>5
<1> QED BY <1>1, <1>6, <1>8, <1>9


\* An answer of advance_current_nav_cmd() that keeps the order: it gives up
\* only when the vehicle does not resume.
Outcome(p, e, r) ==
    /\ r.m \in Executors /\ RewindInv(p, r.m) /\ Records(e, r.m)
    /\ ~r.ok => ~r.m.resuming

\* advance_current_nav_cmd() from where a search may start.
LEMMA SeekOrder ==
    ASSUME MaxPlan < SeekLoops, NEW p, IsPlan(p), Plain(p),
           NEW e \in Executors, NEW i, Ready(p, e, i)
    PROVE  Outcome(p, e, Seek(p, e, i))
<1> DEFINE S == SoughtFrom(p, e, i)
           r == Seek(p, e, i)
<1>1. i \in Nat /\ RewindInv(p, e)
  BY DEF Ready
<1>2. [m |-> e, at |-> i, left |-> SeekLoops, ok |-> TRUE] \in S
  <2>1. Unmoved(e, e)
    BY DEF Unmoved
  <2> QED BY <1>1, <2>1, Numbers DEF SoughtFrom, Seeking, Ready
<1>3. PICK s \in S : r = Answer(s) /\ Sought(s)
  <2>1. \A s \in S : SeekRound(p, s) \in S
    BY SeekRoundOrder
  <2> HIDE DEF S
  <2> QED BY <1>2, <2>1, SeekLoop
<1> DEFINE x == s.m
           y == [x EXCEPT !.doDone = ~x.doLoaded]
<1>4. x \in Executors /\ (Seeking(e, i, s) \/ Found(p, e, s) \/ Lost(e, s))
  BY DEF SoughtFrom
<1>5. Unmoved(x, y) /\ y \in Executors
  <2> HIDE DEF x
  <2>1. x.doLoaded \in BOOLEAN
    BY <1>4 DEF Executors
  <2>2. (~x.doLoaded) \in BOOLEAN
    BY <2>1
  <2>3. Unmoved(x, y)
    BY <1>4, <2>2, UnmovedFacts
  <2> QED BY <2>3 DEF Unmoved
<1>6. r.m \in {x, y} /\ (~r.ok => r.m = x /\ (~s.ok \/ (x.navLoaded /\ s.left = 0)))
  BY <1>3 DEF Answer
<1>7. RewindInv(p, x) /\ Records(e, x) /\ (~r.ok => ~x.resuming)
  <2> HIDE DEF r
  <2>1. CASE Seeking(e, i, s)
    <3>1. Unmoved(e, x) /\ s.ok /\ ~x.navLoaded
      BY <2>1 DEF Seeking
    <3>2. RewindInv(p, x)
      BY <1>1, <3>1, UnmovedKeeps
    <3>3. Records(e, x)
      BY <3>1 DEF Records, Unmoved
    <3> QED BY <1>6, <3>1, <3>2, <3>3
  <2>2. CASE Found(p, e, s)
    BY <1>6, <2>2, Numbers DEF Found
  <2>3. CASE Lost(e, s)
    <3>1. Unmoved(e, x) /\ ~e.resuming
      BY <2>3 DEF Lost
    <3>2. RewindInv(p, x)
      BY <1>1, <3>1, UnmovedKeeps
    <3> QED BY <3>1, <3>2 DEF Records, Unmoved
  <2> QED BY <1>4, <2>1, <2>2, <2>3
<1>8. RewindInv(p, y) /\ Records(e, y)
  <2> HIDE DEF x, y
  <2>1. RewindInv(p, y)
    BY <1>5, <1>7, UnmovedKeeps
  <2> QED BY <1>5, <1>7, <2>1 DEF Records, Unmoved
<1>9. r.m \in Executors /\ RewindInv(p, r.m) /\ Records(e, r.m) /\ (~r.ok => ~r.m.resuming)
  <2> HIDE DEF r, x, y
  <2> QED BY <1>4, <1>5, <1>6, <1>7, <1>8
<1> QED BY <1>9 DEF Outcome

\* Nothing is recorded of the flight so far but one waypoint.
Fresh(e) == e.hist.passed = None /\ ~e.resuming

\* advance_current_nav_cmd() of a running mission: it goes on, or it starts
\* somewhere else with no history.
LEMMA AdvanceNavOrder ==
    ASSUME MaxPlan < SeekLoops, NEW p, IsPlan(p), Plain(p),
           NEW e \in Executors, RewindInv(p, e), e.state = "RUNNING", ~e.navLoaded,
           NEW start \in Nat, start = 0 \/ Forgotten(e)
    PROVE  Outcome(p, e, AdvanceNav(p, e, start))
<1> DEFINE i == SearchFrom(e, start)
           x == Stopped(e)
           r == Seek(p, x, i)
<1>1. /\ e.hist.passed \in -1..MaxPlan /\ e.hist.last \in -1..MaxPlan
      /\ e.nav.index \in -1..MaxPlan /\ e.resuming \in BOOLEAN
  BY HistoryType
<1>2. Unmoved(e, x) /\ x \in Executors
  BY UnmovedFacts DEF Unmoved
<1>3. i \in Nat \ {0}
  BY <1>1, Numbers DEF SearchFrom, None
<1>4. ~e.resuming => e.hist.last < i
  <2>1. Forgotten(e) => e.hist.last = -1
    BY DEF Forgotten, NoHist, None
  <2>2. ~e.resuming => e.hist.last <= e.nav.index
    BY DEF RewindInv
  <2> QED BY <1>1, <1>3, <2>1, <2>2, Numbers DEF SearchFrom, None
<1>5. e.resuming => i <= e.hist.last
  <2>1. e.resuming => e.nav.index < e.hist.last /\ start = 0
    BY DEF RewindInv, Forgotten
  <2>2. e.hist.last # None => e.hist.last \in 1..(Total(p) - 1)
    BY DEF RewindInv
  <2> QED BY <1>1, <1>3, <2>1, <2>2, Numbers DEF SearchFrom, None
<1>6. AdvanceNav(p, e, start) = r
  BY DEF AdvanceNav
<1> HIDE DEF i, x
<1>7. Ready(p, x, i)
  <2>1. RewindInv(p, x)
    BY <1>2, UnmovedKeeps
  <2> QED BY <1>2, <1>3, <1>4, <1>5, <2>1 DEF Ready, Unmoved
<1>8. Outcome(p, x, r)
  BY <1>2, <1>7, SeekOrder
<1> HIDE DEF r
<1> QED BY <1>2, <1>6, <1>8 DEF Outcome, Records, Unmoved

\* complete() is only called when the vehicle does not resume.
LEMMA OrCompleteOrder ==
    ASSUME NEW p, NEW e, NEW r, Outcome(p, e, r)
    PROVE  /\ RewindInv(p, OrComplete(r)) /\ Records(e, OrComplete(r))
           /\ ~r.ok => RewindInv(p, Complete(r.m)) /\ Records(e, Complete(r.m))
<1> DEFINE x == r.m
           y == Complete(x)
<1>1. x \in Executors /\ RewindInv(p, x) /\ Records(e, x) /\ (~r.ok => ~x.resuming)
  BY DEF Outcome
<1>2. OrComplete(r) = IF r.ok THEN x ELSE y
  BY DEF OrComplete
<1> HIDE DEF x
<1>3. /\ y.hist = x.hist /\ y.resuming = x.resuming /\ y.resumeCmd = x.resumeCmd
      /\ y.nav = x.nav
  BY <1>1 DEF Complete, Executors
<1> HIDE DEF y
<1>4. ~r.ok => RewindInv(p, y) /\ Records(e, y)
  BY <1>1, <1>3 DEF RewindInv, Records
<1> QED BY <1>1, <1>2, <1>4 DEF x, y

\* An executor without a history is in order.
LEMMA NoHistoryOrder ==
    ASSUME NEW p, NEW e \in Executors, Forgotten(e)
    PROVE  RewindInv(p, e) /\ Fresh(e)
<1>1. /\ e.hist.passed = None /\ e.hist.last = None /\ e.nav.index \in -1..MaxPlan
      /\ ~e.resuming /\ e.resumeCmd.index = None
  BY HistoryType DEF Forgotten, NoHist
<1> QED BY <1>1, Numbers DEF RewindInv, Fresh, None

\* What starts without a history records one waypoint at most.
LEMMA AfreshOrder ==
    ASSUME MaxPlan < SeekLoops, NEW p, IsPlan(p), Plain(p),
           NEW e \in Executors, Forgotten(e), e.state = "RUNNING", ~e.navLoaded,
           NEW start \in Nat
    PROVE  LET x == OrComplete(AdvanceNav(p, e, start)) IN RewindInv(p, x) /\ Fresh(x)
<1> DEFINE x == OrComplete(AdvanceNav(p, e, start))
<1>1. RewindInv(p, e)
  BY NoHistoryOrder
<1>2. Outcome(p, e, AdvanceNav(p, e, start))
  BY <1>1, AdvanceNavOrder
<1>3. RewindInv(p, x) /\ Records(e, x)
  BY <1>2, OrCompleteOrder
<1> HIDE DEF x
<1>4. Fresh(x)
  BY <1>3 DEF Records, Fresh, Forgotten, NoHist
<1> QED BY <1>3, <1>4 DEF x

\* start()
LEMMA StartOrder ==
    ASSUME MaxPlan < SeekLoops, NEW p, IsPlan(p), Plain(p), NEW e \in Executors
    PROVE  RewindInv(p, Start(p, e)) /\ Fresh(Start(p, e))
<1> DEFINE run == [e EXCEPT !.state = "RUNNING"]
           x == Reset(run)
           y == [run EXCEPT !.navLoaded = FALSE, !.doLoaded = FALSE, !.doDone = FALSE,
                            !.nav = [@ EXCEPT !.index = None],
                            !.doc = [@ EXCEPT !.index = None], !.jumps = NoJumps,
                            !.taken = NoLaps]
<1>1. run \in Executors /\ run.state = "RUNNING"
  BY DEF Executors
<1>2. x \in Executors /\ x.state = "RUNNING"
  <2> HIDE DEF run
  <2> QED BY <1>1, ResetEffect
<1>3. Forgotten(x) /\ x.navLoaded = FALSE
  <2> HIDE DEF run
  <2>1. x = ResetHistory(y)
    BY DEF Reset
  <2>2. /\ DOMAIN y = DOMAIN run /\ y.navLoaded = FALSE
        /\ {"hist", "resuming", "resumeCmd", "navLoaded"} \subseteq DOMAIN run
    BY <1>1 DEF Executors
  <2>3. NoCmd.index = None
    BY NoCmdType
  <2> HIDE DEF y
  <2> QED BY <2>1, <2>2, <2>3 DEF ResetHistory, Forgotten
<1>4. Start(p, e) = OrComplete(AdvanceNav(p, x, 0))
  BY DEF Start
<1> HIDE DEF x
<1> QED BY <1>2, <1>3, <1>4, AfreshOrder


\* set_current_cmd() starts with no history.
LEMMA SetCurrentOrder ==
    ASSUME MaxPlan < SeekLoops, NEW p, IsPlan(p), Plain(p), NEW e \in Executors, NEW index \in Nat
    PROVE  LET x == SetCurrent(p, e, index) IN RewindInv(p, x) /\ Fresh(x)
<1> DEFINE h == ResetHistory(e)
           t == Aside(e, index)
           i == FirstSought(index)
           x == SetCurrent(p, e, index)
<1>1. /\ h \in Executors /\ Forgotten(h) /\ t \in Executors /\ Forgotten(t)
      /\ t.state = e.state /\ t.navLoaded = FALSE
  BY AsideEffect DEF Quiet
<1>2. i \in Nat
  BY DEF FirstSought
<1>3. \/ x = h
      \/ e.state = "RUNNING" /\ x = OrComplete(AdvanceNav(p, t, i))
      \/ x = Preload(p, t, i)
  BY DEF SetCurrent
<1> HIDE DEF t, i, h, x
<1>4. RewindInv(p, h) /\ Fresh(h)
  BY <1>1, NoHistoryOrder
<1>5. e.state = "RUNNING" => LET y == OrComplete(AdvanceNav(p, t, i))
                             IN  RewindInv(p, y) /\ Fresh(y)
  BY <1>1, <1>2, AfreshOrder
<1>6. RewindInv(p, Preload(p, t, i)) /\ Fresh(Preload(p, t, i))
  <2>1. Forgotten(Preload(p, t, i)) /\ Preload(p, t, i) \in Executors
    BY <1>1, <1>2, PreloadForgets, PreloadEffect DEF Quiet
  <2> QED BY <2>1, NoHistoryOrder
<1>7. RewindInv(p, x) /\ Fresh(x)
  BY <1>3, <1>4, <1>5, <1>6
<1> QED BY <1>7 DEF x

\* What an operation does to the order: a vehicle that resumes after it does
\* so between the same two waypoints.
Onward(p, e, x) == RewindInv(p, x) /\ (x.resuming => x.hist = e.hist)

\* Operations one after the other.
LEMMA OnwardFacts ==
    ASSUME NEW p, NEW e
    PROVE  /\ RewindInv(p, e) => Onward(p, e, e)
           /\ \A x : RewindInv(p, x) /\ Fresh(x) => Onward(p, e, x)
           /\ \A x : RewindInv(p, x) /\ Records(e, x) => Onward(p, e, x)
           /\ \A x : RewindInv(p, e) /\ Unmoved(e, x) => Onward(p, e, x)
           /\ \A x, y : Onward(p, e, x) /\ Unmoved(x, y) => Onward(p, e, y)
           /\ \A x, y : Unmoved(e, x) /\ Onward(p, x, y) => Onward(p, e, y)
           /\ \A x, y : RewindInv(p, x) /\ Fresh(x) /\ Onward(p, x, y) => Onward(p, e, y)
<1>1. \A x, y : RewindInv(p, x) /\ Unmoved(x, y) => RewindInv(p, y)
  BY UnmovedKeeps
<1>2. \A x : Fresh(x) => ~x.resuming
  BY DEF Fresh
<1>3. ASSUME NEW x, NEW y, Fresh(x), Onward(p, x, y) PROVE ~y.resuming
  BY <1>3 DEF Fresh, Onward, RewindInv
<1>4. \A x, y : Unmoved(x, y) => y.hist = x.hist /\ y.resuming = x.resuming
  BY DEF Unmoved
<1> QED BY <1>1, <1>2, <1>3, <1>4 DEF Onward, Records

\* The last lines of resume() start without a history, or do nothing.
LEMMA RestartActiveOrder ==
    ASSUME MaxPlan < SeekLoops, NEW p, IsPlan(p), Plain(p),
           NEW e \in Executors, Aimed(e), RewindInv(p, e)
    PROVE  Onward(p, e, RestartActive(p, e))
<1>1. e.doc.index \in -1..MaxPlan /\ e.nav.index \in -1..MaxPlan
  BY DEF Executors, Loaded
<1>2. e.doc.index # None => e.doc.index \in Nat
  BY <1>1 DEF None
<1>3. e.navLoaded => e.nav.index \in Nat
  BY <1>1 DEF None, Aimed
<1>4. \A i \in Nat : Onward(p, e, SetCurrent(p, e, i))
  BY SetCurrentOrder, OnwardFacts
<1> QED BY <1>2, <1>3, <1>4, OnwardFacts DEF RestartActive


\* The place to which the vehicle rewinds has the index of a waypoint passed.
LEMMA RewoundOrder ==
    ASSUME NEW p, IsPlan(p), NEW e \in Executors, RewindInv(p, e), NEW located
    PROVE  LET w == Rewound(p, e, located)
           IN  /\ RewindInv(p, w) /\ w.hist = e.hist /\ w.state = e.state
               /\ w.resuming = e.resuming
<1> DEFINE a == RewindPos(p, e)
           x == [e EXCEPT !.resumeCmd = a]
           w == Rewound(p, e, located)
<1>1. w = e \/ (CanRewind(p, e, located) /\ w = x)
  BY DEF Rewound
<1>2. /\ x.hist = e.hist /\ x.state = e.state /\ x.resuming = e.resuming /\ x.nav = e.nav
      /\ x.resumeCmd = a
  <2> HIDE DEF a
  <2> QED BY DEF Executors
<1>3. CanRewind(p, e, located) => a.index = e.hist.passed
  <2> SUFFICES ASSUME CanRewind(p, e, located) PROVE a.index = e.hist.passed
    OBVIOUS
  <2> DEFINE c == Read(p, e.hist.passed)
  <2>1. c.index = e.hist.passed /\ c \in Loaded
    BY ReadType DEF CanRewind
  <2>2. a = [c EXCEPT !.place = "leg"]
    BY DEF RewindPos
  <2> HIDE DEF a, c
  <2> QED BY <2>1, <2>2 DEF Loaded
<1>4. e.hist.passed \in -1..MaxPlan
  BY HistoryType
<1> HIDE DEF x, a, w
<1>5. CanRewind(p, e, located) => RewindInv(p, x)
  BY <1>2, <1>3, <1>4, Numbers DEF RewindInv
<1>6. RewindInv(p, w) /\ w.hist = e.hist /\ w.state = e.state /\ w.resuming = e.resuming
  BY <1>1, <1>2, <1>5
<1> QED BY <1>6 DEF w

\* The vehicle flies back to it.
LEMMA FlyRewoundOrder ==
    ASSUME NEW p, IsPlan(p), NEW e \in Executors, RewindInv(p, e), e.state # "COMPLETE",
           e.hist.passed # None
    PROVE  Onward(p, e, FlyRewound(e))
<1> DEFINE c == e.resumeCmd
           s == Started(e, c)
           x == FlyRewound(e)
<1>1. Unmoved(e, s)
  <2>1. s = [e EXCEPT !.sub = "WP"] \/ s = [e EXCEPT !.sub = e.sub]
    BY DEF Started, Executors
  <2>2. e.sub \in {"LOITER", "WP"}
    BY DEF Executors
  <2> HIDE DEF s
  <2> QED BY <2>1, <2>2, UnmovedFacts
<1>2. x = [s EXCEPT !.nav = c, !.navLoaded = TRUE, !.resuming = TRUE]
  BY DEF FlyRewound
<1>3. s \in Executors /\ s.hist = e.hist /\ s.resumeCmd = c /\ s.state = e.state
  BY <1>1 DEF Unmoved
<1> HIDE DEF s, x, c
<1>4. x.hist = e.hist /\ x.resumeCmd = c /\ x.state = e.state /\ x.nav = c /\ x.resuming = TRUE
  BY <1>2, <1>3 DEF Executors
<1>5. c.index <= e.hist.passed /\ e.hist.passed < e.hist.last
  BY DEF c, RewindInv
<1>6. /\ c.index \in -1..MaxPlan /\ e.hist.passed \in -1..MaxPlan
      /\ e.hist.last \in -1..MaxPlan
  BY HistoryType DEF c
<1>7. c.index < e.hist.last
  BY <1>5, <1>6, Numbers
<1>8. RewindInv(p, x)
  BY <1>4, <1>5, <1>7 DEF RewindInv
<1> QED BY <1>4, <1>8 DEF Onward, x

\* resume()
LEMMA ResumeOrder ==
    ASSUME MaxPlan < SeekLoops, NEW p, IsPlan(p), Plain(p),
           NEW e \in Executors, Aimed(e), RewindInv(p, e), NEW located
    PROVE  Onward(p, e, Resume(p, e, located))
<1> DEFINE run == [e EXCEPT !.state = "RUNNING"]
           a == Read(p, e.nav.index)
           c == [run EXCEPT !.nav = a]
           w == Rewound(p, c, located)
           v == [w EXCEPT !.reason = FALSE]
<1>1. /\ run \in Executors /\ run.hist = e.hist /\ run.resuming = e.resuming
      /\ run.resumeCmd = e.resumeCmd /\ run.state = "RUNNING" /\ run.navLoaded = e.navLoaded
  BY DEF Executors
<1>2. Onward(p, e, Start(p, e)) /\ Onward(p, e, Start(p, run))
  <2> HIDE DEF run
  <2> QED BY <1>1, StartOrder, OnwardFacts
<1>3. SUFFICES ASSUME Readable(p, e.nav.index),
                      Resume(p, e, located) = IF Rewinds(p, w) THEN FlyRewound(w) ELSE RestartActive(p, v)
               PROVE  Onward(p, e, Resume(p, e, located))
  BY <1>2 DEF Resume
<1>4. a \in Loaded /\ a.index = e.nav.index
  BY <1>3, ReadType
<1>5. /\ c \in Executors /\ c.hist = e.hist /\ c.resuming = e.resuming /\ c.nav = a
      /\ c.resumeCmd = e.resumeCmd /\ c.state = "RUNNING" /\ Aimed(c)
  <2> HIDE DEF run, a
  <2> QED BY <1>1, <1>4 DEF Executors, Aimed
<1> HIDE DEF c, a
<1>6. RewindInv(p, c)
  BY <1>4, <1>5 DEF RewindInv
<1>7. SameLaps(c, w)
  BY <1>5, RewoundKeeps
<1>8. RewindInv(p, w) /\ w.hist = e.hist /\ w.state # "COMPLETE"
  BY <1>5, <1>6, RewoundOrder
<1>9. w \in Executors /\ Aimed(w)
  BY <1>5, <1>7 DEF SameLaps, KeepsLaps
<1> HIDE DEF w
<1>10. CASE Rewinds(p, w)
  <2>1. Onward(p, w, FlyRewound(w))
    BY <1>8, <1>9, <1>10, FlyRewoundOrder DEF Rewinds
  <2> QED BY <1>3, <1>8, <1>10, <2>1 DEF Onward
<1>11. CASE ~Rewinds(p, w)
  <2>1. Unmoved(w, v)
    BY <1>9, UnmovedFacts
  <2>2. v \in Executors /\ Aimed(v) /\ RewindInv(p, v)
    <3>1. v \in Executors
      BY <2>1 DEF Unmoved
    <3> HIDE DEF v
    <3> QED BY <1>8, <1>9, <2>1, <3>1, UnmovedKeeps
  <2> HIDE DEF v
  <2>3. Onward(p, v, RestartActive(p, v))
    BY <2>2, RestartActiveOrder
  <2>4. v.hist = e.hist
    BY <1>8, <2>1 DEF Unmoved
  <2> QED BY <1>3, <1>11, <2>3, <2>4 DEF Onward
<1> QED BY <1>10, <1>11

\* start_or_resume()
LEMMA StartOrResumeOrder ==
    ASSUME MaxPlan < SeekLoops, NEW p, IsPlan(p), Plain(p),
           NEW e \in Executors, Aimed(e), RewindInv(p, e), NEW located
    PROVE  Onward(p, e, StartOrResume(p, e, located))
<1> DEFINE x == Resume(p, e, located)
           y == [x EXCEPT !.force = FALSE]
<1>1. Onward(p, e, x) /\ x \in Executors
  BY ResumeOrder, ResumeKeeps DEF Held
<1>2. Onward(p, e, Start(p, e))
  BY StartOrder, OnwardFacts
<1>3. StartOrResume(p, e, located) = Start(p, e) \/ StartOrResume(p, e, located) = y
  BY DEF StartOrResume
<1> HIDE DEF x
<1>4. Unmoved(x, y)
  BY <1>1, UnmovedFacts
<1> HIDE DEF y
<1>5. Onward(p, e, y)
  BY <1>1, <1>4, OnwardFacts
<1> QED BY <1>2, <1>3, <1>5


\* advance_current_do_cmd() and what verify_command() answers of a DO command.
LEMMA UpdateDoOrder ==
    ASSUME NEW p, IsPlan(p), NEW e, NEW r, Outcome(p, e, r), NEW done \in BOOLEAN
    PROVE  Onward(p, e, UpdateDo(p, r, done))
<1> DEFINE x == r.m
           y == [x EXCEPT !.doLoaded = ~done]
<1>1. x \in Executors /\ Onward(p, e, x)
  BY OnwardFacts DEF Outcome
<1>2. ~r.ok => Onward(p, e, Complete(x))
  BY OrCompleteOrder, OnwardFacts
<1>3. \/ ~r.ok /\ UpdateDo(p, r, done) = Complete(x)
      \/ UpdateDo(p, r, done) = AdvanceDo(p, x)
      \/ UpdateDo(p, r, done) = y
  BY DEF UpdateDo
<1> HIDE DEF x
<1>4. Unmoved(x, y)
  <2>1. (~done) \in BOOLEAN
    OBVIOUS
  <2> QED BY <1>1, <2>1, UnmovedFacts
<1>5. Unmoved(x, AdvanceDo(p, x))
  <2> DEFINE i == IF x.doc.index = None THEN 1 ELSE x.doc.index + 1
             f == NextCmd(p, x, i, FALSE)
             g == IF i >= Total(p) THEN [m |-> x, cmd |-> NoCmd] ELSE f
             b == g.m
             u == [b EXCEPT !.doDone = TRUE]
             v == [b EXCEPT !.doc = g.cmd, !.doLoaded = TRUE]
  <2>1. i \in Nat
    <3>1. x.doc.index \in -1..MaxPlan
      BY <1>1 DEF Executors, Loaded
    <3> QED BY <3>1, Numbers DEF None
  <2>2. Unmoved(x, b) /\ b \in Executors /\ g.cmd \in Loaded
    <3>1. OnlyLaps(p, x, f.m) /\ (f.cmd = NoCmd \/ FromPlan(p, f.cmd))
      BY <1>1, <2>1, NextCmdEffect
    <3>2. (b = x /\ g.cmd = NoCmd) \/ (b = f.m /\ g.cmd = f.cmd)
      OBVIOUS
    <3> HIDE DEF f, g, b
    <3>3. Unmoved(x, f.m) /\ f.cmd \in Loaded
      BY <1>1, <3>1, UnmovedFacts, NoCmdType DEF FromPlan
    <3>4. Unmoved(x, x)
      BY <1>1 DEF Unmoved
    <3> QED BY <3>2, <3>3, <3>4, NoCmdType DEF Unmoved
  <2>3. AdvanceDo(p, x) = x \/ AdvanceDo(p, x) = u \/ AdvanceDo(p, x) = v
    BY DEF AdvanceDo, DoFound
  <2> DEFINE c == g.cmd
  <2>4. c \in Loaded /\ v = [b EXCEPT !.doc = c, !.doLoaded = TRUE]
    BY <2>2
  <2> HIDE DEF b, c, u, v
  <2>5. Unmoved(b, u)
    BY <2>2, UnmovedFacts DEF u
  <2>6. Unmoved(b, v)
    BY <2>2, <2>4 DEF Unmoved, Executors
  <2>7. Unmoved(x, x)
    BY <1>1 DEF Unmoved
  <2> QED BY <2>2, <2>3, <2>5, <2>6, <2>7, UnmovedKeeps
<1> HIDE DEF y
<1> QED BY <1>1, <1>2, <1>3, <1>4, <1>5, OnwardFacts

\* update()
LEMMA UpdateOrder ==
    ASSUME MaxPlan < SeekLoops, NEW p, IsPlan(p), Plain(p),
           NEW e \in Executors, Aimed(e), RewindInv(p, e), NEW nv \in BOOLEAN, NEW dv \in BOOLEAN
    PROVE  Onward(p, e, Update(p, e, nv, dv))
<1> DEFINE z == [e EXCEPT !.navLoaded = FALSE]
           a == AdvanceNav(p, e, 0)
           b == AdvanceNav(p, z, 0)
           c == [m |-> e, ok |-> TRUE]
<1>1. SUFFICES ASSUME e.state = "RUNNING" PROVE Onward(p, e, Update(p, e, nv, dv))
  BY OnwardFacts DEF Update
<1>2. ~e.navLoaded \/ e.nav.index = None => Outcome(p, e, a)
  <2>1. ~e.navLoaded \/ e.nav.index = None => ~e.navLoaded
    BY DEF Aimed
  <2> HIDE DEF a
  <2> QED BY <1>1, <2>1, AdvanceNavOrder DEF a
<1>3. Outcome(p, e, b)
  <2>1. /\ z \in Executors /\ z.navLoaded = FALSE /\ z.hist = e.hist /\ z.resuming = e.resuming
        /\ z.resumeCmd = e.resumeCmd /\ z.nav = e.nav /\ z.state = "RUNNING"
    BY <1>1 DEF Executors
  <2> HIDE DEF z
  <2>2. RewindInv(p, z)
    BY <1>1, <2>1 DEF RewindInv
  <2>3. Outcome(p, z, b)
    BY <2>1, <2>2, AdvanceNavOrder
  <2> HIDE DEF b
  <2> QED BY <2>1, <2>3 DEF Outcome, Records
<1>4. Outcome(p, e, c)
  BY DEF Outcome, Records
<1>5. \/ Update(p, e, nv, dv) = e
      \/ /\ ~e.navLoaded \/ e.nav.index = None
         /\ Update(p, e, nv, dv) = UpdateDo(p, a, dv)
      \/ Update(p, e, nv, dv) = UpdateDo(p, b, dv)
      \/ Update(p, e, nv, dv) = UpdateDo(p, c, dv)
  BY DEF Update
<1> HIDE DEF a, b, c
<1> QED BY <1>2, <1>3, <1>4, <1>5, UpdateDoOrder, OnwardFacts


\* A state of a mission without a JUMP that no ground station has written to.
Ordered == MissionIInv /\ "edit" \notin meddled /\ Plain(plan) /\ RewindInv(plan, m)

\* What the order needs of the invariant.
LEMMA OrderedFacts ==
    ASSUME Ordered
    PROVE  /\ m \in Executors /\ Aimed(m) /\ IsPlan(plan) /\ det \in Detectors
           /\ Plain(plan) /\ RewindInv(plan, m)
BY DEF Ordered, MissionIInv, ExecutorIInv

\* The change detector moves nothing.
LEMMA LookOrder ==
    ASSUME NEW p, IsPlan(p), NEW e \in Executors, NEW d \in Detectors
    PROVE  LET x == Look(p, e, d).m
           IN  /\ Unmoved(e, x) /\ x \in Executors
               /\ \A sub \in {"LOITER", "WP"} : Unmoved(e, [x EXCEPT !.sub = sub])
<1> DEFINE x == Look(p, e, d).m
<1>1. OnlyLaps(p, e, x)
  BY LookEffect
<1> HIDE DEF x
<1>2. Unmoved(e, x) /\ x \in Executors
  BY <1>1, UnmovedFacts DEF OnlyLaps
<1>3. \A sub \in {"LOITER", "WP"} : Unmoved(x, [x EXCEPT !.sub = sub])
  BY <1>2, UnmovedFacts
<1>4. \A sub \in {"LOITER", "WP"} : Unmoved(e, [x EXCEPT !.sub = sub])
  BY <1>2, <1>3, UnmovedKeeps
<1> QED BY <1>2, <1>4 DEF x

\* stop() leaves the order alone.
LEMMA StopOrder ==
    ASSUME NEW p, NEW e \in Executors, RewindInv(p, e)
    PROVE  Onward(p, e, StopMission(e))
<1> DEFINE x == [e EXCEPT !.state = "STOPPED"]
<1>1. /\ x.hist = e.hist /\ x.resuming = e.resuming /\ x.resumeCmd = e.resumeCmd
      /\ x.nav = e.nav /\ x.state = "STOPPED"
  BY DEF Executors
<1> HIDE DEF x
<1>2. Onward(p, e, x)
  BY <1>1 DEF Onward, RewindInv
<1>3. StopMission(e) = IF e.state = "RUNNING" THEN x ELSE e
  BY DEF StopMission, x
<1> QED BY <1>2, <1>3, OnwardFacts

\* AUTO is entered, left, or met by an obstacle, in order.
LEMMA ModeOrder ==
    ASSUME Ordered, EnterAuto \/ ExitAuto \/ ObstacleStop
    PROVE  Onward(plan, m, m')
<1> DEFINE e == [m EXCEPT !.reason = TRUE]
           x == Look(plan, m, det).m
<1>1. m \in Executors /\ IsPlan(plan) /\ det \in Detectors /\ RewindInv(plan, m)
  BY OrderedFacts
<1>2. CASE EnterAuto
  <2>1. m' = [x EXCEPT !.sub = "LOITER"]
    BY <1>2 DEF EnterAuto, InitAuto
  <2> HIDE DEF x
  <2>2. Unmoved(m, m')
    BY <1>1, <2>1, LookOrder DEF x
  <2> QED BY <1>1, <2>2, OnwardFacts
<1>3. CASE ExitAuto
  BY <1>1, <1>3, StopOrder DEF ExitAuto
<1>4. CASE ObstacleStop
  <2>1. m' = e \/ m' = StopMission(e)
    BY <1>4 DEF ObstacleStop
  <2>2. Unmoved(m, e)
    BY <1>1, UnmovedFacts
  <2> HIDE DEF e
  <2>3. e \in Executors /\ RewindInv(plan, e)
    BY <1>1, <2>2, UnmovedKeeps DEF Unmoved
  <2>4. Onward(plan, e, StopMission(e)) /\ Onward(plan, e, e)
    BY <2>3, StopOrder, OnwardFacts
  <2> QED BY <2>1, <2>2, <2>4, OnwardFacts
<1> QED BY <1>2, <1>3, <1>4

\* run() of AUTO starts or resumes the mission in order,
LEMMA RunStartOrder ==
    ASSUME MaxPlan < SeekLoops, Ordered, RunStart
    PROVE  Onward(plan, m, m')
<1>0. PICK located \in BOOLEAN :
          LET d == Look(plan, StartOrResume(plan, m, located), det) IN m' = d.m /\ det' = d.det
  BY DEF RunStart
<1> DEFINE e == StartOrResume(plan, m, located)
           x == Look(plan, e, det).m
<1>1. m \in Executors /\ Aimed(m) /\ IsPlan(plan) /\ det \in Detectors
  BY OrderedFacts
<1>2. m' = x
  BY <1>0
<1>3. Onward(plan, m, e) /\ e \in Executors
  BY <1>1, OrderedFacts, StartOrResumeOrder, StartOrResumeKeeps DEF Held
<1> HIDE DEF e
<1>4. Unmoved(e, x)
  BY <1>1, <1>3, LookOrder
<1> HIDE DEF x
<1> QED BY <1>2, <1>3, <1>4, OnwardFacts

\* and updates it in order.
LEMMA RunUpdateOrder ==
    ASSUME MaxPlan < SeekLoops, Ordered, NEW nv \in BOOLEAN, NEW dv \in BOOLEAN, RunUpdate(nv, dv)
    PROVE  Onward(plan, m, m')
<1> DEFINE d == Look(plan, m, det)
           x == d.m
           y == Noted(d)
           z == Update(plan, y, nv, dv)
<1>1. /\ m \in Executors /\ Aimed(m) /\ IsPlan(plan) /\ det \in Detectors
      /\ Plain(plan) /\ RewindInv(plan, m)
  BY OrderedFacts
<1>2. m' = z
  BY DEF RunUpdate, Ran
<1>3. Unmoved(m, x) /\ OnlyLaps(plan, m, x)
  BY <1>1, LookOrder, LookEffect
<1>4. y = x \/ (CurrentIndex(x) # 0 /\ y = SetCurrent(plan, x, x.nav.index))
  BY DEF Noted, RestartNav
<1>5. Quiet(plan, m, y)
  <2>1. OnlyLaps(plan, m, d.m)
    BY <1>3
  <2> HIDE DEF d
  <2> QED BY <1>1, <2>1, NotedEffect
<1> HIDE DEF d, x, y
<1>6. x \in Executors /\ RewindInv(plan, x)
  BY <1>1, <1>3, UnmovedKeeps DEF Unmoved
<1>7. y \in Executors /\ Aimed(y)
  BY <1>1, <1>5 DEF Quiet
<1>8. CASE y = x
  <2>1. Onward(plan, y, z)
    BY <1>1, <1>6, <1>7, <1>8, UpdateOrder
  <2> HIDE DEF z
  <2> QED BY <1>2, <1>3, <1>8, <2>1, OnwardFacts
<1>9. CASE CurrentIndex(x) # 0 /\ y = SetCurrent(plan, x, x.nav.index)
  <2>1. x.nav.index \in Nat
    BY <1>6, <1>9, CurrentIndexType DEF CurrentIndex
  <2>2. RewindInv(plan, y) /\ Fresh(y)
    BY <1>1, <1>6, <1>9, <2>1, SetCurrentOrder
  <2>3. Onward(plan, y, z)
    BY <1>1, <1>7, <2>2, UpdateOrder
  <2> HIDE DEF z
  <2> QED BY <1>2, <2>2, <2>3, OnwardFacts
<1> QED BY <1>4, <1>8, <1>9

\* MISSION_START
LEMMA MissionStartOrder ==
    ASSUME MaxPlan < SeekLoops, Ordered, MissionStart
    PROVE  Onward(plan, m, m')
<1> DEFINE x == Look(plan, m, det).m
           y == [x EXCEPT !.sub = "LOITER"]
           e == IF auto THEN m ELSE y
<1>0. PICK located \in BOOLEAN :
          m' = IF m.state = "RUNNING" THEN e ELSE StartOrResume(plan, e, located)
  BY DEF MissionStart
<1> DEFINE r == StartOrResume(plan, e, located)
<1>1. /\ m \in Executors /\ Aimed(m) /\ IsPlan(plan) /\ det \in Detectors
      /\ Plain(plan) /\ RewindInv(plan, m)
  BY OrderedFacts
<1>2. m' = e \/ m' = r
  BY <1>0
<1>3. Unmoved(m, y) /\ Unmoved(m, m)
  <2>1. \A sub \in {"LOITER", "WP"} : Unmoved(m, [x EXCEPT !.sub = sub])
    BY <1>1, LookOrder
  <2> HIDE DEF x
  <2>2. Unmoved(m, m)
    BY <1>1 DEF Unmoved
  <2> QED BY <2>1, <2>2
<1> HIDE DEF y
<1>4. Unmoved(m, e)
  BY <1>3
<1> HIDE DEF e
<1>5. e \in Executors /\ Aimed(e) /\ RewindInv(plan, e)
  BY <1>1, <1>4, UnmovedKeeps DEF Unmoved
<1>6. Onward(plan, e, r) /\ Onward(plan, e, e)
  BY <1>1, <1>5, StartOrResumeOrder, OnwardFacts
<1> HIDE DEF r
<1> QED BY <1>2, <1>4, <1>6, OnwardFacts

\* A ground station that sets the command, or a landing sequence.
LEMMA JumpOrder ==
    ASSUME MaxPlan < SeekLoops, Ordered, NEW i \in 0..MaxPlan,
           SetCurrentItem(i) \/ JumpToLanding(i)
    PROVE  Onward(plan, m, m')
<1> DEFINE s == SetCurrent(plan, m, i)
           r == Resume(plan, s, FALSE)
           l == Landing(i)
           y == [l EXCEPT !.force = TRUE]
           z == [l EXCEPT !.force = FALSE]
           x == Look(plan, y, det).m
<1>1. /\ m \in Executors /\ Aimed(m) /\ IsPlan(plan) /\ det \in Detectors
      /\ Plain(plan) /\ RewindInv(plan, m) /\ i \in Nat
  BY OrderedFacts, Numbers
<1>2. \/ m' = s \/ m' = y \/ m' = z
      \/ m' = [x EXCEPT !.sub = "LOITER"]
  BY DEF SetCurrentItem, JumpToLanding, InitAuto
<1>3. RewindInv(plan, s) /\ Fresh(s)
  BY <1>1, SetCurrentOrder
<1>4. s \in Executors /\ Aimed(s)
  BY <1>1, SetCurrentEffect DEF Quiet
<1>5. l = s \/ l = r
  BY DEF Landing
<1> HIDE DEF s
<1>6. Onward(plan, s, r) /\ r \in Executors
  BY <1>1, <1>3, <1>4, ResumeOrder, ResumeKeeps DEF Held
<1> HIDE DEF r, l
<1>7. Onward(plan, m, l) /\ l \in Executors
  BY <1>3, <1>4, <1>5, <1>6, OnwardFacts
<1>8. Unmoved(l, y) /\ Unmoved(l, z)
  BY <1>7, UnmovedFacts
<1>9. y \in Executors
  BY <1>8 DEF Unmoved
<1> HIDE DEF y, z
<1>10. Unmoved(y, [x EXCEPT !.sub = "LOITER"])
  BY <1>1, <1>9, LookOrder
<1> HIDE DEF x
<1>11. Onward(plan, m, s) /\ Onward(plan, m, y) /\ Onward(plan, m, z)
  BY <1>3, <1>7, <1>8, OnwardFacts
<1> QED BY <1>2, <1>10, <1>11, OnwardFacts

\* disarm() forgets the history.
LEMMA DisarmOrder ==
    ASSUME Ordered, Disarm
    PROVE  Onward(plan, m, m')
<1> DEFINE y == [m EXCEPT !.navLoaded = FALSE, !.doLoaded = FALSE, !.doDone = FALSE,
                          !.nav = [@ EXCEPT !.index = None],
                          !.doc = [@ EXCEPT !.index = None], !.jumps = NoJumps,
                          !.taken = NoLaps]
<1>1. m \in Executors /\ m' = ResetHistory(y)
  BY OrderedFacts DEF Disarm, Reset
<1>2. m' \in Executors
  BY <1>1, ResetEffect DEF Disarm
<1>3. DOMAIN y = DOMAIN m /\ {"hist", "resuming", "resumeCmd"} \subseteq DOMAIN m
  BY <1>1 DEF Executors
<1> HIDE DEF y
<1>4. Forgotten(m')
  <2>1. NoCmd.index = None
    BY NoCmdType
  <2> QED BY <1>1, <1>3, <2>1 DEF ResetHistory, Forgotten
<1> QED BY <1>2, <1>4, NoHistoryOrder, OnwardFacts

\* Every step without a write keeps the order.
LEMMA OrderedStep ==
    ASSUME MaxPlan < SeekLoops, Ordered, MissionNext, "edit" \notin meddled'
    PROVE  plan' = plan /\ Onward(plan, m, m')
<1>1. Touch("edit") => "edit" \in meddled'
  BY DEF Touch
<1>2. \/ EnterAuto \/ ExitAuto \/ ObstacleStop
      \/ RunStart \/ (\E nv, dv \in BOOLEAN : RunUpdate(nv, dv)) \/ MissionStart
      \/ (\E i \in 0..MaxPlan : SetCurrentItem(i) \/ JumpToLanding(i)) \/ Disarm
  BY <1>1 DEF MissionNext, RunAuto, Clear, Truncate, AddCmd, ReplaceCmd
<1>3. plan' = plan
  BY <1>2 DEF EnterAuto, ExitAuto, ObstacleStop, RunStart, RunUpdate, MissionStart,
              SetCurrentItem, JumpToLanding, Disarm
<1>4. Onward(plan, m, m')
  BY <1>2, ModeOrder, RunStartOrder, RunUpdateOrder, MissionStartOrder, JumpOrder, DisarmOrder
<1> QED BY <1>3, <1>4


-----------------------------------------------------------------------------
(* The specifications.                                                     *)

\* What is proved of every state of the flight: the invariant and, of a
\* mission without a JUMP that nobody writes to, the order of its history.
PlainIInv == "edit" \notin meddled /\ Plain(plan) => RewindInv(plan, m)

\* Each step of a flight keeps the invariant.
LEMMA FlightInductive == MissionIInv /\ [MissionNext]_missionVars => MissionIInv'
BY MissionStepKeeps, MissionStutters

\* The invariant says of the jumps and of the mission's state what is promised.
LEMMA FlightInvMeans == MissionIInv => MissionTypeOK /\ JumpsWithinPlan /\ RunsOnlyInAuto
BY MissionTypeParts, JumpsAreLaps DEF MissionIInv, ExecutorIInv

\* Without a JUMP, every step keeps the history in order,
LEMMA PlainInductive ==
    ASSUME MaxPlan < SeekLoops
    PROVE  /\ MissionInit => PlainIInv
           /\ MissionIInv /\ PlainIInv /\ [MissionNext]_missionVars => PlainIInv'
<1>1. MissionInit => PlainIInv
  <2> SUFFICES ASSUME MissionInit PROVE PlainIInv
    OBVIOUS
  <2>1. m = Booted /\ m \in Executors
    BY MissionStarts DEF MissionInit, MissionIInv, ExecutorIInv
  <2>2. Forgotten(m)
    BY <2>1, NoCmdType DEF Booted, Forgotten
  <2> QED BY <2>1, <2>2, NoHistoryOrder DEF PlainIInv
<1>2. ASSUME MissionIInv, PlainIInv, MissionNext PROVE PlainIInv'
  <2> SUFFICES ASSUME "edit" \notin meddled', Plain(plan)' PROVE RewindInv(plan, m)'
    BY DEF PlainIInv
  <2>1. "edit" \notin meddled
    <3>1. meddled \subseteq meddled'
      BY <1>2 DEF MissionNext, RunAuto, EnterAuto, ExitAuto, ObstacleStop, RunStart, RunUpdate,
                  MissionStart, SetCurrentItem, JumpToLanding, Disarm, Clear, Truncate, AddCmd,
                  ReplaceCmd, Touch
    <3> QED BY <3>1
  <2>2. plan' = plan
    BY <1>2 DEF MissionNext, RunAuto, EnterAuto, ExitAuto, ObstacleStop, RunStart, RunUpdate,
                MissionStart, SetCurrentItem, JumpToLanding, Disarm, Clear, Truncate, AddCmd,
                ReplaceCmd, Touch
  <2>3. Ordered
    BY <1>2, <2>1, <2>2 DEF Ordered, PlainIInv, Plain
  <2>4. Onward(plan, m, m')
    BY <1>2, <2>3, OrderedStep
  <2> QED BY <2>2, <2>4 DEF Onward, RewindInv
<1>3. PlainIInv /\ UNCHANGED missionVars => PlainIInv'
  BY DEF PlainIInv, missionVars, Plain, RewindInv
<1> QED BY <1>1, <1>2, <1>3

\* and a vehicle that resumes stays short of where it was interrupted.
LEMMA PlainStep ==
    ASSUME MaxPlan < SeekLoops, MissionIInv, PlainIInv, [MissionNext]_missionVars
    PROVE  [Plain(plan) => KeepsOrder]_missionVars
<1> SUFFICES ASSUME MissionNext, Plain(plan), m.resuming, m'.resuming, "edit" \notin meddled'
             PROVE  m'.state # "COMPLETE" /\ m'.nav.index <= Later(m.hist.passed, m.hist.last)
  BY DEF KeepsOrder
<1>1. "edit" \notin meddled
  BY DEF MissionNext, RunAuto, EnterAuto, ExitAuto, ObstacleStop, RunStart, RunUpdate,
         MissionStart, SetCurrentItem, JumpToLanding, Disarm, Clear, Truncate, AddCmd,
         ReplaceCmd, Touch
<1>2. Ordered
  BY <1>1 DEF Ordered, PlainIInv
<1>3. m'.hist = m.hist /\ RewindInv(plan, m')
  BY <1>2, OrderedStep DEF Onward
<1>4. m' \in Executors
  BY MissionStepKeeps DEF MissionIInv, ExecutorIInv
<1>5. /\ m'.hist.passed \in -1..MaxPlan /\ m'.hist.last \in -1..MaxPlan
      /\ m'.nav.index \in -1..MaxPlan
  BY <1>4, HistoryType
<1>6. /\ m'.state # "COMPLETE" /\ m'.nav.index < m'.hist.last
      /\ m'.hist.passed = None \/ m'.hist.passed < m'.hist.last
  BY <1>3 DEF RewindInv
<1> QED BY <1>3, <1>5, <1>6, Numbers DEF Later, None

\* The members of AP_Mission, ModeAuto and its change detector keep their
\* ranges, and no jump is taken, counted or not, more often than its mission
\* says while no edit has changed it and no rewind has resumed it, for any
\* missions and limits of the loops.
THEOREM FlightKeepsLaps == MissionSpec => []MissionTypeOK /\ []JumpsWithinPlan
<1>1. MissionSpec => []MissionIInv
  BY MissionStarts, FlightInductive, PTL DEF MissionSpec
<1> QED BY <1>1, FlightInvMeans, PTL

\* A mission runs in AUTO only, but for a landing sequence whose AUTO was
\* refused: ModeAuto::exit() stops it, and no command or edit starts it
\* elsewhere.
THEOREM MissionRunsInAuto == MissionSpec => []RunsOnlyInAuto
<1>1. MissionSpec => []MissionIInv
  BY MissionStarts, FlightInductive, PTL DEF MissionSpec
<1> QED BY <1>1, FlightInvMeans, PTL

\* In a mission without a JUMP the rewind of resume() keeps the order: until
\* it is back where it was interrupted, the vehicle neither flies past that
\* waypoint nor ends the mission.  With 255 commands or more a mission may
\* exhaust max_loops of advance_current_nav_cmd(), whence the assumption.
THEOREM RewindKeepsPlainOrder ==
    ASSUME MaxPlan < SeekLoops
    PROVE  MissionSpec => PlainRewindKeepsOrder
<1>1. MissionInit => MissionIInv /\ PlainIInv
  BY MissionStarts, PlainInductive
<1>2. MissionIInv /\ PlainIInv /\ [MissionNext]_missionVars => MissionIInv' /\ PlainIInv'
  BY FlightInductive, PlainInductive
<1>3. MissionIInv /\ PlainIInv /\ [MissionNext]_missionVars =>
        [(\A i \in DOMAIN plan : plan[i].id # "JUMP") => KeepsOrder]_missionVars
  BY PlainStep DEF Plain
<1> QED BY <1>1, <1>2, <1>3, PTL DEF MissionSpec, PlainRewindKeepsOrder

\* Upload and flight side by side: a step of the composition is one of either.
LEMMA MissionsSteps ==
    /\ MissionsInit => UploadInit /\ MissionInit
    /\ [MissionsNext]_missionsVars => [UploadNext]_uploadVars /\ [MissionNext]_missionVars
BY DEF MissionsInit, MissionsNext, UploadPart, FlightPart, missionsVars, uploadVars, missionVars

\* Both keep their types in it.
THEOREM MissionsType == MissionsSpec => []MissionsTypeOK
<1>1. MissionsSpec => []UploadTypeOK
  <2>1. UploadIInv /\ [UploadNext]_uploadVars => UploadIInv'
    BY UploadInductive
  <2>2. UploadIInv => UploadTypeOK
    BY DEF UploadIInv
  <2> QED BY <2>1, <2>2, UploadInitial, MissionsSteps, PTL DEF MissionsSpec
<1>2. MissionsSpec => []MissionTypeOK
  BY MissionStarts, FlightInductive, FlightInvMeans, MissionsSteps, PTL DEF MissionsSpec
<1> QED BY <1>1, <1>2, PTL DEF MissionsTypeOK

\* What the run of the composition checks of the lists of an upload, of the
\* laps taken and of AUTO holds of it whatever the constants are.
THEOREM MissionsKeep ==
    MissionsSpec => [](ReceivingHasStore /\ JumpsWithinPlan /\ RunsOnlyInAuto)
<1>1. MissionsSpec => []ReceivingHasStore
  <2>1. UploadIInv /\ [UploadNext]_uploadVars => UploadIInv'
    BY UploadInductive
  <2>2. UploadIInv => ReceivingHasStore
    BY DEF UploadIInv
  <2> QED BY <2>1, <2>2, UploadInitial, MissionsSteps, PTL DEF MissionsSpec
<1>2. MissionsSpec => [](JumpsWithinPlan /\ RunsOnlyInAuto)
  BY MissionStarts, FlightInductive, FlightInvMeans, MissionsSteps, PTL DEF MissionsSpec
<1> QED BY <1>1, <1>2, PTL
=============================================================================
