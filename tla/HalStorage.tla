----------------------------- MODULE HalStorage -----------------------------
(***************************************************************************)
(* ChibiOS's Storage: parameters, missions and fences live in a memory     *)
(* image (_buffer) which a thread of its own (_timer_tick) copies to the   *)
(* non-volatile backend a line at a time.  Writers hold the semaphore only *)
(* while they copy; so does the thread, which writes with it released.     *)
(*                                                                         *)
(* A line is copied and written as a whole; a write cut short by a power   *)
(* loss leaves the old contents or the new.                                *)
(***************************************************************************)
EXTENDS Integers

CONSTANTS
    NLines,      \* CH_STORAGE_NUM_LINES
    Contents,    \* what a line may hold
    Backend,     \* _initialisedType
    Backup       \* load_pdrlfram.bin on the SD card

Lines == 0..(NLines - 1)

ASSUME HalStorageAssumption ==
    /\ NLines \in Nat \ {0}
    /\ Backend \in {"FRAM", "Flash", "SDCard"}
    /\ Backup \in [Lines -> Contents]

VARIABLES
    buffer,    \* _buffer
    dirty,     \* _dirty_mask
    tick,      \* where _timer_tick() is: idle, picked, copied or stored
    line,      \* its i
    tmpline,
    store,     \* the backend's contents
    spoiled    \* history: lines a failed load has changed in memory only

halVars == <<buffer, dirty, tick, line, tmpline, store, spoiled>>

HalTypeOK ==
    /\ buffer \in [Lines -> Contents] /\ store \in [Lines -> Contents]
    /\ dirty \subseteq Lines /\ spoiled \subseteq Lines
    /\ tick \in {"idle", "picked", "copied", "stored"}
    /\ line \in Lines /\ tmpline \in Contents

\* _storage_open() has read the backend.
HalInit ==
    /\ store \in [Lines -> Contents] /\ buffer = store
    /\ dirty = {} /\ spoiled = {}
    /\ tick = "idle" /\ line = 0 /\ tmpline \in Contents

\* Bug: only the first line of a block is marked.
WriteBlock_FirstLine(first, last, src) ==
    LET block == first..last
    IN  /\ \E l \in block : src[l] # buffer[l]
        /\ buffer' = [l \in Lines |-> IF l \in block THEN src[l] ELSE buffer[l]]
        /\ dirty' = dirty \cup {first} /\ spoiled' = spoiled \ block
        /\ UNCHANGED <<tick, line, tmpline, store>>

\* write_block(): nothing if the block is in memory already.
WriteBlock(first, last, src) ==
    LET block == first..last
    IN  /\ \E l \in block : src[l] # buffer[l]
        /\ buffer' = [l \in Lines |-> IF l \in block THEN src[l] ELSE buffer[l]]
        /\ dirty' = dirty \cup block /\ spoiled' = spoiled \ block
        /\ UNCHANGED <<tick, line, tmpline, store>>

\* Bug: the search starts anywhere, dirty or not.
TickPick_Any ==
    /\ tick = "idle" /\ dirty # {} /\ tick' = "picked"
    /\ line' \in Lines
    /\ UNCHANGED <<buffer, dirty, tmpline, store, spoiled>>

TickPick ==
    /\ tick = "idle" /\ dirty # {} /\ tick' = "picked"
    /\ line' \in dirty /\ \A l \in dirty : line' <= l
    /\ UNCHANGED <<buffer, dirty, tmpline, store, spoiled>>

TickCopy ==
    /\ tick = "picked" /\ tick' = "copied"
    /\ tmpline' = buffer[line]
    /\ UNCHANGED <<buffer, dirty, line, store, spoiled>>

\* The FRAM gets the copy; a file and the flash get the line as it is by now.
Written == IF Backend = "FRAM" THEN tmpline ELSE buffer[line]

TickStore ==
    /\ tick = "copied" /\ tick' = "stored"
    /\ store' = [store EXCEPT ![line] = Written]
    /\ UNCHANGED <<buffer, dirty, line, tmpline, spoiled>>

\* The backend reports an error, whether or not it has written.
TickStoreFails ==
    /\ tick = "copied" /\ tick' = "idle"
    /\ store' \in {store, [store EXCEPT ![line] = Written]}
    /\ UNCHANGED <<buffer, dirty, line, tmpline, spoiled>>

\* Bug: the line is taken for clean although it was written to meanwhile.
TickClear_Always ==
    /\ tick = "stored" /\ tick' = "idle"
    /\ dirty' = dirty \ {line}
    /\ UNCHANGED <<buffer, line, tmpline, store, spoiled>>

TickClear ==
    /\ tick = "stored" /\ tick' = "idle"
    /\ dirty' = IF tmpline = buffer[line] THEN dirty \ {line} ELSE dirty
    /\ UNCHANGED <<buffer, line, tmpline, store, spoiled>>

\* load_backup_from_sdcard() has the whole file.  It reads it in chunks but holds
\* the semaphore until the last, so that writers, copies and clears wait for it.
LoadBackup ==
    /\ buffer' = Backup /\ dirty' = Lines /\ spoiled' = {}
    /\ UNCHANGED <<tick, line, tmpline, store>>

\* The file ends, or fails to be read, after n lines: they are in memory, and
\* no line is marked.
LoadBackupFails(n) ==
    /\ buffer' = [l \in Lines |-> IF l < n THEN Backup[l] ELSE buffer[l]]
    /\ spoiled' = spoiled \cup {l \in Lines \ dirty : buffer'[l] # buffer[l]}
    /\ UNCHANGED <<dirty, tick, line, tmpline, store>>

\* Power is lost and the next boot reads the backend.
HalPowerLoss ==
    /\ store' \in IF tick = "copied" THEN {store, [store EXCEPT ![line] = Written]} ELSE {store}
    /\ buffer' = store' /\ dirty' = {} /\ spoiled' = {} /\ tick' = "idle"
    /\ UNCHANGED <<line, tmpline>>

Writers ==
    \/ \E first \in Lines : \E last \in first..(NLines - 1) : \E src \in [first..last -> Contents] :
           WriteBlock(first, last, src)
    \/ LoadBackup
    \/ \E n \in Lines : LoadBackupFails(n)

TimerTick == TickPick \/ TickCopy \/ TickStore \/ TickStoreFails \/ TickClear

HalNext == Writers \/ TimerTick \/ HalPowerLoss

\* The thread runs every millisecond; a backend that is tried for ever does
\* not fail for ever.
HalFairness == WF_halVars(TimerTick) /\ SF_halVars(TickStore)

HalSpec == HalInit /\ [][HalNext]_halVars /\ HalFairness

-----------------------------------------------------------------------------
(* Properties *)

\* A line that is not marked is the same in memory and in the backend: a
\* parameter that has been read back is still there after a power loss.  The
\* exception is a backup that could not be loaded to its end.
CleanMeansStored ==
    \A l \in Lines \ dirty : l \in spoiled \/ buffer[l] = store[l]

\* Storage.cpp:313-318, on the comparison with the copy: "If it matches then
\* we know we can mark the line as clean".
MatchingCopyMeansStored ==
    [][TickClear /\ dirty' # dirty => store[line] = buffer[line]]_halVars

\* Once writers are quiet everything is stored, however writes, failures and
\* the thread have been interleaved before.
QuietMeansStored ==
    <>[][~Writers /\ ~HalPowerLoss]_halVars => <>[](dirty = {})
=============================================================================
