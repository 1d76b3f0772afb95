---------------------------- MODULE FlashStorage ----------------------------
(***************************************************************************)
(* AP_FlashStorage: the storage of parameters and missions of boards       *)
(* without FRAM, kept as a log of records in two flash sectors.  A sector  *)
(* is AVAILABLE, then IN_USE, then FULL, until it is erased; the newest    *)
(* record of a block is its contents.                                      *)
(*                                                                         *)
(* Power may be lost between any two writes or erases of the flash.  So an *)
(* operation is a function from a machine to a machine that also gathers   *)
(* the flash images it passes through (images): either the operation ends, *)
(* or power is lost and one of these is what the next init() finds.        *)
(*                                                                         *)
(* A record takes one slot of its sector, as on STM32H7 and G4, where a    *)
(* block is max_write bytes; it is written in the three steps of F4 and    *)
(* F7.  The flash itself does not fail.                                    *)
(***************************************************************************)
EXTENDS Integers, FiniteSetsExt

CONSTANTS
    NBlocks,   \* num_blocks
    Values,    \* contents of a block, 0 among them
    Slots      \* records a sector has room for

Blocks == 0..(NBlocks - 1)
Sectors == {0, 1}
Other(s) == 1 - s

\* reserve_size, "to ensure we can successfully do a full write out on init()"
Reserve == NBlocks + 1

ASSUME FlashStorageAssumption ==
    /\ NBlocks \in Nat \ {0} /\ 0 \in Values
    /\ Slots \in Nat /\ Slots > Reserve

VARIABLES
    power,       \* the board is on
    armed,       \* hal.util->get_soft_armed(): no erase in flight
    chip,        \* the flash: headers and logs of both sectors
    ram,         \* cur, offset, reserved, error of AP_FlashStorage
    mem,         \* mem_buffer, which HAL Storage writes before it calls write()
    promised,    \* history: what each block may hold after the next boot
    cutShort,    \* history: power was lost while sectors changed, and no boot has ended since
    lapse        \* history: a way of losing contents that has happened

flashVars == <<power, armed, chip, ram, mem, promised, cutShort, lapse>>

Headers == {"BLANK", "AVAILABLE", "IN_USE", "FULL"}
Empty == [state |-> "AVAILABLE"]
Gap == [state |-> "WRITING"]
Valid(b, v) == [state |-> "VALID", block |-> b, val |-> v]
Records == {Empty, Gap} \cup {Valid(b, v) : b \in Blocks, v \in Values}

EmptyLog == [i \in 0..(Slots - 1) |-> Empty]
Zeroes == [b \in Blocks |-> 0]

Chips == [header : [Sectors -> Headers], log : [Sectors -> [0..(Slots - 1) -> Records]]]
NoRam == [cur |-> 0, offset |-> 0, reserved |-> 0, error |-> FALSE]

-----------------------------------------------------------------------------
(* A machine during an operation: chip and ram, whether flash_erase_ok(),  *)
(* ok for the result of the last call, images for the flash contents       *)
(* passed through.                                                         *)

Machine(c, r, eraseOk) ==
    [chip |-> c, ram |-> r, eraseOk |-> eraseOk, ok |-> TRUE, images |-> {c}]

\* What the flash holds after a write or an erase.
Became(m, c) == [m EXCEPT !.chip = c, !.images = @ \cup {c}]

Mark(m, s, state) == Became(m, [m.chip EXCEPT !.header[s] = state])
Put(m, s, i, r) == Became(m, [m.chip EXCEPT !.log[s][i] = r])
Fail(m) == [m EXCEPT !.ok = FALSE]

\* erase_sector()
EraseSector(m, s, markAvailable) ==
    LET e == Became(m, [m.chip EXCEPT !.header[s] = "BLANK", !.log[s] = EmptyLog])
    IN  IF markAvailable THEN Mark(e, s, "AVAILABLE") ELSE e

\* erase_all()
EraseAll(m) ==
    LET r == [m EXCEPT !.ram.error = FALSE, !.ram.cur = 0, !.ram.offset = 0, !.ok = TRUE]
    IN  Mark(EraseSector(EraseSector(r, 0, FALSE), 1, TRUE), 0, "IN_USE")

\* Bug: the new sector is marked in use before the old one is marked full.
SwitchSectors_InUseFirst(m) ==
    LET new == Other(m.ram.cur)
    IN  IF m.ram.reserved # 0 THEN Fail(m)
        ELSE IF m.chip.header[new] # "AVAILABLE" THEN Fail([m EXCEPT !.ram.error = TRUE])
        ELSE [Mark(Mark(m, new, "IN_USE"), m.ram.cur, "FULL") EXCEPT
                 !.ram.cur = new, !.ram.reserved = Reserve, !.ram.offset = 0, !.ok = TRUE]

\* switch_sectors()
SwitchSectors(m) ==
    LET new == Other(m.ram.cur)
    IN  IF m.ram.reserved # 0 THEN Fail(m)
        ELSE IF m.chip.header[new] # "AVAILABLE" THEN Fail([m EXCEPT !.ram.error = TRUE])
        ELSE [Mark(Mark(m, m.ram.cur, "FULL"), new, "IN_USE") EXCEPT
                 !.ram.cur = new, !.ram.reserved = Reserve, !.ram.offset = 0, !.ok = TRUE]

\* The end of write(): header, data, header again.
WriteRecord(m, b, v) ==
    LET s == m.ram.cur
        i == m.ram.offset
    IN  [Put(Put(m, s, i, Gap), s, i, Valid(b, v)) EXCEPT !.ram.offset = i + 1, !.ok = TRUE]

\* Bug: the record's own room is forgotten.
HasRoom_ForNothing(m) == Slots - m.ram.offset >= m.ram.reserved

HasRoom(m) == Slots - m.ram.offset >= 1 + m.ram.reserved

\* write() within switch_full_sector(), which does not switch again.
WriteWithin(m, data, b) ==
    IF m.ram.error THEN Fail(m)
    ELSE IF HasRoom(m) THEN WriteRecord(m, b, data[b])
    ELSE LET w == SwitchSectors(m)
         IN  IF w.ok THEN WriteRecord(w, b, data[b]) ELSE w

\* The loop of write_all(): the machine when the blocks below n are done with.
PutNonZero(m, data, b, put(_, _, _)) ==
    IF m.ok /\ data[b] # 0 THEN put(m, data, b) ELSE m
WrittenUpTo(m, data, put(_, _, _)) ==
    LET upTo[n \in 0..NBlocks] ==
            IF n = 0 THEN [m EXCEPT !.ok = TRUE]
            ELSE PutNonZero(upTo[n - 1], data, n - 1, put)
    IN  upTo

\* write_all(): every block that is not zero, in order, until one fails.
WriteAll(m, data, put(_, _, _)) == WrittenUpTo(m, data, put)[NBlocks]

\* Bug: the reserve is not given up for the contents it was kept for.
SwitchFullSector_KeepsReserve(m, data) ==
    LET w == WriteAll([m EXCEPT !.ram.error = FALSE], data, WriteWithin)
    IN  IF w.ok THEN SwitchSectors(EraseSector(w, Other(w.ram.cur), TRUE)) ELSE w

\* switch_full_sector() when it has not been called from within itself.
SwitchFullSector(m, data) ==
    LET r == [m EXCEPT !.ram.error = FALSE, !.ram.reserved = 0]
        w == WriteAll(r, data, WriteWithin)
    IN  IF w.ok THEN SwitchSectors(EraseSector(w, Other(w.ram.cur), TRUE)) ELSE w

\* write() of block b, whose contents in data are new.
Write(m, data, b) ==
    IF m.ram.error THEN Fail(m)
    ELSE IF HasRoom(m) THEN WriteRecord(m, b, data[b])
    ELSE LET w == SwitchSectors(m)
             f == SwitchFullSector(w, data)
         IN  IF w.ok THEN WriteRecord(w, b, data[b])
             ELSE IF ~m.eraseOk THEN w
             ELSE IF f.ok THEN WriteRecord(f, b, data[b]) ELSE f
-----------------------------------------------------------------------------
(* init() *)

\* load_sector(): the log ends at the first slot that was never written; an
\* interrupted record is skipped.
End(log) == Min({Slots} \cup {i \in DOMAIN log : log[i] = Empty})

LoadSector(log, data) ==
    [b \in Blocks |->
        LET found == {i \in 0..(End(log) - 1) : log[i].state = "VALID" /\ log[i].block = b}
        IN  IF found = {} THEN data[b] ELSE log[Max(found)].val]

HasState(c, state) == \E s \in Sectors : c.header[s] = state

\* Bug: the sector in use is loaded before the full one.
FirstSector_InUse(c) ==
    IF HasState(c, "IN_USE") THEN CHOOSE s \in Sectors : c.header[s] = "IN_USE"
    ELSE IF HasState(c, "FULL") THEN CHOOSE s \in Sectors : c.header[s] = "FULL"
    ELSE 0

FirstSector(c) ==
    IF HasState(c, "FULL") THEN CHOOSE s \in Sectors : c.header[s] = "FULL"
    ELSE IF HasState(c, "IN_USE") THEN CHOOSE s \in Sectors : c.header[s] = "IN_USE"
    ELSE 0

BadHeaders(c) ==
    HasState(c, "BLANK") \/ (c.header[0] = c.header[1] /\ c.header[0] # "AVAILABLE")

InPlay(c, s) == c.header[s] \in {"IN_USE", "FULL"}

\* What is in mem_buffer once both sectors have been loaded.
Loaded(c) ==
    LET s == FirstSector(c)
        one == IF InPlay(c, s) THEN LoadSector(c.log[s], Zeroes) ELSE Zeroes
    IN  IF BadHeaders(c) THEN Zeroes
        ELSE IF InPlay(c, Other(s)) THEN LoadSector(c.log[Other(s)], one) ELSE one

\* write_offset is left by the last load_sector(); current_sector is set when
\* there is a full sector to be emptied, and by erase_all(), and stays zero
\* otherwise.  A vehicle that boots is disarmed.
Boot(c) ==
    LET first  == FirstSector(c)
        last   == IF InPlay(c, Other(first)) THEN Other(first) ELSE first
        m      == Machine(c, [NoRam EXCEPT !.offset = End(c.log[last])], TRUE)
        full   == WriteAll([m EXCEPT !.ram.cur = Other(first)], Loaded(c), Write)
    IN  IF BadHeaders(c) THEN EraseAll(Machine(c, NoRam, TRUE))
        ELSE IF c.header[first] # "FULL" THEN m
        ELSE IF ~full.ok THEN EraseAll(full)
        ELSE [EraseSector(full, first, TRUE) EXCEPT !.ram.reserved = 0]

HasContents(c) == \E s \in Sectors, i \in 0..(Slots - 1) : c.log[s][i].state = "VALID"

\* This boot erases the flash, or copies a full sector into one that it does
\* not mark in use: nothing is left for the boot after it.
LosesAll(c) == HasContents(c) /\ Loaded(Boot(c).chip) = Zeroes

-----------------------------------------------------------------------------
FlashInit ==
    /\ power = FALSE /\ armed = FALSE
    /\ chip = [header |-> [s \in Sectors |-> "BLANK"], log |-> [s \in Sectors |-> EmptyLog]]
    /\ ram = NoRam /\ mem = Zeroes
    /\ promised = [b \in Blocks |-> {0}] /\ cutShort = FALSE /\ lapse = "none"

PowerOn ==
    /\ ~power /\ power' = TRUE /\ armed' = FALSE
    /\ chip' = Boot(chip).chip /\ ram' = Boot(chip).ram /\ mem' = Loaded(chip)
    /\ promised' = [b \in Blocks |-> {mem'[b]}]
    /\ cutShort' = FALSE
    /\ lapse' = IF lapse = "none" /\ LosesAll(chip) THEN "lost" ELSE lapse

PowerOnCut ==
    /\ ~power /\ chip' \in Boot(chip).images
    /\ cutShort' = TRUE
    /\ lapse' = IF lapse = "none" /\ LosesAll(chip) THEN "lost" ELSE lapse
    /\ UNCHANGED <<power, armed, ram, mem, promised>>

\* The first bytes hold AP_Param's header, which setup() writes before
\* anything else and never sets to zero.
MayStore(b, v) ==
    /\ v # mem[b]
    /\ IF b = 0 THEN v # 0 ELSE mem[0] # 0

\* AP_FlashStorage writes to a sector that init() will not load.
Astray == chip.header[ram.cur] # "IN_USE"

\* HAL Storage has new contents v for block b, or tries again after a write()
\* that failed.  Writes after a loss of everything are not followed: a boot
\* that finds two AVAILABLE sectors leaves write_offset before the header.
Stores(b, v) ==
    /\ power /\ lapse # "lost"
    /\ MayStore(b, v) \/ (v = mem[b] /\ promised[b] # {v})
    /\ lapse' = IF lapse = "none" /\ Astray THEN "astray" ELSE lapse

StoreBlock(b, v) ==
    /\ Stores(b, v)
    /\ mem' = [mem EXCEPT ![b] = v]
    /\ LET m == Write(Machine(chip, ram, ~armed), mem', b)
       IN  /\ chip' = m.chip /\ ram' = m.ram
           /\ promised' = [promised EXCEPT ![b] = IF m.ok THEN {v} ELSE @ \cup {v}]
    /\ UNCHANGED <<power, armed, cutShort>>

\* Power is lost during the write.
StoreBlockCut(b, v) ==
    /\ Stores(b, v)
    /\ chip' \in Write(Machine(chip, ram, ~armed), [mem EXCEPT ![b] = v], b).images
    /\ promised' = [promised EXCEPT ![b] = @ \cup {v}]
    /\ cutShort' = ~HasRoom(Machine(chip, ram, ~armed))
    /\ power' = FALSE /\ armed' = FALSE /\ ram' = NoRam /\ mem' = Zeroes

PowerOff ==
    /\ power /\ power' = FALSE /\ armed' = FALSE /\ ram' = NoRam /\ mem' = Zeroes
    /\ UNCHANGED <<chip, promised, cutShort, lapse>>

ArmOrDisarmBoard ==
    /\ power /\ armed' = ~armed
    /\ UNCHANGED <<power, chip, ram, mem, promised, cutShort, lapse>>

FlashNext ==
    \/ PowerOn \/ PowerOnCut \/ PowerOff \/ ArmOrDisarmBoard
    \/ \E b \in Blocks, v \in Values : StoreBlock(b, v) \/ StoreBlockCut(b, v)

FlashSpec == FlashInit /\ [][FlashNext]_flashVars

-----------------------------------------------------------------------------
(* Properties *)

FlashTypeOK ==
    /\ power \in BOOLEAN /\ armed \in BOOLEAN
    /\ chip \in Chips
    /\ ram \in [cur : Sectors, offset : 0..Slots, reserved : {0, Reserve}, error : BOOLEAN]
    /\ mem \in [Blocks -> Values] /\ promised \in [Blocks -> SUBSET Values]
    /\ cutShort \in BOOLEAN /\ lapse \in {"none", "lost", "astray"}

\* Wherever power is lost next, what write() has said true to is read back by
\* the boot that follows, and a write that was not acknowledged leaves the
\* old contents or the new: unless that boot loses everything, or a lapse
\* as below has happened.
AcknowledgedIsKept ==
    lapse = "none" /\ ~LosesAll(chip) => \A b \in Blocks : Loaded(chip)[b] \in promised[b]

\* No boot loses everything unless power was lost while a write changed
\* sectors or during the boot before, and never for two sectors in use or two
\* full ones, which init() erases; and records only go astray with the second
\* sector alone in use, or none.
LapsesHaveCauses ==
    [][lapse' # lapse =>
         /\ lapse' = "lost" => cutShort /\ ~(chip.header[0] = chip.header[1] /\ InPlay(chip, 0))
         /\ lapse' = "astray" =>
               chip.header[0] = "AVAILABLE" /\ chip.header[1] \in {"AVAILABLE", "IN_USE"}]_flashVars

\* A disarmed vehicle's write always succeeds, full sectors or not.
DisarmedWritesSucceed ==
    [][\A b \in Blocks : Cardinality(promised'[b]) > Cardinality(promised[b]) =>
          armed \/ ~power' \/ lapse' # "none"]_flashVars

\* AP_FlashStorage.cpp:424, on the order in which sectors are marked: "so that
\* a power failure between the two steps doesn't leave us with an erase on
\* the reboot".
PowerFailureInSwitchErasesNothing ==
    [][~power /\ HasState(chip, "FULL") /\ HasState(chip, "AVAILABLE") => ~LosesAll(chip)]_flashVars
=============================================================================
