------------------------- MODULE FlashStorage_proofs -------------------------
(***************************************************************************)
(* That the flash log keeps what it has acknowledged, wherever power is    *)
(* lost, for any number of blocks, of values and of slots.                 *)
(***************************************************************************)
EXTENDS FlashStorage, Iteration, FiniteSetTheorems

Logs == [0..(Slots - 1) -> Records]
Data == [Blocks -> Values]
Rams == [cur : Sectors, offset : 0..Slots, reserved : {0, Reserve}, error : BOOLEAN]
Machines ==
    [chip : Chips, ram : Rams, eraseOk : BOOLEAN, ok : BOOLEAN, images : SUBSET Chips]

-----------------------------------------------------------------------------
(* What load_sector() makes of a log                                       *)

\* The log has n records, interrupted ones included.
Tight(log, n) ==
    /\ n \in 0..Slots
    /\ \A i \in 0..(Slots - 1) : log[i] = Empty <=> i >= n

Found(log, b) ==
    {i \in 0..(End(log) - 1) : log[i].state = "VALID" /\ log[i].block = b}

\* Records of different kinds differ.
LEMMA RecordKinds ==
  /\ Empty \in Records /\ Gap \in Records /\ Empty # Gap
  /\ Empty.state # "VALID" /\ Gap.state # "VALID"
  /\ \A b \in Blocks, v \in Values :
        /\ Valid(b, v) \in Records /\ Valid(b, v) # Empty
        /\ Valid(b, v).state = "VALID" /\ Valid(b, v).block = b /\ Valid(b, v).val = v
  /\ \A r \in Records : r.state = "VALID" => r.block \in Blocks /\ r.val \in Values
<1>1. Empty.state = "AVAILABLE" /\ Gap.state = "WRITING"
  BY DEF Empty, Gap
<1>2. \A b \in Blocks, v \in Values :
        Valid(b, v).state = "VALID" /\ Valid(b, v).block = b /\ Valid(b, v).val = v
  BY DEF Valid
<1>3. Empty \in Records /\ Gap \in Records /\ \A b \in Blocks, v \in Values : Valid(b, v) \in Records
  BY DEF Records
<1>4. \A r \in Records : r = Empty \/ r = Gap \/ \E b \in Blocks, v \in Values : r = Valid(b, v)
  BY DEF Records
<1> HIDE DEF Empty, Gap, Valid
<1> QED BY <1>1, <1>2, <1>3, <1>4

\* The end of a log is the number of its records.
LEMMA EndOfTight ==
  ASSUME NEW log \in Logs, NEW n, Tight(log, n)
  PROVE  End(log) = n
<1> USE FlashStorageAssumption
<1> DEFINE S == {Slots} \cup {i \in DOMAIN log : log[i] = Empty}
<1>1. DOMAIN log = 0..(Slots - 1)
  BY DEF Logs
<1>2. n \in S /\ (\A y \in S : n <= y) /\ S \subseteq Nat
  BY <1>1 DEF Tight
<1>3. \A x \in S : (\A y \in S : x <= y) => x = n
  BY <1>2
<1>4. Min(S) = n
  BY <1>2, <1>3 DEF Min
<1> QED BY <1>4 DEF End

\* A log ends where it has room, or at its last slot.
LEMMA EndIsASlot ==
  ASSUME NEW log \in Logs
  PROVE  End(log) \in 0..Slots
<1> USE FlashStorageAssumption
<1> DEFINE S == {Slots} \cup {i \in DOMAIN log : log[i] = Empty}
<1>1. DOMAIN log = 0..(Slots - 1)
  BY DEF Logs
<1>2. S \in SUBSET (0..Slots) /\ S # {}
  BY <1>1
<1>3. End(log) = Min(S)
  BY DEF End
<1> HIDE DEF S
<1>4. \E x \in S : \A y \in S : x <= y
  BY <1>2, LeastExists
<1>5. Min(S) \in S
  BY <1>4 DEF Min
<1> QED BY <1>2, <1>3, <1>5

\* What is loaded of a block is the newest of its records, or what was there.
LEMMA NewestIsLoaded ==
  ASSUME NEW log \in Logs, NEW b \in Blocks
  PROVE  \/ /\ Found(log, b) = {}
            /\ \A data \in Data : LoadSector(log, data)[b] = data[b]
         \/ \E i \in Found(log, b) :
               /\ \A j \in Found(log, b) : i >= j
               /\ i \in 0..(End(log) - 1) /\ i \in 0..(Slots - 1)
               /\ log[i].state = "VALID" /\ log[i].val \in Values
               /\ Max(Found(log, b)) = i
               /\ \A data \in Data : LoadSector(log, data)[b] = log[i].val
<1> USE FlashStorageAssumption
<1>1. End(log) \in 0..Slots
  BY EndIsASlot
<1>2. \A data \in Data : LoadSector(log, data)[b] =
          IF Found(log, b) = {} THEN data[b] ELSE log[Max(Found(log, b))].val
  BY DEF LoadSector, Found
<1>3. CASE Found(log, b) = {}
  BY <1>2, <1>3
<1>4. CASE Found(log, b) # {}
  <2>1. /\ Found(log, b) \subseteq 0..(End(log) - 1) /\ Found(log, b) \subseteq 0..(Slots - 1)
        /\ Found(log, b) \in SUBSET (0..Slots)
    BY <1>1 DEF Found
  <2>2. PICK i \in Found(log, b) : \A j \in Found(log, b) : i >= j
    BY <1>4, <2>1, GreatestExists
  <2>3. \A x \in Found(log, b) : (\A y \in Found(log, b) : x >= y) => x = i
    BY <2>1, <2>2
  <2>4. Max(Found(log, b)) = i
    BY <2>2, <2>3 DEF Max
  <2>5. log[i].state = "VALID" /\ log[i] \in Records
    BY <2>1, <1>1 DEF Found, Logs
  <2>6. log[i].val \in Values
    BY <2>5, RecordKinds
  <2> QED BY <1>2, <1>4, <2>1, <2>2, <2>4, <2>5, <2>6
<1> QED BY <1>3, <1>4

\* Loading gives contents.
LEMMA LoadType ==
  ASSUME NEW log \in Logs, NEW data \in Data
  PROVE  LoadSector(log, data) \in Data
<1>1. \A b \in Blocks : LoadSector(log, data)[b] \in Values
  BY NewestIsLoaded DEF Data
<1>2. LoadSector(log, data) = [b \in Blocks |-> LoadSector(log, data)[b]]
  BY DEF LoadSector
<1> QED BY <1>1, <1>2 DEF Data

\* A log leaves a block alone, or gives it a value of its own.
LEMMA LoadDetermined ==
  ASSUME NEW log \in Logs, NEW b \in Blocks
  PROVE  \/ \A data \in Data : LoadSector(log, data)[b] = data[b]
         \/ \E v \in Values : \A data \in Data : LoadSector(log, data)[b] = v
BY NewestIsLoaded

\* What changes a block is a record.
LEMMA LoadNeedsRecord ==
  ASSUME NEW log \in Logs, NEW data \in Data,
         NEW b \in Blocks, LoadSector(log, data)[b] # data[b]
  PROVE  \E i \in 0..(Slots - 1) : log[i].state = "VALID"
BY NewestIsLoaded

\* An empty log has no record.
LEMMA EmptyLogIsTight ==
  EmptyLog \in Logs /\ Tight(EmptyLog, 0) /\ \A data \in Data : LoadSector(EmptyLog, data) = data
<1> USE FlashStorageAssumption, RecordKinds
<1>1. EmptyLog \in Logs
  BY DEF EmptyLog, Logs
<1>2. Tight(EmptyLog, 0)
  BY DEF EmptyLog, Tight
<1>3. ASSUME NEW data \in Data, NEW b \in Blocks PROVE LoadSector(EmptyLog, data)[b] = data[b]
  <2>1. \A i \in 0..(Slots - 1) : EmptyLog[i].state # "VALID"
    BY DEF EmptyLog
  <2> QED BY <1>1, <1>2, <2>1, LoadNeedsRecord
<1>4. \A data \in Data : LoadSector(EmptyLog, data) = [b \in Blocks |-> LoadSector(EmptyLog, data)[b]]
  BY DEF LoadSector
<1>5. \A data \in Data : data = [b \in Blocks |-> data[b]]
  BY DEF Data
<1> QED BY <1>1, <1>2, <1>3, <1>4, <1>5

\* A record more, interrupted or not.
Appended(log, n, r) == [log EXCEPT ![n] = r]

\* A log with its records at its head stays so as one is added.
LEMMA AppendIsTight ==
  ASSUME NEW log \in Logs, NEW n \in 0..(Slots - 1), Tight(log, n),
         NEW r \in Records, r # Empty
  PROVE  /\ Appended(log, n, r) \in Logs /\ Tight(Appended(log, n, r), n + 1)
         /\ \A b \in Blocks : Found(Appended(log, n, r), b) =
                IF r.state = "VALID" /\ r.block = b THEN Found(log, b) \cup {n} ELSE Found(log, b)
<1> USE FlashStorageAssumption
<1> DEFINE new == Appended(log, n, r)
<1>1. new \in Logs
  BY DEF Logs, Appended
<1>2. new[n] = r /\ \A i \in 0..(Slots - 1) : i # n => new[i] = log[i]
  BY DEF Logs, Appended
<1> HIDE DEF new
<1>3. Tight(new, n + 1)
  BY <1>2 DEF Tight
<1>4. End(log) = n /\ End(new) = n + 1
  BY <1>1, <1>3, EndOfTight
<1>5. ASSUME NEW b \in Blocks
      PROVE Found(new, b) =
                IF r.state = "VALID" /\ r.block = b THEN Found(log, b) \cup {n} ELSE Found(log, b)
  BY <1>2, <1>4 DEF Found
<1> QED BY <1>1, <1>3, <1>5 DEF new

\* An interrupted record is skipped.
LEMMA LoadGap ==
  ASSUME NEW log \in Logs, NEW n \in 0..(Slots - 1), Tight(log, n), NEW data \in Data
  PROVE  LoadSector(Appended(log, n, Gap), data) = LoadSector(log, data)
<1> USE FlashStorageAssumption
<1> DEFINE new == Appended(log, n, Gap)
<1>0. Gap \in Records /\ Gap # Empty /\ Gap.state # "VALID"
  BY RecordKinds
<1>1. /\ new \in Logs /\ Tight(new, n + 1)
      /\ \A b \in Blocks : Found(new, b) = Found(log, b)
  BY <1>0, AppendIsTight
<1>2. \A i \in 0..(n - 1) : new[i] = log[i]
  BY DEF Logs, Appended
<1> HIDE DEF new
<1>3. End(log) = n
  BY EndOfTight
<1>4. ASSUME NEW b \in Blocks PROVE LoadSector(new, data)[b] = LoadSector(log, data)[b]
  BY <1>1, <1>2, <1>3, NewestIsLoaded
<1> QED BY <1>4 DEF LoadSector, new

\* A valid record is the newest of its block.
LEMMA LoadValid ==
  ASSUME NEW log \in Logs, NEW n \in 0..(Slots - 1), Tight(log, n), NEW data \in Data,
         NEW c \in Blocks, NEW v \in Values
  PROVE  LoadSector(Appended(log, n, Valid(c, v)), data) =
             [LoadSector(log, data) EXCEPT ![c] = v]
<1> USE FlashStorageAssumption
<1> DEFINE new == Appended(log, n, Valid(c, v))
<1>0. /\ Valid(c, v) \in Records /\ Valid(c, v) # Empty
      /\ Valid(c, v).state = "VALID" /\ Valid(c, v).block = c
  BY RecordKinds
<1>1. /\ new \in Logs /\ Tight(new, n + 1)
      /\ \A b \in Blocks : Found(new, b) =
             IF b = c THEN Found(log, b) \cup {n} ELSE Found(log, b)
  BY <1>0, AppendIsTight
<1>2. new[n].val = v /\ \A i \in 0..(n - 1) : new[i] = log[i]
  BY RecordKinds DEF Logs, Appended
<1>3. LoadSector(log, data) \in Data
  BY LoadType
<1> HIDE DEF new
<1>4. ASSUME NEW b \in Blocks
      PROVE LoadSector(new, data)[b] = IF b = c THEN v ELSE LoadSector(log, data)[b]
  <2>1. CASE b # c
    <3>1. End(log) = n
      BY EndOfTight
    <3> QED BY <1>1, <1>2, <2>1, <3>1, NewestIsLoaded
  <2>2. CASE b = c
    <3>1. Found(log, c) \subseteq 0..(n - 1)
      BY EndOfTight DEF Found
    <3>2. PICK i \in Found(new, c) :
             /\ \A j \in Found(new, c) : i >= j
             /\ LoadSector(new, data)[c] = new[i].val
      BY <1>1, NewestIsLoaded
    <3>3. i = n
      BY <1>1, <3>1, <3>2
    <3> QED BY <1>2, <2>2, <3>2, <3>3
  <2> QED BY <2>1, <2>2
<1>5. LoadSector(new, data) = [b \in Blocks |-> LoadSector(new, data)[b]]
  BY DEF LoadSector
<1> QED BY <1>3, <1>4, <1>5 DEF new, Data

-----------------------------------------------------------------------------
(* The steps of an operation: what each changes, and that machines stay    *)
(* machines.                                                               *)

\* There are two sectors.
LEMMA SectorFacts ==
  /\ \A s \in Sectors : Other(s) \in Sectors /\ Other(s) # s /\ Other(Other(s)) = s
  /\ \A s, t \in Sectors : t = s \/ t = Other(s)
  /\ 0 \in Sectors /\ 1 \in Sectors
BY DEF Sectors, Other

\* The parts of a chip, of a machine
LEMMA ChipParts ==
  ASSUME NEW c \in Chips, NEW s \in Sectors
  PROVE  c.header[s] \in Headers /\ c.log[s] \in Logs
BY DEF Chips, Logs

\* and of what it has passed through
LEMMA MachineParts ==
  ASSUME NEW m \in Machines
  PROVE  /\ m.chip \in Chips /\ m.ram \in Rams /\ m.ok \in BOOLEAN /\ m.images \subseteq Chips
         /\ m.ram.cur \in Sectors /\ m.ram.offset \in 0..Slots
         /\ m.ram.reserved \in {0, Reserve} /\ m.ram.error \in BOOLEAN
BY DEF Machines, Rams

\* The reserve is less than a sector.
LEMMA ReserveIsNat == Reserve \in Nat /\ Reserve # 0 /\ Slots > Reserve /\ Slots \in Nat
BY FlashStorageAssumption DEF Reserve

\* A mark changes a header.
LEMMA MarkEffect ==
  ASSUME NEW m \in Machines, NEW s \in Sectors, NEW h \in Headers
  PROVE  /\ Mark(m, s, h) \in Machines
         /\ Mark(m, s, h).chip.header[s] = h
         /\ Mark(m, s, h).chip.header[Other(s)] = m.chip.header[Other(s)]
         /\ Mark(m, s, h).chip.log = m.chip.log
         /\ Mark(m, s, h).ram = m.ram /\ Mark(m, s, h).ok = m.ok
         /\ Mark(m, s, h).eraseOk = m.eraseOk
         /\ Mark(m, s, h).images = m.images \cup {Mark(m, s, h).chip}
<1> DEFINE c == [m.chip EXCEPT !.header[s] = h]
<1>1. c \in Chips /\ c.log = m.chip.log
  BY DEF Machines, Chips
<1>2. c.header[s] = h /\ c.header[Other(s)] = m.chip.header[Other(s)]
  BY SectorFacts DEF Machines, Chips
<1> HIDE DEF c
<1>3. Mark(m, s, h) = [m EXCEPT !.chip = c, !.images = @ \cup {c}]
  BY DEF Mark, Became, c
<1> QED BY <1>1, <1>2, <1>3 DEF Machines

\* A put changes a slot of a log.
LEMMA PutEffect ==
  ASSUME NEW m \in Machines, NEW s \in Sectors, NEW i \in 0..(Slots - 1), NEW r \in Records
  PROVE  /\ Put(m, s, i, r) \in Machines
         /\ Put(m, s, i, r).chip.header = m.chip.header
         /\ Put(m, s, i, r).chip.log[s] = Appended(m.chip.log[s], i, r)
         /\ Put(m, s, i, r).chip.log[Other(s)] = m.chip.log[Other(s)]
         /\ Put(m, s, i, r).ram = m.ram /\ Put(m, s, i, r).ok = m.ok
         /\ Put(m, s, i, r).eraseOk = m.eraseOk
         /\ Put(m, s, i, r).images = m.images \cup {Put(m, s, i, r).chip}
<1> DEFINE c == [m.chip EXCEPT !.log[s][i] = r]
<1>1. c \in Chips /\ c.header = m.chip.header
  BY DEF Machines, Chips
<1>2. c.log[s] = Appended(m.chip.log[s], i, r) /\ c.log[Other(s)] = m.chip.log[Other(s)]
  BY SectorFacts DEF Machines, Chips, Appended
<1> HIDE DEF c
<1>3. Put(m, s, i, r) = [m EXCEPT !.chip = c, !.images = @ \cup {c}]
  BY DEF Put, Became, c
<1> QED BY <1>1, <1>2, <1>3 DEF Machines

\* The writes of a record: an interrupted one first.
LEMMA RecordEffect ==
  ASSUME NEW m \in Machines, NEW b \in Blocks, NEW v \in Values, m.ram.offset < Slots
  PROVE  LET w == WriteRecord(m, b, v)
             s == m.ram.cur
             i == m.ram.offset
         IN  /\ w \in Machines /\ w.ok
             /\ w.chip.header = m.chip.header
             /\ w.chip.log[s] = Appended(m.chip.log[s], i, Valid(b, v))
             /\ w.chip.log[Other(s)] = m.chip.log[Other(s)]
             /\ w.ram.cur = s /\ w.ram.offset = i + 1
             /\ w.ram.reserved = m.ram.reserved /\ w.ram.error = m.ram.error
             /\ w.eraseOk = m.eraseOk
             /\ w.images = m.images \cup {Put(m, s, i, Gap).chip, w.chip}
<1> DEFINE s == m.ram.cur
           i == m.ram.offset
           g == Put(m, s, i, Gap)
           p == Put(g, s, i, Valid(b, v))
           w == WriteRecord(m, b, v)
<1>1. s \in Sectors /\ i \in 0..(Slots - 1) /\ Gap \in Records /\ Valid(b, v) \in Records
  BY MachineParts, RecordKinds, ReserveIsNat
<1>2. /\ g \in Machines /\ g.chip.header = m.chip.header
      /\ g.chip.log[s] = Appended(m.chip.log[s], i, Gap)
      /\ g.chip.log[Other(s)] = m.chip.log[Other(s)]
      /\ g.ram = m.ram /\ g.eraseOk = m.eraseOk /\ g.images = m.images \cup {g.chip}
  BY <1>1, PutEffect
<1> HIDE DEF g
<1>3. /\ p \in Machines /\ p.chip.header = g.chip.header
      /\ p.chip.log[s] = Appended(g.chip.log[s], i, Valid(b, v))
      /\ p.chip.log[Other(s)] = g.chip.log[Other(s)]
      /\ p.ram = g.ram /\ p.eraseOk = g.eraseOk /\ p.images = g.images \cup {p.chip}
  BY <1>1, <1>2, PutEffect
<1>4. p.chip.log[s] = Appended(m.chip.log[s], i, Valid(b, v))
  <2>1. m.chip.log[s] \in Logs
    BY <1>1, MachineParts, ChipParts
  <2>2. Appended(Appended(m.chip.log[s], i, Gap), i, Valid(b, v)) = Appended(m.chip.log[s], i, Valid(b, v))
    BY <2>1 DEF Appended, Logs
  <2> QED BY <1>2, <1>3, <2>2
<1> HIDE DEF p
<1>5. w = [p EXCEPT !.ram.offset = i + 1, !.ok = TRUE]
  BY DEF WriteRecord, g, p
<1>6. /\ w \in Machines /\ w.ok /\ w.chip = p.chip /\ w.images = p.images
      /\ w.ram.cur = s /\ w.ram.offset = i + 1
      /\ w.ram.reserved = m.ram.reserved /\ w.ram.error = m.ram.error
      /\ w.eraseOk = m.eraseOk
  <2>1. p \in Machines /\ p.ram = m.ram /\ p.ram \in Rams /\ p.eraseOk = m.eraseOk
    BY <1>2, <1>3, MachineParts
  <2>2. i + 1 \in 0..Slots
    BY <1>1, ReserveIsNat
  <2> HIDE DEF w, i, s
  <2>3. w.ram = [p.ram EXCEPT !.offset = i + 1] /\ w.ram \in Rams
    BY <1>5, <2>1, <2>2 DEF Machines, Rams
  <2>4. w \in Machines /\ w.ok /\ w.chip = p.chip /\ w.images = p.images /\ w.eraseOk = p.eraseOk
    BY <1>5, <2>1, <2>3 DEF Machines
  <2> QED BY <2>1, <2>3, <2>4 DEF s, Rams
<1>7. w.images = m.images \cup {g.chip, w.chip}
  BY <1>2, <1>3, <1>6
<1> HIDE DEF w
<1> QED BY <1>2, <1>3, <1>4, <1>6, <1>7 DEF w, g

\* A call that fails changes nothing.
LEMMA FailEffect ==
  ASSUME NEW m \in Machines
  PROVE  /\ Fail(m) \in Machines /\ ~Fail(m).ok /\ Fail(m).chip = m.chip /\ Fail(m).ram = m.ram
         /\ Fail(m).eraseOk = m.eraseOk /\ Fail(m).images = m.images
BY DEF Fail, Machines

\* An erase leaves a sector blank.
LEMMA EraseEffect ==
  ASSUME NEW m \in Machines, NEW s \in Sectors
  PROVE  LET w == EraseSector(m, s, FALSE)
         IN  /\ w \in Machines
             /\ w.chip.header[s] = "BLANK" /\ w.chip.header[Other(s)] = m.chip.header[Other(s)]
             /\ w.chip.log[s] = EmptyLog /\ w.chip.log[Other(s)] = m.chip.log[Other(s)]
             /\ w.ram = m.ram /\ w.ok = m.ok /\ w.eraseOk = m.eraseOk
             /\ w.images = m.images \cup {w.chip}
<1> DEFINE c == [m.chip EXCEPT !.header[s] = "BLANK", !.log[s] = EmptyLog]
           w == EraseSector(m, s, FALSE)
<1>1. EmptyLog \in Logs /\ "BLANK" \in Headers
  BY EmptyLogIsTight DEF Headers
<1>2. /\ c \in Chips /\ c.header[s] = "BLANK" /\ c.header[Other(s)] = m.chip.header[Other(s)]
      /\ c.log[s] = EmptyLog /\ c.log[Other(s)] = m.chip.log[Other(s)]
  BY <1>1, SectorFacts DEF Machines, Chips, Logs
<1>3. w = Became(m, c)
  BY DEF EraseSector
<1> HIDE DEF c, w
<1>4. /\ w \in Machines /\ w.chip = c /\ w.ram = m.ram /\ w.ok = m.ok
      /\ w.eraseOk = m.eraseOk /\ w.images = m.images \cup {c}
  BY <1>2, <1>3 DEF Became, Machines
<1> QED BY <1>2, <1>4 DEF w

\* The mark that may follow makes it available.
LEMMA EraseAndMarkEffect ==
  ASSUME NEW m \in Machines, NEW s \in Sectors
  PROVE  LET w == EraseSector(m, s, TRUE)
         IN  /\ w \in Machines
             /\ w.chip.header[s] = "AVAILABLE" /\ w.chip.header[Other(s)] = m.chip.header[Other(s)]
             /\ w.chip.log[s] = EmptyLog /\ w.chip.log[Other(s)] = m.chip.log[Other(s)]
             /\ w.ram = m.ram /\ w.ok = m.ok /\ w.eraseOk = m.eraseOk
             /\ w.images = m.images \cup {EraseSector(m, s, FALSE).chip, w.chip}
<1> DEFINE e == EraseSector(m, s, FALSE)
           w == EraseSector(m, s, TRUE)
<1>1. /\ e \in Machines
      /\ e.chip.header[s] = "BLANK" /\ e.chip.header[Other(s)] = m.chip.header[Other(s)]
      /\ e.chip.log[s] = EmptyLog /\ e.chip.log[Other(s)] = m.chip.log[Other(s)]
      /\ e.ram = m.ram /\ e.ok = m.ok /\ e.eraseOk = m.eraseOk
      /\ e.images = m.images \cup {e.chip}
  BY EraseEffect
<1>2. w = Mark(e, s, "AVAILABLE")
  BY DEF EraseSector
<1>3. "AVAILABLE" \in Headers
  BY DEF Headers
<1> HIDE DEF e, w
<1>4. /\ w \in Machines /\ w.chip.header[s] = "AVAILABLE"
      /\ w.chip.header[Other(s)] = e.chip.header[Other(s)] /\ w.chip.log = e.chip.log
      /\ w.ram = e.ram /\ w.ok = e.ok /\ w.eraseOk = e.eraseOk
      /\ w.images = e.images \cup {w.chip}
  BY <1>1, <1>2, <1>3, MarkEffect
<1>5. w.images = m.images \cup {e.chip, w.chip}
  BY <1>1, <1>4
<1> QED BY <1>1, <1>4, <1>5 DEF w, e

\* There is another sector to go on in.
CanSwitch(m) == m.ram.reserved = 0 /\ m.chip.header[Other(m.ram.cur)] = "AVAILABLE"

\* A switch with a reserve in use, or without a sector to go to, changes nothing but the flag.
LEMMA SwitchRefused ==
  ASSUME NEW m \in Machines, ~CanSwitch(m)
  PROVE  LET w == SwitchSectors(m)
         IN  /\ w \in Machines /\ ~w.ok /\ w.chip = m.chip /\ w.images = m.images
             /\ w.ram.cur = m.ram.cur /\ w.ram.offset = m.ram.offset
             /\ w.ram.reserved = m.ram.reserved /\ w.eraseOk = m.eraseOk
<1> DEFINE e == [m EXCEPT !.ram.error = TRUE]
<1>1. e \in Machines /\ e.chip = m.chip /\ e.images = m.images /\ e.eraseOk = m.eraseOk
      /\ e.ram.cur = m.ram.cur /\ e.ram.offset = m.ram.offset /\ e.ram.reserved = m.ram.reserved
  BY DEF Machines, Rams
<1> HIDE DEF e
<1>2. SwitchSectors(m) = IF m.ram.reserved # 0 THEN Fail(m) ELSE Fail(e)
  BY DEF SwitchSectors, CanSwitch, e
<1> QED BY <1>1, <1>2, FailEffect

\* A switch: the full sector is marked before the one in use.
LEMMA SwitchEffect ==
  ASSUME NEW m \in Machines, CanSwitch(m)
  PROVE  LET w == SwitchSectors(m)
             s == m.ram.cur
         IN  /\ w \in Machines /\ w.ok
             /\ w.chip.header[s] = "FULL" /\ w.chip.header[Other(s)] = "IN_USE"
             /\ w.chip.log = m.chip.log
             /\ w.ram.cur = Other(s) /\ w.ram.offset = 0
             /\ w.ram.reserved = Reserve /\ w.ram.error = m.ram.error
             /\ w.eraseOk = m.eraseOk
             /\ w.images = m.images \cup {Mark(m, s, "FULL").chip, w.chip}
<1> DEFINE s == m.ram.cur
           t == Other(s)
           f == Mark(m, s, "FULL")
           u == Mark(f, t, "IN_USE")
           w == SwitchSectors(m)
<1>1. /\ s \in Sectors /\ t \in Sectors /\ Other(t) = s
      /\ "FULL" \in Headers /\ "IN_USE" \in Headers
  BY MachineParts, SectorFacts DEF Headers
<1>2. /\ f \in Machines /\ f.chip.header[s] = "FULL"
      /\ f.chip.header[Other(s)] = m.chip.header[Other(s)] /\ f.chip.log = m.chip.log
      /\ f.ram = m.ram /\ f.eraseOk = m.eraseOk /\ f.images = m.images \cup {f.chip}
  BY <1>1, MarkEffect
<1> HIDE DEF f, t
<1>3. /\ u \in Machines /\ u.chip.header[t] = "IN_USE"
      /\ u.chip.header[Other(t)] = f.chip.header[Other(t)] /\ u.chip.log = f.chip.log
      /\ u.ram = f.ram /\ u.eraseOk = f.eraseOk /\ u.images = f.images \cup {u.chip}
  <2>1. f \in Machines /\ t \in Sectors /\ "IN_USE" \in Headers
    BY <1>1, <1>2
  <2> QED BY <2>1, MarkEffect
<1> HIDE DEF u
<1>4. w = [u EXCEPT !.ram.cur = t, !.ram.reserved = Reserve, !.ram.offset = 0, !.ok = TRUE]
  BY DEF SwitchSectors, CanSwitch, u, f, t
<1>5. /\ w \in Machines /\ w.ok /\ w.chip = u.chip /\ w.images = u.images
      /\ w.ram.cur = t /\ w.ram.offset = 0 /\ w.ram.reserved = Reserve
      /\ w.ram.error = m.ram.error /\ w.eraseOk = m.eraseOk
  <2>1. u \in Machines /\ u.ram \in Rams /\ u.ram.error = m.ram.error /\ u.eraseOk = m.eraseOk
    BY <1>2, <1>3, MachineParts
  <2>2. 0 \in 0..Slots
    BY ReserveIsNat
  <2> HIDE DEF w, s
  <2>3. /\ w.ram = [u.ram EXCEPT !.cur = t, !.reserved = Reserve, !.offset = 0]
        /\ w.ram \in Rams
    BY <1>1, <1>4, <2>1, <2>2 DEF Machines, Rams
  <2>4. w \in Machines /\ w.ok /\ w.chip = u.chip /\ w.images = u.images /\ w.eraseOk = u.eraseOk
    BY <1>4, <2>1, <2>3 DEF Machines
  <2> QED BY <2>1, <2>3, <2>4 DEF Rams
<1>6. w.images = m.images \cup {f.chip, w.chip}
  BY <1>2, <1>3, <1>5
<1> HIDE DEF w
<1> QED BY <1>1, <1>2, <1>3, <1>5, <1>6 DEF w, t, f, CanSwitch

-----------------------------------------------------------------------------
(* Machines stay machines                                                  *)

\* Where there is room there is a slot.
LEMMA RoomIsASlot ==
  ASSUME NEW m \in Machines, HasRoom(m)
  PROVE  m.ram.offset < Slots
BY MachineParts, ReserveIsNat DEF HasRoom

\* switch_sectors() keeps the types,
LEMMA SwitchType ==
  ASSUME NEW m \in Machines
  PROVE  /\ SwitchSectors(m) \in Machines
         /\ SwitchSectors(m).ok => SwitchSectors(m).ram.offset < Slots
<1>1. CASE CanSwitch(m)
  BY <1>1, SwitchEffect, ReserveIsNat
<1>2. CASE ~CanSwitch(m)
  BY <1>2, SwitchRefused
<1> QED BY <1>1, <1>2

\* and so does the end of write(),
LEMMA WriteRecordType ==
  ASSUME NEW m \in Machines, NEW b \in Blocks, NEW v \in Values, m.ram.offset < Slots
  PROVE  WriteRecord(m, b, v) \in Machines
BY RecordEffect

\* a write that does not switch a full sector,
LEMMA WriteWithinType ==
  ASSUME NEW m \in Machines, NEW data \in Data, NEW b \in Blocks
  PROVE  WriteWithin(m, data, b) \in Machines
<1>1. data[b] \in Values
  BY DEF Data
<1>2. Fail(m) \in Machines
  BY FailEffect
<1>3. HasRoom(m) => WriteRecord(m, b, data[b]) \in Machines
  BY <1>1, RoomIsASlot, WriteRecordType
<1>4. /\ SwitchSectors(m) \in Machines
      /\ SwitchSectors(m).ok => WriteRecord(SwitchSectors(m), b, data[b]) \in Machines
  BY <1>1, SwitchType, WriteRecordType
<1> QED BY <1>2, <1>3, <1>4 DEF WriteWithin

\* The loop of write_all() is what its definition says, in switch_full_sector().
LEMMA LoopWithin ==
  ASSUME NEW m \in Machines, NEW data \in Data
  PROVE  LET u == WrittenUpTo(m, data, WriteWithin)
         IN  /\ u \in [0..NBlocks -> Machines] /\ u[0] = [m EXCEPT !.ok = TRUE]
             /\ \A n \in 1..NBlocks : u[n] = PutNonZero(u[n - 1], data, n - 1, WriteWithin)
<1> DEFINE base == [m EXCEPT !.ok = TRUE]
           step == [n \in 1..NBlocks |-> [w \in Machines |-> PutNonZero(w, data, n - 1, WriteWithin)]]
           u == WrittenUpTo(m, data, WriteWithin)
<1>1. NBlocks \in Nat /\ \A n \in 1..NBlocks : n - 1 \in Blocks
  BY FlashStorageAssumption DEF Blocks
<1>2. base \in Machines
  BY DEF Machines
<1>3. \A n \in 1..NBlocks, w \in Machines : PutNonZero(w, data, n - 1, WriteWithin) \in Machines
  BY <1>1, WriteWithinType DEF PutNonZero
<1>4. step \in [1..NBlocks -> [Machines -> Machines]]
  BY <1>3
<1>5. PICK g \in [0..NBlocks -> Machines] :
          g[0] = base /\ \A n \in 1..NBlocks : g[n] = step[n][g[n - 1]]
  <2>1. NBlocks \in Nat
    BY <1>1
  <2> HIDE DEF base, step, u
  <2>2. \E g : Iterates(g, NBlocks, Machines, base, step)
    BY <2>1, <1>2, <1>4, IterationExists
  <2> QED BY <2>2 DEF Iterates
<1>6. g = [n \in 0..NBlocks |-> IF n = 0 THEN base ELSE PutNonZero(g[n - 1], data, n - 1, WriteWithin)]
  <2> HIDE DEF base
  <2>1. \A n \in 1..NBlocks, w \in Machines : step[n][w] = PutNonZero(w, data, n - 1, WriteWithin)
    OBVIOUS
  <2> HIDE DEF step
  <2>2. ASSUME NEW n \in 1..NBlocks PROVE g[n] = PutNonZero(g[n - 1], data, n - 1, WriteWithin)
    BY <1>1, <1>5, <2>1
  <2>3. \A n \in 0..NBlocks : n = 0 \/ n \in 1..NBlocks
    BY <1>1
  <2> QED BY <1>5, <2>2, <2>3
<1>7. u = [n \in 0..NBlocks |-> IF n = 0 THEN base ELSE PutNonZero(u[n - 1], data, n - 1, WriteWithin)]
  BY <1>6 DEF WrittenUpTo
<1>8. u[0] = base /\ \A n \in 1..NBlocks : u[n] = PutNonZero(u[n - 1], data, n - 1, WriteWithin)
  <2> HIDE DEF u, base
  <2> DEFINE v == [n \in 0..NBlocks |-> IF n = 0 THEN base ELSE PutNonZero(u[n - 1], data, n - 1, WriteWithin)]
  <2>1. v[0] = base /\ \A n \in 1..NBlocks : v[n] = PutNonZero(u[n - 1], data, n - 1, WriteWithin)
    BY <1>1
  <2>2. u = v
    BY <1>7
  <2> HIDE DEF v
  <2> QED BY <2>1, <2>2
<1> HIDE DEF u
<1>9. u \in [0..NBlocks -> Machines]
  <2>1. 0..NBlocks \subseteq {n \in 0..NBlocks : u[n] \in Machines}
    <3> DEFINE S == {n \in 0..NBlocks : u[n] \in Machines}
    <3>1. 0 \in S
      BY <1>1, <1>2, <1>8
    <3>2. ASSUME NEW n \in 0..(NBlocks - 1), n \in S PROVE n + 1 \in S
      <4>1. n + 1 \in 1..NBlocks /\ (n + 1) - 1 = n
        BY <1>1
      <4>2. u[n + 1] = PutNonZero(u[n], data, n, WriteWithin)
        BY <1>8, <4>1
      <4>3. PutNonZero(u[n], data, (n + 1) - 1, WriteWithin) \in Machines
        BY <1>3, <3>2, <4>1
      <4> QED BY <4>1, <4>2, <4>3
    <3> HIDE DEF S
    <3> QED BY <1>1, <3>1, <3>2, LoopInduction DEF S
  <2> QED BY <1>7, <2>1
<1> QED BY <1>8, <1>9 DEF u

\* a copy of all blocks with such writes, by induction over the blocks,
LEMMA WriteAllWithinType ==
  ASSUME NEW m \in Machines, NEW data \in Data
  PROVE  WriteAll(m, data, WriteWithin) \in Machines
<1>1. NBlocks \in 0..NBlocks
  BY FlashStorageAssumption
<1> DEFINE u == WrittenUpTo(m, data, WriteWithin)
<1>2. u \in [0..NBlocks -> Machines]
  BY LoopWithin
<1> HIDE DEF u
<1>3. u[NBlocks] \in Machines
  BY <1>1, <1>2
<1> QED BY <1>3 DEF WriteAll, u

\* a switch that erases,
LEMMA SwitchFullSectorType ==
  ASSUME NEW m \in Machines, NEW data \in Data
  PROVE  /\ SwitchFullSector(m, data) \in Machines
         /\ SwitchFullSector(m, data).ok => SwitchFullSector(m, data).ram.offset < Slots
<1> DEFINE r == [m EXCEPT !.ram.error = FALSE, !.ram.reserved = 0]
           w == WriteAll(r, data, WriteWithin)
           e == EraseSector(w, Other(w.ram.cur), TRUE)
<1>1. r \in Machines
  BY ReserveIsNat DEF Machines, Rams
<1> HIDE DEF r
<1>2. w \in Machines
  BY <1>1, WriteAllWithinType
<1> HIDE DEF w
<1>3. Other(w.ram.cur) \in Sectors
  BY <1>2, MachineParts, SectorFacts
<1>4. e \in Machines
  BY <1>2, <1>3, EraseAndMarkEffect
<1> HIDE DEF e
<1>5. /\ SwitchSectors(e) \in Machines
      /\ SwitchSectors(e).ok => SwitchSectors(e).ram.offset < Slots
  BY <1>4, SwitchType
<1>6. SwitchFullSector(m, data) = IF w.ok THEN SwitchSectors(e) ELSE w
  BY DEF SwitchFullSector, r, w, e
<1> QED BY <1>2, <1>5, <1>6

\* a write that may do all this,
LEMMA WriteType ==
  ASSUME NEW m \in Machines, NEW data \in Data, NEW b \in Blocks
  PROVE  Write(m, data, b) \in Machines
<1> DEFINE w == SwitchSectors(m)
           f == SwitchFullSector(w, data)
<1>1. data[b] \in Values
  BY DEF Data
<1>2. Fail(m) \in Machines
  BY FailEffect
<1>3. HasRoom(m) => WriteRecord(m, b, data[b]) \in Machines
  BY <1>1, RoomIsASlot, WriteRecordType
<1>4. w \in Machines /\ (w.ok => w.ram.offset < Slots)
  BY SwitchType
<1> HIDE DEF w
<1>5. w.ok => WriteRecord(w, b, data[b]) \in Machines
  BY <1>1, <1>4, WriteRecordType
<1>6. f \in Machines /\ (f.ok => f.ram.offset < Slots)
  BY <1>4, SwitchFullSectorType
<1> HIDE DEF f
<1>7. f.ok => WriteRecord(f, b, data[b]) \in Machines
  BY <1>1, <1>6, WriteRecordType
<1>8. Write(m, data, b) =
         IF m.ram.error THEN Fail(m)
         ELSE IF HasRoom(m) THEN WriteRecord(m, b, data[b])
         ELSE IF w.ok THEN WriteRecord(w, b, data[b])
         ELSE IF ~m.eraseOk THEN w
         ELSE IF f.ok THEN WriteRecord(f, b, data[b]) ELSE f
  BY DEF Write, w, f
<1> QED BY <1>2, <1>3, <1>4, <1>5, <1>6, <1>7, <1>8

\* The same in init(), where write() may switch sectors.
LEMMA LoopWrite ==
  ASSUME NEW m \in Machines, NEW data \in Data
  PROVE  LET u == WrittenUpTo(m, data, Write)
         IN  /\ u \in [0..NBlocks -> Machines] /\ u[0] = [m EXCEPT !.ok = TRUE]
             /\ \A n \in 1..NBlocks : u[n] = PutNonZero(u[n - 1], data, n - 1, Write)
<1> DEFINE base == [m EXCEPT !.ok = TRUE]
           step == [n \in 1..NBlocks |-> [w \in Machines |-> PutNonZero(w, data, n - 1, Write)]]
           u == WrittenUpTo(m, data, Write)
<1>1. NBlocks \in Nat /\ \A n \in 1..NBlocks : n - 1 \in Blocks
  BY FlashStorageAssumption DEF Blocks
<1>2. base \in Machines
  BY DEF Machines
<1>3. \A n \in 1..NBlocks, w \in Machines : PutNonZero(w, data, n - 1, Write) \in Machines
  BY <1>1, WriteType DEF PutNonZero
<1>4. step \in [1..NBlocks -> [Machines -> Machines]]
  BY <1>3
<1>5. PICK g \in [0..NBlocks -> Machines] :
          g[0] = base /\ \A n \in 1..NBlocks : g[n] = step[n][g[n - 1]]
  <2>1. NBlocks \in Nat
    BY <1>1
  <2> HIDE DEF base, step, u
  <2>2. \E g : Iterates(g, NBlocks, Machines, base, step)
    BY <2>1, <1>2, <1>4, IterationExists
  <2> QED BY <2>2 DEF Iterates
<1>6. g = [n \in 0..NBlocks |-> IF n = 0 THEN base ELSE PutNonZero(g[n - 1], data, n - 1, Write)]
  <2> HIDE DEF base
  <2>1. \A n \in 1..NBlocks, w \in Machines : step[n][w] = PutNonZero(w, data, n - 1, Write)
    OBVIOUS
  <2> HIDE DEF step
  <2>2. ASSUME NEW n \in 1..NBlocks PROVE g[n] = PutNonZero(g[n - 1], data, n - 1, Write)
    BY <1>1, <1>5, <2>1
  <2>3. \A n \in 0..NBlocks : n = 0 \/ n \in 1..NBlocks
    BY <1>1
  <2> QED BY <1>5, <2>2, <2>3
<1>7. u = [n \in 0..NBlocks |-> IF n = 0 THEN base ELSE PutNonZero(u[n - 1], data, n - 1, Write)]
  BY <1>6 DEF WrittenUpTo
<1>8. u[0] = base /\ \A n \in 1..NBlocks : u[n] = PutNonZero(u[n - 1], data, n - 1, Write)
  <2> HIDE DEF u, base
  <2> DEFINE v == [n \in 0..NBlocks |-> IF n = 0 THEN base ELSE PutNonZero(u[n - 1], data, n - 1, Write)]
  <2>1. v[0] = base /\ \A n \in 1..NBlocks : v[n] = PutNonZero(u[n - 1], data, n - 1, Write)
    BY <1>1
  <2>2. u = v
    BY <1>7
  <2> HIDE DEF v
  <2> QED BY <2>1, <2>2
<1> HIDE DEF u
<1>9. u \in [0..NBlocks -> Machines]
  <2>1. 0..NBlocks \subseteq {n \in 0..NBlocks : u[n] \in Machines}
    <3> DEFINE S == {n \in 0..NBlocks : u[n] \in Machines}
    <3>1. 0 \in S
      BY <1>1, <1>2, <1>8
    <3>2. ASSUME NEW n \in 0..(NBlocks - 1), n \in S PROVE n + 1 \in S
      <4>1. n + 1 \in 1..NBlocks /\ (n + 1) - 1 = n
        BY <1>1
      <4>2. u[n + 1] = PutNonZero(u[n], data, n, Write)
        BY <1>8, <4>1
      <4>3. PutNonZero(u[n], data, (n + 1) - 1, Write) \in Machines
        BY <1>3, <3>2, <4>1
      <4> QED BY <4>1, <4>2, <4>3
    <3> HIDE DEF S
    <3> QED BY <1>1, <3>1, <3>2, LoopInduction DEF S
  <2> QED BY <1>7, <2>1
<1> QED BY <1>8, <1>9 DEF u

\* and the copy of all blocks in a boot.
LEMMA WriteAllType ==
  ASSUME NEW m \in Machines, NEW data \in Data
  PROVE  WriteAll(m, data, Write) \in Machines
<1>1. NBlocks \in 0..NBlocks
  BY FlashStorageAssumption
<1> DEFINE u == WrittenUpTo(m, data, Write)
<1>2. u \in [0..NBlocks -> Machines]
  BY LoopWrite
<1> HIDE DEF u
<1>3. u[NBlocks] \in Machines
  BY <1>1, <1>2
<1> QED BY <1>3 DEF WriteAll, u

-----------------------------------------------------------------------------
(* Booting                                                                 *)

\* The sector init() starts with: a full one, or else one in use.
LEMMA FirstSectorFacts ==
  ASSUME NEW c \in Chips
  PROVE  /\ FirstSector(c) \in Sectors
         /\ HasState(c, "FULL") => c.header[FirstSector(c)] = "FULL"
         /\ ~HasState(c, "FULL") /\ HasState(c, "IN_USE") => c.header[FirstSector(c)] = "IN_USE"
BY SectorFacts DEF FirstSector, HasState

\* What a boot reads is contents.
LEMMA LoadedType ==
  ASSUME NEW c \in Chips
  PROVE  Loaded(c) \in Data
<1> DEFINE s == FirstSector(c)
           one == IF InPlay(c, s) THEN LoadSector(c.log[s], Zeroes) ELSE Zeroes
<1>1. s \in Sectors /\ Other(s) \in Sectors
  BY FirstSectorFacts, SectorFacts
<1>2. c.log[s] \in Logs /\ c.log[Other(s)] \in Logs
  BY <1>1, ChipParts
<1>3. Zeroes \in Data
  BY FlashStorageAssumption DEF Zeroes, Data
<1> HIDE DEF s
<1>4. one \in Data
  BY <1>2, <1>3, LoadType
<1> HIDE DEF one
<1>5. LoadSector(c.log[Other(s)], one) \in Data
  BY <1>2, <1>4, LoadType
<1>6. Loaded(c) = IF BadHeaders(c) THEN Zeroes
                  ELSE IF InPlay(c, Other(s)) THEN LoadSector(c.log[Other(s)], one) ELSE one
  BY DEF Loaded, s, one
<1> QED BY <1>3, <1>4, <1>5, <1>6

\* An operation starts with what the flash and the board hold.
LEMMA MachineType ==
  ASSUME NEW c \in Chips, NEW r \in Rams, NEW e \in BOOLEAN
  PROVE  /\ Machine(c, r, e) \in Machines
         /\ Machine(c, r, e).chip = c /\ Machine(c, r, e).ram = r /\ Machine(c, r, e).eraseOk = e
         /\ Machine(c, r, e).ok /\ Machine(c, r, e).images = {c}
BY DEF Machine, Machines

\* Two sectors in use, or two full ones: what init() erases.
Alike(c) == c.header[0] = c.header[1] /\ InPlay(c, 0)

\* Two sectors alike are both in use or both full.
LEMMA AlikeFacts ==
  ASSUME NEW c, Alike(c), NEW s \in Sectors
  PROVE  c.header[s] \in {"IN_USE", "FULL"} /\ c.header[Other(s)] = c.header[s]
BY DEF Alike, InPlay, Sectors, Other

\* A flash some of whose sectors have been erased.
Emptier(d, c) ==
    /\ d \in Chips /\ ~Alike(d)
    /\ \A s \in Sectors :
          d.log[s] = EmptyLog \/ (d.log[s] = c.log[s] /\ d.header[s] = c.header[s])

\* init() starts over with an empty sector in use.
LEMMA EraseAllEffect ==
  ASSUME NEW m \in Machines
  PROVE  LET w == EraseAll(m)
         IN  /\ w \in Machines
             /\ w.chip.header[0] = "IN_USE" /\ w.chip.header[1] = "AVAILABLE"
             /\ w.chip.log[0] = EmptyLog /\ w.chip.log[1] = EmptyLog
             /\ w.ram.cur = 0 /\ w.ram.offset = 0 /\ w.ram.reserved = m.ram.reserved
             /\ ~w.ram.error
             /\ \A d \in w.images : d \in m.images \/ Emptier(d, m.chip)
<1> DEFINE r == [m EXCEPT !.ram.error = FALSE, !.ram.cur = 0, !.ram.offset = 0, !.ok = TRUE]
           e == EraseSector(r, 0, FALSE)
           f == EraseSector(e, 1, TRUE)
           w == EraseAll(m)
<1>1. /\ r \in Machines /\ r.chip = m.chip /\ r.images = m.images
      /\ r.ram.cur = 0 /\ r.ram.offset = 0 /\ r.ram.reserved = m.ram.reserved
      /\ ~r.ram.error
  <2>1. 0 \in 0..Slots /\ 0 \in Sectors
    BY SectorFacts, ReserveIsNat
  <2>2. m.ram \in Rams
    BY MachineParts
  <2> DEFINE x == [m.ram EXCEPT !.error = FALSE, !.cur = 0, !.offset = 0]
  <2>3. x \in Rams /\ x.cur = 0 /\ x.offset = 0 /\ x.reserved = m.ram.reserved /\ ~x.error
    BY <2>1, <2>2 DEF Rams
  <2>4. r = [m EXCEPT !.ram = x, !.ok = TRUE]
    BY DEF Machines
  <2> HIDE DEF x, r
  <2> QED BY <2>3, <2>4 DEF Machines
<1> HIDE DEF r
<1>2. 0 \in Sectors /\ 1 \in Sectors /\ Other(0) = 1 /\ Other(1) = 0
  BY DEF Sectors, Other
<1>3. /\ e \in Machines /\ e.chip.header[0] = "BLANK" /\ e.chip.header[1] = m.chip.header[1]
      /\ e.chip.log[0] = EmptyLog /\ e.chip.log[1] = m.chip.log[1] /\ e.ram = r.ram
      /\ e.images = r.images \cup {e.chip}
  <2>1. r \in Machines /\ 0 \in Sectors
    BY <1>1, <1>2
  <2> HIDE DEF e, f, w
  <2>2. /\ e \in Machines /\ e.chip.header[0] = "BLANK"
        /\ e.chip.header[Other(0)] = r.chip.header[Other(0)]
        /\ e.chip.log[0] = EmptyLog /\ e.chip.log[Other(0)] = r.chip.log[Other(0)] /\ e.ram = r.ram
        /\ e.images = r.images \cup {e.chip}
    BY <2>1, EraseEffect DEF e
  <2> QED BY <1>1, <1>2, <2>2
<1> HIDE DEF e
<1>4. /\ f \in Machines /\ f.chip.header[1] = "AVAILABLE" /\ f.chip.header[0] = e.chip.header[0]
      /\ f.chip.log[1] = EmptyLog /\ f.chip.log[0] = e.chip.log[0] /\ f.ram = e.ram
      /\ \E c \in Chips : /\ c.log[0] = EmptyLog /\ c.log[1] = EmptyLog /\ c.header[1] = "BLANK"
                          /\ f.images = e.images \cup {c, f.chip}
  <2> DEFINE g == EraseSector(e, 1, FALSE)
  <2>1. e \in Machines /\ 1 \in Sectors
    BY <1>2, <1>3
  <2> HIDE DEF f, w
  <2>2. /\ f \in Machines /\ f.chip.header[1] = "AVAILABLE"
        /\ f.chip.header[Other(1)] = e.chip.header[Other(1)]
        /\ f.chip.log[1] = EmptyLog /\ f.chip.log[Other(1)] = e.chip.log[Other(1)] /\ f.ram = e.ram
        /\ f.images = e.images \cup {g.chip, f.chip}
    BY <2>1, EraseAndMarkEffect DEF f
  <2>3. /\ g \in Machines /\ g.chip.header[1] = "BLANK"
        /\ g.chip.log[1] = EmptyLog /\ g.chip.log[Other(1)] = e.chip.log[Other(1)]
    BY <2>1, EraseEffect
  <2>4. g.chip \in Chips
    BY <2>3, MachineParts
  <2> HIDE DEF g
  <2> QED BY <1>2, <1>3, <2>2, <2>3, <2>4
<1> HIDE DEF f
<1>5. "IN_USE" \in Headers
  BY DEF Headers
<1>6. /\ w \in Machines /\ w.chip.header[0] = "IN_USE" /\ w.chip.header[1] = f.chip.header[1]
      /\ w.chip.log = f.chip.log /\ w.ram = f.ram /\ w.images = f.images \cup {w.chip}
  <2>1. w = Mark(f, 0, "IN_USE")
    BY DEF EraseAll, r, e, f
  <2> HIDE DEF w
  <2> QED BY <1>2, <1>4, <1>5, <2>1, MarkEffect
<1> HIDE DEF w
<1>7. e.chip \in Chips /\ f.chip \in Chips /\ w.chip \in Chips
  BY <1>3, <1>4, <1>6, MachineParts
<1>8. \A s \in Sectors : s = 0 \/ s = 1
  BY DEF Sectors
<1>9. Emptier(e.chip, m.chip) /\ Emptier(f.chip, m.chip) /\ Emptier(w.chip, m.chip)
  <2>1. ~Alike(e.chip) /\ ~Alike(f.chip) /\ ~Alike(w.chip)
    BY <1>2, <1>3, <1>4, <1>6, AlikeFacts
  <2> QED BY <1>3, <1>4, <1>6, <1>7, <1>8, <2>1 DEF Emptier
<1>10. \A d \in f.images : d \in m.images \/ Emptier(d, m.chip)
  <2>1. PICK c \in Chips : /\ c.log[0] = EmptyLog /\ c.log[1] = EmptyLog /\ c.header[1] = "BLANK"
                          /\ f.images = e.images \cup {c, f.chip}
    BY <1>4
  <2>2. ~Alike(c)
    BY <1>2, <2>1, AlikeFacts
  <2>3. Emptier(c, m.chip)
    BY <1>8, <2>1, <2>2 DEF Emptier
  <2> QED BY <1>1, <1>3, <1>9, <2>1, <2>3
<1>11. \A d \in w.images : d \in m.images \/ Emptier(d, m.chip)
  BY <1>6, <1>9, <1>10
<1> QED BY <1>1, <1>3, <1>4, <1>6, <1>11 DEF w

\* A boot leads from a machine to a machine.
LEMMA BootType ==
  ASSUME NEW c \in Chips
  PROVE  Boot(c) \in Machines
<1> DEFINE first == FirstSector(c)
           last == IF InPlay(c, Other(first)) THEN Other(first) ELSE first
           ram0 == [NoRam EXCEPT !.offset = End(c.log[last])]
           m == Machine(c, ram0, TRUE)
           copying == [m EXCEPT !.ram.cur = Other(first)]
           full == WriteAll(copying, Loaded(c), Write)
           done == EraseSector(full, first, TRUE)
<1>1. first \in Sectors /\ Other(first) \in Sectors /\ last \in Sectors
  BY FirstSectorFacts, SectorFacts
<1>2. End(c.log[last]) \in 0..Slots
  BY <1>1, ChipParts, EndIsASlot
<1>3. ram0 \in Rams /\ NoRam \in Rams
  <2>1. NoRam \in Rams
    BY SectorFacts, ReserveIsNat DEF NoRam, Rams
  <2> QED BY <1>2, <2>1 DEF Rams
<1> HIDE DEF ram0, first
<1>4. m \in Machines
  BY <1>3, MachineType
<1> HIDE DEF m
<1>5. copying \in Machines
  BY <1>1, <1>4 DEF Machines, Rams
<1> HIDE DEF copying
<1>6. full \in Machines
  BY <1>5, LoadedType, WriteAllType
<1> HIDE DEF full
<1>7. done \in Machines
  BY <1>1, <1>6, EraseAndMarkEffect
<1> HIDE DEF done
<1>8. [done EXCEPT !.ram.reserved = 0] \in Machines
  BY <1>7 DEF Machines, Rams
<1>9. EraseAll(full) \in Machines /\ EraseAll(Machine(c, NoRam, TRUE)) \in Machines
  BY <1>3, <1>6, MachineType, EraseAllEffect
<1>10. Boot(c) = IF BadHeaders(c) THEN EraseAll(Machine(c, NoRam, TRUE))
                 ELSE IF c.header[first] # "FULL" THEN m
                 ELSE IF ~full.ok THEN EraseAll(full)
                 ELSE [done EXCEPT !.ram.reserved = 0]
  BY DEF Boot, first, ram0, m, copying, full, done
<1> QED BY <1>4, <1>8, <1>9, <1>10

\* The machine write() starts from.
LEMMA StartType ==
  ASSUME FlashTypeOK
  PROVE  /\ Machine(chip, ram, ~armed) \in Machines
         /\ \A b \in Blocks, v \in Values : [mem EXCEPT ![b] = v] \in Data
BY MachineType DEF FlashTypeOK, Rams, Data

\* Headers, logs and the driver's counters stay what they are, whatever is
\* written, refused, switched, erased, cut short and booted.
THEOREM FlashType == FlashSpec => []FlashTypeOK
<1> USE DEF FlashTypeOK
<1>1. FlashInit => FlashTypeOK
  <2> SUFFICES ASSUME FlashInit PROVE FlashTypeOK
    OBVIOUS
  <2>1. /\ EmptyLog \in Logs /\ NoRam \in Rams /\ 0 \in Values
        /\ "BLANK" \in Headers
    BY EmptyLogIsTight, SectorFacts, ReserveIsNat, FlashStorageAssumption DEF NoRam, Rams, Headers
  <2>2. chip \in Chips
    BY <2>1 DEF FlashInit, Chips, Logs
  <2> QED BY <2>1, <2>2 DEF FlashInit, Rams, Zeroes
<1>2. FlashTypeOK /\ [FlashNext]_flashVars => FlashTypeOK'
  <2> SUFFICES ASSUME FlashTypeOK, [FlashNext]_flashVars PROVE FlashTypeOK'
    OBVIOUS
  <2>0. NoRam \in Rams /\ Zeroes \in Data
    BY SectorFacts, ReserveIsNat, FlashStorageAssumption DEF NoRam, Rams, Zeroes, Data
  <2>1. CASE PowerOn
    <3>1. Boot(chip) \in Machines /\ Loaded(chip) \in Data
      BY BootType, LoadedType
    <3>2. Boot(chip).chip \in Chips /\ Boot(chip).ram \in Rams
      BY <3>1, MachineParts
    <3>3. promised' \in [Blocks -> SUBSET Values]
      BY <2>1, <3>1 DEF PowerOn, Data
    <3>4. power' \in BOOLEAN /\ armed' \in BOOLEAN /\ cutShort' \in BOOLEAN
          /\ lapse' \in {"none", "lost", "astray"}
      BY <2>1 DEF PowerOn
    <3>5. chip' \in Chips /\ ram' \in Rams /\ mem' \in Data
      BY <2>1, <3>1, <3>2 DEF PowerOn
    <3> QED BY <3>3, <3>4, <3>5 DEF Rams, Data
  <2>2. CASE PowerOnCut
    <3>1. Boot(chip).images \subseteq Chips
      BY BootType, MachineParts
    <3> QED BY <2>2, <3>1 DEF PowerOnCut
  <2>3. CASE PowerOff
    BY <2>0, <2>3 DEF PowerOff, Rams, Data
  <2>4. CASE ArmOrDisarmBoard
    BY <2>4 DEF ArmOrDisarmBoard
  <2>5. ASSUME NEW b \in Blocks, NEW v \in Values, StoreBlock(b, v) PROVE FlashTypeOK'
    <3> DEFINE data == [mem EXCEPT ![b] = v]
               m == Write(Machine(chip, ram, ~armed), data, b)
    <3>1. data \in Data /\ Machine(chip, ram, ~armed) \in Machines
      BY StartType
    <3>2. m \in Machines
      BY <3>1, WriteType
    <3>3. m.chip \in Chips /\ m.ram \in Rams
      BY <3>2, MachineParts
    <3>4. /\ mem' = data /\ chip' = m.chip /\ ram' = m.ram
          /\ promised' = [promised EXCEPT ![b] = IF m.ok THEN {v} ELSE @ \cup {v}]
          /\ lapse' \in {lapse, "astray"} /\ UNCHANGED <<power, armed, cutShort>>
      BY <2>5 DEF StoreBlock, Stores
    <3> HIDE DEF m
    <3>5. promised' \in [Blocks -> SUBSET Values]
      BY <3>4
    <3> QED BY <3>1, <3>3, <3>4, <3>5 DEF Rams, Data
  <2>6. ASSUME NEW b \in Blocks, NEW v \in Values, StoreBlockCut(b, v) PROVE FlashTypeOK'
    <3> DEFINE data == [mem EXCEPT ![b] = v]
               m == Write(Machine(chip, ram, ~armed), data, b)
    <3>1. data \in Data /\ Machine(chip, ram, ~armed) \in Machines
      BY StartType
    <3>2. m.images \subseteq Chips
      BY <3>1, WriteType, MachineParts
    <3>3. /\ chip' \in m.images /\ promised' = [promised EXCEPT ![b] = @ \cup {v}]
          /\ cutShort' \in BOOLEAN /\ power' = FALSE /\ armed' = FALSE
          /\ ram' = NoRam /\ mem' = Zeroes /\ lapse' \in {lapse, "astray"}
      BY <2>6 DEF StoreBlockCut, Stores, HasRoom
    <3> HIDE DEF m
    <3>4. promised' \in [Blocks -> SUBSET Values]
      BY <3>3
    <3> QED BY <2>0, <3>2, <3>3, <3>4 DEF Rams, Data
  <2>7. CASE UNCHANGED flashVars
    BY <2>7 DEF flashVars
  <2> QED BY <2>1, <2>2, <2>3, <2>4, <2>5, <2>6, <2>7 DEF FlashNext
<1> QED BY <1>1, <1>2, PTL DEF FlashSpec

-----------------------------------------------------------------------------
(* What a flash keeps                                                      *)

\* Every log has been written from its start on, and what is available is empty.
LogsOK(c) ==
    \A s \in Sectors :
        /\ \E n \in 0..Slots : Tight(c.log[s], n)
        /\ c.header[s] = "AVAILABLE" => c.log[s] = EmptyLog

\* A boot finds for every block one of the contents it may have.
Sound(c, P) == c \in Chips /\ LogsOK(c) /\ \A b \in Blocks : Loaded(c)[b] \in P[b]

\* The same, unless the boot loses everything; and never for two sectors alike.
Keeps(c, P) == c \in Chips /\ ~Alike(c) /\ (LosesAll(c) \/ Sound(c, P))

\* Sector s can be written to, from record n on.
Writable(c, s, n) ==
    /\ c \in Chips /\ s \in Sectors
    /\ c.header[s] = "IN_USE" /\ c.header[Other(s)] \in {"FULL", "AVAILABLE"}
    /\ LogsOK(c) /\ Tight(c.log[s], n)

\* What sector s adds to.
Base(c, s) ==
    IF c.header[Other(s)] = "FULL" THEN LoadSector(c.log[Other(s)], Zeroes) ELSE Zeroes

\* A machine that may write: room is reserved only while a full sector is
\* there, and power may be lost at any time.
Ready(m, P) ==
    /\ m \in Machines
    /\ Writable(m.chip, m.ram.cur, m.ram.offset)
    /\ m.ram.reserved # 0 => m.chip.header[Other(m.ram.cur)] = "FULL"
    /\ \A b \in Blocks : Loaded(m.chip)[b] \in P[b]
    /\ \A d \in m.images : Keeps(d, P)

\* The inductive invariant.
Kept ==
    lapse = "none" =>
        /\ Keeps(chip, promised)
        /\ power =>
              /\ Sound(chip, promised)
              /\ \A b \in Blocks : mem[b] \in promised[b]
              /\ ~Astray =>
                    /\ Writable(chip, ram.cur, ram.offset)
                    /\ ram.reserved # 0 => chip.header[Other(ram.cur)] = "FULL"

\* The headers of a flash that can be written to.
LEMMA WritableHeaders ==
  ASSUME NEW c, NEW s, NEW n, Writable(c, s, n)
  PROVE  /\ c \in Chips /\ s \in Sectors /\ Other(s) \in Sectors /\ Other(s) # s /\ Other(Other(s)) = s
         /\ c.header[s] = "IN_USE" /\ c.header[Other(s)] \in {"FULL", "AVAILABLE"}
         /\ c.log[s] \in Logs /\ c.log[Other(s)] \in Logs
         /\ ~BadHeaders(c)
         /\ c.header[Other(s)] = "FULL" => FirstSector(c) = Other(s)
         /\ c.header[Other(s)] = "AVAILABLE" => FirstSector(c) = s
<1>1. /\ c \in Chips /\ s \in Sectors /\ Other(s) \in Sectors /\ Other(s) # s /\ Other(Other(s)) = s
      /\ c.header[s] = "IN_USE" /\ c.header[Other(s)] \in {"FULL", "AVAILABLE"}
      /\ c.log[s] \in Logs /\ c.log[Other(s)] \in Logs
  BY SectorFacts, ChipParts DEF Writable
<1>2. \A t \in Sectors : c.header[t] \in {"IN_USE", "FULL", "AVAILABLE"}
  BY <1>1, SectorFacts
<1>3. ~BadHeaders(c)
  <2>1. c.header[0] # c.header[1]
    BY <1>1, SectorFacts
  <2> QED BY <1>2, <2>1 DEF BadHeaders, HasState
<1>4. c.header[Other(s)] = "FULL" => FirstSector(c) = Other(s)
  BY <1>1, FirstSectorFacts, SectorFacts DEF HasState
<1>5. ASSUME c.header[Other(s)] = "AVAILABLE" PROVE FirstSector(c) = s
  <2>1. ~HasState(c, "FULL") /\ HasState(c, "IN_USE")
    BY <1>1, <1>5, SectorFacts DEF HasState
  <2>2. c.header[FirstSector(c)] = "IN_USE" /\ FirstSector(c) \in Sectors
    BY <1>1, <2>1, FirstSectorFacts
  <2> QED BY <1>1, <1>5, <2>2, SectorFacts
<1> QED BY <1>1, <1>3, <1>4, <1>5

\* The reading of a sector that can be written to.
LEMMA LoadedWritable ==
  ASSUME NEW c, NEW s, NEW n, Writable(c, s, n)
  PROVE  /\ Loaded(c) = LoadSector(c.log[s], Base(c, s))
         /\ Base(c, s) \in Data /\ Zeroes \in Data /\ c.log[s] \in Logs
<1>1. /\ c \in Chips /\ s \in Sectors /\ Other(s) \in Sectors /\ Other(s) # s /\ Other(Other(s)) = s
      /\ c.header[s] = "IN_USE" /\ c.header[Other(s)] \in {"FULL", "AVAILABLE"}
      /\ c.log[s] \in Logs /\ c.log[Other(s)] \in Logs
      /\ ~BadHeaders(c)
      /\ c.header[Other(s)] = "FULL" => FirstSector(c) = Other(s)
      /\ c.header[Other(s)] = "AVAILABLE" => FirstSector(c) = s
  BY WritableHeaders
<1>2. Zeroes \in Data
  BY FlashStorageAssumption DEF Zeroes, Data
<1>3. Base(c, s) \in Data
  BY <1>1, <1>2, LoadType DEF Base
<1>4. CASE c.header[Other(s)] = "FULL"
  <2>1. InPlay(c, Other(s)) /\ InPlay(c, s)
    BY <1>1, <1>4 DEF InPlay
  <2>2. Loaded(c) = LoadSector(c.log[s], LoadSector(c.log[Other(s)], Zeroes))
    BY <1>1, <1>4, <2>1 DEF Loaded
  <2> QED BY <1>1, <1>2, <1>3, <1>4, <2>2 DEF Base
<1>5. CASE c.header[Other(s)] = "AVAILABLE"
  <2>1. InPlay(c, s) /\ ~InPlay(c, Other(s))
    BY <1>1, <1>5 DEF InPlay
  <2>2. Loaded(c) = LoadSector(c.log[s], Zeroes)
    BY <1>1, <1>5, <2>1 DEF Loaded
  <2> QED BY <1>1, <1>2, <1>3, <1>5, <2>2 DEF Base
<1> QED BY <1>1, <1>4, <1>5

\* What can be written to reads as one of its contents: it is sound.
LEMMA WritableSound ==
  ASSUME NEW c, NEW s, NEW n, NEW P, Writable(c, s, n),
         \A b \in Blocks : Loaded(c)[b] \in P[b]
  PROVE  Sound(c, P) /\ ~Alike(c) /\ Keeps(c, P)
<1>1. ~Alike(c)
  BY AlikeFacts DEF Writable
<1> QED BY <1>1 DEF Writable, Sound, Keeps

\* A flash that has been erased reads as zeroes.
LEMMA ErasedLoads ==
  ASSUME NEW c \in Chips, c.header[0] = "IN_USE", c.header[1] = "AVAILABLE",
         c.log[0] = EmptyLog, c.log[1] = EmptyLog
  PROVE  Writable(c, 0, 0) /\ Loaded(c) = Zeroes
<1>1. Other(0) = 1 /\ 0 \in Sectors
  BY DEF Other, Sectors
<1>2. LogsOK(c)
  <2>1. \A s \in Sectors : c.log[s] = EmptyLog
    BY SectorFacts DEF Sectors
  <2>2. Tight(EmptyLog, 0) /\ 0 \in 0..Slots
    BY EmptyLogIsTight, ReserveIsNat
  <2> QED BY <2>1, <2>2 DEF LogsOK
<1>3. Writable(c, 0, 0)
  BY <1>1, <1>2, EmptyLogIsTight DEF Writable
<1>4. Base(c, 0) = Zeroes /\ Zeroes \in Data
  BY <1>1, <1>3, LoadedWritable DEF Base
<1> QED BY <1>3, <1>4, LoadedWritable, EmptyLogIsTight

\* Bad headers lose everything there is.
LEMMA BadHeadersLose ==
  ASSUME NEW c \in Chips, BadHeaders(c)
  PROVE  /\ Loaded(c) = Zeroes /\ Loaded(Boot(c).chip) = Zeroes
         /\ \A P : ~Alike(c) /\ (HasContents(c) \/ Sound(c, P)) => Keeps(c, P)
<1>1. Loaded(c) = Zeroes
  BY DEF Loaded
<1> DEFINE m == Machine(c, NoRam, TRUE)
<1>2. m \in Machines
  <2>1. NoRam \in Rams /\ TRUE \in BOOLEAN
    BY SectorFacts, ReserveIsNat DEF NoRam, Rams
  <2> QED BY <2>1, MachineType
<1>3. Boot(c) = EraseAll(m)
  BY DEF Boot
<1> HIDE DEF m
<1>4. Loaded(EraseAll(m).chip) = Zeroes
  <2>1. /\ EraseAll(m) \in Machines
        /\ EraseAll(m).chip.header[0] = "IN_USE" /\ EraseAll(m).chip.header[1] = "AVAILABLE"
        /\ EraseAll(m).chip.log[0] = EmptyLog /\ EraseAll(m).chip.log[1] = EmptyLog
    BY <1>2, EraseAllEffect
  <2>2. EraseAll(m).chip \in Chips
    BY <2>1, MachineParts
  <2> QED BY <2>1, <2>2, ErasedLoads
<1> QED BY <1>1, <1>3, <1>4 DEF Keeps, LosesAll

-----------------------------------------------------------------------------
(* Operations keep what the flash keeps                                    *)

\* A machine that differs in nothing of the flash is as ready.
LEMMA SameFlash ==
  ASSUME NEW m, NEW P, Ready(m, P), NEW w \in Machines,
         w.chip = m.chip, w.images = m.images,
         w.ram.cur = m.ram.cur, w.ram.offset = m.ram.offset,
         w.ram.reserved \in {0, m.ram.reserved}
  PROVE  Ready(w, P)
BY DEF Ready

\* A record puts what it says in its sector, and an interrupted one nothing.
LEMMA RecordImages ==
  ASSUME NEW m, NEW P, Ready(m, P), m.ram.offset < Slots, NEW b \in Blocks, NEW v \in Values
  PROVE  LET g == Put(m, m.ram.cur, m.ram.offset, Gap)
             w == WriteRecord(m, b, v)
             s == m.ram.cur
         IN  /\ w \in Machines /\ w.images = m.images \cup {g.chip, w.chip}
             /\ Writable(g.chip, s, m.ram.offset + 1) /\ Loaded(g.chip) = Loaded(m.chip)
             /\ Writable(w.chip, s, m.ram.offset + 1)
             /\ Loaded(w.chip) = [Loaded(m.chip) EXCEPT ![b] = v] /\ Loaded(m.chip) \in Data
             /\ LoadSector(w.chip.log[s], Zeroes) = [LoadSector(m.chip.log[s], Zeroes) EXCEPT ![b] = v]
             /\ g.chip.header = m.chip.header /\ w.chip.header = m.chip.header
             /\ HasContents(g.chip) => HasContents(m.chip)
<1> DEFINE s == m.ram.cur
           i == m.ram.offset
           log == m.chip.log[s]
           base == Base(m.chip, s)
           g == Put(m, s, i, Gap)
           w == WriteRecord(m, b, v)
<1>1. /\ m \in Machines /\ s \in Sectors /\ Other(s) \in Sectors
      /\ i \in 0..(Slots - 1) /\ i + 1 \in 0..Slots /\ Gap \in Records
  BY MachineParts, SectorFacts, RecordKinds, ReserveIsNat DEF Ready
<1>2. /\ m.chip \in Chips /\ m.chip.header[s] = "IN_USE"
      /\ m.chip.header[Other(s)] \in {"FULL", "AVAILABLE"}
      /\ LogsOK(m.chip) /\ Tight(log, i) /\ log \in Logs
      /\ Loaded(m.chip) = LoadSector(log, base) /\ base \in Data /\ Zeroes \in Data
  BY LoadedWritable DEF Ready, Writable
<1>3. /\ g \in Machines /\ g.chip.header = m.chip.header
      /\ g.chip.log[s] = Appended(log, i, Gap) /\ g.chip.log[Other(s)] = m.chip.log[Other(s)]
  BY <1>1, PutEffect
<1>4. /\ w \in Machines /\ w.ok /\ w.chip.header = m.chip.header
      /\ w.chip.log[s] = Appended(log, i, Valid(b, v))
      /\ w.chip.log[Other(s)] = m.chip.log[Other(s)]
      /\ w.ram.cur = s /\ w.ram.offset = i + 1
      /\ w.ram.reserved = m.ram.reserved /\ w.eraseOk = m.eraseOk
      /\ w.images = m.images \cup {g.chip, w.chip}
  BY <1>1, RecordEffect
<1>5. /\ LoadSector(Appended(log, i, Gap), base) = LoadSector(log, base)
      /\ Tight(Appended(log, i, Gap), i + 1)
  BY <1>1, <1>2, LoadGap, AppendIsTight, RecordKinds
<1>6. /\ LoadSector(Appended(log, i, Valid(b, v)), base) = [LoadSector(log, base) EXCEPT ![b] = v]
      /\ LoadSector(Appended(log, i, Valid(b, v)), Zeroes) = [LoadSector(log, Zeroes) EXCEPT ![b] = v]
      /\ Tight(Appended(log, i, Valid(b, v)), i + 1)
  <2>1. Valid(b, v) \in Records /\ Valid(b, v) # Empty
    BY RecordKinds
  <2> QED BY <1>1, <1>2, <2>1, LoadValid, AppendIsTight
<1>7. LoadSector(log, base) \in Data
  BY <1>2, LoadType
<1>8. HasContents(g.chip) => HasContents(m.chip)
  <2> SUFFICES ASSUME NEW t \in Sectors, NEW j \in 0..(Slots - 1), g.chip.log[t][j].state = "VALID"
               PROVE  m.chip.log[t][j].state = "VALID"
    BY DEF HasContents
  <2>1. Gap.state # "VALID" /\ log \in [0..(Slots - 1) -> Records]
    BY <1>2, RecordKinds DEF Gap, Logs
  <2> HIDE DEF g, log
  <2>2. CASE t = s
    <3>1. Appended(log, i, Gap)[j].state = "VALID"
      BY <1>3, <2>2
    <3>2. Appended(log, i, Gap)[j] = IF j = i THEN Gap ELSE log[j]
      BY <1>1, <2>1 DEF Appended
    <3> QED BY <2>1, <2>2, <3>1, <3>2 DEF log
  <2>3. CASE t = Other(s)
    BY <1>3, <2>3
  <2> QED BY <1>1, <2>2, <2>3, SectorFacts
<1> HIDE DEF g, w, log, base
<1>9. ASSUME NEW c \in Chips, c.header = m.chip.header,
             c.log[Other(s)] = m.chip.log[Other(s)], Tight(c.log[s], i + 1)
      PROVE  Writable(c, s, i + 1) /\ Base(c, s) = base
  <2>1. c.header[s] # "AVAILABLE"
    BY <1>2, <1>9
  <2>2. LogsOK(c)
    BY <1>1, <1>2, <1>9, <2>1, SectorFacts DEF LogsOK
  <2> QED BY <1>1, <1>2, <1>9, <2>2 DEF Writable, Base, base
<1>10. g.chip \in Chips /\ w.chip \in Chips
  BY <1>3, <1>4, MachineParts
<1>11. /\ Writable(g.chip, s, i + 1) /\ Base(g.chip, s) = base
       /\ Writable(w.chip, s, i + 1) /\ Base(w.chip, s) = base
  BY <1>3, <1>4, <1>5, <1>6, <1>9, <1>10
<1>12. Loaded(g.chip) = Loaded(m.chip) /\ Loaded(w.chip) = [Loaded(m.chip) EXCEPT ![b] = v]
  BY <1>2, <1>3, <1>4, <1>5, <1>6, <1>11, LoadedWritable
<1> QED BY <1>2, <1>3, <1>4, <1>6, <1>7, <1>8, <1>11, <1>12 DEF g, w, log

\* So the machine stays ready, for what the record holds too.
LEMMA RecordKeeps ==
  ASSUME NEW m, NEW P, Ready(m, P), m.ram.offset < Slots,
         NEW b \in Blocks, NEW v \in Values, v \in P[b]
  PROVE  LET w == WriteRecord(m, b, v)
             s == m.ram.cur
         IN  /\ Ready(w, P) /\ w.ok /\ w.eraseOk = m.eraseOk
             /\ Loaded(w.chip)[b] = v
             /\ LoadSector(w.chip.log[s], Zeroes) = [LoadSector(m.chip.log[s], Zeroes) EXCEPT ![b] = v]
             /\ w.chip.header = m.chip.header
             /\ w.ram.cur = s /\ w.ram.reserved = m.ram.reserved
<1> DEFINE s == m.ram.cur
           i == m.ram.offset
           g == Put(m, m.ram.cur, m.ram.offset, Gap)
           w == WriteRecord(m, b, v)
<1>1. m \in Machines
  BY DEF Ready
<1>2. /\ w \in Machines /\ w.images = m.images \cup {g.chip, w.chip}
      /\ Writable(g.chip, s, m.ram.offset + 1) /\ Loaded(g.chip) = Loaded(m.chip)
      /\ Writable(w.chip, s, m.ram.offset + 1)
      /\ Loaded(w.chip) = [Loaded(m.chip) EXCEPT ![b] = v] /\ Loaded(m.chip) \in Data
      /\ LoadSector(w.chip.log[s], Zeroes) = [LoadSector(m.chip.log[s], Zeroes) EXCEPT ![b] = v]
      /\ g.chip.header = m.chip.header /\ w.chip.header = m.chip.header
      /\ HasContents(g.chip) => HasContents(m.chip)
  BY RecordImages
<1>3. /\ w \in Machines /\ w.ok /\ w.chip.header = m.chip.header
      /\ w.chip.log[s] = Appended(m.chip.log[s], i, Valid(b, v))
      /\ w.chip.log[Other(s)] = m.chip.log[Other(s)]
      /\ w.ram.cur = s /\ w.ram.offset = i + 1
      /\ w.ram.reserved = m.ram.reserved /\ w.eraseOk = m.eraseOk
      /\ w.images = m.images \cup {Put(m, s, i, Gap).chip, w.chip}
  BY <1>1, RecordEffect
<1> HIDE DEF g, w
<1>4. \A c \in Blocks : Loaded(g.chip)[c] \in P[c] /\ Loaded(w.chip)[c] \in P[c]
  BY <1>2 DEF Ready, Data
<1>5. Loaded(w.chip)[b] = v
  BY <1>2 DEF Data
<1>6. Keeps(g.chip, P) /\ Keeps(w.chip, P)
  BY <1>2, <1>4, WritableSound
<1>7. \A d \in w.images : Keeps(d, P)
  BY <1>2, <1>6 DEF Ready
<1>8. w.ram.reserved # 0 => w.chip.header[Other(s)] = "FULL"
  BY <1>3 DEF Ready
<1>9. Ready(w, P)
  BY <1>2, <1>3, <1>4, <1>7, <1>8 DEF Ready
<1> QED BY <1>2, <1>3, <1>5, <1>9 DEF w

\* A switch leaves the contents in the full sector.
LEMMA SwitchKeeps ==
  ASSUME NEW m, NEW P, Ready(m, P), CanSwitch(m)
  PROVE  LET w == SwitchSectors(m)
         IN  Ready(w, P) /\ w.ok /\ w.ram.offset = 0 /\ w.eraseOk = m.eraseOk
<1> DEFINE s == m.ram.cur
           t == Other(s)
           f == Mark(m, s, "FULL")
           w == SwitchSectors(m)
           data == Loaded(m.chip)
<1>1. /\ m \in Machines /\ m.chip \in Chips /\ s \in Sectors /\ t \in Sectors
      /\ Other(t) = s /\ t # s /\ "FULL" \in Headers
  BY MachineParts, SectorFacts DEF Ready, Headers
<1>2. m.chip.header[t] = "AVAILABLE"
  BY DEF CanSwitch
<1>3. /\ m.chip.header[s] = "IN_USE" /\ LogsOK(m.chip)
      /\ m.chip.log[t] = EmptyLog /\ m.chip.log[s] \in Logs
  BY <1>1, <1>2, ChipParts DEF Ready, Writable, LogsOK
<1>4. data = LoadSector(m.chip.log[s], Zeroes) /\ Zeroes \in Data /\ data \in Data
  <2>1. Writable(m.chip, s, m.ram.offset) /\ Base(m.chip, s) = Zeroes
    BY <1>2 DEF Ready, Base
  <2> QED BY <1>1, <2>1, LoadedWritable, LoadedType
<1>5. /\ f \in Machines /\ f.chip.header[s] = "FULL"
      /\ f.chip.header[t] = "AVAILABLE" /\ f.chip.log = m.chip.log
  BY <1>1, <1>2, MarkEffect
<1>6. /\ w \in Machines /\ w.ok
      /\ w.chip.header[s] = "FULL" /\ w.chip.header[t] = "IN_USE"
      /\ w.chip.log = m.chip.log
      /\ w.ram.cur = t /\ w.ram.offset = 0 /\ w.eraseOk = m.eraseOk
      /\ w.images = m.images \cup {f.chip, w.chip}
  BY <1>1, SwitchEffect
<1> HIDE DEF f, w, data
<1>7. f.chip \in Chips /\ w.chip \in Chips
  BY <1>5, <1>6, MachineParts
<1>8. Tight(w.chip.log[t], 0)
  BY <1>3, <1>6, EmptyLogIsTight
<1>9. LogsOK(f.chip) /\ LogsOK(w.chip)
  BY <1>1, <1>3, <1>5, <1>6, SectorFacts DEF LogsOK
<1>10. Writable(w.chip, t, 0)
  BY <1>1, <1>6, <1>7, <1>8, <1>9 DEF Writable
<1>11. Loaded(w.chip) = data
  <2>1. Base(w.chip, t) = data
    BY <1>1, <1>4, <1>6 DEF Base
  <2>2. LoadSector(w.chip.log[t], data) = data
    BY <1>3, <1>4, <1>6, EmptyLogIsTight
  <2> QED BY <1>10, <2>1, <2>2, LoadedWritable
<1>12. Loaded(f.chip) = data
  <2>1. FirstSector(f.chip) = s
    BY <1>1, <1>5, <1>7, FirstSectorFacts, SectorFacts DEF HasState
  <2>2. ~BadHeaders(f.chip)
    <3>1. \A u \in Sectors : f.chip.header[u] # "BLANK"
      BY <1>5, <1>1, SectorFacts
    <3>2. f.chip.header[0] # f.chip.header[1]
      BY <1>1, <1>5, SectorFacts
    <3> QED BY <3>1, <3>2 DEF BadHeaders, HasState
  <2>3. InPlay(f.chip, s) /\ ~InPlay(f.chip, t)
    BY <1>5 DEF InPlay
  <2> QED BY <1>4, <1>5, <2>1, <2>2, <2>3 DEF Loaded
<1>13. \A b \in Blocks : data[b] \in P[b]
  BY DEF Ready, data
<1>14. Keeps(f.chip, P) /\ Keeps(w.chip, P)
  <2>1. ~Alike(f.chip) /\ ~Alike(w.chip)
    BY <1>1, <1>5, <1>6, AlikeFacts
  <2> QED BY <1>7, <1>9, <1>11, <1>12, <1>13, <2>1 DEF Keeps, Sound
<1>15. \A d \in w.images : Keeps(d, P)
  BY <1>6, <1>14 DEF Ready
<1>16. Ready(w, P)
  BY <1>1, <1>6, <1>10, <1>11, <1>13, <1>15 DEF Ready
<1> QED BY <1>6, <1>16 DEF w

\* What a refused switch leaves.
LEMMA RefusalKeeps ==
  ASSUME NEW m, NEW P, Ready(m, P), ~CanSwitch(m)
  PROVE  /\ Ready(SwitchSectors(m), P) /\ ~SwitchSectors(m).ok
         /\ SwitchSectors(m).chip = m.chip
         /\ SwitchSectors(m).ram.cur = m.ram.cur /\ SwitchSectors(m).eraseOk = m.eraseOk
         /\ SwitchSectors(m).ram.reserved = m.ram.reserved
<1> DEFINE w == SwitchSectors(m)
<1>1. m \in Machines
  BY DEF Ready
<1>2. /\ w \in Machines /\ ~w.ok /\ w.chip = m.chip /\ w.images = m.images
      /\ w.ram.cur = m.ram.cur /\ w.ram.offset = m.ram.offset
      /\ w.ram.reserved = m.ram.reserved /\ w.eraseOk = m.eraseOk
  BY <1>1, SwitchRefused
<1> HIDE DEF w
<1>3. Ready(w, P)
  BY <1>2, SameFlash
<1> QED BY <1>2, <1>3 DEF w

\* So is one that fails.
LEMMA FailKeeps ==
  ASSUME NEW m, NEW P, Ready(m, P)
  PROVE  Ready(Fail(m), P)
<1>1. m \in Machines
  BY DEF Ready
<1>2. /\ Fail(m) \in Machines /\ Fail(m).chip = m.chip /\ Fail(m).ram = m.ram
      /\ Fail(m).images = m.images
  BY <1>1, FailEffect
<1> QED BY <1>2, SameFlash

\* The contents of the blocks below n are in the sector in use.
Copied(m, data, n) ==
    \A b \in Blocks : b < n /\ data[b] # 0 => LoadSector(m.chip.log[m.ram.cur], Zeroes)[b] = data[b]

\* A machine that copies data out of the full sector.
Copying(m, P) == Ready(m, P) /\ m.chip.header[Other(m.ram.cur)] = "FULL" /\ m.ram.reserved = 0

\* One write of switch_full_sector().
LEMMA WithinKeeps ==
  ASSUME NEW m, NEW P, Copying(m, P), NEW data \in Data, NEW b \in Blocks, data[b] \in P[b],
         Copied(m, data, b)
  PROVE  LET w == WriteWithin(m, data, b)
         IN  /\ Copying(w, P) /\ w.eraseOk = m.eraseOk
             /\ w.ok => Copied(w, data, b + 1)
<1> DEFINE s == m.ram.cur
           w == WriteWithin(m, data, b)
           r == WriteRecord(m, b, data[b])
           x == SwitchSectors(m)
<1>1. /\ m \in Machines /\ Ready(m, P) /\ m.chip.header[Other(s)] = "FULL" /\ m.ram.reserved = 0
      /\ data[b] \in Values
  BY DEF Copying, Ready, Data
<1>2. ~CanSwitch(m)
  BY <1>1 DEF CanSwitch
<1>3. CASE m.ram.error
  <2>1. w = Fail(m)
    BY <1>3 DEF WriteWithin
  <2>2. Ready(Fail(m), P)
    BY <1>1, FailKeeps
  <2>3. /\ ~Fail(m).ok /\ Fail(m).chip = m.chip /\ Fail(m).ram = m.ram
        /\ Fail(m).eraseOk = m.eraseOk
    BY <1>1, FailEffect
  <2> HIDE DEF w
  <2> QED BY <1>1, <2>1, <2>2, <2>3 DEF Copying, w
<1>4. CASE ~m.ram.error /\ HasRoom(m)
  <2>1. w = r
    BY <1>4 DEF WriteWithin
  <2>2. m.ram.offset < Slots
    BY <1>1, <1>4, RoomIsASlot
  <2>3. /\ Ready(r, P) /\ r.ok /\ r.eraseOk = m.eraseOk
        /\ LoadSector(r.chip.log[s], Zeroes) = [LoadSector(m.chip.log[s], Zeroes) EXCEPT ![b] = data[b]]
        /\ r.chip.header = m.chip.header
        /\ r.ram.cur = s /\ r.ram.reserved = m.ram.reserved
    BY <1>1, <2>2, RecordKeeps
  <2> HIDE DEF w, r, s
  <2>4. m.chip.log[s] \in Logs /\ Zeroes \in Data
    BY <1>1, LoadedWritable DEF Ready, s
  <2>5. LoadSector(m.chip.log[s], Zeroes) \in Data
    BY <2>4, LoadType
  <2>6. Copied(r, data, b + 1)
    <3> SUFFICES ASSUME NEW c \in Blocks, c < b + 1, data[c] # 0
                 PROVE LoadSector(r.chip.log[s], Zeroes)[c] = data[c]
      BY <2>3 DEF Copied
    <3>1. c = b \/ c < b
      BY DEF Blocks
    <3>2. c < b => LoadSector(m.chip.log[s], Zeroes)[c] = data[c]
      BY DEF Copied, s
    <3> QED BY <2>3, <2>5, <3>1, <3>2 DEF Data
  <2>7. Copying(r, P)
    BY <1>1, <2>3 DEF Copying, s
  <2> QED BY <2>1, <2>3, <2>6, <2>7 DEF w
<1>5. CASE ~m.ram.error /\ ~HasRoom(m)
  <2>1. /\ Ready(x, P) /\ ~x.ok /\ x.chip = m.chip
        /\ x.ram.cur = s /\ x.eraseOk = m.eraseOk /\ x.ram.reserved = m.ram.reserved
    BY <1>1, <1>2, RefusalKeeps
  <2>2. w = x
    BY <1>5, <2>1 DEF WriteWithin
  <2> HIDE DEF w, x, s
  <2> QED BY <1>1, <2>1, <2>2 DEF Copying, w, s
<1> QED BY <1>3, <1>4, <1>5

\* write_all() within switch_full_sector(): it has copied everything, or failed.
LEMMA WriteAllKeeps ==
  ASSUME NEW m, NEW P, Copying(m, P), NEW data \in Data, \A b \in Blocks : data[b] \in P[b]
  PROVE  LET w == WriteAll(m, data, WriteWithin)
         IN  /\ Copying(w, P) /\ w.eraseOk = m.eraseOk
             /\ w.ok => Copied(w, data, NBlocks)
<1> DEFINE u == WrittenUpTo(m, data, WriteWithin)
           Good(n) == /\ Copying(u[n], P) /\ u[n].eraseOk = m.eraseOk
                      /\ u[n].ok => Copied(u[n], data, n)
           S == {n \in 0..NBlocks : Good(n)}
<1>1. NBlocks \in Nat /\ m \in Machines
  BY FlashStorageAssumption DEF Copying, Ready
<1>2. /\ u \in [0..NBlocks -> Machines] /\ u[0] = [m EXCEPT !.ok = TRUE]
      /\ \A n \in 1..NBlocks : u[n] = PutNonZero(u[n - 1], data, n - 1, WriteWithin)
  BY <1>1, LoopWithin
<1> HIDE DEF u
<1>3. Good(0)
  <2>1. /\ u[0] \in Machines /\ u[0].chip = m.chip /\ u[0].ram = m.ram
        /\ u[0].images = m.images /\ u[0].eraseOk = m.eraseOk
    BY <1>1, <1>2 DEF Machines
  <2>2. Ready(u[0], P)
    BY <2>1, SameFlash DEF Copying
  <2>3. Copied(u[0], data, 0)
    BY DEF Copied, Blocks
  <2> QED BY <2>1, <2>2, <2>3 DEF Copying
<1>4. ASSUME NEW n \in 0..(NBlocks - 1), Good(n) PROVE Good(n + 1)
  <2>1. n \in Blocks /\ n + 1 \in 1..NBlocks /\ (n + 1) - 1 = n
    BY <1>1 DEF Blocks
  <2>2. u[n + 1] = PutNonZero(u[n], data, n, WriteWithin)
    BY <1>2, <2>1
  <2>3. CASE u[n].ok /\ data[n] # 0
    <3> DEFINE x == u[n]
               y == WriteWithin(x, data, n)
    <3>1. u[n + 1] = y
      BY <2>2, <2>3 DEF PutNonZero
    <3>2. Copying(x, P) /\ Copied(x, data, n) /\ data[n] \in P[n]
      BY <1>4, <2>1, <2>3
    <3> HIDE DEF x
    <3>3. Copying(y, P) /\ y.eraseOk = x.eraseOk /\ (y.ok => Copied(y, data, n + 1))
      BY <2>1, <3>2, WithinKeeps
    <3> QED BY <1>4, <3>1, <3>3 DEF x
  <2>4. CASE ~(u[n].ok /\ data[n] # 0)
    <3>1. u[n + 1] = u[n]
      BY <2>2, <2>4 DEF PutNonZero
    <3>2. u[n].ok => Copied(u[n], data, n + 1)
      <4> SUFFICES ASSUME u[n].ok, NEW c \in Blocks, c < n + 1, data[c] # 0
                   PROVE LoadSector(u[n].chip.log[u[n].ram.cur], Zeroes)[c] = data[c]
        BY DEF Copied
      <4>1. c < n
        BY <2>1, <2>4 DEF Blocks
      <4> QED BY <1>4, <4>1 DEF Copied
    <3> QED BY <1>4, <3>1, <3>2
  <2> QED BY <2>3, <2>4
<1> HIDE DEF Good
<1>5. 0 \in S /\ \A n \in 0..(NBlocks - 1) : n \in S => n + 1 \in S
  BY <1>1, <1>3, <1>4
<1> HIDE DEF S
<1>6. NBlocks \in S
  BY <1>1, <1>5, LoopInduction
<1>7. Good(NBlocks)
  BY <1>6 DEF S
<1> QED BY <1>7 DEF Good, WriteAll, u

\* Once everything is copied the full sector can be erased: the copies are
\* newer, or what they would copy is zero, as an erased block is.
LEMMA EmptyingKeeps ==
  ASSUME NEW m, NEW P, Copying(m, P), NEW data \in Data, \A b \in Blocks : data[b] \in P[b],
         Copied(m, data, NBlocks)
  PROVE  LET e == EraseSector(m, Other(m.ram.cur), TRUE)
         IN  /\ Ready(e, P) /\ e.ok = m.ok /\ e.eraseOk = m.eraseOk
             /\ e.ram = m.ram /\ e.chip.header[Other(m.ram.cur)] = "AVAILABLE"
<1> DEFINE s == m.ram.cur
           t == Other(s)
           log == m.chip.log[s]
           kept == LoadSector(log, Zeroes)
           g == EraseSector(m, t, FALSE)
           e == EraseSector(m, t, TRUE)
<1>1. /\ m \in Machines /\ s \in Sectors /\ t \in Sectors /\ Other(t) = s /\ t # s
      /\ Ready(m, P) /\ Writable(m.chip, s, m.ram.offset)
  BY MachineParts, SectorFacts DEF Copying, Ready
<1>2. /\ m.chip.header[s] = "IN_USE" /\ Tight(log, m.ram.offset) /\ m.ram.offset \in 0..Slots
      /\ log \in Logs /\ Loaded(m.chip) = LoadSector(log, Base(m.chip, s))
      /\ Base(m.chip, s) \in Data /\ Zeroes \in Data
  BY <1>1, LoadedWritable DEF Writable, Tight
<1>3. /\ g \in Machines /\ g.chip.header[t] = "BLANK" /\ g.chip.header[s] = "IN_USE"
      /\ g.chip.log[t] = EmptyLog /\ g.chip.log[s] = log
  <2>1. m \in Machines /\ t \in Sectors
    BY <1>1
  <2>2. /\ g \in Machines /\ g.chip.header[t] = "BLANK"
        /\ g.chip.header[Other(t)] = m.chip.header[Other(t)]
        /\ g.chip.log[t] = EmptyLog /\ g.chip.log[Other(t)] = m.chip.log[Other(t)]
    BY <2>1, EraseEffect
  <2> QED BY <1>1, <1>2, <2>2
<1>4. /\ e \in Machines /\ e.chip.header[t] = "AVAILABLE" /\ e.chip.header[s] = "IN_USE"
      /\ e.chip.log[t] = EmptyLog /\ e.chip.log[s] = log
      /\ e.ram = m.ram /\ e.ok = m.ok /\ e.eraseOk = m.eraseOk
      /\ e.images = m.images \cup {g.chip, e.chip}
  <2>1. m \in Machines /\ t \in Sectors
    BY <1>1
  <2>2. /\ e \in Machines /\ e.chip.header[t] = "AVAILABLE"
        /\ e.chip.header[Other(t)] = m.chip.header[Other(t)]
        /\ e.chip.log[t] = EmptyLog /\ e.chip.log[Other(t)] = m.chip.log[Other(t)]
        /\ e.ram = m.ram /\ e.ok = m.ok /\ e.eraseOk = m.eraseOk
        /\ e.images = m.images \cup {g.chip, e.chip}
    BY <2>1, EraseAndMarkEffect
  <2> QED BY <1>1, <1>2, <2>2
<1> HIDE DEF g, e
<1>5. g.chip \in Chips /\ e.chip \in Chips
  BY <1>3, <1>4, MachineParts
<1>6. LogsOK(g.chip) /\ LogsOK(e.chip)
  <2>1. Tight(EmptyLog, 0) /\ 0 \in 0..Slots
    BY EmptyLogIsTight, ReserveIsNat
  <2>2. \A c \in {g.chip, e.chip}, x \in Sectors :
           /\ \E n \in 0..Slots : Tight(c.log[x], n)
           /\ c.header[x] = "AVAILABLE" => c.log[x] = EmptyLog
    <3> TAKE c \in {g.chip, e.chip}, x \in Sectors
    <3>1. x = s \/ x = t
      BY <1>1, SectorFacts
    <3> QED BY <1>2, <1>3, <1>4, <2>1, <3>1
  <2> QED BY <2>2 DEF LogsOK
<1>7. Writable(e.chip, s, m.ram.offset) /\ Base(e.chip, s) = Zeroes
  BY <1>1, <1>2, <1>4, <1>5, <1>6 DEF Writable, Base
<1>8. Loaded(e.chip) = kept
  BY <1>4, <1>7, LoadedWritable
<1>9. ASSUME NEW b \in Blocks PROVE kept[b] \in P[b]
  <2>1. Zeroes[b] = 0
    BY DEF Zeroes
  <2>2. CASE \A d \in Data : LoadSector(log, d)[b] = d[b]
    <3>1. kept[b] = 0
      BY <1>2, <2>1, <2>2
    <3>2. b < NBlocks
      BY FlashStorageAssumption DEF Blocks
    <3>3. data[b] # 0 => kept[b] = data[b]
      BY <3>2 DEF Copied
    <3> QED BY <3>1, <3>3
  <2>3. CASE \E v \in Values : \A d \in Data : LoadSector(log, d)[b] = v
    BY <1>1, <1>2, <2>3 DEF Ready
  <2> QED BY <1>2, <2>2, <2>3, LoadDetermined
<1>10. Keeps(g.chip, P)
  <2>1. BadHeaders(g.chip)
    BY <1>1, <1>3 DEF BadHeaders, HasState
  <2>2. Loaded(g.chip) = Zeroes
    BY <1>5, <2>1, BadHeadersLose
  <2>3. ASSUME ~HasContents(g.chip) PROVE Sound(g.chip, P)
    <3>1. \A b \in Blocks : kept[b] = Zeroes[b]
      BY <1>1, <1>2, <1>3, <2>3, LoadNeedsRecord DEF HasContents
    <3> QED BY <1>5, <1>6, <1>9, <2>2, <3>1 DEF Sound
  <2>4. ~Alike(g.chip)
    BY <1>1, <1>3, AlikeFacts
  <2> QED BY <1>5, <2>1, <2>3, <2>4, BadHeadersLose
<1>11. Keeps(e.chip, P)
  BY <1>7, <1>8, <1>9, WritableSound
<1>12. Ready(e, P)
  <2>1. \A d \in e.images : Keeps(d, P)
    BY <1>1, <1>4, <1>10, <1>11 DEF Ready
  <2>2. e.ram.reserved = 0
    BY <1>4 DEF Copying
  <2> QED BY <1>4, <1>7, <1>8, <1>9, <2>1, <2>2 DEF Ready
<1> QED BY <1>4, <1>12 DEF e

\* switch_full_sector() keeps the contents, whether it succeeds or fails.
LEMMA SwitchFullSectorKeeps ==
  ASSUME NEW m, NEW P, Ready(m, P), m.chip.header[Other(m.ram.cur)] = "FULL",
         NEW data \in Data, \A b \in Blocks : data[b] \in P[b]
  PROVE  LET f == SwitchFullSector(m, data)
         IN  Ready(f, P) /\ (f.ok => f.ram.offset < Slots)
<1> DEFINE r == [m EXCEPT !.ram.error = FALSE, !.ram.reserved = 0]
           w == WriteAll(r, data, WriteWithin)
           e == EraseSector(w, Other(w.ram.cur), TRUE)
           x == SwitchSectors(e)
<1>1. m \in Machines
  BY DEF Ready
<1>2. /\ r \in Machines /\ r.chip = m.chip /\ r.images = m.images
      /\ r.ram.cur = m.ram.cur /\ r.ram.offset = m.ram.offset /\ r.ram.reserved = 0
  BY <1>1, ReserveIsNat DEF Machines, Rams
<1> HIDE DEF r
<1>3. Copying(r, P)
  BY <1>2, SameFlash DEF Copying
<1>4. Copying(w, P) /\ (w.ok => Copied(w, data, NBlocks))
  BY <1>3, WriteAllKeeps
<1> HIDE DEF w
<1>5. CASE w.ok
  <2>1. Ready(e, P) /\ e.ram = w.ram /\ e.chip.header[Other(w.ram.cur)] = "AVAILABLE"
    BY <1>4, <1>5, EmptyingKeeps
  <2> HIDE DEF e
  <2>2. CanSwitch(e)
    BY <1>4, <2>1 DEF CanSwitch, Copying
  <2>3. Ready(x, P) /\ x.ram.offset = 0
    BY <2>1, <2>2, SwitchKeeps
  <2> HIDE DEF x
  <2>4. SwitchFullSector(m, data) = x
    BY <1>5 DEF SwitchFullSector, r, w, e, x
  <2> QED BY <2>3, <2>4, ReserveIsNat
<1>6. CASE ~w.ok
  <2>1. SwitchFullSector(m, data) = w
    BY <1>6 DEF SwitchFullSector, r, w
  <2> QED BY <1>4, <1>6, <2>1 DEF Copying
<1> QED BY <1>5, <1>6

\* write() keeps the contents wherever power is lost, and what it has said
\* true to is read back.
LEMMA WriteKeeps ==
  ASSUME NEW m, NEW P, Ready(m, P), NEW data \in Data, \A b \in Blocks : data[b] \in P[b],
         NEW b \in Blocks
  PROVE  LET w == Write(m, data, b)
         IN  Ready(w, P) /\ (w.ok => Loaded(w.chip)[b] = data[b])
<1> DEFINE w == SwitchSectors(m)
           f == SwitchFullSector(w, data)
           Kept1(x) == Ready(x, P) /\ (x.ok => Loaded(x.chip)[b] = data[b])
<1>1. m \in Machines /\ data[b] \in Values /\ data[b] \in P[b]
  BY DEF Ready, Data
<1>2. ASSUME NEW x, Ready(x, P), x.ram.offset < Slots PROVE Kept1(WriteRecord(x, b, data[b]))
  <2> DEFINE v == data[b]
             y == WriteRecord(x, b, v)
  <2>1. v \in Values /\ v \in P[b]
    BY <1>1
  <2> HIDE DEF v, w, f
  <2>2. /\ Ready(y, P) /\ y.ok /\ y.eraseOk = x.eraseOk
        /\ Loaded(y.chip)[b] = v
        /\ LoadSector(y.chip.log[x.ram.cur], Zeroes) = [LoadSector(x.chip.log[x.ram.cur], Zeroes) EXCEPT ![b] = v]
        /\ y.chip.header = x.chip.header
        /\ y.ram.cur = x.ram.cur /\ y.ram.reserved = x.ram.reserved
    BY <1>2, <2>1, RecordKeeps
  <2> HIDE DEF y
  <2>3. Kept1(y)
    BY <2>2 DEF v
  <2> QED BY <2>3 DEF y, v
<1>3. Kept1(Fail(m))
  <2>1. ~Fail(m).ok
    BY <1>1, FailEffect
  <2> QED BY <2>1, FailKeeps
<1>4. HasRoom(m) => Kept1(WriteRecord(m, b, data[b]))
  BY <1>1, <1>2, RoomIsASlot
<1>5. CASE CanSwitch(m)
  <2>1. Ready(w, P) /\ w.ok /\ w.ram.offset < Slots
    BY <1>5, SwitchKeeps, ReserveIsNat
  <2> HIDE DEF w, Kept1
  <2>2. Kept1(WriteRecord(w, b, data[b]))
    BY <1>2, <2>1
  <2>3. Kept1(Write(m, data, b))
    BY <1>3, <1>4, <2>1, <2>2 DEF Write, w
  <2> QED BY <2>3 DEF Kept1
<1>6. CASE ~CanSwitch(m)
  <2>1. m.chip.header[Other(m.ram.cur)] = "FULL"
    BY <1>6 DEF CanSwitch, Ready, Writable
  <2>2. /\ Ready(w, P) /\ ~w.ok /\ w.chip = m.chip /\ w.ram.cur = m.ram.cur
        /\ w.eraseOk = m.eraseOk
    BY <1>6, RefusalKeeps
  <2> HIDE DEF w
  <2>3. Ready(f, P) /\ (f.ok => f.ram.offset < Slots)
    BY <2>1, <2>2, SwitchFullSectorKeeps
  <2> HIDE DEF f
  <2>4. f.ok => Kept1(WriteRecord(f, b, data[b]))
    BY <1>2, <2>3
  <2>5. Kept1(w) /\ (~f.ok => Kept1(f))
    BY <2>2, <2>3
  <2> HIDE DEF Kept1
  <2>6. Write(m, data, b) =
           IF m.ram.error THEN Fail(m)
           ELSE IF HasRoom(m) THEN WriteRecord(m, b, data[b])
           ELSE IF ~m.eraseOk THEN w
           ELSE IF f.ok THEN WriteRecord(f, b, data[b]) ELSE f
    BY <2>2 DEF Write, w, f
  <2>7. Kept1(Write(m, data, b))
    BY <1>3, <1>4, <2>4, <2>5, <2>6
  <2> QED BY <2>7 DEF Kept1
<1> QED BY <1>5, <1>6

-----------------------------------------------------------------------------
(* write_all() of init()                                                   *)

\* Where every block is zero there is nothing to write.
LEMMA NothingToWrite ==
  ASSUME NEW m \in Machines, NEW data \in Data, \A b \in Blocks : data[b] = 0
  PROVE  WriteAll(m, data, Write) = [m EXCEPT !.ok = TRUE]
<1> DEFINE u == WrittenUpTo(m, data, Write)
           S == {n \in 0..NBlocks : u[n] = [m EXCEPT !.ok = TRUE]}
<1>1. NBlocks \in Nat
  BY FlashStorageAssumption
<1>2. /\ u[0] = [m EXCEPT !.ok = TRUE]
      /\ \A n \in 1..NBlocks : u[n] = PutNonZero(u[n - 1], data, n - 1, Write)
  BY LoopWrite
<1> HIDE DEF u
<1>3. ASSUME NEW n \in 0..(NBlocks - 1), n \in S PROVE n + 1 \in S
  <2>1. n \in Blocks /\ n + 1 \in 1..NBlocks /\ n + 1 \in 0..NBlocks /\ (n + 1) - 1 = n
    BY <1>1 DEF Blocks
  <2>2. u[n + 1] = PutNonZero(u[n], data, n, Write)
    BY <1>2, <2>1
  <2>3. u[n + 1] = u[n]
    BY <2>1, <2>2 DEF PutNonZero
  <2> QED BY <1>3, <2>1, <2>3
<1>4. 0 \in S
  BY <1>1, <1>2
<1> HIDE DEF S
<1>5. NBlocks \in S
  BY <1>1, <1>3, <1>4, LoopInduction
<1> QED BY <1>5 DEF S, u, WriteAll

\* The machines that a full sector without room leads to.
SameButError(x, m) ==
    /\ x \in Machines /\ x.chip = m.chip /\ x.images = m.images
    /\ x.ram.cur = m.ram.cur /\ x.ram.offset = m.ram.offset
    /\ x.ram.reserved = m.ram.reserved

\* Without room and without another sector only nothing can be written.
LEMMA StuckWriteAll ==
  ASSUME NEW m \in Machines, ~HasRoom(m), ~CanSwitch(m), NEW data \in Data
  PROVE  LET w == WriteAll(m, data, WriteWithin)
         IN  SameButError(w, m) /\ (w.ok => \A b \in Blocks : data[b] = 0)
<1> DEFINE u == WrittenUpTo(m, data, WriteWithin)
           Good(n) == SameButError(u[n], m) /\ (u[n].ok => \A b \in Blocks : b < n => data[b] = 0)
           S == {n \in 0..NBlocks : Good(n)}
<1>1. NBlocks \in Nat
  BY FlashStorageAssumption
<1>2. /\ u \in [0..NBlocks -> Machines] /\ u[0] = [m EXCEPT !.ok = TRUE]
      /\ \A n \in 1..NBlocks : u[n] = PutNonZero(u[n - 1], data, n - 1, WriteWithin)
  BY <1>1, LoopWithin
<1> HIDE DEF u
<1>3. Good(0)
  <2>1. SameButError(u[0], m)
    BY <1>2 DEF Machines, SameButError
  <2> QED BY <2>1 DEF Blocks
<1>4. ASSUME NEW n \in 0..(NBlocks - 1), Good(n) PROVE Good(n + 1)
  <2>1. n \in Blocks /\ n + 1 \in 1..NBlocks /\ (n + 1) - 1 = n
    BY <1>1 DEF Blocks
  <2>2. u[n + 1] = PutNonZero(u[n], data, n, WriteWithin)
    BY <1>2, <2>1
  <2>3. CASE u[n].ok /\ data[n] # 0
    <3> DEFINE x == u[n]
               y == WriteWithin(x, data, n)
               z == SwitchSectors(x)
    <3>1. u[n + 1] = y
      BY <2>2, <2>3 DEF PutNonZero
    <3>2. SameButError(x, m) /\ x \in Machines
      BY <1>4 DEF SameButError
    <3> HIDE DEF x
    <3>3. ~HasRoom(x) /\ ~CanSwitch(x)
      BY <3>2 DEF SameButError, HasRoom, CanSwitch
    <3>4. /\ Fail(x) \in Machines /\ ~Fail(x).ok /\ Fail(x).chip = x.chip /\ Fail(x).ram = x.ram
          /\ Fail(x).images = x.images
      BY <3>2, FailEffect
    <3>5. /\ z \in Machines /\ ~z.ok /\ z.chip = x.chip /\ z.images = x.images
          /\ z.ram.cur = x.ram.cur /\ z.ram.offset = x.ram.offset
          /\ z.ram.reserved = x.ram.reserved /\ z.eraseOk = x.eraseOk
      BY <3>2, <3>3, SwitchRefused
    <3>6. y = IF x.ram.error THEN Fail(x) ELSE z
      BY <3>3, <3>5 DEF WriteWithin
    <3> HIDE DEF y, z
    <3>7. SameButError(y, m) /\ ~y.ok
      BY <3>2, <3>4, <3>5, <3>6 DEF SameButError
    <3> QED BY <3>1, <3>7
  <2>4. CASE ~(u[n].ok /\ data[n] # 0)
    <3>1. u[n + 1] = u[n]
      BY <2>2, <2>4 DEF PutNonZero
    <3>2. u[n].ok => \A b \in Blocks : b < n + 1 => data[b] = 0
      BY <1>4, <2>1, <2>4 DEF Blocks
    <3> QED BY <1>4, <3>1, <3>2
  <2> QED BY <2>3, <2>4
<1> HIDE DEF Good
<1>5. 0 \in S /\ \A n \in 0..(NBlocks - 1) : n \in S => n + 1 \in S
  BY <1>1, <1>3, <1>4
<1> HIDE DEF S
<1>6. NBlocks \in S
  BY <1>1, <1>5, LoopInduction
<1>7. Good(NBlocks)
  BY <1>6 DEF S
<1> QED BY <1>1, <1>7 DEF Good, WriteAll, u, Blocks

\* A write that has no room next to a full sector fails, and changes nothing
\* of the flash.
LEMMA StuckWrite ==
  ASSUME NEW m \in Machines, ~HasRoom(m), ~CanSwitch(m), m.ram.reserved = 0,
         NEW data \in Data, NEW b \in Blocks, data[b] # 0
  PROVE  SameButError(Write(m, data, b), m) /\ ~Write(m, data, b).ok
<1> DEFINE w == SwitchSectors(m)
           r == [w EXCEPT !.ram.error = FALSE, !.ram.reserved = 0]
           x == WriteAll(r, data, WriteWithin)
           f == SwitchFullSector(w, data)
<1>1. /\ w \in Machines /\ ~w.ok /\ w.chip = m.chip /\ w.images = m.images
      /\ w.ram.cur = m.ram.cur /\ w.ram.offset = m.ram.offset
      /\ w.ram.reserved = m.ram.reserved /\ w.eraseOk = m.eraseOk
  BY SwitchRefused
<1> HIDE DEF w
<1>2. /\ r \in Machines /\ r.chip = m.chip /\ r.images = m.images
      /\ r.ram.cur = m.ram.cur /\ r.ram.offset = m.ram.offset /\ r.ram.reserved = 0
  BY <1>1, ReserveIsNat DEF Machines, Rams
<1>3. f = IF x.ok THEN SwitchSectors(EraseSector(x, Other(x.ram.cur), TRUE)) ELSE x
  BY DEF SwitchFullSector
<1> HIDE DEF r
<1>4. ~HasRoom(r) /\ ~CanSwitch(r)
  BY <1>2 DEF HasRoom, CanSwitch
<1>5. SameButError(x, r) /\ (x.ok => \A c \in Blocks : data[c] = 0)
  BY <1>2, <1>4, StuckWriteAll
<1> HIDE DEF x, f
<1>6. f = x /\ ~f.ok /\ SameButError(f, m)
  BY <1>2, <1>3, <1>5 DEF SameButError
<1>7. SameButError(w, m)
  BY <1>1 DEF SameButError
<1>8. SameButError(Fail(m), m) /\ ~Fail(m).ok
  <2>1. /\ Fail(m) \in Machines /\ ~Fail(m).ok /\ Fail(m).chip = m.chip /\ Fail(m).ram = m.ram
        /\ Fail(m).images = m.images
    BY FailEffect
  <2> QED BY <2>1 DEF SameButError
<1>9. Write(m, data, b) = IF m.ram.error THEN Fail(m) ELSE IF ~m.eraseOk THEN w ELSE f
  BY <1>1, <1>6 DEF Write, w, f
<1> QED BY <1>1, <1>6, <1>7, <1>8, <1>9

\* The headers and the sector stay what they are while a full sector is copied.
StillCopies(x, m) ==
    /\ x \in Machines /\ x.chip.header = m.chip.header
    /\ x.ram.cur = m.ram.cur /\ x.ram.reserved = 0
    /\ x.ok => x.ram.error = m.ram.error

\* One write of init(): it does not switch, nor empty the full sector.
LEMMA BootWrite ==
  ASSUME NEW m \in Machines, m.chip.header[Other(m.ram.cur)] = "FULL", m.ram.reserved = 0,
         NEW data \in Data, NEW b \in Blocks, data[b] # 0
  PROVE  /\ StillCopies(Write(m, data, b), m)
         /\ \/ Write(m, data, b) = WriteWithin(m, data, b)
            \/ SameButError(Write(m, data, b), m) /\ ~Write(m, data, b).ok
<1> DEFINE w == Write(m, data, b)
           r == WriteRecord(m, b, data[b])
<1>1. CASE m.ram.error
  <2>1. w = Fail(m) /\ w = WriteWithin(m, data, b)
    BY <1>1 DEF Write, WriteWithin
  <2>2. /\ Fail(m) \in Machines /\ ~Fail(m).ok /\ Fail(m).chip = m.chip /\ Fail(m).ram = m.ram
    BY FailEffect
  <2> HIDE DEF w
  <2> QED BY <2>1, <2>2 DEF StillCopies, w
<1>2. CASE ~m.ram.error /\ HasRoom(m)
  <2>1. w = r /\ w = WriteWithin(m, data, b)
    BY <1>2 DEF Write, WriteWithin
  <2> DEFINE v == data[b]
             x == WriteRecord(m, b, v)
  <2>2. v \in Values /\ m.ram.offset < Slots
    BY <1>2, RoomIsASlot DEF Data
  <2> HIDE DEF v
  <2>3. /\ x \in Machines /\ x.ok /\ x.chip.header = m.chip.header
        /\ x.chip.log[m.ram.cur] = Appended(m.chip.log[m.ram.cur], m.ram.offset, Valid(b, v))
        /\ x.chip.log[Other(m.ram.cur)] = m.chip.log[Other(m.ram.cur)]
        /\ x.ram.cur = m.ram.cur /\ x.ram.offset = m.ram.offset + 1
        /\ x.ram.reserved = m.ram.reserved /\ x.ram.error = m.ram.error
    BY <2>2, RecordEffect
  <2> HIDE DEF x
  <2>4. StillCopies(x, m)
    BY <2>3 DEF StillCopies
  <2>5. w = x
    BY <2>1 DEF x, v
  <2> QED BY <2>1, <2>4, <2>5
<1>3. CASE ~HasRoom(m)
  <2>1. ~CanSwitch(m)
    BY DEF CanSwitch
  <2>2. SameButError(w, m) /\ ~w.ok
    BY <1>3, <2>1, StuckWrite
  <2> HIDE DEF w
  <2> QED BY <2>2 DEF SameButError, StillCopies, w
<1> QED BY <1>1, <1>2, <1>3

\* write_all() of init() leaves the headers alone.
LEMMA BootWriteAll ==
  ASSUME NEW m \in Machines, m.chip.header[Other(m.ram.cur)] = "FULL", m.ram.reserved = 0,
         NEW data \in Data
  PROVE  StillCopies(WriteAll(m, data, Write), m)
<1> DEFINE u == WrittenUpTo(m, data, Write)
           S == {n \in 0..NBlocks : StillCopies(u[n], m)}
<1>1. NBlocks \in Nat
  BY FlashStorageAssumption
<1>2. /\ u \in [0..NBlocks -> Machines] /\ u[0] = [m EXCEPT !.ok = TRUE]
      /\ \A n \in 1..NBlocks : u[n] = PutNonZero(u[n - 1], data, n - 1, Write)
  BY <1>1, LoopWrite
<1> HIDE DEF u
<1>3. StillCopies(u[0], m)
  BY <1>2 DEF Machines, StillCopies
<1>4. ASSUME NEW n \in 0..(NBlocks - 1), StillCopies(u[n], m) PROVE StillCopies(u[n + 1], m)
  <2>1. n \in Blocks /\ n + 1 \in 1..NBlocks /\ (n + 1) - 1 = n
    BY <1>1 DEF Blocks
  <2>2. u[n + 1] = PutNonZero(u[n], data, n, Write)
    BY <1>2, <2>1
  <2>3. CASE u[n].ok /\ data[n] # 0
    <3> DEFINE x == u[n]
               y == Write(x, data, n)
    <3>1. u[n + 1] = y
      BY <2>2, <2>3 DEF PutNonZero
    <3>2. /\ x \in Machines /\ x.chip.header = m.chip.header /\ x.ram.cur = m.ram.cur
          /\ x.ram.reserved = 0 /\ x.ram.error = m.ram.error
      BY <1>4, <2>3 DEF StillCopies
    <3> HIDE DEF x
    <3>3. StillCopies(y, x)
      BY <2>1, <2>3, <3>2, BootWrite
    <3> HIDE DEF y
    <3> QED BY <3>1, <3>2, <3>3 DEF StillCopies
  <2>4. CASE ~(u[n].ok /\ data[n] # 0)
    BY <1>4, <2>2, <2>4 DEF PutNonZero
  <2> QED BY <2>3, <2>4
<1>5. 0 \in S /\ \A n \in 0..(NBlocks - 1) : n \in S => n + 1 \in S
  BY <1>1, <1>3, <1>4
<1> HIDE DEF S
<1>6. NBlocks \in S
  BY <1>1, <1>5, LoopInduction
<1> QED BY <1>6 DEF S, WriteAll, u

\* It copies everything out of the full sector, or fails.
LEMMA BootWriteAllKeeps ==
  ASSUME NEW m, NEW P, Copying(m, P), NEW data \in Data, \A b \in Blocks : data[b] \in P[b]
  PROVE  LET w == WriteAll(m, data, Write)
         IN  Copying(w, P) /\ (w.ok => Copied(w, data, NBlocks))
<1> DEFINE u == WrittenUpTo(m, data, Write)
           Good(n) == Copying(u[n], P) /\ (u[n].ok => Copied(u[n], data, n))
           S == {n \in 0..NBlocks : Good(n)}
<1>1. NBlocks \in Nat /\ m \in Machines
  BY FlashStorageAssumption DEF Copying, Ready
<1>2. /\ u \in [0..NBlocks -> Machines] /\ u[0] = [m EXCEPT !.ok = TRUE]
      /\ \A n \in 1..NBlocks : u[n] = PutNonZero(u[n - 1], data, n - 1, Write)
  BY <1>1, LoopWrite
<1> HIDE DEF u
<1>3. Good(0)
  <2>1. /\ u[0] \in Machines /\ u[0].chip = m.chip /\ u[0].ram = m.ram
        /\ u[0].images = m.images
    BY <1>1, <1>2 DEF Machines
  <2>2. Ready(u[0], P)
    BY <2>1, SameFlash DEF Copying
  <2>3. Copied(u[0], data, 0)
    BY DEF Copied, Blocks
  <2> QED BY <2>1, <2>2, <2>3 DEF Copying
<1>4. ASSUME NEW n \in 0..(NBlocks - 1), Good(n) PROVE Good(n + 1)
  <2>1. n \in Blocks /\ n + 1 \in 1..NBlocks /\ (n + 1) - 1 = n
    BY <1>1 DEF Blocks
  <2>2. u[n + 1] = PutNonZero(u[n], data, n, Write)
    BY <1>2, <2>1
  <2>3. CASE u[n].ok /\ data[n] # 0
    <3> DEFINE x == u[n]
               y == Write(x, data, n)
               z == WriteWithin(x, data, n)
    <3>1. u[n + 1] = y
      BY <2>2, <2>3 DEF PutNonZero
    <3>2. Copying(x, P) /\ Copied(x, data, n) /\ data[n] \in P[n]
      BY <1>4, <2>1, <2>3
    <3> HIDE DEF x
    <3>3. Copying(z, P) /\ z.eraseOk = x.eraseOk /\ (z.ok => Copied(z, data, n + 1))
      BY <2>1, <3>2, WithinKeeps
    <3>4. x \in Machines /\ x.chip.header[Other(x.ram.cur)] = "FULL" /\ x.ram.reserved = 0
      BY <3>2 DEF Copying, Ready
    <3>5. y = z \/ (SameButError(y, x) /\ ~y.ok)
      BY <2>1, <2>3, <3>4, BootWrite
    <3> HIDE DEF y, z
    <3>6. SameButError(y, x) => Copying(y, P)
      <4> SUFFICES ASSUME SameButError(y, x) PROVE Copying(y, P)
        OBVIOUS
      <4>1. Ready(y, P)
        BY <3>2, SameFlash DEF SameButError, Copying
      <4> QED BY <3>4, <4>1 DEF SameButError, Copying
    <3> QED BY <3>1, <3>3, <3>5, <3>6
  <2>4. CASE ~(u[n].ok /\ data[n] # 0)
    <3>1. u[n + 1] = u[n]
      BY <2>2, <2>4 DEF PutNonZero
    <3>2. u[n].ok => Copied(u[n], data, n + 1)
      <4> SUFFICES ASSUME u[n].ok, NEW c \in Blocks, c < n + 1, data[c] # 0
                   PROVE LoadSector(u[n].chip.log[u[n].ram.cur], Zeroes)[c] = data[c]
        BY DEF Copied
      <4>1. c < n
        BY <2>1, <2>4 DEF Blocks
      <4> QED BY <1>4, <4>1 DEF Copied
    <3> QED BY <1>4, <3>1, <3>2
  <2> QED BY <2>3, <2>4
<1> HIDE DEF Good
<1>5. 0 \in S /\ \A n \in 0..(NBlocks - 1) : n \in S => n + 1 \in S
  BY <1>1, <1>3, <1>4
<1> HIDE DEF S
<1>6. NBlocks \in S
  BY <1>1, <1>5, LoopInduction
<1>7. Good(NBlocks)
  BY <1>6 DEF S
<1> QED BY <1>7 DEF Good, WriteAll, u

\* Without a record there are no contents.
LEMMA NoContents ==
  ASSUME NEW c \in Chips, ~HasContents(c)
  PROVE  Loaded(c) = Zeroes
<1>1. \A s \in Sectors, data \in Data : LoadSector(c.log[s], data) = data
  <2> TAKE s \in Sectors, data \in Data
  <2>1. c.log[s] \in Logs
    BY ChipParts
  <2>2. \A b \in Blocks : LoadSector(c.log[s], data)[b] = data[b]
    BY <2>1, LoadNeedsRecord DEF HasContents
  <2>3. LoadSector(c.log[s], data) \in Data
    BY <2>1, LoadType
  <2> QED BY <2>2, <2>3 DEF Data
<1>2. Zeroes \in Data
  BY FlashStorageAssumption DEF Zeroes, Data
<1>3. FirstSector(c) \in Sectors /\ Other(FirstSector(c)) \in Sectors
  BY FirstSectorFacts, SectorFacts
<1> DEFINE s == FirstSector(c)
           one == IF InPlay(c, s) THEN LoadSector(c.log[s], Zeroes) ELSE Zeroes
<1>4. one = Zeroes
  BY <1>1, <1>2, <1>3
<1>5. Loaded(c) = IF BadHeaders(c) THEN Zeroes
                  ELSE IF InPlay(c, Other(s)) THEN LoadSector(c.log[Other(s)], one) ELSE one
  BY DEF Loaded
<1> HIDE DEF one, s
<1> QED BY <1>1, <1>2, <1>3, <1>4, <1>5 DEF s

\* Erasing what holds nothing loses nothing.
LEMMA EmptierSound ==
  ASSUME NEW c, NEW P, Sound(c, P), ~HasContents(c), NEW d, Emptier(d, c)
  PROVE  Sound(d, P) /\ Loaded(d) = Zeroes /\ ~HasContents(d)
<1>1. c \in Chips /\ d \in Chips /\ LogsOK(c)
  BY DEF Sound, Emptier
<1>2. ~HasContents(d)
  <2>1. \A i \in 0..(Slots - 1) : EmptyLog[i].state # "VALID"
    BY RecordKinds DEF EmptyLog
  <2> QED BY <2>1 DEF HasContents, Emptier
<1>3. LogsOK(d)
  <2>1. Tight(EmptyLog, 0) /\ 0 \in 0..Slots
    BY EmptyLogIsTight, ReserveIsNat
  <2> QED BY <1>1, <2>1 DEF LogsOK, Emptier
<1>4. Loaded(c) = Zeroes /\ Loaded(d) = Zeroes
  BY <1>1, <1>2, NoContents
<1> QED BY <1>1, <1>2, <1>3, <1>4 DEF Sound

\* Two available sectors read as zeroes.
LEMMA AvailableLoads ==
  ASSUME NEW c \in Chips, \A s \in Sectors : c.header[s] = "AVAILABLE"
  PROVE  Loaded(c) = Zeroes
<1>1. FirstSector(c) \in Sectors /\ Other(FirstSector(c)) \in Sectors
  BY FirstSectorFacts, SectorFacts
<1>2. ~BadHeaders(c)
  BY SectorFacts DEF BadHeaders, HasState
<1>3. ~InPlay(c, FirstSector(c)) /\ ~InPlay(c, Other(FirstSector(c)))
  BY <1>1 DEF InPlay
<1> QED BY <1>2, <1>3 DEF Loaded

\* The parts of a boot.
BootLast(c) == IF InPlay(c, Other(FirstSector(c))) THEN Other(FirstSector(c)) ELSE FirstSector(c)
BootStart(c) == Machine(c, [NoRam EXCEPT !.offset = End(c.log[BootLast(c)])], TRUE)
BootCopying(c) == [BootStart(c) EXCEPT !.ram.cur = Other(FirstSector(c))]
BootCopied(c) == WriteAll(BootCopying(c), Loaded(c), Write)
BootEmptied(c) == EraseSector(BootCopied(c), FirstSector(c), TRUE)

\* init() is what its cases say, written out: it erases all, or loads and copies.
LEMMA BootParts ==
  ASSUME NEW c \in Chips
  PROVE  /\ Boot(c) =
               IF BadHeaders(c) THEN EraseAll(Machine(c, NoRam, TRUE))
               ELSE IF c.header[FirstSector(c)] # "FULL" THEN BootStart(c)
               ELSE IF ~BootCopied(c).ok THEN EraseAll(BootCopied(c))
               ELSE [BootEmptied(c) EXCEPT !.ram.reserved = 0]
         /\ NoRam \in Rams
         /\ BootStart(c) \in Machines /\ BootStart(c).chip = c /\ BootStart(c).images = {c}
         /\ BootStart(c).ram.cur = 0 /\ BootStart(c).ram.reserved = 0 /\ ~BootStart(c).ram.error
         /\ BootStart(c).ram.offset = End(c.log[BootLast(c)])
         /\ BootCopying(c) \in Machines /\ BootCopying(c).chip = c /\ BootCopying(c).images = {c}
         /\ BootCopying(c).ram.cur = Other(FirstSector(c)) /\ BootCopying(c).ram.reserved = 0
         /\ BootCopying(c).ram.offset = End(c.log[BootLast(c)]) /\ ~BootCopying(c).ram.error
         /\ BootCopied(c) \in Machines
<1>1. FirstSector(c) \in Sectors /\ Other(FirstSector(c)) \in Sectors /\ BootLast(c) \in Sectors
  BY FirstSectorFacts, SectorFacts DEF BootLast
<1>2. End(c.log[BootLast(c)]) \in 0..Slots
  BY <1>1, ChipParts, EndIsASlot
<1> DEFINE r == [NoRam EXCEPT !.offset = End(c.log[BootLast(c)])]
<1>3. NoRam \in Rams
  BY SectorFacts, ReserveIsNat DEF NoRam, Rams
<1>4. /\ r \in Rams /\ r.cur = 0 /\ r.reserved = 0 /\ ~r.error
      /\ r.offset = End(c.log[BootLast(c)])
  BY <1>2, <1>3 DEF NoRam, Rams
<1> HIDE DEF r
<1>5. /\ BootStart(c) \in Machines /\ BootStart(c).chip = c /\ BootStart(c).ram = r
      /\ BootStart(c).images = {c}
  BY <1>4, MachineType DEF BootStart, r
<1>6. /\ BootCopying(c) \in Machines /\ BootCopying(c).chip = c /\ BootCopying(c).images = {c}
      /\ BootCopying(c).ram.cur = Other(FirstSector(c)) /\ BootCopying(c).ram.reserved = 0
      /\ BootCopying(c).ram.offset = End(c.log[BootLast(c)]) /\ ~BootCopying(c).ram.error
  BY <1>1, <1>4, <1>5 DEF BootCopying, Machines, Rams
<1>7. BootCopied(c) \in Machines
  BY <1>6, LoadedType, WriteAllType DEF BootCopied
<1>8. Boot(c) =
         IF BadHeaders(c) THEN EraseAll(Machine(c, NoRam, TRUE))
         ELSE IF c.header[FirstSector(c)] # "FULL" THEN BootStart(c)
         ELSE IF ~BootCopied(c).ok THEN EraseAll(BootCopied(c))
         ELSE [BootEmptied(c) EXCEPT !.ram.reserved = 0]
  BY DEF Boot, BootStart, BootLast, BootCopying, BootCopied, BootEmptied
<1> QED BY <1>3, <1>4, <1>5, <1>6, <1>7, <1>8

\* The end of a boot that has copied the full sector.
LEMMA BootEmptiedParts ==
  ASSUME NEW c \in Chips, c.header[FirstSector(c)] = "FULL"
  PROVE  LET w == [BootEmptied(c) EXCEPT !.ram.reserved = 0]
             s == FirstSector(c)
         IN  /\ BootCopied(c).chip.header = c.header
             /\ BootCopied(c).ram.cur = Other(s) /\ BootCopied(c).ram.reserved = 0
             /\ BootEmptied(c) \in Machines /\ w \in Machines
             /\ BootEmptied(c).chip.header[s] = "AVAILABLE"
             /\ BootEmptied(c).chip.header[Other(s)] = c.header[Other(s)]
             /\ BootEmptied(c).chip.log[s] = EmptyLog
             /\ BootEmptied(c).chip.log[Other(s)] = BootCopied(c).chip.log[Other(s)]
             /\ BootEmptied(c).ram = BootCopied(c).ram
             /\ BootEmptied(c).images = BootCopied(c).images \cup
                    {EraseSector(BootCopied(c), s, FALSE).chip, BootEmptied(c).chip}
             /\ w.chip = BootEmptied(c).chip /\ w.images = BootEmptied(c).images
             /\ w.ram.cur = Other(s) /\ w.ram.reserved = 0
             /\ w.ram.offset = BootCopied(c).ram.offset
             /\ BootCopied(c).ok => ~w.ram.error
<1> DEFINE s == FirstSector(c)
           x == BootCopied(c)
           e == BootEmptied(c)
           w == [e EXCEPT !.ram.reserved = 0]
<1>1. s \in Sectors /\ Other(s) \in Sectors /\ Other(Other(s)) = s
  BY FirstSectorFacts, SectorFacts
<1> HIDE DEF s
<1>2. x \in Machines /\ StillCopies(x, BootCopying(c))
  <2>1. /\ BootCopying(c) \in Machines /\ BootCopying(c).ram.reserved = 0
        /\ BootCopying(c).chip.header[Other(BootCopying(c).ram.cur)] = "FULL"
    BY <1>1, BootParts DEF s
  <2>2. Loaded(c) \in Data
    BY LoadedType
  <2>3. StillCopies(WriteAll(BootCopying(c), Loaded(c), Write), BootCopying(c))
    BY <2>1, <2>2, BootWriteAll
  <2> QED BY <2>3, BootParts DEF BootCopied
<1>3. /\ x.chip.header = c.header /\ x.ram.cur = Other(s) /\ x.ram.reserved = 0
      /\ x.ok => ~x.ram.error
  BY <1>2, BootParts DEF StillCopies, s
<1>4. e = EraseSector(x, s, TRUE)
  BY DEF BootEmptied, s
<1> HIDE DEF x, e
<1>5. /\ e \in Machines
      /\ e.chip.header[s] = "AVAILABLE" /\ e.chip.header[Other(s)] = x.chip.header[Other(s)]
      /\ e.chip.log[s] = EmptyLog /\ e.chip.log[Other(s)] = x.chip.log[Other(s)]
      /\ e.ram = x.ram /\ e.ok = x.ok /\ e.eraseOk = x.eraseOk
      /\ e.images = x.images \cup {EraseSector(x, s, FALSE).chip, e.chip}
  BY <1>1, <1>2, <1>4, EraseAndMarkEffect
<1>6. /\ w \in Machines /\ w.chip = e.chip /\ w.images = e.images
      /\ w.ram.cur = e.ram.cur /\ w.ram.reserved = 0 /\ w.ram.offset = e.ram.offset
      /\ w.ram.error = e.ram.error
  BY <1>5 DEF Machines, Rams
<1> HIDE DEF w
<1> QED BY <1>3, <1>5, <1>6 DEF w, x, e, s

\* A flash that the boot that finds it will not mark: the second sector is in
\* use, or none.
Unmarked(c) == c.header[0] = "AVAILABLE" /\ c.header[1] \in {"AVAILABLE", "IN_USE"}

\* What a boot that does not lose everything does: it keeps the contents,
\* wherever power is lost, and what it goes on to write to is where it reads,
\* unless it goes astray.  Where there is nothing it finds nothing.
Booted(c, P) ==
    LET w == Boot(c)
    IN  /\ Loaded(w.chip) = Loaded(c) /\ LogsOK(w.chip) /\ ~Alike(w.chip)
        /\ \A d \in w.images : Keeps(d, P)
        /\ ~HasContents(c) => ~HasContents(w.chip) /\ \A d \in w.images : ~HasContents(d)
        /\ w.chip.header[w.ram.cur] # "IN_USE" =>
              Unmarked(w.chip) /\ (w.chip = c \/ ~HasContents(w.chip))
        /\ w.chip.header[w.ram.cur] = "IN_USE" =>
              /\ Writable(w.chip, w.ram.cur, w.ram.offset)
              /\ w.chip.header[Other(w.ram.cur)] = "AVAILABLE"
        /\ w.ram.reserved = 0 /\ ~w.ram.error

\* init() with bad headers and nothing to lose.
LEMMA BootErases ==
  ASSUME NEW c, NEW P, Sound(c, P), ~Alike(c), ~LosesAll(c), BadHeaders(c)
  PROVE  Booted(c, P)
<1> DEFINE m == Machine(c, NoRam, TRUE)
           w == EraseAll(m)
<1>1. c \in Chips /\ Boot(c) = w
  BY BootParts DEF Sound
<1>2. m \in Machines /\ m.chip = c /\ m.images = {c} /\ m.ram = NoRam
  <2>1. NoRam \in Rams /\ TRUE \in BOOLEAN
    BY <1>1, BootParts
  <2> QED BY <1>1, <2>1, MachineType
<1> HIDE DEF m
<1>3. /\ w \in Machines
      /\ w.chip.header[0] = "IN_USE" /\ w.chip.header[1] = "AVAILABLE"
      /\ w.chip.log[0] = EmptyLog /\ w.chip.log[1] = EmptyLog
      /\ w.ram.cur = 0 /\ w.ram.offset = 0 /\ w.ram.reserved = m.ram.reserved
      /\ ~w.ram.error
      /\ \A d \in w.images : d \in m.images \/ Emptier(d, m.chip)
  BY <1>2, EraseAllEffect
<1> HIDE DEF w
<1>4. Loaded(w.chip) = Zeroes /\ Writable(w.chip, 0, 0)
  <2>1. w.chip \in Chips
    BY <1>3, MachineParts
  <2> QED BY <1>3, <2>1, ErasedLoads
<1>5. ~HasContents(c)
  BY <1>1, <1>4 DEF LosesAll
<1>6. Loaded(c) = Zeroes
  BY <1>1, <1>5, NoContents
<1>7. Keeps(c, P)
  BY <1>1 DEF Keeps
<1>8. \A d : Emptier(d, c) => Keeps(d, P)
  BY <1>5, EmptierSound DEF Keeps, Emptier
<1>9. \A d \in w.images : Keeps(d, P)
  BY <1>2, <1>3, <1>7, <1>8
<1>10. w.ram.reserved = 0
  BY <1>2, <1>3 DEF NoRam
<1>11. Other(0) = 1
  BY DEF Other
<1>12. ~Alike(w.chip)
  BY <1>3 DEF Alike
<1>13. ~HasContents(w.chip) /\ \A d \in w.images : ~HasContents(d)
  <2>1. Emptier(w.chip, c)
    <3>1. w.chip \in Chips /\ \A s \in Sectors : w.chip.log[s] = EmptyLog
      BY <1>3, MachineParts DEF Sectors
    <3> QED BY <1>12, <3>1 DEF Emptier
  <2>2. \A d : Emptier(d, c) => ~HasContents(d)
    BY <1>5, EmptierSound
  <2> QED BY <1>2, <1>3, <1>5, <2>1, <2>2
<1> QED BY <1>1, <1>3, <1>4, <1>6, <1>9, <1>10, <1>11, <1>12, <1>13 DEF Booted, Writable

\* init() that finds no full sector.
LEMMA BootFinds ==
  ASSUME NEW c, NEW P, Sound(c, P), ~Alike(c), ~BadHeaders(c),
         c.header[FirstSector(c)] # "FULL"
  PROVE  Booted(c, P)
<1> DEFINE w == BootStart(c)
<1>1. c \in Chips /\ LogsOK(c) /\ Boot(c) = w
  BY BootParts DEF Sound
<1>2. /\ w \in Machines /\ w.chip = c /\ w.images = {c}
      /\ w.ram.cur = 0 /\ w.ram.reserved = 0 /\ w.ram.offset = End(c.log[BootLast(c)])
      /\ ~w.ram.error
  BY <1>1, BootParts
<1> HIDE DEF w
<1>3. Keeps(c, P)
  BY <1>1 DEF Keeps
<1>4. ASSUME c.header[0] = "IN_USE"
      PROVE  Writable(c, 0, End(c.log[BootLast(c)])) /\ c.header[Other(0)] = "AVAILABLE"
  <2>1. ~HasState(c, "FULL") /\ HasState(c, "IN_USE") /\ ~HasState(c, "BLANK")
    BY <1>1, <1>4, FirstSectorFacts, SectorFacts DEF HasState, BadHeaders
  <2>2. Other(0) = 1 /\ 0 \in Sectors /\ 1 \in Sectors
    BY DEF Other, Sectors
  <2>3. c.header[1] = "AVAILABLE"
    <3>1. c.header[1] \in Headers /\ c.header[1] # "IN_USE"
      BY <1>1, <1>4, <2>2, ChipParts DEF BadHeaders
    <3>2. c.header[1] # "FULL" /\ c.header[1] # "BLANK"
      BY <2>1, <2>2 DEF HasState
    <3> QED BY <3>1, <3>2 DEF Headers
  <2>4. FirstSector(c) = 0
    <3>1. FirstSector(c) \in Sectors /\ c.header[FirstSector(c)] = "IN_USE"
      BY <1>1, <2>1, FirstSectorFacts
    <3> QED BY <2>3, <3>1 DEF Sectors
  <2>5. BootLast(c) = 0
    BY <2>2, <2>3, <2>4 DEF BootLast, InPlay
  <2>6. PICK n \in 0..Slots : Tight(c.log[0], n)
    BY <1>1, <2>2 DEF LogsOK
  <2>7. End(c.log[0]) = n
    BY <1>1, <2>2, <2>6, ChipParts, EndOfTight
  <2> QED BY <1>1, <1>4, <2>2, <2>3, <2>5, <2>6, <2>7 DEF Writable
<1>5. ASSUME c.header[0] # "IN_USE" PROVE Unmarked(c)
  <2>1. \A s \in Sectors : c.header[s] \in Headers /\ c.header[s] \notin {"FULL", "BLANK"}
    BY <1>1, FirstSectorFacts, ChipParts DEF HasState, BadHeaders
  <2> QED BY <1>5, <2>1, SectorFacts DEF Unmarked, Headers
<1> QED BY <1>1, <1>2, <1>3, <1>4, <1>5 DEF Booted

\* With good headers the sector beside a full one is available or in use.
LEMMA FullHeaders ==
  ASSUME NEW c \in Chips, ~BadHeaders(c), c.header[FirstSector(c)] = "FULL"
  PROVE  c.header[Other(FirstSector(c))] \in {"AVAILABLE", "IN_USE"}
<1> DEFINE s == FirstSector(c)
           t == Other(s)
<1>1. s \in Sectors /\ t \in Sectors /\ t # s
  BY FirstSectorFacts, SectorFacts
<1>2. ~HasState(c, "BLANK") /\ (c.header[0] # c.header[1] \/ c.header[0] = "AVAILABLE")
  BY DEF BadHeaders
<1>3. c.header[t] # "BLANK"
  BY <1>1, <1>2 DEF HasState
<1>4. (s = 0 /\ t = 1) \/ (s = 1 /\ t = 0)
  BY <1>1 DEF Sectors
<1>5. c.header[t] \in Headers
  BY <1>1, ChipParts
<1>6. c.header[s] = "FULL"
  OBVIOUS
<1> HIDE DEF s, t
<1>7. c.header[t] \in {"AVAILABLE", "IN_USE"}
  BY <1>2, <1>3, <1>4, <1>5, <1>6 DEF Headers
<1> QED BY <1>7 DEF s, t

\* init() that finds a full sector, and nothing in it.
LEMMA BootCopiesNothing ==
  ASSUME NEW c, NEW P, Sound(c, P), ~Alike(c), ~BadHeaders(c),
         c.header[FirstSector(c)] = "FULL", ~HasContents(c)
  PROVE  Booted(c, P)
<1> DEFINE s == FirstSector(c)
           x == BootCopied(c)
           e == BootEmptied(c)
           g == EraseSector(x, s, FALSE)
           w == [e EXCEPT !.ram.reserved = 0]
<1>1. c \in Chips /\ LogsOK(c) /\ s \in Sectors /\ Other(s) \in Sectors /\ Other(Other(s)) = s
  BY FirstSectorFacts, SectorFacts DEF Sound
<1>2. Loaded(c) = Zeroes /\ Loaded(c) \in Data
  BY <1>1, NoContents, LoadedType
<1>3. x = [BootCopying(c) EXCEPT !.ok = TRUE]
  <2>1. BootCopying(c) \in Machines /\ \A b \in Blocks : Loaded(c)[b] = 0
    BY <1>1, <1>2, BootParts DEF Zeroes
  <2> QED BY <1>2, <2>1, NothingToWrite DEF BootCopied
<1>4. /\ x \in Machines /\ x.ok /\ x.chip = c /\ x.images = {c}
      /\ x.ram.offset = End(c.log[BootLast(c)])
  <2>1. /\ BootCopying(c) \in Machines /\ BootCopying(c).chip = c /\ BootCopying(c).images = {c}
        /\ BootCopying(c).ram.offset = End(c.log[BootLast(c)])
    BY <1>1, BootParts
  <2> HIDE DEF x
  <2> QED BY <1>3, <2>1 DEF Machines
<1>5. /\ x.chip.header = c.header
      /\ x.ram.cur = Other(s) /\ x.ram.reserved = 0
      /\ e \in Machines /\ w \in Machines
      /\ e.chip.header[s] = "AVAILABLE"
      /\ e.chip.header[Other(s)] = c.header[Other(s)]
      /\ e.chip.log[s] = EmptyLog
      /\ e.chip.log[Other(s)] = x.chip.log[Other(s)]
      /\ e.ram = x.ram
      /\ e.images = x.images \cup {g.chip, e.chip}
      /\ w.chip = e.chip /\ w.images = e.images
      /\ w.ram.cur = Other(s) /\ w.ram.reserved = 0
      /\ w.ram.offset = x.ram.offset
      /\ x.ok => ~w.ram.error
  BY <1>1, BootEmptiedParts
<1>6. Boot(c) = w
  BY <1>1, <1>4, BootParts
<1>7. /\ g \in Machines /\ g.chip.log[s] = EmptyLog /\ g.chip.header[s] = "BLANK"
      /\ g.chip.log[Other(s)] = c.log[Other(s)] /\ g.chip.header[Other(s)] = c.header[Other(s)]
  <2>1. x \in Machines /\ s \in Sectors /\ x.chip = c
    BY <1>1, <1>4
  <2> HIDE DEF x, s, e, w
  <2>2. /\ g \in Machines
        /\ g.chip.header[s] = "BLANK" /\ g.chip.header[Other(s)] = x.chip.header[Other(s)]
        /\ g.chip.log[s] = EmptyLog /\ g.chip.log[Other(s)] = x.chip.log[Other(s)]
        /\ g.ram = x.ram /\ g.ok = x.ok /\ g.eraseOk = x.eraseOk
        /\ g.images = x.images \cup {g.chip}
    BY <2>1, EraseEffect
  <2> QED BY <2>1, <2>2
<1> HIDE DEF x, e, g, w, s
<1>8. g.chip \in Chips /\ e.chip \in Chips
  BY <1>5, <1>7, MachineParts
<1>9. Emptier(g.chip, c) /\ Emptier(e.chip, c)
  <2>1. \A t \in Sectors : t = s \/ t = Other(s)
    BY <1>1, SectorFacts
  <2>2. ~Alike(g.chip) /\ ~Alike(e.chip)
    BY <1>1, <1>5, <1>7, AlikeFacts
  <2> QED BY <1>4, <1>5, <1>7, <1>8, <2>1, <2>2 DEF Emptier
<1>10. Sound(g.chip, P) /\ Sound(e.chip, P) /\ Loaded(e.chip) = Zeroes
  BY <1>9, EmptierSound
<1>11. \A d \in w.images : Keeps(d, P)
  BY <1>1, <1>4, <1>5, <1>9, <1>10 DEF Keeps, Sound, Emptier
<1>12. ASSUME c.header[Other(s)] = "IN_USE" PROVE Writable(w.chip, Other(s), w.ram.offset)
  <2>1. BootLast(c) = Other(s)
    BY <1>12 DEF BootLast, InPlay, s
  <2>2. PICK n \in 0..Slots : Tight(c.log[Other(s)], n)
    BY <1>1 DEF LogsOK
  <2>3. End(c.log[Other(s)]) = n
    BY <1>1, <2>2, ChipParts, EndOfTight
  <2> QED BY <1>1, <1>4, <1>5, <1>8, <1>10, <1>12, <2>1, <2>2, <2>3 DEF Writable, Sound
<1>13. ~HasContents(w.chip) /\ \A d \in w.images : ~HasContents(d)
  BY <1>4, <1>5, <1>9, EmptierSound
<1>14. ASSUME c.header[Other(s)] # "IN_USE" PROVE Unmarked(w.chip)
  <2>1. c.header[Other(s)] = "AVAILABLE"
    BY <1>1, <1>14, FullHeaders DEF s
  <2>2. \A t \in Sectors : w.chip.header[t] = "AVAILABLE"
    BY <1>1, <1>5, <2>1, SectorFacts
  <2> QED BY <2>2, SectorFacts DEF Unmarked
<1> QED BY <1>1, <1>2, <1>4, <1>5, <1>6, <1>9, <1>10, <1>11, <1>12, <1>13, <1>14
        DEF Booted, Sound, Emptier

\* A boot that finds contents in a full sector and does not lose them has
\* copied them into a sector in use.
LEMMA BootCopyEnds ==
  ASSUME NEW c \in Chips, ~LosesAll(c), ~BadHeaders(c),
         c.header[FirstSector(c)] = "FULL", HasContents(c)
  PROVE  BootCopied(c).ok /\ c.header[Other(FirstSector(c))] = "IN_USE"
<1> DEFINE s == FirstSector(c)
           t == Other(s)
           x == BootCopied(c)
           e == BootEmptied(c)
           w == [e EXCEPT !.ram.reserved = 0]
<1>1. s \in Sectors /\ t \in Sectors /\ Other(t) = s /\ t # s /\ x \in Machines
  BY FirstSectorFacts, SectorFacts, BootParts
<1>2. Loaded(Boot(c).chip) # Zeroes
  BY DEF LosesAll
<1>3. x.ok
  <2> SUFFICES ASSUME ~x.ok PROVE FALSE
    OBVIOUS
  <2>1. Boot(c) = EraseAll(x)
    BY <1>1, BootParts
  <2> DEFINE y == EraseAll(x)
  <2>2. /\ y \in Machines
        /\ y.chip.header[0] = "IN_USE" /\ y.chip.header[1] = "AVAILABLE"
        /\ y.chip.log[0] = EmptyLog /\ y.chip.log[1] = EmptyLog
        /\ y.ram.cur = 0 /\ y.ram.offset = 0 /\ y.ram.reserved = x.ram.reserved
        /\ ~y.ram.error
        /\ \A d \in y.images : d \in x.images \/ Emptier(d, x.chip)
    BY <1>1, EraseAllEffect
  <2> HIDE DEF x, y
  <2>3. y.chip \in Chips
    BY <2>2, MachineParts
  <2>4. Loaded(y.chip) = Zeroes
    BY <2>2, <2>3, ErasedLoads
  <2> QED BY <1>2, <2>1, <2>4 DEF y
<1>4. /\ x.chip.header = c.header
      /\ x.ram.cur = t /\ x.ram.reserved = 0
      /\ e \in Machines /\ w \in Machines
      /\ e.chip.header[s] = "AVAILABLE"
      /\ e.chip.header[t] = c.header[t]
      /\ w.chip = e.chip /\ w.images = e.images
      /\ w.ram.cur = t /\ w.ram.reserved = 0
      /\ w.ram.offset = x.ram.offset /\ e.ram = x.ram
      /\ x.ok => ~w.ram.error
  BY <1>1, BootEmptiedParts
<1>5. Boot(c) = w
  BY <1>1, <1>3, BootParts
<1>6. c.header[t] = "IN_USE"
  <2>1. c.header[t] # "AVAILABLE"
    <3> SUFFICES ASSUME c.header[t] = "AVAILABLE" PROVE FALSE
      OBVIOUS
    <3> HIDE DEF e, w, s, t, x
    <3>1. e.chip \in Chips /\ \A u \in Sectors : e.chip.header[u] = "AVAILABLE"
      BY <1>1, <1>4, MachineParts, SectorFacts DEF t
    <3>2. Loaded(e.chip) = Zeroes
      BY <3>1, AvailableLoads
    <3> QED BY <1>2, <1>4, <1>5, <3>2
  <2> QED BY <2>1, FullHeaders
<1> QED BY <1>3, <1>6

\* init() that finds a full sector, and copies it into the one in use.
LEMMA BootCopies ==
  ASSUME NEW c, NEW P, Sound(c, P), ~BadHeaders(c), c.header[FirstSector(c)] = "FULL",
         HasContents(c), BootCopied(c).ok, c.header[Other(FirstSector(c))] = "IN_USE"
  PROVE  Booted(c, P)
<1> DEFINE s == FirstSector(c)
           t == Other(s)
           x == BootCopied(c)
           e == BootEmptied(c)
           w == [e EXCEPT !.ram.reserved = 0]
           data == Loaded(c)
           Q == [b \in Blocks |-> {data[b]}]
           n == End(c.log[BootLast(c)])
<1>1. /\ c \in Chips /\ LogsOK(c) /\ s \in Sectors /\ t \in Sectors /\ Other(t) = s /\ t # s
      /\ data \in Data /\ x \in Machines
  BY FirstSectorFacts, SectorFacts, LoadedType, BootParts DEF Sound
<1>3. x.ok
  OBVIOUS
<1>4. /\ x.chip.header = c.header
      /\ x.ram.cur = t /\ x.ram.reserved = 0
      /\ e \in Machines /\ w \in Machines
      /\ e.chip.header[s] = "AVAILABLE"
      /\ e.chip.header[t] = c.header[t]
      /\ w.chip = e.chip /\ w.images = e.images
      /\ w.ram.cur = t /\ w.ram.reserved = 0
      /\ w.ram.offset = x.ram.offset /\ e.ram = x.ram
      /\ x.ok => ~w.ram.error
  BY <1>1, BootEmptiedParts
<1>5. Boot(c) = w
  BY <1>1, <1>3, BootParts
<1>6. c.header[t] = "IN_USE"
  OBVIOUS
<1>7. Writable(c, t, n)
  <2>1. BootLast(c) = t
    BY <1>6 DEF BootLast, InPlay
  <2>2. PICK k \in 0..Slots : Tight(c.log[t], k)
    BY <1>1 DEF LogsOK
  <2>3. End(c.log[t]) = k
    BY <1>1, <2>2, ChipParts, EndOfTight
  <2> HIDE DEF t
  <2> QED BY <1>1, <1>6, <2>1, <2>2, <2>3 DEF Writable
<1>8. \A b \in Blocks : Loaded(c)[b] \in Q[b] /\ data[b] \in Q[b] /\ data[b] \in P[b]
  BY DEF Sound
<1>9. Copying(BootCopying(c), Q)
  <2> DEFINE m == BootCopying(c)
  <2>1. /\ m \in Machines /\ m.chip = c /\ m.images = {c}
        /\ m.ram.cur = t /\ m.ram.reserved = 0 /\ m.ram.offset = n
    BY <1>1, BootParts
  <2> HIDE DEF m, n, Q, t, data
  <2>2. Keeps(c, Q)
    BY <1>7, <1>8, WritableSound
  <2>3. Ready(m, Q)
    BY <1>7, <1>8, <2>1, <2>2 DEF Ready
  <2>4. m.chip.header[Other(m.ram.cur)] = "FULL"
    BY <1>1, <2>1 DEF s
  <2> QED BY <2>1, <2>3, <2>4 DEF Copying, m
<1>10. Copying(x, Q) /\ Copied(x, data, NBlocks)
  <2> DEFINE m == BootCopying(c)
             y == WriteAll(m, data, Write)
  <2>1. Copying(m, Q)
    BY <1>9
  <2> HIDE DEF m, Q, data
  <2>2. \A b \in Blocks : data[b] \in Q[b]
    BY <1>8
  <2>3. Copying(y, Q) /\ (y.ok => Copied(y, data, NBlocks))
    BY <1>1, <2>1, <2>2, BootWriteAllKeeps
  <2>4. x = y
    BY DEF BootCopied, data, m
  <2> QED BY <1>3, <2>3, <2>4
<1>11. Ready(e, Q)
  <2>1. e = EraseSector(x, Other(x.ram.cur), TRUE)
    BY <1>1, <1>4 DEF BootEmptied
  <2> DEFINE y == EraseSector(x, Other(x.ram.cur), TRUE)
  <2> HIDE DEF x, Q, data, e
  <2>2. \A b \in Blocks : data[b] \in Q[b]
    BY <1>8
  <2>3. /\ Ready(y, Q) /\ y.ok = x.ok /\ y.eraseOk = x.eraseOk
        /\ y.ram = x.ram /\ y.chip.header[Other(x.ram.cur)] = "AVAILABLE"
    BY <1>1, <1>10, <2>2, EmptyingKeeps
  <2> QED BY <2>1, <2>3
<1>12. Loaded(e.chip) = data
  <2>1. Loaded(e.chip) \in Data
    BY <1>4, MachineParts, LoadedType
  <2>2. \A b \in Blocks : Loaded(e.chip)[b] = data[b]
    BY <1>11 DEF Ready
  <2> HIDE DEF data, e
  <2> QED BY <1>1, <2>1, <2>2 DEF Data
<1>13. \A d \in w.images : Keeps(d, P)
  <2> HIDE DEF w, e
  <2>1. \A d \in w.images : Keeps(d, Q)
    BY <1>4, <1>11 DEF Ready
  <2>2. \A d : Keeps(d, Q) => Keeps(d, P)
    BY <1>8 DEF Keeps, Sound
  <2> QED BY <2>1, <2>2
<1>14. Writable(w.chip, w.ram.cur, w.ram.offset)
  <2> HIDE DEF w, e, x
  <2> QED BY <1>4, <1>11 DEF Ready
<1> HIDE DEF w
<1>15. LogsOK(w.chip)
  BY <1>14 DEF Writable
<1>16. w.chip.header[Other(w.ram.cur)] = "AVAILABLE" /\ ~Alike(w.chip)
  BY <1>1, <1>4, AlikeFacts
<1> QED BY <1>3, <1>4, <1>5, <1>12, <1>13, <1>14, <1>15, <1>16 DEF Booted

\* A boot that does not lose everything keeps the contents.
LEMMA BootKeeps ==
  ASSUME NEW c, NEW P, Sound(c, P), ~Alike(c), ~LosesAll(c)
  PROVE  Booted(c, P)
<1>1. c \in Chips
  BY DEF Sound
<1> QED BY <1>1, BootErases, BootFinds, BootCopiesNothing, BootCopyEnds, BootCopies

-----------------------------------------------------------------------------
(* The invariant                                                           *)

\* The machine that the write of new contents starts from is ready for them.
LEMMA StartReady ==
  ASSUME FlashTypeOK, Kept, power, lapse = "none", ~Astray, NEW b \in Blocks, NEW v \in Values
  PROVE  /\ Ready(Machine(chip, ram, ~armed), [promised EXCEPT ![b] = @ \cup {v}])
         /\ [mem EXCEPT ![b] = v] \in Data
         /\ \A c \in Blocks : [mem EXCEPT ![b] = v][c] \in [promised EXCEPT ![b] = @ \cup {v}][c]
<1> DEFINE m == Machine(chip, ram, ~armed)
           P == [promised EXCEPT ![b] = @ \cup {v}]
<1>1. /\ m \in Machines /\ m.chip = chip /\ m.ram = ram /\ m.images = {chip}
  <2> DEFINE e == ~armed
  <2>1. chip \in Chips /\ ram \in Rams /\ e \in BOOLEAN
    BY DEF FlashTypeOK, Rams
  <2> HIDE DEF e
  <2>2. /\ Machine(chip, ram, e) \in Machines
        /\ Machine(chip, ram, e).chip = chip /\ Machine(chip, ram, e).ram = ram
        /\ Machine(chip, ram, e).eraseOk = e
        /\ Machine(chip, ram, e).ok /\ Machine(chip, ram, e).images = {chip}
    BY <2>1, MachineType
  <2> QED BY <2>2 DEF e
<1>2. \A c \in Blocks : promised[c] \subseteq P[c] /\ v \in P[b]
  BY DEF FlashTypeOK
<1>3. /\ Sound(chip, promised) /\ \A c \in Blocks : mem[c] \in promised[c]
      /\ Writable(chip, ram.cur, ram.offset)
      /\ ram.reserved # 0 => chip.header[Other(ram.cur)] = "FULL"
  BY DEF Kept
<1> HIDE DEF m, P
<1>4. Sound(chip, P) /\ Keeps(chip, P)
  BY <1>2, <1>3, WritableSound DEF Sound
<1>5. Ready(m, P)
  BY <1>1, <1>3, <1>4 DEF Ready, Sound
<1>6. \A c \in Blocks : [mem EXCEPT ![b] = v][c] \in P[c]
  BY <1>2, <1>3 DEF FlashTypeOK
<1> QED BY <1>5, <1>6, StartType DEF m, P

\* A write that ends, or that power is lost in, keeps the invariant.
LEMMA StoreBlockKeeps ==
  ASSUME FlashTypeOK, Kept, NEW b \in Blocks, NEW v \in Values, StoreBlock(b, v)
  PROVE  Kept'
<1> SUFFICES ASSUME lapse' = "none"
             PROVE  /\ Keeps(chip', promised') /\ Sound(chip', promised')
                    /\ \A c \in Blocks : mem'[c] \in promised'[c]
                    /\ Astray' \/ ( /\ Writable(chip', ram'.cur, ram'.offset)
                                    /\ ram'.reserved # 0 => chip'.header[Other(ram'.cur)] = "FULL")
  BY DEF Kept
<1> DEFINE P == [promised EXCEPT ![b] = @ \cup {v}]
           data == [mem EXCEPT ![b] = v]
           m == Machine(chip, ram, ~armed)
           w == Write(m, data, b)
<1>1. power /\ lapse = "none" /\ ~Astray
  BY DEF StoreBlock, Stores
<1>2. Ready(m, P) /\ data \in Data /\ \A c \in Blocks : data[c] \in P[c]
  BY <1>1, StartReady
<1>3. /\ mem' = data /\ chip' = w.chip /\ ram' = w.ram
      /\ promised' = [promised EXCEPT ![b] = IF w.ok THEN {v} ELSE @ \cup {v}]
  BY DEF StoreBlock
<1>4. data[b] = v
  BY DEF FlashTypeOK
<1> HIDE DEF m, data, P
<1>5. Ready(w, P) /\ (w.ok => Loaded(w.chip)[b] = data[b])
  BY <1>2, WriteKeeps
<1> HIDE DEF w
<1>6. \A c \in Blocks : P[c] = IF c = b THEN promised[c] \cup {v} ELSE promised[c]
  BY DEF P, FlashTypeOK
<1>7. \A c \in Blocks : promised'[c] =
          IF c # b THEN promised[c] ELSE IF w.ok THEN {v} ELSE promised[c] \cup {v}
  BY <1>3 DEF FlashTypeOK
<1>8. /\ w.chip \in Chips /\ LogsOK(w.chip) /\ Writable(w.chip, w.ram.cur, w.ram.offset)
      /\ w.ram.reserved # 0 => w.chip.header[Other(w.ram.cur)] = "FULL"
      /\ \A c \in Blocks : Loaded(w.chip)[c] \in P[c]
  BY <1>5 DEF Ready, Writable
<1>9. \A c \in Blocks : Loaded(w.chip)[c] \in promised'[c] /\ data[c] \in promised'[c]
  <2> TAKE c \in Blocks
  <2>1. CASE c # b \/ ~w.ok
    BY <1>2, <1>6, <1>7, <1>8, <2>1
  <2>2. CASE c = b /\ w.ok
    BY <1>4, <1>5, <1>7, <2>2
  <2> QED BY <2>1, <2>2
<1>10. Sound(w.chip, promised') /\ Keeps(w.chip, promised')
  BY <1>8, <1>9, WritableSound
<1> QED BY <1>3, <1>8, <1>9, <1>10

\* A write cut short leaves one of its images, which boots to old or new contents.
LEMMA StoreBlockCutKeeps ==
  ASSUME FlashTypeOK, Kept, NEW b \in Blocks, NEW v \in Values, StoreBlockCut(b, v)
  PROVE  Kept'
<1> SUFFICES ASSUME lapse' = "none" PROVE ~power' /\ Keeps(chip', promised')
  BY DEF Kept
<1> DEFINE P == [promised EXCEPT ![b] = @ \cup {v}]
           data == [mem EXCEPT ![b] = v]
           m == Machine(chip, ram, ~armed)
           w == Write(m, data, b)
<1>1. power /\ lapse = "none" /\ ~Astray
  BY DEF StoreBlockCut, Stores
<1>2. Ready(m, P) /\ data \in Data /\ \A c \in Blocks : data[c] \in P[c]
  BY <1>1, StartReady
<1>3. chip' \in w.images /\ promised' = P /\ ~power'
  BY DEF StoreBlockCut
<1> HIDE DEF m, data, P
<1>4. Ready(w, P) /\ (w.ok => Loaded(w.chip)[b] = data[b])
  BY <1>2, WriteKeeps
<1> HIDE DEF w
<1> QED BY <1>3, <1>4 DEF Ready

\* So does a boot.
LEMMA PowerOnKeeps ==
  ASSUME FlashTypeOK, Kept, PowerOn
  PROVE  Kept'
<1> SUFFICES ASSUME lapse' = "none"
             PROVE  /\ Keeps(chip', promised') /\ Sound(chip', promised')
                    /\ \A c \in Blocks : mem'[c] \in promised'[c]
                    /\ Astray' \/ ( /\ Writable(chip', ram'.cur, ram'.offset)
                                    /\ ram'.reserved # 0 => chip'.header[Other(ram'.cur)] = "FULL")
  BY DEF Kept
<1> DEFINE data == Loaded(chip)
           P == [b \in Blocks |-> {data[b]}]
           w == Boot(chip)
<1>1. lapse = "none" /\ ~LosesAll(chip)
  BY DEF PowerOn
<1>2. Sound(chip, promised) /\ ~Alike(chip)
  BY <1>1 DEF Kept, Keeps
<1>3. Sound(chip, P)
  BY <1>2 DEF Sound
<1>4. /\ chip' = w.chip /\ ram' = w.ram /\ mem' = data
      /\ \A b \in Blocks : promised'[b] = {data[b]}
  BY DEF PowerOn
<1>5. w \in Machines
  BY BootType DEF FlashTypeOK
<1> HIDE DEF P, data
<1>6. Booted(chip, P)
  BY <1>1, <1>2, <1>3, BootKeeps
<1>7. /\ Loaded(w.chip) = data /\ LogsOK(w.chip) /\ ~Alike(w.chip) /\ w.ram.reserved = 0
      /\ w.chip.header[w.ram.cur] = "IN_USE" => Writable(w.chip, w.ram.cur, w.ram.offset)
  BY <1>6 DEF Booted, data
<1> HIDE DEF w
<1>8. Sound(w.chip, promised') /\ Keeps(w.chip, promised')
  BY <1>4, <1>5, <1>7, MachineParts DEF Sound, Keeps
<1>9. Astray' \/ w.chip.header[w.ram.cur] = "IN_USE"
  BY <1>4 DEF Astray
<1> QED BY <1>4, <1>7, <1>8, <1>9

\* A boot cut short leaves one of its images, which boots to the same contents.
LEMMA PowerOnCutKeeps ==
  ASSUME FlashTypeOK, Kept, PowerOnCut
  PROVE  Kept'
<1> SUFFICES ASSUME lapse' = "none" PROVE ~power' /\ Keeps(chip', promised')
  BY DEF Kept
<1>1. lapse = "none" /\ ~LosesAll(chip) /\ ~power' /\ promised' = promised
      /\ chip' \in Boot(chip).images
  BY DEF PowerOnCut
<1>2. Sound(chip, promised) /\ ~Alike(chip)
  BY <1>1 DEF Kept, Keeps
<1>3. Booted(chip, promised)
  BY <1>1, <1>2, BootKeeps
<1> QED BY <1>1, <1>3 DEF Booted

\* The invariant holds from the erased flash of a new board on.
LEMMA AlwaysKept == FlashSpec => []Kept
<1>1. FlashInit => Kept
  <2> SUFFICES ASSUME FlashInit PROVE ~power /\ Keeps(chip, promised)
    BY DEF Kept
  <2>1. chip \in Chips
    <3>1. EmptyLog \in Logs /\ "BLANK" \in Headers
      BY EmptyLogIsTight DEF Headers
    <3> QED BY <3>1 DEF FlashInit, Chips, Logs
  <2>2. BadHeaders(chip)
    BY SectorFacts DEF FlashInit, BadHeaders, HasState
  <2>3. LogsOK(chip)
    <3>1. Tight(EmptyLog, 0) /\ 0 \in 0..Slots
      BY EmptyLogIsTight, ReserveIsNat
    <3> QED BY <3>1 DEF FlashInit, LogsOK
  <2>4. Sound(chip, promised)
    BY <2>1, <2>2, <2>3, BadHeadersLose DEF Sound, FlashInit, Zeroes
  <2>5. ~Alike(chip)
    BY SectorFacts DEF FlashInit, Alike, InPlay
  <2> QED BY <2>1, <2>4, <2>5 DEF Keeps, FlashInit
<1>2. FlashTypeOK /\ Kept /\ [FlashNext]_flashVars => Kept'
  <2> SUFFICES ASSUME FlashTypeOK, Kept, [FlashNext]_flashVars PROVE Kept'
    OBVIOUS
  <2>1. CASE PowerOff
    BY <2>1 DEF PowerOff, Kept
  <2>2. CASE ArmOrDisarmBoard
    BY <2>2 DEF ArmOrDisarmBoard, Kept, Astray
  <2>3. CASE UNCHANGED flashVars
    BY <2>3 DEF flashVars, Kept, Astray
  <2> QED BY <2>1, <2>2, <2>3, PowerOnKeeps, PowerOnCutKeeps, StoreBlockKeeps, StoreBlockCutKeeps
          DEF FlashNext
<1> QED BY <1>1, <1>2, FlashType, PTL DEF FlashSpec

\* What write() has said true to is read back by the next boot, wherever power
\* is lost before it or during it: AcknowledgedIsKept, for any number of
\* blocks, contents and slots.
THEOREM AcknowledgedIsRead == FlashSpec => []AcknowledgedIsKept
<1>1. Kept => AcknowledgedIsKept
  BY DEF Kept, Keeps, Sound, AcknowledgedIsKept
<1> QED BY <1>1, AlwaysKept, PTL

-----------------------------------------------------------------------------
(* Room: what reserve_size is for                                          *)

\* The driver has not given up, and while the other sector is full the one in
\* use has room for everything once more.
Roomy(c, r) ==
    /\ ~r.error
    /\ r.reserved # 0 => Slots - r.offset >= Reserve
    /\ r.reserved = 0 => c.header[Other(r.cur)] = "AVAILABLE"

\* A write that has room succeeds, in switch_full_sector() or not.
LEMMA RoomWrite ==
  ASSUME NEW m \in Machines, ~m.ram.error, HasRoom(m), NEW data \in Data, NEW b \in Blocks
  PROVE  LET w == WriteRecord(m, b, data[b])
         IN  /\ WriteWithin(m, data, b) = w /\ Write(m, data, b) = w
             /\ w \in Machines /\ w.ok /\ ~w.ram.error
             /\ w.chip.header = m.chip.header
             /\ w.ram.cur = m.ram.cur /\ w.ram.offset = m.ram.offset + 1
             /\ w.ram.reserved = m.ram.reserved
<1> DEFINE v == data[b]
           w == WriteRecord(m, b, v)
<1>1. WriteWithin(m, data, b) = w /\ Write(m, data, b) = w
  BY DEF WriteWithin, Write
<1>2. v \in Values /\ m.ram.offset < Slots
  BY RoomIsASlot DEF Data
<1> HIDE DEF v
<1>3. /\ w \in Machines /\ w.ok /\ w.chip.header = m.chip.header
      /\ w.chip.log[m.ram.cur] = Appended(m.chip.log[m.ram.cur], m.ram.offset, Valid(b, v))
      /\ w.chip.log[Other(m.ram.cur)] = m.chip.log[Other(m.ram.cur)]
      /\ w.ram.cur = m.ram.cur /\ w.ram.offset = m.ram.offset + 1
      /\ w.ram.reserved = m.ram.reserved /\ w.ram.error = m.ram.error
  BY <1>2, RecordEffect
<1> HIDE DEF w
<1> QED BY <1>1, <1>3 DEF w, v

\* The sector in use has n slots left for copies.
Left(m, n) == /\ m \in Machines /\ m.ok /\ ~m.ram.error /\ m.ram.reserved = 0
              /\ Slots - m.ram.offset >= n

\* A write that has room for n leaves room for n - 1.
LEMMA RoomLeft ==
  ASSUME NEW m, NEW n \in Nat \ {0}, Left(m, n), NEW data \in Data, NEW b \in Blocks
  PROVE  /\ Left(m, n - 1)
         /\ Left(WriteRecord(m, b, data[b]), n - 1)
         /\ WriteWithin(m, data, b) = WriteRecord(m, b, data[b])
         /\ Write(m, data, b) = WriteRecord(m, b, data[b])
<1> DEFINE w == WriteRecord(m, b, data[b])
<1>1. m \in Machines /\ ~m.ram.error /\ m.ram.offset \in 0..Slots /\ Slots \in Nat
  BY MachineParts, ReserveIsNat DEF Left
<1>2. HasRoom(m)
  BY <1>1 DEF Left, HasRoom
<1>3. /\ WriteWithin(m, data, b) = w /\ Write(m, data, b) = w
      /\ w \in Machines /\ w.ok /\ ~w.ram.error
      /\ w.chip.header = m.chip.header
      /\ w.ram.cur = m.ram.cur /\ w.ram.offset = m.ram.offset + 1
      /\ w.ram.reserved = m.ram.reserved
  BY <1>1, <1>2, RoomWrite
<1> HIDE DEF w
<1>4. Left(w, n - 1) /\ Left(m, n - 1)
  BY <1>1, <1>3 DEF Left
<1> QED BY <1>3, <1>4 DEF w

\* With a slot for every block write_all() succeeds, in switch_full_sector()...
LEMMA WriteAllSucceeds ==
  ASSUME NEW m \in Machines, ~m.ram.error, m.ram.reserved = 0,
         Slots - m.ram.offset >= NBlocks, NEW data \in Data
  PROVE  Left(WriteAll(m, data, WriteWithin), 0)
<1> DEFINE u == WrittenUpTo(m, data, WriteWithin)
           S == {n \in 0..NBlocks : Left(u[n], NBlocks - n)}
<1>1. NBlocks \in Nat
  BY FlashStorageAssumption
<1>2. /\ u \in [0..NBlocks -> Machines] /\ u[0] = [m EXCEPT !.ok = TRUE]
      /\ \A n \in 1..NBlocks : u[n] = PutNonZero(u[n - 1], data, n - 1, WriteWithin)
  BY LoopWithin
<1> HIDE DEF u
<1>3. Left(u[0], NBlocks - 0)
  <2>1. u[0] \in Machines /\ u[0].ok /\ u[0].ram = m.ram
    BY <1>2 DEF Machines
  <2>2. NBlocks - 0 = NBlocks
    BY <1>1
  <2> QED BY <2>1, <2>2 DEF Left
<1>4. ASSUME NEW n \in 0..(NBlocks - 1), Left(u[n], NBlocks - n)
      PROVE  Left(u[n + 1], NBlocks - (n + 1))
  <2>1. /\ n \in Blocks /\ n + 1 \in 1..NBlocks /\ (n + 1) - 1 = n
        /\ NBlocks - n \in Nat \ {0} /\ (NBlocks - n) - 1 = NBlocks - (n + 1)
    BY <1>1 DEF Blocks
  <2>2. u[n + 1] = PutNonZero(u[n], data, n, WriteWithin)
    BY <1>2, <2>1
  <2> DEFINE x == u[n]
             k == NBlocks - n
  <2>3. k \in Nat \ {0} /\ Left(x, k)
    BY <1>4, <2>1
  <2> HIDE DEF x, k
  <2>4. /\ Left(x, k - 1) /\ Left(WriteRecord(x, n, data[n]), k - 1)
        /\ WriteWithin(x, data, n) = WriteRecord(x, n, data[n])
        /\ Write(x, data, n) = WriteRecord(x, n, data[n])
    BY <2>1, <2>3, RoomLeft
  <2>5. u[n + 1] = x \/ u[n + 1] = WriteRecord(x, n, data[n])
    BY <2>2, <2>4 DEF PutNonZero, x
  <2> QED BY <2>1, <2>4, <2>5 DEF k
<1>5. 0 \in S /\ \A n \in 0..(NBlocks - 1) : n \in S => n + 1 \in S
  BY <1>1, <1>3, <1>4
<1> HIDE DEF S
<1>6. NBlocks \in S
  BY <1>1, <1>5, LoopInduction
<1>7. Left(u[NBlocks], NBlocks - NBlocks)
  BY <1>6 DEF S
<1> QED BY <1>1, <1>7 DEF WriteAll, u

\* ... and in init().
LEMMA BootWriteAllSucceeds ==
  ASSUME NEW m \in Machines, ~m.ram.error, m.ram.reserved = 0,
         Slots - m.ram.offset >= NBlocks, NEW data \in Data
  PROVE  Left(WriteAll(m, data, Write), 0)
<1> DEFINE u == WrittenUpTo(m, data, Write)
           S == {n \in 0..NBlocks : Left(u[n], NBlocks - n)}
<1>1. NBlocks \in Nat
  BY FlashStorageAssumption
<1>2. /\ u \in [0..NBlocks -> Machines] /\ u[0] = [m EXCEPT !.ok = TRUE]
      /\ \A n \in 1..NBlocks : u[n] = PutNonZero(u[n - 1], data, n - 1, Write)
  BY LoopWrite
<1> HIDE DEF u
<1>3. Left(u[0], NBlocks - 0)
  <2>1. u[0] \in Machines /\ u[0].ok /\ u[0].ram = m.ram
    BY <1>2 DEF Machines
  <2>2. NBlocks - 0 = NBlocks
    BY <1>1
  <2> QED BY <2>1, <2>2 DEF Left
<1>4. ASSUME NEW n \in 0..(NBlocks - 1), Left(u[n], NBlocks - n)
      PROVE  Left(u[n + 1], NBlocks - (n + 1))
  <2>1. /\ n \in Blocks /\ n + 1 \in 1..NBlocks /\ (n + 1) - 1 = n
        /\ NBlocks - n \in Nat \ {0} /\ (NBlocks - n) - 1 = NBlocks - (n + 1)
    BY <1>1 DEF Blocks
  <2>2. u[n + 1] = PutNonZero(u[n], data, n, Write)
    BY <1>2, <2>1
  <2> DEFINE x == u[n]
             k == NBlocks - n
  <2>3. k \in Nat \ {0} /\ Left(x, k)
    BY <1>4, <2>1
  <2> HIDE DEF x, k
  <2>4. /\ Left(x, k - 1) /\ Left(WriteRecord(x, n, data[n]), k - 1)
        /\ WriteWithin(x, data, n) = WriteRecord(x, n, data[n])
        /\ Write(x, data, n) = WriteRecord(x, n, data[n])
    BY <2>1, <2>3, RoomLeft
  <2>5. u[n + 1] = x \/ u[n + 1] = WriteRecord(x, n, data[n])
    BY <2>2, <2>4 DEF PutNonZero, x
  <2> QED BY <2>1, <2>4, <2>5 DEF k
<1>5. 0 \in S /\ \A n \in 0..(NBlocks - 1) : n \in S => n + 1 \in S
  BY <1>1, <1>3, <1>4
<1> HIDE DEF S
<1>6. NBlocks \in S
  BY <1>1, <1>5, LoopInduction
<1>7. Left(u[NBlocks], NBlocks - NBlocks)
  BY <1>6 DEF S
<1> QED BY <1>1, <1>7 DEF WriteAll, u

\* switch_full_sector() then ends in an empty sector.
LEMMA SwitchFullSectorSucceeds ==
  ASSUME NEW m \in Machines, Slots - m.ram.offset >= NBlocks, NEW data \in Data
  PROVE  LET f == SwitchFullSector(m, data)
         IN  /\ f \in Machines /\ f.ok /\ ~f.ram.error
             /\ f.ram.offset = 0 /\ f.ram.reserved = Reserve
<1> DEFINE r == [m EXCEPT !.ram.error = FALSE, !.ram.reserved = 0]
           w == WriteAll(r, data, WriteWithin)
           e == EraseSector(w, Other(w.ram.cur), TRUE)
           x == SwitchSectors(e)
           f == SwitchFullSector(m, data)
<1>1. r \in Machines /\ ~r.ram.error /\ r.ram.reserved = 0 /\ r.ram.offset = m.ram.offset
  BY ReserveIsNat DEF Machines, Rams
<1> HIDE DEF r
<1>2. Left(w, 0)
  BY <1>1, WriteAllSucceeds
<1>3. f = IF w.ok THEN x ELSE w
  BY DEF SwitchFullSector, r
<1> HIDE DEF w, f
<1>4. w \in Machines /\ w.ok /\ ~w.ram.error /\ w.ram.reserved = 0 /\ Other(w.ram.cur) \in Sectors
  BY <1>2, MachineParts, SectorFacts DEF Left
<1>5. /\ e \in Machines /\ e.chip.header[Other(w.ram.cur)] = "AVAILABLE" /\ e.ram = w.ram
  <2> DEFINE t == Other(w.ram.cur)
             y == EraseSector(w, t, TRUE)
  <2>1. w \in Machines /\ t \in Sectors
    BY <1>4
  <2> HIDE DEF t
  <2>2. /\ y \in Machines
        /\ y.chip.header[t] = "AVAILABLE" /\ y.chip.header[Other(t)] = w.chip.header[Other(t)]
        /\ y.chip.log[t] = EmptyLog /\ y.chip.log[Other(t)] = w.chip.log[Other(t)]
        /\ y.ram = w.ram /\ y.ok = w.ok /\ y.eraseOk = w.eraseOk
        /\ y.images = w.images \cup {EraseSector(w, t, FALSE).chip, y.chip}
    BY <2>1, EraseAndMarkEffect
  <2> QED BY <2>2 DEF t
<1> HIDE DEF e
<1>6. CanSwitch(e)
  BY <1>4, <1>5 DEF CanSwitch
<1> DEFINE s == e.ram.cur
<1>7. /\ x \in Machines /\ x.ok
      /\ x.chip.header[s] = "FULL" /\ x.chip.header[Other(s)] = "IN_USE"
      /\ x.chip.log = e.chip.log
      /\ x.ram.cur = Other(s) /\ x.ram.offset = 0
      /\ x.ram.reserved = Reserve /\ x.ram.error = e.ram.error
  BY <1>5, <1>6, SwitchEffect
<1> HIDE DEF x
<1> QED BY <1>3, <1>4, <1>5, <1>7 DEF f

\* A record in a new sector leaves it room.
LEMMA RoomyAfterSwitch ==
  ASSUME NEW m \in Machines, ~m.ram.error, m.ram.offset = 0, m.ram.reserved = Reserve,
         NEW b \in Blocks, NEW v \in Values
  PROVE  LET w == WriteRecord(m, b, v)
         IN  Roomy(w.chip, w.ram) /\ w.ok
<1> DEFINE w == WriteRecord(m, b, v)
<1>1. m.ram.offset < Slots
  BY ReserveIsNat
<1>2. /\ w \in Machines /\ w.ok /\ w.chip.header = m.chip.header
      /\ w.chip.log[m.ram.cur] = Appended(m.chip.log[m.ram.cur], m.ram.offset, Valid(b, v))
      /\ w.chip.log[Other(m.ram.cur)] = m.chip.log[Other(m.ram.cur)]
      /\ w.ram.cur = m.ram.cur /\ w.ram.offset = m.ram.offset + 1
      /\ w.ram.reserved = m.ram.reserved /\ w.ram.error = m.ram.error
  BY <1>1, RecordEffect
<1> HIDE DEF w
<1>3. w.ram.offset = 1 /\ w.ram.reserved = Reserve
  BY <1>2
<1>4. Slots - 1 >= Reserve /\ Reserve # 0
  BY ReserveIsNat
<1>5. Roomy(w.chip, w.ram)
  BY <1>2, <1>3, <1>4 DEF Roomy
<1> QED BY <1>2, <1>5 DEF w

\* write() leaves room, and succeeds where it may erase.
LEMMA WriteRoomy ==
  ASSUME NEW m \in Machines, Roomy(m.chip, m.ram),
         m.ram.reserved # 0 => m.chip.header[Other(m.ram.cur)] = "FULL",
         NEW data \in Data, NEW b \in Blocks
  PROVE  LET w == Write(m, data, b)
         IN  Roomy(w.chip, w.ram) /\ (m.eraseOk => w.ok)
<1> DEFINE y == SwitchSectors(m)
           f == SwitchFullSector(y, data)
           Fine(w) == Roomy(w.chip, w.ram) /\ (m.eraseOk => w.ok)
<1>1. /\ ~m.ram.error /\ m.ram.offset \in 0..Slots /\ m.ram.reserved \in {0, Reserve}
      /\ Slots \in Nat /\ Reserve \in Nat /\ Reserve >= NBlocks
  BY MachineParts, ReserveIsNat, FlashStorageAssumption DEF Roomy, Reserve
<1>2. data[b] \in Values
  BY DEF Data
<1>3. CASE HasRoom(m)
  <2> DEFINE w == WriteRecord(m, b, data[b])
  <2>1. /\ WriteWithin(m, data, b) = w /\ Write(m, data, b) = w
        /\ w \in Machines /\ w.ok /\ ~w.ram.error
        /\ w.chip.header = m.chip.header
        /\ w.ram.cur = m.ram.cur /\ w.ram.offset = m.ram.offset + 1
        /\ w.ram.reserved = m.ram.reserved
    BY <1>1, <1>3, RoomWrite
  <2> HIDE DEF w
  <2>2. w.ram.reserved # 0 => Slots - w.ram.offset >= Reserve
    BY <1>1, <1>3, <2>1 DEF HasRoom
  <2>3. Roomy(w.chip, w.ram)
    BY <2>1, <2>2 DEF Roomy
  <2> QED BY <2>1, <2>3
<1>4. CASE ~HasRoom(m) /\ CanSwitch(m)
  <2> DEFINE s == m.ram.cur
  <2>1. /\ y \in Machines /\ y.ok
        /\ y.chip.header[s] = "FULL" /\ y.chip.header[Other(s)] = "IN_USE"
        /\ y.chip.log = m.chip.log
        /\ y.ram.cur = Other(s) /\ y.ram.offset = 0
        /\ y.ram.reserved = Reserve /\ y.ram.error = m.ram.error
    BY <1>4, SwitchEffect
  <2> HIDE DEF y
  <2> DEFINE v == data[b]
             w == WriteRecord(y, b, v)
  <2>2. v \in Values /\ ~y.ram.error
    BY <1>1, <1>2, <2>1
  <2> HIDE DEF v
  <2>3. Roomy(w.chip, w.ram) /\ w.ok
    BY <2>1, <2>2, RoomyAfterSwitch
  <2> HIDE DEF w
  <2>4. Write(m, data, b) = w
    BY <1>1, <1>4, <2>1 DEF Write, y, w, v
  <2> QED BY <2>3, <2>4
<1>5. CASE ~HasRoom(m) /\ ~CanSwitch(m)
  <2>1. m.ram.reserved = Reserve /\ Slots - m.ram.offset >= Reserve
    BY <1>1, <1>5 DEF CanSwitch, Roomy
  <2>2. /\ y \in Machines /\ ~y.ok /\ y.chip = m.chip /\ y.images = m.images
        /\ y.ram.cur = m.ram.cur /\ y.ram.offset = m.ram.offset
        /\ y.ram.reserved = m.ram.reserved /\ y.eraseOk = m.eraseOk
    BY <1>5, SwitchRefused
  <2>3. y = Fail(m)
    BY <2>1, ReserveIsNat DEF SwitchSectors
  <2>4. Fail(m).ram = m.ram
    BY FailEffect
  <2> HIDE DEF y
  <2>5. Roomy(y.chip, y.ram)
    BY <2>2, <2>3, <2>4
  <2>6. Slots - y.ram.offset >= NBlocks
    BY <1>1, <2>1, <2>2, FlashStorageAssumption
  <2>7. f \in Machines /\ f.ok /\ ~f.ram.error /\ f.ram.offset = 0 /\ f.ram.reserved = Reserve
    BY <2>2, <2>6, SwitchFullSectorSucceeds
  <2> HIDE DEF f
  <2> DEFINE v == data[b]
             w == WriteRecord(f, b, v)
  <2>8. v \in Values
    BY <1>2
  <2> HIDE DEF v
  <2>9. Roomy(w.chip, w.ram) /\ w.ok
    BY <2>7, <2>8, RoomyAfterSwitch
  <2> HIDE DEF w
  <2>10. Write(m, data, b) = IF m.eraseOk THEN w ELSE y
    BY <1>1, <1>5, <2>2, <2>7 DEF Write, y, f, w, v
  <2> QED BY <2>5, <2>9, <2>10
<1> QED BY <1>3, <1>4, <1>5

\* What room the driver keeps: while it writes where the next boot reads.
RoomKept == lapse = "none" /\ power /\ ~Astray => Roomy(chip, ram)

\* There is always something that a block may hold.
SomethingPromised ==
    \A b \in Blocks : IsFiniteSet(promised[b]) /\ promised[b] # {}

\* A write of new contents starts with the room that it needs.
LEMMA StoreBlockRoomy ==
  ASSUME FlashTypeOK, Kept, RoomKept, NEW b \in Blocks, NEW v \in Values, StoreBlock(b, v),
         lapse' = "none"
  PROVE  /\ Roomy(chip', ram')
         /\ armed \/ promised' = [promised EXCEPT ![b] = {v}]
<1> DEFINE data == [mem EXCEPT ![b] = v]
           e == ~armed
           m == Machine(chip, ram, e)
           w == Write(m, data, b)
<1>1. power /\ lapse = "none" /\ ~Astray
  BY DEF StoreBlock, Stores
<1>2. /\ Roomy(chip, ram)
      /\ ram.reserved # 0 => chip.header[Other(ram.cur)] = "FULL"
  BY <1>1 DEF RoomKept, Kept
<1>3. /\ mem' = data /\ chip' = w.chip /\ ram' = w.ram
      /\ promised' = [promised EXCEPT ![b] = IF w.ok THEN {v} ELSE @ \cup {v}]
  BY DEF StoreBlock
<1>4. data \in Data /\ e \in BOOLEAN /\ chip \in Chips /\ ram \in Rams
  BY DEF FlashTypeOK, Data, Rams
<1> HIDE DEF e, data
<1>5. /\ Machine(chip, ram, e) \in Machines
      /\ Machine(chip, ram, e).chip = chip /\ Machine(chip, ram, e).ram = ram
      /\ Machine(chip, ram, e).eraseOk = e
      /\ Machine(chip, ram, e).ok /\ Machine(chip, ram, e).images = {chip}
  BY <1>4, MachineType
<1>6. /\ m \in Machines /\ Roomy(m.chip, m.ram) /\ m.eraseOk = e
      /\ m.ram.reserved # 0 => m.chip.header[Other(m.ram.cur)] = "FULL"
  BY <1>2, <1>5
<1> HIDE DEF m
<1>7. Roomy(w.chip, w.ram) /\ (m.eraseOk => w.ok)
  BY <1>4, <1>6, WriteRoomy
<1> HIDE DEF w
<1> QED BY <1>3, <1>6, <1>7 DEF e

\* A boot leaves the other sector to switch to.
LEMMA PowerOnRoomy ==
  ASSUME FlashTypeOK, Kept, PowerOn, lapse' = "none", ~Astray'
  PROVE  Roomy(chip', ram')
<1> DEFINE w == Boot(chip)
<1>1. lapse = "none" /\ ~LosesAll(chip)
  BY DEF PowerOn
<1>2. Sound(chip, promised) /\ ~Alike(chip)
  BY <1>1 DEF Kept, Keeps
<1>3. Booted(chip, promised)
  BY <1>1, <1>2, BootKeeps
<1>4. chip' = w.chip /\ ram' = w.ram
  BY DEF PowerOn
<1>5. /\ w.chip.header[w.ram.cur] = "IN_USE" => w.chip.header[Other(w.ram.cur)] = "AVAILABLE"
      /\ w.ram.reserved = 0 /\ ~w.ram.error
  BY <1>3 DEF Booted
<1> HIDE DEF w
<1> QED BY <1>4, <1>5 DEF Astray, Roomy

\* The room is kept from the erased flash of a new board on.
LEMMA AlwaysRoomy == FlashSpec => []RoomKept
<1>1. FlashInit => RoomKept
  BY DEF FlashInit, RoomKept
<1>2. FlashTypeOK /\ Kept /\ RoomKept /\ [FlashNext]_flashVars => RoomKept'
  <2> SUFFICES ASSUME FlashTypeOK, Kept, RoomKept, [FlashNext]_flashVars,
                      lapse' = "none", power', ~Astray'
               PROVE  Roomy(chip', ram')
    BY DEF RoomKept
  <2>1. CASE PowerOn
    BY <2>1, PowerOnRoomy
  <2>2. CASE \E b \in Blocks, v \in Values : StoreBlock(b, v)
    BY <2>2, StoreBlockRoomy
  <2>3. CASE ArmOrDisarmBoard \/ UNCHANGED flashVars
    BY <2>3 DEF ArmOrDisarmBoard, flashVars, RoomKept, Astray
  <2>4. CASE PowerOnCut \/ PowerOff \/ \E b \in Blocks, v \in Values : StoreBlockCut(b, v)
    BY <2>4 DEF PowerOnCut, PowerOff, StoreBlockCut
  <2> QED BY <2>1, <2>2, <2>3, <2>4 DEF FlashNext
<1> QED BY <1>1, <1>2, FlashType, AlwaysKept, PTL DEF FlashSpec

\* A disarmed vehicle's write is acknowledged, full sectors or not, however
\* many blocks there are and whatever they hold.
THEOREM DisarmedWrites == FlashSpec => DisarmedWritesSucceed
<1> DEFINE IInv == FlashTypeOK /\ Kept /\ RoomKept /\ SomethingPromised
<1>1. FlashInit => SomethingPromised
  BY FS_Singleton DEF FlashInit, SomethingPromised
<1>2. FlashTypeOK /\ SomethingPromised /\ [FlashNext]_flashVars => SomethingPromised'
  <2> SUFFICES ASSUME FlashTypeOK, SomethingPromised, [FlashNext]_flashVars, NEW b \in Blocks
               PROVE  IsFiniteSet(promised'[b]) /\ promised'[b] # {}
    BY DEF SomethingPromised
  <2>1. IsFiniteSet(promised[b]) /\ promised[b] # {}
    BY DEF SomethingPromised
  <2>2. CASE PowerOn
    <3>1. promised'[b] = {mem'[b]}
      BY <2>2 DEF PowerOn
    <3> QED BY <3>1, FS_Singleton
  <2>3. ASSUME NEW c \in Blocks, NEW v \in Values, StoreBlock(c, v) \/ StoreBlockCut(c, v)
        PROVE  IsFiniteSet(promised'[b]) /\ promised'[b] # {}
    <3>1. promised'[b] \in {promised[b], promised[b] \cup {v}, {v}}
      BY <2>3 DEF StoreBlock, StoreBlockCut, FlashTypeOK
    <3>2. IsFiniteSet(promised[b] \cup {v}) /\ IsFiniteSet({v})
      BY <2>1, FS_AddElement, FS_Singleton
    <3> QED BY <2>1, <3>1, <3>2
  <2>4. CASE PowerOnCut \/ PowerOff \/ ArmOrDisarmBoard \/ UNCHANGED flashVars
    BY <2>1, <2>4 DEF PowerOnCut, PowerOff, ArmOrDisarmBoard, flashVars
  <2> QED BY <2>2, <2>3, <2>4 DEF FlashNext
<1>3. IInv /\ [FlashNext]_flashVars =>
        [\A b \in Blocks : Cardinality(promised'[b]) > Cardinality(promised[b]) =>
            armed \/ ~power' \/ lapse' # "none"]_flashVars
  <2> SUFFICES ASSUME IInv, FlashNext, NEW b \in Blocks, ~armed, power', lapse' = "none"
               PROVE  ~(Cardinality(promised'[b]) > Cardinality(promised[b]))
    OBVIOUS
  <2> HIDE DEF IInv
  <2>1. FlashTypeOK /\ Kept /\ RoomKept /\ SomethingPromised
    BY DEF IInv
  <2>2. Cardinality(promised[b]) \in Nat /\ Cardinality(promised[b]) # 0
    BY <2>1, FS_CardinalityType, FS_EmptySet DEF SomethingPromised
  <2>3. CASE PowerOn
    <3>1. promised'[b] = {mem'[b]}
      BY <2>3 DEF PowerOn
    <3>2. Cardinality(promised'[b]) = 1
      BY <3>1, FS_Singleton
    <3> QED BY <2>2, <3>2
  <2>4. ASSUME NEW c \in Blocks, NEW v \in Values, StoreBlock(c, v)
        PROVE  ~(Cardinality(promised'[b]) > Cardinality(promised[b]))
    <3>1. promised' = [promised EXCEPT ![c] = {v}]
      BY <2>1, <2>4, StoreBlockRoomy
    <3>2. promised'[b] = promised[b] \/ promised'[b] = {v}
      BY <2>1, <3>1 DEF FlashTypeOK
    <3>3. Cardinality({v}) = 1
      BY FS_Singleton
    <3> QED BY <2>2, <3>2, <3>3
  <2>5. CASE PowerOff \/ ArmOrDisarmBoard
    BY <2>2, <2>5 DEF PowerOff, ArmOrDisarmBoard
  <2>6. CASE PowerOnCut \/ \E c \in Blocks, v \in Values : StoreBlockCut(c, v)
    BY <2>6 DEF PowerOnCut, StoreBlockCut
  <2> QED BY <2>3, <2>4, <2>5, <2>6 DEF FlashNext
<1> QED BY <1>1, <1>2, <1>3, FlashType, AlwaysKept, AlwaysRoomy, PTL
        DEF FlashSpec, DisarmedWritesSucceed

-----------------------------------------------------------------------------
(* What a loss of everything takes                                         *)

\* The first block is never zero once there is something: it tells a flash
\* whose contents are zeroes from one that has lost them.
Marked(c) == LosesAll(c) \/ ~HasContents(c) \/ Loaded(c)[0] # 0

Anything == [b \in Blocks |-> Values]
NonZero == [b \in Blocks |-> IF b = 0 THEN Values \ {0} ELSE Values]

\* What can be written to is not lost by a boot, given room for the copy of a
\* full sector.
LEMMA WrittenStays ==
  ASSUME NEW c, NEW s, NEW n \in 0..Slots, Writable(c, s, n),
         HasContents(c) => Loaded(c)[0] # 0,
         c.header[Other(s)] = "FULL" => Slots - n >= NBlocks
  PROVE  ~LosesAll(c)
<1> SUFFICES ASSUME HasContents(c) PROVE Loaded(Boot(c).chip) # Zeroes
  BY DEF LosesAll
<1>1. /\ c \in Chips /\ s \in Sectors /\ Other(s) \in Sectors /\ Other(s) # s /\ Other(Other(s)) = s
      /\ c.header[s] = "IN_USE" /\ c.header[Other(s)] \in {"FULL", "AVAILABLE"}
      /\ c.log[s] \in Logs /\ c.log[Other(s)] \in Logs
      /\ ~BadHeaders(c)
      /\ c.header[Other(s)] = "FULL" => FirstSector(c) = Other(s)
      /\ c.header[Other(s)] = "AVAILABLE" => FirstSector(c) = s
  BY WritableHeaders
<1>2. Zeroes[0] = 0
  BY FlashStorageAssumption DEF Zeroes, Blocks
<1>3. Loaded(c) # Zeroes
  BY <1>2
<1>4. CASE c.header[Other(s)] = "AVAILABLE"
  <2>1. Boot(c) = BootStart(c) /\ BootStart(c).chip = c
    BY <1>1, <1>4, BootParts
  <2> QED BY <1>3, <2>1
<1>5. CASE c.header[Other(s)] = "FULL"
  <2> DEFINE P == [b \in Blocks |-> {Loaded(c)[b]}]
             m == BootCopying(c)
             data == Loaded(c)
  <2>1. Sound(c, P)
    BY WritableSound
  <2>2. BootLast(c) = s /\ FirstSector(c) = Other(s)
    BY <1>1, <1>5 DEF BootLast, InPlay
  <2>3. End(c.log[s]) = n
    BY <1>1, EndOfTight DEF Writable
  <2>4. /\ m \in Machines /\ ~m.ram.error /\ m.ram.reserved = 0 /\ m.ram.offset = n
        /\ data \in Data
    BY <1>1, <2>2, <2>3, BootParts, LoadedType
  <2> HIDE DEF m, data, P
  <2>5. Left(WriteAll(m, data, Write), 0)
    BY <1>5, <2>4, BootWriteAllSucceeds
  <2>6. BootCopied(c).ok
    BY <2>5 DEF Left, BootCopied, m, data
  <2>7. Booted(c, P)
    BY <1>1, <1>5, <2>1, <2>2, <2>6, BootCopies
  <2> QED BY <1>3, <2>7 DEF Booted
<1> QED BY <1>1, <1>4, <1>5

\* Nor what a record is written to, wherever power is lost.
LEMMA RecordStays ==
  ASSUME NEW m, NEW P, Ready(m, P), NEW b \in Blocks, NEW v \in Values,
         b = 0 => v # 0, Loaded(m.chip)[0] # 0 \/ (b = 0 /\ ~HasContents(m.chip)),
         m.ram.offset < Slots,
         m.chip.header[Other(m.ram.cur)] = "FULL" => Slots - m.ram.offset >= Reserve
  PROVE  LET g == Put(m, m.ram.cur, m.ram.offset, Gap)
             w == WriteRecord(m, b, v)
         IN  /\ w.images = m.images \cup {g.chip, w.chip}
             /\ Loaded(w.chip)[0] # 0
             /\ \A d \in {g.chip, w.chip} : ~LosesAll(d) /\ Marked(d)
<1> DEFINE s == m.ram.cur
           i == m.ram.offset + 1
           g == Put(m, m.ram.cur, m.ram.offset, Gap)
           w == WriteRecord(m, b, v)
<1>1. /\ w \in Machines /\ w.images = m.images \cup {g.chip, w.chip}
      /\ Writable(g.chip, s, m.ram.offset + 1) /\ Loaded(g.chip) = Loaded(m.chip)
      /\ Writable(w.chip, s, m.ram.offset + 1)
      /\ Loaded(w.chip) = [Loaded(m.chip) EXCEPT ![b] = v] /\ Loaded(m.chip) \in Data
      /\ LoadSector(w.chip.log[s], Zeroes) = [LoadSector(m.chip.log[s], Zeroes) EXCEPT ![b] = v]
      /\ g.chip.header = m.chip.header /\ w.chip.header = m.chip.header
      /\ HasContents(g.chip) => HasContents(m.chip)
  BY RecordImages
<1>2. /\ i \in 0..Slots
      /\ m.chip.header[Other(s)] = "FULL" => Slots - i >= NBlocks
  <2>1. m.ram.offset \in 0..Slots /\ Slots \in Nat /\ NBlocks \in Nat
    BY MachineParts, ReserveIsNat, FlashStorageAssumption DEF Ready
  <2> QED BY <2>1 DEF Reserve
<1>3. 0 \in Blocks
  BY FlashStorageAssumption DEF Blocks
<1> HIDE DEF g, w
<1>4. HasContents(g.chip) => Loaded(g.chip)[0] # 0
  BY <1>1
<1>5. Loaded(w.chip)[0] # 0
  <2> DEFINE old == Loaded(m.chip)
  <2>1. Loaded(w.chip) = [old EXCEPT ![b] = v] /\ old \in Data
    BY <1>1
  <2>2. old[0] # 0 \/ b = 0
    OBVIOUS
  <2> HIDE DEF old
  <2> QED BY <1>3, <2>1, <2>2 DEF Data
<1>6. ~LosesAll(g.chip) /\ ~LosesAll(w.chip)
  BY <1>1, <1>2, <1>4, <1>5, WrittenStays
<1> QED BY <1>1, <1>4, <1>5, <1>6 DEF Marked, g, w

\* write() marks what it leaves, and only one that changes sectors leaves what
\* a boot may lose.
LEMMA MarkedWrite ==
  ASSUME NEW m, Ready(m, Anything), Roomy(m.chip, m.ram), m.images = {m.chip},
         NEW data \in Data, data[0] # 0, NEW b \in Blocks,
         \/ Loaded(m.chip)[0] # 0
         \/ b = 0 /\ ~HasContents(m.chip) /\ m.ram.reserved = 0
  PROVE  LET w == Write(m, data, b)
         IN  /\ Loaded(w.chip)[0] # 0 /\ ~LosesAll(w.chip)
             /\ \A d \in w.images : Marked(d)
             /\ HasRoom(m) => \A d \in w.images : ~LosesAll(d)
<1> DEFINE s == m.ram.cur
           v == data[b]
           w == Write(m, data, b)
           y == SwitchSectors(m)
<1>1. /\ m \in Machines /\ s \in Sectors /\ 0 \in Blocks
      /\ m.ram.offset \in 0..Slots /\ m.ram.reserved \in {0, Reserve} /\ ~m.ram.error
      /\ NBlocks \in Nat /\ Slots \in Nat /\ Reserve = NBlocks + 1 /\ Reserve # 0 /\ Slots > Reserve
      /\ Writable(m.chip, s, m.ram.offset)
  BY MachineParts, ReserveIsNat, FlashStorageAssumption DEF Ready, Roomy, Reserve, Blocks
<1>2. v \in Values /\ (b = 0 => v # 0) /\ \A c \in Blocks : data[c] \in Anything[c]
  BY DEF Data, Anything
<1>3. m.chip.header[Other(s)] = "FULL" => m.ram.reserved = Reserve /\ Slots - m.ram.offset >= Reserve
  BY <1>1 DEF Roomy
<1>4. ~LosesAll(m.chip) /\ Marked(m.chip)
  <2>1. m.chip.header[Other(s)] = "FULL" => Slots - m.ram.offset >= NBlocks
    BY <1>1, <1>3
  <2>2. HasContents(m.chip) => Loaded(m.chip)[0] # 0
    OBVIOUS
  <2>3. ~LosesAll(m.chip)
    BY <1>1, <2>1, <2>2, WrittenStays
  <2> QED BY <2>2, <2>3 DEF Marked
<1>5. Ready(w, Anything) /\ (w.ok => Loaded(w.chip)[b] = data[b])
  BY <1>2, WriteKeeps
<1>6. Roomy(w.chip, w.ram) /\ (m.eraseOk => w.ok)
  <2>1. m.ram.reserved # 0 => m.chip.header[Other(m.ram.cur)] = "FULL"
    BY DEF Ready
  <2> QED BY <1>1, <2>1, WriteRoomy
<1>7. Loaded(w.chip)[0] # 0 => ~LosesAll(w.chip)
  <2> HIDE DEF w
  <2>1. /\ w \in Machines /\ Writable(w.chip, w.ram.cur, w.ram.offset)
        /\ w.ram.offset \in 0..Slots /\ w.ram.reserved \in {0, Reserve}
    BY <1>5, MachineParts DEF Ready
  <2>2. w.chip.header[Other(w.ram.cur)] = "FULL" => Slots - w.ram.offset >= NBlocks
    BY <1>1, <1>6, <2>1 DEF Roomy
  <2> QED BY <2>1, <2>2, WrittenStays
<1> HIDE DEF v
<1>8. CASE HasRoom(m)
  <2> DEFINE g == Put(m, m.ram.cur, m.ram.offset, Gap)
             x == WriteRecord(m, b, v)
  <2>1. m.ram.offset < Slots
    BY <1>1, <1>8 DEF HasRoom
  <2>2. /\ x.images = m.images \cup {g.chip, x.chip}
        /\ Loaded(x.chip)[0] # 0
        /\ \A d \in {g.chip, x.chip} : ~LosesAll(d) /\ Marked(d)
    BY <1>2, <1>3, <2>1, RecordStays
  <2> HIDE DEF g, x
  <2>3. w = x
    BY <1>1, <1>8 DEF Write, x, v
  <2> HIDE DEF w
  <2> QED BY <1>4, <1>7, <2>2, <2>3 DEF w
<1>9. CASE ~HasRoom(m) /\ Loaded(m.chip)[0] # 0
  <2>1. Ready(m, NonZero)
    <3> DEFINE old == Loaded(m.chip)
    <3>1. \A c \in Blocks : old[c] \in Anything[c]
      BY DEF Ready
    <3>2. old[0] # 0
      BY <1>9
    <3> HIDE DEF old
    <3>3. \A c \in Blocks : old[c] \in NonZero[c]
      BY <3>1, <3>2 DEF Anything, NonZero
    <3>4. Keeps(m.chip, NonZero)
      BY <1>1, <3>3, WritableSound DEF old
    <3> QED BY <3>3, <3>4 DEF Ready, old
  <2>2. \A c \in Blocks : data[c] \in NonZero[c]
    BY DEF Data, NonZero
  <2>3. Ready(w, NonZero)
    BY <2>1, <2>2, WriteKeeps
  <2>4. NonZero[0] = Values \ {0}
    BY <1>1 DEF NonZero
  <2> HIDE DEF w
  <2>5. Loaded(w.chip)[0] # 0
    BY <1>1, <2>3, <2>4 DEF Ready
  <2>6. \A d \in w.images : Marked(d)
    BY <1>1, <2>3, <2>4 DEF Ready, Keeps, Sound, Marked
  <2> QED BY <1>7, <1>9, <2>5, <2>6 DEF w
<1>10. CASE ~HasRoom(m) /\ Loaded(m.chip)[0] = 0
  <2>1. b = 0 /\ ~HasContents(m.chip) /\ m.ram.reserved = 0
    BY <1>10
  <2>2. CanSwitch(m)
    BY <2>1 DEF CanSwitch, Roomy
  <2> DEFINE f == Mark(m, s, "FULL")
  <2>3. /\ y \in Machines /\ y.ok
        /\ y.chip.header[s] = "FULL" /\ y.chip.header[Other(s)] = "IN_USE"
        /\ y.chip.log = m.chip.log
        /\ y.ram.cur = Other(s) /\ y.ram.offset = 0
        /\ y.ram.reserved = Reserve /\ y.ram.error = m.ram.error
        /\ y.eraseOk = m.eraseOk
        /\ y.images = m.images \cup {f.chip, y.chip}
    BY <1>1, <2>2, SwitchEffect
  <2>4. f.chip.log = m.chip.log
    BY <1>1, MarkEffect DEF Headers
  <2>5. Ready(y, Anything) /\ y.ok /\ y.ram.offset = 0 /\ y.eraseOk = m.eraseOk
    BY <2>2, SwitchKeeps
  <2> HIDE DEF y, f
  <2>6. ~HasContents(f.chip) /\ ~HasContents(y.chip)
    BY <2>1, <2>3, <2>4 DEF HasContents
  <2> DEFINE g == Put(y, y.ram.cur, y.ram.offset, Gap)
             x == WriteRecord(y, b, v)
  <2>7. y.ram.offset < Slots /\ Slots - y.ram.offset >= Reserve
    BY <1>1, <2>3
  <2>8. /\ x.images = y.images \cup {g.chip, x.chip}
        /\ Loaded(x.chip)[0] # 0
        /\ \A d \in {g.chip, x.chip} : ~LosesAll(d) /\ Marked(d)
    BY <1>2, <2>1, <2>5, <2>6, <2>7, RecordStays
  <2> HIDE DEF g, x
  <2>9. w = x
    BY <1>1, <1>10, <2>3 DEF Write, x, y, v
  <2>10. \A d \in {f.chip, y.chip} : Marked(d)
    BY <2>6 DEF Marked
  <2> HIDE DEF w
  <2>11. \A d \in w.images : Marked(d)
    BY <1>4, <2>3, <2>8, <2>9, <2>10
  <2> QED BY <1>7, <1>10, <2>8, <2>9, <2>11 DEF w
<1> QED BY <1>8, <1>9, <1>10

\* What holds of a flash and its driver while nothing has lapsed: power lost
\* while sectors change aside, no boot loses what is there, and the driver
\* knows whether there is something.
Causes ==
    lapse = "none" =>
        /\ Marked(chip)
        /\ ~cutShort => ~LosesAll(chip)
        /\ power =>
              /\ ~cutShort
              /\ mem[0] = 0 =>
                    /\ ~HasContents(chip) /\ ram.reserved = 0
                    /\ \A b \in Blocks : promised[b] = {mem[b]}
              /\ mem[0] # 0 /\ ~Astray => Loaded(chip)[0] # 0
              /\ Astray => Unmarked(chip)

\* A write of new contents starts where something is marked, or it marks it.
LEMMA StartMarked ==
  ASSUME FlashTypeOK, Kept, RoomKept, Causes, NEW b \in Blocks, NEW v \in Values,
         Stores(b, v), lapse' = "none"
  PROVE  LET m == Machine(chip, ram, ~armed)
             data == [mem EXCEPT ![b] = v]
         IN  /\ Ready(m, Anything) /\ Roomy(m.chip, m.ram) /\ m.images = {m.chip}
             /\ m.chip = chip /\ data \in Data /\ data[0] # 0
             /\ \/ Loaded(m.chip)[0] # 0
                \/ b = 0 /\ ~HasContents(m.chip) /\ m.ram.reserved = 0
<1> DEFINE e == ~armed
           m == Machine(chip, ram, e)
           data == [mem EXCEPT ![b] = v]
<1>1. power /\ lapse = "none" /\ ~Astray
  BY DEF Stores
<1>2. data \in Data /\ e \in BOOLEAN /\ chip \in Chips /\ ram \in Rams /\ 0 \in Blocks
  BY FlashStorageAssumption DEF FlashTypeOK, Data, Rams, Blocks
<1>3. MayStore(b, v) \/ (v = mem[b] /\ promised[b] # {v})
  BY DEF Stores
<1>4. mem[0] = 0 => b = 0 /\ v # 0
  <2> SUFFICES ASSUME mem[0] = 0 PROVE b = 0 /\ v # 0
    OBVIOUS
  <2>1. promised[b] = {mem[b]}
    BY <1>1 DEF Causes
  <2>2. MayStore(b, v)
    BY <1>3, <2>1
  <2> QED BY <2>2 DEF MayStore
<1>5. mem[0] # 0 /\ b = 0 => v # 0
  BY <1>3 DEF MayStore
<1>6. data[0] # 0
  BY <1>2, <1>4, <1>5 DEF FlashTypeOK
<1> HIDE DEF e
<1>7. /\ Machine(chip, ram, e) \in Machines
      /\ Machine(chip, ram, e).chip = chip /\ Machine(chip, ram, e).ram = ram
      /\ Machine(chip, ram, e).eraseOk = e
      /\ Machine(chip, ram, e).ok /\ Machine(chip, ram, e).images = {chip}
  BY <1>2, MachineType
<1>8. /\ m \in Machines /\ m.chip = chip /\ m.ram = ram /\ m.images = {chip}
  BY <1>7
<1> HIDE DEF m, data
<1>9. /\ Writable(chip, ram.cur, ram.offset) /\ Roomy(chip, ram)
      /\ ram.reserved # 0 => chip.header[Other(ram.cur)] = "FULL"
  BY <1>1 DEF Kept, RoomKept
<1>10. \A c \in Blocks : Loaded(chip)[c] \in Anything[c]
  BY <1>2, LoadedType DEF Data, Anything
<1>11. Keeps(chip, Anything)
  BY <1>9, <1>10, WritableSound
<1>12. Ready(m, Anything)
  BY <1>8, <1>9, <1>10, <1>11 DEF Ready
<1>13. \/ Loaded(chip)[0] # 0
       \/ b = 0 /\ ~HasContents(chip) /\ ram.reserved = 0
  BY <1>1, <1>4 DEF Causes
<1> QED BY <1>2, <1>6, <1>8, <1>9, <1>12, <1>13 DEF e, m, data

\* A write that ends keeps it.
LEMMA StoreBlockCauses ==
  ASSUME FlashTypeOK, Kept, RoomKept, Causes, NEW b \in Blocks, NEW v \in Values,
         StoreBlock(b, v)
  PROVE  Causes'
<1> SUFFICES ASSUME lapse' = "none"
             PROVE  /\ ~LosesAll(chip') /\ Marked(chip') /\ ~cutShort'
                    /\ mem'[0] # 0 /\ Loaded(chip')[0] # 0 /\ ~Astray'
  BY DEF Causes
<1> DEFINE m == Machine(chip, ram, ~armed)
           data == [mem EXCEPT ![b] = v]
           w == Write(m, data, b)
<1>1. Stores(b, v) /\ chip' = w.chip /\ ram' = w.ram /\ mem' = data /\ cutShort' = cutShort
  BY DEF StoreBlock
<1>2. /\ Ready(m, Anything) /\ Roomy(m.chip, m.ram) /\ m.images = {m.chip}
      /\ m.chip = chip /\ data \in Data /\ data[0] # 0
      /\ \/ Loaded(m.chip)[0] # 0
         \/ b = 0 /\ ~HasContents(m.chip) /\ m.ram.reserved = 0
  BY <1>1, StartMarked
<1>3. power /\ lapse = "none"
  BY <1>1 DEF Stores
<1> HIDE DEF m, data
<1>4. /\ Loaded(w.chip)[0] # 0 /\ ~LosesAll(w.chip)
      /\ \A d \in w.images : Marked(d)
      /\ HasRoom(m) => \A d \in w.images : ~LosesAll(d)
  BY <1>2, MarkedWrite
<1>5. \A c \in Blocks : data[c] \in Anything[c]
  BY <1>2 DEF Data, Anything
<1>6. Ready(w, Anything) /\ (w.ok => Loaded(w.chip)[b] = data[b])
  BY <1>2, <1>5, WriteKeeps
<1> HIDE DEF w
<1>7. ~Astray'
  BY <1>1, <1>6 DEF Ready, Writable, Astray
<1> QED BY <1>1, <1>2, <1>3, <1>4, <1>7 DEF Marked, Causes

\* So does one that power is lost in.
LEMMA StoreBlockCutCauses ==
  ASSUME FlashTypeOK, Kept, RoomKept, Causes, NEW b \in Blocks, NEW v \in Values,
         StoreBlockCut(b, v)
  PROVE  Causes'
<1> SUFFICES ASSUME lapse' = "none"
             PROVE  Marked(chip') /\ (~cutShort' => ~LosesAll(chip')) /\ ~power'
  BY DEF Causes
<1> DEFINE m == Machine(chip, ram, ~armed)
           data == [mem EXCEPT ![b] = v]
           w == Write(m, data, b)
<1>1. Stores(b, v) /\ chip' \in w.images /\ cutShort' = ~HasRoom(m) /\ ~power'
  BY DEF StoreBlockCut
<1>2. /\ Ready(m, Anything) /\ Roomy(m.chip, m.ram) /\ m.images = {m.chip}
      /\ m.chip = chip /\ data \in Data /\ data[0] # 0
      /\ \/ Loaded(m.chip)[0] # 0
         \/ b = 0 /\ ~HasContents(m.chip) /\ m.ram.reserved = 0
  BY <1>1, StartMarked
<1> HIDE DEF m, data
<1>3. /\ Loaded(w.chip)[0] # 0 /\ ~LosesAll(w.chip)
      /\ \A d \in w.images : Marked(d)
      /\ HasRoom(m) => \A d \in w.images : ~LosesAll(d)
  BY <1>2, MarkedWrite
<1> HIDE DEF w
<1> QED BY <1>1, <1>3

\* So does a boot that ends.
LEMMA PowerOnCauses ==
  ASSUME FlashTypeOK, Kept, Causes, PowerOn
  PROVE  Causes'
<1> SUFFICES ASSUME lapse' = "none"
             PROVE  /\ ~LosesAll(chip') /\ Marked(chip') /\ ~cutShort'
                    /\ mem'[0] = 0 =>
                          /\ ~HasContents(chip') /\ ram'.reserved = 0
                          /\ \A b \in Blocks : promised'[b] = {mem'[b]}
                    /\ mem'[0] # 0 /\ ~Astray' => Loaded(chip')[0] # 0
                    /\ Astray' => Unmarked(chip')
  BY DEF Causes
<1> DEFINE w == Boot(chip)
<1>1. lapse = "none" /\ ~LosesAll(chip)
  BY DEF PowerOn
<1>2. Sound(chip, promised) /\ ~Alike(chip)
  BY <1>1 DEF Kept, Keeps
<1>3. Booted(chip, promised)
  BY <1>1, <1>2, BootKeeps
<1>4. /\ chip' = w.chip /\ ram' = w.ram /\ mem' = Loaded(chip) /\ ~cutShort'
      /\ \A b \in Blocks : promised'[b] = {mem'[b]}
  BY DEF PowerOn
<1>5. /\ Loaded(w.chip) = Loaded(chip)
      /\ ~HasContents(chip) => ~HasContents(w.chip)
      /\ w.chip.header[w.ram.cur] # "IN_USE" =>
            Unmarked(w.chip) /\ (w.chip = chip \/ ~HasContents(w.chip))
      /\ w.chip.header[w.ram.cur] = "IN_USE" =>
            /\ Writable(w.chip, w.ram.cur, w.ram.offset)
            /\ w.chip.header[Other(w.ram.cur)] = "AVAILABLE"
      /\ w.ram.reserved = 0 /\ w \in Machines
  BY <1>3, BootType DEF Booted, FlashTypeOK
<1> HIDE DEF w
<1>6. HasContents(chip) => Loaded(chip)[0] # 0
  BY <1>1 DEF Causes, Marked
<1>7. HasContents(w.chip) => Loaded(w.chip)[0] # 0
  BY <1>5, <1>6
<1>8. ~LosesAll(w.chip)
  <2>1. CASE w.chip.header[w.ram.cur] = "IN_USE"
    BY <1>5, <1>7, <2>1, MachineParts, WrittenStays
  <2>2. CASE w.chip.header[w.ram.cur] # "IN_USE"
    BY <1>1, <1>5, <2>2 DEF LosesAll
  <2> QED BY <2>1, <2>2
<1> QED BY <1>4, <1>5, <1>6, <1>7, <1>8 DEF Marked, Astray

\* So does one that power is lost in.
LEMMA PowerOnCutCauses ==
  ASSUME FlashTypeOK, Kept, Causes, PowerOnCut
  PROVE  Causes'
<1> SUFFICES ASSUME lapse' = "none" PROVE Marked(chip') /\ cutShort' /\ ~power'
  BY DEF Causes
<1>1. /\ lapse = "none" /\ ~LosesAll(chip) /\ ~power' /\ cutShort'
      /\ chip' \in Boot(chip).images
  BY DEF PowerOnCut
<1>2. Sound(chip, promised) /\ ~Alike(chip) /\ (HasContents(chip) => Loaded(chip)[0] # 0)
  BY <1>1 DEF Kept, Keeps, Causes, Marked
<1> DEFINE P == [b \in Blocks |-> {Loaded(chip)[b]}]
<1>3. Sound(chip, P) /\ (0 \in Blocks => P[0] = {Loaded(chip)[0]}) /\ 0 \in Blocks
  BY <1>2, FlashStorageAssumption DEF Sound, Blocks
<1> HIDE DEF P
<1>4. Booted(chip, P)
  BY <1>1, <1>2, <1>3, BootKeeps
<1>5. ~HasContents(chip) => ~HasContents(chip')
  BY <1>1, <1>4 DEF Booted
<1>6. LosesAll(chip') \/ Loaded(chip')[0] = Loaded(chip)[0]
  BY <1>1, <1>3, <1>4 DEF Booted, Keeps, Sound
<1> QED BY <1>1, <1>2, <1>5, <1>6 DEF Marked

\* A boot loses everything only after power was lost while a write changed
\* sectors, or during the boot before, and never for two sectors alike;
\* and records go astray only with the second sector alone in use, or none.
THEOREM LapsesAreCaused == FlashSpec => LapsesHaveCauses
<1>1. FlashInit => Causes
  <2> SUFFICES ASSUME FlashInit PROVE ~HasContents(chip) /\ ~power
    BY DEF Causes, Marked, LosesAll
  <2> QED BY RecordKinds DEF FlashInit, HasContents, EmptyLog
<1>2. FlashTypeOK /\ Kept /\ RoomKept /\ Causes /\ [FlashNext]_flashVars => Causes'
  <2> SUFFICES ASSUME FlashTypeOK, Kept, RoomKept, Causes, [FlashNext]_flashVars PROVE Causes'
    OBVIOUS
  <2>1. CASE PowerOff
    BY <2>1 DEF PowerOff, Causes
  <2>2. CASE ArmOrDisarmBoard
    BY <2>2 DEF ArmOrDisarmBoard, Causes, Astray
  <2>3. CASE UNCHANGED flashVars
    BY <2>3 DEF flashVars, Causes, Astray
  <2> QED BY <2>1, <2>2, <2>3, PowerOnCauses, PowerOnCutCauses, StoreBlockCauses, StoreBlockCutCauses
          DEF FlashNext
<1>3. FlashTypeOK /\ Kept /\ Causes /\ [FlashNext]_flashVars =>
        [lapse' # lapse =>
           /\ lapse' = "lost" => cutShort /\ ~(chip.header[0] = chip.header[1] /\ InPlay(chip, 0))
           /\ lapse' = "astray" =>
                 chip.header[0] = "AVAILABLE" /\ chip.header[1] \in {"AVAILABLE", "IN_USE"}]_flashVars
  <2> SUFFICES ASSUME Kept, Causes, FlashNext, lapse' # lapse
               PROVE  /\ lapse' = "lost" => cutShort /\ ~Alike(chip)
                      /\ lapse' = "astray" => Unmarked(chip)
    BY DEF Alike, Unmarked
  <2>1. CASE PowerOn \/ PowerOnCut
    <3>1. lapse = "none" /\ LosesAll(chip) /\ lapse' = "lost"
      BY <2>1 DEF PowerOn, PowerOnCut
    <3> QED BY <3>1 DEF Kept, Keeps, Causes
  <2>2. ASSUME NEW b \in Blocks, NEW v \in Values, StoreBlock(b, v) \/ StoreBlockCut(b, v)
        PROVE  lapse' = "astray" /\ Unmarked(chip)
    <3>1. power /\ lapse = "none" /\ Astray /\ lapse' = "astray"
      BY <2>2 DEF StoreBlock, StoreBlockCut, Stores
    <3> QED BY <3>1 DEF Causes
  <2>3. CASE PowerOff \/ ArmOrDisarmBoard
    BY <2>3 DEF PowerOff, ArmOrDisarmBoard
  <2> QED BY <2>1, <2>2, <2>3 DEF FlashNext
<1> QED BY <1>1, <1>2, <1>3, FlashType, AlwaysKept, AlwaysRoomy, PTL
        DEF FlashSpec, LapsesHaveCauses
=============================================================================
