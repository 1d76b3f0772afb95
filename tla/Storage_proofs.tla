--------------------------- MODULE Storage_proofs ---------------------------
(***************************************************************************)
(* Proofs about the two layers of storage side by side.                    *)
(*                                                                         *)
(* The memory image, for any number of lines and any contents: its types,  *)
(* on every board; and on boards whose backend is the FRAM, that a line    *)
(* which is not marked dirty is the same in memory and in the backend.     *)
(* The invariant is that the line in the thread's hands is marked, and     *)
(* once it is written the backend holds the copy.  With the other backends *)
(* the second half fails: they write the line as it is by then.            *)
(*                                                                         *)
(* The flash log's own proofs are in FlashStorage_proofs; a behaviour of   *)
(* the composition is one of each layer, so what is proved of a layer      *)
(* holds of the composition.                                               *)
(***************************************************************************)
EXTENDS MCStorage, FlashStorage_proofs


HalIInv ==
    /\ HalTypeOK
    /\ CleanMeansStored
    /\ tick # "idle" => line \in dirty
    /\ tick = "stored" => store[line] = tmpline

\* The layer starts with what the backend holds.
LEMMA HalInitial == HalInit => HalIInv
<1> SUFFICES ASSUME HalInit PROVE HalIInv
  OBVIOUS
<1>1. 0 \in Lines
  BY HalStorageAssumption DEF Lines
<1>2. buffer \in [Lines -> Contents] /\ \A l \in Lines : buffer[l] = store[l]
  BY DEF HalInit
<1> QED
  BY <1>1, <1>2 DEF HalInit, HalIInv, HalTypeOK, CleanMeansStored

\* write_block() marks what it changes.
LEMMA WriteBlockKeeps ==
    ASSUME HalIInv,
           NEW first \in Lines, NEW last \in first..(NLines - 1),
           NEW src \in [first..last -> Contents], WriteBlock(first, last, src)
    PROVE  HalIInv'
<1> USE DEF HalIInv, HalTypeOK
<1>1. first..last \subseteq Lines
  BY HalStorageAssumption DEF Lines
<1>2. /\ buffer' = [l \in Lines |-> IF l \in first..last THEN src[l] ELSE buffer[l]]
      /\ dirty' = dirty \cup first..last
      /\ spoiled' = spoiled \ first..last
      /\ UNCHANGED <<tick, line, tmpline, store>>
  BY DEF WriteBlock
<1>3. HalTypeOK'
  BY <1>1, <1>2
<1>4. CleanMeansStored'
  <2> SUFFICES ASSUME NEW l \in Lines, l \notin dirty', l \notin spoiled'
               PROVE  buffer'[l] = store'[l]
    BY DEF CleanMeansStored
  <2>1. l \notin dirty /\ l \notin first..last /\ l \notin spoiled
    BY <1>2
  <2> QED
    BY <2>1, <1>2 DEF CleanMeansStored
<1> QED
  BY <1>2, <1>3, <1>4

\* A backup loaded whole marks everything; one cut short is remembered.
LEMMA LoadKeeps ==
    ASSUME HalIInv, NEW n \in Lines, LoadBackup \/ LoadBackupFails(n)
    PROVE  HalIInv'
<1> USE HalStorageAssumption DEF HalIInv, HalTypeOK
<1>1. CASE LoadBackup
  BY <1>1 DEF LoadBackup, CleanMeansStored
<1>2. CASE LoadBackupFails(n)
  <2> USE <1>2 DEF LoadBackupFails
  <2>1. HalTypeOK'
    OBVIOUS
  <2>2. CleanMeansStored'
    <3> SUFFICES ASSUME NEW l \in Lines, l \notin dirty', l \notin spoiled'
                 PROVE  buffer'[l] = store'[l]
      BY DEF CleanMeansStored
    <3>1. l \notin dirty /\ l \notin spoiled /\ buffer'[l] = buffer[l]
      OBVIOUS
    <3> QED
      BY <3>1 DEF CleanMeansStored
  <2> QED
    BY <2>1, <2>2
<1> QED
  BY <1>1, <1>2

\* The thread, on a board with FRAM.
LEMMA TimerTickKeeps ==
    ASSUME HalIInv, TimerTick, Backend = "FRAM"
    PROVE  HalIInv'
<1> USE DEF HalIInv, HalTypeOK
<1>1. CASE TickPick
  BY <1>1 DEF TickPick, CleanMeansStored
<1>2. CASE TickCopy
  BY <1>2 DEF TickCopy, CleanMeansStored
<1>3. CASE TickStore \/ TickStoreFails
  <2>1. Written = tmpline
    BY DEF Written
  <2>2. /\ store' = store \/ store' = [store EXCEPT ![line] = tmpline]
        /\ UNCHANGED <<buffer, dirty, line, tmpline, spoiled>>
        /\ line \in dirty
        /\ tick' = "stored" \/ tick' = "idle"
        /\ tick' = "stored" => store' = [store EXCEPT ![line] = tmpline]
    BY <1>3, <2>1 DEF TickStore, TickStoreFails
  <2>3. CleanMeansStored'
    BY <2>2 DEF CleanMeansStored
  <2> QED
    BY <2>2, <2>3
<1>4. CASE TickClear
  BY <1>4 DEF TickClear, CleanMeansStored
<1> QED
  BY <1>1, <1>2, <1>3, <1>4 DEF TimerTick

\* The next boot finds memory and backend alike.
LEMMA PowerLossKeeps ==
    ASSUME HalIInv, HalPowerLoss, Backend = "FRAM"
    PROVE  HalIInv'
<1>1. store' = store \/ store' = [store EXCEPT ![line] = tmpline]
  BY DEF HalPowerLoss, Written
<1>2. store' \in [Lines -> Contents]
  BY <1>1 DEF HalIInv, HalTypeOK
<1> QED
  BY <1>2 DEF HalPowerLoss, HalIInv, HalTypeOK, CleanMeansStored

\* The invariant is inductive on a board with FRAM.
LEMMA HalInductive ==
    ASSUME HalIInv, [HalNext]_halVars, Backend = "FRAM"
    PROVE  HalIInv'
<1>1. CASE Writers
  <2>1. 0 \in Lines
    BY HalStorageAssumption DEF Lines
  <2> QED
    BY <1>1, <2>1, WriteBlockKeeps, LoadKeeps DEF Writers
<1>2. CASE TimerTick
  BY <1>2, TimerTickKeeps
<1>3. CASE HalPowerLoss
  BY <1>3, PowerLossKeeps
<1>4. CASE UNCHANGED halVars
  BY <1>4 DEF halVars, HalIInv, HalTypeOK, CleanMeansStored
<1> QED
  BY <1>1, <1>2, <1>3, <1>4 DEF HalNext

\* Storage.cpp's thread on a board with FRAM: whatever writers, failed writes,
\* backups and power losses come in between, a line that is not marked dirty
\* is in the backend as it is in memory.
THEOREM CleanIsStored ==
    ASSUME Backend = "FRAM" PROVE HalSpec => []CleanMeansStored
<1>1. HalIInv /\ [HalNext]_halVars => HalIInv'
  BY HalInductive
<1>2. HalIInv => CleanMeansStored
  BY DEF HalIInv
<1> QED
  BY <1>1, <1>2, HalInitial, PTL DEF HalSpec

\* There a copy that matches the memory is what has been stored, as the
\* comment at Storage.cpp:313 says.
THEOREM MatchingCopyIsStored ==
    ASSUME Backend = "FRAM" PROVE HalSpec => MatchingCopyMeansStored
<1>1. HalIInv /\ [HalNext]_halVars => HalIInv'
  BY HalInductive
<1>2. HalIInv => [TickClear /\ dirty' # dirty => store[line] = buffer[line]]_halVars
  BY DEF HalIInv, TickClear
<1> QED
  BY <1>1, <1>2, HalInitial, PTL DEF HalSpec, MatchingCopyMeansStored

\* Of a step of the memory image on a board with any backend.
LEMMA HalTypeInductive == HalTypeOK /\ [HalNext]_halVars => HalTypeOK'
<1> SUFFICES ASSUME HalTypeOK, [HalNext]_halVars PROVE HalTypeOK'
  OBVIOUS
<1> USE DEF HalTypeOK
<1>1. 0 \in Lines /\ Backup \in [Lines -> Contents]
  BY HalStorageAssumption DEF Lines
<1>2. Written \in Contents /\ [store EXCEPT ![line] = Written] \in [Lines -> Contents]
  BY DEF Written
<1>3. ASSUME NEW first \in Lines, NEW last \in first..(NLines - 1),
             NEW src \in [first..last -> Contents], WriteBlock(first, last, src)
      PROVE  HalTypeOK'
  <2>1. first..last \subseteq Lines
    BY HalStorageAssumption DEF Lines
  <2> QED BY <1>3, <2>1 DEF WriteBlock
<1>4. CASE LoadBackup
  BY <1>1, <1>4 DEF LoadBackup
<1>5. ASSUME NEW n \in Lines, LoadBackupFails(n) PROVE HalTypeOK'
  BY <1>1, <1>5 DEF LoadBackupFails
<1>6. CASE TickPick
  BY <1>6 DEF TickPick
<1>7. CASE TickCopy
  BY <1>7 DEF TickCopy
<1>8. CASE TickStore \/ TickStoreFails
  BY <1>2, <1>8 DEF TickStore, TickStoreFails
<1>9. CASE TickClear
  BY <1>9 DEF TickClear
<1>10. CASE HalPowerLoss
  BY <1>2, <1>10 DEF HalPowerLoss
<1>11. CASE UNCHANGED halVars
  BY <1>11 DEF halVars
<1> QED BY <1>3, <1>4, <1>5, <1>6, <1>7, <1>8, <1>9, <1>10, <1>11 DEF HalNext, Writers, TimerTick

-----------------------------------------------------------------------------
(* Both layers                                                             *)

\* A step of the composition is a step of each layer or leaves it alone.
LEMMA StorageSteps ==
  /\ StorageInit => FlashInit /\ HalInit
  /\ [StorageNext]_storageVars => [FlashNext]_flashVars /\ [HalNext]_halVars
BY DEF StorageInit, StorageNext, FlashPart, HalPart, storageVars

\* So a behaviour of the composition is one of the flash log.
LEMMA StorageIsFlash == StorageSpec => FlashSpec
BY StorageSteps, PTL DEF StorageSpec, FlashSpec

\* Whatever is written, fails, is cut short or interleaved, both layers keep
\* their types: no block, slot, sector or line is ever out of range.
THEOREM StorageType == StorageSpec => []StorageTypeOK
<1>1. StorageSpec => []HalTypeOK
  <2>1. HalInit => HalTypeOK
    <3>1. 0 \in Lines
      BY HalStorageAssumption DEF Lines
    <3> QED BY <3>1 DEF HalInit, HalTypeOK
  <2> QED BY <2>1, HalTypeInductive, StorageSteps, PTL DEF StorageSpec
<1> QED BY <1>1, StorageIsFlash, FlashType, PTL DEF StorageTypeOK

\* On a board with both layers, what is acknowledged is read back, a disarmed
\* vehicle's writes succeed, and contents are lost for the causes named only.
THEOREM StorageKeeps ==
  StorageSpec => []AcknowledgedIsKept /\ DisarmedWritesSucceed /\ LapsesHaveCauses
BY StorageIsFlash, AcknowledgedIsRead, DisarmedWrites, LapsesAreCaused, PTL
=============================================================================
