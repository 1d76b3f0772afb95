------------------------------ MODULE MCStorage ------------------------------
(***************************************************************************)
(* Two layers of storage side by side: the flash log of boards without     *)
(* FRAM, and the memory image the rest of the program reads and writes.  A *)
(* behaviour is one of theirs: part says whose, the other stays at rest.   *)
(***************************************************************************)
EXTENDS FlashStorage, HalStorage

VARIABLE part

storageVars == <<part, flashVars, halVars>>

BackupFile == [l \in Lines |-> IF l = 0 THEN "a" ELSE "b"]

HalPart(A) == part = "memory image" /\ A /\ UNCHANGED <<part, flashVars>>
FlashPart(A) == part = "flash log" /\ A /\ UNCHANGED <<part, halVars>>

StorageInit ==
    /\ part \in {"memory image", "flash log"}
    /\ FlashInit /\ HalInit
    /\ part = "flash log" => buffer = BackupFile /\ tmpline = "a"   \* one start of a part at rest
StorageNext == FlashPart(FlashNext) \/ HalPart(HalNext)

\* The fairness of HalSpec.
StorageSpec ==
    /\ StorageInit /\ [][StorageNext]_storageVars
    /\ WF_storageVars(HalPart(TimerTick)) /\ SF_storageVars(HalPart(TickStore))

\* Both layers keep their types.
StorageTypeOK == FlashTypeOK /\ HalTypeOK
=============================================================================
