------------------------ MODULE MissionUpload_proofs ------------------------
(***************************************************************************)
(* Proofs about MissionUpload, for any stations, plans, list lengths and   *)
(* timeout.  The invariant says what has been collected so far: the items  *)
(* up to the one requested are those of the plan announced, in the mission *)
(* or in the fence's new list, and a fence list that is only partly asked  *)
(* for has its mask.                                                       *)
(***************************************************************************)
EXTENDS MissionUpload, SequenceTheorems, TLAPS

Collected == IF kind = "FENCE" THEN newItems ELSE items

CollectedIsPlan ==
    receiving /\ uploading # NoPlan /\ broken = "none" =>
        /\ uploading.size \in 1..MaxItems /\ requestLast = uploading.size - 1
        /\ requested <= requestLast /\ requested <= Len(Collected)
        /\ Len(Collected) <= uploading.size
        /\ kind = "FENCE" => Len(newItems) = uploading.size
        /\ \A i \in 1..requested : Collected[i] = uploading
        /\ ~masked

MaskFits == masked => receiving /\ kind = "FENCE" /\ Len(newItems) = Len(items)

PartialIsMasked ==
    receiving /\ kind = "FENCE" /\ broken = "none" /\ uploading = NoPlan => masked

EmptyHasNoList == broken = "empty" => newItems = NoItems

UploadIInv ==
    /\ UploadTypeOK /\ ReceivingHasStore
    /\ CollectedIsPlan /\ MaskFits /\ PartialIsMasked /\ EmptyHasNoList

\* The parts of the type invariant.
ListsOK ==
    /\ items \in Seq(Items) /\ Len(items) <= MaxItems
    /\ newItems \in Seq(Items) /\ Len(newItems) <= MaxItems
NumbersOK ==
    /\ requested \in 0..MaxItems /\ requestLast \in 0..MaxItems
    /\ sinceItem \in 0..(UploadTimeout + 1)
FlagsOK ==
    /\ kind \in {"MISSION", "FENCE"} /\ running \in BOOLEAN
    /\ receiving \in BOOLEAN /\ linked \in BOOLEAN /\ masked \in BOOLEAN
    /\ dest \in Stations
UploadOK ==
    /\ uploading \in Plans \cup {NoPlan}
    /\ broken \in {"none", "stolen", "refused", "empty"}

\* The types, in the parts that handlers change
LEMMA TypeParts == UploadTypeOK <=> ListsOK /\ NumbersOK /\ FlagsOK /\ UploadOK
BY DEF UploadTypeOK, ListsOK, NumbersOK, FlagsOK, UploadOK

-----------------------------------------------------------------------------
\* A list of copies of a plan's item is a list of items.
LEMMA CopiesIsSeq ==
    ASSUME NEW p \in Items, NEW n \in Nat
    PROVE  /\ Copies(p, n) \in Seq(Items) /\ Len(Copies(p, n)) = n
           /\ \A i \in 1..n : Copies(p, n)[i] = p
BY DEF Copies

\* The empty list is one.
LEMMA NothingIsSeq == NoItems \in Seq(Items) /\ Len(NoItems) = 0
BY DEF NoItems

\* A list that is cut off is one, and no longer.
LEMMA TruncatedIsSeq ==
    ASSUME items \in Seq(Items), NEW n \in Nat
    PROVE  /\ Truncated(n) \in Seq(Items) /\ Len(Truncated(n)) <= Len(items)
           /\ Len(Truncated(n)) <= n
BY DEF Truncated

\* replace_item() and append_item() put the item in its place and move none.
LEMMA StoredIsSeq ==
    ASSUME NEW list \in Seq(Items), NEW p \in Items, NEW seq \in 0..Len(list)
    PROVE  /\ Stored(list, seq, p) \in Seq(Items)
           /\ Len(Stored(list, seq, p)) = IF seq < Len(list) THEN Len(list) ELSE Len(list) + 1
           /\ Stored(list, seq, p)[seq + 1] = p
           /\ \A i \in 1..seq : Stored(list, seq, p)[i] = list[i]
<1>1. CASE seq < Len(list)
  BY <1>1 DEF Stored
<1>2. CASE ~(seq < Len(list))
  <2>1. seq = Len(list) /\ Stored(list, seq, p) = Append(list, p)
    BY <1>2 DEF Stored
  <2> QED
    BY <1>2, <2>1
<1> QED
  BY <1>1, <1>2

\* What is written of a fence has the length of what was asked for.
LEMMA FilledIsSeq ==
    ASSUME NEW list \in Seq(Items), items \in Seq(Items), masked => Len(list) = Len(items)
    PROVE  Filled(list) \in Seq(Items) /\ Len(Filled(list)) = Len(list)
<1>1. CASE masked
  <2>1. \A i \in 1..Len(list) : (IF list[i] = Unset THEN items[i] ELSE list[i]) \in Items
    BY <1>1
  <2>2. Filled(list) = [i \in 1..Len(list) |-> IF list[i] = Unset THEN items[i] ELSE list[i]]
    BY <1>1 DEF Filled
  <2> QED
    BY <2>1, <2>2
<1>2. CASE ~masked
  BY <1>2 DEF Filled
<1> QED
  BY <1>1, <1>2

\* Initially
LEMMA UploadInitial == UploadInit => UploadIInv
<1> SUFFICES ASSUME UploadInit PROVE UploadIInv
  OBVIOUS
<1>1. PICK p \in Plans : p.size <= MaxItems /\ items = Copies(p, p.size)
  BY DEF UploadInit
<1>2. p \in Items /\ p.size \in Nat
  BY MissionUploadAssumption DEF Items, Plans
<1>3. items \in Seq(Items) /\ Len(items) <= MaxItems
  BY <1>1, <1>2, CopiesIsSeq
<1>4. ListsOK
  BY <1>3, NothingIsSeq, MissionUploadAssumption DEF UploadInit, ListsOK
<1>5. NumbersOK
  BY MissionUploadAssumption DEF UploadInit, NumbersOK
<1>6. FlagsOK /\ UploadOK
  BY DEF UploadInit, FlagsOK, UploadOK
<1>7. UploadTypeOK
  BY <1>4, <1>5, <1>6, TypeParts
<1> QED
  BY <1>7 DEF UploadInit, UploadIInv, ReceivingHasStore, CollectedIsPlan, MaskFits, PartialIsMasked,
              EmptyHasNoList

-----------------------------------------------------------------------------
\* However an upload ends, only the stored items are left of it.
LEMMA EndKeeps ==
    ASSUME UploadIInv, EndUpload, items' \in Seq(Items), Len(items') <= MaxItems,
           requested' \in 0..MaxItems, sinceItem' \in 0..(UploadTimeout + 1),
           UNCHANGED <<kind, running, requestLast, dest>>
    PROVE  UploadIInv'
<1> USE TypeParts DEF UploadIInv
<1>1. ListsOK'
  BY NothingIsSeq, MissionUploadAssumption DEF EndUpload, ListsOK
<1>2. NumbersOK'
  BY DEF NumbersOK
<1>3. FlagsOK' /\ UploadOK'
  BY DEF FlagsOK, UploadOK, EndUpload
<1>4. UploadTypeOK'
  BY <1>1, <1>2, <1>3 DEF UploadTypeOK, ListsOK, NumbersOK, FlagsOK, UploadOK
<1> QED
  BY <1>4 DEF EndUpload, ReceivingHasStore, CollectedIsPlan, MaskFits, PartialIsMasked,
              EmptyHasNoList

\* An upload that ends without its last item
LEMMA EndsKeep ==
    ASSUME UploadIInv, NEW g \in Stations, NEW p \in Plans, NEW seq \in 0..MaxItems,
           HandleMissionCountZero(g, p) \/ HandleMissionItemRefused(g, seq) \/ CancelUpload
    PROVE  UploadIInv'
<1>1. EndUpload /\ UNCHANGED <<kind, running, requested, requestLast, dest, sinceItem>>
  BY DEF HandleMissionCountZero, HandleMissionItemRefused, CancelUpload
<1>2. items' = items \/ items' = NoItems
  BY DEF HandleMissionCountZero, HandleMissionItemRefused, CancelUpload
<1>3. ListsOK /\ NumbersOK
  BY TypeParts DEF UploadIInv
<1>4. items' \in Seq(Items) /\ Len(items') <= MaxItems
  <2>1. CASE items' = items
    BY <2>1, <1>3 DEF ListsOK
  <2>2. CASE items' = NoItems
    BY <2>2, NothingIsSeq, MissionUploadAssumption
  <2> QED
    BY <1>2, <2>1, <2>2
<1> QED
  BY <1>1, <1>3, <1>4, EndKeeps DEF NumbersOK

\* MISSION_COUNT starts with an empty list, or with a mission cut to length.
LEMMA CountKeeps ==
    ASSUME UploadIInv, NEW g \in Stations, NEW p \in Plans, HandleMissionCount(g, p)
    PROVE  UploadIInv'
<1> USE MissionUploadAssumption DEF HandleMissionCount, InitSendRequests
<1>0. ListsOK /\ NumbersOK /\ FlagsOK /\ UploadOK
  BY TypeParts DEF UploadIInv
<1>1. p.size \in 1..MaxItems /\ p # NoPlan /\ Unset \in Items
  BY DEF NoPlan, Items
<1>2. items' \in Seq(Items) /\ Len(items') <= MaxItems
      /\ (kind = "MISSION" => Len(items') <= p.size)
  <2>1. CASE kind = "MISSION"
    <3>1. items' = Truncated(p.size) /\ p.size \in Nat
      BY <1>1, <2>1
    <3>2. items \in Seq(Items) /\ Len(items) \in Nat /\ Len(items) <= MaxItems
      BY <1>0 DEF ListsOK
    <3>3. Truncated(p.size) \in Seq(Items) /\ Len(Truncated(p.size)) \in Nat
          /\ Len(Truncated(p.size)) <= Len(items) /\ Len(Truncated(p.size)) <= p.size
      <4> HIDE DEF HandleMissionCount, InitSendRequests
      <4> DEFINE n == p.size
      <4>1. n \in Nat
        BY <3>1
      <4> HIDE DEF n
      <4>2. Truncated(n) \in Seq(Items) /\ Len(Truncated(n)) <= Len(items)
            /\ Len(Truncated(n)) <= n
        BY <4>1, <3>2, TruncatedIsSeq
      <4>3. Len(Truncated(n)) \in Nat
        BY <4>2
      <4> QED
        BY <4>2, <4>3 DEF n
    <3> QED
      BY <3>1, <3>2, <3>3
  <2>2. CASE kind # "MISSION"
    BY <1>0, <2>2 DEF ListsOK
  <2> QED
    BY <2>1, <2>2
<1>3. newItems' \in Seq(Items) /\ Len(newItems') <= MaxItems
      /\ (kind = "FENCE" => Len(newItems') = p.size)
  BY <1>1, CopiesIsSeq, NothingIsSeq
<1>4. UploadTypeOK'
  <2>1. ListsOK'
    BY <1>2, <1>3 DEF ListsOK
  <2>2. NumbersOK'
    BY <1>1 DEF NumbersOK
  <2>3. FlagsOK'
    BY <1>0 DEF FlagsOK
  <2>4. UploadOK'
    BY DEF UploadOK
  <2> QED
    BY <2>1, <2>2, <2>3, <2>4 DEF UploadTypeOK, ListsOK, NumbersOK, FlagsOK, UploadOK
<1>5. ReceivingHasStore'
  <2>1. kind = "FENCE" => newItems' # NoItems
    BY <1>1, <1>3, NothingIsSeq
  <2>2. linked' /\ kind' = kind /\ broken' = "none"
    OBVIOUS
  <2> QED
    BY <2>1, <2>2 DEF ReceivingHasStore, Allocated
<1>6. CollectedIsPlan'
  <2>1. uploading' = p /\ requested' = 0 /\ requestLast' = p.size - 1 /\ ~masked' /\ kind' = kind
    OBVIOUS
  <2>2. Collected' \in Seq(Items) /\ Len(Collected') <= p.size
    BY <1>0, <1>1, <1>2, <1>3, <2>1 DEF Collected, FlagsOK
  <2> QED
    BY <1>1, <1>3, <2>1, <2>2 DEF CollectedIsPlan
<1>7. MaskFits' /\ PartialIsMasked' /\ EmptyHasNoList'
  BY <1>1 DEF MaskFits, PartialIsMasked,
              EmptyHasNoList
<1> QED
  BY <1>4, <1>5, <1>6, <1>7 DEF UploadIInv

\* A count that is refused takes the fence's memory and nothing else.
LEMMA CountRefusedKeeps ==
    ASSUME UploadIInv, NEW g \in Stations, NEW p \in Plans, HandleMissionCountRefused(g, p)
    PROVE  UploadIInv'
<1> USE DEF HandleMissionCountRefused
<1>1. ListsOK /\ NumbersOK /\ FlagsOK /\ UploadOK
  BY TypeParts DEF UploadIInv
<1>2. UploadTypeOK'
  BY <1>1 DEF UploadTypeOK, ListsOK, NumbersOK, FlagsOK, UploadOK
<1> QED
  BY <1>2 DEF UploadIInv, ReceivingHasStore, CollectedIsPlan, MaskFits, PartialIsMasked,
              EmptyHasNoList

\* A partial list that is refused leaves an upload it has broken.
LEMMA PartialListRefusedKeeps ==
    ASSUME UploadIInv, NEW first \in 0..MaxItems, NEW last \in 0..MaxItems,
           HandleMissionWritePartialListRefused(first, last)
    PROVE  UploadIInv'
<1> USE DEF HandleMissionWritePartialListRefused
<1>1. ListsOK /\ NumbersOK /\ FlagsOK /\ UploadOK
  BY TypeParts DEF UploadIInv
<1>2. UploadTypeOK'
  BY <1>1 DEF UploadTypeOK, ListsOK, NumbersOK, FlagsOK, UploadOK
<1>3. ReceivingHasStore'
  BY DEF UploadIInv, ReceivingHasStore, Allocated
<1> QED
  BY <1>2, <1>3 DEF UploadIInv, CollectedIsPlan, MaskFits, PartialIsMasked, EmptyHasNoList

\* A partial list has its mask.
LEMMA PartialListKeeps ==
    ASSUME UploadIInv, NEW g \in Stations, NEW first \in 0..MaxItems, NEW last \in 0..MaxItems,
           HandleMissionWritePartialList(g, first, last)
    PROVE  UploadIInv'
<1> USE MissionUploadAssumption DEF HandleMissionWritePartialList, InitSendRequests
<1>0. ListsOK /\ NumbersOK /\ FlagsOK /\ UploadOK
  BY TypeParts DEF UploadIInv
<1>1. items \in Seq(Items) /\ Len(items) \in Nat /\ Len(items) <= MaxItems /\ Unset \in Items
  BY <1>0 DEF ListsOK, Items
<1>2. newItems' \in Seq(Items) /\ Len(newItems') <= MaxItems
      /\ (kind = "FENCE" => Len(newItems') = Len(items))
  <2>1. CASE kind = "FENCE"
    BY <1>1, <2>1, CopiesIsSeq
  <2>2. CASE kind # "FENCE"
    BY <2>2, NothingIsSeq
  <2> QED
    BY <2>1, <2>2
<1>3. UploadTypeOK'
  <2>1. ListsOK'
    BY <1>1, <1>2 DEF ListsOK
  <2>2. NumbersOK'
    BY DEF NumbersOK
  <2>3. FlagsOK'
    BY <1>0 DEF FlagsOK
  <2>4. UploadOK'
    BY DEF UploadOK
  <2> QED
    BY <2>1, <2>2, <2>3, <2>4 DEF UploadTypeOK, ListsOK, NumbersOK, FlagsOK, UploadOK
<1>4. kind = "FENCE" /\ items # NoItems => newItems' # NoItems
  <2>1. items # NoItems => Len(items) # 0
    BY <1>1 DEF NoItems
  <2> QED
    BY <2>1, <1>2, NothingIsSeq
<1>5. ReceivingHasStore'
  BY <1>4 DEF ReceivingHasStore, Allocated
<1>6. MaskFits' /\ PartialIsMasked' /\ CollectedIsPlan'
  BY <1>2 DEF CollectedIsPlan, MaskFits, PartialIsMasked
<1>7. EmptyHasNoList'
  <2>1. broken' = "empty" => kind = "FENCE" /\ items = NoItems
    OBVIOUS
  <2>2. items = NoItems /\ kind = "FENCE" => newItems' = NoItems
    BY <1>2, NothingIsSeq DEF NoItems
  <2> QED
    BY <2>1, <2>2 DEF EmptyHasNoList
<1> QED
  BY <1>3, <1>5, <1>6, <1>7 DEF UploadIInv

\* The item put in its place: what holds of both lists afterwards.
LEMMA ItemStored ==
    ASSUME UploadIInv, NEW g \in Stations, NEW seq \in 0..MaxItems, NEW p \in Plans,
           ItemExpected(g, seq), Fits(seq), MaySend(g, p)
    PROVE  /\ seq = requested /\ seq + 1 \in 0..MaxItems
           /\ p \in Items /\ (uploading # NoPlan => p = uploading)
           /\ Collected \in Seq(Items) /\ seq \in 0..Len(Collected)
           /\ kind = "FENCE" => seq < Len(newItems)
           /\ Stored(Collected, seq, p) \in Seq(Items)
           /\ Len(Stored(Collected, seq, p)) <= MaxItems
           /\ kind = "FENCE" => Len(Stored(Collected, seq, p)) = Len(newItems)
<1> USE MissionUploadAssumption
<1>0. ListsOK /\ NumbersOK
  BY TypeParts DEF UploadIInv
<1>1. seq = requested
  BY DEF ItemExpected
<1>2. p \in Items /\ (uploading # NoPlan => p = uploading)
  BY DEF ItemExpected, MaySend, Items
<1>3. Collected \in Seq(Items) /\ Len(Collected) \in Nat /\ Len(Collected) <= MaxItems
  BY <1>0 DEF ListsOK, Collected
<1>4. seq \in 0..Len(Collected) /\ seq < MaxItems /\ (kind = "FENCE" => seq < Len(newItems))
  <2>1. CASE kind = "FENCE"
    BY <2>1, <1>3 DEF Collected, Fits
  <2>2. CASE kind # "FENCE"
    BY <2>2, <1>3 DEF Collected, Fits
  <2> QED
    BY <2>1, <2>2
<1>5. /\ Stored(Collected, seq, p) \in Seq(Items)
      /\ Len(Stored(Collected, seq, p))
            = IF seq < Len(Collected) THEN Len(Collected) ELSE Len(Collected) + 1
  BY <1>2, <1>3, <1>4, StoredIsSeq
<1>6. Len(Stored(Collected, seq, p)) <= MaxItems
      /\ (kind = "FENCE" => Len(Stored(Collected, seq, p)) = Len(newItems))
  <2>1. Len(Collected) = seq \/ seq < Len(Collected)
    BY <1>3, <1>4
  <2> QED
    BY <2>1, <1>3, <1>4, <1>5 DEF Collected
<1> QED
  BY <1>1, <1>2, <1>3, <1>4, <1>5, <1>6

\* An item that is not the last takes its place among those collected.
LEMMA ItemKeeps ==
    ASSUME UploadIInv, NEW g \in Stations, NEW seq \in 0..MaxItems, NEW p \in Plans,
           MaySend(g, p), HandleMissionItem(g, seq, p)
    PROVE  UploadIInv'
<1> DEFINE stored == Stored(Collected, seq, p)
<1>0. ListsOK /\ NumbersOK /\ FlagsOK /\ UploadOK
  BY TypeParts DEF UploadIInv
<1>1. /\ ItemExpected(g, seq) /\ Fits(seq) /\ seq < requestLast
      /\ requested' = requested + 1 /\ sinceItem' = 0
      /\ UNCHANGED <<kind, running, receiving, linked, requestLast, dest, masked, uploading,
                     broken>>
  BY DEF HandleMissionItem
<1>2. IF kind = "FENCE" THEN newItems' = stored /\ UNCHANGED items
                        ELSE items' = stored /\ UNCHANGED newItems
  BY DEF HandleMissionItem, Collected
<1>3. /\ seq = requested /\ seq + 1 \in 0..MaxItems
      /\ p \in Items /\ (uploading # NoPlan => p = uploading)
      /\ Collected \in Seq(Items) /\ seq \in 0..Len(Collected)
      /\ stored \in Seq(Items) /\ Len(stored) <= MaxItems
      /\ kind = "FENCE" => seq < Len(newItems) /\ Len(stored) = Len(newItems)
  BY <1>1, ItemStored
<1>4. /\ Len(stored) = IF seq < Len(Collected) THEN Len(Collected) ELSE Len(Collected) + 1
      /\ stored[seq + 1] = p
      /\ \A i \in 1..seq : stored[i] = Collected[i]
  BY <1>3, StoredIsSeq
<1>5. Collected' = stored
  BY <1>1, <1>2 DEF Collected
<1> HIDE DEF stored
<1>6. UploadTypeOK'
  <2>1. ListsOK'
    BY <1>0, <1>2, <1>3 DEF ListsOK
  <2>2. NumbersOK'
    BY <1>0, <1>1, <1>3, MissionUploadAssumption DEF NumbersOK
  <2>3. FlagsOK' /\ UploadOK'
    BY <1>0, <1>1 DEF FlagsOK, UploadOK
  <2> QED
    BY <2>1, <2>2, <2>3 DEF UploadTypeOK, ListsOK, NumbersOK, FlagsOK, UploadOK
<1>7. kind = "FENCE" => Len(newItems') = Len(newItems) /\ newItems' # NoItems
  BY <1>0, <1>2, <1>3, NothingIsSeq DEF ListsOK
<1>8. ReceivingHasStore'
  BY <1>1, <1>7 DEF UploadIInv, ReceivingHasStore, Allocated, Fits
<1>9. CollectedIsPlan'
  <2> SUFFICES ASSUME receiving, uploading # NoPlan, broken = "none" PROVE CollectedIsPlan'
    BY <1>1 DEF CollectedIsPlan
  <2>1. /\ uploading.size \in 1..MaxItems /\ requestLast = uploading.size - 1
        /\ Len(Collected) <= uploading.size
        /\ kind = "FENCE" => Len(newItems) = uploading.size
        /\ \A i \in 1..requested : Collected[i] = uploading
        /\ ~masked
    BY DEF UploadIInv, CollectedIsPlan
  <2>2. requested + 1 <= requestLast /\ requested + 1 <= Len(stored)
    BY <1>0, <1>1, <1>3, <1>4 DEF NumbersOK
  <2>3. Len(stored) <= uploading.size
    BY <1>0, <1>1, <1>3, <1>4, <2>1, <2>2 DEF NumbersOK
  <2>4. \A i \in 1..(requested + 1) : stored[i] = uploading
    <3> SUFFICES ASSUME NEW i \in 1..(requested + 1) PROVE stored[i] = uploading
      OBVIOUS
    <3>1. requested \in Nat /\ (i = requested + 1 \/ i \in 1..requested)
      BY <1>0 DEF NumbersOK
    <3>2. CASE i = requested + 1
      BY <3>2, <1>3, <1>4
    <3>3. CASE i \in 1..requested
      BY <3>3, <1>3, <1>4, <2>1
    <3> QED
      BY <3>1, <3>2, <3>3
  <2> QED
    BY <1>1, <1>5, <1>7, <2>1, <2>2, <2>3, <2>4 DEF CollectedIsPlan
<1>10. MaskFits' /\ PartialIsMasked'
  BY <1>1, <1>2, <1>7 DEF UploadIInv, MaskFits, PartialIsMasked
<1>11. EmptyHasNoList'
  BY <1>1, <1>2 DEF UploadIInv, EmptyHasNoList, Fits, Allocated
<1> QED
  BY <1>6, <1>8, <1>9, <1>10, <1>11 DEF UploadIInv

\* What is written as the last item comes.
LEMMA LastItemWrites ==
    ASSUME UploadIInv, NEW g \in Stations, NEW seq \in 0..MaxItems, NEW p \in Plans,
           MaySend(g, p), HandleLastMissionItem(g, seq, p)
    PROVE  /\ items' \in Seq(Items) /\ Len(items') <= MaxItems
           /\ kind # "FENCE" => items' = Stored(Collected, seq, p)
           /\ kind = "FENCE" => items' = items \/ items' = Filled(Stored(Collected, seq, p))
<1>0. ListsOK
  BY TypeParts DEF UploadIInv
<1>1. ItemExpected(g, seq) /\ Fits(seq)
  BY DEF HandleLastMissionItem
<1>2. /\ Stored(Collected, seq, p) \in Seq(Items)
      /\ Len(Stored(Collected, seq, p)) <= MaxItems
      /\ kind = "FENCE" => Len(Stored(Collected, seq, p)) = Len(newItems)
  BY <1>1, ItemStored
<1>3. CASE kind = "FENCE"
  <2>1. items' = items \/ items' = Filled(Stored(Collected, seq, p))
    BY <1>3 DEF HandleLastMissionItem, WriteFence, Collected
  <2>2. masked => Len(Stored(Collected, seq, p)) = Len(items)
    BY <1>2, <1>3 DEF UploadIInv, MaskFits
  <2>3. Filled(Stored(Collected, seq, p)) \in Seq(Items)
        /\ Len(Filled(Stored(Collected, seq, p))) = Len(Stored(Collected, seq, p))
    BY <1>0, <1>2, <2>2, FilledIsSeq DEF ListsOK
  <2> QED
    BY <1>0, <1>2, <1>3, <2>1, <2>3 DEF ListsOK
<1>4. CASE kind # "FENCE"
  BY <1>2, <1>4 DEF HandleLastMissionItem, Collected
<1> QED
  BY <1>3, <1>4

\* The last item of an upload: the list is the whole plan.
LEMMA LastItemKeeps ==
    ASSUME UploadIInv, NEW g \in Stations, NEW seq \in 0..MaxItems, NEW p \in Plans,
           MaySend(g, p), HandleLastMissionItem(g, seq, p)
    PROVE  UploadIInv'
<1>1. /\ EndUpload /\ requested' = requested + 1 /\ sinceItem' = 0
      /\ ItemExpected(g, seq) /\ Fits(seq)
      /\ UNCHANGED <<kind, running, requestLast, dest>>
  BY DEF HandleLastMissionItem
<1>2. requested' \in 0..MaxItems /\ sinceItem' \in 0..(UploadTimeout + 1)
  BY <1>1, ItemStored, MissionUploadAssumption
<1>3. items' \in Seq(Items) /\ Len(items') <= MaxItems
  BY LastItemWrites
<1> QED
  BY <1>1, <1>2, <1>3, EndKeeps

\* Neither time, nor the mission's being started, nor a clear while nothing is
\* received touches an upload.
LEMMA OthersKeep ==
    ASSUME UploadIInv, HandleMissionClearAll \/ StartOrStopMission \/ UploadTimePasses
    PROVE  UploadIInv'
<1>0. ListsOK /\ NumbersOK /\ FlagsOK /\ UploadOK
  BY TypeParts DEF UploadIInv
<1>1. CASE HandleMissionClearAll
  <2> USE <1>1 DEF HandleMissionClearAll
  <2>1. ListsOK'
    BY <1>0, NothingIsSeq, MissionUploadAssumption DEF ListsOK
  <2>2. UploadTypeOK'
    BY <1>0, <2>1 DEF UploadTypeOK, ListsOK, NumbersOK, FlagsOK, UploadOK
  <2> QED
    BY <2>2 DEF UploadIInv, ReceivingHasStore, CollectedIsPlan, MaskFits, PartialIsMasked,
                EmptyHasNoList
<1>2. CASE StartOrStopMission
  <2>1. UploadTypeOK'
    BY <1>0, <1>2 DEF StartOrStopMission, UploadTypeOK, ListsOK, NumbersOK, FlagsOK, UploadOK
  <2> QED
    BY <1>2, <2>1 DEF StartOrStopMission, UploadIInv, ReceivingHasStore, Allocated, CollectedIsPlan,
                      Collected, MaskFits, PartialIsMasked,
                      EmptyHasNoList
<1>3. CASE UploadTimePasses
  <2>1. NumbersOK'
    BY <1>0, <1>3, MissionUploadAssumption DEF UploadTimePasses, NumbersOK
  <2>2. UploadTypeOK'
    BY <1>0, <1>3, <2>1 DEF UploadTimePasses, UploadTypeOK, ListsOK, NumbersOK, FlagsOK, UploadOK
  <2> QED
    BY <1>3, <2>2 DEF UploadTimePasses, UploadIInv, ReceivingHasStore, Allocated, CollectedIsPlan,
                      Collected, MaskFits, PartialIsMasked,
                      EmptyHasNoList
<1> QED
  BY <1>1, <1>2, <1>3

\* Every step of the protocol keeps the invariant.
LEMMA UploadInductive ==
    ASSUME UploadIInv, [UploadNext]_uploadVars PROVE UploadIInv'
<1>1. CASE Starts
  BY <1>1, CountKeeps, EndsKeep, CountRefusedKeeps, PartialListKeeps, PartialListRefusedKeeps,
     MissionUploadAssumption DEF Starts
<1>2. CASE ItemArrives
  <2> USE MissionUploadAssumption
  <2>1. PICK g \in Stations, seq \in 0..MaxItems :
            \/ HandleMissionItemRefused(g, seq)
            \/ \E p \in Plans : MaySend(g, p) /\ (HandleMissionItem(g, seq, p)
                                                  \/ HandleLastMissionItem(g, seq, p))
    BY <1>2 DEF ItemArrives
  <2>2. CASE HandleMissionItemRefused(g, seq)
    <3>1. EndUpload /\ UNCHANGED <<kind, items, running, requested, requestLast, dest, sinceItem>>
      BY <2>2 DEF HandleMissionItemRefused
    <3>2. ListsOK /\ NumbersOK
      BY TypeParts DEF UploadIInv
    <3> QED
      BY <3>1, <3>2, EndKeeps DEF ListsOK, NumbersOK
  <2> QED
    BY <2>1, <2>2, ItemKeeps, LastItemKeeps
<1>3. CASE CancelUpload
  <2>1. EndUpload /\ UNCHANGED <<kind, items, running, requested, requestLast, dest, sinceItem>>
    BY <1>3 DEF CancelUpload
  <2>2. ListsOK /\ NumbersOK
    BY TypeParts DEF UploadIInv
  <2> QED
    BY <2>1, <2>2, EndKeeps DEF ListsOK, NumbersOK
<1>4. CASE HandleMissionClearAll \/ StartOrStopMission \/ UploadTimePasses
  BY <1>4, OthersKeep
<1>5. CASE UNCHANGED uploadVars
  <2>1. UploadTypeOK'
    BY <1>5 DEF uploadVars, UploadIInv, UploadTypeOK
  <2> QED
    BY <1>5, <2>1 DEF uploadVars, UploadIInv, ReceivingHasStore, Allocated, CollectedIsPlan,
                      Collected, MaskFits, PartialIsMasked,
                      EmptyHasNoList
<1> QED
  BY <1>1, <1>2, <1>3, <1>4, <1>5 DEF UploadNext

\* Only the last item counts one more request and ends the upload.
LEMMA LastItemOnly ==
    ASSUME UploadIInv, UploadNext, receiving, ~receiving', requested' = requested + 1
    PROVE  \E g \in Stations, seq \in 0..MaxItems, p \in Plans :
               MaySend(g, p) /\ HandleLastMissionItem(g, seq, p)
<1>0. requested' # requested
  BY TypeParts DEF UploadIInv, NumbersOK
<1>1. ~Starts
  BY <1>0 DEF Starts, HandleMissionCount, HandleMissionCountZero, HandleMissionCountRefused,
              HandleMissionWritePartialList, HandleMissionWritePartialListRefused,
              InitSendRequests
<1>2. ~(HandleMissionClearAll \/ CancelUpload \/ StartOrStopMission \/ UploadTimePasses)
  BY <1>0 DEF HandleMissionClearAll, CancelUpload, StartOrStopMission, UploadTimePasses
<1>3. ItemArrives
  BY <1>1, <1>2 DEF UploadNext
<1> QED
  BY <1>0, <1>3 DEF ItemArrives, HandleMissionItemRefused, HandleMissionItem

\* With the last item the list collected is the plan announced.
LEMMA LastItemCompletes ==
    ASSUME UploadIInv, uploading # NoPlan, broken = "none",
           NEW g \in Stations, NEW seq \in 0..MaxItems, NEW p \in Plans,
           MaySend(g, p), HandleLastMissionItem(g, seq, p)
    PROVE  /\ Stored(Collected, seq, p) = Copies(uploading, uploading.size)
           /\ uploading \in Items /\ uploading.size \in Nat \ {0} /\ ~masked
<1> DEFINE stored == Stored(Collected, seq, p)
           n == uploading.size
<1>0. NumbersOK
  BY TypeParts DEF UploadIInv
<1>1. ItemExpected(g, seq) /\ Fits(seq) /\ receiving /\ seq >= requestLast
  BY DEF HandleLastMissionItem, ItemExpected
<1>2. /\ seq = requested /\ p \in Items /\ p = uploading
      /\ Collected \in Seq(Items) /\ seq \in 0..Len(Collected)
  BY <1>1, ItemStored
<1>3. /\ stored \in Seq(Items)
      /\ Len(stored) = IF seq < Len(Collected) THEN Len(Collected) ELSE Len(Collected) + 1
      /\ stored[seq + 1] = p
      /\ \A i \in 1..seq : stored[i] = Collected[i]
  BY <1>2, StoredIsSeq
<1>4. /\ n \in 1..MaxItems /\ requestLast = n - 1 /\ requested <= requestLast
      /\ Len(Collected) <= n /\ ~masked
      /\ \A i \in 1..requested : Collected[i] = uploading
  BY <1>1 DEF UploadIInv, CollectedIsPlan
<1> HIDE DEF stored, n
<1>5. n \in Nat \ {0} /\ seq = n - 1 /\ Len(stored) = n
  BY <1>0, <1>1, <1>2, <1>3, <1>4, MissionUploadAssumption DEF NumbersOK
<1>6. \A i \in 1..n : stored[i] = uploading
  <2> SUFFICES ASSUME NEW i \in 1..n PROVE stored[i] = uploading
    OBVIOUS
  <2>1. i = seq + 1 \/ i \in 1..seq
    BY <1>5
  <2>2. CASE i = seq + 1
    BY <2>2, <1>2, <1>3
  <2>3. CASE i \in 1..seq
    BY <2>3, <1>2, <1>3, <1>4
  <2> QED
    BY <2>1, <2>2, <2>3
<1>7. uploading \in Items
  BY <1>2
<1>8. stored = Copies(uploading, n)
  BY <1>3, <1>5, <1>6, <1>7, CopiesIsSeq, SeqEqual
<1> QED
  BY <1>4, <1>5, <1>7, <1>8 DEF stored, n

\* The step that accepts an upload is that of its last item.
LEMMA AcceptedStep ==
    ASSUME UploadIInv, UploadNext, uploading # NoPlan, broken = "none",
           NEW g \in Stations, NEW seq \in 0..MaxItems, NEW p \in Plans,
           HandleLastMissionItem(g, seq, p)
    PROVE  \/ items' = Copies(uploading, uploading.size)
           \/ kind = "FENCE" /\ items' = items
<1>1. receiving /\ ~receiving' /\ requested' = requested + 1
  BY DEF HandleLastMissionItem, ItemExpected, EndUpload
<1>2. PICK h \in Stations, r \in 0..MaxItems, q \in Plans :
          MaySend(h, q) /\ HandleLastMissionItem(h, r, q)
  BY <1>1, LastItemOnly
<1>3. Stored(Collected, r, q) = Copies(uploading, uploading.size) /\ ~masked
  BY <1>2, LastItemCompletes
<1>4. /\ kind # "FENCE" => items' = Stored(Collected, r, q)
      /\ kind = "FENCE" => items' = items \/ items' = Filled(Stored(Collected, r, q))
  BY <1>2, LastItemWrites
<1> QED
  BY <1>3, <1>4 DEF Filled

\* What a fence is changed to as its last item comes.
LEMMA FenceCompletes ==
    ASSUME UploadIInv, kind = "FENCE", items' # items,
           NEW g \in Stations, NEW seq \in 0..MaxItems, NEW p \in Plans,
           MaySend(g, p), HandleLastMissionItem(g, seq, p),
           Unset \in {items'[i] : i \in DOMAIN items'}
    PROVE  broken = "stolen" \/ Unset \in {items[i] : i \in DOMAIN items}
<1> DEFINE stored == Stored(Collected, seq, p)
<1>0. ListsOK /\ UploadOK
  BY TypeParts DEF UploadIInv
<1>1. ItemExpected(g, seq) /\ Fits(seq)
  BY DEF HandleLastMissionItem
<1>2. stored \in Seq(Items) /\ Len(stored) = Len(newItems) /\ receiving
  BY <1>1, ItemStored DEF ItemExpected
<1>3. items' = Filled(stored)
  BY LastItemWrites
<1> HIDE DEF stored
<1>4. CASE masked
  <2>1. Len(stored) = Len(items)
    BY <1>2, <1>4 DEF UploadIInv, MaskFits
  <2>2. items' = [i \in 1..Len(items) |-> IF stored[i] = Unset THEN items[i] ELSE stored[i]]
    BY <1>2, <1>3, <1>4, <2>1 DEF Filled
  <2>3. PICK i \in 1..Len(items) : items'[i] = Unset
    BY <2>2
  <2>4. items[i] = Unset /\ i \in DOMAIN items
    BY <1>0, <2>2, <2>3 DEF ListsOK
  <2> QED
    BY <2>4
<1>5. CASE ~masked
  <2>1. broken # "refused" /\ broken # "empty"
    BY <1>1 DEF Fits, Allocated, UploadIInv, EmptyHasNoList
  <2>2. ASSUME broken = "none" PROVE FALSE
    <3>1. uploading # NoPlan
      BY <1>2, <1>5, <2>2 DEF UploadIInv, PartialIsMasked
    <3>2. stored = Copies(uploading, uploading.size) /\ uploading.size \in Nat \ {0}
      BY <2>2, <3>1, LastItemCompletes DEF stored
    <3>3. uploading # Unset
      BY <3>2 DEF Unset
    <3> QED
      BY <1>3, <1>5, <3>2, <3>3 DEF Filled, Copies
  <2> QED
    BY <1>0, <2>1, <2>2 DEF UploadOK
<1> QED
  BY <1>4, <1>5

\* The step that changes a fence ends an upload or clears it.
LEMMA FenceStep ==
    ASSUME UploadIInv, UploadNext, kind = "FENCE", items' # items
    PROVE  /\ ~receiving'
           /\ Unset \in {items'[i] : i \in DOMAIN items'} =>
                  broken = "stolen" \/ Unset \in {items[i] : i \in DOMAIN items}
<1>1. CASE items' = NoItems
  <2>1. ~receiving'
    BY <1>1 DEF UploadNext, Starts, ItemArrives, HandleMissionCount, HandleMissionCountZero,
                HandleMissionCountRefused, HandleMissionWritePartialList,
                HandleMissionWritePartialListRefused, HandleMissionItemRefused,
                HandleMissionItem, HandleLastMissionItem, HandleMissionClearAll, CancelUpload,
                StartOrStopMission, UploadTimePasses, EndUpload
  <2>2. DOMAIN items' = {}
    BY <1>1 DEF NoItems
  <2> QED
    BY <2>1, <2>2
<1>2. CASE items' # NoItems
  <2>1. \E g \in Stations, seq \in 0..MaxItems, p \in Plans :
            MaySend(g, p) /\ HandleLastMissionItem(g, seq, p)
    BY <1>2 DEF UploadNext, Starts, ItemArrives, HandleMissionCount, HandleMissionCountZero,
                HandleMissionCountRefused, HandleMissionWritePartialList,
                HandleMissionWritePartialListRefused, HandleMissionItemRefused,
                HandleMissionItem, HandleMissionClearAll, CancelUpload, StartOrStopMission,
                UploadTimePasses
  <2>2. ~receiving'
    BY <2>1 DEF HandleLastMissionItem, EndUpload
  <2> QED
    BY <2>1, <2>2, FenceCompletes
<1> QED
  BY <1>1, <1>2

\* The invariant holds for any stations, plans and lengths of a list.
THEOREM UploadInvariant == UploadSpec => []UploadIInv
<1>1. UploadIInv /\ [UploadNext]_uploadVars => UploadIInv'
  BY UploadInductive
<1> QED
  BY <1>1, UploadInitial, PTL DEF UploadSpec

\* The lists stay within max_items() and the request counters within them,
\* however messages of several stations mix (MissionItemProtocol.cpp).
THEOREM UploadType == UploadSpec => []UploadTypeOK
<1>1. UploadIInv => UploadTypeOK
  BY DEF UploadIInv
<1> QED
  BY <1>1, UploadInvariant, PTL

\* MissionItemProtocol's internal errors for an item without a link or without
\* a list to put it in are not reached, but for the two exceptions named.
THEOREM ReceivingHasItsStore == UploadSpec => []ReceivingHasStore
<1>1. UploadIInv => ReceivingHasStore
  BY DEF UploadIInv
<1> QED
  BY <1>1, UploadInvariant, PTL

\* An upload that transfer_is_complete() accepts is the plan its MISSION_COUNT
\* announced, whatever other stations have sent (MissionItemProtocol.cpp).
THEOREM AcceptedUploadIsWhole == UploadSpec => AcceptedIsWhole
<1>1. UploadIInv /\ [UploadNext]_uploadVars => UploadIInv'
  BY UploadInductive
<1>2. UploadIInv /\ [UploadNext]_uploadVars =>
          [\A g \in Stations, seq \in 0..MaxItems, p \in Plans :
              HandleLastMissionItem(g, seq, p) /\ uploading # NoPlan /\ broken = "none" =>
                  \/ items' = Copies(uploading, uploading.size)
                  \/ kind = "FENCE" /\ items' = items]_uploadVars
  BY AcceptedStep
<1> QED
  BY <1>1, <1>2, UploadInitial, PTL DEF UploadSpec, AcceptedIsWhole

\* The fence in use changes only as an upload ends or in a clear, never to a
\* list with gaps unless a partial list has come in between.
THEOREM FenceChangesWhole == UploadSpec => FenceChangesAsAWhole
<1>1. UploadIInv /\ [UploadNext]_uploadVars => UploadIInv'
  BY UploadInductive
<1>2. UploadIInv /\ [UploadNext]_uploadVars =>
          [kind = "FENCE" /\ items' # items =>
              /\ ~receiving'
              /\ Unset \in {items'[i] : i \in DOMAIN items'} =>
                     broken = "stolen" \/ Unset \in {items[i] : i \in DOMAIN items}]_uploadVars
  BY FenceStep
<1> QED
  BY <1>1, <1>2, UploadInitial, PTL DEF UploadSpec, FenceChangesAsAWhole
=============================================================================
