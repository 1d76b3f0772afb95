--------------------------- MODULE MissionUpload ---------------------------
(***************************************************************************)
(* MissionItemProtocol: a ground station uploads the mission or the fence, *)
(* one requested item at a time.  Messages may be lost, delayed or sent    *)
(* again, and other stations send theirs meanwhile: any station may send   *)
(* any message at any time, and only what reaches the vehicle is an action *)
(* here.  A station does not change its plan without a new MISSION_COUNT,  *)
(* and its messages arrive in order.                                       *)
(*                                                                         *)
(* Mission items go straight into storage; fence items are gathered and    *)
(* written together when the last has come.                                *)
(***************************************************************************)
EXTENDS Integers, FiniteSets, Sequences

CONSTANTS
    Stations,    \* ground stations
    Sizes,       \* lengths of the plans they upload
    MaxItems,    \* max_items()
    UploadTimeout \* upload_timeout_ms, in ticks

ASSUME MissionUploadAssumption ==
    /\ Sizes \subseteq Nat /\ MaxItems \in Nat /\ UploadTimeout \in Nat

\* An item is known by the plan it comes from, here who sent it and how many
\* items it has; it is never compared with an item at another place.
Plans == [by : Stations, size : Sizes]
NoPlan == [by |-> "nobody", size |-> 0]

\* What malloc() returns.
Unset == [by |-> "memory", size |-> 0]
Items == Plans \cup {Unset}

VARIABLES
    kind,         \* which MissionItemProtocol: MISSION or FENCE
    items,        \* what is stored
    running,      \* the mission is MISSION_RUNNING
    receiving, linked,    \* link # nullptr
    requested, requestLast,    \* request_i, request_last
    dest,         \* dest_sysid, dest_compid
    sinceItem,    \* time since timelast_receive_ms
    newItems,     \* _new_items of a fence
    masked,       \* _updated_mask # nullptr, with the items received
    uploading,    \* history: the plan of the upload, NoPlan for a partial one
    broken        \* what has hit the upload; its memory is gone if "refused"

uploadVars == <<kind, items, running, receiving, linked, requested, requestLast, dest,
                sinceItem, newItems, masked, uploading, broken>>

NoItems == <<>>
Copies(p, n) == [i \in 1..n |-> p]

UploadTypeOK ==
    /\ kind \in {"MISSION", "FENCE"} /\ running \in BOOLEAN
    /\ items \in Seq(Items) /\ Len(items) <= MaxItems
    /\ newItems \in Seq(Items) /\ Len(newItems) <= MaxItems
    /\ receiving \in BOOLEAN /\ linked \in BOOLEAN /\ masked \in BOOLEAN
    /\ requested \in 0..MaxItems /\ requestLast \in 0..MaxItems
    /\ dest \in Stations /\ sinceItem \in 0..(UploadTimeout + 1)
    /\ uploading \in Plans \cup {NoPlan}
    /\ broken \in {"none", "stolen", "refused", "empty"}

UploadInit ==
    /\ kind \in {"MISSION", "FENCE"}
    /\ \E p \in Plans : p.size <= MaxItems /\ items = Copies(p, p.size)
    /\ running = FALSE
    /\ receiving = FALSE /\ linked = FALSE
    /\ requested = 0 /\ requestLast = 0 /\ dest \in Stations /\ sinceItem = 0
    /\ newItems = NoItems /\ masked = FALSE
    /\ uploading = NoPlan /\ broken = "none"

ItemCount == IF kind = "FENCE" /\ receiving THEN Len(newItems) ELSE Len(items)

\* Bug: one item more than announced is requested.
InitSendRequests_OneMore(g, first, last) ==
    /\ receiving' = TRUE /\ linked' = TRUE
    /\ requested' = first /\ requestLast' = last + 1
    /\ dest' = g /\ sinceItem' = 0

\* Bug: an upload that starts again goes on from the last request.
InitSendRequests_GoOn(g, first, last) ==
    /\ receiving' = TRUE /\ linked' = TRUE
    /\ requested' = IF receiving /\ requested <= last THEN requested ELSE first
    /\ requestLast' = last
    /\ dest' = g /\ sinceItem' = 0

\* init_send_requests(), of which the sending of requests is left out: a
\* station may answer a request, a repeated one, or none.
InitSendRequests(g, first, last) ==
    /\ receiving' = TRUE /\ linked' = TRUE
    /\ requested' = first /\ requestLast' = last
    /\ dest' = g /\ sinceItem' = 0

\* Bug: receiving stays set.
EndUpload_Receiving ==
    /\ receiving' = receiving /\ linked' = FALSE
    /\ newItems' = NoItems /\ masked' = FALSE
    /\ uploading' = NoPlan /\ broken' = "none"

\* receiving = false, link = nullptr and free_upload_resources()
EndUpload ==
    /\ receiving' = FALSE /\ linked' = FALSE
    /\ newItems' = NoItems /\ masked' = FALSE
    /\ uploading' = NoPlan /\ broken' = "none"

\* Bug: items that were not received are not read back.
Filled_Raw(received) == received

\* complete() of a fence: the items not received are read back when there is
\* a mask; write_fence() may find the whole invalid.
Filled(received) ==
    IF masked
    THEN [i \in DOMAIN received |-> IF received[i] = Unset THEN items[i] ELSE received[i]]
    ELSE received

WriteFence(received) == items' \in {items, Filled(received)}

-----------------------------------------------------------------------------
\* A larger count than there is room for is refused, and any count when there
\* is no memory for it: after the upload under way has lost its memory, though
\* not its _new_items_count, if it is the same station's.  In all other cases
\* nothing changes.
HandleMissionCountRefused(g, p) ==
    /\ p.size # 0 /\ kind = "FENCE"
    /\ receiving /\ g = dest
    /\ masked' = FALSE /\ broken' = "refused"
    /\ UNCHANGED <<kind, items, running, receiving, linked, requested, requestLast, dest,
                   sinceItem, newItems, uploading>>

Allocated == newItems # NoItems /\ broken # "refused"

\* Bug: the stored mission keeps its length.
Truncated_Never(n) == items

Truncated(n) == IF n < Len(items) THEN SubSeq(items, 1, n) ELSE items

MayStart(g) == receiving => g = dest

\* MISSION_COUNT of no items is an upload completed at once.
HandleMissionCountZero(g, p) ==
    /\ p.size = 0 /\ MayStart(g)
    /\ items' = NoItems
    /\ EndUpload
    /\ UNCHANGED <<kind, running, requested, requestLast, dest, sinceItem>>

HandleMissionCount(g, p) ==
    /\ p.size \in 1..MaxItems /\ MayStart(g)
    /\ items' = IF kind = "MISSION" THEN Truncated(p.size) ELSE items
    /\ newItems' = IF kind = "FENCE" THEN Copies(Unset, p.size) ELSE NoItems
    /\ masked' = FALSE
    /\ InitSendRequests(g, 0, p.size - 1)
    /\ uploading' = p /\ broken' = "none"
    /\ UNCHANGED <<kind, running>>

\* Nobody asks whether an upload is under way.
MayWrite(first, last) == first <= last /\ last <= ItemCount

HandleMissionWritePartialList(g, first, last) ==
    /\ MayWrite(first, last) /\ ~(kind = "FENCE" /\ Allocated)
    /\ InitSendRequests(g, first, last)
    /\ newItems' = IF kind = "FENCE" THEN Copies(Unset, Len(items)) ELSE NoItems
    /\ masked' = (kind = "FENCE")
    /\ uploading' = NoPlan
    /\ broken' = IF kind = "FENCE" /\ items = NoItems THEN "empty"
                 ELSE IF receiving THEN "stolen" ELSE "none"
    /\ UNCHANGED <<kind, items, running>>

\* A fence's fails to allocate under an upload that has its list, or without
\* memory for a list or a mask, and takes the mask of the upload with it.
HandleMissionWritePartialListRefused(first, last) ==
    /\ MayWrite(first, last) /\ kind = "FENCE"
    /\ masked' = FALSE
    /\ broken' = IF Allocated THEN "stolen" ELSE IF receiving THEN "refused" ELSE broken
    /\ UNCHANGED <<kind, items, running, newItems, receiving, linked, requested, requestLast, dest,
                   sinceItem, uploading>>

\* The items of an upload are of its plan.
MaySend(g, p) == p.by = g /\ (g = dest /\ uploading # NoPlan => p = uploading)

\* Bug: the sender is not looked at.
ItemExpected_Anyone(g, seq) == receiving /\ seq = requested

\* "make sure the item is coming from the system that initiated the upload"
ItemExpected(g, seq) == receiving /\ seq = requested /\ g = dest

\* replace_item() or append_item() has room for the item.
Fits(seq) ==
    IF kind = "FENCE" THEN Allocated /\ seq < Len(newItems) ELSE seq <= Len(items) /\ seq < MaxItems

Stored(list, seq, p) ==
    IF seq < Len(list) THEN [list EXCEPT ![seq + 1] = p] ELSE Append(list, p)

\* An item that cannot be converted or does not fit ends the upload.
HandleMissionItemRefused(g, seq) ==
    /\ ItemExpected(g, seq)
    /\ EndUpload
    /\ UNCHANGED <<kind, items, running, requested, requestLast, dest, sinceItem>>

HandleMissionItem(g, seq, p) ==
    /\ ItemExpected(g, seq) /\ Fits(seq) /\ seq < requestLast
    /\ requested' = requested + 1 /\ sinceItem' = 0
    /\ IF kind = "FENCE"
       THEN newItems' = Stored(newItems, seq, p) /\ UNCHANGED items
       ELSE items' = Stored(items, seq, p) /\ UNCHANGED newItems
    /\ UNCHANGED <<kind, running, receiving, linked, requestLast, dest, masked, uploading, broken>>

\* The last item, and transfer_is_complete().
HandleLastMissionItem(g, seq, p) ==
    /\ ItemExpected(g, seq) /\ Fits(seq) /\ seq >= requestLast
    /\ requested' = requested + 1 /\ sinceItem' = 0
    /\ IF kind = "FENCE" THEN WriteFence(Stored(newItems, seq, p))
                         ELSE items' = Stored(items, seq, p)
    /\ EndUpload
    /\ UNCHANGED <<kind, running, requestLast, dest>>

HandleMissionClearAll ==
    /\ ~receiving /\ (kind = "MISSION" => ~running)
    /\ items' = NoItems
    /\ UNCHANGED <<kind, running, receiving, linked, requested, requestLast, dest, sinceItem,
                   newItems, masked, uploading, broken>>

\* Bug: the upload under way is asked again instead of cancelled.
CancelUpload_Never ==
    /\ receiving /\ sinceItem > UploadTimeout /\ sinceItem' = 0
    /\ UNCHANGED <<kind, items, running, receiving, linked, requested, requestLast, dest,
                   newItems, masked, uploading, broken>>

\* update() cancels an upload that has had no item for too long.
CancelUpload ==
    /\ receiving /\ sinceItem > UploadTimeout
    /\ EndUpload
    /\ UNCHANGED <<kind, items, running, requested, requestLast, dest, sinceItem>>

StartOrStopMission ==
    /\ running' = ~running
    /\ UNCHANGED <<kind, items, receiving, linked, requested, requestLast, dest, sinceItem,
                   newItems, masked, uploading, broken>>

UploadTimePasses ==
    /\ receiving /\ sinceItem <= UploadTimeout /\ sinceItem' = sinceItem + 1
    /\ UNCHANGED <<kind, items, running, receiving, linked, requested, requestLast, dest,
                   newItems, masked, uploading, broken>>

Starts ==
    \E g \in Stations :
        \/ \E p \in Plans : p.by = g /\ (HandleMissionCount(g, p) \/ HandleMissionCountZero(g, p)
                                         \/ HandleMissionCountRefused(g, p))
        \/ \E first, last \in 0..MaxItems : \/ HandleMissionWritePartialList(g, first, last)
                                            \/ HandleMissionWritePartialListRefused(first, last)

ItemArrives ==
    \E g \in Stations, seq \in 0..MaxItems :
        \/ HandleMissionItemRefused(g, seq)
        \/ \E p \in Plans : MaySend(g, p) /\ (HandleMissionItem(g, seq, p)
                                              \/ HandleLastMissionItem(g, seq, p))

UploadNext ==
    Starts \/ ItemArrives \/ HandleMissionClearAll \/ CancelUpload \/ StartOrStopMission
    \/ UploadTimePasses

\* update() is called with every turn of the GCS task, and time goes on.
UploadFairness == WF_uploadVars(CancelUpload) /\ WF_uploadVars(UploadTimePasses)

UploadSpec == UploadInit /\ [][UploadNext]_uploadVars /\ UploadFairness

-----------------------------------------------------------------------------
(* Properties *)

\* While items are received there is a link to answer on and, for a fence,
\* memory to put the requested item in: the internal errors of
\* handle_mission_item() and replace_item() are not reached.  (That of
\* allocate_receive_resources() is, by a partial list under an upload.)  What
\* breaks the second half: a count of the uploading station, or a partial list
\* under an upload without memory, that is refused, and a partial list for an
\* empty fence.
ReceivingHasStore ==
    receiving => linked /\ (kind = "FENCE" => Allocated \/ broken \in {"refused", "empty"})

\* An upload that ends with its last item leaves exactly the plan announced by
\* its count, whatever else other stations have sent and however often it was
\* started again; a fence that does not pass validation stays as it was.
AcceptedIsWhole ==
    [][\A g \in Stations, seq \in 0..MaxItems, p \in Plans :
          HandleLastMissionItem(g, seq, p) /\ uploading # NoPlan /\ broken = "none" =>
              \/ items' = Copies(uploading, uploading.size)
              \/ kind = "FENCE" /\ items' = items]_uploadVars

\* A fence is never flown half uploaded: it changes only as an upload ends or
\* in a clear, and what it changes to was sent or stored before, unless a
\* partial list came in between.
FenceChangesAsAWhole ==
    [][kind = "FENCE" /\ items' # items =>
          /\ ~receiving'
          /\ Unset \in {items'[i] : i \in DOMAIN items'} =>
                 broken = "stolen" \/ Unset \in {items[i] : i \in DOMAIN items}]_uploadVars

\* Once nobody starts uploads, the last one ends, answered or not: downloads
\* and clears are not refused for ever.
UploadsEnd == <>[][~Starts]_uploadVars => <>[]~receiving
=============================================================================
