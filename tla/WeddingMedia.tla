------------------------------ MODULE WeddingMedia ------------------------------
(***************************************************************************)
(* WeddingMediaService: a couple has a card in each of a few slots.  The   *)
(* row of a card is in MongoDB and its file in GridFS, under a key of its  *)
(* own; no transaction spans the two, so every handler writes one after    *)
(* the other and compensates when the second write fails.                  *)
(***************************************************************************)
EXTENDS Integers, FiniteSets

CONSTANTS
    MediaIds,   \* WeddingMedia ids
    NoMedia,
    Keys,       \* object keys; one that nothing holds any more stands for a new one
    NoKey,
    SlotCount,  \* the slots of a couple, and its limit of cards
    Requests,   \* request slots of the API processes
    Ops         \* the endpoints that are called

ASSUME MediaBoundsAssumption ==
    /\ SlotCount \in Nat \ {0}
    /\ NoMedia \notin MediaIds /\ NoKey \notin Keys

VARIABLES
    media,     \* WeddingMedia, by id
    objects,   \* the keys under which GridFS has a file
    restored,  \* history: the rows that a failed removal created again
    req        \* what each request slot is doing

vars == <<media, objects, restored, req>>

Slots == 1 .. SlotCount

Row(slot, key) == [slot |-> slot, key |-> key]
NoRow == Row(0, NoKey)

Present(m) == media[m] # NoRow
InSlot(s) == {m \in MediaIds : media[m].slot = s}

\* What a handler knows: the row it looked up, and the keys of its own file
\* and of the file it is to remove.
Request(op, m, slot, key, old) ==
    [op |-> op, media |-> m, slot |-> slot, key |-> key, old |-> old]

Idle == Request("idle", NoMedia, 0, NoKey, NoKey)

At(p, step) == req[p].op = step

Arrives(p, endpoint) == endpoint \in Ops /\ req[p] = Idle

Continue(p, next) == req' = [req EXCEPT ![p] = next]

Proceed(p, step) == req' = [req EXCEPT ![p].op = step]

\* randomUUID, and a new id: nothing knows the value.
FreshKeys ==
    {k \in Keys \ objects :
        /\ \A m \in MediaIds : media[m].key # k
        /\ \A p \in Requests : k \notin {req[p].key, req[p].old}}

FreshIds == {m \in MediaIds : ~Present(m) /\ \A p \in Requests : req[p].media # m}

\* Mutant: the unique index (coupleId, slot) does not refuse a taken slot.
SlotAlwaysFree(s, m) == TRUE

SlotFree(s, m) == InSlot(s) \subseteq {m}

\* StorageService.delete: a key without a file is no error.
DeleteObject(key) == objects' = objects \ {key}

Abort(p) ==
    /\ req[p] # Idle
    /\ Continue(p, Idle)
    /\ UNCHANGED <<media, objects, restored>>

-----------------------------------------------------------------------------
(* upload                                                                  *)

UploadFind(p) ==
    /\ Arrives(p, "upload")
    /\ \E s \in Slots :
        \/ \E m \in InSlot(s) :
            Continue(p, Request("put", m, s, NoKey, media[m].key))
        \/ /\ InSlot(s) = {}
           /\ Continue(p, Request("count", NoMedia, s, NoKey, NoKey))
    /\ UNCHANGED <<media, objects, restored>>

UploadCount(p) ==
    /\ At(p, "count")
    /\ Cardinality({m \in MediaIds : Present(m)}) < SlotCount
    /\ Proceed(p, "put")
    /\ UNCHANGED <<media, objects, restored>>

UploadPut(p) ==
    /\ At(p, "put")
    /\ \E k \in FreshKeys :
        /\ objects' = objects \cup {k}
        /\ req' = [req EXCEPT ![p].op = "save", ![p].key = k]
    /\ UNCHANGED <<media, restored>>

\* Mutant: the key to clean up is read from the row after it was updated.
UploadReplaceThenRead(p) ==
    LET m == req[p].media
    IN  /\ At(p, "save") /\ m # NoMedia /\ Present(m)
        /\ media' = [media EXCEPT ![m].key = req[p].key]
        /\ req' = [req EXCEPT ![p].op = "clean", ![p].old = req[p].key]
        /\ restored' = restored \ {m}
        /\ UNCHANGED objects

\* The row is found by its id, in whatever slot it is now.
UploadReplace(p) ==
    LET m == req[p].media
    IN  /\ At(p, "save") /\ m # NoMedia /\ Present(m)
        /\ media' = [media EXCEPT ![m].key = req[p].key]
        /\ Proceed(p, "clean")
        /\ restored' = restored \ {m}
        /\ UNCHANGED objects

UploadCreate(p) ==
    /\ At(p, "save") /\ req[p].media = NoMedia
    /\ SlotFree(req[p].slot, NoMedia)
    /\ \E m \in FreshIds : media' = [media EXCEPT ![m] = Row(req[p].slot, req[p].key)]
    /\ Continue(p, Idle)
    /\ UNCHANGED <<objects, restored>>

\* The write of the row reports an error and did not happen: a taken slot, a
\* missing row.
UploadSaveFails(p) ==
    /\ At(p, "save")
    /\ Proceed(p, "compensate")
    /\ UNCHANGED <<media, objects, restored>>

UploadCompensate(p) ==
    /\ At(p, "compensate")
    /\ DeleteObject(req[p].key)
    /\ Continue(p, Idle)
    /\ UNCHANGED <<media, restored>>

UploadClean(p) ==
    /\ At(p, "clean")
    /\ DeleteObject(req[p].old)
    /\ Continue(p, Idle)
    /\ UNCHANGED <<media, restored>>

-----------------------------------------------------------------------------
(* update: only its slot matters here                                      *)

UpdateRead(p) ==
    /\ Arrives(p, "update")
    /\ \E m \in MediaIds, s \in Slots :
        /\ Present(m)
        /\ Continue(p, Request(IF s = media[m].slot THEN "move" ELSE "occupied",
                               m, s, NoKey, NoKey))
    /\ UNCHANGED <<media, objects, restored>>

UpdateOccupied(p) ==
    /\ At(p, "occupied")
    /\ InSlot(req[p].slot) = {}
    /\ Proceed(p, "move")
    /\ UNCHANGED <<media, objects, restored>>

UpdateWrite(p) ==
    LET m == req[p].media
    IN  /\ At(p, "move") /\ Present(m)
        /\ SlotFree(req[p].slot, m)
        /\ media' = [media EXCEPT ![m].slot = req[p].slot]
        /\ Continue(p, Idle)
        /\ UNCHANGED <<objects, restored>>

-----------------------------------------------------------------------------
(* remove                                                                  *)

RemoveRead(p) ==
    /\ Arrives(p, "remove")
    /\ \E m \in MediaIds :
        /\ Present(m)
        /\ Continue(p, Request("row", m, media[m].slot, NoKey, media[m].key))
    /\ UNCHANGED <<media, objects, restored>>

RemoveRow(p) ==
    LET m == req[p].media
    IN  /\ At(p, "row") /\ Present(m)
        /\ media' = [media EXCEPT ![m] = NoRow]
        /\ restored' = restored \ {m}
        /\ Proceed(p, "object")
        /\ UNCHANGED objects

\* The key is the one that was read, before the row was deleted.
RemoveObject(p) ==
    /\ At(p, "object")
    /\ DeleteObject(req[p].old)
    /\ Continue(p, Idle)
    /\ UNCHANGED <<media, restored>>

RemoveObjectFails(p) ==
    /\ At(p, "object")
    /\ Proceed(p, "restore")
    /\ UNCHANGED <<media, objects, restored>>

\* Mutant: the object key is not among the restored fields.
RestoreDataWithoutKey(r) == Row(r.slot, NoKey)

RestoreData(r) == Row(r.slot, r.old)

RemoveRestore(p) ==
    LET m == req[p].media
    IN  /\ At(p, "restore") /\ ~Present(m)
        /\ SlotFree(req[p].slot, m)
        /\ media' = [media EXCEPT ![m] = RestoreData(req[p])]
        /\ restored' = restored \cup {m}
        /\ Continue(p, Idle)
        /\ UNCHANGED objects

-----------------------------------------------------------------------------
Init ==
    /\ media = [m \in MediaIds |-> NoRow]
    /\ objects = {}
    /\ restored = {}
    /\ req = [p \in Requests |-> Idle]

Step(p) ==
    \/ UploadFind(p) \/ UploadCount(p) \/ UploadPut(p)
    \/ UploadReplace(p) \/ UploadCreate(p) \/ UploadSaveFails(p)
    \/ UploadCompensate(p) \/ UploadClean(p)
    \/ UpdateRead(p) \/ UpdateOccupied(p) \/ UpdateWrite(p)
    \/ RemoveRead(p) \/ RemoveRow(p) \/ RemoveObject(p)
    \/ RemoveObjectFails(p) \/ RemoveRestore(p)
    \/ Abort(p)

Next == \E p \in Requests : Step(p)

Spec == Init /\ [][Next]_vars

-----------------------------------------------------------------------------
MediaRequest ==
    [op    : {"idle", "count", "put", "save", "compensate", "clean", "occupied", "move",
              "row", "object", "restore"},
     media : MediaIds \cup {NoMedia},
     slot  : 0 .. SlotCount,
     key   : Keys \cup {NoKey},
     old   : Keys \cup {NoKey}]

\* A stored row has a slot and an object key.
MediaTypeOK ==
    /\ media \in [MediaIds -> {NoRow} \cup [slot : Slots, key : Keys]]
    /\ objects \subseteq Keys
    /\ restored \subseteq {m \in MediaIds : Present(m)}
    /\ req \in [Requests -> MediaRequest]

\* Whatever replacements, removals and failures overlap, a row names a file
\* that GridFS has: the file goes only after no row names it.  The one
\* exception is a row that a failed removal created again from what it had
\* read, since the file may have been replaced meanwhile.
RowsHaveFiles ==
    \A m \in MediaIds : Present(m) /\ m \notin restored => media[m].key \in objects

\* Concurrent uploads, moves and restorations leave a slot with one card and
\* the couple within its limit, although each looked at the slots before.
OneCardPerSlot ==
    /\ \A s \in Slots : Cardinality(InSlot(s)) <= 1
    /\ Cardinality({m \in MediaIds : Present(m)}) <= SlotCount
=============================================================================
