-------------------------- MODULE WeddingMediaProofs --------------------------
(***************************************************************************)
(* A row of the wedding media names a file that exists, and a slot has one *)
(* card, proved for any number of cards, keys, slots and requests.         *)
(***************************************************************************)
EXTENDS WeddingMedia, FiniteSetTheorems, TLAPS

\* The rows that no failed removal created again.
Original == {m \in MediaIds : Present(m) /\ m \notin restored}

\* What a request has looked up when it comes to each step.
Knows(p) ==
    /\ req[p].op \in {"count", "put", "save", "occupied", "move", "row", "object", "restore"}
        => req[p].slot \in Slots
    /\ req[p].op \in {"save", "compensate"} => req[p].key \in Keys
    /\ req[p].op \in {"occupied", "move", "row", "object", "restore"} => req[p].media \in MediaIds
    /\ req[p].op \in {"row", "object", "restore"} => req[p].old \in Keys

\* Until its row is written the key of a new file is known to its request only,
\* and the file is there.
NewKey(p) ==
    /\ req[p].op \in {"save", "compensate"} =>
        /\ \A m \in MediaIds : media[m].key # req[p].key
        /\ \A q \in Requests : req[q].old # req[p].key /\ (q # p => req[q].key # req[p].key)
    /\ At(p, "save") => req[p].key \in objects

\* The key of an old file is named by no other row than the one where it was
\* read, and by none when the file is to go.
OldKey(p) ==
    \A m \in Original : media[m].key = req[p].old =>
        m = req[p].media /\ req[p].op \notin {"clean", "object", "restore"}

\* No row shares the file of an original one.
OwnFiles == \A m \in MediaIds, n \in Original : media[m].key = media[n].key => m = n

OneRowPerSlot ==
    \A m, n \in MediaIds : Present(m) /\ Present(n) /\ media[m].slot = media[n].slot => m = n

\* The inductive invariant.
IInv ==
    /\ MediaTypeOK
    /\ \A p \in Requests : Knows(p) /\ NewKey(p) /\ OldKey(p)
    /\ OwnFiles
    /\ RowsHaveFiles
    /\ OneRowPerSlot

Ready(p) == Knows(p) /\ NewKey(p) /\ OldKey(p)

LEMMA IInvParts ==
    ASSUME IInv
    PROVE  /\ media \in [MediaIds -> {NoRow} \cup [slot : Slots, key : Keys]]
           /\ objects \subseteq Keys
           /\ restored \subseteq {m \in MediaIds : Present(m)}
           /\ req \in [Requests -> MediaRequest]
           /\ \A p \in Requests : Ready(p)
           /\ OwnFiles /\ RowsHaveFiles /\ OneRowPerSlot
BY DEF IInv, MediaTypeOK, Ready

\* An absent row has neither a slot nor a key.
LEMMA RowShape ==
    ASSUME MediaTypeOK, NEW m \in MediaIds
    PROVE  /\ Present(m) => media[m].slot \in Slots /\ media[m].key \in Keys
           /\ ~Present(m) => media[m].slot = 0 /\ media[m].key = NoKey
           /\ 0 \notin Slots
BY MediaBoundsAssumption DEF MediaTypeOK, Present, NoRow, Row, Slots

-----------------------------------------------------------------------------
(* Steps that write nothing, or remove a file                              *)

\* What a request that goes on with r must have, when it writes no row: it has
\* no new file, or had it before, and the old file is named by the row that it
\* has read.
Looks(p, r) ==
    /\ r \in MediaRequest
    /\ r.op # "save"
    /\ r.op = "compensate" => req[p].op = "save" /\ r.key = req[p].key
    /\ r.key \in {NoKey, req[p].key}
    /\ \/ r.old = NoKey
       \/ /\ r.old = req[p].old /\ r.media = req[p].media
          /\ r.op \in {"clean", "object", "restore"} =>
                req[p].op \in {"clean", "object", "restore"}
       \/ /\ r.media \in MediaIds /\ r.old = media[r.media].key
          /\ r.op \notin {"clean", "object", "restore"}
    /\ r.op \in {"count", "put", "occupied", "move", "row", "object", "restore"} => r.slot \in Slots
    /\ r.op \in {"occupied", "move", "row", "object", "restore"} => r.media \in MediaIds
    /\ r.op \in {"row", "object", "restore"} => r.old \in Keys

\* Such a step keeps the invariant, also when it removes a file that no
\* original row names and that no other request is to install.
LEMMA LookKeeps ==
    ASSUME IInv, NEW p \in Requests, NEW r, req' = [req EXCEPT ![p] = r], Looks(p, r),
           UNCHANGED <<media, restored>>,
           NEW K, objects' = objects \ K,
           \A m \in Original : media[m].key \notin K,
           \A q \in Requests \ {p} : At(q, "save") => req[q].key \notin K
    PROVE  IInv'
<1>1. /\ MediaTypeOK /\ req \in [Requests -> MediaRequest]
      /\ \A q \in Requests : Ready(q)
      /\ OwnFiles /\ RowsHaveFiles /\ OneRowPerSlot
  BY IInvParts DEF IInv
<1>2. /\ req' \in [Requests -> MediaRequest]
      /\ req'[p] = r /\ \A q \in Requests : q # p => req'[q] = req[q]
  BY <1>1 DEF Looks
<1>3. media' = media /\ Original' = Original
  BY DEF Original, Present
<1>4. MediaTypeOK'
  BY <1>1, <1>2 DEF MediaTypeOK, Present
<1>5. OwnFiles' /\ OneRowPerSlot'
  BY <1>1, <1>3 DEF OwnFiles, OneRowPerSlot, Present
<1>6. RowsHaveFiles'
  BY <1>1, <1>3 DEF RowsHaveFiles, Original, Present
<1>7. ASSUME NEW q \in Requests
      PROVE  Knows(q)' /\ OldKey(q)'
  <2>1. CASE q # p
    BY <1>1, <1>2, <1>3, <2>1 DEF Ready, Knows, OldKey
  <2>2. CASE q = p
    <3>1. Knows(q)'
      BY <1>1, <1>2, <2>2 DEF Looks, Knows, Ready
    <3>2. ASSUME NEW m \in Original, media[m].key = r.old
          PROVE  m = r.media /\ r.op \notin {"clean", "object", "restore"}
      <4>1. m \in MediaIds /\ media[m].key # NoKey
        BY <1>1, RowShape, MediaBoundsAssumption DEF Original
      <4>2. CASE /\ r.old = req[p].old /\ r.media = req[p].media
                 /\ r.op \in {"clean", "object", "restore"} =>
                       req[p].op \in {"clean", "object", "restore"}
        <5>1. OldKey(p)
          BY <1>1 DEF Ready
        <5>2. QED
          BY <3>2, <4>2, <5>1 DEF OldKey
      <4>3. CASE /\ r.media \in MediaIds /\ r.old = media[r.media].key
                 /\ r.op \notin {"clean", "object", "restore"}
        BY <1>1, <3>2, <4>3 DEF OwnFiles
      <4>4. QED
        BY <3>2, <4>1, <4>2, <4>3 DEF Looks
    <3>3. OldKey(q)'
      BY <1>2, <1>3, <2>2, <3>2 DEF OldKey
    <3>4. QED
      BY <3>1, <3>3
  <2>3. QED
    BY <2>1, <2>2
<1>8. ASSUME NEW q \in Requests
      PROVE  NewKey(q)'
  <2>1. SUFFICES ASSUME req'[q].op \in {"save", "compensate"}
                 PROVE  /\ \A m \in MediaIds : media[m].key # req'[q].key
                        /\ \A t \in Requests : req'[t].old # req'[q].key
                                               /\ (t # q => req'[t].key # req'[q].key)
                        /\ req'[q].op = "save" => req'[q].key \in objects'
    BY <1>3 DEF NewKey, At
  <2>2. /\ req[q].op \in {"save", "compensate"} /\ req'[q].key = req[q].key
        /\ req'[q].op = "save" => req[q].op = "save" /\ q # p
    BY <1>2, <2>1 DEF Looks
  <2>3. /\ \A m \in MediaIds : media[m].key # req[q].key
        /\ \A t \in Requests : req[t].old # req[q].key /\ (t # q => req[t].key # req[q].key)
        /\ req[q].key \in Keys
        /\ At(q, "save") => req[q].key \in objects
    BY <1>1, <2>2 DEF Ready, NewKey, Knows
  <2>4. ASSUME NEW t \in Requests
        PROVE  req'[t].old # req[q].key /\ (t # q => req'[t].key # req[q].key)
    <3>1. CASE t # p
      BY <1>2, <2>3, <3>1
    <3>2. CASE t = p
      BY <1>2, <2>3, <3>2, MediaBoundsAssumption DEF Looks
    <3>3. QED
      BY <3>1, <3>2
  <2>5. QED
    BY <2>2, <2>3, <2>4 DEF At
<1>9. QED
  BY <1>4, <1>5, <1>6, <1>7, <1>8 DEF IInv

LEMMA QuietKeeps ==
    ASSUME IInv, NEW p \in Requests, NEW r, req' = [req EXCEPT ![p] = r], Looks(p, r),
           UNCHANGED <<media, objects, restored>>
    PROVE  IInv'
<1> DEFINE K == {}
<1>1. /\ objects' = objects \ K
      /\ \A m \in Original : media[m].key \notin K
      /\ \A q \in Requests \ {p} : At(q, "save") => req[q].key \notin K
  OBVIOUS
<1> HIDE DEF K
<1>2. QED
  BY <1>1, LookKeeps

LEMMA ReadsKeep ==
    ASSUME IInv, NEW p \in Requests,
           \/ UploadFind(p) \/ UploadCount(p) \/ UploadSaveFails(p)
           \/ UpdateRead(p) \/ UpdateOccupied(p)
           \/ RemoveRead(p) \/ RemoveObjectFails(p) \/ Abort(p)
    PROVE  IInv'
<1>1. MediaTypeOK /\ req[p] \in MediaRequest /\ Ready(p) /\ UNCHANGED <<media, objects, restored>>
  BY IInvParts DEF IInv, UploadFind, UploadCount, UploadSaveFails, UpdateRead, UpdateOccupied,
                   RemoveRead, RemoveObjectFails, Abort
<1>2. Knows(p)
  BY <1>1 DEF Ready
<1>3. CASE UploadFind(p)
  <2>1. PICK s \in Slots :
            \/ \E m \in InSlot(s) : Continue(p, Request("put", m, s, NoKey, media[m].key))
            \/ Continue(p, Request("count", NoMedia, s, NoKey, NoKey))
    BY <1>3 DEF UploadFind
  <2>2. s \in 0 .. SlotCount
    BY MediaBoundsAssumption DEF Slots
  <2>3. CASE Continue(p, Request("count", NoMedia, s, NoKey, NoKey))
    <3>1. Looks(p, Request("count", NoMedia, s, NoKey, NoKey))
      BY <2>2 DEF Looks, Request, MediaRequest
    <3>2. QED
      BY <1>1, <2>3, <3>1, QuietKeeps DEF Continue
  <2>4. CASE \E m \in InSlot(s) : Continue(p, Request("put", m, s, NoKey, media[m].key))
    <3>1. PICK m \in InSlot(s) : Continue(p, Request("put", m, s, NoKey, media[m].key))
      BY <2>4
    <3>2. m \in MediaIds /\ media[m].key \in Keys \cup {NoKey}
      BY <1>1, RowShape DEF InSlot
    <3>3. Looks(p, Request("put", m, s, NoKey, media[m].key))
      BY <2>2, <3>2 DEF Looks, Request, MediaRequest
    <3>4. QED
      BY <1>1, <3>1, <3>3, QuietKeeps DEF Continue
  <2>5. QED
    BY <2>1, <2>3, <2>4
<1>4. CASE UpdateRead(p)
  <2>1. PICK m \in MediaIds, s \in Slots :
            Continue(p, Request(IF s = media[m].slot THEN "move" ELSE "occupied",
                                m, s, NoKey, NoKey))
    BY <1>4 DEF UpdateRead
  <2>2. s \in 0 .. SlotCount
    BY MediaBoundsAssumption DEF Slots
  <2>3. Looks(p, Request(IF s = media[m].slot THEN "move" ELSE "occupied", m, s, NoKey, NoKey))
    BY <2>2 DEF Looks, Request, MediaRequest
  <2>4. QED
    BY <1>1, <2>1, <2>3, QuietKeeps DEF Continue
<1>5. CASE RemoveRead(p)
  <2>1. PICK m \in MediaIds :
            /\ Present(m)
            /\ Continue(p, Request("row", m, media[m].slot, NoKey, media[m].key))
    BY <1>5 DEF RemoveRead
  <2>2. media[m].slot \in Slots /\ media[m].slot \in 0 .. SlotCount /\ media[m].key \in Keys
    BY <1>1, <2>1, RowShape, MediaBoundsAssumption DEF Slots
  <2>3. Looks(p, Request("row", m, media[m].slot, NoKey, media[m].key))
    BY <2>2 DEF Looks, Request, MediaRequest
  <2>4. QED
    BY <1>1, <2>1, <2>3, QuietKeeps DEF Continue
<1>6. CASE Abort(p)
  <2>1. Looks(p, Idle)
    BY MediaBoundsAssumption DEF Looks, Idle, Request, MediaRequest
  <2>2. QED
    BY <1>1, <1>6, <2>1, QuietKeeps DEF Abort, Continue
<1>7. ASSUME NEW step, Proceed(p, step),
             \/ At(p, "count") /\ step = "put"
             \/ At(p, "save") /\ step = "compensate"
             \/ At(p, "occupied") /\ step = "move"
             \/ At(p, "object") /\ step = "restore"
      PROVE  IInv'
  <2>1. Looks(p, [req[p] EXCEPT !.op = step])
    BY <1>1, <1>2, <1>7 DEF Looks, MediaRequest, Knows, At
  <2>2. req' = [req EXCEPT ![p] = [req[p] EXCEPT !.op = step]]
    BY <1>7 DEF Proceed
  <2>3. QED
    BY <1>1, <2>1, <2>2, QuietKeeps
<1>8. QED
  BY <1>3, <1>4, <1>5, <1>6, <1>7
     DEF UploadCount, UploadSaveFails, UpdateOccupied, RemoveObjectFails

\* A file that is removed at the end of a request is named by no original row.
LEMMA DeletionsKeep ==
    ASSUME IInv, NEW p \in Requests, UploadCompensate(p) \/ UploadClean(p) \/ RemoveObject(p)
    PROVE  IInv'
<1>1. Ready(p) /\ \A q \in Requests : Ready(q)
  BY IInvParts
<1>2. Looks(p, Idle)
  BY MediaBoundsAssumption DEF Looks, Idle, Request, MediaRequest
<1>3. req' = [req EXCEPT ![p] = Idle] /\ UNCHANGED <<media, restored>>
  BY DEF UploadCompensate, UploadClean, RemoveObject, Continue
<1>4. PICK k \in {req[p].key, req[p].old} :
        /\ objects' = objects \ {k}
        /\ \/ k = req[p].key /\ At(p, "compensate")
           \/ k = req[p].old /\ req[p].op \in {"clean", "object"}
  BY DEF UploadCompensate, UploadClean, RemoveObject, DeleteObject, At
<1>5. \A m \in Original : media[m].key \notin {k}
  BY <1>1, <1>4 DEF Original, Ready, NewKey, OldKey, At
<1>6. \A q \in Requests \ {p} : At(q, "save") => req[q].key \notin {k}
  BY <1>1, <1>4 DEF Ready, NewKey, At
<1>7. QED
  BY <1>2, <1>3, <1>4, <1>5, <1>6, LookKeeps

-----------------------------------------------------------------------------
(* Steps that store a file or write a row                                  *)

LEMMA UploadPutKeeps ==
    ASSUME IInv, NEW p \in Requests, UploadPut(p)
    PROVE  IInv'
<1>1. /\ MediaTypeOK /\ req \in [Requests -> MediaRequest]
      /\ \A q \in Requests : Ready(q)
      /\ OwnFiles /\ RowsHaveFiles /\ OneRowPerSlot
  BY IInvParts DEF IInv
<1>2. PICK k \in FreshKeys :
        /\ objects' = objects \cup {k}
        /\ req' = [req EXCEPT ![p].op = "save", ![p].key = k]
  BY DEF UploadPut
<1>3. UNCHANGED <<media, restored>> /\ At(p, "put")
  BY DEF UploadPut
<1>4. /\ k \in Keys
      /\ \A m \in MediaIds : media[m].key # k
      /\ \A q \in Requests : req[q].key # k /\ req[q].old # k
  BY DEF FreshKeys
<1>5. /\ req'[p] = [req[p] EXCEPT !.op = "save", !.key = k]
      /\ \A q \in Requests : q # p => req'[q] = req[q]
  BY <1>1, <1>2
<1>6. /\ req'[p] \in MediaRequest /\ req' \in [Requests -> MediaRequest]
      /\ req'[p].op = "save" /\ req'[p].key = k /\ req'[p].old = req[p].old
      /\ req'[p].media = req[p].media /\ req'[p].slot = req[p].slot
  BY <1>1, <1>2, <1>4, <1>5 DEF MediaRequest
<1>7. media' = media /\ Original' = Original
  BY <1>3 DEF Original, Present
<1>8. MediaTypeOK'
  BY <1>1, <1>2, <1>3, <1>4, <1>6 DEF MediaTypeOK, Present
<1>9. OwnFiles' /\ OneRowPerSlot' /\ RowsHaveFiles'
  BY <1>1, <1>2, <1>3, <1>7 DEF OwnFiles, OneRowPerSlot, RowsHaveFiles, Present
<1>10. ASSUME NEW q \in Requests
       PROVE  Knows(q)' /\ OldKey(q)'
  <2>1. CASE q # p
    BY <1>1, <1>5, <1>7, <2>1 DEF Ready, Knows, OldKey
  <2>2. CASE q = p
    <3>1. Knows(p) /\ OldKey(p)
      BY <1>1 DEF Ready
    <3>2. QED
      BY <1>3, <1>4, <1>6, <1>7, <2>2, <3>1 DEF Knows, OldKey, At
  <2>3. QED
    BY <2>1, <2>2
<1>11. ASSUME NEW q \in Requests
       PROVE  NewKey(q)'
  <2>1. CASE q # p
    <3>1. NewKey(q)
      BY <1>1 DEF Ready
    <3>2. \A t \in Requests : req'[t].old = req[t].old /\ (t # p => req'[t].key = req[t].key)
      BY <1>5, <1>6
    <3>3. req'[q] = req[q] /\ req[q].key # k
      BY <1>4, <1>5, <2>1
    <3>4. QED
      BY <1>2, <1>6, <1>7, <3>1, <3>2, <3>3 DEF NewKey, At
  <2>2. CASE q = p
    <3>1. \A t \in Requests : req'[t].old # k /\ (t # p => req'[t].key # k)
      BY <1>4, <1>5, <1>6
    <3>2. QED
      BY <1>2, <1>4, <1>6, <1>7, <2>2, <3>1 DEF NewKey, At
  <2>3. QED
    BY <2>1, <2>2
<1>12. QED
  BY <1>8, <1>9, <1>10, <1>11 DEF IInv

\* Row m becomes row by request p, which goes on as r.  An original row gets
\* its own key, or the new file of p; one that is created again has the old
\* key of p.
LEMMA RowKeeps ==
    ASSUME IInv, NEW p \in Requests, NEW m \in MediaIds,
           NEW row \in {NoRow} \cup [slot : Slots, key : Keys],
           media' = [media EXCEPT ![m] = row], objects' = objects,
           NEW r \in MediaRequest, req' = [req EXCEPT ![p] = r],
           row # NoRow => InSlot(row.slot) \subseteq {m},
           \/ row = NoRow /\ restored' = restored \ {m}
           \/ Present(m) /\ row.key = media[m].key /\ restored' = restored
           \/ At(p, "save") /\ row.key = req[p].key /\ restored' = restored \ {m}
           \/ At(p, "restore") /\ row.key = req[p].old /\ restored' = restored \cup {m},
           \/ r = Idle
           \/ /\ r.op \in {"clean", "object"} /\ r.old = req[p].old /\ r.media = req[p].media
              /\ r.media = m /\ r.key = req[p].key /\ r.slot = req[p].slot
              /\ row # NoRow => row.key # req[p].old
              /\ At(p, "row") \/ r.op = "clean"
    PROVE  IInv'
<1>1. /\ MediaTypeOK /\ req \in [Requests -> MediaRequest]
      /\ \A q \in Requests : Ready(q)
      /\ OwnFiles /\ RowsHaveFiles /\ OneRowPerSlot
  BY IInvParts DEF IInv
<1>2. /\ req' \in [Requests -> MediaRequest]
      /\ req'[p] = r /\ \A q \in Requests : q # p => req'[q] = req[q]
  BY <1>1
<1>3. /\ media' \in [MediaIds -> {NoRow} \cup [slot : Slots, key : Keys]]
      /\ media'[m] = row /\ \A n \in MediaIds : n # m => media'[n] = media[n]
  BY <1>1 DEF MediaTypeOK
<1>4. restored' \subseteq {n \in MediaIds : Present(n)'}
  <2>1. row = NoRow => row.key \notin Keys
    BY MediaBoundsAssumption DEF NoRow, Row
  <2>2. /\ Present(m) => media[m].key \in Keys
        /\ At(p, "save") => req[p].key \in Keys
        /\ At(p, "restore") => req[p].old \in Keys
    BY <1>1, RowShape DEF Ready, Knows, At
  <2>3. row # NoRow \/ (row = NoRow /\ restored' = restored \ {m})
    BY <2>1, <2>2
  <2>4. restored \subseteq {n \in MediaIds : Present(n)}
    BY <1>1 DEF MediaTypeOK
  <2>5. QED
    BY <1>3, <2>3, <2>4 DEF Present
<1>5. MediaTypeOK'
  BY <1>1, <1>2, <1>3, <1>4 DEF MediaTypeOK
<1>6. \A n \in MediaIds : n # m => (n \in Original' <=> n \in Original)
  BY <1>1, <1>3 DEF Original, Present
<1>7. m \in Original' => /\ row # NoRow
                         /\ \/ m \in Original /\ row.key = media[m].key
                            \/ At(p, "save") /\ row.key = req[p].key
  BY <1>3 DEF Original, Present
<1>8. OneRowPerSlot'
  BY <1>1, <1>3 DEF OneRowPerSlot, InSlot, Present
<1>9. ASSUME At(p, "save")
      PROVE  /\ \A n \in MediaIds : media[n].key # req[p].key
             /\ \A q \in Requests : req[q].old # req[p].key /\ (q # p => req[q].key # req[p].key)
             /\ req[p].key \in objects
  BY <1>1, <1>9 DEF Ready, NewKey, At
<1>10. RowsHaveFiles'
  BY <1>1, <1>3, <1>6, <1>7, <1>9 DEF RowsHaveFiles, Original, Present
<1>11. OwnFiles'
  <2>1. SUFFICES ASSUME NEW a \in MediaIds, NEW b \in Original', media'[a].key = media'[b].key,
                        a # b
                 PROVE  FALSE
    BY DEF OwnFiles
  <2>2. b \in MediaIds
    BY DEF Original
  <2>3. CASE b = m
    BY <1>1, <1>3, <1>7, <1>9, <2>1, <2>3 DEF OwnFiles
  <2>4. CASE b # m /\ a # m
    BY <1>1, <1>3, <1>6, <2>1, <2>2, <2>4 DEF OwnFiles
  <2>5. CASE b # m /\ a = m
    <3>1. b \in Original /\ media[b].key \in Keys /\ row.key = media[b].key
      BY <1>1, <1>3, <1>6, <2>1, <2>2, <2>5, RowShape DEF Original
    <3>2. CASE row = NoRow
      BY <3>1, <3>2, MediaBoundsAssumption DEF NoRow, Row
    <3>3. CASE row.key = media[m].key
      BY <1>1, <2>5, <3>1, <3>3 DEF OwnFiles
    <3>4. CASE At(p, "save") /\ row.key = req[p].key
      BY <1>9, <2>2, <3>1, <3>4
    <3>5. CASE At(p, "restore") /\ row.key = req[p].old
      BY <1>1, <3>1, <3>5 DEF Ready, OldKey, At
    <3>6. QED
      BY <3>2, <3>3, <3>4, <3>5
  <2>6. QED
    BY <2>3, <2>4, <2>5
<1>12. ASSUME NEW q \in Requests
       PROVE  Knows(q)'
  <2>1. Knows(q) /\ Knows(p)
    BY <1>1 DEF Ready
  <2>2. CASE q # p
    BY <1>2, <2>1, <2>2 DEF Knows
  <2>3. CASE q = p
    BY <1>2, <2>1, <2>3 DEF Knows, At, Idle, Request
  <2>4. QED
    BY <2>2, <2>3
<1>13. ASSUME NEW q \in Requests
       PROVE  OldKey(q)'
  <2>1. SUFFICES ASSUME NEW n \in Original', media'[n].key = req'[q].old
                 PROVE  n = req'[q].media /\ req'[q].op \notin {"clean", "object", "restore"}
    BY DEF OldKey
  <2>2. n \in MediaIds /\ media'[n].key \in Keys
    BY <1>5, <2>1, RowShape DEF Original, MediaTypeOK, Present, NoRow, Row
  <2>3. req'[q].old = req[q].old /\ req'[q].media = req[q].media
    BY <1>2, <2>1, <2>2, MediaBoundsAssumption DEF Idle, Request
  <2>4. OldKey(q) /\ NewKey(p)
    BY <1>1 DEF Ready
  <2>5. n \in Original /\ media[n].key = req[q].old
    BY <1>3, <1>6, <1>7, <1>9, <2>1, <2>2, <2>3
  <2>6. n = req[q].media /\ req[q].op \notin {"clean", "object", "restore"}
    BY <2>4, <2>5 DEF OldKey
  <2>7. q # p
    BY <1>2, <1>3, <1>7, <2>1, <2>2, <2>3, <2>6, MediaBoundsAssumption DEF Idle, Request
  <2>8. QED
    BY <1>2, <2>6, <2>7
<1>14. ASSUME NEW q \in Requests
       PROVE  NewKey(q)'
  <2>1. SUFFICES ASSUME req'[q].op \in {"save", "compensate"}
                 PROVE  /\ \A n \in MediaIds : media'[n].key # req'[q].key
                        /\ \A t \in Requests : req'[t].old # req'[q].key
                                               /\ (t # q => req'[t].key # req'[q].key)
                        /\ req'[q].op = "save" => req'[q].key \in objects
    BY DEF NewKey, At
  <2>2. q # p /\ req'[q] = req[q]
    BY <1>2, <2>1 DEF Idle, Request
  <2>3. /\ \A n \in MediaIds : media[n].key # req[q].key
        /\ \A t \in Requests : req[t].old # req[q].key /\ (t # q => req[t].key # req[q].key)
        /\ req[q].key \in Keys
        /\ At(q, "save") => req[q].key \in objects
    BY <1>1, <2>1, <2>2 DEF Ready, NewKey, Knows
  <2>4. row.key # req[q].key
    BY <2>2, <2>3, MediaBoundsAssumption DEF NoRow, Row
  <2>5. \A t \in Requests : req'[t].old # req[q].key /\ (t # q => req'[t].key # req[q].key)
    BY <1>2, <2>3, MediaBoundsAssumption DEF Idle, Request
  <2>6. QED
    BY <1>3, <2>2, <2>3, <2>4, <2>5 DEF At
<1>15. QED
  BY <1>5, <1>8, <1>10, <1>11, <1>12, <1>13, <1>14 DEF IInv

LEMMA RowWritesKeep ==
    ASSUME IInv, NEW p \in Requests,
           \/ UploadReplace(p) \/ UploadCreate(p) \/ UpdateWrite(p)
           \/ RemoveRow(p) \/ RemoveRestore(p)
    PROVE  IInv'
<1> DEFINE k == req[p].media
<1>1. /\ MediaTypeOK /\ req \in [Requests -> MediaRequest] /\ req[p] \in MediaRequest
      /\ Ready(p) /\ OneRowPerSlot
  BY IInvParts DEF IInv
<1>2. Knows(p) /\ NewKey(p)
  BY <1>1 DEF Ready
<1>3. Idle \in MediaRequest
  BY MediaBoundsAssumption DEF Idle, Request, MediaRequest
<1>4. CASE UploadReplace(p)
  <2> DEFINE row == [media[k] EXCEPT !.key = req[p].key]
             r == [req[p] EXCEPT !.op = "clean"]
  <2>1. /\ At(p, "save") /\ k # NoMedia /\ Present(k)
        /\ media' = [media EXCEPT ![k] = row] /\ objects' = objects
        /\ req' = [req EXCEPT ![p] = r] /\ restored' = restored \ {k}
    BY <1>4 DEF UploadReplace, Proceed
  <2>2. k \in MediaIds
    BY <1>1, <2>1 DEF MediaRequest
  <2>3. media[k] \in [slot : Slots, key : Keys] /\ req[p].key \in Keys
    BY <1>1, <1>2, <2>1, <2>2 DEF MediaTypeOK, Present, Knows, At
  <2>4. row \in [slot : Slots, key : Keys] /\ row.key = req[p].key /\ row.slot = media[k].slot
    BY <2>3
  <2>5. InSlot(row.slot) \subseteq {k}
    BY <1>1, <2>1, <2>2, <2>3, <2>4, RowShape DEF InSlot, OneRowPerSlot
  <2>6. /\ r \in MediaRequest /\ r.op = "clean" /\ r.old = req[p].old /\ r.media = k
        /\ r.key = req[p].key /\ r.slot = req[p].slot
    BY <1>1 DEF MediaRequest
  <2>7. row.key # req[p].old
    BY <1>2, <2>1, <2>4 DEF NewKey, At
  <2> HIDE DEF row, r
  <2>8. QED
    BY <2>1, <2>2, <2>4, <2>5, <2>6, <2>7, RowKeeps
<1>5. CASE UploadCreate(p)
  <2> DEFINE row == Row(req[p].slot, req[p].key)
  <2>1. PICK m \in FreshIds : media' = [media EXCEPT ![m] = row]
    BY <1>5 DEF UploadCreate
  <2>2. /\ InSlot(req[p].slot) \subseteq {NoMedia}
        /\ objects' = objects /\ restored' = restored
        /\ req' = [req EXCEPT ![p] = Idle]
    BY <1>5 DEF UploadCreate, SlotFree, Continue
  <2>3. At(p, "save")
    BY <1>5 DEF UploadCreate
  <2>4. m \in MediaIds /\ ~Present(m)
    BY <2>1 DEF FreshIds
  <2>5. /\ row \in [slot : Slots, key : Keys] /\ row.key = req[p].key
        /\ row.slot = req[p].slot
    BY <1>2, <2>3 DEF Knows, At, Row
  <2>6. InSlot(row.slot) \subseteq {m}
    BY <2>2, <2>5, MediaBoundsAssumption DEF InSlot
  <2>7. restored' = restored \ {m}
    BY <1>1, <2>2, <2>4 DEF MediaTypeOK
  <2> HIDE DEF row
  <2>8. QED
    BY <1>3, <2>1, <2>2, <2>3, <2>4, <2>5, <2>6, <2>7, RowKeeps
<1>6. CASE UpdateWrite(p)
  <2> DEFINE row == [media[k] EXCEPT !.slot = req[p].slot]
  <2>1. /\ At(p, "move") /\ Present(k) /\ InSlot(req[p].slot) \subseteq {k}
        /\ media' = [media EXCEPT ![k] = row] /\ objects' = objects
        /\ req' = [req EXCEPT ![p] = Idle] /\ restored' = restored
    BY <1>6 DEF UpdateWrite, SlotFree, Continue
  <2>2. k \in MediaIds /\ req[p].slot \in Slots
    BY <1>2, <2>1 DEF Knows, At
  <2>3. media[k] \in [slot : Slots, key : Keys]
    BY <1>1, <2>1, <2>2 DEF MediaTypeOK, Present
  <2>4. /\ row \in [slot : Slots, key : Keys] /\ row.key = media[k].key
        /\ row.slot = req[p].slot
    BY <2>2, <2>3
  <2> HIDE DEF row
  <2>5. QED
    BY <1>3, <2>1, <2>2, <2>4, RowKeeps
<1>7. CASE RemoveRow(p)
  <2> DEFINE r == [req[p] EXCEPT !.op = "object"]
  <2>1. /\ At(p, "row") /\ media' = [media EXCEPT ![k] = NoRow] /\ objects' = objects
        /\ req' = [req EXCEPT ![p] = r] /\ restored' = restored \ {k}
    BY <1>7 DEF RemoveRow, Proceed
  <2>2. k \in MediaIds
    BY <1>2, <2>1 DEF Knows, At
  <2>3. /\ r \in MediaRequest /\ r.op = "object" /\ r.old = req[p].old /\ r.media = k
        /\ r.key = req[p].key /\ r.slot = req[p].slot
    BY <1>1 DEF MediaRequest
  <2>4. PICK row \in {NoRow} \cup [slot : Slots, key : Keys] : row = NoRow
    OBVIOUS
  <2> HIDE DEF r
  <2>5. QED
    BY <2>1, <2>2, <2>3, <2>4, RowKeeps
<1>8. CASE RemoveRestore(p)
  <2> DEFINE row == Row(req[p].slot, req[p].old)
  <2>1. /\ At(p, "restore") /\ InSlot(req[p].slot) \subseteq {k}
        /\ media' = [media EXCEPT ![k] = row] /\ objects' = objects
        /\ req' = [req EXCEPT ![p] = Idle] /\ restored' = restored \cup {k}
    BY <1>8 DEF RemoveRestore, SlotFree, Continue, RestoreData
  <2>2. k \in MediaIds
    BY <1>2, <2>1 DEF Knows, At
  <2>3. /\ row \in [slot : Slots, key : Keys] /\ row.key = req[p].old
        /\ row.slot = req[p].slot
    BY <1>2, <2>1 DEF Knows, At, Row
  <2> HIDE DEF row
  <2>4. QED
    BY <1>3, <2>1, <2>2, <2>3, RowKeeps
<1>9. QED
  BY <1>4, <1>5, <1>6, <1>7, <1>8

-----------------------------------------------------------------------------
(* The theorems                                                            *)

LEMMA InitHolds ==
    ASSUME Init
    PROVE  IInv
<1>1. \A m \in MediaIds : ~Present(m)
  BY DEF Init, Present
<1>2. MediaTypeOK
  BY MediaBoundsAssumption
     DEF Init, MediaTypeOK, Idle, Request, MediaRequest
<1>3. \A p \in Requests : Ready(p)
  BY <1>1 DEF Init, Ready, Knows, NewKey, OldKey, Original, At, Idle, Request
<1>4. OwnFiles /\ RowsHaveFiles /\ OneRowPerSlot
  BY <1>1 DEF OwnFiles, Original, RowsHaveFiles, OneRowPerSlot
<1>5. QED
  BY <1>2, <1>3, <1>4 DEF IInv, Ready

LEMMA NextKeeps ==
    ASSUME IInv, [Next]_vars
    PROVE  IInv'
<1>1. CASE UNCHANGED vars
  <2>1. media' = media /\ objects' = objects /\ restored' = restored /\ req' = req
    BY <1>1 DEF vars
  <2>2. Original' = Original
    BY <2>1 DEF Original, Present
  <2>3. QED
    BY <2>1, <2>2 DEF IInv, MediaTypeOK, Knows, NewKey, OldKey, OwnFiles, RowsHaveFiles,
                      OneRowPerSlot, Present, At
<1>2. ASSUME NEW p \in Requests, Step(p)
      PROVE  IInv'
  BY <1>2, ReadsKeep, DeletionsKeep, UploadPutKeeps, RowWritesKeep DEF Step
<1>3. QED
  BY <1>1, <1>2 DEF Next

LEMMA AlwaysIInv == Spec => []IInv
<1>1. Init => IInv
  BY InitHolds
<1>2. IInv /\ [Next]_vars => IInv'
  BY NextKeeps
<1>3. QED
  BY <1>1, <1>2, PTL DEF Spec

\* As many cards as slots, when no slot has two.
LEMMA RowsCounted ==
    ASSUME MediaTypeOK, OneRowPerSlot
    PROVE  OneCardPerSlot
<1> DEFINE P == {m \in MediaIds : Present(m)}
           slotOf == [m \in P |-> media[m].slot]
<1>1. \A m \in P : media[m].slot \in Slots
  BY RowShape
<1>2. slotOf \in Injection(P, Slots)
  BY <1>1 DEF Injection, IsInjective, OneRowPerSlot
<1>3. IsFiniteSet(Slots) /\ Cardinality(Slots) = SlotCount
  BY FS_Interval, MediaBoundsAssumption DEF Slots
<1>4. Cardinality(P) <= SlotCount
  BY <1>2, <1>3, FS_Injection
<1>5. ASSUME NEW s \in Slots
      PROVE  Cardinality(InSlot(s)) <= 1
  <2>1. CASE InSlot(s) = {}
    BY <2>1, FS_EmptySet
  <2>2. CASE InSlot(s) # {}
    <3>1. PICK m : m \in InSlot(s)
      BY <2>2
    <3>2. InSlot(s) = {m}
      BY <1>5, <3>1, RowShape DEF InSlot, OneRowPerSlot
    <3>3. QED
      BY <3>2, FS_Singleton
  <2>3. QED
    BY <2>1, <2>2
<1>6. QED
  BY <1>4, <1>5 DEF OneCardPerSlot

\* Rows, files and requests stay in their types.
THEOREM MediaTypes == Spec => []MediaTypeOK
<1>1. IInv => MediaTypeOK
  BY DEF IInv
<1>2. QED
  BY AlwaysIInv, <1>1, PTL

\* A row that no failed removal created again names a file that exists,
\* whatever replacements, removals and failures overlap.
THEOREM FilesStay == Spec => []RowsHaveFiles
<1>1. IInv => RowsHaveFiles
  BY DEF IInv
<1>2. QED
  BY AlwaysIInv, <1>1, PTL

\* Every slot has one card at most, and the couple stays within its limit.
THEOREM SlotsStay == Spec => []OneCardPerSlot
<1>1. IInv => OneCardPerSlot
  BY RowsCounted DEF IInv
<1>2. QED
  BY AlwaysIInv, <1>1, PTL
=============================================================================
