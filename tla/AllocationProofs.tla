--------------------------- MODULE AllocationProofs ---------------------------
(***************************************************************************)
(* Theorems about what Wedding allocates: the pool and the quota, the      *)
(* coupons and the seats of each guest, and the entries that a replace     *)
(* must not wipe.  They build on the invariant of WeddingProofs and need   *)
(* more of it: what each handler has read, and that what each pending      *)
(* transaction asks for still fits the documents, whatever has been        *)
(* written since its snapshot by the transactions that it does not         *)
(* conflict with.                                                          *)
(***************************************************************************)
EXTENDS WeddingProofs, WellFoundedInduction

-----------------------------------------------------------------------------
(* Write sets, collection by collection.                                   *)

WriteSet(c, rows, g, s, i, e) ==
    [couple |-> c, coupons |-> rows, guests |-> g, seats |-> s,
     invitations |-> i, checkIns |-> e]

\* One collection of a write set is replaced.
LEMMA WriteSetExcept ==
    \A c, rows, g, s, i, e, x :
        /\ [WriteSet(c, rows, g, s, i, e) EXCEPT !.couple = x] = WriteSet(x, rows, g, s, i, e)
        /\ [WriteSet(c, rows, g, s, i, e) EXCEPT !.coupons = x] = WriteSet(c, x, g, s, i, e)
        /\ [WriteSet(c, rows, g, s, i, e) EXCEPT !.guests = x] = WriteSet(c, rows, x, s, i, e)
        /\ [WriteSet(c, rows, g, s, i, e) EXCEPT !.seats = x] = WriteSet(c, rows, g, x, i, e)
        /\ [WriteSet(c, rows, g, s, i, e) EXCEPT !.invitations = x]
              = WriteSet(c, rows, g, s, x, e)
        /\ [WriteSet(c, rows, g, s, i, e) EXCEPT !.checkIns = x]
              = WriteSet(c, rows, g, s, i, x)
BY DEF WriteSet

LEMMA WriteSetFields ==
    /\ \A c, rows, g, s, i, e :
        /\ WriteSet(c, rows, g, s, i, e).couple = c
        /\ WriteSet(c, rows, g, s, i, e).coupons = rows
        /\ WriteSet(c, rows, g, s, i, e).guests = g
        /\ WriteSet(c, rows, g, s, i, e).seats = s
        /\ WriteSet(c, rows, g, s, i, e).invitations = i
        /\ WriteSet(c, rows, g, s, i, e).checkIns = e
    /\ DOMAIN Nothing = {}
BY DEF WriteSet, Nothing

\* What the transactions write, starting from nothing: one lemma for each choice
\* of collections.
LEMMA NoWritesForm ==
    NoWrites = WriteSet(Nothing, Nothing, Nothing, Nothing, Nothing, Nothing)
BY DEF NoWrites, WriteSet

LEMMA RowsForm ==
    ASSUME NEW a
    PROVE  [NoWrites EXCEPT !.coupons = a]
             = WriteSet(Nothing, a, Nothing, Nothing, Nothing, Nothing)
BY NoWritesForm, WriteSetExcept

LEMMA GuestsForm ==
    ASSUME NEW a
    PROVE  [NoWrites EXCEPT !.guests = a]
             = WriteSet(Nothing, Nothing, a, Nothing, Nothing, Nothing)
BY NoWritesForm, WriteSetExcept

LEMMA InvitationsForm ==
    ASSUME NEW a
    PROVE  [NoWrites EXCEPT !.invitations = a]
             = WriteSet(Nothing, Nothing, Nothing, Nothing, a, Nothing)
BY NoWritesForm, WriteSetExcept

LEMMA PatchForm ==
    ASSUME NEW a, NEW b
    PROVE  [NoWrites EXCEPT !.couple = a, !.coupons = b]
             = WriteSet(a, b, Nothing, Nothing, Nothing, Nothing)
<1>1. [NoWrites EXCEPT !.couple = a]
        = WriteSet(a, Nothing, Nothing, Nothing, Nothing, Nothing)
  BY NoWritesForm, WriteSetExcept
<1>2. [WriteSet(a, Nothing, Nothing, Nothing, Nothing, Nothing) EXCEPT !.coupons = b]
        = WriteSet(a, b, Nothing, Nothing, Nothing, Nothing)
  BY WriteSetExcept
<1>3. QED
  BY <1>1, <1>2

LEMMA SeatForm ==
    ASSUME NEW a, NEW b
    PROVE  [NoWrites EXCEPT !.seats = a, !.guests = b]
             = WriteSet(Nothing, Nothing, b, a, Nothing, Nothing)
<1>1. [NoWrites EXCEPT !.seats = a]
        = WriteSet(Nothing, Nothing, Nothing, a, Nothing, Nothing)
  BY NoWritesForm, WriteSetExcept
<1>2. [WriteSet(Nothing, Nothing, Nothing, a, Nothing, Nothing) EXCEPT !.guests = b]
        = WriteSet(Nothing, Nothing, b, a, Nothing, Nothing)
  BY WriteSetExcept
<1>3. QED
  BY <1>1, <1>2

LEMMA SaveForm ==
    ASSUME NEW a, NEW b
    PROVE  [NoWrites EXCEPT !.guests = a, !.coupons = b]
             = WriteSet(Nothing, b, a, Nothing, Nothing, Nothing)
<1>1. [NoWrites EXCEPT !.guests = a]
        = WriteSet(Nothing, Nothing, a, Nothing, Nothing, Nothing)
  BY NoWritesForm, WriteSetExcept
<1>2. [WriteSet(Nothing, Nothing, a, Nothing, Nothing, Nothing) EXCEPT !.coupons = b]
        = WriteSet(Nothing, b, a, Nothing, Nothing, Nothing)
  BY WriteSetExcept
<1>3. QED
  BY <1>1, <1>2

LEMMA AdmitForm ==
    ASSUME NEW a, NEW b, NEW c
    PROVE  [NoWrites EXCEPT !.checkIns = a, !.invitations = b, !.coupons = c]
             = WriteSet(Nothing, c, Nothing, Nothing, b, a)
<1>1. [NoWrites EXCEPT !.checkIns = a]
        = WriteSet(Nothing, Nothing, Nothing, Nothing, Nothing, a)
  BY NoWritesForm, WriteSetExcept
<1>2. [WriteSet(Nothing, Nothing, Nothing, Nothing, Nothing, a) EXCEPT !.invitations = b]
        = WriteSet(Nothing, Nothing, Nothing, Nothing, b, a)
  BY WriteSetExcept
<1>3. [WriteSet(Nothing, Nothing, Nothing, Nothing, b, a) EXCEPT !.coupons = c]
        = WriteSet(Nothing, c, Nothing, Nothing, b, a)
  BY WriteSetExcept
<1>4. QED
  BY <1>1, <1>2, <1>3

LEMMA RemoveForm ==
    ASSUME NEW a, NEW b, NEW c, NEW d
    PROVE  [NoWrites EXCEPT !.seats = a, !.coupons = b, !.guests = c, !.invitations = d]
             = WriteSet(Nothing, b, c, a, d, Nothing)
<1>1. [NoWrites EXCEPT !.seats = a]
        = WriteSet(Nothing, Nothing, Nothing, a, Nothing, Nothing)
  BY NoWritesForm, WriteSetExcept
<1>2. [WriteSet(Nothing, Nothing, Nothing, a, Nothing, Nothing) EXCEPT !.coupons = b]
        = WriteSet(Nothing, b, Nothing, a, Nothing, Nothing)
  BY WriteSetExcept
<1>3. [WriteSet(Nothing, b, Nothing, a, Nothing, Nothing) EXCEPT !.guests = c]
        = WriteSet(Nothing, b, c, a, Nothing, Nothing)
  BY WriteSetExcept
<1>4. [WriteSet(Nothing, b, c, a, Nothing, Nothing) EXCEPT !.invitations = d]
        = WriteSet(Nothing, b, c, a, d, Nothing)
  BY WriteSetExcept
<1>5. QED
  BY <1>1, <1>2, <1>3, <1>4

-----------------------------------------------------------------------------
(* The write sets of the transactions, service by service.                 *)

\* x, and then one guest created with its coupons.
Added(x, w) ==
    \E g \in Guests, row \in GuestRow : AddingAble(x, g, row) /\ w = Adding(x, g, row)

\* The pool, and the purge of a replace when nobody is in.
Opened(quota, x) ==
    \/ x = EnsuringPool(NoWrites, quota)
    \/ /\ x = Purging(EnsuringPool(NoWrites, quota))
       /\ \A g \in Guests : checkIns[g] = NoInvitation

Creating(quota, w) ==
    \E x : /\ Opened(quota, x)
           /\ \/ w = x
              \/ Added(x, w)
              \/ \E y : Added(x, y) /\ Added(y, w)

\* rows brings the coupons of g to count.
Settles(g, count, rows) ==
    \/ \E numbers \in SUBSET Numbers :
        /\ AssignNumbersAble(coupons, g, count, numbers)
        /\ rows = AssignNumbers(coupons, g, numbers)
    \/ SyncCountAble(coupons, g, count) /\ rows = SyncCount(coupons, g, count)

Saving(g, document, rows) ==
    [NoWrites EXCEPT !.guests = Put(g, document), !.coupons = rows]

Updating(r, w) ==
    LET g     == r.guest
        count == IF r.coupons = 0 THEN guests[g].coupons ELSE r.coupons
    IN  /\ Stored(g)
        /\ CountMayChange(g, r.coupons, r.seen)
        /\ \E rows :
            /\ \/ Settles(g, count, rows)
               \/ r.coupons = 0 /\ rows = Nothing
            /\ w = Saving(g, [guests[g] EXCEPT !.coupons = count], rows)

Removing(g, w) ==
    /\ Stored(g)
    /\ w = [NoWrites EXCEPT
             !.seats       = PutAll(SeatsOf(g), NoGuest),
             !.coupons     = Release(coupons, {g}),
             !.guests      = Put(g, [guests[g] EXCEPT !.phase = "deleted"]),
             !.invitations = RevokingActive(g)]

Moving(g, w) ==
    \E numbers \in SUBSET Numbers :
        /\ Stored(g)
        /\ AssignNumbersAble(coupons, g, guests[g].coupons, numbers)
        /\ w = [NoWrites EXCEPT !.coupons = AssignNumbers(coupons, g, numbers)]

Importing(w) ==
    \/ Added(NoWrites, w)
    \/ \E rows : \E g \in Guests, document \in GuestDocument :
        /\ w = Saving(g, document, rows)
        /\ rows = Nothing \/ \E count : Settles(g, count, rows)

Reconciling(quota, w) ==
    LET pool == EnsurePool(coupons, quota)
        c    == Install(coupons, pool)
    IN  \/ w = [NoWrites EXCEPT !.coupons = Then(pool, Nothing)]
        \/ \E given \in Fillings(c) :
            w = [NoWrites EXCEPT
                   !.coupons = Then(pool, Then([n \in DOMAIN given |-> Assigned(given[n])],
                                               PutAll(Excess(c), Available)))]

Patching(r, w) ==
    /\ ResizeAble(coupons, r.old, r.quota)
    /\ w = [NoWrites EXCEPT
             !.couple  = Put("guestQuota", r.quota),
             !.coupons = Resize(coupons, r.old, r.quota)]

Generating(r, w) ==
    \E i \in Invitations :
        /\ Unissued(i)
        /\ w = [NoWrites EXCEPT
                 !.invitations = Then(IF r.revokePrevious THEN RevokingActive(r.guest)
                                      ELSE Nothing,
                                      Put(i, NewInvitation(r.guest)))]

Admitting(g, i, w) ==
    /\ Insertable(g) /\ Stored(g) /\ Issued(i)
    /\ w = [NoWrites EXCEPT
             !.checkIns    = Put(g, i),
             !.invitations = Put(i, [invitations[i] EXCEPT !.used = TRUE]),
             !.coupons     = UseAll(coupons, g)]

Seated(w) ==
    \E G \in SUBSET Guests, t \in Tables :
        /\ \A g \in G : Live(g)
        /\ \E chosen \in Choices(G, t) : w = Seating(G, t, chosen)

Unseated(w) ==
    \E g \in Guests :
        /\ Live(g)
        /\ w = [NoWrites EXCEPT
                 !.seats  = PutAll(SeatsOf(g), NoGuest),
                 !.guests = Put(g, [guests[g] EXCEPT !.table = NoTable, !.mirror = {}])]

\* The body of the transaction of request r, at the step it is at.
Body(r, w) ==
    \/ r.op \in {"createTx", "bulkTx"} /\ Creating(r.quota, w)
    \/ r.op = "updateTx" /\ Updating(r, w)
    \/ r.op = "removeTx" /\ Removing(r.guest, w)
    \/ r.op = "manualTx" /\ Moving(r.guest, w)
    \/ r.op = "importTx" /\ Importing(w)
    \/ r.op = "reconcileTx" /\ Reconciling(r.quota, w)
    \/ r.op = "patchTx" /\ Patching(r, w)
    \/ r.op = "generateTx" /\ Generating(r, w)
    \/ r.op = "checkinTx" /\ Admitting(r.guest, r.invitation, w)
    \/ r.op = "idle" /\ Seated(w)
    \/ r.op = "idle" /\ Unseated(w)

-----------------------------------------------------------------------------
(* The steps of a request.                                                 *)

\* One request is in flight at a time.
Alone == \A p, q \in Requests : p = q

\* A request of an endpoint is in flight only where the endpoint is called.
Called(r) ==
    /\ r.op \in {"updateCouple", "updateCheck", "updateTx"} => "update" \in Ops
    /\ r.op = "manualTx" => "manual" \in Ops
    /\ r.op = "patchTx" => "patch" \in Ops
    /\ r.op \in {"importRead", "importTx"} => "import" \in Ops
    /\ r.op \in {"poolRead", "poolInsert"} /\ r.caller = "import" => "import" \in Ops

\* The quota that a request goes by, read from the couple.
QuotaSteps ==
    {"createCheck", "createTx", "bulkCheck", "bulkTx", "poolRead", "reconcileTx"}

\* What a request that was at r and writes nothing remembers next.
Reading(r, next) ==
    /\ Called(r) => Called(next)
    /\ next.op \in QuotaSteps =>
        \/ next.quota = couple.guestQuota
        \/ r.op \in QuotaSteps /\ next.quota = r.quota
    /\ next.op = "patchTx" => next.old = couple.guestQuota
    /\ next.op \in {"updateCouple", "updateCheck", "updateTx"} =>
        \/ Live(next.guest) /\ next.seen = guests[next.guest].coupons
        \/ /\ r.op \in {"updateCouple", "updateCheck"}
           /\ next.guest = r.guest /\ next.seen = r.seen
    /\ next.op \in {"removeTx", "manualTx"} => Live(next.guest)
    /\ next.op = "poolInsert" =>
        r.op = "poolRead" /\ next.missing = DOMAIN EnsurePool(coupons, r.quota)
    /\ next.op = "checkinRead" =>
        Resolvable(next.invitation) /\ next.guest = invitations[next.invitation].guest
    /\ next.op = "checkinTx" =>
        /\ r.op = "checkinRead"
        /\ next.guest = r.guest /\ next.invitation = r.invitation

\* ensurePool outside a transaction inserts one row.
Inserting(r, w, next) ==
    /\ r.op = "poolInsert"
    /\ \E n \in r.missing : coupons[n] = Absent
                            /\ w = [NoWrites EXCEPT !.coupons = Put(n, Available)]
    /\ next.op \in {"idle", "importRead", "poolInsert"}
    /\ next.op = "poolInsert" => next.missing \subseteq r.missing
    /\ Called(r) => Called(next)

\* An invitation is revoked or marked as expired.
Marking(w) ==
    \E i \in Invitations, document \in InvitationDocument :
        /\ Issued(i)
        /\ document.status \in {"REVOKED", "EXPIRED"}
        /\ w = [NoWrites EXCEPT !.invitations = Put(i, document)]

Writing(r, w, next) ==
    \/ r.op = "commit" /\ r.w = w /\ next = Idle
    \/ Inserting(r, w, next)
    \/ Marking(w) /\ next = Idle

\* A step of request p reads, or runs the body of its transaction, or writes.
Reads(p) == \E next \in Request :
                next.op # "commit" /\ Reading(req[p], next) /\ Continue(p, next)
Prepares(p) == \E w \in Writes : Body(req[p], w) /\ Transaction(p, w)
Installs(p) == \E w \in Writes, next \in Request :
                next.op # "commit" /\ Writing(req[p], w, next) /\ Write(p, w, next)

Stepped(p) == Reads(p) \/ Prepares(p) \/ Installs(p)

\* What a request remembers is typed, before and after a step.
LEMMA NextRequest ==
    ASSUME IInv', NEW p \in Requests, NEW next, TypeOK, Continue(p, next)
    PROVE  /\ next \in Request
           /\ next.op = "commit" => next.w \in Writes
<1>1. req' \in [Requests -> Request] /\ req \in [Requests -> Request]
  BY DEF IInv, TypeOK
<1>2. req'[p] = next
  BY <1>1 DEF Continue
<1>3. next \in Request
  BY <1>1, <1>2
<1>4. QED
  BY <1>3, GuestRequestShapes

\* A transaction prepares a typed write set.
LEMMA Prepared ==
    ASSUME IInv, IInv', NEW p \in Requests, NEW w, Body(req[p], w), Transaction(p, w)
    PROVE  Stepped(p)
<1>1. Committing(w).op = "commit" /\ Committing(w).w = w
  BY DEF Committing
<1>2. w \in Writes
  BY <1>1, NextRequest DEF Transaction, IInv
<1>3. QED
  BY <1>2 DEF Stepped, Prepares

\* create
LEMMA CreateStepped ==
    ASSUME IInv, IInv', NEW p \in Requests,
           CreateReadCouple(p) \/ CreateCheckQuota(p) \/ CreateTransaction(p)
    PROVE  Stepped(p)
<1>1. CASE CreateReadCouple(p)
  <2>1. PICK k \in Counts, numbers \in Asks :
            Continue(p, [op |-> "createCheck", quota |-> couple.guestQuota,
                         row |-> [coupons |-> k, numbers |-> numbers, table |-> NoTable]])
    BY <1>1 DEF CreateReadCouple
  <2> DEFINE next == [op |-> "createCheck", quota |-> couple.guestQuota,
                      row |-> [coupons |-> k, numbers |-> numbers, table |-> NoTable]]
  <2>2. next.op = "createCheck" /\ next.quota = couple.guestQuota /\ Continue(p, next)
    BY <2>1
  <2> HIDE DEF next
  <2>3. Reading(req[p], next)
    BY <2>2 DEF Reading, Called
  <2>4. QED
    BY <2>2, <2>3, NextRequest DEF Stepped, Reads, IInv
<1>2. CASE CreateCheckQuota(p)
  <2> DEFINE next == [req[p] EXCEPT !.op = "createTx"]
  <2>1. req[p].op = "createCheck" /\ req[p] \in Request
    BY <1>2 DEF CreateCheckQuota, At, IInv, TypeOK
  <2>2. req[p] \in [op : {"createCheck", "createTx"}, quota : Quotas, row : GuestRow]
    BY <2>1, GuestRequestShapes
  <2>3. next.op = "createTx" /\ next.quota = req[p].quota /\ Continue(p, next)
    BY <1>2, <2>2 DEF CreateCheckQuota
  <2> HIDE DEF next
  <2>4. Reading(req[p], next)
    BY <2>1, <2>3 DEF Reading, Called, QuotaSteps
  <2>5. QED
    BY <2>3, <2>4, NextRequest DEF Stepped, Reads, IInv
<1>3. CASE CreateTransaction(p)
  <2> DEFINE x == EnsuringPool(NoWrites, req[p].quota)
  <2>1. req[p].op = "createTx" /\ req[p] \in Request
    BY <1>3 DEF CreateTransaction, At, IInv, TypeOK
  <2>2. req[p] \in [op : {"createCheck", "createTx"}, quota : Quotas, row : GuestRow]
    BY <2>1, GuestRequestShapes
  <2>3. PICK g \in Guests : AddingAble(x, g, req[p].row)
                            /\ Transaction(p, Adding(x, g, req[p].row))
    BY <1>3 DEF CreateTransaction
  <2>4. Opened(req[p].quota, x) /\ req[p].row \in GuestRow
    BY <2>2 DEF Opened
  <2> HIDE DEF x
  <2>5. Creating(req[p].quota, Adding(x, g, req[p].row))
    BY <2>3, <2>4 DEF Creating, Added
  <2>6. QED
    BY <2>1, <2>3, <2>5, Prepared DEF Body
<1>4. QED
  BY <1>1, <1>2, <1>3

\* bulk
LEMMA BulkStepped ==
    ASSUME IInv, IInv', NEW p \in Requests,
           BulkReadCouple(p) \/ BulkCheckQuota(p) \/ BulkTransaction(p)
    PROVE  Stepped(p)
<1> DEFINE Shape == [op : {"bulkCheck", "bulkTx"}, quota : Quotas,
                     mode : {"append", "replace"}, rows : BulkRows]
<1>1. CASE BulkReadCouple(p)
  <2>1. PICK mode \in {"append", "replace"}, rows \in BulkRows :
            Continue(p, [op |-> "bulkCheck", quota |-> couple.guestQuota,
                         mode |-> mode, rows |-> rows])
    BY <1>1 DEF BulkReadCouple
  <2> DEFINE next == [op |-> "bulkCheck", quota |-> couple.guestQuota,
                      mode |-> mode, rows |-> rows]
  <2>2. next.op = "bulkCheck" /\ next.quota = couple.guestQuota /\ Continue(p, next)
    BY <2>1
  <2> HIDE DEF next
  <2>3. Reading(req[p], next)
    BY <2>2 DEF Reading, Called
  <2>4. QED
    BY <2>2, <2>3, NextRequest DEF Stepped, Reads, IInv
<1>2. CASE BulkCheckQuota(p)
  <2> DEFINE next == [req[p] EXCEPT !.op = "bulkTx"]
  <2>1. req[p].op = "bulkCheck" /\ req[p] \in Request
    BY <1>2 DEF BulkCheckQuota, At, IInv, TypeOK
  <2>2. req[p] \in Shape
    BY <2>1, GuestRequestShapes
  <2>3. next.op = "bulkTx" /\ next.quota = req[p].quota /\ Continue(p, next)
    BY <1>2, <2>2 DEF BulkCheckQuota
  <2> HIDE DEF next
  <2>4. Reading(req[p], next)
    BY <2>1, <2>3 DEF Reading, Called, QuotaSteps
  <2>5. QED
    BY <2>3, <2>4, NextRequest DEF Stepped, Reads, IInv
<1>3. CASE BulkTransaction(p)
  <2> DEFINE pool  == EnsuringPool(NoWrites, req[p].quota)
             start == IF req[p].mode = "replace" THEN Purging(pool) ELSE pool
             rows  == req[p].rows
  <2>1. req[p].op = "bulkTx" /\ req[p] \in Request
    BY <1>3 DEF BulkTransaction, At, IInv, TypeOK
  <2>2. req[p] \in Shape
    BY <2>1, GuestRequestShapes
  <2>3. \A n \in 1 .. Len(rows) : rows[n] \in GuestRow
    BY <2>2, BulkRowTypes
  <2>4. Opened(req[p].quota, start)
    BY <1>3 DEF Opened, BulkTransaction, ReplaceAble
  <2>5. \/ Transaction(p, start)
        \/ /\ Len(rows) = 1
           /\ \E g \in Guests :
                AddingAble(start, g, rows[1]) /\ Transaction(p, Adding(start, g, rows[1]))
        \/ /\ Len(rows) = 2
           /\ \E g, h \in Guests :
                /\ AddingAble(start, g, rows[1])
                /\ AddingAble(Adding(start, g, rows[1]), h, rows[2])
                /\ Transaction(p, Adding(Adding(start, g, rows[1]), h, rows[2]))
    BY <1>3 DEF BulkTransaction
  <2> HIDE DEF pool, start, rows
  <2>6. CASE Transaction(p, start)
    <3>1. Creating(req[p].quota, start)
      BY <2>4 DEF Creating
    <3>2. QED
      BY <2>1, <2>6, <3>1, Prepared DEF Body
  <2>7. CASE /\ Len(rows) = 1
             /\ \E g \in Guests :
                  AddingAble(start, g, rows[1]) /\ Transaction(p, Adding(start, g, rows[1]))
    <3>1. PICK g \in Guests :
            AddingAble(start, g, rows[1]) /\ Transaction(p, Adding(start, g, rows[1]))
      BY <2>7
    <3>2. Creating(req[p].quota, Adding(start, g, rows[1]))
      BY <2>3, <2>4, <2>7, <3>1 DEF Creating, Added
    <3>3. QED
      BY <2>1, <3>1, <3>2, Prepared DEF Body
  <2>8. CASE /\ Len(rows) = 2
             /\ \E g, h \in Guests :
                  /\ AddingAble(start, g, rows[1])
                  /\ AddingAble(Adding(start, g, rows[1]), h, rows[2])
                  /\ Transaction(p, Adding(Adding(start, g, rows[1]), h, rows[2]))
    <3>1. PICK g \in Guests, h \in Guests :
            /\ AddingAble(start, g, rows[1])
            /\ AddingAble(Adding(start, g, rows[1]), h, rows[2])
            /\ Transaction(p, Adding(Adding(start, g, rows[1]), h, rows[2]))
      BY <2>8
    <3> DEFINE y == Adding(start, g, rows[1])
               w == Adding(y, h, rows[2])
    <3>2. rows[1] \in GuestRow /\ rows[2] \in GuestRow
      BY <2>3, <2>8
    <3>3. Added(start, y) /\ Added(y, w) /\ Transaction(p, w)
      BY <3>1, <3>2 DEF Added
    <3> HIDE DEF y, w
    <3>4. Creating(req[p].quota, w)
      BY <2>4, <3>3 DEF Creating
    <3>5. QED
      BY <2>1, <3>3, <3>4, Prepared DEF Body
  <2>9. QED
    BY <2>5, <2>6, <2>7, <2>8
<1>4. QED
  BY <1>1, <1>2, <1>3

\* update
LEMMA UpdateStepped ==
    ASSUME IInv, IInv', NEW p \in Requests,
           UpdateReadGuest(p) \/ UpdateReadCouple(p) \/ UpdateCheckQuota(p)
             \/ UpdateTransaction(p)
    PROVE  Stepped(p)
<1> DEFINE Shape == [op : {"updateCouple", "updateCheck", "updateTx"}, guest : Guests,
                     coupons : 0 .. MaxCoupons, numbers : Asks,
                     seen : 0 .. MaxCoupons, quota : Quotas \cup {0}]
<1>1. ASSUME NEW next, next.op \in {"updateCouple", "updateCheck", "updateTx"},
             Called(req[p]) => "update" \in Ops, Continue(p, next),
             \/ Live(next.guest) /\ next.seen = guests[next.guest].coupons
             \/ /\ req[p].op \in {"updateCouple", "updateCheck"}
                /\ next.guest = req[p].guest /\ next.seen = req[p].seen
      PROVE  Stepped(p)
  <2>1. Reading(req[p], next)
    BY <1>1 DEF Reading, Called, QuotaSteps
  <2>2. QED
    BY <1>1, <2>1, NextRequest DEF Stepped, Reads, IInv
<1>2. CASE UpdateReadGuest(p)
  <2>1. PICK g \in Guests, k \in {0} \cup Counts, numbers \in Asks :
            /\ Live(g)
            /\ Continue(p, [op |-> IF k = 0 THEN "updateTx" ELSE "updateCouple",
                            guest |-> g, coupons |-> k, numbers |-> numbers,
                            seen |-> guests[g].coupons, quota |-> 0])
    BY <1>2 DEF UpdateReadGuest
  <2> DEFINE next == [op |-> IF k = 0 THEN "updateTx" ELSE "updateCouple",
                      guest |-> g, coupons |-> k, numbers |-> numbers,
                      seen |-> guests[g].coupons, quota |-> 0]
  <2>2. /\ next.op \in {"updateCouple", "updateCheck", "updateTx"} /\ Continue(p, next)
        /\ Live(next.guest) /\ next.seen = guests[next.guest].coupons
    BY <2>1
  <2>3. "update" \in Ops
    BY <1>2 DEF UpdateReadGuest, Arrives
  <2> HIDE DEF next
  <2>4. QED
    BY <1>1, <2>2, <2>3
<1>3. CASE UpdateReadCouple(p) \/ UpdateCheckQuota(p)
  <2>1. req[p].op \in {"updateCouple", "updateCheck"} /\ req[p] \in Request
    BY <1>3 DEF UpdateReadCouple, UpdateCheckQuota, At, IInv, TypeOK
  <2>2. req[p] \in Shape
    BY <2>1, GuestRequestShapes
  <2>3. Called(req[p]) => "update" \in Ops
    BY <2>1 DEF Called
  <2>4. CASE UpdateReadCouple(p)
    <3> DEFINE next == [req[p] EXCEPT !.op = "updateCheck", !.quota = couple.guestQuota]
    <3>1. /\ next.op = "updateCheck" /\ Continue(p, next)
          /\ next.guest = req[p].guest /\ next.seen = req[p].seen
      BY <2>2, <2>4 DEF UpdateReadCouple
    <3> HIDE DEF next
    <3>2. QED
      BY <1>1, <2>1, <2>3, <3>1
  <2>5. CASE UpdateCheckQuota(p)
    <3> DEFINE next == [req[p] EXCEPT !.op = "updateTx"]
    <3>1. /\ next.op = "updateTx" /\ Continue(p, next)
          /\ next.guest = req[p].guest /\ next.seen = req[p].seen
      BY <2>2, <2>5 DEF UpdateCheckQuota
    <3> HIDE DEF next
    <3>2. QED
      BY <1>1, <2>1, <2>3, <3>1
  <2>6. QED
    BY <1>3, <2>4, <2>5
<1>4. CASE UpdateTransaction(p)
  <2> DEFINE g == req[p].guest
             count == IF req[p].coupons = 0 THEN guests[g].coupons ELSE req[p].coupons
             document == [guests[g] EXCEPT !.coupons = count]
  <2>1. req[p].op = "updateTx" /\ req[p] \in Request
    BY <1>4 DEF UpdateTransaction, At, IInv, TypeOK
  <2>2. req[p] \in Shape
    BY <2>1, GuestRequestShapes
  <2>3. req[p].numbers \in SUBSET Numbers
    BY <2>2, BoundsAssumption
  <2>4. PICK rows :
            /\ Transaction(p, Saving(g, document, rows))
            /\ \/ /\ AssignNumbersAble(coupons, g, count, req[p].numbers)
                  /\ rows = AssignNumbers(coupons, g, req[p].numbers)
               \/ SyncCountAble(coupons, g, count) /\ rows = SyncCount(coupons, g, count)
               \/ req[p].coupons = 0 /\ rows = Nothing
    BY <1>4 DEF UpdateTransaction, Saving
  <2>5. Stored(g) /\ CountMayChange(g, req[p].coupons, req[p].seen)
    BY <1>4 DEF UpdateTransaction
  <2>6. \/ Settles(g, count, rows)
        \/ req[p].coupons = 0 /\ rows = Nothing
    <3> HIDE DEF g, count
    <3>1. QED
      BY <2>3, <2>4 DEF Settles
  <2>7. Updating(req[p], Saving(g, document, rows))
    BY <2>5, <2>6 DEF Updating
  <2> HIDE DEF g, document
  <2>8. QED
    BY <2>1, <2>4, <2>7, Prepared DEF Body
<1>5. QED
  BY <1>2, <1>3, <1>4

\* remove and manuallyAssign
LEMMA RemoveManualStepped ==
    ASSUME IInv, IInv', NEW p \in Requests,
           \/ RemoveReadGuest(p) \/ RemoveTransaction(p)
           \/ ManualReadGuest(p) \/ ManualTransaction(p)
    PROVE  Stepped(p)
<1>1. CASE RemoveReadGuest(p)
  <2>1. PICK g \in Guests : Live(g) /\ Continue(p, [op |-> "removeTx", guest |-> g])
    BY <1>1 DEF RemoveReadGuest
  <2>2. Reading(req[p], [op |-> "removeTx", guest |-> g])
    BY <2>1 DEF Reading, Called, QuotaSteps
  <2>3. QED
    BY <2>1, <2>2, NextRequest DEF Stepped, Reads, IInv
<1>2. CASE RemoveTransaction(p)
  <2>1. req[p].op = "removeTx"
    BY <1>2 DEF RemoveTransaction, At
  <2>2. PICK w : Removing(req[p].guest, w) /\ Transaction(p, w)
    BY <1>2 DEF RemoveTransaction, Removing
  <2>3. QED
    BY <2>1, <2>2, Prepared DEF Body
<1>3. CASE ManualReadGuest(p)
  <2>1. PICK g \in Guests, numbers \in Asks \ {{}} :
            Live(g) /\ Continue(p, [op |-> "manualTx", guest |-> g, numbers |-> numbers])
    BY <1>3 DEF ManualReadGuest
  <2>2. "manual" \in Ops
    BY <1>3 DEF ManualReadGuest, Arrives
  <2>3. Reading(req[p], [op |-> "manualTx", guest |-> g, numbers |-> numbers])
    BY <2>1, <2>2 DEF Reading, Called, QuotaSteps
  <2>4. QED
    BY <2>1, <2>3, NextRequest DEF Stepped, Reads, IInv
<1>4. CASE ManualTransaction(p)
  <2>1. req[p].op = "manualTx" /\ req[p] \in Request
    BY <1>4 DEF ManualTransaction, At, IInv, TypeOK
  <2>2. req[p].numbers \in SUBSET Numbers
    BY <2>1, CouponRequestShapes, BoundsAssumption
  <2>3. PICK w : Moving(req[p].guest, w) /\ Transaction(p, w)
    BY <1>4, <2>2 DEF ManualTransaction, Moving
  <2>4. QED
    BY <2>1, <2>3, Prepared DEF Body
<1>5. QED
  BY <1>1, <1>2, <1>3, <1>4

\* ensurePool outside a transaction
LEMMA PoolStepped ==
    ASSUME IInv, IInv', NEW p \in Requests,
           SummaryReadCouple(p) \/ ImportReadCouple(p) \/ PoolRead(p) \/ PoolInsert(p)
    PROVE  Stepped(p)
<1>1. CASE SummaryReadCouple(p) \/ ImportReadCouple(p)
  <2>1. PICK caller \in {"summary", "import"} :
            /\ Continue(p, [op |-> "poolRead", quota |-> couple.guestQuota, caller |-> caller])
            /\ caller = "import" => "import" \in Ops
    BY <1>1 DEF SummaryReadCouple, ImportReadCouple, Arrives
  <2>2. Reading(req[p], [op |-> "poolRead", quota |-> couple.guestQuota, caller |-> caller])
    BY <2>1 DEF Reading, Called, QuotaSteps
  <2>3. QED
    BY <2>1, <2>2, NextRequest DEF Stepped, Reads, IInv
<1>2. CASE PoolRead(p)
  <2> DEFINE missing == DOMAIN EnsurePool(coupons, req[p].quota)
             next == IF missing = {} THEN AfterPool(req[p].caller)
                     ELSE [op |-> "poolInsert", missing |-> missing, caller |-> req[p].caller]
  <2>1. req[p].op = "poolRead" /\ req[p] \in Request
    BY <1>2 DEF PoolRead, At, IInv, TypeOK
  <2>2. req[p] \in [op : {"poolRead"}, quota : Quotas, caller : {"summary", "import"}]
    BY <2>1, CouponRequestShapes
  <2>3. Continue(p, next)
    BY <1>2 DEF PoolRead
  <2>4. \/ next.op = "idle"
        \/ next.op = "importRead" /\ req[p].caller = "import"
        \/ next.op = "poolInsert" /\ next.missing = missing /\ next.caller = req[p].caller
    BY DEF AfterPool, Idle
  <2> HIDE DEF next
  <2>5. Reading(req[p], next)
    BY <2>1, <2>4 DEF Reading, Called, QuotaSteps
  <2>6. QED
    BY <2>3, <2>4, <2>5, NextRequest DEF Stepped, Reads, IInv
<1>3. CASE PoolInsert(p)
  <2>1. req[p].op = "poolInsert" /\ req[p] \in Request
    BY <1>3 DEF PoolInsert, At, IInv, TypeOK
  <2>2. req[p] \in [op : {"poolInsert"}, missing : SUBSET Numbers,
                    caller : {"summary", "import"}]
    BY <2>1, CouponRequestShapes
  <2>3. PICK n \in Lowest(req[p].missing, 1) :
            /\ coupons[n] = Absent
            /\ Write(p, [NoWrites EXCEPT !.coupons = Put(n, Available)],
                     IF req[p].missing \ {n} = {} THEN AfterPool(req[p].caller)
                     ELSE [req[p] EXCEPT !.missing = req[p].missing \ {n}])
    BY <1>3 DEF PoolInsert
  <2> DEFINE w == [NoWrites EXCEPT !.coupons = Put(n, Available)]
             next == IF req[p].missing \ {n} = {} THEN AfterPool(req[p].caller)
                     ELSE [req[p] EXCEPT !.missing = req[p].missing \ {n}]
  <2>4. n \in req[p].missing /\ n \in Numbers
    BY <2>2, <2>3 DEF Lowest
  <2>5. \/ next.op = "idle"
        \/ next.op = "importRead" /\ req[p].caller = "import"
        \/ /\ next.op = "poolInsert" /\ next.caller = req[p].caller
           /\ next.missing = req[p].missing \ {n}
    BY <2>1, <2>2 DEF AfterPool, Idle
  <2>6. w \in Writes
    <3>1. Put(n, Available) \in RowWrites
      BY <2>4, RowShapes, PutType DEF RowWrites
    <3>2. QED
      BY <3>1, WritesParts
  <2>7. Write(p, w, next)
    BY <2>3
  <2>8. next \in Request
    BY <2>2, AfterPoolType, RequestKinds DEF CouponRequest
  <2>9. \E m \in req[p].missing :
            coupons[m] = Absent /\ w = [NoWrites EXCEPT !.coupons = Put(m, Available)]
    BY <2>3, <2>4
  <2> HIDE DEF next, w
  <2>10. Inserting(req[p], w, next)
    BY <2>1, <2>5, <2>9 DEF Inserting, Called
  <2>11. next.op # "commit"
    BY <2>5
  <2>12. QED
    BY <2>6, <2>7, <2>8, <2>10, <2>11 DEF Stepped, Installs, Writing
<1>4. QED
  BY <1>1, <1>2, <1>3

\* A guest saved without a row.
LEMMA SavingNothing ==
    ASSUME NEW g, NEW document
    PROVE  [NoWrites EXCEPT !.guests = Put(g, document)] = Saving(g, document, Nothing)
<1> DEFINE put == Put(g, document)
<1>1. [NoWrites EXCEPT !.guests = put]
        = WriteSet(Nothing, Nothing, put, Nothing, Nothing, Nothing)
  <2> HIDE DEF put
  <2>1. QED
    BY GuestsForm
<1>2. [NoWrites EXCEPT !.guests = put, !.coupons = Nothing]
        = WriteSet(Nothing, Nothing, put, Nothing, Nothing, Nothing)
  <2> HIDE DEF put
  <2>1. QED
    BY SaveForm
<1>3. QED
  BY <1>1, <1>2 DEF Saving

\* The merge import reads, and then creates or updates one guest.
LEMMA ImportStepped ==
    ASSUME IInv, IInv', NEW p \in Requests,
           ImportReadGuests(p) \/ ImportCreate(p) \/ ImportUpdate(p)
    PROVE  Stepped(p)
<1>1. CASE ImportReadGuests(p)
  <2>1. PICK plan \in ImportPlan : Continue(p, plan)
    BY <1>1 DEF ImportReadGuests
  <2>2. plan.op = "importTx"
    BY DEF ImportPlan
  <2>3. req[p].op = "importRead"
    BY <1>1 DEF ImportReadGuests, At
  <2>4. Reading(req[p], plan)
    BY <2>2, <2>3 DEF Reading, Called, QuotaSteps
  <2>5. QED
    BY <2>1, <2>2, <2>4, NextRequest DEF Stepped, Reads, IInv
<1>2. CASE ImportCreate(p)
  <2> DEFINE row == ImportedRow(req[p])
  <2>1. req[p].op = "importTx" /\ req[p] \in Request
    BY <1>2 DEF ImportCreate, At, IInv, TypeOK
  <2>2. req[p] \in ImportPlan
    BY <2>1, CouponRequestShapes
  <2>3. row \in GuestRow
    BY <2>2, ImportedRowType
  <2>4. PICK g \in Guests :
            \/ /\ AddingAble(NoWrites, g, row)
               /\ Transaction(p, Adding(NoWrites, g, row))
            \/ Transaction(p, [NoWrites EXCEPT !.guests = Put(g, NewGuest(row))])
    BY <1>2 DEF ImportCreate
  <2>5. [NoWrites EXCEPT !.guests = Put(g, NewGuest(row))]
          = Saving(g, NewGuest(row), Nothing)
    BY SavingNothing
  <2>6. NewGuest(row) \in GuestDocument
    BY <2>3, BoundsAssumption DEF NewGuest, GuestRow, GuestDocument, Counts
  <2> HIDE DEF row
  <2>7. CASE AddingAble(NoWrites, g, row) /\ Transaction(p, Adding(NoWrites, g, row))
    <3>1. Importing(Adding(NoWrites, g, row))
      BY <2>3, <2>7 DEF Importing, Added
    <3>2. QED
      BY <2>1, <2>7, <3>1, Prepared DEF Body
  <2>8. CASE Transaction(p, Saving(g, NewGuest(row), Nothing))
    <3>1. Importing(Saving(g, NewGuest(row), Nothing))
      BY <2>6 DEF Importing
    <3>2. QED
      BY <2>1, <2>8, <3>1, Prepared DEF Body
  <2>9. QED
    BY <2>4, <2>5, <2>7, <2>8
<1>3. CASE ImportUpdate(p)
  <2> DEFINE plan  == req[p]
             g     == plan.guest
             count == IF plan.coupons = 0 THEN guests[g].coupons ELSE plan.coupons
             moved == IF plan.moves THEN plan.table ELSE guests[g].table
             document == [guests[g] EXCEPT !.coupons = count, !.table = moved]
  <2>1. req[p].op = "importTx" /\ req[p] \in Request
    BY <1>3 DEF ImportUpdate, At, IInv, TypeOK
  <2>2. plan \in ImportPlan
    BY <2>1, CouponRequestShapes
  <2>3. g \in Guests /\ plan.numbers \in SUBSET Numbers
    BY <1>3, <2>2, BoundsAssumption DEF ImportUpdate, ImportPlan
  <2>4. document \in GuestDocument
    <3>1. guests[g] \in GuestDocument
      BY <2>3 DEF IInv, TypeOK
    <3>2. plan.table \in Tables \cup {NoTable} /\ plan.coupons \in {0} \cup Counts
      BY <2>2 DEF ImportPlan
    <3>3. plan.coupons \in 0 .. MaxCoupons
      BY <3>2, BoundsAssumption DEF Counts
    <3> HIDE DEF plan, g
    <3>4. QED
      BY <3>1, <3>2, <3>3 DEF GuestDocument
  <2>5. PICK rows :
            /\ Transaction(p, Saving(g, document, rows))
            /\ \/ /\ AssignNumbersAble(coupons, g, count, plan.numbers)
                  /\ rows = AssignNumbers(coupons, g, plan.numbers)
               \/ SyncCountAble(coupons, g, count) /\ rows = SyncCount(coupons, g, count)
               \/ rows = Nothing
    BY <1>3 DEF ImportUpdate, Saving
  <2>6. rows = Nothing \/ Settles(g, count, rows)
    <3> HIDE DEF g, count
    <3>1. QED
      BY <2>3, <2>5 DEF Settles
  <2> HIDE DEF g, document
  <2>7. Importing(Saving(g, document, rows))
    BY <2>3, <2>4, <2>6 DEF Importing
  <2>8. QED
    BY <2>1, <2>5, <2>7, Prepared DEF Body
<1>4. QED
  BY <1>1, <1>2, <1>3

\* reconcile and the quota change
LEMMA QuotaStepped ==
    ASSUME IInv, IInv', NEW p \in Requests,
           \/ ReconcileReadCouple(p) \/ ReconcileTransaction(p)
           \/ PatchReadCouple(p) \/ PatchTransaction(p)
    PROVE  Stepped(p)
<1>1. CASE ReconcileReadCouple(p)
  <2>1. PICK auto \in BOOLEAN :
            Continue(p, [op |-> "reconcileTx", quota |-> couple.guestQuota, auto |-> auto])
    BY <1>1 DEF ReconcileReadCouple
  <2>2. Reading(req[p], [op |-> "reconcileTx", quota |-> couple.guestQuota, auto |-> auto])
    BY DEF Reading, Called, QuotaSteps
  <2>3. QED
    BY <2>1, <2>2, NextRequest DEF Stepped, Reads, IInv
<1>2. CASE ReconcileTransaction(p)
  <2>1. req[p].op = "reconcileTx"
    BY <1>2 DEF ReconcileTransaction, At
  <2>2. PICK w : Reconciling(req[p].quota, w) /\ Transaction(p, w)
    BY <1>2 DEF ReconcileTransaction, Reconciling
  <2>3. QED
    BY <2>1, <2>2, Prepared DEF Body
<1>3. CASE PatchReadCouple(p)
  <2>1. PICK quota \in Quotas :
            Continue(p, [op |-> "patchTx", old |-> couple.guestQuota, quota |-> quota])
    BY <1>3 DEF PatchReadCouple
  <2>2. "patch" \in Ops
    BY <1>3 DEF PatchReadCouple, Arrives
  <2>3. Reading(req[p], [op |-> "patchTx", old |-> couple.guestQuota, quota |-> quota])
    BY <2>2 DEF Reading, Called, QuotaSteps
  <2>4. QED
    BY <2>1, <2>3, NextRequest DEF Stepped, Reads, IInv
<1>4. CASE PatchTransaction(p)
  <2>1. req[p].op = "patchTx"
    BY <1>4 DEF PatchTransaction, At
  <2>2. PICK w : Patching(req[p], w) /\ Transaction(p, w)
    BY <1>4 DEF PatchTransaction, Patching
  <2>3. QED
    BY <2>1, <2>2, Prepared DEF Body
<1>5. QED
  BY <1>1, <1>2, <1>3, <1>4

\* Every step of a guest or pool handler.
LEMMA ServiceStepped ==
    ASSUME IInv, IInv', NEW p \in Requests, GuestStep(p) \/ CouponStep(p)
    PROVE  Stepped(p)
BY CreateStepped, BulkStepped, UpdateStepped, RemoveManualStepped, PoolStepped,
   ImportStepped, QuotaStepped DEF GuestStep, CouponStep

\* generate, revoke and the EXPIRED mark
LEMMA InvitationStepped ==
    ASSUME IInv, IInv', NEW p \in Requests,
           GenerateReadGuest(p) \/ GenerateTransaction(p) \/ Revoke(p) \/ MarkExpired(p)
    PROVE  Stepped(p)
<1>1. CASE GenerateReadGuest(p)
  <2>1. PICK g \in Guests, revokePrevious \in BOOLEAN :
            Continue(p, [op |-> "generateTx", guest |-> g, revokePrevious |-> revokePrevious])
    BY <1>1 DEF GenerateReadGuest
  <2>2. Reading(req[p], [op |-> "generateTx", guest |-> g,
                         revokePrevious |-> revokePrevious])
    BY DEF Reading, Called, QuotaSteps
  <2>3. QED
    BY <2>1, <2>2, NextRequest DEF Stepped, Reads, IInv
<1>2. CASE GenerateTransaction(p)
  <2>1. req[p].op = "generateTx"
    BY <1>2 DEF GenerateTransaction, At
  <2>2. PICK w : Generating(req[p], w) /\ Transaction(p, w)
    BY <1>2 DEF GenerateTransaction, Generating
  <2>3. QED
    BY <2>1, <2>2, Prepared DEF Body
<1>3. ASSUME NEW i \in Invitations, Issued(i), NEW document \in InvitationDocument,
             document.status \in {"REVOKED", "EXPIRED"},
             Write(p, [NoWrites EXCEPT !.invitations = Put(i, document)], Idle)
      PROVE  Stepped(p)
  <2> DEFINE w == [NoWrites EXCEPT !.invitations = Put(i, document)]
  <2>1. w \in Writes
    <3>1. Put(i, document) \in WriteSets(Invitations, InvitationDocument)
      BY PutType
    <3>2. QED
      BY <3>1, WritesParts
  <2>2. Marking(w)
    BY <1>3 DEF Marking
  <2>3. Write(p, w, Idle) /\ Idle \in Request /\ Idle.op # "commit"
    BY <1>3, RequestKinds DEF Idle
  <2> HIDE DEF w
  <2>4. QED
    BY <2>1, <2>2, <2>3 DEF Stepped, Installs, Writing
<1>4. CASE Revoke(p)
  <2>1. PICK i \in Invitations :
            /\ Issued(i)
            /\ Write(p, [NoWrites EXCEPT
                 !.invitations = Put(i, [invitations[i] EXCEPT !.status = "REVOKED",
                                                               !.revoked = TRUE])], Idle)
    BY <1>4 DEF Revoke
  <2> DEFINE document == [invitations[i] EXCEPT !.status = "REVOKED", !.revoked = TRUE]
  <2>2. document \in InvitationDocument /\ document.status = "REVOKED"
    <3>1. PICK x : x = invitations[i] /\ x \in InvitationDocument
      BY DEF IInv, TypeOK
    <3>2. x.status \notin {"NONE", "PURGED"}
      BY <2>1, <3>1 DEF Issued
    <3>3. [x EXCEPT !.status = "REVOKED", !.revoked = TRUE] \in InvitationDocument
      BY <3>1, <3>2 DEF InvitationDocument
    <3>4. [x EXCEPT !.status = "REVOKED", !.revoked = TRUE].status = "REVOKED"
      BY <3>1 DEF InvitationDocument
    <3>5. QED
      BY <3>1, <3>3, <3>4
  <2>3. Write(p, [NoWrites EXCEPT !.invitations = Put(i, document)], Idle)
    BY <2>1
  <2> HIDE DEF document
  <2>4. QED
    BY <1>3, <2>1, <2>2, <2>3
<1>5. CASE MarkExpired(p)
  <2> DEFINE i == req[p].invitation
             document == [invitations[i] EXCEPT !.status = "EXPIRED"]
  <2>1. req[p].op = "expire" /\ req[p] \in Request
    BY <1>5 DEF MarkExpired, At, IInv, TypeOK
  <2>2. i \in Invitations
    BY <2>1, EntranceRequestShapes
  <2>3. Issued(i) /\ Write(p, [NoWrites EXCEPT !.invitations = Put(i, document)], Idle)
    BY <1>5 DEF MarkExpired
  <2>4. document \in InvitationDocument /\ document.status = "EXPIRED"
    <3>1. PICK x : x = invitations[i] /\ x \in InvitationDocument
      BY <2>2 DEF IInv, TypeOK
    <3>2. x.status \notin {"NONE", "PURGED"}
      BY <2>3, <3>1 DEF Issued
    <3>3. /\ [x EXCEPT !.status = "EXPIRED"] \in InvitationDocument
          /\ [x EXCEPT !.status = "EXPIRED"].status = "EXPIRED"
      BY <3>1, <3>2 DEF InvitationDocument
    <3>4. QED
      BY <3>1, <3>3
  <2> HIDE DEF document, i
  <2>5. QED
    BY <1>3, <2>2, <2>3, <2>4
<1>6. QED
  BY <1>1, <1>2, <1>4, <1>5

\* A scan and a check-in
LEMMA CheckInStepped ==
    ASSUME IInv, IInv', NEW p \in Requests,
           Scan(p) \/ CheckInRead(p) \/ CheckInTransaction(p)
    PROVE  Stepped(p)
<1>1. CASE Scan(p)
  <2>1. PICK i \in Invitations :
            /\ Resolvable(i)
            /\ \/ Continue(p, [op |-> "expire", invitation |-> i])
               \/ Continue(p, [op |-> "checkinRead", invitation |-> i,
                               guest |-> invitations[i].guest,
                               used |-> invitations[i].used])
    BY <1>1 DEF Scan
  <2> DEFINE next == [op |-> "checkinRead", invitation |-> i,
                      guest |-> invitations[i].guest, used |-> invitations[i].used]
  <2>2. /\ Reading(req[p], [op |-> "expire", invitation |-> i])
        /\ Reading(req[p], next) /\ next.op = "checkinRead"
    BY <2>1 DEF Reading, Called, QuotaSteps
  <2> HIDE DEF next
  <2>3. CASE Continue(p, next)
    BY <2>2, <2>3, NextRequest DEF Stepped, Reads, IInv
  <2>4. CASE Continue(p, [op |-> "expire", invitation |-> i])
    BY <2>2, <2>4, NextRequest DEF Stepped, Reads, IInv
  <2>5. QED
    BY <2>1, <2>3, <2>4 DEF next
<1>2. CASE CheckInRead(p)
  <2> DEFINE next == [op |-> "checkinTx", invitation |-> req[p].invitation,
                      guest |-> req[p].guest]
  <2>1. req[p].op = "checkinRead" /\ Continue(p, next)
    BY <1>2 DEF CheckInRead, At
  <2>2. Reading(req[p], next) /\ next.op = "checkinTx"
    BY <2>1 DEF Reading, Called, QuotaSteps
  <2> HIDE DEF next
  <2>3. QED
    BY <2>1, <2>2, NextRequest DEF Stepped, Reads, IInv
<1>3. CASE CheckInTransaction(p)
  <2>1. req[p].op = "checkinTx"
    BY <1>3 DEF CheckInTransaction, At
  <2>2. PICK w : Admitting(req[p].guest, req[p].invitation, w) /\ Transaction(p, w)
    BY <1>3 DEF CheckInTransaction, Admitting
  <2>3. QED
    BY <2>1, <2>2, Prepared DEF Body
<1>4. QED
  BY <1>1, <1>2, <1>3

\* Live guests take seats that are open to them.
LEMMA SeatedIntro ==
    ASSUME NEW G \in SUBSET Guests, \A g \in G : Live(g), NEW t \in Tables,
           NEW chosen \in Choices(G, t)
    PROVE  Seated(Seating(G, t, chosen))
<1>1. \E seating \in Choices(G, t) : Seating(G, t, chosen) = Seating(G, t, seating)
  OBVIOUS
<1>2. QED
  BY <1>1 DEF Seated

\* assign, unassign and bulk of SeatingService
LEMMA SeatingStepped ==
    ASSUME IInv, IInv', NEW p \in Requests, SeatingStep(p)
    PROVE  Stepped(p)
<1>1. PICK w : (Seated(w) \/ Unseated(w)) /\ Transaction(p, w) /\ req[p] = Idle
  <2>1. CASE AssignSeats(p)
    <3>1. PICK g \in Guests, t \in Tables : \E chosen \in Choices({g}, t) :
            Live(g) /\ req[p] = Idle /\ Transaction(p, Seating({g}, t, chosen))
      BY <2>1 DEF AssignSeats, Arrives
    <3>2. PICK chosen \in Choices({g}, t) :
            Live(g) /\ req[p] = Idle /\ Transaction(p, Seating({g}, t, chosen))
      BY <3>1
    <3>3. {g} \in SUBSET Guests /\ \A h \in {g} : Live(h)
      BY <3>2
    <3>4. Seated(Seating({g}, t, chosen))
      BY <3>3, SeatedIntro
    <3>5. QED
      BY <3>2, <3>4
  <2>2. CASE BulkSeats(p)
    <3>1. PICK g \in Guests, h \in Guests, t \in Tables : \E chosen \in Choices({g, h}, t) :
            /\ Live(g) /\ Live(h) /\ req[p] = Idle
            /\ Transaction(p, Seating({g, h}, t, chosen))
      BY <2>2 DEF BulkSeats, Arrives
    <3>2. PICK chosen \in Choices({g, h}, t) :
            /\ Live(g) /\ Live(h) /\ req[p] = Idle
            /\ Transaction(p, Seating({g, h}, t, chosen))
      BY <3>1
    <3>3. {g, h} \in SUBSET Guests /\ \A x \in {g, h} : Live(x)
      BY <3>2
    <3>4. Seated(Seating({g, h}, t, chosen))
      BY <3>3, SeatedIntro
    <3>5. QED
      BY <3>2, <3>4
  <2>3. CASE UnassignSeats(p)
    BY <2>3 DEF UnassignSeats, Arrives, Unseated
  <2>4. QED
    BY <2>1, <2>2, <2>3 DEF SeatingStep
<1>2. QED
  BY <1>1, Prepared DEF Body, Idle

\* Every step is one of a request, or leaves the documents and requests alone.
LEMMA StepForms ==
    ASSUME IInv, IInv', [Next]_vars
    PROVE  (\E p \in Requests : Stepped(p)) \/ UNCHANGED <<documents, req>>
<1>1. ASSUME NEW p \in Requests, EntranceStep(p) PROVE Stepped(p)
  BY <1>1, InvitationStepped, CheckInStepped DEF EntranceStep
<1>2. ASSUME NEW p \in Requests, Commit(p) PROVE Stepped(p)
  <2>1. req[p].op = "commit" /\ req[p].w \in Writes /\ Write(p, req[p].w, Idle)
    BY <1>2, GuestRequestShapes DEF Commit, Pending, IInv, TypeOK
  <2>2. QED
    BY <2>1, RequestKinds DEF Stepped, Installs, Writing, Idle
<1>3. ASSUME NEW p \in Requests, Abort(p) PROVE Stepped(p)
  <2>1. Continue(p, Idle) /\ Idle \in Request /\ Idle.op # "commit"
    BY <1>3, RequestKinds DEF Abort, Idle
  <2>2. Reading(req[p], Idle)
    BY DEF Reading, Called, QuotaSteps, Idle
  <2>3. QED
    BY <2>1, <2>2 DEF Stepped, Reads
<1>4. QED
  BY <1>1, <1>2, <1>3, ServiceStepped, SeatingStepped DEF Next, Expires, vars, documents

-----------------------------------------------------------------------------
(* What a step leaves to the other requests.                               *)

\* Two write sets share no key.
Disjoint(v, w) ==
    /\ DOMAIN v.couple \cap DOMAIN w.couple = {}
    /\ DOMAIN v.coupons \cap DOMAIN w.coupons = {}
    /\ DOMAIN v.guests \cap DOMAIN w.guests = {}
    /\ DOMAIN v.seats \cap DOMAIN w.seats = {}
    /\ DOMAIN v.invitations \cap DOMAIN w.invitations = {}
    /\ DOMAIN v.checkIns \cap DOMAIN w.checkIns = {}

\* A step that writes nothing changes one slot.
LEMMA ContinueSlots ==
    ASSUME TypeOK, NEW p \in Requests, NEW next, Continue(p, next)
    PROVE  /\ req'[p] = next
           /\ \A q \in Requests : q # p => req'[q] = req[q]
           /\ UNCHANGED documents
BY DEF TypeOK, Continue

\* A write dooms the pending transactions that share a key with it.
LEMMA WriteSlots ==
    ASSUME TypeOK, NEW p \in Requests, NEW w \in Writes, NEW next, Write(p, w, next)
    PROVE  /\ req'[p] = next
           /\ \A q \in Requests : q # p =>
                \/ req'[q] = Idle
                \/ req'[q] = req[q] /\ (Pending(q) => Disjoint(req[q].w, w))
<1>1. req' = Spared(req, p, w, next) /\ DOMAIN req = Requests
  BY DEF Write, TypeOK
<1>2. req'[p] = next
  BY <1>1 DEF Spared
<1>3. ASSUME NEW q \in Requests, q # p
      PROVE  \/ req'[q] = Idle
             \/ req'[q] = req[q] /\ (Pending(q) => Disjoint(req[q].w, w))
  <2>1. CASE req[q].op = "commit" /\ Conflict(req[q].w, w)
    BY <1>1, <1>3, <2>1 DEF Spared
  <2>2. CASE ~(req[q].op = "commit" /\ Conflict(req[q].w, w))
    <3>1. req'[q] = req[q]
      BY <1>1, <1>3, <2>2 DEF Spared
    <3>2. ASSUME Pending(q) PROVE Disjoint(req[q].w, w)
      <4>1. req[q].w \in Writes /\ ~Conflict(req[q].w, w)
        BY <2>2, <3>2, GuestRequestShapes DEF Pending, TypeOK
      <4>2. DOMAIN req[q].w = {"couple", "coupons", "guests", "seats", "invitations", "checkIns"}
        BY <4>1 DEF Writes
      <4>3. QED
        BY <4>1, <4>2 DEF Conflict, Disjoint
    <3>3. QED
      BY <3>1, <3>2
  <2>3. QED
    BY <2>1, <2>2
<1>4. QED
  BY <1>2, <1>3

\* The collections of a write set.
LEMMA WritesTypes ==
    ASSUME NEW w \in Writes
    PROVE  /\ w.couple \in WriteSets({"guestQuota"}, Quotas)
           /\ w.coupons \in RowWrites
           /\ w.guests \in WriteSets(Guests, GuestDocument)
           /\ w.seats \in WriteSets(Places, Guests \cup {NoGuest})
           /\ w.invitations \in WriteSets(Invitations, InvitationDocument)
           /\ w.checkIns \in WriteSets(Guests, Invitations)
BY DEF Writes, RowWrites

\* What is written, key by key.
LEMMA Installed ==
    ASSUME NEW docs, NEW w, NEW k \in DOMAIN docs
    PROVE  Install(docs, w)[k] = IF k \in DOMAIN w THEN w[k] ELSE docs[k]
BY DEF Install

\* What a transaction sees after two statements is what the second leaves of
\* what the first left.
LEMMA InstallThen ==
    ASSUME NEW docs, NEW v, NEW w
    PROVE  Install(docs, Then(v, w)) = Install(Install(docs, v), w)
BY DEF Install, Then

\* Writing nothing.
LEMMA InstallNothing ==
    ASSUME NEW K, NEW D, NEW docs \in [K -> D]
    PROVE  Install(docs, Nothing) = docs
BY DEF Install, Nothing

LEMMA InstallUntouched ==
    ASSUME NEW K, NEW D, NEW docs \in [K -> D], NEW w, DOMAIN w = {}
    PROVE  Install(docs, w) = docs
BY DEF Install

\* Two writes of disjoint keys.
LEMMA InstallDisjoint ==
    ASSUME NEW docs, NEW v, NEW w, DOMAIN v \cap DOMAIN w = {}
    PROVE  Install(Install(docs, v), w) = Install(Install(docs, w), v)
BY DEF Install

-----------------------------------------------------------------------------
(* The endpoints that are not called have no request in flight.            *)

AllCalled == \A p \in Requests : Called(req[p])

\* No request is in flight at first.
LEMMA InitCalled == Init => AllCalled
BY DEF Init, AllCalled, Called, Idle

\* Every step of a handler is one of the same endpoint.
LEMMA StepCalled ==
    ASSUME IInv, IInv', AllCalled, [Next]_vars
    PROVE  AllCalled'
<1>1. CASE UNCHANGED <<documents, req>>
  BY <1>1 DEF AllCalled, Called
<1>2. ASSUME NEW p \in Requests, Stepped(p) PROVE AllCalled'
  <2>1. ASSUME NEW next, Called(next), req'[p] = next,
               \A q \in Requests : q # p => req'[q] = req[q] \/ req'[q] = Idle
        PROVE  AllCalled'
    <3>1. ASSUME NEW q \in Requests PROVE Called(req[q])'
      <4>1. req'[q] = next \/ req'[q] = req[q] \/ req'[q] = Idle
        BY <2>1
      <4>2. Called(next) /\ Called(req[q]) /\ Called(Idle)
        BY <2>1 DEF AllCalled, Called, Idle
      <4>3. PICK r : r = req'[q] /\ Called(r)
        BY <4>1, <4>2
      <4>4. QED
        BY <4>3 DEF Called
    <3>2. QED
      BY <3>1 DEF AllCalled
  <2>2. CASE Reads(p)
    <3>1. PICK next \in Request : Reading(req[p], next) /\ Continue(p, next)
      BY <2>2 DEF Reads
    <3>2. Called(next)
      BY <3>1 DEF Reading, AllCalled
    <3>3. QED
      BY <2>1, <3>1, <3>2, ContinueSlots DEF IInv
  <2>3. CASE Prepares(p)
    <3>1. PICK w : Continue(p, Committing(w))
      BY <2>3 DEF Prepares, Transaction
    <3>2. Called(Committing(w))
      BY DEF Called, Committing
    <3>3. QED
      BY <2>1, <3>1, <3>2, ContinueSlots DEF IInv
  <2>4. CASE Installs(p)
    <3>1. PICK w \in Writes, next \in Request : Writing(req[p], w, next) /\ Write(p, w, next)
      BY <2>4 DEF Installs
    <3>2. Called(next)
      BY <3>1 DEF Writing, Inserting, AllCalled, Called, Idle
    <3>3. QED
      BY <2>1, <3>1, <3>2, WriteSlots DEF IInv
  <2>5. QED
    BY <1>2, <2>2, <2>3, <2>4 DEF Stepped
<1>3. QED
  BY <1>1, <1>2, StepForms

LEMMA AlwaysCalled == Spec => []AllCalled
<1>1. IInv /\ IInv' /\ AllCalled /\ [Next]_vars => AllCalled'
  BY StepCalled
<1>2. QED
  BY InitCalled, Invariance, <1>1, PTL DEF Spec

-----------------------------------------------------------------------------
(* The statements of a transaction, collection by collection.              *)

LEMMA EnsuringParts ==
    ASSUME NEW w \in Writes, NEW quota
    PROVE  /\ EnsuringPool(w, quota).couple = w.couple
           /\ EnsuringPool(w, quota).coupons
                = Then(w.coupons, EnsurePool(CouponsSeen(w), quota))
           /\ EnsuringPool(w, quota).guests = w.guests
           /\ EnsuringPool(w, quota).seats = w.seats
           /\ EnsuringPool(w, quota).invitations = w.invitations
           /\ EnsuringPool(w, quota).checkIns = w.checkIns
BY DEF EnsuringPool, Writes

LEMMA AddingParts ==
    ASSUME NEW w \in Writes, NEW g, NEW row
    PROVE  /\ Adding(w, g, row).couple = w.couple
           /\ Adding(w, g, row).coupons
                = Then(w.coupons, Allocation(CouponsSeen(w), g, row))
           /\ Adding(w, g, row).guests = Then(w.guests, Put(g, NewGuest(row)))
           /\ Adding(w, g, row).seats = w.seats
           /\ Adding(w, g, row).invitations = w.invitations
           /\ Adding(w, g, row).checkIns = w.checkIns
<1> DEFINE a == Then(w.guests, Put(g, NewGuest(row)))
           b == Then(w.coupons, Allocation(CouponsSeen(w), g, row))
           x == [w EXCEPT !.guests = a, !.coupons = b]
<1>1. Adding(w, g, row) = x
  BY DEF Adding, Writes
<1>2. /\ x.couple = w.couple /\ x.coupons = b /\ x.guests = a /\ x.seats = w.seats
      /\ x.invitations = w.invitations /\ x.checkIns = w.checkIns
  <2> HIDE DEF a, b
  <2>1. QED
    BY DEF Writes
<1>3. QED
  BY <1>1, <1>2

LEMMA PurgingParts ==
    ASSUME NEW w \in Writes
    PROVE  /\ Purging(w).couple = w.couple
           /\ Purging(w).coupons = Then(w.coupons, Release(CouponsSeen(w), Guests))
           /\ Purging(w).guests = PutAll({g \in Guests : Stored(g)}, NoGuestDocument("gone"))
           /\ Purging(w).seats = PutAll({place \in Places : seats[place] # NoGuest}, NoGuest)
           /\ Purging(w).invitations = PutAll({i \in Invitations : Issued(i)}, Purged)
           /\ Purging(w).checkIns = w.checkIns
<1> DEFINE a == PutAll({i \in Invitations : Issued(i)}, Purged)
           b == Then(w.coupons, Release(CouponsSeen(w), Guests))
           c == PutAll({place \in Places : seats[place] # NoGuest}, NoGuest)
           d == PutAll({g \in Guests : Stored(g)}, NoGuestDocument("gone"))
           x == [w EXCEPT !.invitations = a, !.coupons = b, !.seats = c, !.guests = d]
<1>1. Purging(w) = x
  BY DEF Purging, Writes
<1>2. /\ x.couple = w.couple /\ x.coupons = b /\ x.guests = d /\ x.seats = c
      /\ x.invitations = a /\ x.checkIns = w.checkIns
  <2> HIDE DEF a, b, c, d
  <2>1. QED
    BY DEF Writes
<1>3. QED
  BY <1>1, <1>2

\* The rows that the statements after it see.
LEMMA SeenThen ==
    ASSUME TypeOK, NEW w, Partial(w), NEW quota, NEW g, NEW row
    PROVE  /\ CouponsSeen(EnsuringPool(w, quota))
                = Install(CouponsSeen(w), EnsurePool(CouponsSeen(w), quota))
           /\ CouponsSeen(Adding(w, g, row))
                = Install(CouponsSeen(w), Allocation(CouponsSeen(w), g, row))
           /\ CouponsSeen(Purging(w))
                = Install(CouponsSeen(w), Release(CouponsSeen(w), Guests))
<1>1. w \in Writes
  BY DEF Partial
<1>2. CouponsSeen(EnsuringPool(w, quota))
        = Install(CouponsSeen(w), EnsurePool(CouponsSeen(w), quota))
  BY <1>1, EnsuringParts, InstallThen DEF CouponsSeen
<1>3. CouponsSeen(Adding(w, g, row))
        = Install(CouponsSeen(w), Allocation(CouponsSeen(w), g, row))
  BY <1>1, AddingParts, InstallThen DEF CouponsSeen
<1>4. CouponsSeen(Purging(w)) = Install(CouponsSeen(w), Release(CouponsSeen(w), Guests))
  <2>1. Purging(w).coupons = Then(w.coupons, Release(CouponsSeen(w), Guests))
    BY <1>1, PurgingParts
  <2>2. QED
    BY <2>1, InstallThen DEF CouponsSeen
<1>5. QED
  BY <1>2, <1>3, <1>4

\* At the start, a transaction sees the documents.
LEMMA SeenAtStart ==
    ASSUME TypeOK
    PROVE  CouponsSeen(NoWrites) = coupons /\ GuestsSeen(NoWrites) = guests
<1>1. NoWrites.coupons = Nothing /\ NoWrites.guests = Nothing
  BY DEF NoWrites
<1>2. QED
  BY <1>1, InstallNothing DEF CouponsSeen, GuestsSeen, TypeOK

\* What the bodies write, by collection.
LEMMA UpdatingParts ==
    ASSUME NEW r, NEW w, Updating(r, w)
    PROVE  LET count == IF r.coupons = 0 THEN guests[r.guest].coupons ELSE r.coupons
           IN  \E rows :
                /\ \/ Settles(r.guest, count, rows)
                   \/ r.coupons = 0 /\ rows = Nothing
                /\ w = WriteSet(Nothing, rows,
                                Put(r.guest, [guests[r.guest] EXCEPT !.coupons = count]),
                                Nothing, Nothing, Nothing)
<1> DEFINE count == IF r.coupons = 0 THEN guests[r.guest].coupons ELSE r.coupons
           put   == Put(r.guest, [guests[r.guest] EXCEPT !.coupons = count])
<1>1. PICK rows :
        /\ \/ Settles(r.guest, count, rows)
           \/ r.coupons = 0 /\ rows = Nothing
        /\ w = [NoWrites EXCEPT !.guests = put, !.coupons = rows]
  BY DEF Updating, Saving
<1>2. w = WriteSet(Nothing, rows, put, Nothing, Nothing, Nothing)
  <2> HIDE DEF put
  <2>1. QED
    BY <1>1, SaveForm
<1>3. QED
  BY <1>1, <1>2

LEMMA RemovingParts ==
    ASSUME NEW g, NEW w, Removing(g, w)
    PROVE  w = WriteSet(Nothing, Release(coupons, {g}),
                        Put(g, [guests[g] EXCEPT !.phase = "deleted"]),
                        PutAll(SeatsOf(g), NoGuest), RevokingActive(g), Nothing)
<1> DEFINE a == PutAll(SeatsOf(g), NoGuest)
           b == Release(coupons, {g})
           c == Put(g, [guests[g] EXCEPT !.phase = "deleted"])
           d == RevokingActive(g)
<1>1. w = [NoWrites EXCEPT !.seats = a, !.coupons = b, !.guests = c, !.invitations = d]
  BY DEF Removing
<1>2. w = WriteSet(Nothing, b, c, a, d, Nothing)
  <2> HIDE DEF a, b, c, d
  <2>1. QED
    BY <1>1, RemoveForm
<1>3. QED
  BY <1>2

LEMMA MovingParts ==
    ASSUME NEW g, NEW w, Moving(g, w)
    PROVE  \E numbers \in SUBSET Numbers :
            /\ AssignNumbersAble(coupons, g, guests[g].coupons, numbers)
            /\ w = WriteSet(Nothing, AssignNumbers(coupons, g, numbers),
                            Nothing, Nothing, Nothing, Nothing)
BY RowsForm DEF Moving

LEMMA PatchingParts ==
    ASSUME NEW r, NEW w, Patching(r, w)
    PROVE  w = WriteSet(Put("guestQuota", r.quota), Resize(coupons, r.old, r.quota),
                        Nothing, Nothing, Nothing, Nothing)
BY PatchForm DEF Patching

LEMMA GeneratingParts ==
    ASSUME NEW r, NEW w, Generating(r, w)
    PROVE  \E invs : w = WriteSet(Nothing, Nothing, Nothing, Nothing, invs, Nothing)
<1>1. PICK invs : w = [NoWrites EXCEPT !.invitations = invs]
  BY DEF Generating
<1>2. QED
  BY <1>1, InvitationsForm

LEMMA AdmittingParts ==
    ASSUME NEW g, NEW i, NEW w, Admitting(g, i, w)
    PROVE  w = WriteSet(Nothing, UseAll(coupons, g), Nothing, Nothing,
                        Put(i, [invitations[i] EXCEPT !.used = TRUE]), Put(g, i))
<1> DEFINE a == Put(g, i)
           b == Put(i, [invitations[i] EXCEPT !.used = TRUE])
           c == UseAll(coupons, g)
<1>1. w = [NoWrites EXCEPT !.checkIns = a, !.invitations = b, !.coupons = c]
  BY DEF Admitting
<1>2. w = WriteSet(Nothing, c, Nothing, Nothing, b, a)
  <2> HIDE DEF a, b, c
  <2>1. QED
    BY <1>1, AdmitForm
<1>3. QED
  BY <1>2

LEMMA SeatingParts ==
    ASSUME NEW G, NEW t, NEW chosen
    PROVE  Seating(G, t, chosen)
             = WriteSet(Nothing, Nothing,
                        [g \in G |->
                           [guests[g] EXCEPT
                               !.table = t,
                               !.mirror = {s \in DOMAIN chosen : chosen[s] = g}]],
                        Then(PutAll(UNION {SeatsOf(g) : g \in G}, NoGuest),
                             [place \in {<<t, s>> : s \in DOMAIN chosen} |->
                                 chosen[place[2]]]),
                        Nothing, Nothing)
<1> DEFINE a == Then(PutAll(UNION {SeatsOf(g) : g \in G}, NoGuest),
                     [place \in {<<t, s>> : s \in DOMAIN chosen} |-> chosen[place[2]]])
           b == [g \in G |->
                   [guests[g] EXCEPT
                       !.table = t,
                       !.mirror = {s \in DOMAIN chosen : chosen[s] = g}]]
<1>1. Seating(G, t, chosen) = [NoWrites EXCEPT !.seats = a, !.guests = b]
  BY Zenon DEF Seating
<1>2. [NoWrites EXCEPT !.seats = a, !.guests = b]
        = WriteSet(Nothing, Nothing, b, a, Nothing, Nothing)
  <2> HIDE DEF a, b
  <2>1. QED
    BY SeatForm
<1>3. QED
  BY <1>1, <1>2

LEMMA UnseatedParts ==
    ASSUME NEW w, Unseated(w)
    PROVE  \E g \in Guests :
            /\ Live(g)
            /\ w = WriteSet(Nothing, Nothing,
                            Put(g, [guests[g] EXCEPT !.table = NoTable, !.mirror = {}]),
                            PutAll(SeatsOf(g), NoGuest), Nothing, Nothing)
<1>1. PICK g \in Guests :
        /\ Live(g)
        /\ w = [NoWrites EXCEPT
                 !.seats  = PutAll(SeatsOf(g), NoGuest),
                 !.guests = Put(g, [guests[g] EXCEPT !.table = NoTable, !.mirror = {}])]
  BY Zenon DEF Unseated
<1> DEFINE a == PutAll(SeatsOf(g), NoGuest)
           b == Put(g, [guests[g] EXCEPT !.table = NoTable, !.mirror = {}])
<1>2. w = WriteSet(Nothing, Nothing, b, a, Nothing, Nothing)
  <2> HIDE DEF a, b
  <2>1. [NoWrites EXCEPT !.seats = a, !.guests = b]
          = WriteSet(Nothing, Nothing, b, a, Nothing, Nothing)
    BY SeatForm
  <2>2. QED
    BY <1>1, <2>1 DEF a, b
<1>3. QED
  BY <1>1, <1>2

\* Seating writes no row.
LEMMA SeatedParts ==
    ASSUME NEW w, Seated(w)
    PROVE  \E a, b : w = WriteSet(Nothing, Nothing, a, b, Nothing, Nothing)
<1>1. PICK G \in SUBSET Guests, t \in Tables :
        \E chosen \in Choices(G, t) : w = Seating(G, t, chosen)
  BY DEF Seated
<1>2. QED
  BY <1>1, SeatingParts

-----------------------------------------------------------------------------
(* Rows that exist.                                                        *)

\* v writes no row away, and a new row only up to quota.
Fills(c, v, quota) ==
    \A n \in DOMAIN v : v[n] # Absent /\ (c[n] # Absent \/ n <= quota)

\* A row that is not absent.
LEMMA RowsExist ==
    /\ Available # Absent
    /\ \A g : Assigned(g) # Absent /\ Used(g) # Absent
BY DEF Available, Absent, Assigned, Used

LEMMA FillsThen ==
    ASSUME NEW c \in Rows, NEW v \in RowWrites, NEW w \in RowWrites, NEW quota,
           Fills(c, v, quota), Fills(Install(c, v), w, quota)
    PROVE  Fills(c, Then(v, w), quota)
<1>1. DOMAIN v \subseteq Numbers /\ DOMAIN w \subseteq Numbers
  BY WriteSetElim DEF RowWrites
<1>2. QED
  BY <1>1 DEF Fills, Then, Install, Rows

\* ensurePool fills the pool; the other statements on rows that exist.
LEMMA StatementsFill ==
    ASSUME NEW c, NEW quota
    PROVE  /\ Fills(c, EnsurePool(c, quota), quota)
           /\ Fills(c, Nothing, quota)
           /\ \A g, count : Fills(c, AssignLowest(c, g, count), quota)
           /\ \A g, count : Fills(c, SyncCount(c, g, count), quota)
           /\ \A g, count, numbers :
                AssignNumbersAble(c, g, count, numbers)
                    => Fills(c, AssignNumbers(c, g, numbers), quota)
           /\ \A G : Fills(c, Release(c, G), quota)
           /\ \A g : Fills(c, UseAll(c, g), quota)
<1>1. /\ Fills(c, EnsurePool(c, quota), quota)
      /\ Fills(c, Nothing, quota)
  BY RowsExist DEF Fills, EnsurePool, PutAll, Nothing
<1>2. ASSUME NEW g, NEW count
      PROVE  Fills(c, AssignLowest(c, g, count), quota)
  <2>1. Lowest(Free(c), count) \subseteq Free(c)
    BY DEF Lowest
  <2>2. QED
    BY <2>1, RowsExist DEF Fills, AssignLowest, PutAll, Free
<1>3. ASSUME NEW g, NEW count
      PROVE  Fills(c, SyncCount(c, g, count), quota)
  <2>1. Fills(c, PutAll(Surplus(c, g, count), Available), quota)
    BY SurplusAssigned, RowsExist DEF Fills, PutAll, AssignedTo
  <2>2. QED
    BY <1>1, <1>2, <2>1 DEF SyncCount
<1>4. ASSUME NEW g, NEW count, NEW numbers, AssignNumbersAble(c, g, count, numbers)
      PROVE  Fills(c, AssignNumbers(c, g, numbers), quota)
  <2>1. \A n \in numbers : c[n] # Absent
    BY <1>4 DEF AssignNumbersAble
  <2>2. \A n \in AssignedTo(c, g) : c[n] # Absent
    BY RowsExist DEF AssignedTo
  <2>3. QED
    BY <2>1, <2>2, RowsExist DEF Fills, AssignNumbers, Then, PutAll
<1>5. ASSUME NEW G PROVE Fills(c, Release(c, G), quota)
  <2> DEFINE S == {n \in Numbers : c[n].status = "ASSIGNED" /\ c[n].guest \in G}
  <2>1. \A n \in S : c[n] # Absent
    BY DEF Absent
  <2> HIDE DEF S
  <2>2. Fills(c, PutAll(S, Available), quota)
    BY <2>1, RowsExist DEF Fills, PutAll
  <2>3. QED
    BY <2>2 DEF Release, S
<1>6. ASSUME NEW g PROVE Fills(c, UseAll(c, g), quota)
  BY RowsExist DEF Fills, UseAll, PutAll, AssignedTo
<1>7. QED
  BY <1>1, <1>2, <1>3, <1>4, <1>5, <1>6

\* The part of the pool that a transaction may fill.
PoolQuota(r) == IF r.op \in QuotaSteps THEN r.quota ELSE 0

\* A write set in the making that leaves the quota alone and fills the pool.
Filling(w, quota) ==
    /\ Partial(w)
    /\ DOMAIN w.couple = {}
    /\ Fills(coupons, w.coupons, quota)

\* A statement on the rows that the write set so far has left.
LEMMA FillingThen ==
    ASSUME TypeOK, NEW w, NEW quota, Filling(w, quota),
           NEW v, Reallocates(CouponsSeen(w), v), Fills(CouponsSeen(w), v, quota)
    PROVE  Fills(coupons, Then(w.coupons, v), quota)
<1>1. coupons \in Rows /\ v \in RowWrites /\ w.coupons \in RowWrites
  BY WritesTypes DEF TypeOK, Rows, Reallocates, Filling, Partial
<1>2. QED
  BY <1>1, FillsThen DEF Filling, CouponsSeen

\* create, bulk and replace
LEMMA CreatingFills ==
    ASSUME IInv, NEW quota, NEW w, Creating(quota, w)
    PROVE  Filling(w, quota)
<1>1. ASSUME NEW x, Filling(x, quota)
      PROVE  Filling(EnsuringPool(x, quota), quota) /\ Filling(Purging(x), quota)
  <2>1. x \in Writes /\ CouponsSeen(x) \in Rows
    BY <1>1, SeenType DEF Filling, Partial, IInv
  <2>2. /\ Reallocates(CouponsSeen(x), EnsurePool(CouponsSeen(x), quota))
        /\ Reallocates(CouponsSeen(x), Release(CouponsSeen(x), Guests))
    BY <2>1, EnsurePoolReallocates, ReleaseReallocates
  <2>3. /\ Fills(CouponsSeen(x), EnsurePool(CouponsSeen(x), quota), quota)
        /\ Fills(CouponsSeen(x), Release(CouponsSeen(x), Guests), quota)
    BY StatementsFill
  <2>4. /\ Fills(coupons, Then(x.coupons, EnsurePool(CouponsSeen(x), quota)), quota)
        /\ Fills(coupons, Then(x.coupons, Release(CouponsSeen(x), Guests)), quota)
    BY <1>1, <2>2, <2>3, FillingThen DEF IInv
  <2>5. Partial(EnsuringPool(x, quota)) /\ Partial(Purging(x))
    BY <1>1, EnsuringPartial, PurgingPartial DEF Filling, IInv
  <2>6. QED
    BY <1>1, <2>1, <2>4, <2>5, EnsuringParts, PurgingParts DEF Filling
<1>2. ASSUME NEW x, Filling(x, quota), NEW y, Added(x, y)
      PROVE  Filling(y, quota)
  <2>1. PICK g \in Guests, row \in GuestRow : AddingAble(x, g, row) /\ y = Adding(x, g, row)
    BY <1>2 DEF Added
  <2>2. x \in Writes /\ CouponsSeen(x) \in Rows
    BY <1>2, SeenType DEF Filling, Partial, IInv
  <2>3. AllocationAble(CouponsSeen(x), g, row)
    BY <2>1 DEF AddingAble
  <2>4. Reallocates(CouponsSeen(x), Allocation(CouponsSeen(x), g, row))
    BY <2>2, <2>3, AllocationReallocates
  <2>5. Fills(CouponsSeen(x), Allocation(CouponsSeen(x), g, row), quota)
    BY <2>3, StatementsFill DEF Allocation, AllocationAble
  <2>6. Fills(coupons, Then(x.coupons, Allocation(CouponsSeen(x), g, row)), quota)
    BY <1>2, <2>4, <2>5, FillingThen DEF IInv
  <2>7. Partial(y)
    BY <1>2, <2>1, AddingPartial DEF Filling, IInv
  <2>8. QED
    BY <1>2, <2>1, <2>2, <2>6, <2>7, AddingParts DEF Filling
<1>3. Filling(NoWrites, quota)
  <2>1. DOMAIN NoWrites.couple = {} /\ NoWrites.coupons = Nothing
    BY DEF NoWrites, Nothing
  <2>2. QED
    BY <2>1, EmptyPartial, StatementsFill DEF Filling
<1>4. ASSUME NEW x, Opened(quota, x) PROVE Filling(x, quota)
  BY <1>1, <1>3, <1>4 DEF Opened
<1>5. PICK x : /\ Opened(quota, x)
               /\ \/ w = x
                  \/ Added(x, w)
                  \/ \E y : Added(x, y) /\ Added(y, w)
  BY DEF Creating
<1>6. QED
  BY <1>2, <1>4, <1>5

\* Settling the coupons of a guest.
LEMMA SettlesFill ==
    ASSUME NEW g, NEW count, NEW rows, Settles(g, count, rows), NEW quota
    PROVE  Fills(coupons, rows, quota)
BY StatementsFill DEF Settles

\* The merge import.
LEMMA ImportingFills ==
    ASSUME IInv, NEW w, Importing(w), NEW quota
    PROVE  DOMAIN w.couple = {} /\ Fills(coupons, w.coupons, quota)
<1>1. CASE Added(NoWrites, w)
  <2>1. PICK g \in Guests, row \in GuestRow :
            AddingAble(NoWrites, g, row) /\ w = Adding(NoWrites, g, row)
    BY <1>1 DEF Added
  <2>2. AllocationAble(coupons, g, row)
    BY <2>1, SeenAtStart DEF AddingAble, IInv
  <2>3. NoWrites \in Writes /\ NoWrites.couple = Nothing /\ NoWrites.coupons = Nothing
    BY EmptyPartial DEF Partial, NoWrites
  <2>4. w.couple = Nothing /\ w.coupons = Then(Nothing, Allocation(coupons, g, row))
    BY <2>1, <2>3, AddingParts, SeenAtStart DEF IInv
  <2>5. Fills(coupons, Allocation(coupons, g, row), quota)
    BY <2>2, StatementsFill DEF Allocation, AllocationAble
  <2>6. Fills(coupons, Then(Nothing, Allocation(coupons, g, row)), quota)
    BY <2>5 DEF Fills, Then, Nothing
  <2>7. QED
    BY <2>4, <2>6 DEF Nothing
<1>2. ASSUME NEW rows, NEW g \in Guests, NEW document \in GuestDocument,
             w = Saving(g, document, rows),
             rows = Nothing \/ \E count : Settles(g, count, rows)
      PROVE  DOMAIN w.couple = {} /\ Fills(coupons, w.coupons, quota)
  <2>1. Fills(coupons, rows, quota)
    BY <1>2, SettlesFill, StatementsFill
  <2>2. w = WriteSet(Nothing, rows, Put(g, document), Nothing, Nothing, Nothing)
    BY <1>2, SaveForm DEF Saving
  <2>3. QED
    BY <2>1, <2>2 DEF WriteSet, Nothing
<1>3. QED
  BY <1>1, <1>2 DEF Importing

\* reconcile
LEMMA ReconcilingFills ==
    ASSUME IInv, NEW quota, NEW w, Reconciling(quota, w)
    PROVE  DOMAIN w.couple = {} /\ Fills(coupons, w.coupons, quota)
<1> DEFINE pool == EnsurePool(coupons, quota)
           c    == Install(coupons, pool)
<1>1. coupons \in Rows /\ pool \in RowWrites /\ Fills(coupons, pool, quota)
  BY EnsurePoolReallocates, StatementsFill DEF IInv, TypeOK, Rows, Reallocates
<1>2. c \in Rows
  BY <1>1, InstallType DEF Rows, RowWrites
<1>3. PICK rows : /\ w = [NoWrites EXCEPT !.coupons = Then(pool, rows)]
                  /\ \/ rows = Nothing
                     \/ \E given \in Fillings(c) :
                          rows = Then([n \in DOMAIN given |-> Assigned(given[n])],
                                      PutAll(Excess(c), Available))
  BY DEF Reconciling
<1> HIDE DEF pool, c
<1>4. \A n \in DOMAIN rows : rows[n] # Absent /\ c[n] # Absent /\ n \in Numbers
  <2>1. CASE rows = Nothing
    BY <2>1 DEF Nothing
  <2>2. ASSUME NEW given \in Fillings(c),
               rows = Then([n \in DOMAIN given |-> Assigned(given[n])],
                           PutAll(Excess(c), Available))
        PROVE  \A n \in DOMAIN rows : rows[n] # Absent /\ c[n] # Absent /\ n \in Numbers
    <3>1. DOMAIN given \subseteq Free(c)
      BY Selections DEF Fillings
    <3>2. Excess(c) \subseteq Numbers /\ \A n \in Excess(c) : c[n] # Absent
      <4>1. ASSUME NEW n \in Excess(c) PROVE n \in Numbers /\ c[n] # Absent
        <5>1. PICK g \in Guests : n \in Surplus(c, g, guests[g].coupons)
          BY DEF Excess, Adjustable
        <5>2. n \in AssignedTo(c, g)
          BY <5>1, SurplusAssigned
        <5>3. QED
          BY <5>2, RowsExist DEF AssignedTo
      <4>2. QED
        BY <4>1
    <3>3. \A n \in Free(c) : c[n] # Absent /\ n \in Numbers
      BY RowsExist DEF Free
    <3>4. QED
      BY <2>2, <3>1, <3>2, <3>3, RowsExist DEF Then, PutAll
  <2>3. QED
    BY <1>3, <2>1, <2>2
<1>5. Fills(coupons, Then(pool, rows), quota)
  <2>1. \A n \in DOMAIN rows : n \notin DOMAIN pool => coupons[n] # Absent
    BY <1>1, <1>4 DEF c, Install, Rows
  <2>2. QED
    BY <1>1, <1>4, <2>1 DEF Fills, Then
<1>6. w = WriteSet(Nothing, Then(pool, rows), Nothing, Nothing, Nothing, Nothing)
  BY <1>3, RowsForm
<1>7. QED
  BY <1>5, <1>6 DEF WriteSet, Nothing

\* Every transaction but a quota change leaves the quota alone, fills the pool
\* up to the quota it goes by at most, and takes no row away.
LEMMA BodyFills ==
    ASSUME IInv, NEW r, NEW w, Body(r, w), r.op # "patchTx"
    PROVE  DOMAIN w.couple = {} /\ Fills(coupons, w.coupons, PoolQuota(r))
<1> DEFINE q == PoolQuota(r)
<1> SUFFICES DOMAIN w.couple = {} /\ Fills(coupons, w.coupons, q)
  OBVIOUS
<1>1. CASE r.op \in {"createTx", "bulkTx"} /\ Creating(r.quota, w)
  <2>1. q = r.quota
    BY <1>1 DEF PoolQuota, QuotaSteps
  <2>2. QED
    BY <1>1, <2>1, CreatingFills DEF Filling
<1>2. CASE r.op = "reconcileTx" /\ Reconciling(r.quota, w)
  <2>1. q = r.quota
    BY <1>2 DEF PoolQuota, QuotaSteps
  <2>2. QED
    BY <1>2, <2>1, ReconcilingFills
<1> HIDE DEF q
<1>3. CASE Importing(w)
  BY <1>3, ImportingFills
<1>4. \A rows, a, b, d, e :
        Fills(coupons, rows, q) /\ w = WriteSet(Nothing, rows, a, b, d, e)
            => DOMAIN w.couple = {} /\ Fills(coupons, w.coupons, q)
  BY WriteSetFields
<1>5. CASE Updating(r, w)
  <2> DEFINE k == IF r.coupons = 0 THEN guests[r.guest].coupons ELSE r.coupons
             put == Put(r.guest, [guests[r.guest] EXCEPT !.coupons = k])
  <2>1. PICK rows :
            /\ Settles(r.guest, k, rows) \/ rows = Nothing
            /\ w = WriteSet(Nothing, rows, put, Nothing, Nothing, Nothing)
    BY <1>5, UpdatingParts
  <2> HIDE DEF k, put
  <2>2. Fills(coupons, rows, q)
    BY <2>1, SettlesFill, StatementsFill
  <2>3. QED
    BY <1>4, <2>1, <2>2
<1>6. CASE Removing(r.guest, w)
  <2>1. Fills(coupons, Release(coupons, {r.guest}), q)
    BY StatementsFill
  <2>2. PICK a, b, d : w = WriteSet(Nothing, Release(coupons, {r.guest}), a, b, d, Nothing)
    BY <1>6, RemovingParts
  <2>3. QED
    BY <1>4, <2>1, <2>2
<1>7. CASE Moving(r.guest, w)
  <2>1. PICK numbers :
            /\ AssignNumbersAble(coupons, r.guest, guests[r.guest].coupons, numbers)
            /\ w = WriteSet(Nothing, AssignNumbers(coupons, r.guest, numbers),
                            Nothing, Nothing, Nothing, Nothing)
    BY <1>7, MovingParts
  <2>2. Fills(coupons, AssignNumbers(coupons, r.guest, numbers), q)
    BY <2>1, StatementsFill
  <2>3. QED
    BY <1>4, <2>1, <2>2
<1>8. CASE Generating(r, w)
  <2>1. Fills(coupons, Nothing, q)
    BY StatementsFill
  <2>2. PICK a : w = WriteSet(Nothing, Nothing, Nothing, Nothing, a, Nothing)
    BY <1>8, GeneratingParts
  <2>3. QED
    BY <1>4, <2>1, <2>2
<1>9. CASE Admitting(r.guest, r.invitation, w)
  <2>1. Fills(coupons, UseAll(coupons, r.guest), q)
    BY StatementsFill
  <2>2. PICK a, b : w = WriteSet(Nothing, UseAll(coupons, r.guest), Nothing, Nothing, a, b)
    BY <1>9, AdmittingParts
  <2>3. QED
    BY <1>4, <2>1, <2>2
<1>10. CASE Seated(w) \/ Unseated(w)
  <2>1. Fills(coupons, Nothing, q)
    BY StatementsFill
  <2>2. PICK a, b : w = WriteSet(Nothing, Nothing, a, b, Nothing, Nothing)
    <3>1. CASE Seated(w)
      BY <3>1, SeatedParts
    <3>2. CASE Unseated(w)
      BY <3>2, UnseatedParts
    <3>3. QED
      BY <1>10, <3>1, <3>2
  <2>3. QED
    BY <1>4, <2>1, <2>2
<1>11. QED
  BY <1>1, <1>2, <1>3, <1>5, <1>6, <1>7, <1>8, <1>9, <1>10 DEF Body, q

-----------------------------------------------------------------------------
(* The pool covers the quota.                                              *)

\* Once w is written, there is a row for every number of the quota: w takes no
\* row away, or brings the quota that its rows cover.
Covers(w) ==
    IF DOMAIN w.couple = {} THEN \A n \in DOMAIN w.coupons : w.coupons[n] # Absent
    ELSE \A n \in 1 .. w.couple.guestQuota : Install(coupons, w.coupons)[n] # Absent

PendingCovers == \A p \in Requests : Pending(p) => Covers(req[p].w)

\* resize: the rows of 1..quota are there when those above it go.
LEMMA ResizeCovers ==
    ASSUME NEW c \in Rows, NEW oldQuota \in Numbers, NEW quota \in Numbers
    PROVE  \A n \in 1 .. quota : Install(c, Resize(c, oldQuota, quota))[n] # Absent
<1> DEFINE grown == EnsurePool(c, Larger(oldQuota, quota))
           gone  == PutAll(Above(oldQuota, quota) \cap Free(Install(c, grown)), Absent)
<1>1. Resize(c, oldQuota, quota) = Then(grown, gone)
  BY DEF Resize
<1>2. ASSUME NEW n \in 1 .. quota PROVE Install(c, Then(grown, gone))[n] # Absent
  <2>1. n \in Numbers /\ n <= quota /\ n <= Larger(oldQuota, quota)
    BY MaxQuotaAssumption DEF Numbers, Larger
  <2>2. n \notin DOMAIN gone
    BY <2>1 DEF gone, PutAll, Above, Numbers
  <2>3. IF c[n] = Absent THEN n \in DOMAIN grown /\ grown[n] = Available
        ELSE n \notin DOMAIN grown
    BY <2>1 DEF grown, EnsurePool, PutAll
  <2>4. DOMAIN c = Numbers
    BY DEF Rows
  <2> HIDE DEF grown, gone
  <2>5. QED
    BY <2>1, <2>2, <2>3, <2>4, RowsExist DEF Install, Then
<1>3. QED
  BY <1>1, <1>2

\* What every body asks for covers the quota.
LEMMA BodyCovers ==
    ASSUME IInv, NEW p \in Requests, NEW w, Body(req[p], w)
    PROVE  Covers(w)
<1> DEFINE r == req[p]
<1>1. CASE r.op # "patchTx"
  <2>1. DOMAIN w.couple = {} /\ Fills(coupons, w.coupons, PoolQuota(r))
    BY <1>1, BodyFills
  <2>2. QED
    BY <2>1 DEF Covers, Fills
<1>2. CASE r.op = "patchTx"
  <2>1. Patching(r, w)
    BY <1>2 DEF Body
  <2>2. r.old \in Numbers /\ r.quota \in Numbers
    BY <1>2, CouponRequestShapes, BoundsAssumption DEF IInv, TypeOK
  <2>3. w = WriteSet(Put("guestQuota", r.quota), Resize(coupons, r.old, r.quota),
                     Nothing, Nothing, Nothing, Nothing)
    BY <2>1, PatchingParts
  <2>4. w.couple = Put("guestQuota", r.quota) /\ w.coupons = Resize(coupons, r.old, r.quota)
    BY <2>3, WriteSetFields
  <2>5. DOMAIN w.couple # {} /\ w.couple.guestQuota = r.quota
    BY <2>4 DEF Put
  <2>6. QED
    BY <2>2, <2>4, <2>5, ResizeCovers DEF Covers, IInv, TypeOK, Rows
<1>3. QED
  BY <1>1, <1>2

\* So does every write.
LEMMA WritingCovers ==
    ASSUME IInv, PendingCovers, NEW p \in Requests, NEW w, NEW next, Writing(req[p], w, next)
    PROVE  Covers(w)
<1>1. CASE req[p].op = "commit" /\ req[p].w = w
  BY <1>1 DEF PendingCovers, Pending
<1>2. CASE Inserting(req[p], w, next)
  <2>1. PICK n : w = [NoWrites EXCEPT !.coupons = Put(n, Available)]
    BY <1>2 DEF Inserting
  <2>2. w = WriteSet(Nothing, Put(n, Available), Nothing, Nothing, Nothing, Nothing)
    BY <2>1, RowsForm
  <2>3. w.couple = Nothing /\ w.coupons = Put(n, Available)
    BY <2>2, WriteSetFields
  <2>4. QED
    BY <2>3, RowsExist, WriteSetFields DEF Covers, Put
<1>3. CASE Marking(w)
  <2>1. PICK a : w = [NoWrites EXCEPT !.invitations = a]
    BY <1>3 DEF Marking
  <2>2. w = WriteSet(Nothing, Nothing, Nothing, Nothing, a, Nothing)
    BY <2>1, InvitationsForm
  <2>3. w.couple = Nothing /\ w.coupons = Nothing
    BY <2>2, WriteSetFields
  <2>4. QED
    BY <2>3, WriteSetFields DEF Covers
<1>4. QED
  BY <1>1, <1>2, <1>3 DEF Writing

\* What waits still covers the quota after a write that spares it: only one of
\* the two brings a quota, and the other takes no row away.
LEMMA SparedCovers ==
    ASSUME TypeOK, NEW v \in Writes, NEW w \in Writes, Covers(v), Covers(w), Disjoint(v, w),
           coupons' = Install(coupons, w.coupons)
    PROVE  Covers(v)'
<1>1. CASE DOMAIN v.couple = {}
  BY <1>1 DEF Covers
<1>2. CASE DOMAIN v.couple # {}
  <2>1. DOMAIN v.couple = {"guestQuota"} /\ v.couple.guestQuota \in Numbers
    BY <1>2, WritesTypes, WriteSetElim, BoundsAssumption
  <2>2. DOMAIN w.couple = {}
    BY <2>1, WritesTypes, WriteSetElim DEF Disjoint
  <2>3. \A n \in DOMAIN w.coupons : w.coupons[n] # Absent
    BY <2>2 DEF Covers
  <2>4. \A n \in 1 .. v.couple.guestQuota : Install(coupons, v.coupons)[n] # Absent
    BY <1>2 DEF Covers
  <2>5. 1 .. v.couple.guestQuota \subseteq Numbers
    BY <2>1, MaxQuotaAssumption DEF Numbers
  <2>6. \A n \in Numbers : n \in DOMAIN coupons /\ n \in DOMAIN coupons'
    BY DEF TypeOK, Install
  <2>7. \A n \in 1 .. v.couple.guestQuota : Install(coupons', v.coupons)[n] # Absent
    BY <2>3, <2>4, <2>5, <2>6 DEF Install
  <2>8. QED
    BY <1>2, <2>7 DEF Covers
<1>3. QED
  BY <1>1, <1>2

\* After a write that covers it, the pool covers the quota.
LEMMA WrittenCovers ==
    ASSUME TypeOK, PoolCoversQuota, NEW w \in Writes, Covers(w),
           couple' = Install(couple, w.couple), coupons' = Install(coupons, w.coupons)
    PROVE  PoolCoversQuota'
<1>1. couple \in [{"guestQuota"} -> Quotas] /\ coupons \in [Numbers -> CouponRow]
  BY DEF TypeOK
<1>2. CASE DOMAIN w.couple = {}
  <2>1. couple' = couple
    <3>1. Install(couple, w.couple) = couple
      BY <1>1, <1>2, InstallUntouched, Zenon
    <3>2. QED
      BY <3>1
  <2>2. 1 .. couple.guestQuota \subseteq Numbers
    <3>1. couple.guestQuota \in Numbers
      BY <1>1, BoundsAssumption
    <3>2. QED
      BY <3>1, MaxQuotaAssumption DEF Numbers
  <2>3. \A n \in 1 .. couple.guestQuota : coupons'[n] # Absent
    BY <1>1, <1>2, <2>2 DEF Covers, Install, PoolCoversQuota
  <2>4. QED
    BY <2>1, <2>3 DEF PoolCoversQuota
<1>3. CASE DOMAIN w.couple # {}
  <2>1. DOMAIN w.couple = {"guestQuota"}
    BY <1>3, WritesTypes, WriteSetElim
  <2>2. couple'.guestQuota = w.couple.guestQuota
    BY <1>1, <2>1 DEF Install
  <2>3. QED
    BY <1>3, <2>2 DEF Covers, PoolCoversQuota
<1>4. QED
  BY <1>2, <1>3

\* Every step keeps the pool.
LEMMA StepCovers ==
    ASSUME IInv, IInv', PoolCoversQuota, PendingCovers, [Next]_vars
    PROVE  PoolCoversQuota' /\ PendingCovers'
<1>1. CASE UNCHANGED <<documents, req>>
  BY <1>1 DEF documents, PoolCoversQuota, PendingCovers, Pending, Covers
<1>2. ASSUME NEW p \in Requests, NEW next, next.op = "commit" => Covers(next.w),
             Continue(p, next)
      PROVE  PoolCoversQuota' /\ PendingCovers'
  <2>1. req'[p] = next /\ \A q \in Requests : q # p => req'[q] = req[q]
    BY <1>2, ContinueSlots DEF IInv
  <2>2. UNCHANGED <<couple, coupons>>
    BY <1>2 DEF Continue, documents
  <2>3. ASSUME NEW q \in Requests, Pending(q)' PROVE Covers(req[q].w)'
    <3>1. PICK v : v = req'[q].w /\ Covers(v)
      BY <1>2, <2>1, <2>3 DEF PendingCovers, Pending
    <3>2. Covers(v)'
      BY <2>2, <3>1 DEF Covers
    <3>3. QED
      BY <3>1, <3>2 DEF Covers
  <2>4. QED
    BY <2>2, <2>3 DEF PoolCoversQuota, PendingCovers
<1>3. ASSUME NEW p \in Requests, Stepped(p) PROVE PoolCoversQuota' /\ PendingCovers'
  <2>1. CASE Reads(p)
    BY <1>2, <2>1 DEF Reads
  <2>2. CASE Prepares(p)
    BY <1>2, <2>2, BodyCovers DEF Prepares, Transaction, Committing
  <2>3. CASE Installs(p)
    <3>1. PICK w \in Writes, next \in Request :
            next.op # "commit" /\ Writing(req[p], w, next) /\ Write(p, w, next)
      BY <2>3 DEF Installs
    <3>2. Covers(w)
      BY <3>1, WritingCovers
    <3>3. couple' = Install(couple, w.couple) /\ coupons' = Install(coupons, w.coupons)
      BY <3>1 DEF Write
    <3>4. ASSUME NEW q \in Requests, Pending(q)' PROVE Covers(req[q].w)'
      <4>1. req'[q] = req[q] /\ Pending(q) /\ Disjoint(req[q].w, w)
        BY <3>1, <3>4, WriteSlots DEF IInv, Pending, Idle
      <4>2. PICK v : v = req[q].w /\ v \in Writes /\ Covers(v)
        BY <4>1, GuestRequestShapes DEF IInv, TypeOK, Pending, PendingCovers
      <4>3. Covers(v)'
        BY <3>2, <3>3, <4>1, <4>2, SparedCovers DEF IInv
      <4>4. v = req'[q].w
        BY <4>1, <4>2
      <4>5. QED
        BY <4>3, <4>4 DEF Covers
    <3>5. QED
      BY <3>2, <3>3, <3>4, WrittenCovers DEF IInv, PendingCovers
  <2>4. QED
    BY <1>3, <2>1, <2>2, <2>3 DEF Stepped
<1>4. QED
  BY <1>1, <1>3, StepForms

\* Whatever resizes, pool fillings and allocations overlap, at every moment there
\* is a row for each number that the couple may hand out.
THEOREM PoolCovers == Spec => []PoolCoversQuota
<1>1. Init => PoolCoversQuota /\ PendingCovers
  <2>1. ASSUME Init PROVE PoolCoversQuota
    <3>1. couple.guestQuota \in Numbers
      BY <2>1, BoundsAssumption DEF Init
    <3>2. ASSUME NEW n \in 1 .. couple.guestQuota PROVE coupons[n] # Absent
      <4>1. n \in Numbers /\ n <= couple.guestQuota
        BY <3>1, MaxQuotaAssumption DEF Numbers
      <4>2. QED
        BY <2>1, <4>1, RowsExist DEF Init
    <3>3. QED
      BY <3>2 DEF PoolCoversQuota
  <2>2. Init => PendingCovers
    BY DEF Init, PendingCovers, Pending, Idle
  <2>3. QED
    BY <2>1, <2>2
<1>2. IInv /\ IInv' /\ PoolCoversQuota /\ PendingCovers /\ [Next]_vars
        => PoolCoversQuota' /\ PendingCovers'
  BY StepCovers
<1>3. QED
  BY Invariance, <1>1, <1>2, PTL DEF Spec

-----------------------------------------------------------------------------
(* The lowest of a set of numbers.                                         *)

\* Sets of coupon numbers are finite sets of natural numbers.
LEMMA NumbersFinite ==
    /\ Numbers \subseteq Nat
    /\ IsFiniteSet(Numbers)
    /\ \A S \in SUBSET Numbers : IsFiniteSet(S) /\ Cardinality(S) \in Nat
<1>1. MaxQuota \in Nat
  BY MaxQuotaAssumption
<1>2. IsFiniteSet(Numbers)
  BY <1>1, FS_Interval DEF Numbers
<1>3. Numbers \subseteq Nat
  BY <1>1 DEF Numbers
<1>4. QED
  BY <1>2, <1>3, FS_Subset, FS_CardinalityType

LEMMA LeastNumber ==
    ASSUME NEW S \in SUBSET Nat, S # {}
    PROVE  \E m \in S : \A n \in S : m <= n
<1>1. \E m \in S : \A n \in S : ~(<<n, m>> \in OpToRel(<, Nat))
  BY NatLessThanWellFounded, WFMin
<1>2. PICK m \in S : \A n \in S : ~(<<n, m>> \in OpToRel(<, Nat))
  BY <1>1
<1>3. \A n \in S : ~(n < m)
  BY <1>2 DEF OpToRel
<1>4. QED
  BY <1>3

LEMMA GreatestNumber ==
    ASSUME NEW S \in SUBSET Numbers, S # {}
    PROVE  \E m \in S : \A n \in S : n <= m
<1> DEFINE T == {MaxQuota - n : n \in S}
<1>1. \A n \in S : n \in Nat /\ n <= MaxQuota /\ MaxQuota - n \in Nat
  BY MaxQuotaAssumption DEF Numbers
<1>2. T \in SUBSET Nat /\ T # {}
  BY <1>1
<1>3. PICK t \in T : \A x \in T : t <= x
  BY <1>2, LeastNumber
<1>4. PICK m \in S : t = MaxQuota - m
  BY <1>3
<1>5. ASSUME NEW n \in S PROVE n <= m
  <2>1. t <= MaxQuota - n
    BY <1>3
  <2>2. n \in Nat /\ m \in Nat /\ MaxQuota \in Nat
    BY <1>1, MaxQuotaAssumption
  <2>3. QED
    BY <1>4, <2>1, <2>2
<1>6. QED
  BY <1>5

\* Lowest(S, k) has at most k elements, and k of them when S has.
LEMMA LowestCount ==
    ASSUME NEW S \in SUBSET Numbers, NEW k \in Nat
    PROVE  /\ Cardinality(Lowest(S, k)) \in Nat
           /\ Cardinality(Lowest(S, k)) <= k
           /\ Cardinality(S) >= k => Cardinality(Lowest(S, k)) = k
<1> DEFINE L == Lowest(S, k)
           below(n) == {m \in S : m < n}
<1>1. /\ L \in SUBSET S
      /\ \A n \in S : n \in L <=> Cardinality(below(n)) < k
  BY DEF Lowest
<1>2. /\ IsFiniteSet(L) /\ Cardinality(L) \in Nat
      /\ IsFiniteSet(S) /\ Cardinality(S) \in Nat
      /\ \A n : IsFiniteSet(below(n)) /\ Cardinality(below(n)) \in Nat
  BY <1>1, NumbersFinite
<1>3. S \subseteq Nat
  BY NumbersFinite
<1> HIDE DEF L
<1>4. Cardinality(L) <= k
  <2>1. CASE L = {}
    BY <2>1, FS_EmptySet
  <2>2. CASE L # {}
    <3>1. PICK m \in L : \A n \in L : n <= m
      BY <1>1, <2>2, GreatestNumber
    <3>2. L \ {m} \subseteq below(m)
      BY <1>1, <1>3, <3>1
    <3>3. Cardinality(L \ {m}) = Cardinality(L) - 1
      BY <1>2, <3>1, FS_RemoveElement
    <3>4. Cardinality(L \ {m}) <= Cardinality(below(m))
      BY <1>2, <3>2, FS_Subset
    <3>5. Cardinality(below(m)) < k
      BY <1>1, <3>1
    <3>6. QED
      BY <1>2, <3>3, <3>4, <3>5
  <2>3. QED
    BY <2>1, <2>2
<1>5. ASSUME Cardinality(S) >= k, Cardinality(L) < k PROVE FALSE
  <2>1. S \ L # {}
    <3>1. S # L
      BY <1>2, <1>5
    <3>2. QED
      BY <1>1, <3>1
  <2>2. PICK m \in S \ L : \A n \in S \ L : m <= n
    BY <1>3, <2>1, LeastNumber
  <2>3. below(m) \subseteq L
    <3>1. ASSUME NEW n \in S, n < m, n \notin L PROVE FALSE
      <4>1. m <= n
        BY <2>2, <3>1
      <4>2. m \in Nat /\ n \in Nat
        BY <1>3, <2>2
      <4>3. QED
        BY <3>1, <4>1, <4>2
    <3>2. QED
      BY <3>1
  <2>4. Cardinality(below(m)) <= Cardinality(L)
    BY <1>2, <2>3, FS_Subset
  <2>5. Cardinality(below(m)) < k
    BY <1>2, <1>5, <2>4
  <2>6. QED
    BY <1>1, <2>2, <2>5
<1>6. QED
  BY <1>2, <1>4, <1>5 DEF L

-----------------------------------------------------------------------------
(* Who owns which rows.                                                    *)

\* The guest of a row.
LEMMA RowGuests ==
    /\ Absent.guest = NoGuest /\ Available.guest = NoGuest
    /\ \A g : Assigned(g).guest = g /\ Used(g).guest = g
    /\ \A g \in Guests : g # NoGuest
BY NoGuestAssumption DEF Absent, Available, Assigned, Used

\* The rows of a guest are those assigned to it and those used for it.
LEMMA OwnedRows ==
    ASSUME NEW c \in Rows, NEW g \in Guests
    PROVE  /\ OwnedBy(c, g) = AssignedTo(c, g) \cup UsedBy(c, g)
           /\ AssignedTo(c, g) \cap UsedBy(c, g) = {}
           /\ OwnedBy(c, g) \in SUBSET Numbers
           /\ OwnedBy(c, g) \cap Free(c) = {}
<1>1. ASSUME NEW n \in Numbers
      PROVE  c[n].guest = g <=> c[n] = Assigned(g) \/ c[n] = Used(g)
  <2>1. c[n] \in CouponRow
    BY DEF Rows
  <2>2. QED
    BY <2>1, RowGuests DEF CouponRow
<1>2. Assigned(g) # Used(g)
  BY RowShapes
<1>3. \A n \in Free(c) : c[n].guest # g
  BY RowGuests DEF Free
<1>4. QED
  BY <1>1, <1>2, <1>3 DEF OwnedBy, AssignedTo, UsedBy

\* A statement that keeps the guest of each row that it writes, as far as h is
\* concerned, leaves h its rows.
LEMMA RowsKept ==
    ASSUME NEW c \in Rows, NEW v \in RowWrites, NEW h,
           \A n \in DOMAIN v : v[n].guest = h <=> c[n].guest = h
    PROVE  OwnedBy(Install(c, v), h) = OwnedBy(c, h)
<1>1. DOMAIN c = Numbers
  BY DEF Rows
<1>2. QED
  BY <1>1 DEF OwnedBy, Install

\* The same for one row put under several numbers.
LEMMA PutAllKept ==
    ASSUME NEW c \in Rows, NEW S \in SUBSET Numbers, NEW row \in CouponRow, NEW h,
           row.guest # h, \A n \in S : c[n].guest # h
    PROVE  OwnedBy(Install(c, PutAll(S, row)), h) = OwnedBy(c, h)
<1>1. PutAll(S, row) \in RowWrites
  BY PutType DEF RowWrites
<1>2. DOMAIN PutAll(S, row) = S /\ \A n \in S : PutAll(S, row)[n] = row
  BY DEF PutAll
<1>3. QED
  BY <1>1, <1>2, RowsKept

\* ensurePool, resize and the write of a check-in take nobody's row and give
\* none.
LEMMA PoolKept ==
    ASSUME NEW c \in Rows, NEW h \in Guests, NEW quota, NEW oldQuota
    PROVE  /\ OwnedBy(Install(c, EnsurePool(c, quota)), h) = OwnedBy(c, h)
           /\ OwnedBy(Install(c, Resize(c, oldQuota, quota)), h) = OwnedBy(c, h)
<1>1. ASSUME NEW q PROVE OwnedBy(Install(c, EnsurePool(c, q)), h) = OwnedBy(c, h)
  <2> DEFINE S == {n \in Numbers : n <= q /\ c[n] = Absent}
  <2>1. \A n \in S : c[n].guest # h
    BY RowGuests
  <2> HIDE DEF S
  <2>2. S \in SUBSET Numbers
    BY DEF S
  <2>3. OwnedBy(Install(c, PutAll(S, Available)), h) = OwnedBy(c, h)
    BY <2>1, <2>2, RowGuests, RowShapes, PutAllKept
  <2>4. QED
    BY <2>3 DEF EnsurePool, S
<1> DEFINE grown == EnsurePool(c, Larger(oldQuota, quota))
           d     == Install(c, grown)
           S     == Above(oldQuota, quota) \cap Free(d)
<1>2. d \in Rows
  BY EnsurePoolReallocates, InstallType DEF Reallocates, Rows, RowWrites
<1>3. OwnedBy(d, h) = OwnedBy(c, h)
  BY <1>1
<1>4. Install(c, Resize(c, oldQuota, quota)) = Install(d, PutAll(S, Absent))
  BY InstallThen DEF Resize
<1> HIDE DEF d
<1>5. S \in SUBSET Numbers /\ \A n \in S : d[n].guest # h
  BY RowGuests DEF Free, Above
<1>6. OwnedBy(Install(d, PutAll(S, Absent)), h) = OwnedBy(d, h)
  <2> HIDE DEF S
  <2>1. QED
    BY <1>2, <1>5, RowGuests, RowShapes, PutAllKept
<1>7. QED
  BY <1>1, <1>3, <1>4, <1>6

\* A check-in uses rows for the guest they are assigned to.
LEMMA UseAllKept ==
    ASSUME NEW c \in Rows, NEW g \in Guests, NEW h \in Guests
    PROVE  OwnedBy(Install(c, UseAll(c, g)), h) = OwnedBy(c, h)
<1>1. UseAll(c, g) \in RowWrites
  BY PutType, RowShapes, Selections DEF RowWrites, UseAll
<1>2. \A n \in DOMAIN UseAll(c, g) : UseAll(c, g)[n].guest = g /\ c[n].guest = g
  BY RowGuests DEF UseAll, PutAll, AssignedTo
<1>3. QED
  BY <1>1, <1>2, RowsKept

\* Releasing the rows of some guests leaves the others theirs.
LEMMA ReleaseKept ==
    ASSUME NEW c \in Rows, NEW G, NEW h \in Guests
    PROVE  /\ h \notin G => OwnedBy(Install(c, Release(c, G)), h) = OwnedBy(c, h)
           /\ OwnedBy(Install(c, Release(c, G)), h) \subseteq OwnedBy(c, h)
<1> DEFINE S == {n \in Numbers : c[n].status = "ASSIGNED" /\ c[n].guest \in G}
<1>1. S \in SUBSET Numbers /\ \A n \in S : c[n].guest \in G
  OBVIOUS
<1>2. Release(c, G) = PutAll(S, Available)
  BY DEF Release
<1> HIDE DEF S
<1>3. h \notin G => OwnedBy(Install(c, PutAll(S, Available)), h) = OwnedBy(c, h)
  BY <1>1, RowGuests, RowShapes, PutAllKept
<1>4. OwnedBy(Install(c, PutAll(S, Available)), h) \subseteq OwnedBy(c, h)
  <2>1. DOMAIN c = Numbers
    BY DEF Rows
  <2>2. QED
    BY <2>1, RowGuests DEF OwnedBy, Install, PutAll
<1>5. QED
  BY <1>2, <1>3, <1>4

\* v brings the rows of g to k and leaves the other guests theirs.
Gives(c, v, g, k) ==
    /\ v \in RowWrites
    /\ \A h \in Guests \ {g} : OwnedBy(Install(c, v), h) = OwnedBy(c, h)
    /\ Cardinality(OwnedBy(Install(c, v), g)) = k

\* assignLowest gives the guest that many rows more.
LEMMA AssignLowestGives ==
    ASSUME NEW c \in Rows, NEW g \in Guests, NEW k \in Nat, AssignLowestAble(c, k)
    PROVE  Gives(c, AssignLowest(c, g, k), g, Cardinality(OwnedBy(c, g)) + k)
<1> DEFINE S == Lowest(Free(c), k)
           v == PutAll(S, Assigned(g))
           O == OwnedBy(c, g)
<1>1. S \in SUBSET Free(c) /\ S \in SUBSET Numbers /\ Free(c) \in SUBSET Numbers
  BY Selections
<1>2. IsFiniteSet(S) /\ Cardinality(S) = k
  <2>1. Cardinality(S) \in Nat /\ Cardinality(S) <= k
    BY <1>1, LowestCount
  <2>2. Cardinality(S) >= k
    BY DEF AssignLowestAble
  <2>3. QED
    BY <1>1, <2>1, <2>2, NumbersFinite
<1> HIDE DEF S
<1>3. v \in RowWrites
  BY <1>1, PutType, RowShapes DEF RowWrites
<1>4. ASSUME NEW h \in Guests \ {g} PROVE OwnedBy(Install(c, v), h) = OwnedBy(c, h)
  <2>1. \A n \in S : c[n].guest # h
    BY <1>1, RowGuests DEF Free
  <2>2. QED
    BY <1>1, <2>1, RowGuests, RowShapes, PutAllKept
<1>5. OwnedBy(Install(c, v), g) = O \cup S
  <2>1. DOMAIN c = Numbers
    BY DEF Rows
  <2>2. QED
    BY <1>1, <2>1, RowGuests DEF OwnedBy, Install, PutAll
<1>6. O \in SUBSET Numbers /\ O \cap S = {}
  BY <1>1, OwnedRows
<1> HIDE DEF v, O
<1>7. Cardinality(O \cup S) = Cardinality(O) + k
  <2>1. IsFiniteSet(O) /\ Cardinality(O) \in Nat
    BY <1>6, NumbersFinite
  <2>2. Cardinality(O \cup S) = Cardinality(O) + Cardinality(S) - Cardinality(O \cap S)
    BY <1>2, <2>1, FS_Union
  <2>3. Cardinality(O \cap S) = 0
    BY <1>6, FS_EmptySet
  <2>4. QED
    BY <1>2, <2>1, <2>2, <2>3
<1>8. Gives(c, v, g, Cardinality(O) + k)
  BY <1>3, <1>4, <1>5, <1>7 DEF Gives
<1>9. QED
  BY <1>8 DEF AssignLowest, v, S, O

\* assignNumbers gives the guest the rows in numbers and no other.
LEMMA AssignNumbersGives ==
    ASSUME NEW c \in Rows, NEW g \in Guests, NEW k, NEW numbers \in SUBSET Numbers,
           AssignNumbersAble(c, g, k, numbers)
    PROVE  /\ Gives(c, AssignNumbers(c, g, numbers), g, k)
           /\ OwnedBy(Install(c, AssignNumbers(c, g, numbers)), g) = numbers
<1> DEFINE v == AssignNumbers(c, g, numbers)
<1>1. v \in RowWrites
  BY AssignNumbersReallocates DEF Reallocates
<1>2. /\ DOMAIN v = AssignedTo(c, g) \cup numbers
      /\ \A n \in DOMAIN v :
            v[n] = IF n \in numbers THEN Assigned(g) ELSE Available
  BY DEF AssignNumbers, Then, PutAll
<1>3. /\ \A n \in AssignedTo(c, g) : c[n].guest = g
      /\ \A n \in numbers : c[n].guest \in {NoGuest, g}
      /\ OwnedBy(c, g) = AssignedTo(c, g)
      /\ Cardinality(numbers) = k
  BY OwnedRows, RowGuests DEF AssignNumbersAble, AssignedTo
<1> HIDE DEF v
<1>4. ASSUME NEW h \in Guests \ {g} PROVE OwnedBy(Install(c, v), h) = OwnedBy(c, h)
  <2>1. \A n \in DOMAIN v : v[n].guest # h /\ c[n].guest # h
    BY <1>2, <1>3, RowGuests
  <2>2. QED
    BY <1>1, <2>1, RowsKept
<1>5. OwnedBy(Install(c, v), g) = numbers
  <2>1. ASSUME NEW n \in Numbers
        PROVE  Install(c, v)[n].guest = g <=> n \in numbers
    <3>1. Install(c, v)[n] = IF n \in DOMAIN v THEN v[n] ELSE c[n]
      BY DEF Install, Rows
    <3>2. CASE n \in DOMAIN v
      BY <1>2, <3>1, <3>2, RowGuests
    <3>3. CASE n \notin DOMAIN v
      BY <1>2, <1>3, <3>1, <3>3 DEF OwnedBy
    <3>4. QED
      BY <3>2, <3>3
  <2>2. QED
    BY <2>1 DEF OwnedBy
<1>6. QED
  BY <1>1, <1>3, <1>4, <1>5 DEF Gives, v

\* syncCount brings the guest to the desired count.
LEMMA SyncCountGives ==
    ASSUME NEW c \in Rows, NEW g \in Guests, NEW k \in Nat, SyncCountAble(c, g, k)
    PROVE  Gives(c, SyncCount(c, g, k), g, k)
<1> DEFINE A == AssignedTo(c, g)
<1>1. A \in SUBSET Numbers /\ IsFiniteSet(A) /\ Cardinality(A) \in Nat
  BY Selections, NumbersFinite
<1>2. SyncCount(c, g, k) \in RowWrites
  BY SyncCountReallocates DEF Reallocates
<1>3. CASE UsedBy(c, g) # {}
  <2>1. SyncCount(c, g, k) = Nothing /\ Cardinality(OwnedBy(c, g)) = k
    BY <1>3 DEF SyncCount, SyncCountAble
  <2>2. Install(c, Nothing) = c
    BY InstallNothing DEF Rows
  <2>3. QED
    BY <1>2, <2>1, <2>2 DEF Gives
<1>4. CASE UsedBy(c, g) = {} /\ Shortage(c, g, k) > 0
  <2> DEFINE s == Shortage(c, g, k)
  <2>1. s = k - Cardinality(A) /\ s \in Nat /\ Cardinality(A) + s = k
    BY <1>1, <1>4 DEF Shortage
  <2>2. AssignLowestAble(c, s) /\ SyncCount(c, g, k) = AssignLowest(c, g, s)
    BY <1>4 DEF SyncCountAble, SyncCount
  <2>3. OwnedBy(c, g) = A
    BY <1>4, OwnedRows
  <2> HIDE DEF s, A
  <2>4. Gives(c, AssignLowest(c, g, s), g, Cardinality(A) + s)
    BY <2>1, <2>2, <2>3, AssignLowestGives
  <2>5. QED
    BY <2>1, <2>2, <2>4
<1>5. CASE UsedBy(c, g) = {} /\ ~(Shortage(c, g, k) > 0)
  <2> DEFINE L == Lowest(A, k)
             v == PutAll(A \ L, Available)
  <2>1. SyncCount(c, g, k) = v
    BY <1>5 DEF SyncCount, Surplus
  <2>2. OwnedBy(c, g) = A
    BY <1>5, OwnedRows
  <2>3. Cardinality(A) >= k
    BY <1>1, <1>5 DEF Shortage
  <2>4. L \subseteq A /\ Cardinality(L) = k
    BY <1>1, <2>3, LowestCount, Selections
  <2>5. \A n \in A : c[n].guest = g
    BY RowGuests DEF AssignedTo
  <2> HIDE DEF L, A
  <2>6. ASSUME NEW h \in Guests \ {g} PROVE OwnedBy(Install(c, v), h) = OwnedBy(c, h)
    <3>1. \A n \in A \ L : c[n].guest # h
      BY <2>5
    <3>2. QED
      BY <1>1, <3>1, RowGuests, RowShapes, PutAllKept
  <2>7. OwnedBy(Install(c, v), g) = L
    <3>1. DOMAIN c = Numbers
      BY DEF Rows
    <3>2. OwnedBy(Install(c, v), g) = OwnedBy(c, g) \ (A \ L)
      BY <1>1, <3>1, RowGuests DEF OwnedBy, Install, PutAll
    <3>3. QED
      BY <2>2, <2>4, <3>2
  <2>8. QED
    BY <1>2, <2>1, <2>4, <2>6, <2>7 DEF Gives
<1>6. QED
  BY <1>3, <1>4, <1>5

\* Settling the coupons of a guest gives it count rows.
LEMMA SettlesGives ==
    ASSUME coupons \in Rows, NEW g \in Guests, NEW count \in Nat, NEW rows,
           Settles(g, count, rows)
    PROVE  Gives(coupons, rows, g, count)
BY AssignNumbersGives, SyncCountGives DEF Settles

\* So does the allocation of a guest that had none.
LEMMA AllocationGives ==
    ASSUME NEW c \in Rows, NEW g \in Guests, NEW row \in GuestRow,
           AllocationAble(c, g, row), Cardinality(OwnedBy(c, g)) = 0
    PROVE  Gives(c, Allocation(c, g, row), g, row.coupons)
<1>1. row.coupons \in Nat /\ row.numbers \in SUBSET Numbers
  BY BoundsAssumption DEF GuestRow, Counts
<1>2. 0 + row.coupons = row.coupons
  BY <1>1
<1>3. CASE row.numbers # {}
  BY <1>1, <1>3, AssignNumbersGives DEF AllocationAble, Allocation
<1>4. CASE row.numbers = {}
  <2>1. /\ AssignLowestAble(c, row.coupons)
        /\ Allocation(c, g, row) = AssignLowest(c, g, row.coupons)
    BY <1>4 DEF AllocationAble, Allocation
  <2>2. Gives(c, AssignLowest(c, g, row.coupons), g,
              Cardinality(OwnedBy(c, g)) + row.coupons)
    BY <1>1, <2>1, AssignLowestGives
  <2>3. QED
    BY <1>2, <2>1, <2>2
<1>5. QED
  BY <1>3, <1>4

-----------------------------------------------------------------------------
(* Every live guest has its count.                                         *)

\* The coupons of the guests that are live, or not there yet, are as many as
\* their documents say.
Exact(c, gs) ==
    \A g \in Guests :
        gs[g].phase \in {"none", "live"} => Cardinality(OwnedBy(c, g)) = gs[g].coupons

\* An id that is not used yet has no coupon, and a live guest has some.
Sized ==
    \A g \in Guests :
        /\ guests[g].phase = "none" => guests[g].coupons = 0
        /\ Live(g) => guests[g].coupons # 0

\* w writes no unused id, and a live guest only over one that is live or new.
Enlivens(w) ==
    \A g \in DOMAIN w.guests :
        /\ w.guests[g].phase # "none"
        /\ w.guests[g].phase = "live" =>
            guests[g].phase \in {"none", "live"} /\ w.guests[g].coupons # 0

\* Once w is written the counts are still exact.
Balanced(w) == Exact(CouponsSeen(w), GuestsSeen(w)) /\ Enlivens(w)

\* A write set whose guests get their new counts, and the others theirs.
LEMMA BalancedIntro ==
    ASSUME TypeOK, Exact(coupons, guests), NEW w \in Writes,
           \A g \in Guests \ DOMAIN w.guests :
                Cardinality(OwnedBy(CouponsSeen(w), g)) = Cardinality(OwnedBy(coupons, g)),
           Enlivens(w),
           \A g \in DOMAIN w.guests : w.guests[g].phase = "live" =>
                Cardinality(OwnedBy(CouponsSeen(w), g)) = w.guests[g].coupons
    PROVE  Balanced(w)
<1>1. DOMAIN guests = Guests
  BY DEF TypeOK
<1>2. \A g \in Guests : GuestsSeen(w)[g] =
        IF g \in DOMAIN w.guests THEN w.guests[g] ELSE guests[g]
  BY <1>1 DEF GuestsSeen, Install
<1>3. ASSUME NEW g \in Guests, GuestsSeen(w)[g].phase \in {"none", "live"}
      PROVE  Cardinality(OwnedBy(CouponsSeen(w), g)) = GuestsSeen(w)[g].coupons
  <2>1. CASE g \in DOMAIN w.guests
    BY <1>2, <1>3, <2>1 DEF Enlivens
  <2>2. CASE g \notin DOMAIN w.guests
    BY <1>2, <1>3, <2>2 DEF Exact
  <2>3. QED
    BY <2>1, <2>2
<1>4. QED
  BY <1>3 DEF Balanced, Exact

\* In particular one that writes no guest and no row but leaves the owners.
LEMMA RowsBalanced ==
    ASSUME TypeOK, Exact(coupons, guests), NEW w \in Writes, DOMAIN w.guests = {},
           \A g \in Guests :
                Cardinality(OwnedBy(CouponsSeen(w), g)) = Cardinality(OwnedBy(coupons, g))
    PROVE  Balanced(w)
BY BalancedIntro DEF Enlivens

\* A write set in the making, balanced.
LEMMA EnsuringBalanced ==
    ASSUME TypeOK, NEW w, Partial(w), Balanced(w), NEW quota
    PROVE  Balanced(EnsuringPool(w, quota))
<1>1. w \in Writes /\ CouponsSeen(w) \in Rows
  BY SeenType DEF Partial
<1>2. EnsuringPool(w, quota).guests = w.guests
  BY <1>1, EnsuringParts
<1>3. \A g \in Guests :
        OwnedBy(CouponsSeen(EnsuringPool(w, quota)), g) = OwnedBy(CouponsSeen(w), g)
  BY <1>1, PoolKept, SeenThen
<1>4. QED
  BY <1>2, <1>3 DEF Balanced, Exact, Enlivens, GuestsSeen

LEMMA AddingBalanced ==
    ASSUME TypeOK, Sized, NEW w, Partial(w), Balanced(w),
           NEW g \in Guests, NEW row \in GuestRow, AddingAble(w, g, row)
    PROVE  Balanced(Adding(w, g, row))
<1> DEFINE x == Adding(w, g, row)
           c == CouponsSeen(w)
           v == Allocation(c, g, row)
<1>1. w \in Writes /\ c \in Rows
  BY SeenType DEF Partial
<1>2. x.guests = Then(w.guests, Put(g, NewGuest(row)))
  BY <1>1, AddingParts
<1>3. CouponsSeen(x) = Install(c, v)
  BY SeenThen
<1>4. guests[g].phase = "none" /\ g \notin DOMAIN w.guests /\ AllocationAble(c, g, row)
  BY DEF AddingAble, Fresh
<1>5. DOMAIN guests = Guests
  BY DEF TypeOK
<1>6. GuestsSeen(w)[g] = guests[g]
  BY <1>4, <1>5 DEF GuestsSeen, Install
<1>7. Cardinality(OwnedBy(c, g)) = 0
  BY <1>4, <1>6 DEF Balanced, Exact, Sized
<1> HIDE DEF c
<1>8. Gives(c, v, g, row.coupons)
  BY <1>1, <1>4, <1>7, AllocationGives
<1>9. GuestsSeen(x) = Install(GuestsSeen(w), Put(g, NewGuest(row)))
  BY <1>2, InstallThen DEF GuestsSeen
<1>10. \A h \in Guests : GuestsSeen(x)[h] = IF h = g THEN NewGuest(row) ELSE GuestsSeen(w)[h]
  <2>1. DOMAIN GuestsSeen(w) = Guests
    BY <1>5 DEF GuestsSeen, Install
  <2>2. QED
    BY <1>9, <2>1 DEF Install, Put
<1> HIDE DEF v, x
<1>11. Exact(CouponsSeen(x), GuestsSeen(x))
  <2> SUFFICES ASSUME NEW h \in Guests, GuestsSeen(x)[h].phase \in {"none", "live"}
               PROVE  Cardinality(OwnedBy(CouponsSeen(x), h)) = GuestsSeen(x)[h].coupons
    BY DEF Exact
  <2>1. CASE h = g
    BY <1>3, <1>8, <1>10, <2>1 DEF Gives, NewGuest
  <2>2. CASE h # g
    BY <1>3, <1>8, <1>10, <2>2 DEF Gives, Balanced, Exact, c
  <2>3. QED
    BY <2>1, <2>2
<1>12. Enlivens(x)
  <2> SUFFICES ASSUME NEW h \in DOMAIN x.guests
               PROVE  /\ x.guests[h].phase # "none"
                      /\ x.guests[h].phase = "live" =>
                            guests[h].phase \in {"none", "live"} /\ x.guests[h].coupons # 0
    BY DEF Enlivens
  <2>1. CASE h = g
    <3>1. x.guests[h] = NewGuest(row)
      BY <1>2, <2>1 DEF Then, Put
    <3>2. row.coupons # 0
      BY BoundsAssumption DEF GuestRow, Counts
    <3>3. QED
      BY <1>4, <2>1, <3>1, <3>2 DEF NewGuest
  <2>2. CASE h # g
    <3>1. h \in DOMAIN w.guests /\ x.guests[h] = w.guests[h]
      BY <1>2, <2>2 DEF Then, Put
    <3>2. QED
      BY <3>1 DEF Balanced, Enlivens
  <2>3. QED
    BY <2>1, <2>2
<1>13. QED
  BY <1>11, <1>12 DEF Balanced, x

\* A replace leaves no live guest.
LEMMA PurgingBalanced ==
    ASSUME TypeOK, Sized, NEW w, Partial(w), Balanced(w), w.guests = Nothing
    PROVE  Balanced(Purging(w))
<1> DEFINE x == Purging(w)
           c == CouponsSeen(w)
<1>1. w \in Writes /\ c \in Rows
  BY SeenType DEF Partial
<1>2. x.guests = PutAll({g \in Guests : Stored(g)}, NoGuestDocument("gone"))
  BY <1>1, PurgingParts
<1>3. CouponsSeen(x) = Install(c, Release(c, Guests))
  BY SeenThen
<1>4. guests \in [Guests -> GuestDocument] /\ DOMAIN guests = Guests
  BY DEF TypeOK
<1>5. GuestsSeen(w) = guests
  BY <1>4, InstallNothing DEF GuestsSeen
<1> HIDE DEF x
<1>6. Exact(CouponsSeen(x), GuestsSeen(x))
  <2> SUFFICES ASSUME NEW g \in Guests, GuestsSeen(x)[g].phase \in {"none", "live"}
               PROVE  Cardinality(OwnedBy(CouponsSeen(x), g)) = GuestsSeen(x)[g].coupons
    BY DEF Exact
  <2>1. GuestsSeen(x)[g] = IF Stored(g) THEN NoGuestDocument("gone") ELSE guests[g]
    BY <1>2, <1>4 DEF GuestsSeen, Install, PutAll
  <2>2. ~Stored(g) /\ GuestsSeen(x)[g] = guests[g]
    BY <2>1 DEF NoGuestDocument
  <2>3. guests[g].phase = "none" /\ guests[g].coupons = 0
    BY <2>2 DEF Stored, Sized
  <2>4. Cardinality(OwnedBy(c, g)) = 0
    BY <1>5, <2>3 DEF Balanced, Exact
  <2>5. OwnedBy(c, g) = {}
    BY <1>1, <2>4, OwnedRows, NumbersFinite, FS_EmptySet
  <2>6. OwnedBy(CouponsSeen(x), g) = {}
    BY <1>1, <1>3, <2>5, ReleaseKept
  <2>7. QED
    BY <2>2, <2>3, <2>6, FS_EmptySet
<1>7. Enlivens(x)
  BY <1>2 DEF Enlivens, PutAll, NoGuestDocument
<1>8. QED
  BY <1>6, <1>7 DEF Balanced, x

\* create, bulk and replace
LEMMA CreatingBalanced ==
    ASSUME TypeOK, Exact(coupons, guests), Sized, NEW quota, NEW w, Creating(quota, w)
    PROVE  Balanced(w)
<1> DEFINE pool == EnsuringPool(NoWrites, quota)
<1>1. Partial(NoWrites) /\ NoWrites \in Writes /\ NoWrites.guests = Nothing
  BY EmptyPartial DEF Partial, NoWrites
<1>2. Balanced(NoWrites)
  BY <1>1, SeenAtStart DEF Balanced, Enlivens, Nothing
<1>3. Partial(pool) /\ Balanced(pool) /\ pool.guests = Nothing
  BY <1>1, <1>2, EnsuringPartial, EnsuringBalanced, EnsuringParts
<1> HIDE DEF pool
<1>4. Partial(Purging(pool)) /\ Balanced(Purging(pool))
  BY <1>3, PurgingPartial, PurgingBalanced
<1>5. ASSUME NEW x, Partial(x), Balanced(x), NEW y, Added(x, y)
      PROVE  Partial(y) /\ Balanced(y)
  BY <1>5, AddingPartial, AddingBalanced DEF Added
<1>6. PICK x : /\ Opened(quota, x)
               /\ \/ w = x
                  \/ Added(x, w)
                  \/ \E y : Added(x, y) /\ Added(y, w)
  BY DEF Creating
<1>7. Partial(x) /\ Balanced(x)
  BY <1>3, <1>4, <1>6 DEF Opened, pool
<1>8. QED
  BY <1>5, <1>6, <1>7

\* One guest is saved with a new count and the coupons that go with it.
LEMMA SavingBalanced ==
    ASSUME TypeOK, Exact(coupons, guests), NEW w \in Writes, NEW g \in Guests, NEW document,
           w.guests = Put(g, document),
           document.phase = "live" => guests[g].phase = "live",
           document.phase # "none",
           document.phase = "live" => document.coupons # 0,
           \A h \in Guests \ {g} : OwnedBy(CouponsSeen(w), h) = OwnedBy(coupons, h),
           document.phase = "live" =>
                Cardinality(OwnedBy(CouponsSeen(w), g)) = document.coupons
    PROVE  Balanced(w)
<1>1. DOMAIN w.guests = {g} /\ w.guests[g] = document
  BY DEF Put
<1>2. Enlivens(w)
  BY <1>1 DEF Enlivens
<1>3. QED
  BY <1>1, <1>2, BalancedIntro

\* Guests are saved with the count that they have, and no row is.
LEMMA DocumentsBalanced ==
    ASSUME TypeOK, Exact(coupons, guests), Sized, NEW w \in Writes, DOMAIN w.coupons = {},
           \A g \in DOMAIN w.guests :
                /\ Live(g) /\ w.guests[g].phase = "live"
                /\ w.guests[g].coupons = guests[g].coupons
    PROVE  Balanced(w)
<1>1. CouponsSeen(w) = coupons
  BY InstallUntouched DEF TypeOK, CouponsSeen
<1>2. DOMAIN w.guests \subseteq Guests
  BY WritesTypes, WriteSetElim
<1>3. Enlivens(w)
  BY <1>2 DEF Enlivens, Live, Sized
<1>4. \A g \in DOMAIN w.guests :
        Cardinality(OwnedBy(CouponsSeen(w), g)) = w.guests[g].coupons
  BY <1>1, <1>2 DEF Exact, Live
<1>5. QED
  BY <1>1, <1>3, <1>4, BalancedIntro

LEMMA UpdatingBalanced ==
    ASSUME TypeOK, Exact(coupons, guests), Sized, NEW r, r.guest \in Guests,
           r.coupons \in 0 .. MaxCoupons, NEW w \in Writes, Updating(r, w)
    PROVE  Balanced(w)
<1> DEFINE g == r.guest
           k == IF r.coupons = 0 THEN guests[r.guest].coupons ELSE r.coupons
           document == [guests[r.guest] EXCEPT !.coupons = k]
<1>1. PICK rows :
        /\ \/ Settles(g, k, rows)
           \/ r.coupons = 0 /\ rows = Nothing
        /\ w = WriteSet(Nothing, rows, Put(g, document), Nothing, Nothing, Nothing)
  BY UpdatingParts
<1>2. guests[g] \in GuestDocument /\ coupons \in Rows
  BY DEF TypeOK, Rows
<1>3. k \in Nat
  BY <1>2, BoundsAssumption DEF GuestDocument
<1>4. /\ document.phase = guests[g].phase /\ document.coupons = k
      /\ document.phase # "none"
      /\ document.phase = "live" => document.coupons # 0
  <2>1. document.phase = guests[g].phase /\ document.coupons = k
    BY <1>2 DEF GuestDocument
  <2>2. guests[g].phase # "none"
    BY DEF Updating, Stored
  <2>3. guests[g].phase = "live" => k # 0
    BY DEF Sized, Live
  <2>4. QED
    BY <2>1, <2>2, <2>3
<1> HIDE DEF document
<1>5. w.guests = Put(g, document) /\ CouponsSeen(w) = Install(coupons, rows)
  BY <1>1, WriteSetFields DEF CouponsSeen
<1>6. CASE Settles(g, k, rows)
  <2>1. Gives(coupons, rows, g, k)
    BY <1>2, <1>3, <1>6, SettlesGives
  <2>2. QED
    BY <1>4, <1>5, <2>1, SavingBalanced DEF Gives
<1>7. CASE r.coupons = 0 /\ rows = Nothing
  <2>1. CouponsSeen(w) = coupons
    BY <1>2, <1>5, <1>7, InstallNothing DEF Rows
  <2>2. guests[g].phase = "live" => Cardinality(OwnedBy(coupons, g)) = k
    BY <1>7 DEF Exact
  <2>3. QED
    BY <1>4, <1>5, <2>1, <2>2, SavingBalanced
<1>8. QED
  BY <1>1, <1>6, <1>7

LEMMA RemovingBalanced ==
    ASSUME TypeOK, Exact(coupons, guests), NEW g \in Guests, NEW w \in Writes,
           Removing(g, w)
    PROVE  Balanced(w)
<1> DEFINE document == [guests[g] EXCEPT !.phase = "deleted"]
<1>1. guests[g] \in GuestDocument /\ coupons \in Rows
  BY DEF TypeOK, Rows
<1>2. document.phase = "deleted"
  BY <1>1 DEF GuestDocument
<1>3. w.guests = Put(g, document) /\ w.coupons = Release(coupons, {g})
  <2>1. w = WriteSet(Nothing, Release(coupons, {g}), Put(g, document),
                     PutAll(SeatsOf(g), NoGuest), RevokingActive(g), Nothing)
    BY RemovingParts, Zenon
  <2> HIDE DEF document
  <2>2. QED
    BY <2>1, WriteSetFields
<1> HIDE DEF document
<1>4. \A h \in Guests \ {g} : OwnedBy(CouponsSeen(w), h) = OwnedBy(coupons, h)
  BY <1>1, <1>3, ReleaseKept DEF CouponsSeen
<1>5. QED
  BY <1>2, <1>3, <1>4, SavingBalanced

LEMMA MovingBalanced ==
    ASSUME TypeOK, Exact(coupons, guests), NEW g \in Guests, Stored(g), NEW w \in Writes,
           Moving(g, w)
    PROVE  Balanced(w)
<1>1. coupons \in Rows
  BY DEF TypeOK, Rows
<1>2. PICK numbers \in SUBSET Numbers :
        /\ AssignNumbersAble(coupons, g, guests[g].coupons, numbers)
        /\ w = WriteSet(Nothing, AssignNumbers(coupons, g, numbers),
                        Nothing, Nothing, Nothing, Nothing)
  BY MovingParts
<1>3. w.coupons = AssignNumbers(coupons, g, numbers) /\ DOMAIN w.guests = {}
  BY <1>2, WriteSetFields
<1>4. Gives(coupons, w.coupons, g, guests[g].coupons)
  BY <1>1, <1>2, <1>3, AssignNumbersGives
<1>5. GuestsSeen(w) = guests
  BY <1>3, InstallUntouched DEF TypeOK, GuestsSeen
<1>6. Exact(CouponsSeen(w), guests)
  BY <1>4 DEF Exact, Gives, CouponsSeen
<1>7. QED
  BY <1>3, <1>5, <1>6 DEF Balanced, Enlivens

\* reconcile finds nothing to settle: it only fills the pool.
LEMMA NothingToSettle ==
    ASSUME TypeOK, Exact(coupons, guests), NEW c \in Rows,
           \A g \in Guests : OwnedBy(c, g) = OwnedBy(coupons, g)
    PROVE  Short(c) = {} /\ Excess(c) = {}
<1>1. ASSUME NEW g \in Adjustable(c)
      PROVE  /\ g \in Guests /\ Cardinality(AssignedTo(c, g)) = guests[g].coupons
             /\ guests[g].coupons \in Nat
  <2>1. g \in Guests /\ Live(g) /\ UsedBy(c, g) = {}
    BY <1>1 DEF Adjustable
  <2>2. OwnedBy(coupons, g) = AssignedTo(c, g)
    BY <2>1, OwnedRows
  <2>3. guests[g].coupons \in Nat
    BY <2>1, BoundsAssumption DEF TypeOK, GuestDocument
  <2>4. QED
    BY <2>1, <2>2, <2>3 DEF Exact, Live
<1>2. Short(c) = {}
  BY <1>1 DEF Short, Shortage
<1>3. ASSUME NEW g \in Adjustable(c) PROVE Surplus(c, g, guests[g].coupons) = {}
  <2> DEFINE A == AssignedTo(c, g)
             k == guests[g].coupons
             L == Lowest(A, k)
  <2>1. A \in SUBSET Numbers /\ k \in Nat /\ Cardinality(A) = k /\ IsFiniteSet(A)
    BY <1>1, <1>3, Selections, NumbersFinite
  <2>2. Cardinality(L) = k /\ L \subseteq A
    <3> HIDE DEF A, k
    <3>1. QED
      BY <2>1, LowestCount, Selections
  <2>3. L = A
    <3> HIDE DEF A, L, k
    <3>1. QED
      BY <2>1, <2>2, FS_Subset
  <2>4. QED
    BY <2>3 DEF Surplus
<1>4. Excess(c) = {}
  BY <1>3 DEF Excess
<1>5. QED
  BY <1>2, <1>4

LEMMA ReconcilingBalanced ==
    ASSUME TypeOK, Exact(coupons, guests), NEW quota, NEW w \in Writes,
           Reconciling(quota, w)
    PROVE  Balanced(w)
<1> DEFINE pool == EnsurePool(coupons, quota)
           c    == Install(coupons, pool)
<1>1. coupons \in Rows /\ pool \in RowWrites /\ c \in Rows
  BY EnsurePoolReallocates, InstallType DEF TypeOK, Rows, RowWrites, Reallocates
<1>2. \A g \in Guests : OwnedBy(c, g) = OwnedBy(coupons, g)
  BY <1>1, PoolKept
<1> HIDE DEF pool, c
<1>3. Short(c) = {} /\ Excess(c) = {}
  BY <1>1, <1>2, NothingToSettle
<1>4. PICK rows : /\ w = [NoWrites EXCEPT !.coupons = Then(pool, rows)]
                  /\ \/ rows = Nothing
                     \/ \E given \in Fillings(c) :
                          rows = Then([n \in DOMAIN given |-> Assigned(given[n])],
                                      PutAll(Excess(c), Available))
  BY DEF Reconciling, pool, c
<1>5. DOMAIN rows = {}
  <2>1. CASE rows = Nothing
    BY <2>1 DEF Nothing
  <2>2. ASSUME NEW given \in Fillings(c),
               rows = Then([n \in DOMAIN given |-> Assigned(given[n])],
                           PutAll(Excess(c), Available))
        PROVE  DOMAIN rows = {}
    <3>1. \A n \in DOMAIN given : given[n] \in Short(c)
      BY DEF Fillings
    <3>2. DOMAIN given = {}
      BY <1>3, <3>1
    <3>3. QED
      BY <1>3, <2>2, <3>2 DEF Then, PutAll
  <2>3. QED
    BY <1>4, <2>1, <2>2
<1>6. w = WriteSet(Nothing, Then(pool, rows), Nothing, Nothing, Nothing, Nothing)
  BY <1>4, RowsForm
<1>7. CouponsSeen(w) = Install(c, rows)
  BY <1>6, WriteSetFields, InstallThen DEF CouponsSeen, c
<1>8. Install(c, rows) = c
  BY <1>1, <1>5, InstallUntouched DEF Rows
<1>9. DOMAIN w.guests = {}
  BY <1>6, WriteSetFields
<1>10. QED
  BY <1>2, <1>7, <1>8, <1>9, RowsBalanced

\* What seating changes of a guest.
LEMMA SeatedDocument ==
    ASSUME NEW d \in GuestDocument, NEW t, NEW m
    PROVE  /\ [d EXCEPT !.table = t, !.mirror = m].phase = d.phase
           /\ [d EXCEPT !.table = t, !.mirror = m].coupons = d.coupons
           /\ [d EXCEPT !.table = t, !.mirror = m].table = t
           /\ [d EXCEPT !.table = t, !.mirror = m].mirror = m
BY DEF GuestDocument

\* Seating writes live guests, with their seats and their table only.
LEMMA SeatedGuests ==
    ASSUME TypeOK, NEW w \in Writes, Seated(w) \/ Unseated(w)
    PROVE  /\ DOMAIN w.coupons = {}
           /\ \A g \in DOMAIN w.guests :
                /\ g \in Guests /\ Live(g) /\ w.guests[g].phase = "live"
                /\ w.guests[g].coupons = guests[g].coupons
<1>1. \A g \in Guests : guests[g] \in GuestDocument
  BY DEF TypeOK
<1>2. CASE Seated(w)
  <2>1. PICK G \in SUBSET Guests, t \in Tables :
            /\ \A g \in G : Live(g)
            /\ \E chosen \in Choices(G, t) : w = Seating(G, t, chosen)
    BY <1>2 DEF Seated
  <2>2. PICK chosen \in Choices(G, t) : w = Seating(G, t, chosen)
    BY <2>1
  <2> DEFINE held(g) == {s \in DOMAIN chosen : chosen[s] = g}
             a == [g \in G |-> [guests[g] EXCEPT !.table = t, !.mirror = held(g)]]
  <2>3. PICK b : w = WriteSet(Nothing, Nothing, a, b, Nothing, Nothing)
    BY <2>2, SeatingParts, Zenon
  <2>4. DOMAIN a = G /\ \A g \in G : a[g] = [guests[g] EXCEPT !.table = t, !.mirror = held(g)]
    BY Zenon
  <2> HIDE DEF a, held
  <2>5. w.guests = a /\ DOMAIN w.coupons = {}
    BY <2>3, WriteSetFields
  <2>6. ASSUME NEW g \in G PROVE a[g].phase = "live" /\ a[g].coupons = guests[g].coupons
    <3>1. \E m : a[g] = [guests[g] EXCEPT !.table = t, !.mirror = m]
      BY <2>4, Zenon
    <3>2. PICK m : a[g] = [guests[g] EXCEPT !.table = t, !.mirror = m]
      BY <3>1, Zenon
    <3>3. guests[g] \in GuestDocument /\ guests[g].phase = "live"
      BY <1>1, <2>1 DEF Live
    <3>4. QED
      BY <3>2, <3>3, SeatedDocument
  <2>7. QED
    BY <2>1, <2>4, <2>5, <2>6
<1>3. CASE Unseated(w)
  <2>1. PICK g \in Guests :
            /\ Live(g)
            /\ w = WriteSet(Nothing, Nothing,
                            Put(g, [guests[g] EXCEPT !.table = NoTable, !.mirror = {}]),
                            PutAll(SeatsOf(g), NoGuest), Nothing, Nothing)
    BY <1>3, UnseatedParts
  <2> DEFINE d == [guests[g] EXCEPT !.table = NoTable, !.mirror = {}]
  <2>2. d.phase = "live" /\ d.coupons = guests[g].coupons
    BY <1>1, <2>1, SeatedDocument DEF Live
  <2>3. w = WriteSet(Nothing, Nothing, Put(g, d), PutAll(SeatsOf(g), NoGuest), Nothing, Nothing)
    BY <2>1, Zenon
  <2> HIDE DEF d
  <2>4. w.guests = Put(g, d) /\ DOMAIN w.coupons = {}
    BY <2>3, WriteSetFields
  <2>5. QED
    BY <2>1, <2>2, <2>4 DEF Put
<1>4. QED
  BY <1>2, <1>3

\* The guest of a request and the guest it stands for.
LEMMA RequestGuests ==
    ASSUME NEW r \in Request
    PROVE  /\ r.op \in {"updateTx", "removeTx", "manualTx", "generateTx", "checkinTx"}
                => r.guest \in Guests
           /\ r.op = "updateTx" => r.coupons \in 0 .. MaxCoupons
           /\ r.op = "checkinTx" => r.invitation \in Invitations
<1>1. r.op = "updateTx" => r.guest \in Guests /\ r.coupons \in 0 .. MaxCoupons
  BY GuestRequestShapes
<1>2. r.op = "removeTx" => r.guest \in Guests
  BY GuestRequestShapes
<1>3. r.op = "manualTx" => r.guest \in Guests
  BY CouponRequestShapes
<1>4. r.op = "generateTx" => r.guest \in Guests
  BY EntranceRequestShapes
<1>5. r.op = "checkinTx" => r.guest \in Guests /\ r.invitation \in Invitations
  BY EntranceRequestShapes
<1>6. QED
  BY <1>1, <1>2, <1>3, <1>4, <1>5

\* Every transaction but an import is balanced.
LEMMA BodyBalanced ==
    ASSUME TypeOK, Exact(coupons, guests), Sized, NEW r \in Request, NEW w \in Writes,
           Body(r, w), r.op # "importTx"
    PROVE  Balanced(w)
<1>1. CASE r.op \in {"createTx", "bulkTx"} /\ Creating(r.quota, w)
  BY <1>1, CreatingBalanced
<1>2. CASE r.op = "updateTx" /\ Updating(r, w)
  BY <1>2, RequestGuests, UpdatingBalanced
<1>3. CASE r.op = "removeTx" /\ Removing(r.guest, w)
  BY <1>3, RequestGuests, RemovingBalanced
<1>4. CASE r.op = "manualTx" /\ Moving(r.guest, w)
  BY <1>4, RequestGuests, MovingBalanced DEF Moving
<1>5. CASE r.op = "reconcileTx" /\ Reconciling(r.quota, w)
  BY <1>5, ReconcilingBalanced
<1>6. CASE Patching(r, w)
  <2>1. w.coupons = Resize(coupons, r.old, r.quota) /\ DOMAIN w.guests = {}
    BY <1>6, PatchingParts, WriteSetFields
  <2>2. \A g \in Guests : OwnedBy(CouponsSeen(w), g) = OwnedBy(coupons, g)
    BY <2>1, PoolKept DEF CouponsSeen, TypeOK, Rows
  <2>3. QED
    BY <2>1, <2>2, RowsBalanced
<1>7. CASE Generating(r, w)
  <2>1. DOMAIN w.coupons = {} /\ DOMAIN w.guests = {}
    <3>1. PICK a : w = WriteSet(Nothing, Nothing, Nothing, Nothing, a, Nothing)
      BY <1>7, GeneratingParts
    <3>2. QED
      BY <3>1, WriteSetFields
  <2>2. QED
    BY <2>1, DocumentsBalanced
<1>8. CASE r.op = "checkinTx" /\ Admitting(r.guest, r.invitation, w)
  <2>1. w.coupons = UseAll(coupons, r.guest) /\ DOMAIN w.guests = {}
    <3>1. PICK a, b :
            w = WriteSet(Nothing, UseAll(coupons, r.guest), Nothing, Nothing, a, b)
      BY <1>8, AdmittingParts
    <3>2. QED
      BY <3>1, WriteSetFields
  <2>2. \A g \in Guests : OwnedBy(CouponsSeen(w), g) = OwnedBy(coupons, g)
    BY <1>8, <2>1, RequestGuests, UseAllKept DEF CouponsSeen, TypeOK, Rows
  <2>3. QED
    BY <2>1, <2>2, RowsBalanced
<1>9. CASE Seated(w) \/ Unseated(w)
  BY <1>9, SeatedGuests, DocumentsBalanced
<1>10. QED
  BY <1>1, <1>2, <1>3, <1>4, <1>5, <1>6, <1>7, <1>8, <1>9 DEF Body

\* Two writes of disjoint rows change the number of rows of a guest by the sum
\* of what each changes.
LEMMA CountsAdd ==
    ASSUME NEW c \in Rows, NEW v \in RowWrites, NEW w \in RowWrites, NEW h,
           DOMAIN v \cap DOMAIN w = {}
    PROVE  Cardinality(OwnedBy(Install(Install(c, w), v), h)) + Cardinality(OwnedBy(c, h))
             = Cardinality(OwnedBy(Install(c, v), h)) + Cardinality(OwnedBy(Install(c, w), h))
<1> DEFINE D == DOMAIN v
           O == OwnedBy(c, h)
           V == OwnedBy(Install(c, v), h)
           W == OwnedBy(Install(c, w), h)
           X == OwnedBy(Install(Install(c, w), v), h)
<1>1. ASSUME NEW n \in Numbers
      PROVE  /\ n \in D => (n \in X <=> n \in V) /\ (n \in W <=> n \in O)
             /\ n \notin D => (n \in X <=> n \in W) /\ (n \in V <=> n \in O)
  <2>1. DOMAIN c = Numbers
    BY DEF Rows
  <2>2. QED
    BY <2>1 DEF Install, OwnedBy
<1>2. O \in SUBSET Numbers /\ V \in SUBSET Numbers /\ W \in SUBSET Numbers /\ X \in SUBSET Numbers
  BY DEF OwnedBy
<1> HIDE DEF D, O, V, W, X
<1>3. X \cap D = V \cap D /\ X \ D = W \ D /\ W \cap D = O \cap D /\ V \ D = O \ D
  BY <1>1, <1>2
<1>4. ASSUME NEW S \in SUBSET Numbers
      PROVE  /\ Cardinality(S) \in Nat /\ Cardinality(S \cap D) \in Nat
             /\ Cardinality(S) = Cardinality(S \cap D) + Cardinality(S \ D)
  <2>1. IsFiniteSet(S) /\ Cardinality(S) \in Nat /\ Cardinality(S \cap D) \in Nat
    BY NumbersFinite
  <2>2. Cardinality(S \ D) = Cardinality(S) - Cardinality(S \cap D)
    BY <2>1, FS_Difference
  <2>3. QED
    BY <2>1, <2>2
<1>5. ASSUME NEW S \in SUBSET Numbers PROVE Cardinality(S \ D) \in Nat
  BY NumbersFinite
<1>6. /\ Cardinality(X) = Cardinality(V \cap D) + Cardinality(W \ D)
      /\ Cardinality(W) = Cardinality(O \cap D) + Cardinality(W \ D)
      /\ Cardinality(V) = Cardinality(V \cap D) + Cardinality(O \ D)
      /\ Cardinality(O) = Cardinality(O \cap D) + Cardinality(O \ D)
  BY <1>2, <1>3, <1>4
<1>7. /\ Cardinality(V \cap D) \in Nat /\ Cardinality(W \ D) \in Nat
      /\ Cardinality(O \cap D) \in Nat /\ Cardinality(O \ D) \in Nat
  BY <1>2, <1>4, <1>5
<1>8. Cardinality(X) + Cardinality(O) = Cardinality(V) + Cardinality(W)
  BY <1>6, <1>7
<1>9. QED
  BY <1>8 DEF O, V, W, X

\* What waits stays balanced when a balanced write spares it.
LEMMA SparedBalanced ==
    ASSUME TypeOK, Exact(coupons, guests), NEW v \in Writes, NEW w \in Writes,
           Balanced(v), Balanced(w), Disjoint(v, w),
           coupons' = Install(coupons, w.coupons), guests' = Install(guests, w.guests)
    PROVE  Balanced(v)'
<1> DEFINE O(g) == Cardinality(OwnedBy(coupons, g))
           V(g) == Cardinality(OwnedBy(CouponsSeen(v), g))
           W(g) == Cardinality(OwnedBy(CouponsSeen(w), g))
           X(g) == Cardinality(OwnedBy(Install(coupons', v.coupons), g))
<1>1. /\ coupons \in Rows /\ v.coupons \in RowWrites /\ w.coupons \in RowWrites
      /\ DOMAIN guests = Guests
  BY WritesTypes DEF TypeOK, Rows
<1>2. \A g : X(g) + O(g) = V(g) + W(g)
  BY <1>1, CountsAdd DEF Disjoint, CouponsSeen
<1>3. \A g : O(g) \in Nat /\ V(g) \in Nat /\ W(g) \in Nat /\ X(g) \in Nat
  BY NumbersFinite DEF OwnedBy
<1>4. \A g \in Guests :
        /\ GuestsSeen(v)[g] = IF g \in DOMAIN v.guests THEN v.guests[g] ELSE guests[g]
        /\ guests'[g] = IF g \in DOMAIN w.guests THEN w.guests[g] ELSE guests[g]
        /\ Install(guests', v.guests)[g] =
             IF g \in DOMAIN v.guests THEN v.guests[g] ELSE guests'[g]
  BY <1>1 DEF GuestsSeen, Install
<1>5. GuestsSeen(w) = guests'
  BY DEF GuestsSeen
<1>6. DOMAIN v.guests \cap DOMAIN w.guests = {} /\ DOMAIN v.guests \subseteq Guests
  BY WritesTypes, WriteSetElim DEF Disjoint
<1>7. ASSUME NEW g \in Guests, Install(guests', v.guests)[g].phase \in {"none", "live"}
      PROVE  X(g) = Install(guests', v.guests)[g].coupons
  <2>1. CASE g \in DOMAIN v.guests
    <3>1. guests'[g] = guests[g] /\ Install(guests', v.guests)[g] = GuestsSeen(v)[g]
      BY <1>4, <1>6, <2>1
    <3>2. guests[g].phase \in {"none", "live"}
      BY <1>4, <1>7, <2>1, <3>1 DEF Balanced, Enlivens
    <3>3. O(g) = guests[g].coupons /\ W(g) = guests[g].coupons
      BY <1>5, <3>1, <3>2 DEF Exact, Balanced
    <3>4. V(g) = GuestsSeen(v)[g].coupons
      BY <1>7, <3>1 DEF Exact, Balanced
    <3> HIDE DEF O, V, W, X
    <3>5. X(g) = V(g)
      BY <1>2, <1>3, <3>3
    <3>6. QED
      BY <3>1, <3>4, <3>5
  <2>2. CASE g \notin DOMAIN v.guests
    <3>1. Install(guests', v.guests)[g] = guests'[g] /\ GuestsSeen(v)[g] = guests[g]
      BY <1>4, <2>2
    <3>2. guests[g].phase \in {"none", "live"}
      BY <1>4, <1>7, <3>1 DEF Balanced, Enlivens
    <3>3. O(g) = guests[g].coupons /\ V(g) = guests[g].coupons
      BY <3>1, <3>2 DEF Exact, Balanced
    <3>4. W(g) = guests'[g].coupons
      BY <1>5, <1>7, <3>1 DEF Exact, Balanced
    <3> HIDE DEF O, V, W, X
    <3>5. X(g) = W(g)
      BY <1>2, <1>3, <3>3
    <3>6. QED
      BY <3>1, <3>4, <3>5
  <2>3. QED
    BY <2>1, <2>2
<1>8. Enlivens(v)'
  <2>1. \A g \in DOMAIN v.guests : guests'[g] = guests[g]
    BY <1>4, <1>6
  <2>2. QED
    BY <2>1 DEF Enlivens, Balanced
<1>9. QED
  BY <1>7, <1>8 DEF Balanced, Exact, CouponsSeen, GuestsSeen

\* What the rows and the guests are, and are about to be.
PendingBalanced == \A p \in Requests : Pending(p) => Balanced(req[p].w)

Allocated == Exact(coupons, guests) /\ Sized /\ PendingBalanced

\* Every write of a step is balanced.
LEMMA WritingBalanced ==
    ASSUME TypeOK, Allocated, NEW p \in Requests, NEW w \in Writes, NEW next,
           Writing(req[p], w, next)
    PROVE  Balanced(w)
<1>1. CASE req[p].op = "commit" /\ req[p].w = w
  BY <1>1 DEF Allocated, PendingBalanced, Pending
<1>2. CASE Inserting(req[p], w, next)
  <2>1. PICK n : coupons[n] = Absent /\ w = [NoWrites EXCEPT !.coupons = Put(n, Available)]
    BY <1>2 DEF Inserting
  <2>2. w.coupons = Put(n, Available) /\ DOMAIN w.guests = {}
    <3>1. w = WriteSet(Nothing, Put(n, Available), Nothing, Nothing, Nothing, Nothing)
      BY <2>1, RowsForm
    <3>2. QED
      BY <3>1, WriteSetFields
  <2>3. \A k \in DOMAIN w.coupons : w.coupons[k].guest = NoGuest /\ coupons[k].guest = NoGuest
    BY <2>1, <2>2, RowGuests DEF Put
  <2>4. \A g \in Guests : OwnedBy(CouponsSeen(w), g) = OwnedBy(coupons, g)
    BY <2>3, RowGuests, RowsKept, WritesTypes DEF CouponsSeen, TypeOK, Rows
  <2>5. QED
    BY <2>2, <2>4, RowsBalanced DEF Allocated
<1>3. CASE Marking(w)
  <2>1. DOMAIN w.coupons = {} /\ DOMAIN w.guests = {}
    <3>1. PICK a : w = [NoWrites EXCEPT !.invitations = a]
      BY <1>3 DEF Marking
    <3>2. w = WriteSet(Nothing, Nothing, Nothing, Nothing, a, Nothing)
      BY <3>1, InvitationsForm
    <3>3. QED
      BY <3>2, WriteSetFields
  <2>2. QED
    BY <2>1, DocumentsBalanced DEF Allocated
<1>4. QED
  BY <1>1, <1>2, <1>3 DEF Writing

\* Every step keeps the counts.
LEMMA StepBalanced ==
    ASSUME IInv, IInv', AllCalled, "import" \notin Ops, Allocated, [Next]_vars
    PROVE  Allocated'
<1>1. CASE UNCHANGED <<documents, req>>
  BY <1>1 DEF documents, Allocated, Exact, Sized, Live, PendingBalanced, Pending, Balanced,
              Enlivens, CouponsSeen, GuestsSeen
<1>2. ASSUME NEW p \in Requests, NEW next, next.op = "commit" => Balanced(next.w),
             Continue(p, next)
      PROVE  Allocated'
  <2>1. req'[p] = next /\ \A q \in Requests : q # p => req'[q] = req[q]
    BY <1>2, ContinueSlots DEF IInv
  <2>2. UNCHANGED <<coupons, guests>>
    BY <1>2 DEF Continue, documents
  <2>3. ASSUME NEW q \in Requests, Pending(q)' PROVE Balanced(req[q].w)'
    <3>1. PICK v : v = req'[q].w /\ Balanced(v)
      BY <1>2, <2>1, <2>3 DEF Allocated, PendingBalanced, Pending
    <3>2. Balanced(v)'
      BY <2>2, <3>1 DEF Balanced, Enlivens, CouponsSeen, GuestsSeen
    <3>3. QED
      BY <3>1, <3>2 DEF Balanced, Enlivens, CouponsSeen, GuestsSeen
  <2>4. QED
    BY <2>2, <2>3 DEF Allocated, Exact, Sized, Live, PendingBalanced
<1>3. ASSUME NEW p \in Requests, Stepped(p) PROVE Allocated'
  <2>1. req[p] \in Request /\ req[p].op # "importTx"
    BY DEF IInv, TypeOK, AllCalled, Called
  <2>2. CASE Reads(p)
    BY <1>2, <2>2 DEF Reads
  <2>3. CASE Prepares(p)
    <3>1. PICK w \in Writes : Body(req[p], w) /\ Continue(p, Committing(w))
      BY <2>3 DEF Prepares, Transaction
    <3>2. Balanced(w)
      BY <2>1, <3>1, BodyBalanced DEF Allocated, IInv
    <3>3. QED
      BY <1>2, <3>1, <3>2 DEF Committing
  <2>4. CASE Installs(p)
    <3>1. PICK w \in Writes, next \in Request :
            next.op # "commit" /\ Writing(req[p], w, next) /\ Write(p, w, next)
      BY <2>4 DEF Installs
    <3>2. Balanced(w)
      BY <3>1, WritingBalanced DEF IInv
    <3>3. coupons' = Install(coupons, w.coupons) /\ guests' = Install(guests, w.guests)
      BY <3>1 DEF Write
    <3>4. ASSUME NEW q \in Requests, Pending(q)' PROVE Balanced(req[q].w)'
      <4>1. req'[q] = req[q] /\ Pending(q) /\ Disjoint(req[q].w, w)
        BY <3>1, <3>4, WriteSlots DEF IInv, Pending, Idle
      <4>2. PICK v : v = req[q].w /\ v \in Writes /\ Balanced(v)
        BY <4>1, GuestRequestShapes DEF IInv, TypeOK, Pending, Allocated, PendingBalanced
      <4>3. Balanced(v)'
        BY <3>2, <3>3, <4>1, <4>2, SparedBalanced DEF IInv, Allocated
      <4>4. v = req'[q].w
        BY <4>1, <4>2
      <4>5. QED
        BY <4>3, <4>4 DEF Balanced, Enlivens, CouponsSeen, GuestsSeen
    <3>5. Exact(coupons, guests)'
      BY <3>2, <3>3 DEF Balanced, CouponsSeen, GuestsSeen, Exact
    <3>6. Sized'
      <4>1. \A g \in Guests : guests'[g] = IF g \in DOMAIN w.guests THEN w.guests[g] ELSE guests[g]
        BY <3>3 DEF Install, IInv, TypeOK
      <4>2. QED
        BY <3>2, <4>1 DEF Sized, Live, Balanced, Enlivens, Allocated
    <3>7. QED
      BY <3>4, <3>5, <3>6 DEF Allocated, PendingBalanced
  <2>5. QED
    BY <1>3, <2>2, <2>3, <2>4 DEF Stepped
<1>4. QED
  BY <1>1, <1>3, StepForms

\* No guest, row or request exists at first.
LEMMA InitAllocated == ASSUME Init PROVE Allocated
<1>1. \A g \in Guests : guests[g].phase = "none" /\ guests[g].coupons = 0
  BY DEF Init, NoGuestDocument
<1>2. \A n \in Numbers : coupons[n].guest = NoGuest
  BY RowGuests DEF Init
<1>3. \A g \in Guests : OwnedBy(coupons, g) = {}
  BY <1>2, RowGuests DEF OwnedBy
<1>4. QED
  BY <1>1, <1>3, FS_EmptySet
     DEF Allocated, Exact, Sized, Live, PendingBalanced, Pending, Init, Idle

LEMMA AlwaysAllocated ==
    ASSUME "import" \notin Ops
    PROVE  Spec => []Allocated
<1>1. IInv /\ IInv' /\ AllCalled /\ AllCalled' /\ Allocated /\ [Next]_vars => Allocated'
  BY StepBalanced
<1>2. Init => Allocated
  BY InitAllocated
<1>3. QED
  BY Invariance, AlwaysCalled, <1>1, <1>2, PTL DEF Spec

\* Where no import leaves guests short on purpose, every live guest owns exactly
\* the coupons that it asked for, whatever requests overlap.
THEOREM AllocationIsExact ==
    ASSUME "import" \notin Ops
    PROVE  Spec => []ExactAllocation
<1>1. Allocated => ExactAllocation
  BY DEF Allocated, Exact, ExactAllocation, Live
<1>2. QED
  BY AlwaysAllocated, <1>1, PTL

-----------------------------------------------------------------------------
(* A replace and the entries.                                              *)

\* w deletes g in a replace.
Wipes(w, g) == g \in DOMAIN w.guests /\ w.guests[g].phase = "gone"

\* The replace of a snapshot where nobody is in: it releases every coupon of
\* the guests that it deletes, and deletes every invitation.
Sweeps(w) ==
    \A g : Wipes(w, g) =>
        /\ checkIns[g] = NoInvitation
        /\ AssignedTo(coupons, g) \subseteq DOMAIN w.coupons
        /\ \A i \in Invitations : Issued(i) => i \in DOMAIN w.invitations

\* Only a replace wipes.
LEMMA CreatingSweeps ==
    ASSUME TypeOK, NEW quota, NEW w, Creating(quota, w)
    PROVE  Sweeps(w)
<1> DEFINE pool == EnsuringPool(NoWrites, quota)
<1>1. NoWrites \in Writes /\ NoWrites.guests = Nothing
  BY EmptyPartial DEF Partial, NoWrites
<1>2. Partial(pool) /\ pool \in Writes /\ pool.guests = Nothing
  BY <1>1, EmptyPartial, EnsuringPartial, EnsuringParts DEF Partial
<1> HIDE DEF pool
<1>3. Sweeps(pool)
  BY <1>2 DEF Sweeps, Wipes, Nothing
<1>4. Partial(Purging(pool))
  BY <1>2, PurgingPartial
<1>5. ASSUME \A g \in Guests : checkIns[g] = NoInvitation PROVE Sweeps(Purging(pool))
  <2> DEFINE release == Release(CouponsSeen(pool), Guests)
  <2>1. /\ Purging(pool).coupons = Then(pool.coupons, release)
        /\ Purging(pool).guests = PutAll({g \in Guests : Stored(g)}, NoGuestDocument("gone"))
        /\ Purging(pool).invitations = PutAll({i \in Invitations : Issued(i)}, Purged)
    BY <1>2, PurgingParts
  <2>2. DOMAIN Purging(pool).coupons = DOMAIN pool.coupons \cup DOMAIN release
    BY <2>1 DEF Then
  <2>3. ASSUME NEW g \in Guests, NEW n \in AssignedTo(coupons, g)
        PROVE  n \in DOMAIN Purging(pool).coupons
    <3>1. n \in Numbers /\ coupons[n] = Assigned(g) /\ DOMAIN coupons = Numbers
      BY <2>3 DEF AssignedTo, TypeOK
    <3>2. n \notin DOMAIN pool.coupons => CouponsSeen(pool)[n] = Assigned(g)
      BY <3>1 DEF CouponsSeen, Install
    <3>3. n \notin DOMAIN pool.coupons => n \in DOMAIN release
      BY <2>3, <3>1, <3>2 DEF Release, PutAll, Assigned
    <3>4. QED
      BY <2>2, <3>3
  <2>4. \A g : Wipes(Purging(pool), g) => g \in Guests
    BY <2>1 DEF Wipes, PutAll
  <2>5. \A i \in Invitations : Issued(i) => i \in DOMAIN Purging(pool).invitations
    BY <2>1 DEF PutAll
  <2>6. QED
    BY <1>5, <2>3, <2>4, <2>5 DEF Sweeps
<1>6. ASSUME NEW x, Partial(x), Sweeps(x), NEW y, Added(x, y)
      PROVE  Partial(y) /\ Sweeps(y)
  <2>1. PICK g \in Guests, row \in GuestRow : AddingAble(x, g, row) /\ y = Adding(x, g, row)
    BY <1>6 DEF Added
  <2>2. x \in Writes
    BY <1>6 DEF Partial
  <2>3. /\ y.coupons = Then(x.coupons, Allocation(CouponsSeen(x), g, row))
        /\ y.guests = Then(x.guests, Put(g, NewGuest(row)))
        /\ y.invitations = x.invitations
    BY <2>1, <2>2, AddingParts
  <2>4. \A h : Wipes(y, h) => Wipes(x, h)
    BY <2>3 DEF Wipes, Then, Put, NewGuest
  <2>5. DOMAIN x.coupons \subseteq DOMAIN y.coupons
    BY <2>3 DEF Then
  <2>6. Sweeps(y)
    BY <1>6, <2>3, <2>4, <2>5 DEF Sweeps
  <2>7. QED
    BY <1>6, <2>1, <2>6, AddingPartial
<1>7. PICK x : /\ Opened(quota, x)
               /\ \/ w = x
                  \/ Added(x, w)
                  \/ \E y : Added(x, y) /\ Added(y, w)
  BY DEF Creating
<1>8. Partial(x) /\ Sweeps(x)
  BY <1>2, <1>3, <1>4, <1>5, <1>7 DEF Opened, pool
<1>9. QED
  BY <1>6, <1>7, <1>8

\* A transaction wipes after looking at the check-ins, and checks in the guest
\* of its request only.
LEMMA BodySweeps ==
    ASSUME IInv, NEW r \in Request, NEW w \in Writes, Body(r, w), r.op # "importTx"
    PROVE  /\ Sweeps(w)
           /\ \/ DOMAIN w.checkIns = {}
              \/ r.op = "checkinTx" /\ Admitting(r.guest, r.invitation, w)
<1>1. \A g \in Guests : guests[g] \in GuestDocument
  BY DEF IInv, TypeOK
<1>2. ASSUME DOMAIN w.guests = {} PROVE Sweeps(w)
  BY <1>2 DEF Sweeps, Wipes
<1>3. CASE r.op \in {"createTx", "bulkTx"} /\ Creating(r.quota, w)
  BY <1>3, CreatingSweeps, CreatingFills DEF Filling, Partial, IInv
<1>4. CASE r.op = "updateTx" /\ Updating(r, w)
  <2> DEFINE k == IF r.coupons = 0 THEN guests[r.guest].coupons ELSE r.coupons
             document == [guests[r.guest] EXCEPT !.coupons = k]
  <2>1. PICK rows :
            w = WriteSet(Nothing, rows, Put(r.guest, document), Nothing, Nothing, Nothing)
    BY <1>4, UpdatingParts
  <2>2. document.phase # "gone"
    BY <1>1, <1>4, RequestGuests DEF GuestDocument, Updating, Stored
  <2> HIDE DEF document
  <2>3. w.guests = Put(r.guest, document) /\ DOMAIN w.checkIns = {}
    BY <2>1, WriteSetFields
  <2>4. QED
    BY <2>2, <2>3 DEF Sweeps, Wipes, Put
<1>5. CASE r.op = "removeTx" /\ Removing(r.guest, w)
  <2> DEFINE document == [guests[r.guest] EXCEPT !.phase = "deleted"]
  <2>1. w = WriteSet(Nothing, Release(coupons, {r.guest}), Put(r.guest, document),
                     PutAll(SeatsOf(r.guest), NoGuest), RevokingActive(r.guest), Nothing)
    BY <1>5, RemovingParts, Zenon
  <2>2. document.phase # "gone"
    BY <1>1, <1>5, RequestGuests DEF GuestDocument
  <2> HIDE DEF document
  <2>3. w.guests = Put(r.guest, document) /\ DOMAIN w.checkIns = {}
    BY <2>1, WriteSetFields
  <2>4. QED
    BY <2>2, <2>3 DEF Sweeps, Wipes, Put
<1>6. CASE Moving(r.guest, w)
  <2>1. PICK a : w = WriteSet(Nothing, a, Nothing, Nothing, Nothing, Nothing)
    BY <1>6, MovingParts
  <2>2. QED
    BY <1>2, <2>1, WriteSetFields
<1>7. CASE Reconciling(r.quota, w)
  <2>1. PICK a : w = [NoWrites EXCEPT !.coupons = a]
    BY <1>7 DEF Reconciling
  <2>2. w = WriteSet(Nothing, a, Nothing, Nothing, Nothing, Nothing)
    BY <2>1, RowsForm
  <2>3. QED
    BY <1>2, <2>2, WriteSetFields
<1>8. CASE Patching(r, w)
  <2>1. PICK a, b : w = WriteSet(a, b, Nothing, Nothing, Nothing, Nothing)
    BY <1>8, PatchingParts
  <2>2. QED
    BY <1>2, <2>1, WriteSetFields
<1>9. CASE Generating(r, w)
  <2>1. PICK a : w = WriteSet(Nothing, Nothing, Nothing, Nothing, a, Nothing)
    BY <1>9, GeneratingParts
  <2>2. QED
    BY <1>2, <2>1, WriteSetFields
<1>10. CASE r.op = "checkinTx" /\ Admitting(r.guest, r.invitation, w)
  <2>1. PICK a, b, d : w = WriteSet(Nothing, a, Nothing, Nothing, b, d)
    BY <1>10, AdmittingParts
  <2>2. QED
    BY <1>2, <1>10, <2>1, WriteSetFields
<1>11. CASE Seated(w) \/ Unseated(w)
  <2>1. Sweeps(w)
    BY <1>11, SeatedGuests DEF Sweeps, Wipes, IInv
  <2>2. PICK a, b : w = WriteSet(Nothing, Nothing, a, b, Nothing, Nothing)
    <3>1. CASE Seated(w)
      BY <3>1, SeatedParts
    <3>2. CASE Unseated(w)
      BY <3>2, UnseatedParts
    <3>3. QED
      BY <1>11, <3>1, <3>2
  <2>3. QED
    BY <2>1, <2>2, WriteSetFields
<1>12. QED
  BY <1>3, <1>4, <1>5, <1>6, <1>7, <1>8, <1>9, <1>10, <1>11 DEF Body

\* r checks g in with invitation i: it has resolved i, or waits to commit.
AsksFor(r, g, i) ==
    \/ r.op \in {"checkinRead", "checkinTx"} /\ r.guest = g /\ r.invitation = i
    \/ r.op = "commit" /\ g \in DOMAIN r.w.checkIns /\ r.w.checkIns[g] = i

\* The guest that w checks in is stored, with coupons to use while it is live.
Entering(w) ==
    \A g \in DOMAIN w.checkIns :
        /\ Stored(g)
        /\ Live(g) => DOMAIN w.coupons # {}
        /\ DOMAIN w.guests = {}

\* What w wipes is not in, and w still writes every row that is assigned to it.
Wiping(w) ==
    \A g : Wipes(w, g) =>
        /\ checkIns[g] = NoInvitation
        /\ Live(g) => AssignedTo(coupons, g) \subseteq DOMAIN w.coupons

\* Where no row stops a check-in, the invitation does: w purges it too.
Reaches(w, r) ==
    \A g, i : Wipes(w, g) /\ AsksFor(r, g, i) /\ ~Live(g) /\ Issued(i)
                => i \in DOMAIN w.invitations

Survival ==
    /\ EntrySurvivesReplace
    /\ \A p \in Requests : Pending(p) => Wiping(req[p].w) /\ Entering(req[p].w)
    /\ \A p, q \in Requests : Pending(q) => Reaches(req[q].w, req[p])

\* The same after a step, slot by slot.
LEMMA SurvivalNext ==
    ASSUME EntrySurvivesReplace',
           \A p \in Requests : (req'[p].op = "commit") =>
                \E v : v = req'[p].w /\ Wiping(v)' /\ Entering(v)',
           \A p, q \in Requests : (req'[q].op = "commit") =>
                \E v, r : v = req'[q].w /\ r = req'[p] /\ Reaches(v, r)'
    PROVE  Survival'
<1>1. ASSUME NEW p \in Requests, Pending(p)' PROVE (Wiping(req[p].w) /\ Entering(req[p].w))'
  <2>1. PICK v : v = req'[p].w /\ Wiping(v)' /\ Entering(v)'
    BY <1>1 DEF Pending
  <2>2. QED
    BY <2>1 DEF Wiping, Wipes, Entering, Live, Stored
<1>2. ASSUME NEW p \in Requests, NEW q \in Requests, Pending(q)'
      PROVE  Reaches(req[q].w, req[p])'
  <2>1. PICK v, r : v = req'[q].w /\ r = req'[p] /\ Reaches(v, r)'
    BY <1>2 DEF Pending
  <2>2. QED
    BY <2>1 DEF Reaches, Wipes, AsksFor, Live, Issued
<1>3. QED
  BY <1>1, <1>2 DEF Survival

\* Who asks for an entry, with which invitation.
LEMMA AskTypes ==
    ASSUME NEW r \in Request, NEW g, NEW i, AsksFor(r, g, i)
    PROVE  g \in Guests /\ i \in Invitations
<1>1. CASE r.op \in {"checkinRead", "checkinTx"} /\ r.guest = g /\ r.invitation = i
  BY <1>1, EntranceRequestShapes
<1>2. CASE r.op = "commit" /\ g \in DOMAIN r.w.checkIns /\ r.w.checkIns[g] = i
  <2>1. r.w \in Writes
    BY <1>2, GuestRequestShapes
  <2>2. QED
    BY <1>2, <2>1, WritesTypes, WriteSetElim
<1>3. QED
  BY <1>1, <1>2 DEF AsksFor

\* The invitation of an entry that is asked for has been issued.
LEMMA AskIssued ==
    ASSUME IInv, NEW p \in Requests, NEW g, NEW i, AsksFor(req[p], g, i)
    PROVE  invitations[i].status # "NONE"
<1>1. Holds(req[p])
  BY DEF IInv, EInv
<1>2. CASE req[p].op \in {"checkinRead", "checkinTx"} /\ req[p].guest = g
           /\ req[p].invitation = i
  BY <1>1, <1>2 DEF Holds
<1>3. CASE req[p].op = "commit" /\ g \in DOMAIN req[p].w.checkIns
           /\ req[p].w.checkIns[g] = i
  <2>1. invitations[i].guest = g /\ g \in Guests /\ i \in Invitations
    BY <1>1, <1>3 DEF Holds, Admits
  <2>2. QED
    BY <2>1, InvitationShape, NoGuestAssumption DEF IInv, TypeOK
<1>4. QED
  BY <1>2, <1>3 DEF AsksFor

\* An entry conflicts with the replace that wipes its guest.
LEMMA EntryConflicts ==
    ASSUME IInv, NEW w, NEW x, NEW r, r.op = "commit", r.w = x, NEW g,
           Wipes(w, g), Wiping(w), Reaches(w, r),
           g \in DOMAIN x.checkIns, Admits(x), Legal(x), Entering(x)
    PROVE  ~Disjoint(w, x)
<1>1. PICK i \in Invitations :
        /\ x.checkIns[g] = i /\ DOMAIN x.invitations = {i}
        /\ invitations[i].guest = g /\ g \in Guests
  BY DEF Admits
<1>2. CASE Live(g)
  <2>1. DOMAIN x.coupons # {}
    BY <1>2 DEF Entering
  <2>2. Enters(x)
    BY DEF Legal
  <2>3. PICK S \in SUBSET AssignedTo(coupons, g) : x.coupons = PutAll(S, Used(g))
    BY <2>2 DEF Enters
  <2>4. DOMAIN x.coupons \subseteq DOMAIN w.coupons
    BY <1>2, <2>3 DEF PutAll, Wiping
  <2>5. QED
    BY <2>1, <2>4 DEF Disjoint
<1>3. CASE ~Live(g)
  <2>1. Issued(i)
    BY <1>1, InvitationShape, NoGuestAssumption DEF IInv, TypeOK, Issued
  <2>2. i \in DOMAIN w.invitations
    BY <1>1, <1>3, <2>1 DEF Reaches, AsksFor
  <2>3. QED
    BY <1>1, <2>2 DEF Disjoint
<1>4. QED
  BY <1>2, <1>3

\* Only transactions enter and wipe.
LEMMA WritingKinds ==
    ASSUME NEW p \in Requests, NEW w, NEW next, Writing(req[p], w, next)
    PROVE  \/ Pending(p) /\ req[p].w = w /\ next = Idle
           \/ /\ DOMAIN w.guests = {} /\ DOMAIN w.checkIns = {}
              /\ \A i \in DOMAIN w.invitations : Issued(i)
<1>1. CASE req[p].op = "commit" /\ req[p].w = w /\ next = Idle
  BY <1>1 DEF Pending
<1>2. CASE Inserting(req[p], w, next)
  <2>1. PICK a : w = [NoWrites EXCEPT !.coupons = a]
    BY <1>2 DEF Inserting
  <2>2. w = WriteSet(Nothing, a, Nothing, Nothing, Nothing, Nothing)
    BY <2>1, RowsForm
  <2>3. QED
    BY <2>2, WriteSetFields
<1>3. CASE Marking(w)
  <2>1. PICK i \in Invitations, document \in InvitationDocument :
            Issued(i) /\ w = [NoWrites EXCEPT !.invitations = Put(i, document)]
    BY <1>3 DEF Marking
  <2>2. w = WriteSet(Nothing, Nothing, Nothing, Nothing, Put(i, document), Nothing)
    BY <2>1, InvitationsForm
  <2>3. /\ DOMAIN w.guests = {} /\ DOMAIN w.checkIns = {}
        /\ w.invitations = Put(i, document)
    BY <2>2, WriteSetFields
  <2>4. QED
    BY <2>1, <2>3 DEF Put
<1>4. QED
  BY <1>1, <1>2, <1>3 DEF Writing

\* An invitation that was issued once is not issued again.
LEMMA IssuedOnce ==
    ASSUME IInv, IInv', NEW p \in Requests, NEW w \in Writes, NEW next,
           Writing(req[p], w, next), invitations' = Install(invitations, w.invitations),
           NEW i \in Invitations, invitations[i].status # "NONE", Issued(i)'
    PROVE  Issued(i)
<1>1. /\ invitations \in [Invitations -> InvitationDocument]
      /\ invitations' \in [Invitations -> InvitationDocument]
  BY DEF IInv, TypeOK
<1>2. invitations'[i] = IF i \in DOMAIN w.invitations THEN w.invitations[i] ELSE invitations[i]
  BY <1>1 DEF Install
<1>3. CASE i \notin DOMAIN w.invitations
  BY <1>2, <1>3 DEF Issued
<1>4. CASE i \in DOMAIN w.invitations /\ Pending(p) /\ req[p].w = w
  <2>1. Admits(w)
    BY <1>4 DEF IInv, EInv, Holds, Pending
  <2>2. invitations'[i].guest \in Guests /\ invitations'[i].status # "PURGED"
    BY <1>1, InvitationShape DEF Issued
  <2>3. invitations[i].guest \in Guests
    <3>1. CASE Follows(invitations[i], w.invitations[i])
      BY <1>2, <1>4, <2>2, <3>1 DEF Follows
    <3>2. CASE invitations[i].guest \in Guests
      BY <3>2
    <3>3. QED
      BY <1>4, <2>1, <3>1, <3>2 DEF Admits
  <2>4. QED
    BY <1>1, <2>3, InvitationShape, NoGuestAssumption DEF Issued
<1>5. QED
  BY <1>3, <1>4, WritingKinds

\* A step that writes nothing.
LEMMA ContinueSurvives ==
    ASSUME IInv, IInv', Survival, NEW p \in Requests, NEW next \in Request, Continue(p, next),
           next.op = "commit" => Sweeps(next.w) /\ Entering(next.w),
           \A g, i : AsksFor(next, g, i) => AsksFor(req[p], g, i) \/ Live(g)
    PROVE  Survival'
<1>1. req'[p] = next /\ \A q \in Requests : q # p => req'[q] = req[q]
  BY ContinueSlots DEF IInv
<1>2. UNCHANGED <<coupons, guests, checkIns, invitations>>
  BY DEF Continue, documents
<1>3. EntrySurvivesReplace'
  BY <1>2 DEF Survival, EntrySurvivesReplace, Stored
<1>4. ASSUME NEW q \in Requests, req'[q].op = "commit"
      PROVE  \E v : v = req'[q].w /\ Wiping(v)' /\ Entering(v)'
  <2>1. PICK v : v = req'[q].w /\ Wiping(v) /\ Entering(v)
    BY <1>1, <1>4 DEF Survival, Pending, Sweeps, Wiping
  <2>2. Wiping(v)' /\ Entering(v)'
    BY <1>2, <2>1 DEF Wiping, Entering, Live, Stored
  <2>3. QED
    BY <2>1, <2>2
<1>5. ASSUME NEW a \in Requests, NEW b \in Requests, req'[b].op = "commit"
      PROVE  \E v, r : v = req'[b].w /\ r = req'[a] /\ Reaches(v, r)'
  <2>1. PICK v, r : v = req'[b].w /\ r = req'[a]
    OBVIOUS
  <2>2. r \in Request
    BY <2>1 DEF IInv, TypeOK
  <2>3. ASSUME NEW g, NEW i, Wipes(v, g), AsksFor(r, g, i), ~Live(g), Issued(i)
        PROVE  i \in DOMAIN v.invitations
    <3>1. AsksFor(req[a], g, i)
      BY <1>1, <2>1, <2>3
    <3>2. CASE b = p
      <4>1. Sweeps(v)
        BY <1>1, <1>5, <2>1, <3>2
      <4>2. i \in Invitations
        BY <2>2, <2>3, AskTypes
      <4>3. QED
        BY <2>3, <4>1, <4>2 DEF Sweeps
    <3>3. CASE b # p
      <4>1. v = req[b].w /\ Pending(b)
        BY <1>1, <1>5, <2>1, <3>3 DEF Pending
      <4>2. Reaches(v, req[a])
        BY <4>1 DEF Survival
      <4>3. QED
        BY <2>3, <3>1, <4>2 DEF Reaches
    <3>4. QED
      BY <3>2, <3>3
  <2>4. Reaches(v, r)'
    BY <1>2, <2>3 DEF Reaches, Live, Issued
  <2>5. QED
    BY <2>1, <2>4
<1>6. QED
  BY <1>3, <1>4, <1>5, SurvivalNext

\* The rows of a guest that v wipes stay within what v releases: its count is
\* kept by a write that spares v.
LEMMA WipedRowsStay ==
    ASSUME IInv, UsedHasCheckIn, Exact(coupons, guests), NEW v \in Writes, NEW w \in Writes, Balanced(w),
           Disjoint(v, w), NEW g, Wipes(v, g), Wiping(v), Live(g),
           coupons' = Install(coupons, w.coupons)
    PROVE  AssignedTo(coupons', g) \subseteq DOMAIN v.coupons
<1>1. g \in DOMAIN v.guests /\ g \in Guests /\ g \notin DOMAIN w.guests
  BY WritesTypes, WriteSetElim DEF Wipes, Disjoint
<1>2. coupons \in Rows /\ DOMAIN guests = Guests /\ coupons' = CouponsSeen(w)
      /\ w.coupons \in RowWrites
  BY WritesTypes DEF IInv, TypeOK, Rows, CouponsSeen
<1>3. coupons' \in Rows
  <2>1. coupons \in [Numbers -> CouponRow] /\ w.coupons \in WriteSets(Numbers, CouponRow)
    BY <1>2 DEF Rows, RowWrites
  <2>2. Install(coupons, w.coupons) \in [Numbers -> CouponRow]
    BY <2>1, InstallType
  <2>3. QED
    BY <1>2, <2>2 DEF Rows, CouponsSeen
<1>4. GuestsSeen(w)[g] = guests[g]
  BY <1>1, <1>2 DEF GuestsSeen, Install
<1>5. Cardinality(OwnedBy(coupons', g)) = Cardinality(OwnedBy(coupons, g))
  BY <1>1, <1>2, <1>4 DEF Balanced, Exact, Live
<1>6. UsedBy(coupons, g) = {}
  <2>1. checkIns[g] = NoInvitation
    BY DEF Wiping
  <2>2. QED
    BY <1>1, <2>1 DEF UsedHasCheckIn
<1>7. OwnedBy(coupons, g) \subseteq DOMAIN v.coupons
  BY <1>1, <1>2, <1>6, OwnedRows DEF Wiping
<1>8. OwnedBy(coupons, g) \subseteq OwnedBy(coupons', g)
  <2>1. \A n \in DOMAIN v.coupons \cap Numbers : coupons'[n] = coupons[n]
    BY <1>2 DEF Disjoint, CouponsSeen, Install, Rows
  <2>2. QED
    BY <1>7, <2>1 DEF OwnedBy
<1>9. OwnedBy(coupons', g) = OwnedBy(coupons, g)
  <2>1. OwnedBy(coupons', g) \in SUBSET Numbers
    BY DEF OwnedBy
  <2>2. QED
    BY <1>5, <1>8, <2>1, NumbersFinite, FS_Subset
<1>10. QED
  BY <1>1, <1>3, <1>7, <1>9, OwnedRows

\* A check-in finds coupons to use when its guest is live.
LEMMA AdmittingEnters ==
    ASSUME TypeOK, UsedHasCheckIn, Exact(coupons, guests), Sized,
           NEW g \in Guests, NEW i, NEW w, Admitting(g, i, w)
    PROVE  /\ Entering(w)
           /\ DOMAIN w.checkIns = {g} /\ w.checkIns[g] = i
<1> DEFINE b == Put(i, [invitations[i] EXCEPT !.used = TRUE])
<1>1. w = WriteSet(Nothing, UseAll(coupons, g), Nothing, Nothing, b, Put(g, i))
  BY AdmittingParts, Zenon
<1> HIDE DEF b
<1>2. w.coupons = UseAll(coupons, g) /\ DOMAIN w.guests = {} /\ w.checkIns = Put(g, i)
  BY <1>1, WriteSetFields
<1>3. DOMAIN w.checkIns = {g} /\ w.checkIns[g] = i /\ DOMAIN w.coupons = AssignedTo(coupons, g)
  BY <1>2 DEF Put, UseAll, PutAll
<1>4. Live(g) => AssignedTo(coupons, g) # {}
  <2> SUFFICES ASSUME Live(g) PROVE AssignedTo(coupons, g) # {}
    OBVIOUS
  <2>1. Cardinality(OwnedBy(coupons, g)) # 0
    BY DEF Exact, Sized, Live
  <2>2. OwnedBy(coupons, g) # {}
    BY <2>1, FS_EmptySet
  <2>3. UsedBy(coupons, g) = {}
    BY DEF UsedHasCheckIn, Admitting, Insertable
  <2>4. QED
    BY <2>2, <2>3, OwnedRows DEF TypeOK, Rows
<1>5. Stored(g)
  BY DEF Admitting
<1>6. QED
  BY <1>2, <1>3, <1>4, <1>5 DEF Entering

\* A step that writes.
LEMMA WriteSurvives ==
    ASSUME IInv, IInv', UsedHasCheckIn, Allocated, Survival,
           NEW p \in Requests, NEW w \in Writes, NEW next \in Request, next.op # "commit",
           \A g, i : ~AsksFor(next, g, i),
           Balanced(w), Writing(req[p], w, next), Write(p, w, next)
    PROVE  Survival'
<1>1. /\ coupons' = Install(coupons, w.coupons) /\ guests' = Install(guests, w.guests)
      /\ invitations' = Install(invitations, w.invitations)
      /\ checkIns' = Install(checkIns, w.checkIns)
  BY DEF Write
<1>2. /\ req'[p] = next
      /\ \A q \in Requests : q # p =>
           \/ req'[q] = Idle
           \/ req'[q] = req[q] /\ (Pending(q) => Disjoint(req[q].w, w))
  BY WriteSlots DEF IInv
<1>3. DOMAIN guests = Guests /\ DOMAIN checkIns = Guests
  BY DEF IInv, TypeOK
<1>4. \A q \in Requests : Pending(q) =>
        /\ req[q].w \in Writes /\ Legal(req[q].w) /\ Admits(req[q].w)
        /\ Wiping(req[q].w) /\ Entering(req[q].w)
  BY GuestRequestShapes DEF IInv, TypeOK, PendingLegal, EInv, Holds, Pending, Survival
<1>5. \A g \in Guests :
        /\ guests'[g] = IF g \in DOMAIN w.guests THEN w.guests[g] ELSE guests[g]
        /\ checkIns'[g] = IF g \in DOMAIN w.checkIns THEN w.checkIns[g] ELSE checkIns[g]
  BY <1>1, <1>3 DEF Install
<1>6. Wiping(w) /\ Entering(w)
  BY <1>4, WritingKinds DEF Wiping, Wipes, Entering
<1>7. ASSUME NEW g \in Guests, Stored(g), ~Wipes(w, g) PROVE Stored(g)'
  <2>1. CASE g \in DOMAIN w.guests
    <3>1. w.guests[g] \in GuestDocument
      BY <2>1, WritesTypes, WriteSetElim
    <3>2. w.guests[g].phase \in {"live", "deleted"}
      BY <1>7, <2>1, <3>1 DEF Wipes, Balanced, Enlivens, GuestDocument
    <3>3. QED
      BY <1>5, <2>1, <3>2 DEF Stored
  <2>2. CASE g \notin DOMAIN w.guests
    BY <1>5, <1>7, <2>2 DEF Stored
  <2>3. QED
    BY <2>1, <2>2
<1>8. EntrySurvivesReplace'
  <2> SUFFICES ASSUME NEW g \in Guests, checkIns'[g] # NoInvitation PROVE Stored(g)'
    BY DEF EntrySurvivesReplace, Stored
  <2>1. CASE g \in DOMAIN w.checkIns
    <3>1. Stored(g) /\ DOMAIN w.guests = {}
      BY <1>6, <2>1 DEF Entering
    <3>2. QED
      BY <1>7, <3>1 DEF Wipes
  <2>2. CASE g \notin DOMAIN w.checkIns
    <3>1. checkIns[g] # NoInvitation
      BY <1>5, <2>2
    <3>2. Stored(g) /\ ~Wipes(w, g)
      BY <1>6, <3>1 DEF Survival, EntrySurvivesReplace, Wiping
    <3>3. QED
      BY <1>7, <3>2
  <2>3. QED
    BY <2>1, <2>2
<1>9. ASSUME NEW q \in Requests, req'[q].op = "commit"
      PROVE  \E v : v = req'[q].w /\ Wiping(v)' /\ Entering(v)'
  <2>1. req'[q] = req[q] /\ Pending(q) /\ Disjoint(req[q].w, w)
    BY <1>2, <1>9 DEF Pending, Idle
  <2>2. PICK v : /\ v = req[q].w /\ v \in Writes /\ Legal(v) /\ Admits(v)
                 /\ Wiping(v) /\ Entering(v) /\ Disjoint(v, w)
    BY <1>4, <2>1
  <2>3. DOMAIN v.guests \subseteq Guests /\ DOMAIN v.checkIns \subseteq Guests
    BY <2>2, WritesTypes, WriteSetElim
  <2>4. Wiping(v)'
    <3> SUFFICES ASSUME NEW g, Wipes(v, g)
                 PROVE  /\ checkIns'[g] = NoInvitation
                        /\ Live(g)' => AssignedTo(coupons', g) \subseteq DOMAIN v.coupons
      BY DEF Wiping, AssignedTo
    <3>1. g \in Guests /\ g \notin DOMAIN w.guests
      BY <2>2, <2>3 DEF Wipes, Disjoint
    <3>2. guests'[g] = guests[g]
      BY <1>5, <3>1
    <3>3. g \notin DOMAIN w.checkIns
      <4>1. SUFFICES ASSUME g \in DOMAIN w.checkIns PROVE FALSE
        OBVIOUS
      <4>2. Pending(p) /\ req[p].w = w
        BY <4>1, WritingKinds
      <4>3. Reaches(v, req[p])
        BY <2>1, <2>2 DEF Survival
      <4>4. Admits(w) /\ Legal(w) /\ req[p].op = "commit"
        BY <1>4, <4>2 DEF Pending
      <4>5. ~Disjoint(v, w)
        BY <1>6, <2>2, <4>1, <4>2, <4>3, <4>4, EntryConflicts
      <4>6. QED
        BY <2>2, <4>5
    <3>4. checkIns'[g] = NoInvitation
      BY <1>5, <2>2, <3>1, <3>3 DEF Wiping
    <3>5. Live(g)' => AssignedTo(coupons', g) \subseteq DOMAIN v.coupons
      <4>1. Live(g)' => Live(g)
        BY <3>2 DEF Live
      <4>2. QED
        BY <1>1, <2>2, <4>1, WipedRowsStay DEF Allocated
    <3>6. QED
      BY <3>4, <3>5
  <2>5. Entering(v)'
    <3> SUFFICES ASSUME NEW g \in DOMAIN v.checkIns
                 PROVE  /\ Stored(g)'
                        /\ Live(g)' => DOMAIN v.coupons # {}
                        /\ DOMAIN v.guests = {}
      BY DEF Entering, Stored, Live
    <3>1. Stored(g) /\ (Live(g) => DOMAIN v.coupons # {}) /\ DOMAIN v.guests = {} /\ g \in Guests
      BY <2>2, <2>3 DEF Entering
    <3>2. ~Wipes(w, g)
      <4>1. SUFFICES ASSUME Wipes(w, g) PROVE FALSE
        OBVIOUS
      <4>2. Pending(p) /\ req[p].w = w
        BY <4>1, WritingKinds DEF Wipes
      <4>3. Reaches(w, req[q])
        BY <4>2 DEF Survival
      <4>4. ~Disjoint(w, v)
        BY <1>6, <2>1, <2>2, <4>1, <4>3, EntryConflicts DEF Pending
      <4>5. QED
        BY <2>2, <4>4 DEF Disjoint
    <3>3. Live(g)' => Live(g)
      BY <1>5, <3>1 DEF Live, Stored, Balanced, Enlivens
    <3>4. QED
      BY <1>7, <3>1, <3>2, <3>3
  <2>6. v = req'[q].w
    BY <2>1, <2>2
  <2>7. QED
    BY <2>4, <2>5, <2>6
<1>10. ASSUME NEW a \in Requests, NEW b \in Requests, req'[b].op = "commit"
       PROVE  \E v, r : v = req'[b].w /\ r = req'[a] /\ Reaches(v, r)'
  <2>1. req'[b] = req[b] /\ Pending(b) /\ Disjoint(req[b].w, w)
    BY <1>2, <1>10 DEF Pending, Idle
  <2>2. PICK v, r : v = req[b].w /\ r = req'[a] /\ v \in Writes /\ Disjoint(v, w)
    BY <1>4, <2>1
  <2>3. ASSUME NEW g, NEW i, Wipes(v, g), AsksFor(r, g, i), ~Live(g)', Issued(i)'
        PROVE  i \in DOMAIN v.invitations
    <3>1. r = req[a]
      BY <1>2, <2>2, <2>3 DEF AsksFor, Idle
    <3>2. r \in Request
      BY <3>1 DEF IInv, TypeOK
    <3>3. g \in Guests /\ i \in Invitations
      BY <2>3, <3>2, AskTypes
    <3>4. invitations[i].status # "NONE"
      BY <2>3, <3>1, AskIssued
    <3>5. Issued(i)
      BY <1>1, <2>3, <3>3, <3>4, IssuedOnce
    <3>6. ~Live(g)
      <4>1. g \notin DOMAIN w.guests
        BY <2>2, <2>3 DEF Wipes, Disjoint
      <4>2. QED
        BY <1>5, <2>3, <3>3, <4>1 DEF Live
    <3>7. Reaches(v, r)
      BY <2>1, <2>2, <3>1 DEF Survival
    <3>8. QED
      BY <2>3, <3>5, <3>6, <3>7 DEF Reaches
  <2>4. Reaches(v, r)'
    BY <2>3 DEF Reaches, Live, Issued
  <2>5. v = req'[b].w
    BY <2>1, <2>2
  <2>6. QED
    BY <2>2, <2>4, <2>5
<1>11. QED
  BY <1>8, <1>9, <1>10, SurvivalNext

\* Every step.
LEMMA StepSurvives ==
    ASSUME IInv, IInv', AllCalled, "import" \notin Ops, UsedHasCheckIn, Allocated, Survival,
           [Next]_vars
    PROVE  Survival'
<1>1. CASE UNCHANGED <<documents, req>>
  BY <1>1 DEF documents, Survival, EntrySurvivesReplace, Pending, Wiping, Wipes, Entering,
              Reaches, AsksFor, Stored, Live, Issued
<1>2. ASSUME NEW p \in Requests, Stepped(p) PROVE Survival'
  <2>1. req[p] \in Request /\ req[p].op # "importTx"
    BY DEF IInv, TypeOK, AllCalled, Called
  <2>2. CASE Reads(p)
    <3>1. PICK next \in Request :
            next.op # "commit" /\ Reading(req[p], next) /\ Continue(p, next)
      BY <2>2 DEF Reads
    <3>2. ASSUME NEW g, NEW i, AsksFor(next, g, i) PROVE AsksFor(req[p], g, i) \/ Live(g)
      <4>1. CASE next.op = "checkinRead"
        BY <3>1, <3>2, <4>1 DEF Reading, AsksFor, Resolvable
      <4>2. CASE next.op = "checkinTx"
        BY <3>1, <3>2, <4>2 DEF Reading, AsksFor
      <4>3. QED
        BY <3>1, <3>2, <4>1, <4>2 DEF AsksFor
    <3>3. QED
      BY <3>1, <3>2, ContinueSurvives
  <2>3. CASE Prepares(p)
    <3>1. PICK w \in Writes : Body(req[p], w) /\ Continue(p, Committing(w))
      BY <2>3 DEF Prepares, Transaction
    <3>2. /\ Sweeps(w)
          /\ \/ DOMAIN w.checkIns = {}
             \/ /\ req[p].op = "checkinTx"
                /\ Admitting(req[p].guest, req[p].invitation, w)
      BY <2>1, <3>1, BodySweeps
    <3>3. Entering(w) /\ \A g \in DOMAIN w.checkIns : AsksFor(req[p], g, w.checkIns[g])
      <4>1. CASE DOMAIN w.checkIns = {}
        BY <4>1 DEF Entering
      <4>2. CASE req[p].op = "checkinTx" /\ Admitting(req[p].guest, req[p].invitation, w)
        <5>1. req[p].guest \in Guests
          BY <2>1, <4>2, RequestGuests
        <5>2. Entering(w) /\ DOMAIN w.checkIns = {req[p].guest}
              /\ w.checkIns[req[p].guest] = req[p].invitation
          BY <4>2, <5>1, AdmittingEnters DEF IInv, Allocated
        <5>3. QED
          BY <4>2, <5>2 DEF AsksFor
      <4>3. QED
        BY <3>2, <4>1, <4>2
    <3>4. PICK next : /\ next = Committing(w) /\ next.op = "commit" /\ next.w = w
                      /\ Continue(p, next)
      BY <3>1 DEF Committing
    <3>5. next \in Request
      BY <3>4, NextRequest DEF IInv
    <3>6. \A g, i : AsksFor(next, g, i) => AsksFor(req[p], g, i)
      BY <3>3, <3>4 DEF AsksFor
    <3>7. QED
      BY <3>2, <3>3, <3>4, <3>5, <3>6, ContinueSurvives
  <2>4. CASE Installs(p)
    <3>1. PICK w \in Writes, next \in Request :
            next.op # "commit" /\ Writing(req[p], w, next) /\ Write(p, w, next)
      BY <2>4 DEF Installs
    <3>2. Balanced(w)
      BY <3>1, WritingBalanced DEF IInv
    <3>3. \A g, i : ~AsksFor(next, g, i)
      BY <3>1 DEF AsksFor, Writing, Inserting, Idle
    <3>4. QED
      BY <3>1, <3>2, <3>3, WriteSurvives
  <2>5. QED
    BY <1>2, <2>2, <2>3, <2>4 DEF Stepped
<1>3. QED
  BY <1>1, <1>2, StepForms

\* A guest who is in is never wiped by a replace that overlaps with its entry.
THEOREM EntrySurvives ==
    ASSUME "import" \notin Ops
    PROVE  Spec => []EntrySurvivesReplace
<1>1. Init => Survival
  BY DEF Init, Survival, EntrySurvivesReplace, Pending, Idle
<1>2. IInv /\ IInv' /\ AllCalled /\ UsedHasCheckIn /\ Allocated /\ Survival /\ [Next]_vars
        => Survival'
  BY StepSurvives
<1>3. Survival => EntrySurvivesReplace
  BY DEF Survival
<1>4. QED
  BY Invariance, AlwaysCalled, AlwaysAllocated, UsedOnlyByCheckIn, <1>1, <1>2, <1>3, PTL DEF Spec

-----------------------------------------------------------------------------
(* The seats and their mirror.                                             *)

\* The places of g once s is written.
PlacesAfter(s, g) == {place \in Places : Install(seats, s)[place] = g}

\* w gives and takes only the seats of guests that it writes, and leaves those
\* among them that are live with the seats of their mirror.
Mirrors(w) ==
    /\ \A place \in DOMAIN w.seats :
        /\ seats[place] # NoGuest => seats[place] \in DOMAIN w.guests
        /\ w.seats[place] # NoGuest => w.seats[place] \in DOMAIN w.guests
    /\ \A g \in DOMAIN w.guests :
        w.guests[g].phase = "live" =>
            PlacesAfter(w.seats, g) = {w.guests[g].table} \X w.guests[g].mirror

\* The seats that w does not write.
LEMMA PlacesStay ==
    ASSUME TypeOK, NEW w \in Writes, Mirrors(w), NEW g \in Guests, g \notin DOMAIN w.guests
    PROVE  PlacesAfter(w.seats, g) = SeatsOf(g)
<1>1. \A place \in Places :
        Install(seats, w.seats)[place] = IF place \in DOMAIN w.seats THEN w.seats[place]
                                         ELSE seats[place]
  BY Installed DEF TypeOK
<1>2. g # NoGuest
  BY NoGuestAssumption
<1>3. \A place \in DOMAIN w.seats : w.seats[place] # g /\ seats[place] # g
  BY <1>2 DEF Mirrors
<1>4. QED
  BY <1>1, <1>3 DEF PlacesAfter, SeatsOf

LEMMA SeatsUntouched ==
    ASSUME TypeOK, NEW w, DOMAIN w.seats = {},
           \A g \in DOMAIN w.guests : w.guests[g].phase = "live" =>
                SeatsOf(g) = {w.guests[g].table} \X w.guests[g].mirror
    PROVE  Mirrors(w)
<1>1. Install(seats, w.seats) = seats
  BY InstallUntouched DEF TypeOK
<1>2. QED
  BY <1>1 DEF Mirrors, PlacesAfter, SeatsOf

\* A new guest holds no seat.
LEMMA AddingMirrors ==
    ASSUME TypeOK, SeatsOfLiveGuests, NEW w, Partial(w), Mirrors(w),
           NEW g \in Guests, NEW row \in GuestRow, AddingAble(w, g, row)
    PROVE  Mirrors(Adding(w, g, row))
<1> DEFINE x == Adding(w, g, row)
<1>1. w \in Writes
  BY DEF Partial
<1>2. x.seats = w.seats /\ x.guests = Then(w.guests, Put(g, NewGuest(row)))
  BY <1>1, AddingParts
<1>3. guests[g].phase = "none" /\ g \notin DOMAIN w.guests
  BY DEF AddingAble, Fresh
<1>4. SeatsOf(g) = {}
  BY <1>3, NoGuestAssumption DEF SeatsOf, SeatsOfLiveGuests, Live
<1>5. PlacesAfter(w.seats, g) = {}
  BY <1>1, <1>3, <1>4, PlacesStay
<1>6. /\ DOMAIN x.guests = DOMAIN w.guests \cup {g}
      /\ x.guests[g] = NewGuest(row)
      /\ \A h \in DOMAIN w.guests : x.guests[h] = w.guests[h]
  BY <1>2, <1>3 DEF Then, Put
<1> HIDE DEF x
<1>7. ASSUME NEW h \in DOMAIN x.guests, x.guests[h].phase = "live"
      PROVE  PlacesAfter(x.seats, h) = {x.guests[h].table} \X x.guests[h].mirror
  <2>1. CASE h = g
    <3>1. x.guests[h].mirror = {}
      BY <1>6, <2>1 DEF NewGuest
    <3>2. QED
      BY <1>2, <1>5, <2>1, <3>1
  <2>2. CASE h # g
    BY <1>2, <1>6, <1>7, <2>2 DEF Mirrors
  <2>3. QED
    BY <2>1, <2>2
<1>8. QED
  BY <1>2, <1>6, <1>7 DEF Mirrors, x

\* A replace takes every seat, of guests that it wipes.
LEMMA PurgingMirrors ==
    ASSUME TypeOK, SeatsOfLiveGuests, NEW w \in Writes
    PROVE  Mirrors(Purging(w))
<1> DEFINE x == Purging(w)
<1>1. /\ x.seats = PutAll({place \in Places : seats[place] # NoGuest}, NoGuest)
      /\ x.guests = PutAll({g \in Guests : Stored(g)}, NoGuestDocument("gone"))
  BY PurgingParts
<1> HIDE DEF x
<1>2. ASSUME NEW place \in DOMAIN x.seats
      PROVE  seats[place] \in DOMAIN x.guests /\ x.seats[place] = NoGuest
  <2>1. place \in Places /\ seats[place] # NoGuest /\ x.seats[place] = NoGuest
    BY <1>1 DEF PutAll
  <2>2. seats[place] \in Guests /\ Stored(seats[place])
    BY <2>1 DEF TypeOK, SeatsOfLiveGuests, Live, Stored
  <2>3. QED
    BY <1>1, <2>1, <2>2 DEF PutAll
<1>3. \A g \in DOMAIN x.guests : x.guests[g].phase = "gone"
  BY <1>1 DEF PutAll, NoGuestDocument
<1>4. QED
  BY <1>2, <1>3 DEF Mirrors, x

LEMMA CreatingMirrors ==
    ASSUME TypeOK, SeatsOfLiveGuests, NEW quota, NEW w, Creating(quota, w)
    PROVE  Mirrors(w)
<1> DEFINE pool == EnsuringPool(NoWrites, quota)
<1>1. Partial(NoWrites) /\ NoWrites \in Writes
      /\ NoWrites.guests = Nothing /\ NoWrites.seats = Nothing
  BY EmptyPartial DEF Partial, NoWrites
<1>2. Partial(pool) /\ pool.guests = Nothing /\ pool.seats = Nothing
  BY <1>1, EnsuringPartial, EnsuringParts
<1> HIDE DEF pool
<1>3. Mirrors(pool)
  BY <1>2, SeatsUntouched DEF Nothing
<1>4. Partial(Purging(pool)) /\ Mirrors(Purging(pool))
  BY <1>2, PurgingPartial, PurgingMirrors DEF Partial
<1>5. ASSUME NEW x, Partial(x), Mirrors(x), NEW y, Added(x, y)
      PROVE  Partial(y) /\ Mirrors(y)
  BY <1>5, AddingPartial, AddingMirrors DEF Added
<1>6. PICK x : /\ Opened(quota, x)
               /\ \/ w = x
                  \/ Added(x, w)
                  \/ \E y : Added(x, y) /\ Added(y, w)
  BY DEF Creating
<1>7. Partial(x) /\ Mirrors(x)
  BY <1>2, <1>3, <1>4, <1>6 DEF Opened, pool
<1>8. QED
  BY <1>5, <1>6, <1>7

\* A guest that is saved keeps its table, its mirror and its seats.
LEMMA UpdatingMirrors ==
    ASSUME TypeOK, SeatsMirrored, NEW r, r.guest \in Guests, NEW w, Updating(r, w)
    PROVE  Mirrors(w)
<1> DEFINE g == r.guest
           k == IF r.coupons = 0 THEN guests[r.guest].coupons ELSE r.coupons
           document == [guests[r.guest] EXCEPT !.coupons = k]
<1>1. PICK rows : w = WriteSet(Nothing, rows, Put(g, document), Nothing, Nothing, Nothing)
  BY UpdatingParts
<1>2. guests[g] \in GuestDocument
  BY DEF TypeOK
<1>3. /\ document.phase = guests[g].phase
      /\ document.table = guests[g].table /\ document.mirror = guests[g].mirror
  <2> HIDE DEF k
  <2>1. QED
    BY <1>2 DEF GuestDocument
<1> HIDE DEF document
<1>4. w.guests = Put(g, document) /\ DOMAIN w.seats = {}
  BY <1>1, WriteSetFields
<1>5. guests[g].phase = "live" => SeatsOf(g) = {guests[g].table} \X guests[g].mirror
  BY DEF SeatsMirrored, Live
<1>6. DOMAIN w.guests = {g} /\ w.guests[g] = document
  BY <1>4 DEF Put
<1>7. QED
  BY <1>3, <1>4, <1>5, <1>6, SeatsUntouched

\* A guest that is removed leaves its seats.
LEMMA RemovingMirrors ==
    ASSUME TypeOK, NEW g \in Guests, NEW w, Removing(g, w)
    PROVE  Mirrors(w)
<1> DEFINE document == [guests[g] EXCEPT !.phase = "deleted"]
<1>1. PICK a, b : w = WriteSet(Nothing, a, Put(g, document), PutAll(SeatsOf(g), NoGuest),
                               b, Nothing)
  BY RemovingParts, Zenon
<1>2. document.phase = "deleted"
  BY DEF TypeOK, GuestDocument
<1> HIDE DEF document
<1>3. w.guests = Put(g, document) /\ w.seats = PutAll(SeatsOf(g), NoGuest)
  BY <1>1, WriteSetFields
<1>4. DOMAIN w.guests = {g} /\ w.guests[g] = document
  BY <1>3 DEF Put
<1>5. \A place \in DOMAIN w.seats : seats[place] = g /\ w.seats[place] = NoGuest
  BY <1>3 DEF PutAll, SeatsOf
<1>6. QED
  BY <1>2, <1>4, <1>5 DEF Mirrors

LEMMA UnseatedMirrors ==
    ASSUME TypeOK, NEW w, Unseated(w)
    PROVE  Mirrors(w)
<1>1. PICK g \in Guests :
        w = WriteSet(Nothing, Nothing,
                     Put(g, [guests[g] EXCEPT !.table = NoTable, !.mirror = {}]),
                     PutAll(SeatsOf(g), NoGuest), Nothing, Nothing)
  BY UnseatedParts
<1> DEFINE d == [guests[g] EXCEPT !.table = NoTable, !.mirror = {}]
<1>2. d.mirror = {}
  BY SeatedDocument DEF TypeOK
<1>3. w = WriteSet(Nothing, Nothing, Put(g, d), PutAll(SeatsOf(g), NoGuest), Nothing, Nothing)
  BY <1>1, Zenon
<1> HIDE DEF d
<1>4. w.guests = Put(g, d) /\ w.seats = PutAll(SeatsOf(g), NoGuest)
  BY <1>3, WriteSetFields
<1>5. DOMAIN w.guests = {g} /\ w.guests[g] = d
  BY <1>4 DEF Put
<1>6. DOMAIN w.seats = SeatsOf(g) /\ \A place \in SeatsOf(g) : w.seats[place] = NoGuest
  BY <1>4 DEF PutAll
<1>7. PlacesAfter(w.seats, g) = {}
  <2>1. \A place \in Places :
          Install(seats, w.seats)[place] = IF place \in DOMAIN w.seats THEN w.seats[place]
                                           ELSE seats[place]
    BY Installed DEF TypeOK
  <2>2. QED
    BY <1>6, <2>1, NoGuestAssumption DEF PlacesAfter, SeatsOf
<1>8. \A place \in DOMAIN w.seats : seats[place] = g /\ w.seats[place] = NoGuest
  BY <1>6 DEF SeatsOf
<1>9. QED
  BY <1>2, <1>5, <1>7, <1>8 DEF Mirrors

\* The seats that apply gives, to each guest those of its mirror.
LEMMA SeatedMirrors ==
    ASSUME TypeOK, NEW w, Seated(w)
    PROVE  Mirrors(w)
<1>1. PICK G \in SUBSET Guests, t \in Tables :
        \E chosen \in Choices(G, t) : w = Seating(G, t, chosen)
  BY DEF Seated
<1>2. PICK chosen \in Choices(G, t) : w = Seating(G, t, chosen)
  BY <1>1
<1> DEFINE held(g) == {s \in DOMAIN chosen : chosen[s] = g}
           a == [g \in G |-> [guests[g] EXCEPT !.table = t, !.mirror = held(g)]]
           left  == UNION {SeatsOf(g) : g \in G}
           taken == {<<t, s>> : s \in DOMAIN chosen}
           b == Then(PutAll(left, NoGuest), [place \in taken |-> chosen[place[2]]])
<1>3. w = WriteSet(Nothing, Nothing, a, b, Nothing, Nothing)
  BY <1>2, SeatingParts, Zenon
<1>4. DOMAIN a = G /\ \A g \in G : a[g] = [guests[g] EXCEPT !.table = t, !.mirror = held(g)]
  BY Zenon
<1>5. \A g \in G : a[g].table = t /\ a[g].mirror = held(g)
  <2> SUFFICES ASSUME NEW g \in G PROVE a[g].table = t /\ a[g].mirror = held(g)
    OBVIOUS
  <2>1. guests[g] \in GuestDocument
    BY DEF TypeOK
  <2>2. PICK m : m = held(g)
    BY Zenon
  <2>3. a[g] = [guests[g] EXCEPT !.table = t, !.mirror = m]
    BY <1>4, <2>2, Zenon
  <2> HIDE DEF a, held
  <2>4. a[g].table = t /\ a[g].mirror = m
    BY <2>1, <2>3, SeatedDocument
  <2>5. QED
    BY <2>2, <2>4
<1>6. /\ DOMAIN chosen \subseteq SeatNumbers
      /\ \A s \in DOMAIN chosen : chosen[s] \in G /\ seats[<<t, s>>] \in G \cup {NoGuest}
  BY DEF Choices, Open
<1>7. DOMAIN b = left \cup taken
  BY DEF Then, PutAll
<1>8. \A place \in DOMAIN b :
        b[place] = IF place \in taken THEN chosen[place[2]] ELSE NoGuest
  <2> HIDE DEF left, taken
  <2>1. QED
    BY DEF Then, PutAll
<1>9. \A place \in left : seats[place] \in G
  BY DEF SeatsOf
<1>10. \A place \in taken : seats[place] \in G \cup {NoGuest} /\ chosen[place[2]] \in G
  BY <1>6
<1> HIDE DEF a, b
<1>11. w.guests = a /\ w.seats = b
  BY <1>3, WriteSetFields
<1>12. \A place \in DOMAIN w.seats :
        /\ seats[place] # NoGuest => seats[place] \in DOMAIN w.guests
        /\ w.seats[place] # NoGuest => w.seats[place] \in DOMAIN w.guests
  <2> HIDE DEF left, taken
  <2>1. QED
    BY <1>4, <1>7, <1>8, <1>9, <1>10, <1>11
<1>13. ASSUME NEW g \in G PROVE PlacesAfter(b, g) = {t} \X held(g)
  <2>1. g # NoGuest
    BY NoGuestAssumption
  <2>2. \A place \in Places :
          Install(seats, b)[place] = IF place \in DOMAIN b THEN b[place] ELSE seats[place]
    BY Installed DEF TypeOK
  <2>3. \A place \in Places : seats[place] = g => place \in left
    BY DEF SeatsOf
  <2>4. \A place \in Places :
          place \in PlacesAfter(b, g) <=> place \in taken /\ chosen[place[2]] = g
    <3> HIDE DEF left, taken
    <3>1. QED
      BY <1>7, <1>8, <2>1, <2>2, <2>3 DEF PlacesAfter
  <2>5. PlacesAfter(b, g) \subseteq {t} \X held(g)
    BY <2>4 DEF PlacesAfter
  <2>6. {t} \X held(g) \subseteq PlacesAfter(b, g)
    <3> SUFFICES ASSUME NEW s \in held(g) PROVE <<t, s>> \in PlacesAfter(b, g)
      OBVIOUS
    <3>1. <<t, s>> \in Places
      BY <1>6 DEF Places
    <3>2. <<t, s>> \in taken /\ chosen[<<t, s>>[2]] = g
      OBVIOUS
    <3>3. QED
      BY <2>4, <3>1, <3>2
  <2>7. QED
    BY <2>5, <2>6
<1>14. ASSUME NEW g \in DOMAIN w.guests
       PROVE  PlacesAfter(w.seats, g) = {w.guests[g].table} \X w.guests[g].mirror
  <2> HIDE DEF held, left, taken
  <2>1. g \in G
    BY <1>4, <1>11
  <2>2. w.guests[g].table = t /\ w.guests[g].mirror = held(g)
    BY <1>5, <1>11, <2>1
  <2>3. PlacesAfter(w.seats, g) = {t} \X held(g)
    BY <1>11, <1>13, <2>1
  <2>4. QED
    BY <2>2, <2>3
<1>15. QED
  BY <1>12, <1>14 DEF Mirrors

\* The transactions that write neither guests nor seats.
LEMMA RowBodies ==
    ASSUME NEW r, NEW w,
           \/ Moving(r.guest, w) \/ Reconciling(r.quota, w) \/ Patching(r, w)
           \/ Generating(r, w) \/ Admitting(r.guest, r.invitation, w)
    PROVE  DOMAIN w.guests = {} /\ DOMAIN w.seats = {}
<1>1. \A c, a, i, e : w = WriteSet(c, a, Nothing, Nothing, i, e)
                        => DOMAIN w.guests = {} /\ DOMAIN w.seats = {}
  BY WriteSetFields
<1>2. CASE Moving(r.guest, w)
  BY <1>1, <1>2, MovingParts
<1>3. CASE Reconciling(r.quota, w)
  <2>1. PICK a : w = [NoWrites EXCEPT !.coupons = a]
    BY <1>3 DEF Reconciling
  <2>2. QED
    BY <1>1, <2>1, RowsForm
<1>4. CASE Patching(r, w)
  BY <1>1, <1>4, PatchingParts
<1>5. CASE Generating(r, w)
  BY <1>1, <1>5, GeneratingParts
<1>6. CASE Admitting(r.guest, r.invitation, w)
  <2>1. PICK c, i, e : w = WriteSet(Nothing, c, Nothing, Nothing, i, e)
    BY <1>6, AdmittingParts
  <2>2. QED
    BY <1>1, <2>1
<1>7. QED
  BY <1>2, <1>3, <1>4, <1>5, <1>6

\* Every transaction but an import mirrors.
LEMMA BodyMirrors ==
    ASSUME TypeOK, SeatsOfLiveGuests, SeatsMirrored, NEW r \in Request, NEW w,
           Body(r, w), r.op # "importTx"
    PROVE  Mirrors(w)
<1>1. ASSUME DOMAIN w.guests = {}, DOMAIN w.seats = {} PROVE Mirrors(w)
  BY <1>1 DEF Mirrors
<1>2. CASE r.op \in {"createTx", "bulkTx"} /\ Creating(r.quota, w)
  BY <1>2, CreatingMirrors
<1>3. CASE r.op = "updateTx" /\ Updating(r, w)
  BY <1>3, RequestGuests, UpdatingMirrors
<1>4. CASE r.op = "removeTx" /\ Removing(r.guest, w)
  BY <1>4, RequestGuests, RemovingMirrors
<1>5. CASE \/ Moving(r.guest, w) \/ Reconciling(r.quota, w) \/ Patching(r, w)
           \/ Generating(r, w) \/ Admitting(r.guest, r.invitation, w)
  BY <1>1, <1>5, RowBodies
<1>6. CASE Seated(w)
  BY <1>6, SeatedMirrors
<1>7. CASE Unseated(w)
  BY <1>7, UnseatedMirrors
<1>8. QED
  BY <1>2, <1>3, <1>4, <1>5, <1>6, <1>7 DEF Body

\* So is every write of a step.
LEMMA WritingMirrors ==
    ASSUME NEW p \in Requests, Pending(p) => Mirrors(req[p].w), NEW w, NEW next,
           Writing(req[p], w, next)
    PROVE  Mirrors(w)
<1>1. \A a, b : w = WriteSet(Nothing, a, Nothing, Nothing, b, Nothing) => Mirrors(w)
  BY WriteSetFields DEF Mirrors
<1>2. CASE Inserting(req[p], w, next)
  <2>1. PICK a : w = [NoWrites EXCEPT !.coupons = a]
    BY <1>2 DEF Inserting
  <2>2. QED
    BY <1>1, <2>1, RowsForm
<1>3. CASE Marking(w)
  <2>1. PICK b : w = [NoWrites EXCEPT !.invitations = b]
    BY <1>3 DEF Marking
  <2>2. QED
    BY <1>1, <2>1, InvitationsForm
<1>4. QED
  BY <1>2, <1>3 DEF Writing, Pending

\* What waits still mirrors when another write spares it.
LEMMA SparedMirrors ==
    ASSUME TypeOK, NEW v \in Writes, NEW w \in Writes, Mirrors(v), Mirrors(w), Disjoint(v, w),
           seats' = Install(seats, w.seats)
    PROVE  Mirrors(v)'
<1>1. /\ \A place \in Places :
            /\ seats'[place] = IF place \in DOMAIN w.seats THEN w.seats[place] ELSE seats[place]
            /\ Install(seats, v.seats)[place]
                 = IF place \in DOMAIN v.seats THEN v.seats[place] ELSE seats[place]
      /\ DOMAIN seats' = Places
  BY DEF TypeOK, Install
<1>2. \A place \in Places : Install(seats', v.seats)[place]
        = IF place \in DOMAIN v.seats THEN v.seats[place] ELSE seats'[place]
  BY <1>1 DEF Install
<1>3. /\ DOMAIN v.seats \subseteq Places /\ DOMAIN v.guests \subseteq Guests
      /\ DOMAIN v.seats \cap DOMAIN w.seats = {}
      /\ DOMAIN v.guests \cap DOMAIN w.guests = {}
  BY WritesTypes, WriteSetElim DEF Disjoint
<1>4. \A place \in DOMAIN v.seats : seats'[place] = seats[place]
  BY <1>1, <1>3
<1>5. ASSUME NEW g \in DOMAIN v.guests
      PROVE  PlacesAfter(v.seats, g)' = PlacesAfter(v.seats, g)
  <2>1. g \notin DOMAIN w.guests /\ g # NoGuest
    BY <1>3, NoGuestAssumption
  <2>2. \A place \in DOMAIN w.seats : w.seats[place] # g /\ seats[place] # g
    BY <2>1 DEF Mirrors
  <2>3. \A place \in Places : Install(seats', v.seats)[place] = g
                                <=> Install(seats, v.seats)[place] = g
    BY <1>1, <1>2, <2>2
  <2>4. QED
    BY <2>3 DEF PlacesAfter
<1>6. QED
  BY <1>4, <1>5 DEF Mirrors

\* The mirror once w is written.
LEMMA WriteMirrors ==
    ASSUME TypeOK, SeatsMirrored, NEW w \in Writes, Mirrors(w),
           seats' = Install(seats, w.seats), guests' = Install(guests, w.guests)
    PROVE  SeatsMirrored'
<1> SUFFICES ASSUME NEW g \in Guests, guests'[g].phase = "live"
             PROVE  {place \in Places : seats'[place] = g} = {guests'[g].table} \X guests'[g].mirror
  BY DEF SeatsMirrored, Live, SeatsOf
<1>1. guests'[g] = IF g \in DOMAIN w.guests THEN w.guests[g] ELSE guests[g]
  BY Installed DEF TypeOK
<1>2. {place \in Places : seats'[place] = g} = PlacesAfter(w.seats, g)
  BY DEF PlacesAfter
<1>3. CASE g \in DOMAIN w.guests
  BY <1>1, <1>2, <1>3 DEF Mirrors
<1>4. CASE g \notin DOMAIN w.guests
  BY <1>1, <1>2, <1>4, PlacesStay DEF SeatsMirrored, Live
<1>5. QED
  BY <1>3, <1>4

\* The mirror now, and once what waits is written.
Mirrored == SeatsMirrored /\ \A p \in Requests : Pending(p) => Mirrors(req[p].w)

\* Every step keeps it.
LEMMA StepMirrored ==
    ASSUME IInv, IInv', AllCalled, "import" \notin Ops, Mirrored, [Next]_vars
    PROVE  Mirrored'
<1>1. CASE UNCHANGED <<documents, req>>
  BY <1>1 DEF documents, Mirrored, SeatsMirrored, SeatsOf, Live, Pending, Mirrors, PlacesAfter
<1>2. ASSUME NEW p \in Requests, NEW next, next.op = "commit" => Mirrors(next.w),
             Continue(p, next)
      PROVE  Mirrored'
  <2>1. req'[p] = next /\ \A q \in Requests : q # p => req'[q] = req[q]
    BY <1>2, ContinueSlots DEF IInv
  <2>2. UNCHANGED <<guests, seats>>
    BY <1>2 DEF Continue, documents
  <2>3. ASSUME NEW q \in Requests, Pending(q)' PROVE Mirrors(req[q].w)'
    <3>1. PICK v : v = req'[q].w /\ Mirrors(v)
      BY <1>2, <2>1, <2>3 DEF Mirrored, Pending
    <3>2. QED
      BY <2>2, <3>1 DEF Mirrors, PlacesAfter
  <2>4. QED
    BY <2>2, <2>3 DEF Mirrored, SeatsMirrored, SeatsOf, Live
<1>3. ASSUME NEW p \in Requests, Stepped(p) PROVE Mirrored'
  <2>1. req[p] \in Request /\ req[p].op # "importTx"
    BY DEF IInv, TypeOK, AllCalled, Called
  <2>2. CASE Reads(p)
    BY <1>2, <2>2 DEF Reads
  <2>3. CASE Prepares(p)
    <3>1. PICK w \in Writes : Body(req[p], w) /\ Continue(p, Committing(w))
      BY <2>3 DEF Prepares, Transaction
    <3>2. Mirrors(w)
      BY <2>1, <3>1, BodyMirrors DEF Mirrored, IInv, EInv
    <3>3. QED
      BY <1>2, <3>1, <3>2 DEF Committing
  <2>4. CASE Installs(p)
    <3>1. PICK w \in Writes, next \in Request :
            next.op # "commit" /\ Writing(req[p], w, next) /\ Write(p, w, next)
      BY <2>4 DEF Installs
    <3>2. Mirrors(w)
      BY <3>1, WritingMirrors DEF Mirrored
    <3>3. seats' = Install(seats, w.seats) /\ guests' = Install(guests, w.guests)
      BY <3>1 DEF Write
    <3>4. ASSUME NEW q \in Requests, Pending(q)' PROVE Mirrors(req[q].w)'
      <4>1. req'[q] = req[q] /\ Pending(q) /\ Disjoint(req[q].w, w)
        BY <3>1, <3>4, WriteSlots DEF IInv, Pending, Idle
      <4>2. PICK v : v = req[q].w /\ v \in Writes /\ Mirrors(v)
        BY <4>1, GuestRequestShapes DEF IInv, TypeOK, Pending, Mirrored
      <4>3. Mirrors(v)'
        BY <3>2, <3>3, <4>1, <4>2, SparedMirrors DEF IInv
      <4>4. v = req'[q].w
        BY <4>1, <4>2
      <4>5. QED
        BY <4>3, <4>4 DEF Mirrors, PlacesAfter
    <3>5. SeatsMirrored'
      BY <3>2, <3>3, WriteMirrors DEF IInv, Mirrored
    <3>6. QED
      BY <3>4, <3>5 DEF Mirrored
  <2>5. QED
    BY <1>3, <2>2, <2>3, <2>4 DEF Stepped
<1>4. QED
  BY <1>1, <1>3, StepForms

\* Where no import moves guests between tables, the mirror of every live guest
\* is its seat rows, whatever seating, removal, update or replace overlaps.
THEOREM MirrorIsExact ==
    ASSUME "import" \notin Ops
    PROVE  Spec => []SeatsMirrored
<1>1. Init => Mirrored
  BY DEF Init, Mirrored, SeatsMirrored, Live, NoGuestDocument, Pending, Idle
<1>2. IInv /\ IInv' /\ AllCalled /\ AllCalled' /\ Mirrored /\ [Next]_vars => Mirrored'
  BY StepMirrored
<1>3. Mirrored => SeatsMirrored
  BY DEF Mirrored
<1>4. QED
  BY Invariance, AlwaysCalled, <1>1, <1>2, <1>3, PTL DEF Spec

-----------------------------------------------------------------------------
(* The pool is the quota.  A quota change that overlaps with a request may  *)
(* leave rows that this request made for the earlier, larger quota; where   *)
(* no quota changes, or no requests overlap, there are none.                *)

Steady == "patch" \notin Ops \/ Alone

\* There is no row above the quota.
Within == \A n \in Numbers : coupons[n] # Absent => n <= couple.guestQuota

\* Nor will there be when w is written.
Bounded(w) ==
    /\ DOMAIN w.couple # {} => "patch" \in Ops
    /\ \A n \in Numbers :
        CouponsSeen(w)[n] # Absent => n <= Install(couple, w.couple).guestQuota

\* The quota that r remembers is the quota.
OfQuota(r) ==
    /\ r.op \in QuotaSteps => r.quota = couple.guestQuota
    /\ r.op = "patchTx" => r.old = couple.guestQuota
    /\ r.op = "poolInsert" => \A n \in r.missing : n <= couple.guestQuota
    /\ r.op = "commit" => Bounded(r.w)

PoolBounded == Within /\ \A p \in Requests : OfQuota(req[p])

\* resize: the rows above the new quota that it may take away go.
LEMMA ResizeWithin ==
    ASSUME NEW c \in Rows, NEW old \in Numbers, NEW quota \in Numbers,
           ResizeAble(c, old, quota),
           \A n \in Numbers : c[n] # Absent => n <= old
    PROVE  \A n \in Numbers : Install(c, Resize(c, old, quota))[n] # Absent => n <= quota
<1> DEFINE grown == EnsurePool(c, Larger(old, quota))
           free  == Free(Install(c, grown))
           gone  == PutAll(Above(old, quota) \cap free, Absent)
<1>1. Resize(c, old, quota) = Then(grown, gone)
  BY DEF Resize
<1>2. DOMAIN c = Numbers /\ Numbers \subseteq Nat
  BY DEF Rows, Numbers
<1>3. ASSUME NEW n \in Numbers, n > quota
      PROVE  Install(c, Then(grown, gone))[n] = Absent
  <2>1. n \in Nat /\ old \in Nat /\ quota \in Nat
    BY <1>2
  <2>2. CASE n <= old
    <3>1. n \in Above(old, quota) /\ n <= Larger(old, quota)
      BY <1>3, <2>1, <2>2 DEF Above, Larger
    <3>2. c[n].status \notin {"ASSIGNED", "USED"} /\ c[n] \in CouponRow
      BY <3>1 DEF ResizeAble, Rows
    <3>3. c[n] = Absent \/ c[n] = Available
      BY <3>2 DEF CouponRow, Assigned, Used
    <3>4. Install(c, grown)[n] = Available
      <4>1. CASE c[n] = Absent
        <5>1. n \in DOMAIN grown /\ grown[n] = Available
          BY <3>1, <4>1 DEF EnsurePool, PutAll
        <5>2. QED
          BY <1>2, <5>1 DEF Install
      <4>2. CASE c[n] = Available
        <5>1. n \notin DOMAIN grown
          BY <4>2, RowsExist DEF EnsurePool, PutAll
        <5>2. QED
          BY <1>2, <4>2, <5>1 DEF Install
      <4>3. QED
        BY <3>3, <4>1, <4>2
    <3>5. n \in DOMAIN gone /\ gone[n] = Absent
      BY <3>1, <3>4 DEF Free, PutAll
    <3> HIDE DEF grown, gone
    <3>6. QED
      BY <1>2, <3>5 DEF Install, Then
  <2>3. CASE ~(n <= old)
    <3>1. c[n] = Absent
      BY <2>3
    <3>2. n \notin DOMAIN grown
      BY <1>3, <2>1, <2>3 DEF EnsurePool, PutAll, Larger
    <3>3. n \notin DOMAIN gone \/ gone[n] = Absent
      BY DEF PutAll
    <3> HIDE DEF grown, gone
    <3>4. QED
      BY <1>2, <3>1, <3>2, <3>3 DEF Install, Then
  <2>4. QED
    BY <2>2, <2>3
<1>4. ASSUME NEW n \in Numbers, Install(c, Then(grown, gone))[n] # Absent
      PROVE  n <= quota
  <2>1. ~(n > quota)
    BY <1>3, <1>4
  <2>2. QED
    BY <1>2, <2>1
<1>5. QED
  BY <1>1, <1>4

\* A write that leaves the quota alone and makes rows up to it only.
LEMMA FillsBounded ==
    ASSUME TypeOK, Within, NEW w \in Writes, DOMAIN w.couple = {}, NEW quota,
           quota = couple.guestQuota \/ quota = 0, Fills(coupons, w.coupons, quota)
    PROVE  Bounded(w)
<1>1. Install(couple, w.couple) = couple
  BY InstallUntouched DEF TypeOK
<1>2. ASSUME NEW n \in Numbers, CouponsSeen(w)[n] # Absent PROVE n <= couple.guestQuota
  <2>1. n \in DOMAIN coupons /\ n \in Nat /\ ~(n <= 0)
    BY DEF TypeOK, Numbers
  <2>2. CASE n \in DOMAIN w.coupons
    BY <2>1, <2>2 DEF Fills, Within
  <2>3. CASE n \notin DOMAIN w.coupons
    BY <1>2, <2>1, <2>3 DEF CouponsSeen, Install, Within
  <2>4. QED
    BY <2>2, <2>3
<1>3. QED
  BY <1>1, <1>2 DEF Bounded

LEMMA BodyBounded ==
    ASSUME IInv, AllCalled, Within, NEW p \in Requests, OfQuota(req[p]), NEW w \in Writes,
           Body(req[p], w)
    PROVE  Bounded(w)
<1> DEFINE r == req[p]
<1>1. CASE r.op # "patchTx"
  <2>1. DOMAIN w.couple = {} /\ Fills(coupons, w.coupons, PoolQuota(r))
    BY <1>1, BodyFills
  <2>2. PoolQuota(r) = couple.guestQuota \/ PoolQuota(r) = 0
    BY DEF PoolQuota, OfQuota
  <2> HIDE DEF r
  <2>3. QED
    BY <2>1, <2>2, FillsBounded DEF IInv
<1>2. CASE r.op = "patchTx"
  <2>1. Patching(r, w)
    BY <1>2 DEF Body
  <2>2. r.old = couple.guestQuota /\ r.old \in Numbers /\ r.quota \in Numbers
    BY <1>2, CouponRequestShapes, BoundsAssumption DEF IInv, TypeOK, OfQuota
  <2>3. w = WriteSet(Put("guestQuota", r.quota), Resize(coupons, r.old, r.quota),
                     Nothing, Nothing, Nothing, Nothing)
    BY <2>1, PatchingParts
  <2>4. w.couple = Put("guestQuota", r.quota) /\ w.coupons = Resize(coupons, r.old, r.quota)
    BY <2>3, WriteSetFields
  <2>5. Install(couple, w.couple).guestQuota = r.quota
    BY <2>4 DEF Put, Install, IInv, TypeOK
  <2>6. ResizeAble(coupons, r.old, r.quota) /\ coupons \in Rows
    BY <2>1 DEF Patching, IInv, TypeOK, Rows
  <2>7. \A n \in Numbers : coupons[n] # Absent => n <= r.old
    BY <2>2 DEF Within
  <2>8. \A n \in Numbers : CouponsSeen(w)[n] # Absent => n <= r.quota
    BY <2>2, <2>4, <2>6, <2>7, ResizeWithin DEF CouponsSeen
  <2>9. "patch" \in Ops
    BY <1>2 DEF AllCalled, Called
  <2>10. QED
    BY <2>5, <2>8, <2>9 DEF Bounded
<1>3. QED
  BY <1>1, <1>2

\* Every write, and what its request remembers after it.
LEMMA WritingBounded ==
    ASSUME TypeOK, Within, NEW p \in Requests, OfQuota(req[p]), NEW w \in Writes, NEW next,
           Writing(req[p], w, next)
    PROVE  /\ Bounded(w)
           /\ \/ next = Idle
              \/ /\ DOMAIN w.couple = {}
                 /\ next.op \in {"idle", "importRead", "poolInsert"}
                 /\ next.op = "poolInsert" => \A n \in next.missing : n <= couple.guestQuota
<1>1. CASE req[p].op = "commit" /\ req[p].w = w /\ next = Idle
  BY <1>1 DEF OfQuota
<1>2. CASE Inserting(req[p], w, next)
  <2>1. PICK n \in req[p].missing : w = [NoWrites EXCEPT !.coupons = Put(n, Available)]
    BY <1>2 DEF Inserting
  <2>2. w = WriteSet(Nothing, Put(n, Available), Nothing, Nothing, Nothing, Nothing)
    BY <2>1, RowsForm
  <2>3. DOMAIN w.couple = {} /\ w.coupons = Put(n, Available)
    BY <2>2, WriteSetFields
  <2>4. \A m \in req[p].missing : m <= couple.guestQuota
    BY <1>2 DEF Inserting, OfQuota
  <2>5. Fills(coupons, w.coupons, couple.guestQuota)
    BY <2>3, <2>4, RowsExist DEF Fills, Put
  <2>6. Bounded(w)
    BY <2>3, <2>5, FillsBounded
  <2>7. QED
    BY <1>2, <2>3, <2>4, <2>6 DEF Inserting
<1>3. CASE Marking(w) /\ next = Idle
  <2>1. PICK a : w = [NoWrites EXCEPT !.invitations = a]
    BY <1>3 DEF Marking
  <2>2. w = WriteSet(Nothing, Nothing, Nothing, Nothing, a, Nothing)
    BY <2>1, InvitationsForm
  <2>3. DOMAIN w.couple = {} /\ DOMAIN w.coupons = {}
    BY <2>2, WriteSetFields
  <2>4. Fills(coupons, w.coupons, 0)
    BY <2>3 DEF Fills
  <2>5. QED
    BY <1>3, <2>3, <2>4, FillsBounded
<1>4. QED
  BY <1>1, <1>2, <1>3 DEF Writing

\* Every step keeps it.
LEMMA StepBounded ==
    ASSUME IInv, IInv', AllCalled, Steady, PoolBounded, [Next]_vars
    PROVE  PoolBounded'
<1>1. CASE UNCHANGED <<documents, req>>
  BY <1>1 DEF documents, PoolBounded, Within, OfQuota, Bounded, CouponsSeen
<1>2. ASSUME NEW p \in Requests, NEW next, OfQuota(next), Continue(p, next)
      PROVE  PoolBounded'
  <2>1. req'[p] = next /\ \A q \in Requests : q # p => req'[q] = req[q]
    BY <1>2, ContinueSlots DEF IInv
  <2>2. UNCHANGED <<couple, coupons>>
    BY <1>2 DEF Continue, documents
  <2>3. ASSUME NEW q \in Requests PROVE OfQuota(req[q])'
    <3>1. PICK r : r = req'[q] /\ OfQuota(r)
      BY <1>2, <2>1 DEF PoolBounded
    <3>2. OfQuota(r)'
      BY <2>2, <3>1 DEF OfQuota, Bounded, CouponsSeen
    <3>3. QED
      BY <3>1, <3>2 DEF OfQuota, Bounded, CouponsSeen
  <2>4. QED
    BY <2>2, <2>3 DEF PoolBounded, Within
<1>3. ASSUME NEW p \in Requests, Stepped(p) PROVE PoolBounded'
  <2>1. Within /\ OfQuota(req[p])
    BY DEF PoolBounded
  <2>2. CASE Reads(p)
    <3>1. PICK next : next.op # "commit" /\ Reading(req[p], next) /\ Continue(p, next)
      BY <2>2 DEF Reads
    <3>2. next.op \in QuotaSteps => next.quota = couple.guestQuota
      BY <2>1, <3>1 DEF Reading, OfQuota
    <3>3. ASSUME next.op = "poolInsert", NEW n \in next.missing
          PROVE  n <= couple.guestQuota
      <4>1. req[p].op = "poolRead" /\ n \in DOMAIN EnsurePool(coupons, req[p].quota)
        BY <3>1, <3>3 DEF Reading
      <4>2. n <= req[p].quota
        BY <4>1 DEF EnsurePool, PutAll
      <4>3. QED
        BY <2>1, <4>1, <4>2 DEF OfQuota, QuotaSteps
    <3>4. next.op = "patchTx" => next.old = couple.guestQuota
      BY <3>1 DEF Reading
    <3>5. OfQuota(next)
      BY <3>1, <3>2, <3>3, <3>4 DEF OfQuota
    <3>6. QED
      BY <1>2, <3>1, <3>5
  <2>3. CASE Prepares(p)
    <3>1. PICK w \in Writes : Body(req[p], w) /\ Continue(p, Committing(w))
      BY <2>3 DEF Prepares, Transaction
    <3>2. Bounded(w)
      BY <2>1, <3>1, BodyBounded
    <3>3. OfQuota(Committing(w))
      BY <3>2 DEF OfQuota, Committing, QuotaSteps
    <3>4. QED
      BY <1>2, <3>1, <3>3
  <2>4. CASE Installs(p)
    <3>1. PICK w \in Writes, next \in Request :
            next.op # "commit" /\ Writing(req[p], w, next) /\ Write(p, w, next)
      BY <2>4 DEF Installs
    <3>2. /\ Bounded(w)
          /\ \/ next = Idle
             \/ /\ DOMAIN w.couple = {}
                /\ next.op \in {"idle", "importRead", "poolInsert"}
                /\ next.op = "poolInsert" => \A n \in next.missing : n <= couple.guestQuota
      BY <2>1, <3>1, WritingBounded DEF IInv
    <3>3. couple' = Install(couple, w.couple) /\ coupons' = Install(coupons, w.coupons)
      BY <3>1 DEF Write
    <3>4. Within'
      BY <3>2, <3>3 DEF Within, Bounded, CouponsSeen
    <3>5. DOMAIN w.couple = {} => couple' = couple
      BY <3>3, InstallUntouched DEF IInv, TypeOK
    <3>6. OfQuota(req[p])'
      <4>1. req'[p] = next
        BY <3>1, WriteSlots DEF IInv
      <4>2. OfQuota(next)'
        BY <3>2, <3>5 DEF OfQuota, QuotaSteps, Idle
      <4>3. QED
        BY <4>1, <4>2 DEF OfQuota, Bounded, CouponsSeen
    <3>7. ASSUME NEW q \in Requests, q # p PROVE OfQuota(req[q])'
      <4>1. CASE req'[q] = Idle
        BY <4>1 DEF OfQuota, QuotaSteps, Idle
      <4>2. CASE req'[q] = req[q]
        <5>1. couple' = couple
          BY <3>2, <3>5, <3>7 DEF Steady, Alone, Bounded
        <5>2. PICK r : r = req[q] /\ OfQuota(r)
          BY DEF PoolBounded
        <5>3. ASSUME r.op = "commit" PROVE Bounded(r.w)'
          <6>1. Bounded(r.w)
            BY <5>2, <5>3 DEF OfQuota
          <6>2. DOMAIN r.w.couple # {} => "patch" \in Ops
            BY <6>1 DEF Bounded
          <6>3. Install(couple, r.w.couple) = couple
            <7>1. DOMAIN r.w.couple = {}
              BY <3>7, <6>2 DEF Steady, Alone
            <7>2. QED
              BY <7>1, InstallUntouched DEF IInv, TypeOK
          <6>4. DOMAIN coupons = Numbers /\ DOMAIN coupons' = Numbers
            BY DEF IInv, TypeOK
          <6>5. ASSUME NEW n \in Numbers, Install(coupons', r.w.coupons)[n] # Absent
                PROVE  n <= couple.guestQuota
            <7>1. CASE n \in DOMAIN r.w.coupons
              BY <6>1, <6>3, <6>4, <6>5, <7>1 DEF Bounded, CouponsSeen, Install
            <7>2. CASE n \notin DOMAIN r.w.coupons
              BY <3>4, <5>1, <6>4, <6>5, <7>2 DEF Within, Install
            <7>3. QED
              BY <7>1, <7>2
          <6>6. QED
            BY <5>1, <6>2, <6>3, <6>5 DEF Bounded, CouponsSeen
        <5>4. OfQuota(r)'
          BY <5>1, <5>2, <5>3 DEF OfQuota
        <5>5. QED
          BY <4>2, <5>2, <5>4 DEF OfQuota, Bounded, CouponsSeen
      <4>3. QED
        <5>1. CASE req'[q] = Idle \/ req'[q] = req[q]
          BY <4>1, <4>2, <5>1
        <5>2. QED
          BY <3>1, <3>7, <5>1, WriteSlots DEF IInv
    <3>8. QED
      BY <3>4, <3>6, <3>7 DEF PoolBounded
  <2>5. QED
    BY <1>3, <2>2, <2>3, <2>4 DEF Stepped
<1>4. QED
  BY <1>1, <1>3, StepForms

LEMMA AlwaysBounded ==
    ASSUME Steady
    PROVE  Spec => []PoolBounded
<1>1. Init => PoolBounded
  BY DEF Init, PoolBounded, Within, OfQuota, QuotaSteps, Idle
<1>2. IInv /\ IInv' /\ AllCalled /\ AllCalled' /\ PoolBounded /\ [Next]_vars => PoolBounded'
  BY StepBounded
<1>3. QED
  BY Invariance, AlwaysCalled, <1>1, <1>2, PTL DEF Spec

\* Where no quota change overlaps with another request, the rows are those of
\* 1..guestQuota.
THEOREM PoolIsExact ==
    ASSUME Steady
    PROVE  Spec => []PoolIsQuota
<1>1. TypeOK /\ PoolBounded /\ PoolCoversQuota => PoolIsQuota
  <2> SUFFICES ASSUME TypeOK, PoolBounded, PoolCoversQuota PROVE PoolIsQuota
    OBVIOUS
  <2>1. couple.guestQuota \in Numbers /\ Numbers = 1 .. MaxQuota /\ MaxQuota \in Nat
    BY BoundsAssumption, MaxQuotaAssumption DEF TypeOK, Numbers
  <2>2. 1 .. couple.guestQuota \subseteq Numbers
    BY <2>1
  <2>3. \A n \in Numbers : coupons[n] # Absent => n \in 1 .. couple.guestQuota
    BY <2>1 DEF PoolBounded, Within
  <2>4. QED
    BY <2>2, <2>3 DEF PoolIsQuota, PoolCoversQuota
<1>2. QED
  BY TypeCorrect, AlwaysBounded, PoolCovers, <1>1, PTL

-----------------------------------------------------------------------------
(* The guests stay within the quota.                                       *)

\* The coupons that the live guests ask for, one by one, stand for coupons that
\* they own, all different, and those are rows of the pool.
LEMMA RequestedWithin ==
    ASSUME TypeOK, Exact(coupons, guests), Within
    PROVE  SeatsRequested <= couple.guestQuota
<1> DEFINE q == couple.guestQuota
           own(g) == OwnedBy(coupons, g)
           asked == UNION {{g} \X (1 .. guests[g].coupons) : g \in {h \in Guests : Live(h)}}
           pick == [g \in Guests |->
                      CHOOSE f : f \in Bijection(1 .. Cardinality(own(g)), own(g))]
           stands == [x \in asked |-> pick[x[1]][x[2]]]
<1>1. q \in Numbers /\ q \in Nat
  BY BoundsAssumption, NumbersFinite DEF TypeOK
<1>2. \A g \in Guests : own(g) \in SUBSET Numbers /\ IsFiniteSet(own(g))
  BY NumbersFinite DEF OwnedBy
<1>3. ASSUME NEW g \in Guests PROVE own(g) \subseteq 1 .. q
  <2> SUFFICES ASSUME NEW n \in own(g) PROVE n \in 1 .. q
    OBVIOUS
  <2>1. n \in Numbers /\ coupons[n].guest # NoGuest
    BY NoGuestAssumption DEF OwnedBy
  <2>2. coupons[n] # Absent
    BY <2>1, RowGuests
  <2>3. n <= q
    BY <2>1, <2>2 DEF Within
  <2>4. QED
    BY <1>1, <2>1, <2>3, MaxQuotaAssumption DEF Numbers
<1>4. ASSUME NEW g \in Guests
      PROVE  pick[g] \in Bijection(1 .. Cardinality(own(g)), own(g))
  <2>1. ExistsBijection(1 .. Cardinality(own(g)), own(g))
    BY <1>2, FS_CardinalityType
  <2>2. \E f : f \in Bijection(1 .. Cardinality(own(g)), own(g))
    BY <2>1 DEF ExistsBijection
  <2> HIDE DEF own
  <2>3. pick[g] = CHOOSE f : f \in Bijection(1 .. Cardinality(own(g)), own(g))
    OBVIOUS
  <2>4. QED
    BY <2>2, <2>3, Zenon
<1> HIDE DEF pick
<1>5. ASSUME NEW g \in Guests, Live(g)
      PROVE  /\ \A k \in 1 .. guests[g].coupons : pick[g][k] \in own(g)
             /\ \A k, l \in 1 .. guests[g].coupons : pick[g][k] = pick[g][l] => k = l
  <2>1. Cardinality(own(g)) = guests[g].coupons
    BY <1>5 DEF Exact, Live
  <2> HIDE DEF own
  <2>2. QED
    BY <1>4, <2>1 DEF Bijection, Injection, IsInjective
<1>6. \A x \in asked : x = <<x[1], x[2]>> /\ x[1] \in Guests /\ Live(x[1])
                        /\ x[2] \in 1 .. guests[x[1]].coupons
  OBVIOUS
<1> HIDE DEF asked
<1>7. stands \in [asked -> 1 .. q]
  BY <1>3, <1>5, <1>6
<1>8. ASSUME NEW x \in asked, NEW y \in asked, stands[x] = stands[y]
      PROVE  x = y
  <2>1. stands[x] \in own(x[1]) /\ stands[x] \in own(y[1])
    BY <1>5, <1>6, <1>8
  <2>2. x[1] = y[1]
    BY <2>1 DEF OwnedBy
  <2>3. pick[x[1]][x[2]] = pick[x[1]][y[2]]
    BY <1>8, <2>2
  <2>4. x[2] = y[2]
    BY <1>5, <1>6, <2>2, <2>3
  <2>5. QED
    BY <1>6, <2>2, <2>4
<1> HIDE DEF stands, q
<1>9. stands \in Injection(asked, 1 .. q)
  BY <1>7, <1>8 DEF Injection, IsInjective
<1>10. IsFiniteSet(1 .. q) /\ Cardinality(1 .. q) = q
  BY <1>1, FS_Interval
<1>11. Cardinality(asked) <= q
  BY <1>9, <1>10, FS_Injection
<1>12. QED
  BY <1>11 DEF asked, q, SeatsRequested

\* Where no import leaves guests short and no quota change overlaps, the guests
\* never ask for more coupons than the quota, although assertQuota compares
\* sums that other requests change before the transaction.
THEOREM QuotaHolds ==
    ASSUME "import" \notin Ops, Steady
    PROVE  Spec => []WithinQuota
<1>1. TypeOK /\ Allocated /\ PoolBounded => WithinQuota
  BY RequestedWithin DEF Allocated, PoolBounded, WithinQuota
<1>2. QED
  BY TypeCorrect, AlwaysAllocated, AlwaysBounded, <1>1, PTL

-----------------------------------------------------------------------------
(* The strict ledger.  Where no request grows the count of a guest who is   *)
(* there already, a check-in that waits to commit still has every coupon    *)
(* of its guest.                                                           *)

NoTopUp == {"update", "manual", "import"} \cap Ops = {}

\* w assigns coupons only to the guests that it creates.
Adds(w) ==
    \A n \in DOMAIN w.coupons, g \in Guests :
        w.coupons[n] = Assigned(g) => g \in DOMAIN w.guests /\ guests[g].phase = "none"

\* The guest that w checks in is not new, and w uses every coupon assigned to it.
Full(w) ==
    \A g \in DOMAIN w.checkIns :
        g \in Guests /\ guests[g].phase # "none" /\ w.coupons = UseAll(coupons, g)

Topped == \A p \in Requests : Pending(p) => Adds(req[p].w) /\ Full(req[p].w)

\* Which rows are assigned to whom.
LEMMA RowKinds ==
    /\ \A g : Available # Assigned(g) /\ Absent # Assigned(g)
    /\ \A g, h : Used(g) # Assigned(h)
    /\ \A g, h : Assigned(g) = Assigned(h) => g = h
<1>1. \A g, h : Assigned(g) = Assigned(h) => g = h
  BY RowGuests
<1>2. QED
  BY <1>1 DEF Available, Absent, Assigned, Used

\* A write that makes rows available, absent or used assigns none.
LEMMA AddsNothing ==
    ASSUME NEW w,
           \A n \in DOMAIN w.coupons :
                w.coupons[n] \in {Available, Absent} \/ \E g : w.coupons[n] = Used(g)
    PROVE  Adds(w)
BY RowKinds DEF Adds

LEMMA EnsuringAdds ==
    ASSUME NEW w \in Writes, Adds(w), NEW quota
    PROVE  Adds(EnsuringPool(w, quota))
<1> DEFINE v == EnsurePool(CouponsSeen(w), quota)
<1>1. \A n \in DOMAIN v : v[n] = Available
  BY DEF EnsurePool, PutAll
<1>2. /\ EnsuringPool(w, quota).coupons = Then(w.coupons, v)
      /\ EnsuringPool(w, quota).guests = w.guests
  BY EnsuringParts
<1> HIDE DEF v
<1>3. \A n \in DOMAIN Then(w.coupons, v) :
        \/ n \in DOMAIN w.coupons /\ Then(w.coupons, v)[n] = w.coupons[n]
        \/ Then(w.coupons, v)[n] = Available
  BY <1>1 DEF Then
<1>4. QED
  BY <1>2, <1>3, RowKinds DEF Adds

LEMMA PurgingAdds ==
    ASSUME NEW w \in Writes, DOMAIN w.guests = {}, Adds(w)
    PROVE  Adds(Purging(w))
<1> DEFINE v == Release(CouponsSeen(w), Guests)
<1>1. \A n \in DOMAIN v : v[n] = Available
  BY DEF Release, PutAll
<1>2. Purging(w).coupons = Then(w.coupons, v)
  BY PurgingParts
<1> HIDE DEF v
<1>3. \A n \in DOMAIN Then(w.coupons, v) :
        \/ n \in DOMAIN w.coupons /\ Then(w.coupons, v)[n] = w.coupons[n]
        \/ Then(w.coupons, v)[n] = Available
  BY <1>1 DEF Then
<1>4. \A n \in DOMAIN w.coupons, g \in Guests : w.coupons[n] # Assigned(g)
  BY DEF Adds
<1>5. QED
  BY <1>2, <1>3, <1>4, RowKinds DEF Adds

\* The rows that a new guest is given are assigned to it, the others released.
LEMMA AllocationRows ==
    ASSUME NEW c, NEW g, NEW row, NEW n \in DOMAIN Allocation(c, g, row)
    PROVE  Allocation(c, g, row)[n] \in {Assigned(g), Available}
<1>1. CASE row.numbers # {}
  BY <1>1 DEF Allocation, AssignNumbers, Then, PutAll
<1>2. CASE row.numbers = {}
  BY <1>2 DEF Allocation, AssignLowest, PutAll
<1>3. QED
  BY <1>1, <1>2

LEMMA AddingAdds ==
    ASSUME NEW w \in Writes, Adds(w), NEW g \in Guests, NEW row, AddingAble(w, g, row)
    PROVE  Adds(Adding(w, g, row))
<1> DEFINE v == Allocation(CouponsSeen(w), g, row)
           x == Adding(w, g, row)
<1>1. \A n \in DOMAIN v : v[n] \in {Assigned(g), Available}
  BY AllocationRows
<1>2. x.coupons = Then(w.coupons, v) /\ x.guests = Then(w.guests, Put(g, NewGuest(row)))
  BY AddingParts
<1>3. DOMAIN x.guests = DOMAIN w.guests \cup {g}
  BY <1>2 DEF Then, Put
<1>4. guests[g].phase = "none"
  BY DEF AddingAble, Fresh
<1> HIDE DEF v, x
<1>5. \A n \in DOMAIN x.coupons :
        \/ n \in DOMAIN w.coupons /\ x.coupons[n] = w.coupons[n]
        \/ x.coupons[n] \in {Assigned(g), Available}
  BY <1>1, <1>2 DEF Then
<1>6. Adds(x)
  <2> SUFFICES ASSUME NEW n \in DOMAIN x.coupons, NEW h \in Guests,
                      x.coupons[n] = Assigned(h)
               PROVE  h \in DOMAIN x.guests /\ guests[h].phase = "none"
    BY DEF Adds
  <2>1. CASE n \in DOMAIN w.coupons /\ x.coupons[n] = w.coupons[n]
    BY <1>3, <2>1 DEF Adds
  <2>2. CASE x.coupons[n] \in {Assigned(g), Available}
    BY <1>3, <1>4, <2>2, RowKinds
  <2>3. QED
    BY <1>5, <2>1, <2>2
<1>7. QED
  BY <1>6 DEF x

LEMMA CreatingAdds ==
    ASSUME TypeOK, NEW quota, NEW w, Creating(quota, w)
    PROVE  Adds(w)
<1> DEFINE pool == EnsuringPool(NoWrites, quota)
<1>1. /\ Partial(NoWrites) /\ NoWrites \in Writes
      /\ NoWrites.guests = Nothing /\ DOMAIN NoWrites.coupons = {}
  BY EmptyPartial, WriteSetFields DEF Partial, NoWrites
<1>2. Adds(NoWrites)
  BY <1>1 DEF Adds
<1>3. Partial(pool) /\ Adds(pool) /\ DOMAIN pool.guests = {}
  BY <1>1, <1>2, EnsuringPartial, EnsuringAdds, EnsuringParts, WriteSetFields
<1> HIDE DEF pool
<1>4. Partial(Purging(pool)) /\ Adds(Purging(pool))
  BY <1>3, PurgingPartial, PurgingAdds DEF Partial
<1>5. ASSUME NEW x, Partial(x), Adds(x), NEW y, Added(x, y)
      PROVE  Partial(y) /\ Adds(y)
  BY <1>5, AddingPartial, AddingAdds DEF Added, Partial
<1>6. PICK x : /\ Opened(quota, x)
               /\ \/ w = x
                  \/ Added(x, w)
                  \/ \E y : Added(x, y) /\ Added(y, w)
  BY DEF Creating
<1>7. Partial(x) /\ Adds(x)
  BY <1>3, <1>4, <1>6 DEF Opened, pool
<1>8. QED
  BY <1>5, <1>6, <1>7

\* reconcile has no shortage to fill and no excess to release.
LEMMA ReconcilingAdds ==
    ASSUME TypeOK, Exact(coupons, guests), NEW quota, NEW w, Reconciling(quota, w)
    PROVE  Adds(w)
<1> DEFINE pool == EnsurePool(coupons, quota)
           c    == Install(coupons, pool)
<1>1. coupons \in Rows /\ pool \in RowWrites /\ c \in Rows
  BY EnsurePoolReallocates, InstallType DEF TypeOK, Rows, RowWrites, Reallocates
<1>2. \A g \in Guests : OwnedBy(c, g) = OwnedBy(coupons, g)
  BY <1>1, PoolKept
<1>3. \A n \in DOMAIN pool : pool[n] = Available
  BY DEF EnsurePool, PutAll
<1> HIDE DEF pool, c
<1>4. Short(c) = {}
  BY <1>1, <1>2, NothingToSettle
<1>5. PICK rows : /\ w = [NoWrites EXCEPT !.coupons = Then(pool, rows)]
                  /\ \/ rows = Nothing
                     \/ \E given \in Fillings(c) :
                          rows = Then([n \in DOMAIN given |-> Assigned(given[n])],
                                      PutAll(Excess(c), Available))
  BY DEF Reconciling, pool, c
<1>6. \A n \in DOMAIN rows : rows[n] = Available
  <2>1. CASE rows = Nothing
    BY <2>1 DEF Nothing
  <2>2. ASSUME NEW given \in Fillings(c),
               rows = Then([n \in DOMAIN given |-> Assigned(given[n])],
                           PutAll(Excess(c), Available))
        PROVE  \A n \in DOMAIN rows : rows[n] = Available
    <3>1. \A n \in DOMAIN given : given[n] \in Short(c)
      BY DEF Fillings
    <3>2. DOMAIN given = {}
      BY <1>4, <3>1
    <3>3. QED
      BY <2>2, <3>2 DEF Then, PutAll
  <2>3. QED
    BY <1>5, <2>1, <2>2
<1>7. w.coupons = Then(pool, rows)
  BY <1>5, RowsForm, WriteSetFields
<1>8. \A n \in DOMAIN w.coupons : w.coupons[n] = Available
  BY <1>3, <1>6, <1>7 DEF Then
<1>9. QED
  BY <1>8, AddsNothing

\* Every transaction.
LEMMA BodyAdds ==
    ASSUME IInv, Exact(coupons, guests), NEW r, NEW w, Body(r, w),
           r.op \notin {"updateTx", "manualTx", "importTx"}
    PROVE  Adds(w)
<1>1. \A c, a, g, s, i, e : w = WriteSet(c, a, g, s, i, e) => w.coupons = a
  BY WriteSetFields
<1>2. CASE Creating(r.quota, w)
  BY <1>2, CreatingAdds DEF IInv
<1>3. CASE Removing(r.guest, w)
  <2>1. PICK a, s, i : w = WriteSet(Nothing, Release(coupons, {r.guest}), a, s, i, Nothing)
    BY <1>3, RemovingParts
  <2>2. w.coupons = Release(coupons, {r.guest})
    BY <1>1, <2>1
  <2>3. QED
    BY <2>2, AddsNothing DEF Release, PutAll
<1>4. CASE Reconciling(r.quota, w)
  BY <1>4, ReconcilingAdds DEF IInv
<1>5. CASE Patching(r, w)
  <2>1. w.coupons = Resize(coupons, r.old, r.quota)
    BY <1>1, <1>5, PatchingParts
  <2>2. \A n \in DOMAIN w.coupons : w.coupons[n] \in {Available, Absent}
    BY <2>1 DEF Resize, EnsurePool, Then, PutAll
  <2>3. QED
    BY <2>2, AddsNothing
<1>6. CASE Generating(r, w)
  <2>1. PICK a : w = WriteSet(Nothing, Nothing, Nothing, Nothing, a, Nothing)
    BY <1>6, GeneratingParts
  <2>2. QED
    BY <2>1, WriteSetFields, AddsNothing
<1>7. CASE Admitting(r.guest, r.invitation, w)
  <2>1. PICK a, b : w = WriteSet(Nothing, UseAll(coupons, r.guest), Nothing, Nothing, a, b)
    BY <1>7, AdmittingParts
  <2>2. w.coupons = UseAll(coupons, r.guest)
    BY <1>1, <2>1
  <2>3. QED
    BY <2>2, AddsNothing DEF UseAll, PutAll
<1>8. CASE Seated(w) \/ Unseated(w)
  <2>1. \E a, b : w = WriteSet(Nothing, Nothing, a, b, Nothing, Nothing)
    <3>1. CASE Seated(w)
      BY <3>1, SeatedParts
    <3>2. CASE Unseated(w)
      <4>1. PICK g \in Guests :
              w = WriteSet(Nothing, Nothing,
                           Put(g, [guests[g] EXCEPT !.table = NoTable, !.mirror = {}]),
                           PutAll(SeatsOf(g), NoGuest), Nothing, Nothing)
        BY <3>2, UnseatedParts, Zenon
      <4>2. QED
        BY <4>1, Zenon
    <3>3. QED
      BY <1>8, <3>1, <3>2
  <2>2. PICK a, b : w = WriteSet(Nothing, Nothing, a, b, Nothing, Nothing)
    BY <2>1
  <2>3. w.coupons = Nothing
    BY <1>1, <2>2
  <2>4. \A n \in DOMAIN w.coupons : w.coupons[n] \in {Available, Absent}
    BY <2>3 DEF Nothing
  <2>5. QED
    BY <2>4, AddsNothing
<1>9. QED
  BY <1>2, <1>3, <1>4, <1>5, <1>6, <1>7, <1>8 DEF Body

LEMMA BodyFull ==
    ASSUME IInv, NEW r \in Request, NEW w \in Writes, Body(r, w), r.op # "importTx"
    PROVE  Full(w)
<1>1. CASE DOMAIN w.checkIns = {}
  BY <1>1 DEF Full
<1>2. CASE r.op = "checkinTx" /\ Admitting(r.guest, r.invitation, w)
  <2>1. r.guest \in Guests /\ Stored(r.guest)
    BY <1>2, RequestGuests DEF Admitting
  <2>2. PICK a : w = WriteSet(Nothing, UseAll(coupons, r.guest), Nothing, Nothing, a,
                              Put(r.guest, r.invitation))
    BY <1>2, AdmittingParts
  <2>3. w.coupons = UseAll(coupons, r.guest) /\ w.checkIns = Put(r.guest, r.invitation)
    BY <2>2, WriteSetFields
  <2>4. DOMAIN w.checkIns = {r.guest}
    BY <2>3 DEF Put
  <2>5. QED
    BY <2>1, <2>3, <2>4 DEF Full, Stored
<1>3. QED
  BY <1>1, <1>2, BodySweeps

\* Every write of a step.
LEMMA WritingTopped ==
    ASSUME Topped, NEW p \in Requests, NEW w, NEW next, Writing(req[p], w, next)
    PROVE  Adds(w) /\ Full(w)
<1>1. CASE Pending(p) /\ req[p].w = w
  BY <1>1 DEF Topped
<1>2. CASE Inserting(req[p], w, next)
  <2>1. PICK n : w = [NoWrites EXCEPT !.coupons = Put(n, Available)]
    BY <1>2 DEF Inserting
  <2>2. w = WriteSet(Nothing, Put(n, Available), Nothing, Nothing, Nothing, Nothing)
    BY <2>1, RowsForm
  <2>3. w.coupons = Put(n, Available) /\ DOMAIN w.checkIns = {}
    BY <2>2, WriteSetFields
  <2>4. QED
    BY <2>3, AddsNothing DEF Full, Put
<1>3. CASE Marking(w)
  <2>1. PICK a : w = [NoWrites EXCEPT !.invitations = a]
    BY <1>3 DEF Marking
  <2>2. w = WriteSet(Nothing, Nothing, Nothing, Nothing, a, Nothing)
    BY <2>1, InvitationsForm
  <2>3. DOMAIN w.coupons = {} /\ DOMAIN w.checkIns = {}
    BY <2>2, WriteSetFields
  <2>4. QED
    BY <2>3 DEF Adds, Full
<1>4. QED
  BY <1>1, <1>2, <1>3 DEF Writing, Pending

\* What waits is spared by another write.
LEMMA SparedTopped ==
    ASSUME TypeOK, NEW v \in Writes, NEW w \in Writes, Adds(v), Full(v), Adds(w), Enlivens(w),
           Disjoint(v, w),
           coupons' = Install(coupons, w.coupons), guests' = Install(guests, w.guests)
    PROVE  Adds(v)' /\ Full(v)'
<1>1. \A g \in Guests : guests'[g] = IF g \in DOMAIN w.guests THEN w.guests[g] ELSE guests[g]
  BY Installed DEF TypeOK
<1>2. \A n \in Numbers :
        coupons'[n] = IF n \in DOMAIN w.coupons THEN w.coupons[n] ELSE coupons[n]
  BY Installed DEF TypeOK
<1>3. Adds(v)'
  <2> SUFFICES ASSUME NEW n \in DOMAIN v.coupons, NEW g \in Guests, v.coupons[n] = Assigned(g)
               PROVE  g \in DOMAIN v.guests /\ guests'[g].phase = "none"
    BY DEF Adds
  <2>1. g \in DOMAIN v.guests /\ guests[g].phase = "none"
    BY DEF Adds
  <2>2. g \notin DOMAIN w.guests
    BY <2>1 DEF Disjoint
  <2>3. QED
    BY <1>1, <2>1, <2>2
<1>4. ASSUME NEW g \in DOMAIN v.checkIns
      PROVE  g \in Guests /\ guests'[g].phase # "none" /\ v.coupons = UseAll(coupons', g)
  <2>1. g \in Guests /\ guests[g].phase # "none" /\ v.coupons = UseAll(coupons, g)
    BY DEF Full
  <2>2. guests'[g].phase # "none"
    BY <1>1, <2>1 DEF Enlivens
  <2>3. DOMAIN v.coupons = AssignedTo(coupons, g)
    BY <2>1 DEF UseAll, PutAll
  <2>4. \A n \in DOMAIN w.coupons : w.coupons[n] # Assigned(g) /\ n \notin AssignedTo(coupons, g)
    BY <2>1, <2>3 DEF Adds, Disjoint
  <2>5. AssignedTo(coupons', g) = AssignedTo(coupons, g)
    BY <1>2, <2>4 DEF AssignedTo
  <2>6. QED
    BY <2>1, <2>2, <2>5 DEF UseAll
<1>5. QED
  BY <1>3, <1>4 DEF Full

LEMMA StepTopped ==
    ASSUME IInv, IInv', AllCalled, NoTopUp, Allocated, Topped, [Next]_vars
    PROVE  Topped'
<1>1. CASE UNCHANGED <<documents, req>>
  BY <1>1 DEF documents, Topped, Pending, Adds, Full
<1>2. ASSUME NEW p \in Requests, NEW next, next.op = "commit" => Adds(next.w) /\ Full(next.w),
             Continue(p, next)
      PROVE  Topped'
  <2>1. req'[p] = next /\ \A q \in Requests : q # p => req'[q] = req[q]
    BY <1>2, ContinueSlots DEF IInv
  <2>2. UNCHANGED <<coupons, guests>>
    BY <1>2 DEF Continue, documents
  <2>3. ASSUME NEW q \in Requests, Pending(q)' PROVE Adds(req[q].w)' /\ Full(req[q].w)'
    <3>1. PICK v : v = req'[q].w /\ Adds(v) /\ Full(v)
      BY <1>2, <2>1, <2>3 DEF Topped, Pending
    <3>2. QED
      BY <2>2, <3>1 DEF Adds, Full
  <2>4. QED
    BY <2>3 DEF Topped
<1>3. ASSUME NEW p \in Requests, Stepped(p) PROVE Topped'
  <2>1. req[p] \in Request /\ req[p].op \notin {"updateTx", "manualTx", "importTx"}
    BY DEF IInv, TypeOK, AllCalled, Called, NoTopUp
  <2>2. CASE Reads(p)
    BY <1>2, <2>2 DEF Reads
  <2>3. CASE Prepares(p)
    <3>1. PICK w \in Writes : Body(req[p], w) /\ Continue(p, Committing(w))
      BY <2>3 DEF Prepares, Transaction
    <3>2. Adds(w) /\ Full(w)
      BY <2>1, <3>1, BodyAdds, BodyFull DEF Allocated
    <3>3. QED
      BY <1>2, <3>1, <3>2 DEF Committing
  <2>4. CASE Installs(p)
    <3>1. PICK w \in Writes, next \in Request :
            next.op # "commit" /\ Writing(req[p], w, next) /\ Write(p, w, next)
      BY <2>4 DEF Installs
    <3>2. Adds(w) /\ Full(w)
      BY <3>1, WritingTopped
    <3>3. Enlivens(w)
      BY <3>1, WritingBalanced DEF IInv, Balanced
    <3>4. coupons' = Install(coupons, w.coupons) /\ guests' = Install(guests, w.guests)
      BY <3>1 DEF Write
    <3>5. ASSUME NEW q \in Requests, Pending(q)' PROVE Adds(req[q].w)' /\ Full(req[q].w)'
      <4>1. req'[q] = req[q] /\ Pending(q) /\ Disjoint(req[q].w, w)
        BY <3>1, <3>5, WriteSlots DEF IInv, Pending, Idle
      <4>2. PICK v : v = req[q].w /\ v \in Writes /\ Adds(v) /\ Full(v)
        BY <4>1, GuestRequestShapes DEF IInv, TypeOK, Pending, Topped
      <4>3. Adds(v)' /\ Full(v)'
        BY <3>2, <3>3, <3>4, <4>1, <4>2, SparedTopped DEF IInv
      <4>4. v = req'[q].w
        BY <4>1, <4>2
      <4>5. QED
        BY <4>3, <4>4 DEF Adds, Full
    <3>6. QED
      BY <3>5 DEF Topped
  <2>5. QED
    BY <1>3, <2>2, <2>3, <2>4 DEF Stepped
<1>4. QED
  BY <1>1, <1>3, StepForms

LEMMA AlwaysTopped ==
    ASSUME NoTopUp
    PROVE  Spec => []Topped
<1>1. Init => Topped
  BY DEF Init, Topped, Pending, Idle
<1>2. IInv /\ IInv' /\ AllCalled /\ Allocated /\ Topped /\ [Next]_vars => Topped'
  BY StepTopped
<1>3. "import" \notin Ops
  BY DEF NoTopUp
<1>4. QED
  BY Invariance, AlwaysCalled, AlwaysAllocated, <1>1, <1>2, <1>3, PTL DEF Spec

\* A write that enters with every coupon of its guest is a step of the strict
\* ledger.
LEMMA FullIsStrictStep ==
    ASSUME IInv, IInv', NEW w \in Writes, Legal(w), Full(w),
           coupons' = Install(coupons, w.coupons), checkIns' = Install(checkIns, w.checkIns)
    PROVE  Ledger!Reallocate \/ \E g \in Guests : Ledger!EnterWithAll(g)
<1>1. Ledger!Reallocate \/ \E g \in Guests : Ledger!Enter(g)
  BY LegalIsLedgerStep DEF IInv, TypeOK
<1>2. CASE Enters(w)
  <2>1. PICK g \in Guests : DOMAIN w.checkIns = {g} /\ checkIns[g] = NoInvitation
    BY <1>2 DEF Enters
  <2>2. w.coupons = PutAll(AssignedTo(coupons, g), Used(g))
    BY <2>1 DEF Full, UseAll
  <2>3. DOMAIN checkIns = Guests
    BY DEF IInv, TypeOK
  <2>4. \A h \in Guests : checkIns'[h] # NoInvitation <=> h = g \/ checkIns[h] # NoInvitation
    <3>1. w.checkIns[g] \in Invitations
      BY <2>1, WriteSetElim DEF Writes
    <3>2. checkIns'[g] # NoInvitation
      BY <2>1, <2>3, <3>1, NoInvitationAssumption DEF Install
    <3>3. QED
      BY <2>1, <2>3, <3>2 DEF Install
  <2>5. entered' = entered \cup {g} /\ g \notin entered
    BY <2>1, <2>4 DEF entered
  <2>6. Ledger!AssignedTo(coupons, g) = AssignedTo(coupons, g)
    BY DEF Ledger!AssignedTo, AssignedTo, Ledger!Assigned, Assigned, Ledger!Numbers, Numbers
  <2>7. coupons' = Install(coupons, PutAll(Ledger!AssignedTo(coupons, g), Used(g)))
    BY <2>2, <2>6
  <2>8. Ledger!EnterWith(g, Ledger!AssignedTo(coupons, g))
    BY <2>5, <2>7 DEF Ledger!EnterWith, entered, Ledger!Install, Install,
        Ledger!PutAll, PutAll, Ledger!Used, Used
  <2>9. Ledger!EnterWithAll(g)
    BY <2>8 DEF Ledger!EnterWithAll
  <2>10. QED
    BY <2>9
<1>3. CASE Reallocates(coupons, w.coupons) /\ DOMAIN w.checkIns = {}
  <2>1. \A n \in Numbers :
            IsUsed(coupons[n]) \/ IsUsed(coupons'[n]) => coupons'[n] = coupons[n]
    BY <1>3 DEF Reallocates, Install, IInv, TypeOK
  <2>2. \A g \in Guests : checkIns'[g] = checkIns[g]
    BY <1>3 DEF Install, IInv, TypeOK
  <2>3. coupons' \in [Numbers -> CouponRow]
    BY DEF IInv, TypeOK
  <2>4. Ledger!Reallocate
    BY <2>1, <2>2, <2>3 DEF Ledger!Reallocate, Ledger!IsUsed, IsUsed,
        Ledger!Numbers, Numbers, Ledger!CouponRow, CouponRow,
        Ledger!Absent, Absent, Ledger!Available, Available,
        Ledger!Assigned, Assigned, Ledger!Used, Used
  <2>5. QED
    BY <2>4
<1>4. QED
  BY <1>2, <1>3 DEF Legal

\* Every write of a step is legal.
LEMMA WritingLegal ==
    ASSUME IInv, NEW p \in Requests, NEW w \in Writes, NEW next, Writing(req[p], w, next)
    PROVE  Legal(w)
<1>1. CASE Pending(p) /\ req[p].w = w
  BY <1>1 DEF IInv, PendingLegal
<1>2. CASE Inserting(req[p], w, next)
  <2>1. PICK n : coupons[n] = Absent /\ w = [NoWrites EXCEPT !.coupons = Put(n, Available)]
    BY <1>2 DEF Inserting
  <2>2. w = WriteSet(Nothing, Put(n, Available), Nothing, Nothing, Nothing, Nothing)
    BY <2>1, RowsForm
  <2>3. w.coupons = Put(n, Available) /\ DOMAIN w.checkIns = {} /\ w.coupons \in RowWrites
    BY <2>2, WriteSetFields, WritesTypes
  <2>4. ~IsUsed(Absent) /\ ~IsUsed(Available)
    BY DEF IsUsed, Absent, Available
  <2>5. \A k \in DOMAIN w.coupons : ~IsUsed(coupons[k]) /\ ~IsUsed(w.coupons[k])
    BY <2>1, <2>3, <2>4 DEF Put
  <2>6. QED
    BY <2>3, <2>5 DEF Legal, Reallocates
<1>3. CASE Marking(w)
  <2>1. PICK a : w = [NoWrites EXCEPT !.invitations = a]
    BY <1>3 DEF Marking
  <2>2. w = WriteSet(Nothing, Nothing, Nothing, Nothing, a, Nothing)
    BY <2>1, InvitationsForm
  <2>3. DOMAIN w.coupons = {} /\ DOMAIN w.checkIns = {} /\ w.coupons \in RowWrites
    BY <2>2, WriteSetFields, WritesTypes
  <2>4. QED
    BY <2>3 DEF Legal, Reallocates
<1>4. QED
  BY <1>1, <1>2, <1>3 DEF Writing, Pending

LEMMA StrictStep ==
    ASSUME IInv, IInv', Topped, [Next]_vars
    PROVE  \/ UNCHANGED <<coupons, checkIns>>
           \/ Ledger!Reallocate
           \/ \E g \in Guests : Ledger!EnterWithAll(g)
<1>1. CASE UNCHANGED <<documents, req>>
  BY <1>1 DEF documents
<1>2. ASSUME NEW p \in Requests, Stepped(p)
      PROVE  \/ UNCHANGED <<coupons, checkIns>>
             \/ Ledger!Reallocate
             \/ \E g \in Guests : Ledger!EnterWithAll(g)
  <2>1. CASE Reads(p) \/ Prepares(p)
    BY <2>1 DEF Reads, Prepares, Transaction, Continue, documents
  <2>2. CASE Installs(p)
    <3>1. PICK w \in Writes, next \in Request :
            Writing(req[p], w, next) /\ Write(p, w, next)
      BY <2>2 DEF Installs
    <3>2. Full(w)
      BY <3>1, WritingTopped
    <3>3. coupons' = Install(coupons, w.coupons) /\ checkIns' = Install(checkIns, w.checkIns)
      BY <3>1 DEF Write
    <3>4. Legal(w)
      BY <3>1, WritingLegal
    <3>5. QED
      BY <3>2, <3>3, <3>4, FullIsStrictStep
  <2>3. QED
    BY <1>2, <2>1, <2>2 DEF Stepped
<1>3. QED
  BY <1>1, <1>2, StepForms

\* Without requests that grow the count of a guest, the interleaved handlers
\* implement the strict ledger: a check-in uses every coupon that its guest has
\* when it commits, however old its snapshot is.
THEOREM ImplementsStrictLedger ==
    ASSUME NoTopUp
    PROVE  Spec => StrictLedgerSpec
<1>1. Init => Ledger!Init
  <2> SUFFICES ASSUME Init PROVE Ledger!Init
    OBVIOUS
  <2>1. coupons \in [Numbers -> {Absent, Available}]
    BY DEF Init
  <2>2. {g \in Guests : checkIns[g] # NoInvitation} = {}
    BY DEF Init
  <2>3. QED
    BY <2>1, <2>2 DEF Ledger!Init, Ledger!Numbers, Numbers, Ledger!Absent, Absent,
        Ledger!Available, Available
<1>2. IInv /\ IInv' /\ Topped /\ [Next]_vars
        => [Ledger!Reallocate \/ \E g \in Guests : Ledger!EnterWithAll(g)]_<<coupons,
                {g \in Guests : checkIns[g] # NoInvitation}>>
  BY StrictStep
<1>3. QED
  BY Invariance, AlwaysTopped, <1>1, <1>2, PTL
     DEF Spec, StrictLedgerSpec, Ledger!StrictSpec

-----------------------------------------------------------------------------
(* What a request has read still holds while it is alone in flight.        *)

\* The guest that an update, a removal or a manual allocation has read is live,
\* with the count that was read; so is the guest of a check-in, and its
\* invitation is not revoked.
Current(r) ==
    /\ r.op \in {"updateCouple", "updateCheck", "updateTx"} =>
        Live(r.guest) /\ r.seen = guests[r.guest].coupons
    /\ r.op \in {"removeTx", "manualTx"} => Live(r.guest)
    /\ r.op \in {"checkinRead", "checkinTx"} =>
        Live(r.guest) /\ ~invitations[r.invitation].revoked

AllCurrent == \A p \in Requests : Current(req[p])

LEMMA StepCurrent ==
    ASSUME IInv, IInv', Alone, AllCurrent, [Next]_vars
    PROVE  AllCurrent'
<1>1. CASE UNCHANGED <<documents, req>>
  BY <1>1 DEF documents, AllCurrent, Current, Live
<1>2. ASSUME NEW p \in Requests, Stepped(p) PROVE AllCurrent'
  <2>1. \A q \in Requests : q = p
    BY DEF Alone
  <2>2. ASSUME NEW next, Current(next), Continue(p, next) PROVE AllCurrent'
    <3>1. req'[p] = next /\ UNCHANGED <<guests, invitations>>
      BY <2>2, ContinueSlots DEF IInv, documents
    <3>2. QED
      BY <2>1, <2>2, <3>1 DEF AllCurrent, Current, Live
  <2>3. CASE Reads(p)
    <3>1. PICK next \in Request : Reading(req[p], next) /\ Continue(p, next)
      BY <2>3 DEF Reads
    <3>2. PICK r : r = req[p] /\ Current(r) /\ Reading(r, next)
      BY <3>1 DEF AllCurrent
    <3>3. next.op \in {"updateCouple", "updateCheck", "updateTx"} =>
            Live(next.guest) /\ next.seen = guests[next.guest].coupons
      BY <3>2 DEF Current, Reading
    <3>4. next.op = "checkinTx" => Live(next.guest) /\ ~invitations[next.invitation].revoked
      BY <3>2 DEF Current, Reading
    <3>5. next.op = "checkinRead" => Live(next.guest) /\ ~invitations[next.invitation].revoked
      BY <3>2 DEF Reading, Resolvable
    <3>6. next.op \in {"removeTx", "manualTx"} => Live(next.guest)
      BY <3>2 DEF Reading
    <3>7. QED
      BY <2>2, <3>1, <3>3, <3>4, <3>5, <3>6 DEF Current
  <2>4. CASE Prepares(p)
    <3>1. PICK w : Continue(p, Committing(w))
      BY <2>4 DEF Prepares, Transaction
    <3>2. Current(Committing(w))
      BY DEF Current, Committing
    <3>3. QED
      BY <2>2, <3>1, <3>2
  <2>5. CASE Installs(p)
    <3>1. PICK w \in Writes, next \in Request : Writing(req[p], w, next) /\ Write(p, w, next)
      BY <2>5 DEF Installs
    <3>2. req'[p] = next
      BY <3>1, WriteSlots DEF IInv
    <3>3. next.op \in {"idle", "importRead", "poolInsert"}
      BY <3>1 DEF Writing, Inserting, Idle
    <3>4. QED
      BY <2>1, <3>2, <3>3 DEF AllCurrent, Current
  <2>6. QED
    BY <1>2, <2>3, <2>4, <2>5 DEF Stepped
<1>3. QED
  BY <1>1, <1>2, StepForms

LEMMA AlwaysCurrent ==
    ASSUME Alone
    PROVE  Spec => []AllCurrent
<1>1. Init => AllCurrent
  BY DEF Init, AllCurrent, Current, Idle
<1>2. IInv /\ IInv' /\ AllCurrent /\ [Next]_vars => AllCurrent'
  BY StepCurrent
<1>3. QED
  BY Invariance, <1>1, <1>2, PTL DEF Spec

-----------------------------------------------------------------------------
(* Admission.                                                              *)

\* The guest that w checks in is live and its invitation is not revoked.
Invites(w) ==
    \A g \in DOMAIN w.checkIns : Live(g) /\ ~invitations[w.checkIns[g]].revoked

\* What waits to commit was prepared on the current documents.
AllInvited == \A p \in Requests : Pending(p) => Invites(req[p].w)

\* An import checks nobody in.
LEMMA ImportingAdmits ==
    ASSUME NEW w, Importing(w)
    PROVE  DOMAIN w.checkIns = {}
<1>1. CASE Added(NoWrites, w)
  <2>1. PICK g \in Guests, row \in GuestRow : w = Adding(NoWrites, g, row)
    BY <1>1 DEF Added
  <2>2. NoWrites \in Writes /\ NoWrites.checkIns = Nothing
    BY EmptyPartial DEF Partial, NoWrites
  <2>3. QED
    BY <2>1, <2>2, AddingParts, WriteSetFields
<1>2. ASSUME NEW rows, NEW g, NEW document, w = Saving(g, document, rows)
      PROVE  DOMAIN w.checkIns = {}
  <2>1. w = WriteSet(Nothing, rows, Put(g, document), Nothing, Nothing, Nothing)
    BY <1>2, SaveForm DEF Saving
  <2>2. QED
    BY <2>1, WriteSetFields
<1>3. QED
  BY <1>1, <1>2 DEF Importing

LEMMA StepInvited ==
    ASSUME IInv, IInv', Alone, AllCurrent, AllInvited, [Next]_vars
    PROVE  AllInvited'
<1>1. CASE UNCHANGED <<documents, req>>
  BY <1>1 DEF documents, AllInvited, Invites, Pending, Live
<1>2. ASSUME NEW p \in Requests, Stepped(p) PROVE AllInvited'
  <2>1. \A q \in Requests : q = p
    BY DEF Alone
  <2>2. CASE Reads(p)
    <3>1. PICK next \in Request : next.op # "commit" /\ Continue(p, next)
      BY <2>2 DEF Reads
    <3>2. req'[p] = next
      BY <3>1, ContinueSlots DEF IInv
    <3>3. QED
      BY <2>1, <3>1, <3>2 DEF AllInvited, Pending
  <2>3. CASE Prepares(p)
    <3>1. PICK w \in Writes : Body(req[p], w) /\ Continue(p, Committing(w))
      BY <2>3 DEF Prepares, Transaction
    <3>2. req[p] \in Request /\ Current(req[p])
      BY DEF IInv, TypeOK, AllCurrent
    <3>3. Invites(w)
      <4>1. CASE DOMAIN w.checkIns = {}
        BY <4>1 DEF Invites
      <4>2. CASE req[p].op = "checkinTx" /\ Admitting(req[p].guest, req[p].invitation, w)
        <5>1. PICK g, i : g = req[p].guest /\ i = req[p].invitation
          OBVIOUS
        <5>2. w = WriteSet(Nothing, UseAll(coupons, g), Nothing, Nothing,
                           Put(i, [invitations[i] EXCEPT !.used = TRUE]), Put(g, i))
          BY <4>2, <5>1, AdmittingParts, Zenon
        <5>3. w.checkIns = Put(g, i)
          <6> DEFINE a == UseAll(coupons, g)
                     b == Put(i, [invitations[i] EXCEPT !.used = TRUE])
          <6>1. w = WriteSet(Nothing, a, Nothing, Nothing, b, Put(g, i))
            BY <5>2, Zenon
          <6> HIDE DEF a, b
          <6>2. QED
            BY <6>1, WriteSetFields
        <5>4. Live(g) /\ ~invitations[i].revoked
          BY <3>2, <4>2, <5>1 DEF Current
        <5>5. QED
          BY <5>3, <5>4 DEF Invites, Put
      <4>3. CASE Importing(w)
        BY <4>1, <4>3, ImportingAdmits
      <4>4. QED
        <5>1. CASE req[p].op # "importTx"
          BY <3>1, <3>2, <4>1, <4>2, <5>1, BodySweeps
        <5>2. CASE req[p].op = "importTx"
          BY <3>1, <4>3, <5>2 DEF Body
        <5>3. QED
          BY <5>1, <5>2
    <3>4. req'[p] = Committing(w) /\ UNCHANGED <<guests, invitations>>
      BY <3>1, ContinueSlots DEF IInv, documents
    <3>5. req'[p].w = w
      BY <3>4 DEF Committing
    <3>6. Invites(w)'
      BY <3>3, <3>4 DEF Invites, Live
    <3>7. QED
      BY <2>1, <3>5, <3>6 DEF AllInvited, Invites, Live
  <2>4. CASE Installs(p)
    <3>1. PICK w \in Writes, next \in Request : next.op # "commit" /\ Write(p, w, next)
      BY <2>4 DEF Installs
    <3>2. req'[p] = next
      BY <3>1, WriteSlots DEF IInv
    <3>3. QED
      BY <2>1, <3>1, <3>2 DEF AllInvited, Pending
  <2>5. QED
    BY <1>2, <2>2, <2>3, <2>4 DEF Stepped
<1>3. QED
  BY <1>1, <1>2, StepForms

\* A step that checks a guest in is the commit of what waited.
LEMMA AdmissionStep ==
    ASSUME IInv, IInv', AllInvited, [Next]_vars, NEW g \in Guests,
           checkIns[g] = NoInvitation, checkIns'[g] # NoInvitation
    PROVE  Live(g) /\ ~invitations[checkIns'[g]].revoked
<1>1. CASE UNCHANGED <<documents, req>>
  BY <1>1 DEF documents
<1>2. ASSUME NEW p \in Requests, Stepped(p)
      PROVE  Live(g) /\ ~invitations[checkIns'[g]].revoked
  <2>1. CASE Reads(p) \/ Prepares(p)
    BY <2>1 DEF Reads, Prepares, Transaction, Continue, documents
  <2>2. CASE Installs(p)
    <3>1. PICK w \in Writes, next \in Request : Writing(req[p], w, next) /\ Write(p, w, next)
      BY <2>2 DEF Installs
    <3>2. checkIns'[g] = IF g \in DOMAIN w.checkIns THEN w.checkIns[g] ELSE checkIns[g]
      BY <3>1 DEF Write, Install, IInv, TypeOK
    <3>3. g \in DOMAIN w.checkIns
      BY <3>2
    <3>4. Pending(p) /\ req[p].w = w
      BY <3>1, <3>3, WritingKinds
    <3>5. Invites(w)
      BY <3>4 DEF AllInvited
    <3>6. QED
      BY <3>2, <3>3, <3>5 DEF Invites
  <2>3. QED
    BY <1>2, <2>1, <2>2 DEF Stepped
<1>3. QED
  BY <1>1, <1>2, StepForms

\* While a check-in is alone in flight nobody removes its guest or revokes its
\* invitation between the scan and the commit.
THEOREM AdmissionIsInvited ==
    ASSUME Alone
    PROVE  Spec => AdmitsOnlyInvited
<1>1. Init => AllInvited
  BY DEF Init, AllInvited, Pending, Idle
<1>2. IInv /\ IInv' /\ AllCurrent /\ AllInvited /\ [Next]_vars => AllInvited'
  BY StepInvited
<1>3. IInv /\ IInv' /\ AllInvited /\ [Next]_vars
        => [\A g \in Guests :
                checkIns[g] = NoInvitation /\ checkIns'[g] # NoInvitation
                    => Live(g) /\ ~invitations[checkIns'[g]].revoked]_vars
  BY AdmissionStep
<1>4. QED
  BY Invariance, AlwaysCurrent, <1>1, <1>2, <1>3, PTL DEF Spec, AdmitsOnlyInvited

-----------------------------------------------------------------------------
(* The number of seats.                                                    *)

\* A live guest has no seat or as many as its document says.
Fits(d) == d.phase = "live" => Cardinality(d.mirror) \in {0, d.coupons}

FitsIn(w) == \A g \in DOMAIN w.guests : Fits(w.guests[g])

AllFit ==
    /\ \A g \in Guests : Fits(guests[g])
    /\ \A p \in Requests : Pending(p) => FitsIn(req[p].w)

\* The guests that a create, a bulk or a replace writes hold no seat, and none
\* of them is deleted.
LEMMA CreatingGuests ==
    ASSUME TypeOK, NEW quota, NEW w, Creating(quota, w)
    PROVE  \A g \in DOMAIN w.guests :
                w.guests[g].phase \in {"live", "gone"} /\ w.guests[g].mirror = {}
<1> DEFINE pool == EnsuringPool(NoWrites, quota)
           Bare(x) == \A g \in DOMAIN x.guests :
                        x.guests[g].phase \in {"live", "gone"} /\ x.guests[g].mirror = {}
<1>1. Partial(NoWrites) /\ NoWrites \in Writes /\ NoWrites.guests = Nothing
  BY EmptyPartial DEF Partial, NoWrites
<1>2. Partial(pool) /\ pool \in Writes /\ pool.guests = Nothing
  BY <1>1, EnsuringPartial, EnsuringParts DEF Partial
<1> HIDE DEF pool
<1>3. Bare(pool)
  BY <1>2 DEF Nothing
<1>4. Partial(Purging(pool)) /\ Bare(Purging(pool))
  <2>1. Purging(pool).guests = PutAll({g \in Guests : Stored(g)}, NoGuestDocument("gone"))
    BY <1>2, PurgingParts
  <2>2. Bare(Purging(pool))
    BY <2>1 DEF PutAll, NoGuestDocument
  <2>3. QED
    BY <1>2, <2>2, PurgingPartial
<1>5. ASSUME NEW x, Partial(x), Bare(x), NEW y, Added(x, y)
      PROVE  Partial(y) /\ Bare(y)
  <2>1. PICK g \in Guests, row \in GuestRow : AddingAble(x, g, row) /\ y = Adding(x, g, row)
    BY <1>5 DEF Added
  <2>2. y.guests = Then(x.guests, Put(g, NewGuest(row)))
    BY <1>5, <2>1, AddingParts DEF Partial
  <2>3. NewGuest(row).phase = "live" /\ NewGuest(row).mirror = {}
    BY DEF NewGuest
  <2>4. Bare(y)
    BY <1>5, <2>2, <2>3 DEF Then, Put
  <2>5. QED
    BY <1>5, <2>1, <2>4, AddingPartial
<1>6. PICK x : /\ Opened(quota, x)
               /\ \/ w = x
                  \/ Added(x, w)
                  \/ \E y : Added(x, y) /\ Added(y, w)
  BY DEF Creating
<1>7. Partial(x) /\ Bare(x)
  BY <1>2, <1>3, <1>4, <1>6 DEF Opened, pool
<1> HIDE DEF Bare
<1>8. Bare(w)
  BY <1>5, <1>6, <1>7
<1>9. QED
  BY <1>8 DEF Bare

\* An update keeps the mirror, and changes the count of an unseated guest only.
LEMMA UpdatingFits ==
    ASSUME TypeOK, SeatsMirrored, \A g \in Guests : Fits(guests[g]), NEW r, r.guest \in Guests,
           r.seen = guests[r.guest].coupons, NEW w, Updating(r, w)
    PROVE  FitsIn(w)
<1> DEFINE g == r.guest
           k == IF r.coupons = 0 THEN guests[r.guest].coupons ELSE r.coupons
           document == [guests[r.guest] EXCEPT !.coupons = k]
<1>1. PICK rows : w = WriteSet(Nothing, rows, Put(g, document), Nothing, Nothing, Nothing)
  BY UpdatingParts
<1>2. guests[g] \in GuestDocument
  BY DEF TypeOK
<1>3. /\ document.phase = guests[g].phase /\ document.mirror = guests[g].mirror
      /\ document.coupons = k
  <2> HIDE DEF k
  <2>1. QED
    BY <1>2 DEF GuestDocument
<1> HIDE DEF document
<1>4. w.guests = Put(g, document)
  BY <1>1, WriteSetFields
<1>5. Fits(document)
  <2> SUFFICES ASSUME document.phase = "live"
               PROVE  Cardinality(document.mirror) \in {0, document.coupons}
    BY DEF Fits
  <2>1. Cardinality(guests[g].mirror) \in {0, guests[g].coupons}
    BY <1>3 DEF Fits
  <2>2. CountMayChange(g, r.coupons, r.seen)
    BY DEF Updating
  <2>3. CASE SeatsOf(g) = {}
    <3>1. {guests[g].table} \X guests[g].mirror = {}
      BY <1>3, <2>3 DEF SeatsMirrored, Live
    <3>2. guests[g].mirror = {}
      <4>1. \A s \in guests[g].mirror : <<guests[g].table, s>> \in {guests[g].table} \X guests[g].mirror
        OBVIOUS
      <4>2. QED
        BY <3>1, <4>1
    <3>3. QED
      BY <1>3, <3>2, FS_EmptySet
  <2>4. CASE r.coupons \in {0, r.seen}
    <3>1. k = guests[g].coupons
      BY <2>4
    <3>2. QED
      BY <1>3, <2>1, <3>1
  <2>5. QED
    BY <2>2, <2>3, <2>4 DEF CountMayChange
<1>6. QED
  BY <1>4, <1>5 DEF FitsIn, Put

\* Seating gives each guest as many seats as its count.
LEMMA SeatedFits ==
    ASSUME TypeOK, NEW w, Seated(w)
    PROVE  FitsIn(w)
<1>1. PICK G \in SUBSET Guests, t \in Tables :
        \E chosen \in Choices(G, t) : w = Seating(G, t, chosen)
  BY DEF Seated
<1>2. PICK chosen \in Choices(G, t) : w = Seating(G, t, chosen)
  BY <1>1
<1> DEFINE held(g) == {s \in DOMAIN chosen : chosen[s] = g}
           a == [g \in G |-> [guests[g] EXCEPT !.table = t, !.mirror = held(g)]]
<1>3. PICK b : w = WriteSet(Nothing, Nothing, a, b, Nothing, Nothing)
  BY <1>2, SeatingParts, Zenon
<1>4. DOMAIN a = G /\ \A g \in G : a[g] = [guests[g] EXCEPT !.table = t, !.mirror = held(g)]
  BY Zenon
<1>5. \A g \in G : Cardinality(held(g)) = guests[g].coupons
  BY DEF Choices
<1> HIDE DEF a, held
<1>6. \A g \in G : Fits(a[g])
  <2> SUFFICES ASSUME NEW g \in G PROVE Fits(a[g])
    OBVIOUS
  <2>1. guests[g] \in GuestDocument
    BY DEF TypeOK
  <2>2. PICK m : m = held(g)
    BY Zenon
  <2>3. a[g] = [guests[g] EXCEPT !.table = t, !.mirror = m]
    BY <1>4, <2>2, Zenon
  <2>4. a[g].coupons = guests[g].coupons /\ a[g].mirror = m
    BY <2>1, <2>3, SeatedDocument
  <2>5. QED
    BY <1>5, <2>2, <2>4 DEF Fits
<1>7. w.guests = a
  BY <1>3, WriteSetFields
<1>8. QED
  BY <1>4, <1>6, <1>7 DEF FitsIn

\* Every transaction but an import; an update where what it has read still holds.
LEMMA BodyFits ==
    ASSUME TypeOK, SeatsMirrored, \A g \in Guests : Fits(guests[g]), NEW r \in Request, NEW w,
           Body(r, w), r.op # "importTx", r.op = "updateTx" => r.seen = guests[r.guest].coupons
    PROVE  FitsIn(w)
<1>1. CASE r.op \in {"createTx", "bulkTx"} /\ Creating(r.quota, w)
  BY <1>1, CreatingGuests, FS_EmptySet DEF FitsIn, Fits
<1>2. CASE r.op = "updateTx" /\ Updating(r, w)
  BY <1>2, RequestGuests, UpdatingFits
<1>3. CASE r.op = "removeTx" /\ Removing(r.guest, w)
  <2> DEFINE g == r.guest
             document == [guests[g] EXCEPT !.phase = "deleted"]
  <2>1. g \in Guests
    BY <1>3, RequestGuests
  <2>2. guests[g] \in GuestDocument
    BY <2>1 DEF TypeOK
  <2>3. document.phase = "deleted"
    BY <2>2 DEF GuestDocument
  <2>4. w = WriteSet(Nothing, Release(coupons, {g}), Put(g, document),
                     PutAll(SeatsOf(g), NoGuest), RevokingActive(g), Nothing)
    BY <1>3, RemovingParts, Zenon
  <2> HIDE DEF document
  <2>5. w.guests = Put(g, document)
    BY <2>4, WriteSetFields
  <2>6. QED
    BY <2>3, <2>5 DEF FitsIn, Fits, Put
<1>4. CASE \/ Moving(r.guest, w) \/ Reconciling(r.quota, w) \/ Patching(r, w)
           \/ Generating(r, w) \/ Admitting(r.guest, r.invitation, w)
  BY <1>4, RowBodies DEF FitsIn
<1>5. CASE Seated(w)
  BY <1>5, SeatedFits
<1>6. CASE Unseated(w)
  <2>1. PICK g \in Guests :
            w = WriteSet(Nothing, Nothing,
                         Put(g, [guests[g] EXCEPT !.table = NoTable, !.mirror = {}]),
                         PutAll(SeatsOf(g), NoGuest), Nothing, Nothing)
    BY <1>6, UnseatedParts, Zenon
  <2> DEFINE document == [guests[g] EXCEPT !.table = NoTable, !.mirror = {}]
  <2>2. document.mirror = {}
    <3>1. guests[g] \in GuestDocument
      BY DEF TypeOK
    <3>2. QED
      BY <3>1, SeatedDocument
  <2>3. w = WriteSet(Nothing, Nothing, Put(g, document), PutAll(SeatsOf(g), NoGuest),
                     Nothing, Nothing)
    BY <2>1, Zenon
  <2> HIDE DEF document
  <2>4. w.guests = Put(g, document)
    BY <2>3, WriteSetFields
  <2>5. QED
    BY <2>2, <2>4, FS_EmptySet DEF FitsIn, Fits, Put
<1>7. QED
  BY <1>1, <1>2, <1>3, <1>4, <1>5, <1>6 DEF Body

\* The count of a seated guest is safe where no update runs, or each alone.
Seatable == "update" \notin Ops \/ Alone

LEMMA StepFits ==
    ASSUME IInv, IInv', AllCalled, "import" \notin Ops, Alone => AllCurrent, Seatable,
           SeatsMirrored, AllFit, [Next]_vars
    PROVE  AllFit'
<1>1. CASE UNCHANGED <<documents, req>>
  BY <1>1 DEF documents, AllFit, FitsIn, Fits, Pending
<1>2. ASSUME NEW p \in Requests, NEW next, next.op = "commit" => FitsIn(next.w),
             Continue(p, next)
      PROVE  AllFit'
  <2>1. req'[p] = next /\ \A q \in Requests : q # p => req'[q] = req[q]
    BY <1>2, ContinueSlots DEF IInv
  <2>2. UNCHANGED guests
    BY <1>2 DEF Continue, documents
  <2>3. QED
    BY <1>2, <2>1, <2>2 DEF AllFit, FitsIn, Fits, Pending
<1>3. ASSUME NEW p \in Requests, Stepped(p) PROVE AllFit'
  <2>1. req[p] \in Request /\ req[p].op # "importTx"
    BY DEF IInv, TypeOK, AllCalled, Called
  <2>2. req[p].op = "updateTx" => req[p].seen = guests[req[p].guest].coupons
    BY DEF Seatable, AllCalled, Called, AllCurrent, Current
  <2>3. CASE Reads(p)
    BY <1>2, <2>3 DEF Reads
  <2>4. CASE Prepares(p)
    <3>1. PICK w \in Writes : Body(req[p], w) /\ Continue(p, Committing(w))
      BY <2>4 DEF Prepares, Transaction
    <3>2. FitsIn(w)
      BY <2>1, <2>2, <3>1, BodyFits DEF AllFit, IInv
    <3>3. QED
      BY <1>2, <3>1, <3>2 DEF Committing
  <2>5. CASE Installs(p)
    <3>1. PICK w \in Writes, next \in Request :
            next.op # "commit" /\ Writing(req[p], w, next) /\ Write(p, w, next)
      BY <2>5 DEF Installs
    <3>2. FitsIn(w)
      BY <3>1, WritingKinds DEF AllFit, FitsIn
    <3>3. guests' = Install(guests, w.guests)
      BY <3>1 DEF Write
    <3>4. ASSUME NEW g \in Guests PROVE Fits(guests'[g])
      BY <3>2, <3>3, Installed DEF AllFit, FitsIn, IInv, TypeOK
    <3>5. ASSUME NEW q \in Requests, Pending(q)' PROVE FitsIn(req'[q].w)
      <4>1. req'[q] = req[q] /\ Pending(q)
        BY <3>1, <3>5, WriteSlots DEF IInv, Pending, Idle
      <4>2. QED
        BY <4>1 DEF AllFit
    <3>6. QED
      BY <3>4, <3>5 DEF AllFit, FitsIn, Fits, Pending
  <2>6. QED
    BY <1>3, <2>3, <2>4, <2>5 DEF Stepped
<1>4. QED
  BY <1>1, <1>3, StepForms

\* The rows of a guest are as many as the seats of its mirror.
LEMMA FittingCount ==
    ASSUME TypeOK, SeatsMirrored, AllFit
    PROVE  SeatCount
<1> SUFFICES ASSUME NEW g \in Guests, Live(g)
             PROVE  Cardinality(SeatsOf(g)) \in {0, guests[g].coupons}
  BY DEF SeatCount
<1>1. SeatsOf(g) = {guests[g].table} \X guests[g].mirror
  BY DEF SeatsMirrored
<1>2. IsFiniteSet(SeatNumbers)
  BY BoundsAssumption, FS_Interval DEF SeatNumbers
<1>3. guests[g].mirror \subseteq SeatNumbers
  BY DEF TypeOK, GuestDocument
<1>4. PICK m : m = guests[g].mirror /\ IsFiniteSet(m)
  BY <1>2, <1>3, FS_Subset
<1>5. IsFiniteSet({guests[g].table}) /\ Cardinality({guests[g].table}) = 1
  BY FS_Singleton
<1>6. Cardinality({guests[g].table} \X m) = 1 * Cardinality(m)
  BY <1>4, <1>5, FS_Product
<1>7. Cardinality(m) \in Nat
  BY <1>4, FS_CardinalityType
<1>8. Cardinality(m) \in {0, guests[g].coupons}
  BY <1>4 DEF AllFit, Fits, Live
<1>9. QED
  BY <1>1, <1>4, <1>6, <1>7, <1>8

\* A seated guest keeps as many seats as coupons, whatever seating, removal or
\* replace overlaps, as long as no update of its count does.
THEOREM SeatsFit ==
    ASSUME "import" \notin Ops, Seatable
    PROVE  Spec => []SeatCount
<1>1. Init => AllFit
  BY DEF Init, AllFit, Fits, NoGuestDocument, Pending, Idle
<1>2. IInv /\ IInv' /\ AllCalled /\ (Alone => AllCurrent) /\ SeatsMirrored /\ AllFit
        /\ [Next]_vars => AllFit'
  BY StepFits
<1>3. IInv /\ SeatsMirrored /\ AllFit => SeatCount
  BY FittingCount DEF IInv
<1>4. CASE Alone
  BY <1>4, Invariance, AlwaysCalled, AlwaysCurrent, MirrorIsExact, <1>1, <1>2, <1>3, PTL DEF Spec
<1>5. CASE ~Alone
  BY <1>5, Invariance, AlwaysCalled, MirrorIsExact, <1>1, <1>2, <1>3, PTL DEF Spec
<1>6. QED
  BY <1>4, <1>5

-----------------------------------------------------------------------------
(* Allocations that are frozen or released.                                *)

\* A guest with used coupons has none that is only assigned.
Frozen == \A g \in Guests : UsedBy(coupons, g) # {} => AssignedTo(coupons, g) = {}

\* w assigns coupons to guests that have used none and are not deleted.
Grants(w) ==
    \A n \in DOMAIN w.coupons, g \in Guests :
        w.coupons[n] = Assigned(g) =>
            /\ UsedBy(coupons, g) = {}
            /\ IF g \in DOMAIN w.guests THEN w.guests[g].phase # "deleted"
               ELSE guests[g].phase # "deleted"

\* w writes every coupon of the guests that it deletes.
Frees(w) ==
    \A g \in DOMAIN w.guests :
        w.guests[g].phase = "deleted" => AssignedTo(coupons, g) \subseteq DOMAIN w.coupons

AllKept ==
    /\ Frozen /\ RemovalReleases
    /\ \A p \in Requests :
        Pending(p) => Full(req[p].w) /\ Grants(req[p].w) /\ Frees(req[p].w)

\* A guest that is not there yet has used nothing.
LEMMA NewUnused ==
    ASSUME UsedHasCheckIn, EntrySurvivesReplace, NEW g \in Guests, guests[g].phase = "none"
    PROVE  UsedBy(coupons, g) = {}
BY DEF UsedHasCheckIn, EntrySurvivesReplace, Stored

LEMMA AddsGrants ==
    ASSUME UsedHasCheckIn, EntrySurvivesReplace, NEW w \in Writes, Adds(w),
           \A g \in DOMAIN w.guests : w.guests[g].phase # "deleted"
    PROVE  Grants(w) /\ Frees(w)
BY NewUnused DEF Adds, Grants, Frees

\* Bringing the coupons of a guest to a count assigns rows to nobody else, and
\* none once it has used one.
LEMMA SettlesRows ==
    ASSUME NEW g, NEW count, NEW rows, Settles(g, count, rows), NEW n \in DOMAIN rows
    PROVE  rows[n] \in {Available, Assigned(g)} /\ UsedBy(coupons, g) = {}
<1>1. ASSUME NEW numbers, AssignNumbersAble(coupons, g, count, numbers),
             rows = AssignNumbers(coupons, g, numbers)
      PROVE  rows[n] \in {Available, Assigned(g)} /\ UsedBy(coupons, g) = {}
  BY <1>1 DEF AssignNumbersAble, AssignNumbers, Then, PutAll
<1>2. CASE rows = SyncCount(coupons, g, count)
  BY <1>2 DEF SyncCount, AssignLowest, PutAll, Nothing
<1>3. QED
  BY <1>1, <1>2 DEF Settles

\* So does saving the guest with it, where the guest is live.
LEMMA SettledGrants ==
    ASSUME NEW w \in Writes, NEW g \in Guests, Live(g),
           \A n \in DOMAIN w.coupons :
                w.coupons[n] \in {Available, Assigned(g)} /\ UsedBy(coupons, g) = {},
           \A h \in DOMAIN w.guests : w.guests[h].phase = "live"
    PROVE  Grants(w) /\ Frees(w)
<1>1. \A n \in DOMAIN w.coupons, h \in Guests : w.coupons[n] = Assigned(h) => h = g
  BY RowKinds
<1>2. QED
  BY <1>1 DEF Grants, Frees, Live

LEMMA BodyGrants ==
    ASSUME IInv, Exact(coupons, guests), UsedHasCheckIn, EntrySurvivesReplace,
           NEW r \in Request, NEW w \in Writes, Body(r, w), r.op # "importTx",
           r.op \in {"updateTx", "manualTx"} => Live(r.guest)
    PROVE  Grants(w) /\ Frees(w)
<1>1. r.op \notin {"updateTx", "manualTx"} => Adds(w)
  BY BodyAdds
<1>2. CASE r.op \in {"createTx", "bulkTx"} /\ Creating(r.quota, w)
  <2>1. \A g \in DOMAIN w.guests : w.guests[g].phase # "deleted"
    BY <1>2, CreatingGuests DEF IInv
  <2>2. QED
    BY <1>1, <1>2, <2>1, AddsGrants
<1>3. CASE r.op = "updateTx" /\ Updating(r, w)
  <2> DEFINE g == r.guest
             k == IF r.coupons = 0 THEN guests[r.guest].coupons ELSE r.coupons
             document == [guests[r.guest] EXCEPT !.coupons = k]
  <2>1. g \in Guests /\ Live(g)
    BY <1>3, RequestGuests
  <2>2. PICK rows :
          /\ \/ Settles(g, k, rows)
             \/ r.coupons = 0 /\ rows = Nothing
          /\ w = WriteSet(Nothing, rows, Put(g, document), Nothing, Nothing, Nothing)
    BY <1>3, UpdatingParts
  <2> HIDE DEF k
  <2>3. document.phase = "live"
    BY <2>1 DEF IInv, TypeOK, GuestDocument, Live
  <2> HIDE DEF document
  <2>4. w.coupons = rows /\ w.guests = Put(g, document)
    BY <2>2, WriteSetFields
  <2>5. \A n \in DOMAIN rows : rows[n] \in {Available, Assigned(g)} /\ UsedBy(coupons, g) = {}
    BY <2>2, SettlesRows DEF Nothing
  <2>6. \A h \in DOMAIN w.guests : w.guests[h].phase = "live"
    BY <2>3, <2>4 DEF Put
  <2>7. QED
    BY <2>1, <2>4, <2>5, <2>6, SettledGrants
<1>4. CASE r.op = "removeTx" /\ Removing(r.guest, w)
  <2> DEFINE g == r.guest
             document == [guests[g] EXCEPT !.phase = "deleted"]
  <2>1. g \in Guests /\ Stored(g)
    BY <1>4, RequestGuests DEF Removing
  <2>2. w = WriteSet(Nothing, Release(coupons, {g}), Put(g, document),
                     PutAll(SeatsOf(g), NoGuest), RevokingActive(g), Nothing)
    BY <1>4, RemovingParts, Zenon
  <2> HIDE DEF document
  <2>3. w.coupons = Release(coupons, {g}) /\ w.guests = Put(g, document)
    BY <2>2, WriteSetFields
  <2>4. Grants(w)
    <3>1. \A n \in DOMAIN w.coupons : w.coupons[n] = Available
      BY <2>3 DEF Release, PutAll
    <3>2. QED
      BY <3>1, RowKinds DEF Grants
  <2>5. Frees(w)
    <3>1. AssignedTo(coupons, g) \subseteq DOMAIN w.coupons
      BY <2>3 DEF AssignedTo, Release, PutAll, Assigned
    <3>2. QED
      BY <2>3, <3>1 DEF Frees, Put
  <2>6. QED
    BY <2>4, <2>5
<1>5. CASE r.op = "manualTx" /\ Moving(r.guest, w)
  <2>1. r.guest \in Guests /\ Live(r.guest)
    BY <1>5, RequestGuests
  <2>2. PICK numbers \in SUBSET Numbers :
          /\ AssignNumbersAble(coupons, r.guest, guests[r.guest].coupons, numbers)
          /\ w = WriteSet(Nothing, AssignNumbers(coupons, r.guest, numbers),
                          Nothing, Nothing, Nothing, Nothing)
    BY <1>5, MovingParts
  <2>3. w.coupons = AssignNumbers(coupons, r.guest, numbers) /\ DOMAIN w.guests = {}
    BY <2>2, WriteSetFields
  <2>4. Settles(r.guest, guests[r.guest].coupons, w.coupons)
    BY <2>2, <2>3 DEF Settles
  <2>5. QED
    BY <2>1, <2>3, <2>4, SettlesRows, SettledGrants
<1>6. CASE /\ r.op \notin {"updateTx", "manualTx"}
           /\ \/ Reconciling(r.quota, w) \/ Patching(r, w)
              \/ Generating(r, w) \/ Admitting(r.guest, r.invitation, w)
  <2>1. DOMAIN w.guests = {}
    BY <1>6, RowBodies
  <2>2. QED
    BY <1>1, <1>6, <2>1, AddsGrants
<1>7. CASE r.op = "idle" /\ (Seated(w) \/ Unseated(w))
  <2>1. \A g \in DOMAIN w.guests : w.guests[g].phase # "deleted"
    BY <1>7, SeatedGuests DEF IInv
  <2>2. QED
    BY <1>1, <1>7, <2>1, AddsGrants
<1>8. QED
  BY <1>2, <1>3, <1>4, <1>5, <1>6, <1>7 DEF Body

\* Every write of a step.
LEMMA WritingKept ==
    ASSUME AllKept, NEW p \in Requests, NEW w, NEW next, Writing(req[p], w, next)
    PROVE  Full(w) /\ Grants(w) /\ Frees(w)
<1>1. CASE Pending(p) /\ req[p].w = w
  BY <1>1 DEF AllKept
<1>2. CASE Inserting(req[p], w, next)
  <2>1. PICK n : w = [NoWrites EXCEPT !.coupons = Put(n, Available)]
    BY <1>2 DEF Inserting
  <2>2. w = WriteSet(Nothing, Put(n, Available), Nothing, Nothing, Nothing, Nothing)
    BY <2>1, RowsForm
  <2>3. w.coupons = Put(n, Available) /\ DOMAIN w.guests = {} /\ DOMAIN w.checkIns = {}
    BY <2>2, WriteSetFields
  <2>4. \A m \in DOMAIN w.coupons : w.coupons[m] = Available
    BY <2>3 DEF Put
  <2>5. QED
    BY <2>3, <2>4, RowKinds DEF Full, Grants, Frees
<1>3. CASE Marking(w)
  <2>1. PICK a : w = [NoWrites EXCEPT !.invitations = a]
    BY <1>3 DEF Marking
  <2>2. w = WriteSet(Nothing, Nothing, Nothing, Nothing, a, Nothing)
    BY <2>1, InvitationsForm
  <2>3. DOMAIN w.coupons = {} /\ DOMAIN w.guests = {} /\ DOMAIN w.checkIns = {}
    BY <2>2, WriteSetFields
  <2>4. QED
    BY <2>3 DEF Full, Grants, Frees
<1>4. QED
  BY <1>1, <1>2, <1>3 DEF Writing, Pending

\* A legal write keeps what is frozen and what is released.
LEMMA WriteKeeps ==
    ASSUME TypeOK, Frozen, RemovalReleases, NEW w \in Writes, Legal(w), Full(w), Grants(w),
           Frees(w), coupons' = Install(coupons, w.coupons), guests' = Install(guests, w.guests)
    PROVE  Frozen' /\ RemovalReleases'
<1>1. \A n \in Numbers :
        coupons'[n] = IF n \in DOMAIN w.coupons THEN w.coupons[n] ELSE coupons[n]
  BY Installed DEF TypeOK
<1>2. \A g \in Guests :
        guests'[g] = IF g \in DOMAIN w.guests THEN w.guests[g] ELSE guests[g]
  BY Installed DEF TypeOK
<1>3. Frozen'
  <2> SUFFICES ASSUME NEW g \in Guests, NEW n \in Numbers, NEW k \in Numbers,
                      coupons'[n] = Used(g), coupons'[k] = Assigned(g)
               PROVE  FALSE
    BY DEF Frozen, UsedBy, AssignedTo
  <2>1. \A m, l \in Numbers : ~(coupons[m] = Used(g) /\ coupons[l] = Assigned(g))
    BY DEF Frozen, UsedBy, AssignedTo
  <2>2. CASE Reallocates(coupons, w.coupons)
    <3>1. coupons[n] = Used(g)
      BY <1>1, <2>2 DEF Reallocates, IsUsed, Used
    <3>2. k \notin DOMAIN w.coupons
      BY <1>1, <3>1 DEF Grants, UsedBy
    <3>3. QED
      BY <1>1, <2>1, <3>1, <3>2
  <2>3. CASE Enters(w)
    <3>1. PICK h \in Guests : DOMAIN w.checkIns = {h}
      BY <2>3 DEF Enters
    <3>2. w.coupons = PutAll(AssignedTo(coupons, h), Used(h))
      BY <3>1 DEF Full, UseAll
    <3>3. /\ DOMAIN w.coupons = AssignedTo(coupons, h)
          /\ \A m \in DOMAIN w.coupons : w.coupons[m] = Used(h)
      BY <3>2 DEF PutAll
    <3>4. k \notin DOMAIN w.coupons /\ coupons[k] = Assigned(g)
      BY <1>1, <3>3, RowKinds
    <3>5. g # h
      BY <3>3, <3>4 DEF AssignedTo
    <3>6. coupons[n] = Used(g)
      BY <1>1, <3>3, <3>5 DEF Used
    <3>7. QED
      BY <2>1, <3>4, <3>6
  <2>4. QED
    BY <2>2, <2>3 DEF Legal
<1>4. RemovalReleases'
  <2> SUFFICES ASSUME NEW g \in Guests, guests'[g].phase = "deleted", NEW n \in Numbers,
                      coupons'[n] = Assigned(g)
               PROVE  FALSE
    BY DEF RemovalReleases, AssignedTo
  <2>1. CASE n \in DOMAIN w.coupons
    BY <1>1, <1>2, <2>1 DEF Grants
  <2>2. CASE n \notin DOMAIN w.coupons
    BY <1>1, <1>2, <2>2 DEF Frees, RemovalReleases, AssignedTo
  <2>3. QED
    BY <2>1, <2>2
<1>5. QED
  BY <1>3, <1>4

\* What waits is spared by a write that assigns coupons to new guests only.
LEMMA SparedKept ==
    ASSUME TypeOK, NEW v \in Writes, NEW w \in Writes, Grants(v), Frees(v), Adds(w),
           Disjoint(v, w), coupons' = Install(coupons, w.coupons),
           Adds(v)', UsedHasCheckIn', EntrySurvivesReplace'
    PROVE  Grants(v)' /\ Frees(v)'
<1>1. ASSUME NEW n \in DOMAIN v.coupons, NEW g \in Guests, v.coupons[n] = Assigned(g)
      PROVE  /\ UsedBy(coupons', g) = {}
             /\ g \in DOMAIN v.guests /\ v.guests[g].phase # "deleted"
  <2>1. g \in DOMAIN v.guests /\ guests'[g].phase = "none"
    BY <1>1 DEF Adds
  <2>2. UsedBy(coupons', g) = {}
    BY <2>1 DEF UsedHasCheckIn, EntrySurvivesReplace, Stored
  <2>3. QED
    BY <1>1, <2>1, <2>2 DEF Grants
<1>2. ASSUME NEW g \in DOMAIN v.guests, v.guests[g].phase = "deleted",
             NEW n \in Numbers, coupons'[n] = Assigned(g)
      PROVE  n \in DOMAIN v.coupons
  <2>1. g \in Guests /\ g \notin DOMAIN w.guests
    BY WritesTypes, WriteSetElim DEF Disjoint
  <2>2. coupons'[n] = IF n \in DOMAIN w.coupons THEN w.coupons[n] ELSE coupons[n]
    BY Installed DEF TypeOK
  <2>3. coupons[n] = Assigned(g)
    BY <1>2, <2>1, <2>2 DEF Adds
  <2>4. QED
    BY <1>2, <2>3 DEF Frees, AssignedTo
<1>3. QED
  BY <1>1, <1>2 DEF Grants, Frees, AssignedTo

\* What a removal or a check-in settles stays settled where no request gives a
\* guest more coupons, or each runs alone.
Settling == NoTopUp \/ Alone

LEMMA StepKept ==
    ASSUME IInv, IInv', AllCalled, "import" \notin Ops, Settling, Alone => AllCurrent,
           NoTopUp => Topped /\ Topped', Exact(coupons, guests), UsedHasCheckIn,
           UsedHasCheckIn', EntrySurvivesReplace, EntrySurvivesReplace', AllKept, [Next]_vars
    PROVE  AllKept'
<1>1. CASE UNCHANGED <<documents, req>>
  BY <1>1 DEF documents, AllKept, Frozen, RemovalReleases, Pending, Full, Grants, Frees
<1>2. ASSUME NEW p \in Requests, NEW next, Continue(p, next),
             next.op = "commit" => Full(next.w) /\ Grants(next.w) /\ Frees(next.w)
      PROVE  AllKept'
  <2>1. req'[p] = next /\ \A q \in Requests : q # p => req'[q] = req[q]
    BY <1>2, ContinueSlots DEF IInv
  <2>2. UNCHANGED <<coupons, guests>>
    BY <1>2 DEF Continue, documents
  <2>3. ASSUME NEW q \in Requests, Pending(q)'
        PROVE  Full(req[q].w)' /\ Grants(req[q].w)' /\ Frees(req[q].w)'
    <3>1. PICK v : v = req'[q].w /\ Full(v) /\ Grants(v) /\ Frees(v)
      BY <1>2, <2>1, <2>3 DEF AllKept, Pending
    <3>2. QED
      BY <2>2, <3>1 DEF Full, Grants, Frees
  <2>4. Frozen' /\ RemovalReleases'
    BY <2>2 DEF AllKept, Frozen, RemovalReleases
  <2>5. QED
    BY <2>3, <2>4 DEF AllKept
<1>3. ASSUME NEW p \in Requests, Stepped(p) PROVE AllKept'
  <2>1. req[p] \in Request /\ req[p].op # "importTx"
    BY DEF IInv, TypeOK, AllCalled, Called
  <2>2. req[p].op \in {"updateTx", "manualTx"} => Live(req[p].guest)
    BY DEF Settling, NoTopUp, AllCalled, Called, AllCurrent, Current
  <2>3. CASE Reads(p)
    BY <1>2, <2>3 DEF Reads
  <2>4. CASE Prepares(p)
    <3>1. PICK w \in Writes : Body(req[p], w) /\ Continue(p, Committing(w))
      BY <2>4 DEF Prepares, Transaction
    <3>2. Grants(w) /\ Frees(w)
      BY <2>1, <2>2, <3>1, BodyGrants
    <3>3. Full(w)
      BY <2>1, <3>1, BodyFull
    <3>4. QED
      BY <1>2, <3>1, <3>2, <3>3 DEF Committing
  <2>5. CASE Installs(p)
    <3>1. PICK w \in Writes, next \in Request :
            next.op # "commit" /\ Writing(req[p], w, next) /\ Write(p, w, next)
      BY <2>5 DEF Installs
    <3>2. Full(w) /\ Grants(w) /\ Frees(w) /\ Legal(w)
      BY <3>1, WritingKept, WritingLegal
    <3>3. coupons' = Install(coupons, w.coupons) /\ guests' = Install(guests, w.guests)
      BY <3>1 DEF Write
    <3>4. Frozen' /\ RemovalReleases'
      BY <3>2, <3>3, WriteKeeps DEF IInv, AllKept
    <3>5. ASSUME NEW q \in Requests, Pending(q)'
          PROVE  Full(req[q].w)' /\ Grants(req[q].w)' /\ Frees(req[q].w)'
      <4>1. q # p /\ req'[q] = req[q] /\ Pending(q) /\ Disjoint(req[q].w, w)
        BY <3>1, <3>5, WriteSlots DEF IInv, Pending, Idle
      <4>2. NoTopUp /\ Topped /\ Topped'
        BY <4>1 DEF Settling, Alone
      <4>3. PICK v : v = req[q].w /\ v \in Writes /\ Grants(v) /\ Frees(v)
        BY <4>1, GuestRequestShapes DEF IInv, TypeOK, Pending, AllKept
      <4>4. v = req'[q].w
        BY <4>1, <4>3
      <4>5. Full(v)' /\ Adds(v)'
        BY <3>5, <4>2, <4>4 DEF Topped, Full, Adds
      <4>6. Adds(w)
        BY <3>1, <4>2, WritingTopped
      <4>7. Grants(v)' /\ Frees(v)'
        BY <3>3, <4>1, <4>3, <4>5, <4>6, SparedKept DEF IInv
      <4>8. QED
        BY <4>4, <4>5, <4>7 DEF Full, Grants, Frees
    <3>6. QED
      BY <3>4, <3>5 DEF AllKept
  <2>6. QED
    BY <1>3, <2>3, <2>4, <2>5 DEF Stepped
<1>4. QED
  BY <1>1, <1>3, StepForms

LEMMA AlwaysKept ==
    ASSUME "import" \notin Ops, Settling
    PROVE  Spec => []AllKept
<1>1. Init => AllKept
  <2> SUFFICES ASSUME Init PROVE AllKept
    OBVIOUS
  <2>1. \A n \in Numbers : coupons[n] \in {Absent, Available}
    BY DEF Init
  <2>2. \A n \in Numbers, g \in Guests : coupons[n] # Assigned(g)
    BY <2>1, RowKinds
  <2>3. Frozen /\ RemovalReleases
    BY <2>2 DEF Frozen, RemovalReleases, AssignedTo
  <2>4. QED
    BY <2>3 DEF Init, AllKept, Pending, Idle
<1>2. IInv /\ IInv' /\ AllCalled /\ (Alone => AllCurrent) /\ (NoTopUp => Topped /\ Topped')
      /\ Allocated /\ UsedHasCheckIn /\ UsedHasCheckIn' /\ EntrySurvivesReplace
      /\ EntrySurvivesReplace' /\ AllKept /\ [Next]_vars
        => AllKept'
  BY StepKept DEF Allocated
<1>3. CASE Alone /\ NoTopUp
  BY <1>3, Invariance, AlwaysCalled, AlwaysCurrent, AlwaysTopped, AlwaysAllocated,
     UsedOnlyByCheckIn, EntrySurvives, <1>1, <1>2, PTL DEF Spec
<1>4. CASE Alone /\ ~NoTopUp
  BY <1>4, Invariance, AlwaysCalled, AlwaysCurrent, AlwaysAllocated,
     UsedOnlyByCheckIn, EntrySurvives, <1>1, <1>2, PTL DEF Spec
<1>5. CASE ~Alone /\ NoTopUp
  BY <1>5, Invariance, AlwaysCalled, AlwaysTopped, AlwaysAllocated,
     UsedOnlyByCheckIn, EntrySurvives, <1>1, <1>2, PTL DEF Spec
<1>6. QED
  BY <1>3, <1>4, <1>5 DEF Settling

\* Once a check-in has used the coupons of its guest, no other is assigned to
\* it, where requests that give a guest more coupons do not run or run alone.
THEOREM AllocationStaysFrozen ==
    ASSUME "import" \notin Ops, Settling
    PROVE  Spec => []AllocationFrozen
<1>1. IInv /\ AllKept => AllocationFrozen
  <2> SUFFICES ASSUME IInv, AllKept, NEW g \in Guests, UsedBy(coupons, g) # {}
               PROVE  OwnedBy(coupons, g) = UsedBy(coupons, g)
    BY DEF AllocationFrozen
  <2>1. AssignedTo(coupons, g) = {}
    BY DEF AllKept, Frozen
  <2>2. QED
    BY <2>1, OwnedRows DEF IInv, TypeOK, Rows
<1>2. QED
  BY Invariance, AlwaysKept, <1>1, PTL

\* And the coupons of a deleted guest stay released.
THEOREM RemovalStaysReleased ==
    ASSUME "import" \notin Ops, Settling
    PROVE  Spec => []RemovalReleases
<1>1. AllKept => RemovalReleases
  BY DEF AllKept
<1>2. QED
  BY AlwaysKept, <1>1, PTL
===============================================================================
