---------------------------- MODULE GuestRequests ----------------------------
(***************************************************************************)
(* GuestsService: create, update, remove, bulk (append and replace) and    *)
(* the merge import, each as the steps between which other requests can    *)
(* run: the reads made before the transaction, the transaction, its        *)
(* commit.                                                                 *)
(***************************************************************************)
EXTENDS WeddingDb, Sequences

\* One guest of a request: what the allocation depends on.
GuestRow == [coupons : Counts, numbers : Asks, table : Tables \cup {NoTable}]

\* The guests of one bulk request, bounded: at most two.
BulkRows == {<<>>} \cup {<<row>> : row \in GuestRow} \cup (GuestRow \X GuestRow)

Fresh(g) ==
    /\ guests[g].phase = "none"
    /\ \A q \in Requests : Pending(q) => g \notin DOMAIN req[q].w.guests

-----------------------------------------------------------------------------
(* Statements of a transaction: each takes the write set so far.           *)

\* The collections as the transaction that wrote w sees them.
CouponsSeen(w) == Install(coupons, w.coupons)
GuestsSeen(w)  == Install(guests, w.guests)

EnsuringPool(w, quota) ==
    [w EXCEPT !.coupons = Then(@, EnsurePool(CouponsSeen(w), quota))]

\* guestData with a table: the live guests at t, but g, leave room for k.
RoomAt(seen, t, g, k) ==
    LET others == {h \in Guests \ {g} : seen[h].phase = "live" /\ seen[h].table = t}
    IN  SumFunction([h \in others |-> seen[h].coupons]) + k <= TableCapacity

\* Creating g from row: guestData, guest.create, then assignNumbers when the
\* row names its coupons and assignLowest when it does not.

\* Mutant: the pool is trusted to suffice once the quota check has passed.
AllocationTrusted(c, g, row) ==
    row.numbers # {} => AssignNumbersAble(c, g, row.coupons, row.numbers)

AllocationAble(c, g, row) ==
    IF row.numbers # {}
    THEN AssignNumbersAble(c, g, row.coupons, row.numbers)
    ELSE AssignLowestAble(c, row.coupons)

Allocation(c, g, row) ==
    IF row.numbers # {} THEN AssignNumbers(c, g, row.numbers)
    ELSE AssignLowest(c, g, row.coupons)

NewGuest(row) ==
    [phase |-> "live", coupons |-> row.coupons, table |-> row.table, mirror |-> {}]

AddingAble(w, g, row) ==
    /\ Fresh(g) /\ g \notin DOMAIN w.guests
    /\ row.table # NoTable => RoomAt(GuestsSeen(w), row.table, g, row.coupons)
    /\ AllocationAble(CouponsSeen(w), g, row)

Adding(w, g, row) ==
    [w EXCEPT !.guests  = Then(@, Put(g, NewGuest(row))),
              !.coupons = Then(@, Allocation(CouponsSeen(w), g, row))]

\* replace: every invitation, seat assignment and guest of the couple goes,
\* and every ASSIGNED coupon is released.
Purged == [status |-> "PURGED", guest |-> NoGuest, revoked |-> FALSE, used |-> FALSE]

\* Mutant: the seat rows are forgotten.
PurgingKeepsSeats(w) ==
    [w EXCEPT
        !.invitations = PutAll({i \in Invitations : Issued(i)}, Purged),
        !.coupons = Then(@, Release(CouponsSeen(w), Guests)),
        !.guests = PutAll({g \in Guests : Stored(g)}, NoGuestDocument("gone"))]

Purging(w) ==
    [w EXCEPT
        !.invitations = PutAll({i \in Invitations : Issued(i)}, Purged),
        !.coupons = Then(@, Release(CouponsSeen(w), Guests)),
        !.seats = PutAll({place \in Places : seats[place] # NoGuest}, NoGuest),
        !.guests = PutAll({g \in Guests : Stored(g)}, NoGuestDocument("gone"))]

-----------------------------------------------------------------------------
(* create                                                                  *)

CreateReadCouple(p) ==
    /\ Arrives(p, "create")
    /\ \E k \in Counts, numbers \in Asks :
        Continue(p, [op |-> "createCheck", quota |-> couple.guestQuota,
                     row |-> [coupons |-> k, numbers |-> numbers, table |-> NoTable]])

CreateCheckQuota(p) ==
    /\ At(p, "createCheck")
    /\ SeatsRequested + req[p].row.coupons <= req[p].quota
    /\ Continue(p, [req[p] EXCEPT !.op = "createTx"])

CreateTransaction(p) ==
    /\ At(p, "createTx")
    /\ LET w == EnsuringPool(NoWrites, req[p].quota)
       IN  \E g \in Guests :
            /\ AddingAble(w, g, req[p].row)
            /\ Transaction(p, Adding(w, g, req[p].row))

-----------------------------------------------------------------------------
(* bulk, also as the append and replace modes of importGuests.  Only an    *)
(* import keeps the table columns of its rows.                             *)

BulkTables == IF "import" \in Ops THEN Tables \cup {NoTable} ELSE {NoTable}

BulkReadCouple(p) ==
    \E mode \in {"append", "replace"}, rows \in BulkRows :
        /\ Arrives(p, mode)
        /\ \A n \in DOMAIN rows : rows[n].table \in BulkTables
        /\ Continue(p, [op |-> "bulkCheck", quota |-> couple.guestQuota,
                        mode |-> mode, rows |-> rows])

Incoming(rows) == SumFunction([n \in DOMAIN rows |-> rows[n].coupons])

BulkCheckQuota(p) ==
    /\ At(p, "bulkCheck")
    /\ LET current == IF req[p].mode = "replace" THEN 0 ELSE SeatsRequested
       IN  current + Incoming(req[p].rows) <= req[p].quota
    /\ Continue(p, [req[p] EXCEPT !.op = "bulkTx"])

\* Mutant: a replace goes ahead after check-ins.
ReplaceAnyway(mode) == TRUE

ReplaceAble(mode) ==
    mode = "replace" => \A g \in Guests : checkIns[g] = NoInvitation

BulkTransaction(p) ==
    /\ At(p, "bulkTx")
    /\ ReplaceAble(req[p].mode)
    /\ LET pool  == EnsuringPool(NoWrites, req[p].quota)
           start == IF req[p].mode = "replace" THEN Purging(pool) ELSE pool
           rows  == req[p].rows
       IN  \/ rows = <<>> /\ Transaction(p, start)
           \/ /\ Len(rows) = 1
              /\ \E g \in Guests :
                    /\ AddingAble(start, g, rows[1])
                    /\ Transaction(p, Adding(start, g, rows[1]))
           \/ /\ Len(rows) = 2
              /\ \E g, h \in Guests :
                    LET one == Adding(start, g, rows[1])
                    IN  /\ AddingAble(start, g, rows[1])
                        /\ AddingAble(one, h, rows[2])
                        /\ Transaction(p, Adding(one, h, rows[2]))

-----------------------------------------------------------------------------
(* update                                                                  *)

\* dto.coupons is 0 when absent; seen is what get read of the guest.
UpdateReadGuest(p) ==
    /\ Arrives(p, "update")
    /\ \E g \in Guests, k \in {0} \cup Counts, numbers \in Asks :
        /\ Live(g)
        /\ Continue(p, [op |-> IF k = 0 THEN "updateTx" ELSE "updateCouple",
                        guest |-> g, coupons |-> k, numbers |-> numbers,
                        seen |-> guests[g].coupons, quota |-> 0])

UpdateReadCouple(p) ==
    /\ At(p, "updateCouple")
    /\ Continue(p, [req[p] EXCEPT !.op = "updateCheck", !.quota = couple.guestQuota])

UpdateCheckQuota(p) ==
    /\ At(p, "updateCheck")
    /\ SeatsRequested - req[p].seen + req[p].coupons <= req[p].quota
    /\ Continue(p, [req[p] EXCEPT !.op = "updateTx"])

\* Mutant: the seats are not looked at.
CountAlwaysChanges(g, count, seen) == TRUE

\* The count changes only while the guest has no seat; "changes" compares
\* with the count that was read before the transaction.
CountMayChange(g, count, seen) == count \in {0, seen} \/ SeatsOf(g) = {}

UpdateTransaction(p) ==
    LET r == req[p]
        g == r.guest
        wanted == IF r.coupons = 0 THEN guests[g].coupons ELSE r.coupons
        Save(rows) ==
            Transaction(p, [NoWrites EXCEPT
                !.guests  = Put(g, [guests[g] EXCEPT !.coupons = wanted]),
                !.coupons = rows])
    IN  /\ At(p, "updateTx")
        /\ Stored(g)
        /\ CountMayChange(g, r.coupons, r.seen)
        /\ \/ /\ r.numbers # {}
              /\ AssignNumbersAble(coupons, g, wanted, r.numbers)
              /\ Save(AssignNumbers(coupons, g, r.numbers))
           \/ /\ r.numbers = {} /\ r.coupons # 0
              /\ SyncCountAble(coupons, g, wanted)
              /\ Save(SyncCount(coupons, g, wanted))
           \/ /\ r.numbers = {} /\ r.coupons = 0
              /\ Save(Nothing)

-----------------------------------------------------------------------------
(* remove                                                                  *)

RemoveReadGuest(p) ==
    /\ Arrives(p, "remove")
    /\ \E g \in Guests : Live(g) /\ Continue(p, [op |-> "removeTx", guest |-> g])

RemoveTransaction(p) ==
    LET g == req[p].guest
    IN  /\ At(p, "removeTx")
        /\ Stored(g)
        /\ Transaction(p, [NoWrites EXCEPT
             !.seats       = PutAll(SeatsOf(g), NoGuest),
             !.coupons     = Release(coupons, {g}),
             !.guests      = Put(g, [guests[g] EXCEPT !.phase = "deleted"]),
             !.invitations = RevokingActive(g)])
=============================================================================
