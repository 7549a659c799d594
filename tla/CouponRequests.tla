---------------------------- MODULE CouponRequests ----------------------------
(***************************************************************************)
(* The handlers that work on the coupon pool as a whole: manuallyAssign,   *)
(* summary, reconcile, the quota change of CouplesService.update, and the  *)
(* merge import of GuestsService, which fills the pool before it reads.    *)
(***************************************************************************)
EXTENDS GuestRequests

(* manuallyAssign                                                          *)

ManualReadGuest(p) ==
    /\ Arrives(p, "manual")
    /\ \E g \in Guests, numbers \in Asks \ {{}} :
        /\ Live(g)
        /\ Continue(p, [op |-> "manualTx", guest |-> g, numbers |-> numbers])

ManualTransaction(p) ==
    LET g == req[p].guest
    IN  /\ At(p, "manualTx")
        /\ Stored(g)
        /\ AssignNumbersAble(coupons, g, guests[g].coupons, req[p].numbers)
        /\ Transaction(p, [NoWrites EXCEPT
             !.coupons = AssignNumbers(coupons, g, req[p].numbers)])

-----------------------------------------------------------------------------
(* ensurePool outside a transaction, for summary and for the merge import: *)
(* the missing numbers are read, then inserted in order, row by row; a row *)
(* that exists by then ends the request (P2002) and leaves the earlier     *)
(* ones.                                                                   *)

SummaryReadCouple(p) ==
    /\ Arrives(p, "summary")
    /\ Continue(p, [op |-> "poolRead", quota |-> couple.guestQuota, caller |-> "summary"])

ImportReadCouple(p) ==
    /\ Arrives(p, "import")
    /\ Continue(p, [op |-> "poolRead", quota |-> couple.guestQuota, caller |-> "import"])

AfterPool(caller) == IF caller = "import" THEN [op |-> "importRead"] ELSE Idle

PoolRead(p) ==
    /\ At(p, "poolRead")
    /\ LET missing == DOMAIN EnsurePool(coupons, req[p].quota)
       IN  Continue(p, IF missing = {} THEN AfterPool(req[p].caller)
                       ELSE [op |-> "poolInsert", missing |-> missing,
                             caller |-> req[p].caller])

PoolInsert(p) ==
    /\ At(p, "poolInsert")
    /\ \E n \in Lowest(req[p].missing, 1) :
        /\ coupons[n] = Absent
        /\ LET rest == req[p].missing \ {n}
           IN  Write(p, [NoWrites EXCEPT !.coupons = Put(n, Available)],
                     IF rest = {} THEN AfterPool(req[p].caller)
                     ELSE [req[p] EXCEPT !.missing = rest])

-----------------------------------------------------------------------------
(* importGuests in merge mode, bounded to one row.                         *)

\* What the plan of a row says: the guest it matches (NoGuest: none), the
\* count read of that guest, the new count (0: unchanged), the numbers, and
\* the table it moves to when it moves.
ImportPlan ==
    [op : {"importTx"}, guest : Guests \cup {NoGuest}, seen : 0 .. MaxCoupons,
     coupons : {0} \cup Counts, numbers : Asks, moves : BOOLEAN,
     table : Tables \cup {NoTable}, auto : BOOLEAN]

\* Matching reads the live guests and their check-ins; a changed allocation
\* of a checked-in guest is a CONFLICT, which rejects the import.
Creates(plan) ==
    /\ plan.guest = NoGuest
    /\ plan.seen = 0
    /\ plan.moves <=> plan.table # NoTable

Updates(plan) ==
    /\ plan.guest # NoGuest
    /\ Live(plan.guest)
    /\ plan.seen = guests[plan.guest].coupons
    /\ plan.coupons # plan.seen
    /\ plan.coupons # 0 \/ plan.numbers # {} => checkIns[plan.guest] = NoInvitation
    /\ IF plan.moves THEN plan.table # guests[plan.guest].table
       ELSE plan.table = NoTable

ImportReadGuests(p) ==
    /\ At(p, "importRead")
    /\ \E plan \in {x \in ImportPlan : Creates(x) \/ Updates(x)} : Continue(p, plan)

\* toCreate: the count defaults to the number of coupons named, then to 1.
ImportedRow(plan) ==
    [coupons |-> IF plan.coupons # 0 THEN plan.coupons
                 ELSE Larger(Cardinality(plan.numbers), 1),
     numbers |-> plan.numbers,
     table   |-> plan.table]

ImportCreate(p) ==
    LET plan == req[p]
        row  == ImportedRow(plan)
    IN  /\ At(p, "importTx")
        /\ plan.guest = NoGuest
        /\ \E g \in Guests :
            IF plan.numbers # {} \/ plan.auto
            THEN /\ AddingAble(NoWrites, g, row)
                 /\ Transaction(p, Adding(NoWrites, g, row))
            ELSE /\ Fresh(g)
                 /\ row.table # NoTable => RoomAt(guests, row.table, g, row.coupons)
                 /\ Transaction(p, [NoWrites EXCEPT !.guests = Put(g, NewGuest(row))])

ImportUpdate(p) ==
    LET plan  == req[p]
        g     == plan.guest
        count == IF plan.coupons = 0 THEN guests[g].coupons ELSE plan.coupons
        moved == IF plan.moves THEN plan.table ELSE guests[g].table
        Save(rows) ==
            Transaction(p, [NoWrites EXCEPT
                !.guests  = Put(g, [guests[g] EXCEPT !.coupons = count, !.table = moved]),
                !.coupons = rows])
    IN  /\ At(p, "importTx")
        /\ g # NoGuest
        /\ Stored(g)
        /\ CountMayChange(g, plan.coupons, plan.seen)
        /\ plan.moves /\ plan.table # NoTable
             => RoomAt(guests, plan.table, g,
                       IF plan.coupons = 0 THEN plan.seen ELSE plan.coupons)
        /\ \/ /\ plan.numbers # {}
              /\ AssignNumbersAble(coupons, g, count, plan.numbers)
              /\ Save(AssignNumbers(coupons, g, plan.numbers))
           \/ /\ plan.numbers = {} /\ plan.auto
              /\ SyncCountAble(coupons, g, count)
              /\ Save(SyncCount(coupons, g, count))
           \/ /\ plan.numbers = {} /\ ~plan.auto
              /\ Save(Nothing)

-----------------------------------------------------------------------------
(* reconcile                                                               *)

ReconcileReadCouple(p) ==
    /\ Arrives(p, "reconcile")
    /\ \E auto \in BOOLEAN :
        Continue(p, [op |-> "reconcileTx", quota |-> couple.guestQuota, auto |-> auto])

\* The live guests whose allocation is not frozen by a check-in or a use.
Adjustable(c) ==
    {g \in Guests : Live(g) /\ checkIns[g] = NoInvitation /\ UsedBy(c, g) = {}}

Short(c)  == {g \in Adjustable(c) : Shortage(c, g, guests[g].coupons) > 0}

\* Every shortage is filled in turn from the lowest available rows, in an
\* order of the guests that the query does not fix: each guest gets a block.
Fillings(c) ==
    {given \in UNION {[Lowest(Free(c), k) -> Short(c)] : k \in 0 .. MaxQuota} :
        /\ \A g \in Short(c) :
              Cardinality({n \in DOMAIN given : given[n] = g})
                = Shortage(c, g, guests[g].coupons)
        /\ \A l, m, n \in DOMAIN given :
              l < m /\ m < n /\ given[l] = given[n] => given[m] = given[l]}

\* Then the rows beyond the requested count are released.
Excess(c) ==
    {n \in Numbers : \E g \in Adjustable(c) \ Short(c) :
        n \in Surplus(c, g, guests[g].coupons)}

ReconcileTransaction(p) ==
    /\ At(p, "reconcileTx")
    /\ LET pool == EnsurePool(coupons, req[p].quota)
           c    == Install(coupons, pool)
           Save(rows) == Transaction(p, [NoWrites EXCEPT !.coupons = Then(pool, rows)])
       IN  \/ ~req[p].auto /\ Save(Nothing)
           \/ /\ req[p].auto
              /\ \E given \in Fillings(c) :
                    Save(Then([n \in DOMAIN given |-> Assigned(given[n])],
                              PutAll(Excess(c), Available)))

-----------------------------------------------------------------------------
(* CouplesService.update with guestQuota, by an administrator.             *)

PatchReadCouple(p) ==
    /\ Arrives(p, "patch")
    /\ \E quota \in Quotas :
        Continue(p, [op |-> "patchTx", old |-> couple.guestQuota, quota |-> quota])

PatchTransaction(p) ==
    LET r == req[p]
    IN  /\ At(p, "patchTx")
        /\ ResizeAble(coupons, r.old, r.quota)
        /\ Transaction(p, [NoWrites EXCEPT
             !.couple  = Put("guestQuota", r.quota),
             !.coupons = Resize(coupons, r.old, r.quota)])
=============================================================================
