------------------------------ MODULE CouponRows ------------------------------
(***************************************************************************)
(* CouponPoolService: the statements it sends to the coupon collection of  *)
(* one couple.  A collection maps each number to its row; every operator   *)
(* takes the collection a transaction sees and returns the rows that the   *)
(* service writes, and the *Able operators are the conditions under which  *)
(* it does not throw.                                                      *)
(***************************************************************************)
EXTENDS Integers, FiniteSets, Documents

CONSTANTS
    Guests,     \* guest ids, never reused
    NoGuest,    \* guestId = null
    MaxQuota    \* bound on guestQuota, hence on coupon numbers

ASSUME NoGuestAssumption == NoGuest \notin Guests
ASSUME MaxQuotaAssumption == MaxQuota \in Nat \ {0}

Numbers == 1 .. MaxQuota

\* A coupon row: status and guestId.  "NONE" is a number without a row; no
\* code writes VOID.
Absent      == [status |-> "NONE",      guest |-> NoGuest]
Available   == [status |-> "AVAILABLE", guest |-> NoGuest]
Assigned(g) == [status |-> "ASSIGNED",  guest |-> g]
Used(g)     == [status |-> "USED",      guest |-> g]

CouponRow ==
    {Absent, Available} \cup {Assigned(g) : g \in Guests} \cup {Used(g) : g \in Guests}

\* Collections of rows and the writes on them.
Rows == [Numbers -> CouponRow]
RowWrites == WriteSets(Numbers, CouponRow)

IsUsed(row) == row.status = "USED"

OwnedBy(c, g)    == {n \in Numbers : c[n].guest = g}
AssignedTo(c, g) == {n \in Numbers : c[n] = Assigned(g)}
UsedBy(c, g)     == {n \in Numbers : c[n] = Used(g)}
Free(c)          == {n \in Numbers : c[n] = Available}

\* The k smallest members of S, or all of them: orderBy number, take k.
Lowest(S, k) == {n \in S : Cardinality({m \in S : m < n}) < k}

\* Mutant: the last number of the quota is left out.
EnsurePoolShort(c, quota) ==
    PutAll({n \in Numbers : n < quota /\ c[n] = Absent}, Available)

\* ensurePool: the rows of 1..quota that do not exist yet.
EnsurePool(c, quota) ==
    PutAll({n \in Numbers : n <= quota /\ c[n] = Absent}, Available)

\* resize: the pool of the larger quota, then the rows above the new quota
\* go; it throws COUPON_QUOTA_IN_USE when one of them is assigned or used.
Larger(m, n) == IF m > n THEN m ELSE n

\* Mutant: the first number above the quota stays.
AboveNext(oldQuota, quota) ==
    {n \in Numbers : quota < oldQuota /\ n > quota + 1}

Above(oldQuota, quota) ==
    {n \in Numbers : quota < oldQuota /\ n > quota}

ResizeAble(c, oldQuota, quota) ==
    \A n \in Above(oldQuota, quota) : c[n].status \notin {"ASSIGNED", "USED"}

Resize(c, oldQuota, quota) ==
    LET grown == EnsurePool(c, Larger(oldQuota, quota))
    IN  Then(grown, PutAll(Above(oldQuota, quota) \cap Free(Install(c, grown)),
                           Absent))

\* Mutant: a short pool is not noticed.
AssignLowestUnchecked(c, count) == TRUE

\* assignLowest: the count lowest available rows; it throws
\* COUPON_POOL_EXHAUSTED when there are fewer.
AssignLowestAble(c, count) == Cardinality(Lowest(Free(c), count)) >= count

AssignLowest(c, g, count) == PutAll(Lowest(Free(c), count), Assigned(g))

\* syncCount: bring the rows of g to desired.  One USED row freezes the
\* allocation: it throws COUPON_ALREADY_USED unless the total is desired.
Shortage(c, g, desired) == desired - Cardinality(AssignedTo(c, g))

SyncCountAble(c, g, desired) ==
    IF UsedBy(c, g) # {}
    THEN Cardinality(OwnedBy(c, g)) = desired
    ELSE Shortage(c, g, desired) > 0
            => AssignLowestAble(c, Shortage(c, g, desired))

Surplus(c, g, desired) ==
    AssignedTo(c, g) \ Lowest(AssignedTo(c, g), desired)

\* Mutant: a used allocation is topped up.
SyncCountUnfrozen(c, g, desired) ==
    IF Shortage(c, g, desired) > 0
    THEN AssignLowest(c, g, Shortage(c, g, desired))
    ELSE PutAll(Surplus(c, g, desired), Available)

SyncCount(c, g, desired) ==
    IF UsedBy(c, g) # {} THEN Nothing
    ELSE IF Shortage(c, g, desired) > 0
    THEN AssignLowest(c, g, Shortage(c, g, desired))
    ELSE PutAll(Surplus(c, g, desired), Available)

\* assignNumbers: exactly the rows in numbers, the other rows of g released.
\* It throws on a wrong count, a number without a row, a used row among the
\* selected ones or among those of g, and a row of another guest.
AssignNumbersAble(c, g, coupons, numbers) ==
    /\ Cardinality(numbers) = coupons
    /\ \A n \in numbers : c[n] # Absent
    /\ \A n \in numbers : c[n].status # "USED"
    /\ UsedBy(c, g) = {}
    /\ \A n \in numbers : c[n].guest \in {NoGuest, g}

AssignNumbers(c, g, numbers) ==
    Then(PutAll(AssignedTo(c, g) \ numbers, Available),
         PutAll(numbers, Assigned(g)))

\* Mutants: used rows are released too; one row is released.
ReleaseUsed(c, G) == PutAll({n \in Numbers : c[n].guest \in G}, Available)

ReleaseOne(c, G) ==
    PutAll(Lowest({n \in Numbers : c[n].status = "ASSIGNED" /\ c[n].guest \in G}, 1),
           Available)

\* The release that deleting or replacing guests performs: their rows that
\* are ASSIGNED, and never those that are USED.
Release(c, G) ==
    PutAll({n \in Numbers : c[n].status = "ASSIGNED" /\ c[n].guest \in G},
           Available)

\* Mutants: the rows of every guest are used; the used rows lose their guest.
UseAllGuests(c, g) ==
    [n \in {m \in Numbers : c[m].status = "ASSIGNED"} |->
        [c[n] EXCEPT !.status = "USED"]]

UseAllUnlinked(c, g) ==
    PutAll(AssignedTo(c, g), [status |-> "USED", guest |-> NoGuest])

\* The write of a check-in: every row that is ASSIGNED to g becomes USED.
UseAll(c, g) == PutAll(AssignedTo(c, g), Used(g))

\* What every other statement promises: w changes rows that are not used in
\* c into rows that are not used.
Reallocates(c, w) ==
    /\ w \in RowWrites
    /\ \A n \in DOMAIN w : ~IsUsed(c[n]) /\ ~IsUsed(w[n])
=============================================================================
