------------------------------ MODULE TablePlan ------------------------------
(***************************************************************************)
(* TablesService: the table plan of one wedding changes while guests are   *)
(* seated.  A table has an id, which guests and seats refer to, and a      *)
(* number, which is unique for the couple and mirrored in the guests.      *)
(* Seating, unseating and removing a guest are here with what they do to   *)
(* the plan; SeatingRequests has the rest.  Requests, write sets and       *)
(* transactions are as in WeddingDb.                                       *)
(***************************************************************************)
EXTENDS Integers, FiniteSets, Functions, Documents

CONSTANTS
    Guests,            \* the guests, all of them live at first
    NoGuest,
    Requests,          \* request slots of the API processes
    TableIds,          \* WeddingTable ids, never reused
    NoTable,           \* tableId = null
    MaxNumber,         \* bound on table numbers
    StandardCount,     \* STANDARD_TABLE_COUNT
    StandardCapacity,  \* STANDARD_TABLE_CAPACITY, the seats of every table
    Capacities,        \* the capacities in requests
    NoCapacity,        \* capacity = null
    Omitted,           \* a field that the request does not have
    Mixes              \* bound: the sets of endpoints that are called together

ASSUME PlanBoundsAssumption ==
    /\ NoTable \notin TableIds
    /\ NoGuest \notin Guests
    /\ MaxNumber \in Nat
    /\ StandardCapacity \in Nat \ {0}
    /\ StandardCount \in 0 .. MaxNumber
    /\ Capacities \subseteq Nat \ {0}

VARIABLES
    tables,   \* WeddingTable, by id
    numbers,  \* the unique index (coupleId, number)
    guests,   \* Guest, by id
    seats,    \* TableSeatAssignment, by its unique (tableId, seatNumber)
    raced,    \* history: the guests that a deletion of their table has met
    req,      \* what each request slot is doing
    ops       \* the endpoints that are called, one of Mixes

vars == <<tables, numbers, guests, seats, raced, req, ops>>

Numbers == 1 .. MaxNumber
SeatNumbers == 1 .. StandardCapacity
Places == TableIds \X SeatNumbers
Sides == {"GROOM", "BRIDE"}

TableDocument ==
    [phase    : {"none", "stored", "deleted"},
     number   : 0 .. MaxNumber,
     side     : Sides,
     capacity : Capacities \cup {StandardCapacity, NoCapacity}]

Table(number, side, capacity) ==
    [phase |-> "stored", number |-> number, side |-> side, capacity |-> capacity]

NoTableDocument(phase) ==
    [phase |-> phase, number |-> 0, side |-> "GROOM", capacity |-> NoCapacity]

\* table, number and mirror are tableId, tableNumber (0: null) and
\* assignedSeats.
GuestDocument ==
    [phase   : {"live", "deleted"},
     coupons : SeatNumbers,
     table   : TableIds \cup {NoTable},
     number  : 0 .. MaxNumber,
     mirror  : SUBSET SeatNumbers]

Stored(t)   == tables[t].phase = "stored"
Live(g)     == guests[g].phase = "live"
LiveAt(t)   == {g \in Guests : Live(g) /\ guests[g].table = t}
Occupied(t) == SumFunction([g \in LiveAt(t) |-> guests[g].coupons])
SeatsOf(g)  == {place \in Places : seats[place] = g}

-----------------------------------------------------------------------------
(* Requests and transactions.                                              *)

NoWrites ==
    [tables |-> Nothing, numbers |-> Nothing, guests |-> Nothing, seats |-> Nothing]

At(p, step) == req[p].op = step

\* The table t is deleted, or a request has checked that it may be and will
\* delete it: whoever is seated there now was not seen by that check.
Going(t) ==
    \/ tables[t].phase = "deleted"
    \/ \E q \in Requests :
        \/ At(q, "removeWrite") /\ req[q].table = t
        \/ /\ At(q, "commit")
           /\ t \in DOMAIN req[q].w.tables /\ req[q].w.tables[t].phase = "deleted"

Meets(w) ==
    {g \in DOMAIN w.guests : w.guests[g].table # NoTable /\ Going(w.guests[g].table)}

Write(p, w, next) ==
    /\ tables'  = Install(tables, w.tables)
    /\ numbers' = Install(numbers, w.numbers)
    /\ guests'  = Install(guests, w.guests)
    /\ seats'   = Install(seats, w.seats)
    /\ raced'   = (raced \ DOMAIN w.guests) \cup Meets(w)
    /\ req'     = Spared(req, p, w, next)

Continue(p, next) ==
    /\ req' = [req EXCEPT ![p] = next]
    /\ UNCHANGED <<tables, numbers, guests, seats, raced>>

Transaction(p, w) == Continue(p, Committing(w))

Commit(p) ==
    /\ req[p].op = "commit"
    /\ Write(p, req[p].w, Idle)

Abort(p) ==
    /\ req[p] # Idle
    /\ Continue(p, Idle)

Arrives(p, endpoint) ==
    /\ endpoint \in ops
    /\ req[p] = Idle

-----------------------------------------------------------------------------
(* Statements on tables.                                                   *)

RowCapacities == Capacities \cup {Omitted, NoCapacity}

\* The rows of a request: a side and a capacity for each number, without
\* duplicates.
TableRows ==
    UNION {[S -> [side : Sides, capacity : RowCapacities]] : S \in SUBSET Numbers}

\* Ids for new tables at the numbers N.
FreshIds(N) ==
    Injection(N, {t \in TableIds :
        /\ tables[t].phase = "none"
        /\ \A q \in Requests : At(q, "commit") => t \notin DOMAIN req[q].w.tables})

\* Mutant: a field that the request leaves out is written as it is.
GivenRaw(value, otherwise) == value

\* An absent field keeps its value.
Given(value, otherwise) == IF value = Omitted THEN otherwise ELSE value

Deleting(T) ==
    [NoWrites EXCEPT !.tables  = PutAll(T, NoTableDocument("deleted")),
                     !.numbers = PutAll({tables[t].number : t \in T}, NoTable)]

\* The numbers of rows that have no table once w is written.
Missing(w, rows) == {n \in DOMAIN rows : Install(numbers, w.numbers)[n] = NoTable}

\* upsert of every row, after w: the tables of existing numbers get the side
\* and the capacity, the others are created under ids.
Upserting(w, rows, ids) ==
    LET new  == Missing(w, rows)
        kept == {numbers[n] : n \in DOMAIN rows \ new}
    IN  [w EXCEPT
            !.tables = Then(@,
                [t \in kept \cup {ids[n] : n \in new} |->
                    IF t \in kept
                    THEN LET row == rows[tables[t].number]
                         IN  [tables[t] EXCEPT !.side = row.side,
                                               !.capacity = Given(row.capacity, @)]
                    ELSE LET n == CHOOSE m \in new : ids[m] = t
                         IN  Table(n, rows[n].side, Given(rows[n].capacity, NoCapacity))]),
            !.numbers = Then(@, [n \in new |-> ids[n]])]

UpsertTransaction(p, w, rows) ==
    \E ids \in FreshIds(Missing(w, rows)) : Transaction(p, Upserting(w, rows, ids))

-----------------------------------------------------------------------------
(* create, bulk, configure, generate and the initialization of seating     *)

Create(p) ==
    /\ Arrives(p, "create")
    /\ \E n \in Numbers, side \in Sides, capacity \in Capacities \cup {NoCapacity} :
        /\ numbers[n] = NoTable
        /\ \E ids \in FreshIds({n}) :
            Write(p, [NoWrites EXCEPT !.tables  = Put(ids[n], Table(n, side, capacity)),
                                      !.numbers = Put(n, ids[n])], Idle)

\* bulk without replace, and configure with replace: false.
Bulk(p) ==
    /\ Arrives(p, "bulk")
    /\ \E rows \in TableRows : UpsertTransaction(p, NoWrites, rows)

\* Mutant: the tables that go are not looked at.
RemovedAnyway(removed) == TRUE

\* replace: a table that goes has no live guest; one that stays with live
\* guests keeps its side and a capacity for them.
RemovedUnused(removed) == \A t \in removed : LiveAt(t) = {}

RetainedFits(t, row) ==
    LiveAt(t) # {} =>
        /\ tables[t].side = row.side
        /\ row.capacity \notin {Omitted, NoCapacity} => Occupied(t) <= row.capacity

\* bulk with replace, and configure.
Replace(p) ==
    /\ Arrives(p, "replace")
    /\ \E rows \in TableRows :
        LET removed == {t \in TableIds : Stored(t) /\ tables[t].number \notin DOMAIN rows}
        IN  /\ RemovedUnused(removed)
            /\ \A n \in DOMAIN rows : numbers[n] # NoTable => RetainedFits(numbers[n], rows[n])
            /\ UpsertTransaction(p, Deleting(removed), rows)

\* The rules define every number from 1 to totalTables once.
Generate(p) ==
    /\ Arrives(p, "generate")
    /\ \E rows \in TableRows, replace \in BOOLEAN :
        /\ \E total \in Numbers : DOMAIN rows = 1 .. total
        /\ replace => \A g \in Guests : guests[g].table = NoTable
        /\ UpsertTransaction(p, IF replace THEN Deleting({t \in TableIds : Stored(t)})
                                ELSE NoWrites, rows)

StandardSide(n) == IF n % 2 = 1 THEN "GROOM" ELSE "BRIDE"

\* ensureStandardWeddingTables: the missing tables of 1..StandardCount.
Initialize(p) ==
    /\ Arrives(p, "initialize")
    /\ LET missing == {n \in 1 .. StandardCount : numbers[n] = NoTable}
       IN  UpsertTransaction(p, NoWrites,
              [n \in missing |-> [side |-> StandardSide(n), capacity |-> StandardCapacity]])

-----------------------------------------------------------------------------
(* update and remove                                                       *)

UpdateReadTable(p) ==
    /\ Arrives(p, "update")
    /\ \E t \in TableIds, n \in Numbers \cup {Omitted}, side \in Sides \cup {Omitted},
          capacity \in Capacities \cup {NoCapacity, Omitted} :
        /\ Stored(t)
        /\ Continue(p, [op |-> IF capacity = Omitted THEN "updateWrite" ELSE "updateRead",
                        table |-> t, number |-> n, side |-> side, capacity |-> capacity])

\* The capacity is not below what the live guests at the table occupy.
UpdateReadSeats(p) ==
    /\ At(p, "updateRead")
    /\ req[p].capacity # NoCapacity => Occupied(req[p].table) <= req[p].capacity
    /\ Continue(p, [req[p] EXCEPT !.op = "updateWrite"])

\* Mutant: the unique index does not refuse a number that is taken.
NumberAlwaysFree(n, t) == TRUE

NumberFree(n, t) == numbers[n] \in {NoTable, t}

UpdateWrite(p) ==
    LET t == req[p].table
        n == Given(req[p].number, tables[t].number)
    IN  /\ At(p, "updateWrite")
        /\ Stored(t)
        /\ NumberFree(n, t)
        /\ Write(p, [NoWrites EXCEPT
              !.tables  = Put(t, Table(n, Given(req[p].side, tables[t].side),
                                       Given(req[p].capacity, tables[t].capacity))),
              !.numbers = Then(Put(tables[t].number, NoTable), Put(n, t))],
                 Idle)

RemoveReadTable(p) ==
    /\ Arrives(p, "remove")
    /\ \E t \in TableIds : Stored(t) /\ Continue(p, [op |-> "removeCount", table |-> t])

\* It counts every guest of the table, the deleted ones too.
RemoveCountGuests(p) ==
    /\ At(p, "removeCount")
    /\ \A g \in Guests : guests[g].table # req[p].table
    /\ Continue(p, [req[p] EXCEPT !.op = "removeWrite"])

RemoveWrite(p) ==
    /\ At(p, "removeWrite")
    /\ Stored(req[p].table)
    /\ Write(p, Deleting({req[p].table}), Idle)

-----------------------------------------------------------------------------
(* The guests: SeatingService.assign and unassign, GuestsService.remove    *)

Seated(g, t, S) ==
    [guests[g] EXCEPT !.table = t, !.number = IF t = NoTable THEN 0 ELSE tables[t].number,
                      !.mirror = S]

\* The table is one of the standard numbers; its capacity is not looked at.
Assign(p) ==
    \E g \in Guests, t \in TableIds :
        /\ Arrives(p, "seat")
        /\ Live(g) /\ Stored(t) /\ tables[t].number <= StandardCount
        /\ \E S \in SUBSET {s \in SeatNumbers : seats[<<t, s>>] \in {NoGuest, g}} :
            /\ Cardinality(S) = guests[g].coupons
            /\ Transaction(p, [NoWrites EXCEPT
                 !.seats  = Then(PutAll(SeatsOf(g), NoGuest), PutAll({t} \X S, g)),
                 !.guests = Put(g, Seated(g, t, S))])

\* Mutant: the seat rows stay.
LeavingMirrorOnly(g) == [NoWrites EXCEPT !.guests = Put(g, Seated(g, NoTable, {}))]

Leaving(g) ==
    [NoWrites EXCEPT !.seats  = PutAll(SeatsOf(g), NoGuest),
                     !.guests = Put(g, Seated(g, NoTable, {}))]

Unassign(p) ==
    \E g \in Guests :
        /\ Arrives(p, "unseat")
        /\ Live(g)
        /\ Transaction(p, Leaving(g))

RemoveGuest(p) ==
    \E g \in Guests :
        /\ Arrives(p, "removeGuest")
        /\ Live(g)
        /\ Transaction(p, [NoWrites EXCEPT
             !.seats  = PutAll(SeatsOf(g), NoGuest),
             !.guests = Put(g, [guests[g] EXCEPT !.phase = "deleted"])])

-----------------------------------------------------------------------------
\* CouplesService.create gives the couple the standard tables.
Init ==
    /\ numbers \in {index \in [Numbers -> TableIds \cup {NoTable}] :
                      /\ \A n \in Numbers : index[n] = NoTable <=> n > StandardCount
                      /\ \A m, n \in 1 .. StandardCount : index[m] = index[n] => m = n}
    /\ tables = [t \in TableIds |->
                   IF \E n \in Numbers : numbers[n] = t
                   THEN LET n == CHOOSE m \in Numbers : numbers[m] = t
                        IN  Table(n, StandardSide(n), StandardCapacity)
                   ELSE NoTableDocument("none")]
    /\ guests \in [Guests -> [phase : {"live"}, coupons : SeatNumbers, table : {NoTable},
                              number : {0}, mirror : {{}}]]
    /\ seats = [place \in Places |-> NoGuest]
    /\ raced = {}
    /\ req = [p \in Requests |-> Idle]
    /\ ops \in Mixes

PlanStep(p) ==
    \/ Create(p) \/ Bulk(p) \/ Replace(p) \/ Generate(p) \/ Initialize(p)
    \/ UpdateReadTable(p) \/ UpdateReadSeats(p) \/ UpdateWrite(p)
    \/ RemoveReadTable(p) \/ RemoveCountGuests(p) \/ RemoveWrite(p)

GuestStep(p) == Assign(p) \/ Unassign(p) \/ RemoveGuest(p)

Next ==
    /\ \E p \in Requests : PlanStep(p) \/ GuestStep(p) \/ Commit(p) \/ Abort(p)
    /\ UNCHANGED ops

Spec == Init /\ [][Next]_vars

-----------------------------------------------------------------------------
PlanTypeOK ==
    /\ tables \in [TableIds -> TableDocument]
    /\ numbers \in [Numbers -> TableIds \cup {NoTable}]
    /\ guests \in [Guests -> GuestDocument]
    /\ seats \in [Places -> Guests \cup {NoGuest}]
    /\ raced \subseteq Guests
    /\ DOMAIN req = Requests

\* A live guest that is placed sits at a table that exists, on exactly the
\* seats its mirror lists: replaces, generations, deletions and renumberings
\* that overlap with it and with each other take a table away only from a guest
\* who was seated there between the check of a deletion and its write.
PlacementStands ==
    \A g \in Guests : Live(g) =>
        /\ guests[g].table # NoTable => Stored(guests[g].table) \/ g \in raced
        /\ SeatsOf(g) = {guests[g].table} \X guests[g].mirror

\* Upserts, creations, renumberings and deletions that overlap leave each number
\* with the one table that the index has for it.
NumbersUnique ==
    \A t \in TableIds : Stored(t) => numbers[tables[t].number] = t
=============================================================================
