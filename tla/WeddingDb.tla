------------------------------- MODULE WeddingDb -------------------------------
(***************************************************************************)
(* The documents of one wedding (one Couple) and the requests in flight on *)
(* them.  Every handler reads documents, possibly in several steps, and    *)
(* then either writes one document directly or runs one transaction.  A    *)
(* transaction is two steps: the first takes the snapshot, evaluates the   *)
(* whole body on it and keeps its write set in the request; Commit         *)
(* installs the write set.  A write dooms the pending transactions it      *)
(* conflicts with.  Between any two steps other requests take theirs, and  *)
(* a request may end at any step: a thrown exception, a conflict, the      *)
(* transaction timeout and a process crash all leave the documents alone.  *)
(***************************************************************************)
EXTENDS CouponRows, Functions

CONSTANTS
    Requests,       \* request slots of the API processes
    Tables,         \* WeddingTable ids; the standard tables, never changed here
    NoTable,        \* tableId = null
    TableCapacity,  \* STANDARD_TABLE_CAPACITY
    Invitations,    \* invitation ids, never reused
    NoInvitation,
    MaxCoupons,     \* @Max of the coupons field of the guest DTOs
    Quotas,         \* the values of guestQuota in requests
    Asks,           \* the values of couponNumbers in requests; {} is absent
    Ops             \* the endpoints that are called

ASSUME NoTableAssumption == NoTable \notin Tables
ASSUME NoInvitationAssumption == NoInvitation \notin Invitations
ASSUME BoundsAssumption ==
    /\ TableCapacity \in Nat
    /\ MaxCoupons \in Nat \ {0}
    /\ Quotas \subseteq Numbers
    /\ Asks \subseteq SUBSET Numbers
    /\ \A numbers \in Asks : Cardinality(numbers) <= MaxCoupons

VARIABLES
    couple,       \* the Couple document
    coupons,      \* Coupon, by number
    guests,       \* Guest, by id
    seats,        \* TableSeatAssignment, by its unique (tableId, seatNumber)
    invitations,  \* Invitation, by id
    checkIns,     \* CheckIn, by its unique guestId
    due,          \* the invitations whose expiresAt has passed
    req           \* what each request slot is doing

documents == <<couple, coupons, guests, seats, invitations, checkIns>>
vars == <<couple, coupons, guests, seats, invitations, checkIns, due, req>>

SeatNumbers == 1 .. TableCapacity
Places == Tables \X SeatNumbers
Counts == 1 .. MaxCoupons

\* "none": the id is not used yet; "gone": deleted by a replace.  table and
\* mirror are tableId and assignedSeats.
GuestDocument ==
    [phase   : {"none", "live", "deleted", "gone"},
     coupons : 0 .. MaxCoupons,
     table   : Tables \cup {NoTable},
     mirror  : SUBSET SeatNumbers]

NoGuestDocument(phase) ==
    [phase |-> phase, coupons |-> 0, table |-> NoTable, mirror |-> {}]

\* No document yet, deleted by a replace, or issued for a guest; revoked and
\* used: revokedAt and usedAt are set.
InvitationDocument ==
    [status : {"NONE", "PURGED"}, guest : {NoGuest}, revoked : {FALSE}, used : {FALSE}]
    \cup [status : {"ACTIVE", "REVOKED", "EXPIRED"}, guest : Guests,
          revoked : BOOLEAN, used : BOOLEAN]

Live(g)   == guests[g].phase = "live"
Stored(g) == guests[g].phase \in {"live", "deleted"}
Issued(i) == invitations[i].status \notin {"NONE", "PURGED"}

SeatsOf(g) == {place \in Places : seats[place] = g}

\* GuestsService.used: the coupons requested by the live guests, one by one.
SeatsRequested ==
    Cardinality(UNION {{g} \X (1 .. guests[g].coupons) : g \in {h \in Guests : Live(h)}})

\* Removing a guest and reissuing an invitation revoke what is ACTIVE.
RevokingActive(g) ==
    [i \in {j \in Invitations : invitations[j].guest = g
                                /\ invitations[j].status = "ACTIVE"} |->
        [invitations[i] EXCEPT !.status = "REVOKED", !.revoked = TRUE]]

-----------------------------------------------------------------------------
(* Write sets and transactions.                                            *)

NoWrites ==
    [couple |-> Nothing, coupons |-> Nothing, guests |-> Nothing,
     seats |-> Nothing, invitations |-> Nothing, checkIns |-> Nothing]

Pending(p) == req[p].op = "commit"

\* One atomic write of w by request p, which goes on as next.
Write(p, w, next) ==
    /\ couple'      = Install(couple, w.couple)
    /\ coupons'     = Install(coupons, w.coupons)
    /\ guests'      = Install(guests, w.guests)
    /\ seats'       = Install(seats, w.seats)
    /\ invitations' = Install(invitations, w.invitations)
    /\ checkIns'    = Install(checkIns, w.checkIns)
    /\ req' = Spared(req, p, w, next)
    /\ UNCHANGED due

\* A step of request p that writes nothing.
Continue(p, next) ==
    /\ req' = [req EXCEPT ![p] = next]
    /\ UNCHANGED <<documents, due>>

\* The body of a transaction ran on the current snapshot and asks for w.
Transaction(p, w) == Continue(p, Committing(w))

Commit(p) ==
    /\ Pending(p)
    /\ Write(p, req[p].w, Idle)

\* The request ends here, whatever it was doing.
Abort(p) ==
    /\ req[p] # Idle
    /\ Continue(p, Idle)

\* A request that calls the endpoint may arrive at p.
Arrives(p, endpoint) ==
    /\ endpoint \in Ops
    /\ req[p] = Idle

At(p, step) == req[p].op = step
=============================================================================
