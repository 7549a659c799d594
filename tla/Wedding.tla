-------------------------------- MODULE Wedding --------------------------------
(***************************************************************************)
(* The API over the documents of one wedding: the requests of the guest,   *)
(* coupon, entrance and seating services interleaved at every point where  *)
(* the code awaits, on MongoDB transactions with snapshot reads.           *)
(***************************************************************************)
EXTENDS CouponRequests, EntranceRequests, SeatingRequests

\* CouplesService.create: the pool 1..guestQuota, no guest yet.
Init ==
    /\ couple \in [{"guestQuota"} -> Quotas]
    /\ coupons = [n \in Numbers |->
                    IF n <= couple.guestQuota THEN Available ELSE Absent]
    /\ guests = [g \in Guests |-> NoGuestDocument("none")]
    /\ seats = [place \in Places |-> NoGuest]
    /\ invitations = [i \in Invitations |->
                        [status |-> "NONE", guest |-> NoGuest,
                         revoked |-> FALSE, used |-> FALSE]]
    /\ checkIns = [g \in Guests |-> NoInvitation]
    /\ due = {}
    /\ req = [p \in Requests |-> Idle]

GuestStep(p) ==
    \/ CreateReadCouple(p) \/ CreateCheckQuota(p) \/ CreateTransaction(p)
    \/ BulkReadCouple(p) \/ BulkCheckQuota(p) \/ BulkTransaction(p)
    \/ UpdateReadGuest(p) \/ UpdateReadCouple(p)
    \/ UpdateCheckQuota(p) \/ UpdateTransaction(p)
    \/ RemoveReadGuest(p) \/ RemoveTransaction(p)

CouponStep(p) ==
    \/ ManualReadGuest(p) \/ ManualTransaction(p)
    \/ SummaryReadCouple(p) \/ ImportReadCouple(p) \/ PoolRead(p) \/ PoolInsert(p)
    \/ ImportReadGuests(p) \/ ImportCreate(p) \/ ImportUpdate(p)
    \/ ReconcileReadCouple(p) \/ ReconcileTransaction(p)
    \/ PatchReadCouple(p) \/ PatchTransaction(p)

EntranceStep(p) ==
    \/ GenerateReadGuest(p) \/ GenerateTransaction(p) \/ Revoke(p)
    \/ Scan(p) \/ MarkExpired(p) \/ CheckInRead(p) \/ CheckInTransaction(p)

SeatingStep(p) == AssignSeats(p) \/ UnassignSeats(p) \/ BulkSeats(p)

Next ==
    \/ \E p \in Requests :
        GuestStep(p) \/ CouponStep(p) \/ EntranceStep(p) \/ SeatingStep(p)
            \/ Commit(p) \/ Abort(p)
    \/ \E i \in Invitations : Expires(i)

Spec == Init /\ [][Next]_vars

-----------------------------------------------------------------------------
(* Type invariant                                                          *)

Writes ==
    [couple      : WriteSets({"guestQuota"}, Quotas),
     coupons     : WriteSets(Numbers, CouponRow),
     guests      : WriteSets(Guests, GuestDocument),
     seats       : WriteSets(Places, Guests \cup {NoGuest}),
     invitations : WriteSets(Invitations, InvitationDocument),
     checkIns    : WriteSets(Guests, Invitations)]

\* What a request slot remembers at each step of its handler.
GuestRequest ==
    [op : {"createCheck", "createTx"}, quota : Quotas, row : GuestRow]
    \cup [op : {"bulkCheck", "bulkTx"}, quota : Quotas,
          mode : {"append", "replace"}, rows : BulkRows]
    \cup [op : {"updateCouple", "updateCheck", "updateTx"}, guest : Guests,
          coupons : 0 .. MaxCoupons, numbers : Asks, seen : 0 .. MaxCoupons,
          quota : Quotas \cup {0}]
    \cup [op : {"removeTx"}, guest : Guests]

CouponRequest ==
    [op : {"manualTx"}, guest : Guests, numbers : Asks]
    \cup [op : {"poolRead"}, quota : Quotas, caller : {"summary", "import"}]
    \cup [op : {"poolInsert"}, missing : SUBSET Numbers, caller : {"summary", "import"}]
    \cup [op : {"importRead"}]
    \cup ImportPlan
    \cup [op : {"reconcileTx"}, quota : Quotas, auto : BOOLEAN]
    \cup [op : {"patchTx"}, old : Quotas, quota : Quotas]

EntranceRequest ==
    [op : {"generateTx"}, guest : Guests, revokePrevious : BOOLEAN]
    \cup [op : {"expire"}, invitation : Invitations]
    \cup [op : {"checkinRead"}, invitation : Invitations, guest : Guests, used : BOOLEAN]
    \cup [op : {"checkinTx"}, invitation : Invitations, guest : Guests]

Request ==
    {Idle} \cup GuestRequest \cup CouponRequest \cup EntranceRequest
    \cup [op : {"commit"}, w : Writes]

TypeOK ==
    /\ couple \in [{"guestQuota"} -> Quotas]
    /\ coupons \in [Numbers -> CouponRow]
    /\ guests \in [Guests -> GuestDocument]
    /\ seats \in [Places -> Guests \cup {NoGuest}]
    /\ invitations \in [Invitations -> InvitationDocument]
    /\ checkIns \in [Guests -> Invitations \cup {NoInvitation}]
    /\ due \subseteq Invitations
    /\ req \in [Requests -> Request]

\* What a transaction about to commit asks of the coupons and the check-ins:
\* a reallocation, or the entry of one guest with coupons assigned to it.
Enters(w) ==
    \E g \in Guests :
        /\ DOMAIN w.checkIns = {g}
        /\ checkIns[g] = NoInvitation
        /\ \E S \in SUBSET AssignedTo(coupons, g) : w.coupons = PutAll(S, Used(g))

Legal(w) ==
    \/ Reallocates(coupons, w.coupons) /\ DOMAIN w.checkIns = {}
    \/ Enters(w)

\* A transaction that nothing has doomed is still legal in the current state,
\* however old the snapshot is that its guards were evaluated on.
PendingLegal ==
    \A p \in Requests : Pending(p) => Legal(req[p].w)

-----------------------------------------------------------------------------
(* Safety                                                                  *)

\* Whatever races, a live guest owns exactly the coupons it asked for: the
\* quota check, the allocation of assignLowest, syncCount and assignNumbers
\* and the write conflicts between them never leave it short or in excess.
\* (An import without autoAssignCoupons leaves guests short on purpose.)
ExactAllocation ==
    \A g \in Guests :
        Live(g) => Cardinality(OwnedBy(coupons, g)) = guests[g].coupons

\* assertQuota compares sums read before the transaction, so two requests can
\* both pass it; the numbered pool still keeps the guests within the quota.
WithinQuota == SeatsRequested <= couple.guestQuota

\* A USED row is never released, reassigned or deleted, by a removal, a
\* replace, a resize or a reconcile that runs at any time; and the rows used
\* for a guest are settled when it is checked in: none is used afterwards.
UsesAreFinal ==
    [][\A g \in Guests :
        /\ UsedBy(coupons, g) \subseteq UsedBy(coupons', g)
        /\ checkIns[g] # NoInvitation => UsedBy(coupons', g) = UsedBy(coupons, g)]_vars

\* No coupon is used without the one check-in of its guest.
UsedHasCheckIn ==
    \A g \in Guests : UsedBy(coupons, g) # {} => checkIns[g] # NoInvitation

\* An invitation is used exactly when it is the one its guest entered with:
\* two scans, two invitations of one guest, a revocation or a replace between
\* the steps of a check-in never leave two entries or a used QR code without.
OneEntryPerGuest ==
    \A i \in Invitations :
        invitations[i].used <=>
            \E g \in Guests : invitations[i].guest = g /\ checkIns[g] = i

Ledger ==
    INSTANCE CouponLedger
        WITH ledger <- coupons,
             entered <- {g \in Guests : checkIns[g] # NoInvitation}

\* The coupons implement the ledger: whatever requests race, a coupon becomes
\* USED only in the one check-in of the guest it is assigned to.
LedgerSpec == Ledger!Spec

\* Without requests that grow the count of a guest, the check-in also uses
\* every coupon its guest has when it commits.
StrictLedgerSpec == Ledger!StrictSpec

\* A guest who is in is never wiped by a replace, although the replace reads
\* the check-ins in its own snapshot only.
EntrySurvivesReplace ==
    \A g \in Guests : checkIns[g] # NoInvitation => Stored(g)

\* The assignedSeats mirror and tableId of a live guest are its seat rows, so
\* all of them are at one table.
SeatsMirrored ==
    \A g \in Guests :
        Live(g) => SeatsOf(g) = {guests[g].table} \X guests[g].mirror

\* Only live guests hold seats: seating reads deletedAt in its snapshot while
\* a removal or a replace deletes the rows it sees.
SeatsOfLiveGuests ==
    \A place \in Places : seats[place] # NoGuest => Live(seats[place])

\* A seated guest has as many seats as it asked for.
SeatCount ==
    \A g \in Guests :
        Live(g) => Cardinality(SeatsOf(g)) \in {0, guests[g].coupons}

\* Once one coupon of a guest is used, all of its coupons are.
AllocationFrozen ==
    \A g \in Guests :
        UsedBy(coupons, g) # {} => OwnedBy(coupons, g) = UsedBy(coupons, g)

\* A check-in commits only for a guest who is not deleted, with an invitation
\* that is not revoked.
AdmitsOnlyInvited ==
    [][\A g \in Guests :
        checkIns[g] = NoInvitation /\ checkIns'[g] # NoInvitation
            => Live(g) /\ ~invitations[checkIns'[g]].revoked]_vars

\* The rows of the pool are those of 1..guestQuota.
PoolIsQuota ==
    {n \in Numbers : coupons[n] # Absent} = 1 .. couple.guestQuota

\* There is a row for every number of the quota: no resize, whatever quota it
\* read, takes away a row that the couple may hand out.
PoolCoversQuota == \A n \in 1 .. couple.guestQuota : coupons[n] # Absent

\* The coupons of a deleted guest are not ASSIGNED.
RemovalReleases ==
    \A g \in Guests : guests[g].phase = "deleted" => AssignedTo(coupons, g) = {}
=============================================================================
