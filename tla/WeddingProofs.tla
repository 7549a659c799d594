----------------------------- MODULE WeddingProofs -----------------------------
(***************************************************************************)
(* Theorems about Wedding, for every set of guests, requests, tables and   *)
(* invitations, every quota bound and every set of endpoints: what the     *)
(* statements on coupon rows write, the inductive invariant, what the two  *)
(* kinds of step, one that writes and one that does not, need in order to  *)
(* keep it, the steps of the handlers, service by service, and what        *)
(* follows.                                                                *)
(***************************************************************************)
EXTENDS Wedding, DocumentsProofs, FiniteSetTheorems

-----------------------------------------------------------------------------
(* Reallocations.                                                          *)

\* A row is used for one guest or not used at all.
LEMMA RowShapes ==
    /\ Absent \in CouponRow /\ Available \in CouponRow
    /\ ~IsUsed(Absent) /\ ~IsUsed(Available)
    /\ \A g \in Guests : Assigned(g) \in CouponRow /\ ~IsUsed(Assigned(g))
    /\ \A g \in Guests : Used(g) \in CouponRow /\ IsUsed(Used(g))
BY DEF CouponRow, Absent, Available, Assigned, Used, IsUsed

\* Writing one unused row over rows that are not used reallocates them.
LEMMA PutAllReallocates ==
    ASSUME NEW c, NEW S \in SUBSET Numbers, NEW row \in CouponRow,
           ~IsUsed(row), \A n \in S : ~IsUsed(c[n])
    PROVE  Reallocates(c, PutAll(S, row))
<1>1. PutAll(S, row) \in RowWrites
  BY PutType DEF RowWrites
<1>2. DOMAIN PutAll(S, row) = S /\ \A n \in S : PutAll(S, row)[n] = row
  BY DEF PutAll
<1>3. QED
  BY <1>1, <1>2 DEF Reallocates

\* Writing nothing reallocates nothing.
LEMMA NothingReallocates ==
    ASSUME NEW c PROVE Reallocates(c, Nothing)
BY PutType DEF Reallocates, Nothing, RowWrites

\* Statements of one transaction compose: the later one runs on the rows
\* that the earlier one left.
LEMMA ThenReallocates ==
    ASSUME NEW c \in Rows, NEW v, Reallocates(c, v),
           NEW w, Reallocates(Install(c, v), w)
    PROVE  Reallocates(c, Then(v, w))
<1>1. v \in RowWrites /\ w \in RowWrites
  BY DEF Reallocates
<1>2. Then(v, w) \in RowWrites
  BY <1>1, ThenType DEF RowWrites
<1>3. ASSUME NEW n \in DOMAIN Then(v, w)
      PROVE  ~IsUsed(c[n]) /\ ~IsUsed(Then(v, w)[n])
  <2>1. n \in DOMAIN v \cup DOMAIN w
    BY <1>3 DEF Then
  <2>2. n \in Numbers
    BY <1>1, <2>1, WriteSetElim DEF RowWrites
  <2>3. Then(v, w)[n] = IF n \in DOMAIN w THEN w[n] ELSE v[n]
    BY <2>1 DEF Then
  <2>4. DOMAIN c = Numbers
    BY DEF Rows
  <2>5. Install(c, v)[n] = IF n \in DOMAIN v THEN v[n] ELSE c[n]
    BY <2>2, <2>4 DEF Install
  <2>6. QED
    BY <2>1, <2>3, <2>5 DEF Reallocates
<1>4. QED
  BY <1>2, <1>3 DEF Reallocates

-----------------------------------------------------------------------------
(* The statements of CouponPoolService.                                    *)

\* The sets of rows that the statements select are sets of numbers, and the
\* rows of the free and assigned ones are not used.
LEMMA Selections ==
    ASSUME NEW c
    PROVE  /\ Free(c) \in SUBSET Numbers
           /\ \A n \in Free(c) : ~IsUsed(c[n])
           /\ \A g : AssignedTo(c, g) \in SUBSET Numbers
           /\ \A g : \A n \in AssignedTo(c, g) : ~IsUsed(c[n])
           /\ \A S, k : Lowest(S, k) \subseteq S
BY DEF Free, AssignedTo, Lowest, IsUsed, Available, Assigned

\* ensurePool writes rows where there is none.
LEMMA EnsurePoolReallocates ==
    ASSUME NEW c \in Rows, NEW quota
    PROVE  Reallocates(c, EnsurePool(c, quota))
<1> DEFINE S == {n \in Numbers : n <= quota /\ c[n] = Absent}
<1>1. \A n \in S : ~IsUsed(c[n])
  BY RowShapes
<1>2. Reallocates(c, PutAll(S, Available))
  <2> HIDE DEF S
  <2>1. S \in SUBSET Numbers
    BY DEF S
  <2>2. QED
    BY <1>1, <2>1, RowShapes, PutAllReallocates
<1>3. QED
  BY <1>2 DEF EnsurePool

\* assignLowest writes available rows.
LEMMA AssignLowestReallocates ==
    ASSUME NEW c \in Rows, NEW g \in Guests, NEW count
    PROVE  Reallocates(c, AssignLowest(c, g, count))
<1>1. /\ Lowest(Free(c), count) \in SUBSET Numbers
      /\ \A n \in Lowest(Free(c), count) : ~IsUsed(c[n])
  BY Selections
<1>2. QED
  BY <1>1, RowShapes, PutAllReallocates DEF AssignLowest

\* The rows that syncCount releases are assigned to the guest.
LEMMA SurplusAssigned ==
    ASSUME NEW c, NEW g, NEW desired
    PROVE  Surplus(c, g, desired) \in SUBSET AssignedTo(c, g)
BY DEF Surplus

\* syncCount leaves a frozen allocation alone, assigns available rows or
\* releases assigned ones.
LEMMA SyncCountReallocates ==
    ASSUME NEW c \in Rows, NEW g \in Guests, NEW desired
    PROVE  Reallocates(c, SyncCount(c, g, desired))
<1>1. Reallocates(c, PutAll(Surplus(c, g, desired), Available))
  <2>1. /\ Surplus(c, g, desired) \in SUBSET Numbers
        /\ \A n \in Surplus(c, g, desired) : ~IsUsed(c[n])
    BY SurplusAssigned, Selections
  <2>2. QED
    BY <2>1, RowShapes, PutAllReallocates
<1>2. QED
  BY <1>1, NothingReallocates, AssignLowestReallocates DEF SyncCount

\* assignNumbers does not steal a used row, nor touch a used allocation.
LEMMA AssignNumbersReallocates ==
    ASSUME NEW c \in Rows, NEW g \in Guests, NEW count,
           NEW numbers \in SUBSET Numbers,
           AssignNumbersAble(c, g, count, numbers)
    PROVE  Reallocates(c, AssignNumbers(c, g, numbers))
<1> DEFINE released == PutAll(AssignedTo(c, g) \ numbers, Available)
           taken    == PutAll(numbers, Assigned(g))
<1>1. Reallocates(c, released)
  <2>1. /\ AssignedTo(c, g) \ numbers \in SUBSET Numbers
        /\ \A n \in AssignedTo(c, g) \ numbers : ~IsUsed(c[n])
    BY Selections
  <2>2. QED
    BY <2>1, RowShapes, PutAllReallocates
<1>2. \A n \in numbers : ~IsUsed(Install(c, released)[n])
  <2> SUFFICES ASSUME NEW n \in numbers PROVE ~IsUsed(Install(c, released)[n])
    OBVIOUS
  <2>1. n \in Numbers /\ n \in DOMAIN c
    BY DEF Rows
  <2>2. Install(c, released)[n] = c[n]
    BY <2>1 DEF Install, PutAll
  <2>3. QED
    BY <2>2 DEF AssignNumbersAble, IsUsed
<1>3. Reallocates(Install(c, released), taken)
  <2> HIDE DEF released
  <2>1. QED
    BY <1>2, RowShapes, PutAllReallocates
<1>4. Reallocates(c, Then(released, taken))
  <2> HIDE DEF released, taken
  <2>1. QED
    BY <1>1, <1>3, ThenReallocates
<1>5. QED
  BY <1>4 DEF AssignNumbers

\* Deleting guests releases their ASSIGNED rows and preserves the used ones.
LEMMA ReleaseReallocates ==
    ASSUME NEW c \in Rows, NEW G
    PROVE  Reallocates(c, Release(c, G))
<1> DEFINE S == {n \in Numbers : c[n].status = "ASSIGNED" /\ c[n].guest \in G}
<1>1. S \in SUBSET Numbers /\ \A n \in S : ~IsUsed(c[n])
  BY DEF IsUsed
<1>2. QED
  <2> HIDE DEF S
  <2>1. Reallocates(c, PutAll(S, Available))
    BY <1>1, RowShapes, PutAllReallocates
  <2>2. QED
    BY <2>1 DEF Release, S

\* resize grows the pool and deletes rows that are available only.
LEMMA ResizeReallocates ==
    ASSUME NEW c \in Rows, NEW oldQuota, NEW quota
    PROVE  Reallocates(c, Resize(c, oldQuota, quota))
<1> DEFINE grown == EnsurePool(c, Larger(oldQuota, quota))
           S     == Above(oldQuota, quota) \cap Free(Install(c, grown))
<1>1. Reallocates(c, grown)
  BY EnsurePoolReallocates
<1>2. S \in SUBSET Numbers /\ \A n \in S : ~IsUsed(Install(c, grown)[n])
  BY Selections
<1>3. Reallocates(Install(c, grown), PutAll(S, Absent))
  <2> HIDE DEF S, grown
  <2>1. QED
    BY <1>2, RowShapes, PutAllReallocates
<1>4. Reallocates(c, Then(grown, PutAll(S, Absent)))
  <2> HIDE DEF S, grown
  <2>1. QED
    BY <1>1, <1>3, ThenReallocates
<1>5. QED
  BY <1>4 DEF Resize

-----------------------------------------------------------------------------
(* What is in flight to the invitations, the check-ins and the seats.  For *)
(* the coupons PendingLegal says it.                                       *)

\* An invitation keeps its guest and its use, but when it is issued, and when
\* an unused one is purged.
Follows(old, new) ==
    /\ new.used = old.used /\ new.status # "NONE"
    /\ \/ new.guest = old.guest
       \/ old.status = "NONE"
       \/ new.status = "PURGED" /\ ~old.used

\* w uses no invitation, or it is the check-in of a guest who is not in with
\* an unused invitation of that guest.
Admits(w) ==
    \/ /\ DOMAIN w.checkIns = {}
       /\ \A i \in DOMAIN w.invitations : Follows(invitations[i], w.invitations[i])
    \/ \E g \in Guests, i \in Invitations :
        /\ DOMAIN w.checkIns = {g} /\ w.checkIns[g] = i
        /\ checkIns[g] = NoInvitation
        /\ DOMAIN w.invitations = {i}
        /\ w.invitations[i] = [invitations[i] EXCEPT !.used = TRUE]
        /\ invitations[i].guest = g /\ ~invitations[i].used

\* w seats only guests that it writes and that stay live, and takes every seat
\* from a guest that it removes.
Seats(w) ==
    /\ \A place \in DOMAIN w.seats :
        w.seats[place] # NoGuest =>
            /\ w.seats[place] \in DOMAIN w.guests
            /\ w.guests[w.seats[place]].phase = "live"
    /\ \A g \in DOMAIN w.guests :
        w.guests[g].phase # "live" =>
            \A place \in Places : seats[place] = g => place \in DOMAIN w.seats

\* What request r relies on: the invitation that it has resolved is of the guest
\* it was of, or purged, and what it is about to commit admits and seats.
Holds(r) ==
    /\ r.op = "commit" => Admits(r.w) /\ Seats(r.w)
    /\ r.op \in {"checkinRead", "checkinTx"} =>
        /\ invitations[r.invitation].status # "NONE"
        /\ Issued(r.invitation) => invitations[r.invitation].guest = r.guest

\* A guest who is in has used its invitation, and nobody else has.
EntriesMatch ==
    /\ \A g \in Guests : checkIns[g] # NoInvitation =>
        invitations[checkIns[g]].used /\ invitations[checkIns[g]].guest = g
    /\ \A i \in Invitations : invitations[i].used => checkIns[invitations[i].guest] = i

\* The entrance and the seats, and what is in flight to them.
EInv ==
    /\ EntriesMatch
    /\ SeatsOfLiveGuests
    /\ \A p \in Requests : Holds(req[p])

\* The steps that wait to commit or have resolved an invitation.
Bound == {"commit", "checkinRead", "checkinTx"}

\* The inductive invariant: the types, and what is in flight.
IInv == TypeOK /\ PendingLegal /\ EInv

-----------------------------------------------------------------------------
(* What a slot remembers, by the step it is at.                            *)

\* A slot of GuestsService at one of its steps holds what that step needs.
LEMMA GuestRequestShapes ==
    ASSUME NEW r \in Request
    PROVE  /\ r.op \in {"createCheck", "createTx"} =>
                r \in [op : {"createCheck", "createTx"}, quota : Quotas, row : GuestRow]
           /\ r.op \in {"bulkCheck", "bulkTx"} =>
                r \in [op : {"bulkCheck", "bulkTx"}, quota : Quotas,
                       mode : {"append", "replace"}, rows : BulkRows]
           /\ r.op \in {"updateCouple", "updateCheck", "updateTx"} =>
                r \in [op : {"updateCouple", "updateCheck", "updateTx"}, guest : Guests,
                       coupons : 0 .. MaxCoupons, numbers : Asks,
                       seen : 0 .. MaxCoupons, quota : Quotas \cup {0}]
           /\ r.op = "removeTx" => r \in [op : {"removeTx"}, guest : Guests]
           /\ r.op = "commit" => r.w \in Writes
BY SMTT(60) DEF Request, GuestRequest, CouponRequest, EntranceRequest, ImportPlan, Idle

\* The same for the pool handlers and the merge import.
LEMMA CouponRequestShapes ==
    ASSUME NEW r \in Request
    PROVE  /\ r.op = "manualTx" => r \in [op : {"manualTx"}, guest : Guests, numbers : Asks]
           /\ r.op = "poolRead" =>
                r \in [op : {"poolRead"}, quota : Quotas, caller : {"summary", "import"}]
           /\ r.op = "poolInsert" =>
                r \in [op : {"poolInsert"}, missing : SUBSET Numbers,
                       caller : {"summary", "import"}]
           /\ r.op = "importTx" => r \in ImportPlan
           /\ r.op = "reconcileTx" =>
                r \in [op : {"reconcileTx"}, quota : Quotas, auto : BOOLEAN]
           /\ r.op = "patchTx" => r \in [op : {"patchTx"}, old : Quotas, quota : Quotas]
BY SMTT(60) DEF Request, GuestRequest, CouponRequest, EntranceRequest, ImportPlan, Idle

\* The same for the invitation and check-in handlers.
LEMMA EntranceRequestShapes ==
    ASSUME NEW r \in Request
    PROVE  /\ r.op = "generateTx" =>
                r \in [op : {"generateTx"}, guest : Guests, revokePrevious : BOOLEAN]
           /\ r.op = "expire" => r \in [op : {"expire"}, invitation : Invitations]
           /\ r.op = "checkinRead" =>
                r \in [op : {"checkinRead"}, invitation : Invitations, guest : Guests,
                       used : BOOLEAN]
           /\ r.op = "checkinTx" =>
                r \in [op : {"checkinTx"}, invitation : Invitations, guest : Guests]
BY SMTT(60) DEF Request, GuestRequest, CouponRequest, EntranceRequest, ImportPlan, Idle

\* The members of Request by kind, for the next step of a handler.
LEMMA RequestKinds ==
    /\ Idle \in Request
    /\ GuestRequest \subseteq Request
    /\ CouponRequest \subseteq Request
    /\ EntranceRequest \subseteq Request
    /\ \A w \in Writes : Committing(w) \in Request
    /\ \A r \in GuestRequest \cup CouponRequest \cup EntranceRequest \cup {Idle} :
            r.op # "commit"
BY SMTT(60) DEF Request, GuestRequest, CouponRequest, EntranceRequest, ImportPlan,
    Idle, Committing

\* A write set starts empty and one collection of it is replaced at a time.
LEMMA WritesParts ==
    /\ NoWrites \in Writes
    /\ \A w \in Writes :
        /\ \A v \in WriteSets({"guestQuota"}, Quotas) : [w EXCEPT !.couple = v] \in Writes
        /\ \A v \in RowWrites : [w EXCEPT !.coupons = v] \in Writes
        /\ \A v \in WriteSets(Guests, GuestDocument) : [w EXCEPT !.guests = v] \in Writes
        /\ \A v \in WriteSets(Places, Guests \cup {NoGuest}) : [w EXCEPT !.seats = v] \in Writes
        /\ \A v \in WriteSets(Invitations, InvitationDocument) :
                [w EXCEPT !.invitations = v] \in Writes
        /\ \A v \in WriteSets(Guests, Invitations) : [w EXCEPT !.checkIns = v] \in Writes
<1>1. NoWrites \in Writes
  BY PutType DEF NoWrites, Writes
<1>2. QED
  BY <1>1 DEF Writes, RowWrites

-----------------------------------------------------------------------------
(* The entrance and the seats through one write.                           *)

\* An invitation by its status.
LEMMA InvitationShape ==
    ASSUME NEW x \in InvitationDocument
    PROVE  /\ x.status \in {"NONE", "PURGED"} => x.guest = NoGuest /\ ~x.used
           /\ x.status \notin {"NONE", "PURGED"} => x.guest \in Guests
           /\ x.used \in BOOLEAN
BY DEF InvitationDocument

\* What waits is untouched by a write that spares it.
LEMMA SparedAdmits ==
    ASSUME TypeOK, NEW v \in Writes, NEW w \in Writes, Admits(v), ~Conflict(v, w),
           invitations' = Install(invitations, w.invitations),
           checkIns' = Install(checkIns, w.checkIns)
    PROVE  Admits(v)'
<1>1. DOMAIN invitations = Invitations /\ DOMAIN checkIns = Guests
  BY DEF TypeOK
<1>2. /\ DOMAIN v.invitations \cap DOMAIN w.invitations = {}
      /\ DOMAIN v.checkIns \cap DOMAIN w.checkIns = {}
  BY DEF Conflict, Writes
<1>3. DOMAIN v.invitations \subseteq Invitations
  BY WriteSetElim DEF Writes
<1>4. \A i \in DOMAIN v.invitations : invitations'[i] = invitations[i]
  BY <1>1, <1>2, <1>3 DEF Install
<1>5. \A g \in Guests \cap DOMAIN v.checkIns : checkIns'[g] = checkIns[g]
  BY <1>1, <1>2 DEF Install
<1>6. CASE /\ DOMAIN v.checkIns = {}
           /\ \A i \in DOMAIN v.invitations : Follows(invitations[i], v.invitations[i])
  <2>1. \A i \in DOMAIN v.invitations : Follows(invitations'[i], v.invitations[i])
    BY <1>4, <1>6
  <2>2. QED
    BY <1>6, <2>1 DEF Admits
<1>7. CASE \E g \in Guests, i \in Invitations :
            /\ DOMAIN v.checkIns = {g} /\ v.checkIns[g] = i
            /\ checkIns[g] = NoInvitation
            /\ DOMAIN v.invitations = {i}
            /\ v.invitations[i] = [invitations[i] EXCEPT !.used = TRUE]
            /\ invitations[i].guest = g /\ ~invitations[i].used
  <2>1. PICK g \in Guests, i \in Invitations :
            /\ DOMAIN v.checkIns = {g} /\ v.checkIns[g] = i
            /\ checkIns[g] = NoInvitation
            /\ DOMAIN v.invitations = {i}
            /\ v.invitations[i] = [invitations[i] EXCEPT !.used = TRUE]
            /\ invitations[i].guest = g /\ ~invitations[i].used
    BY <1>7
  <2>2. invitations'[i] = invitations[i] /\ checkIns'[g] = checkIns[g]
    BY <1>4, <1>5, <2>1
  <2>3. /\ checkIns'[g] = NoInvitation
        /\ v.invitations[i] = [invitations'[i] EXCEPT !.used = TRUE]
        /\ invitations'[i].guest = g /\ ~invitations'[i].used
    BY <2>1, <2>2
  <2>4. QED
    BY <2>1, <2>3 DEF Admits
<1>8. QED
  BY <1>6, <1>7 DEF Admits

LEMMA SparedSeats ==
    ASSUME TypeOK, NEW v \in Writes, NEW w \in Writes, Seats(v), Seats(w), ~Conflict(v, w),
           seats' = Install(seats, w.seats)
    PROVE  Seats(v)'
<1>1. DOMAIN seats = Places
  BY DEF TypeOK
<1>2. DOMAIN v.guests \cap DOMAIN w.guests = {}
  BY DEF Conflict, Writes
<1>3. \A g \in DOMAIN v.guests : g # NoGuest
  BY WriteSetElim, NoGuestAssumption DEF Writes
<1>4. ASSUME NEW g \in DOMAIN v.guests, NEW place \in Places, seats'[place] = g
      PROVE  seats[place] = g
  <2>1. CASE place \in DOMAIN w.seats
    <3>1. w.seats[place] = g
      BY <1>1, <1>4, <2>1 DEF Install
    <3>2. g \in DOMAIN w.guests
      BY <1>3, <2>1, <3>1 DEF Seats
    <3>3. QED
      BY <1>2, <3>2
  <2>2. CASE place \notin DOMAIN w.seats
    BY <1>1, <1>4, <2>2 DEF Install
  <2>3. QED
    BY <2>1, <2>2
<1>5. QED
  BY <1>4 DEF Seats

\* The documents after a write.
LEMMA WriteMatches ==
    ASSUME TypeOK, NEW w \in Writes, Admits(w), EntriesMatch,
           invitations' = Install(invitations, w.invitations),
           checkIns' = Install(checkIns, w.checkIns)
    PROVE  /\ EntriesMatch'
           /\ \A i \in Invitations :
                /\ invitations[i].status # "NONE" => invitations'[i].status # "NONE"
                /\ invitations[i].status # "NONE" /\ Issued(i)' =>
                      Issued(i) /\ invitations'[i].guest = invitations[i].guest
<1>1. DOMAIN invitations = Invitations /\ DOMAIN checkIns = Guests
  BY DEF TypeOK
<1>2. /\ \A i \in Invitations : invitations[i] \in InvitationDocument
      /\ \A i \in Invitations \cap DOMAIN w.invitations :
            w.invitations[i] \in InvitationDocument
  BY WriteSetElim DEF TypeOK, Writes
<1>3. /\ \A i \in Invitations : invitations'[i] =
            IF i \in DOMAIN w.invitations THEN w.invitations[i] ELSE invitations[i]
      /\ \A g \in Guests : checkIns'[g] =
            IF g \in DOMAIN w.checkIns THEN w.checkIns[g] ELSE checkIns[g]
      /\ \A g \in Guests : checkIns[g] \in Invitations \cup {NoInvitation}
  BY <1>1 DEF Install, TypeOK
<1>4. CASE /\ DOMAIN w.checkIns = {}
           /\ \A i \in DOMAIN w.invitations : Follows(invitations[i], w.invitations[i])
  <2>1. \A g \in Guests : checkIns'[g] = checkIns[g]
    BY <1>3, <1>4
  <2>2. \A i \in Invitations :
            /\ invitations'[i] = invitations[i] \/ Follows(invitations[i], invitations'[i])
            /\ invitations'[i] \in InvitationDocument
    BY <1>2, <1>3, <1>4
  <2>3. \A i \in Invitations :
            /\ invitations'[i].used = invitations[i].used
            /\ invitations[i].used => invitations'[i].guest = invitations[i].guest
    BY <1>2, <2>2, InvitationShape DEF Follows
  <2>4. EntriesMatch'
    BY <1>3, <2>1, <2>3, NoInvitationAssumption, InvitationShape, <1>2 DEF EntriesMatch
  <2>5. ASSUME NEW i \in Invitations, invitations[i].status # "NONE"
        PROVE  /\ invitations'[i].status # "NONE"
               /\ Issued(i)' => Issued(i) /\ invitations'[i].guest = invitations[i].guest
    <3>1. Issued(i)' => invitations'[i].guest = invitations[i].guest
      BY <2>2, <2>5 DEF Follows, Issued
    <3>2. Issued(i)' => invitations'[i].guest \in Guests
      BY <2>2, InvitationShape DEF Issued
    <3>3. Issued(i)' => Issued(i)
      BY <1>2, <2>5, <3>1, <3>2, InvitationShape, NoGuestAssumption DEF Issued
    <3>4. QED
      BY <2>2, <2>5, <3>1, <3>3 DEF Follows
  <2>6. QED
    BY <2>4, <2>5
<1>5. CASE \E g \in Guests, i \in Invitations :
            /\ DOMAIN w.checkIns = {g} /\ w.checkIns[g] = i
            /\ checkIns[g] = NoInvitation
            /\ DOMAIN w.invitations = {i}
            /\ w.invitations[i] = [invitations[i] EXCEPT !.used = TRUE]
            /\ invitations[i].guest = g /\ ~invitations[i].used
  <2>1. PICK g \in Guests, i \in Invitations :
            /\ DOMAIN w.checkIns = {g} /\ w.checkIns[g] = i
            /\ checkIns[g] = NoInvitation
            /\ DOMAIN w.invitations = {i}
            /\ w.invitations[i] = [invitations[i] EXCEPT !.used = TRUE]
            /\ invitations[i].guest = g /\ ~invitations[i].used
    BY <1>5
  <2>2. /\ w.invitations[i].used /\ w.invitations[i].guest = g
        /\ w.invitations[i].status = invitations[i].status
    BY <1>2, <2>1 DEF InvitationDocument
  <2>3. \A j \in Invitations : invitations'[j] = IF j = i THEN w.invitations[i] ELSE invitations[j]
    BY <1>3, <2>1
  <2>4. \A h \in Guests : checkIns'[h] = IF h = g THEN i ELSE checkIns[h]
    BY <1>3, <2>1
  <2>5. ASSUME NEW h \in Guests, checkIns'[h] # NoInvitation
        PROVE  invitations'[checkIns'[h]].used /\ invitations'[checkIns'[h]].guest = h
    <3>1. CASE h = g
      BY <2>2, <2>3, <2>4, <3>1
    <3>2. CASE h # g
      <4>1. checkIns[h] # NoInvitation /\ checkIns'[h] = checkIns[h] /\ checkIns[h] \in Invitations
        BY <1>3, <2>4, <2>5, <3>2
      <4>2. checkIns[h] # i
        BY <2>1, <4>1 DEF EntriesMatch
      <4>3. QED
        BY <2>3, <4>1, <4>2 DEF EntriesMatch
    <3>3. QED
      BY <3>1, <3>2
  <2>6. ASSUME NEW j \in Invitations, invitations'[j].used
        PROVE  checkIns'[invitations'[j].guest] = j
    <3>1. CASE j = i
      BY <2>2, <2>3, <2>4, <3>1
    <3>2. CASE j # i
      <4>1. invitations'[j] = invitations[j] /\ checkIns[invitations[j].guest] = j
        BY <2>3, <2>6, <3>2 DEF EntriesMatch
      <4>2. invitations[j].guest # g /\ invitations[j].guest \in Guests
        BY <1>2, <2>1, <2>6, <4>1, NoInvitationAssumption, InvitationShape
      <4>3. QED
        BY <2>4, <4>1, <4>2
    <3>3. QED
      BY <3>1, <3>2
  <2>7. \A j \in Invitations : /\ invitations'[j].status = invitations[j].status
                               /\ invitations'[j].guest = invitations[j].guest
    BY <2>1, <2>2, <2>3
  <2>8. QED
    BY <2>5, <2>6, <2>7 DEF EntriesMatch, Issued
<1>6. QED
  BY <1>4, <1>5 DEF Admits

LEMMA WriteSeatsLive ==
    ASSUME TypeOK, NEW w \in Writes, Seats(w), SeatsOfLiveGuests,
           seats' = Install(seats, w.seats), guests' = Install(guests, w.guests)
    PROVE  SeatsOfLiveGuests'
<1>1. SUFFICES ASSUME NEW place \in Places, seats'[place] # NoGuest
               PROVE  guests'[seats'[place]].phase = "live"
  BY DEF SeatsOfLiveGuests, Live
<1>2. /\ DOMAIN seats = Places /\ DOMAIN guests = Guests
      /\ DOMAIN w.guests \subseteq Guests
  BY WriteSetElim DEF TypeOK, Writes
<1>3. /\ seats'[place] = IF place \in DOMAIN w.seats THEN w.seats[place] ELSE seats[place]
      /\ \A g \in Guests : guests'[g] = IF g \in DOMAIN w.guests THEN w.guests[g] ELSE guests[g]
  BY <1>2 DEF Install
<1>4. CASE place \in DOMAIN w.seats
  BY <1>1, <1>2, <1>3, <1>4 DEF Seats
<1>5. CASE place \notin DOMAIN w.seats
  <2> DEFINE g == seats[place]
  <2>1. g \in Guests /\ Live(g) /\ seats'[place] = g
    BY <1>1, <1>3, <1>5 DEF SeatsOfLiveGuests, TypeOK
  <2>2. g \in DOMAIN w.guests => w.guests[g].phase = "live"
    BY <1>5 DEF Seats
  <2>3. QED
    BY <1>3, <2>1, <2>2 DEF Live
<1>6. QED
  BY <1>4, <1>5

\* What r relies on outlives a write that spares it.
LEMMA SparedHolds ==
    ASSUME TypeOK, NEW w \in Writes, Admits(w), Seats(w), EntriesMatch,
           NEW r \in Request, Holds(r), r.op = "commit" => ~Conflict(r.w, w),
           seats' = Install(seats, w.seats),
           invitations' = Install(invitations, w.invitations),
           checkIns' = Install(checkIns, w.checkIns)
    PROVE  Holds(r)'
<1>1. CASE r.op = "commit"
  <2>1. r.w \in Writes /\ Admits(r.w) /\ Seats(r.w) /\ ~Conflict(r.w, w)
    BY <1>1, GuestRequestShapes DEF Holds
  <2>2. Admits(r.w)' /\ Seats(r.w)'
    BY <2>1, SparedAdmits, SparedSeats
  <2>3. QED
    BY <1>1, <2>2 DEF Holds
<1>2. CASE r.op \in {"checkinRead", "checkinTx"}
  <2>1. r.invitation \in Invitations
    BY <1>2, EntranceRequestShapes
  <2>2. QED
    BY <1>2, <2>1, WriteMatches DEF Holds, Issued
<1>3. CASE r.op \notin {"commit", "checkinRead", "checkinTx"}
  BY <1>3 DEF Holds
<1>4. QED
  BY <1>1, <1>2, <1>3

-----------------------------------------------------------------------------
(* The two kinds of step.                                                  *)

entered == {g \in Guests : checkIns[g] # NoInvitation}

\* A step that keeps the invariant and is a step of the ledger, or stutters.
Sound ==
    /\ IInv'
    /\ \/ UNCHANGED <<coupons, checkIns>>
       \/ Ledger!Reallocate
       \/ \E g \in Guests : Ledger!Enter(g)

\* What a request relies on are the documents.
LEMMA HoldsStays ==
    ASSUME UNCHANGED <<guests, seats, invitations, checkIns>>, NEW r, Holds(r)
    PROVE  Holds(r)'
<1>1. Admits(r.w) => Admits(r.w)'
  BY DEF Admits, Follows
<1>2. Seats(r.w) => Seats(r.w)'
  BY DEF Seats
<1>3. QED
  BY <1>1, <1>2 DEF Holds, Issued

\* A step that writes nothing leaves what the others rely on.
LEMMA ContinueEnters ==
    ASSUME TypeOK, EInv, NEW p \in Requests, NEW next, Holds(next), Continue(p, next)
    PROVE  EInv'
<1>1. UNCHANGED <<guests, seats, invitations, checkIns>>
  BY DEF Continue, documents
<1>2. \A q \in Requests : Holds(req'[q])
  BY DEF Continue, TypeOK, EInv
<1>3. ASSUME NEW q \in Requests
      PROVE  Holds(req[q])'
  <2>1. PICK r : r = req'[q]
    OBVIOUS
  <2>2. Holds(r)'
    BY <1>1, <1>2, <2>1, HoldsStays
  <2>3. QED
    BY <2>1, <2>2
<1>4. QED
  BY <1>1, <1>3 DEF EInv, EntriesMatch, SeatsOfLiveGuests, Live

\* A step that writes nothing, where what is asked for is legal.
LEMMA ContinueSound ==
    ASSUME IInv, NEW p \in Requests, NEW next \in Request,
           next.op = "commit" => Legal(next.w), Holds(next),
           Continue(p, next)
    PROVE  Sound
<1>1. TypeOK'
  BY DEF IInv, TypeOK, Continue, documents
<1>2. PendingLegal'
  <2> SUFFICES ASSUME NEW q \in Requests, Pending(q)' PROVE Legal(req[q].w)'
    BY DEF PendingLegal
  <2>1. UNCHANGED <<coupons, checkIns>>
    BY DEF Continue, documents
  <2>2. Legal(req'[q].w)
    <3>1. CASE q = p
      BY <3>1 DEF Continue, Pending, IInv, TypeOK
    <3>2. CASE q # p
      BY <3>2 DEF Continue, Pending, IInv, TypeOK, PendingLegal
    <3>3. QED
      BY <3>1, <3>2
  <2>3. QED
    BY <2>1, <2>2 DEF Legal, Enters, AssignedTo, Reallocates
<1>3. QED
  BY <1>1, <1>2, ContinueEnters DEF Sound, IInv, Continue, documents

\* The rows and entries that a pending transaction relies on are not those
\* of a write that spares it.
LEMMA SparedLegal ==
    ASSUME IInv, NEW v \in Writes, NEW w \in Writes, Legal(v), ~Conflict(v, w),
           coupons' = Install(coupons, w.coupons),
           checkIns' = Install(checkIns, w.checkIns)
    PROVE  Legal(v)'
<1>1. DOMAIN coupons = Numbers /\ DOMAIN checkIns = Guests
  BY DEF IInv, TypeOK
<1>2. /\ DOMAIN v.coupons \cap DOMAIN w.coupons = {}
      /\ DOMAIN v.checkIns \cap DOMAIN w.checkIns = {}
  BY DEF Conflict, Writes
<1>3. \A n \in Numbers \cap DOMAIN v.coupons : coupons'[n] = coupons[n]
  BY <1>1, <1>2 DEF Install
<1>4. \A g \in Guests \cap DOMAIN v.checkIns : checkIns'[g] = checkIns[g]
  BY <1>1, <1>2 DEF Install
<1>5. CASE Reallocates(coupons, v.coupons) /\ DOMAIN v.checkIns = {}
  <2>1. DOMAIN v.coupons \subseteq Numbers
    BY <1>5, WriteSetElim DEF Reallocates, RowWrites
  <2>2. Reallocates(coupons', v.coupons)
    BY <1>3, <1>5, <2>1 DEF Reallocates
  <2>3. QED
    BY <1>5, <2>2 DEF Legal, Reallocates
<1>6. CASE Enters(v)
  <2>1. PICK g \in Guests :
            /\ DOMAIN v.checkIns = {g}
            /\ checkIns[g] = NoInvitation
            /\ \E S \in SUBSET AssignedTo(coupons, g) : v.coupons = PutAll(S, Used(g))
    BY <1>6 DEF Enters
  <2>2. PICK S \in SUBSET AssignedTo(coupons, g) : v.coupons = PutAll(S, Used(g))
    BY <2>1
  <2>3. checkIns'[g] = NoInvitation
    BY <1>4, <2>1
  <2>4. S \in SUBSET AssignedTo(coupons', g)
    BY <1>3, <2>2 DEF PutAll, AssignedTo
  <2>5. QED
    BY <2>1, <2>2, <2>3, <2>4 DEF Legal, Enters, AssignedTo
<1>7. QED
  BY <1>5, <1>6 DEF Legal

\* A legal write set is a step of the ledger.
LEMMA LegalIsLedgerStep ==
    ASSUME IInv, NEW w \in Writes, Legal(w),
           coupons' = Install(coupons, w.coupons),
           checkIns' = Install(checkIns, w.checkIns),
           coupons' \in [Numbers -> CouponRow]
    PROVE  Ledger!Reallocate \/ \E g \in Guests : Ledger!Enter(g)
<1>1. DOMAIN coupons = Numbers /\ DOMAIN checkIns = Guests
  BY DEF IInv, TypeOK
<1>2. CASE Reallocates(coupons, w.coupons) /\ DOMAIN w.checkIns = {}
  <2>1. \A n \in Numbers :
            IsUsed(coupons[n]) \/ IsUsed(coupons'[n]) => coupons'[n] = coupons[n]
    BY <1>1, <1>2 DEF Reallocates, Install
  <2>2. \A g \in Guests : checkIns'[g] = checkIns[g]
    BY <1>1, <1>2 DEF Install
  <2>3. QED
    BY <2>1, <2>2 DEF Ledger!Reallocate, Ledger!IsUsed, IsUsed,
        Ledger!Numbers, Numbers, Ledger!CouponRow, CouponRow,
        Ledger!Absent, Absent, Ledger!Available, Available,
        Ledger!Assigned, Assigned, Ledger!Used, Used
<1>3. CASE Enters(w)
  <2>1. PICK g \in Guests :
            /\ DOMAIN w.checkIns = {g}
            /\ checkIns[g] = NoInvitation
            /\ \E S \in SUBSET AssignedTo(coupons, g) : w.coupons = PutAll(S, Used(g))
    BY <1>3 DEF Enters
  <2>2. PICK S \in SUBSET AssignedTo(coupons, g) : w.coupons = PutAll(S, Used(g))
    BY <2>1
  <2>3. \A h \in Guests : checkIns'[h] # NoInvitation <=> h = g \/ checkIns[h] # NoInvitation
    <3>1. w.checkIns[g] \in Invitations
      BY <2>1, WriteSetElim DEF Writes
    <3>2. checkIns'[g] # NoInvitation
      BY <1>1, <2>1, <3>1, NoInvitationAssumption DEF Install
    <3>3. QED
      BY <1>1, <2>1, <3>2 DEF Install
  <2>4. entered' = entered \cup {g} /\ g \notin entered
    BY <2>1, <2>3 DEF entered
  <2>5. Ledger!EnterWith(g, S)
    BY <2>2, <2>4 DEF Ledger!EnterWith, entered, Ledger!Install, Install,
        Ledger!PutAll, PutAll, Ledger!Used, Used
  <2>6. S \in SUBSET Ledger!AssignedTo(coupons, g)
    BY <2>2 DEF Ledger!AssignedTo, AssignedTo, Ledger!Assigned, Assigned,
        Ledger!Numbers, Numbers
  <2>7. QED
    BY <2>5, <2>6 DEF Ledger!Enter
<1>4. QED
  BY <1>2, <1>3 DEF Legal

\* A write that admits and seats.
LEMMA WriteEnters ==
    ASSUME TypeOK, EInv, NEW p \in Requests, NEW w \in Writes, Admits(w), Seats(w),
           NEW next \in Request, next.op \notin Bound, Write(p, w, next)
    PROVE  EInv'
<1>1. /\ guests' = Install(guests, w.guests) /\ seats' = Install(seats, w.seats)
      /\ invitations' = Install(invitations, w.invitations)
      /\ checkIns' = Install(checkIns, w.checkIns)
  BY DEF Write
<1>2. EntriesMatch' /\ SeatsOfLiveGuests'
  BY <1>1, WriteMatches, WriteSeatsLive DEF EInv
<1>3. ASSUME NEW q \in Requests
      PROVE  Holds(req[q])'
  <2>1. CASE req'[q].op \in Bound
    <3>1. /\ req'[q] = req[q]
          /\ req[q].op = "commit" => ~Conflict(req[q].w, w)
      BY <2>1 DEF Write, Spared, Idle, TypeOK, Bound
    <3>2. PICK r \in Request : r = req[q] /\ r = req'[q]
      BY <3>1 DEF TypeOK
    <3>3. Holds(r) /\ (r.op = "commit" => ~Conflict(r.w, w))
      BY <3>1, <3>2 DEF EInv
    <3>4. Holds(r)'
      BY <1>1, <3>3, SparedHolds DEF EInv
    <3>5. QED
      BY <3>2, <3>4
  <2>2. CASE req'[q].op \notin Bound
    BY <2>2 DEF Holds, Bound
  <2>3. QED
    BY <2>1, <2>2
<1>4. QED
  BY <1>2, <1>3 DEF EInv

\* An atomic write: legal for the ledger, and it spares only the pending
\* transactions that stay legal.
LEMMA WriteSound ==
    ASSUME IInv, NEW p \in Requests, NEW w \in Writes, Legal(w), Admits(w), Seats(w),
           NEW next \in Request, next.op \notin Bound,
           Write(p, w, next)
    PROVE  Sound
<1>1. TypeOK'
  <2>1. /\ couple' \in [{"guestQuota"} -> Quotas]
        /\ coupons' \in [Numbers -> CouponRow]
        /\ guests' \in [Guests -> GuestDocument]
        /\ seats' \in [Places -> Guests \cup {NoGuest}]
        /\ invitations' \in [Invitations -> InvitationDocument]
    BY InstallType DEF IInv, TypeOK, Write, Writes
  <2>2. checkIns' \in [Guests -> Invitations \cup {NoInvitation}]
    <3>1. w.checkIns \in WriteSets(Guests, Invitations \cup {NoInvitation})
      BY DEF Writes, WriteSets
    <3>2. QED
      BY <3>1, InstallType DEF IInv, TypeOK, Write
  <2>3. due' \subseteq Invitations /\ req' \in [Requests -> Request]
    BY RequestKinds DEF IInv, TypeOK, Write, Spared
  <2>4. QED
    BY <2>1, <2>2, <2>3 DEF TypeOK
<1>2. PendingLegal'
  <2> SUFFICES ASSUME NEW q \in Requests, Pending(q)' PROVE Legal(req[q].w)'
    BY DEF PendingLegal
  <2>1. q # p /\ req'[q] = req[q] /\ Pending(q) /\ ~Conflict(req[q].w, w)
    BY DEF Write, Spared, Pending, Idle, IInv, TypeOK, Bound
  <2>2. req[q].w \in Writes /\ Legal(req[q].w)
    BY <2>1, GuestRequestShapes DEF IInv, TypeOK, PendingLegal, Pending
  <2>3. coupons' = Install(coupons, w.coupons) /\ checkIns' = Install(checkIns, w.checkIns)
    BY DEF Write
  <2>4. \A v \in Writes : Legal(v) /\ ~Conflict(v, w) =>
            /\ Reallocates(coupons', v.coupons) /\ DOMAIN v.checkIns = {}
            \/ \E g \in Guests :
                 /\ DOMAIN v.checkIns = {g}
                 /\ checkIns'[g] = NoInvitation
                 /\ \E S \in SUBSET AssignedTo(coupons', g) : v.coupons = PutAll(S, Used(g))
    BY <2>3, SparedLegal DEF Legal, Enters, Reallocates, AssignedTo
  <2>5. QED
    BY <2>1, <2>2, <2>4 DEF Legal, Enters, Reallocates, AssignedTo
<1>3. Ledger!Reallocate \/ \E g \in Guests : Ledger!Enter(g)
  BY <1>1, LegalIsLedgerStep DEF Write, TypeOK
<1>4. EInv'
  BY WriteEnters DEF IInv
<1>5. QED
  BY <1>1, <1>2, <1>3, <1>4 DEF Sound, IInv

\* The first step of a transaction asks for what its body wrote.
LEMMA TransactionSound ==
    ASSUME IInv, NEW p \in Requests, NEW w \in Writes, Legal(w), Admits(w), Seats(w),
           Transaction(p, w)
    PROVE  Sound
<1>1. Committing(w) \in Request /\ Holds(Committing(w)) /\ Committing(w).w = w
  BY RequestKinds DEF Committing, Holds
<1>2. QED
  BY <1>1, ContinueSound DEF Transaction

\* A step of a handler that only reads, and resolves no invitation.
LEMMA ReadSound ==
    ASSUME IInv, NEW p \in Requests,
           NEW next \in GuestRequest \cup CouponRequest \cup EntranceRequest \cup {Idle},
           next.op \notin Bound, Continue(p, next)
    PROVE  Sound
BY ContinueSound, RequestKinds DEF Holds, Bound

\* w writes no check-in, uses no invitation, and seats live guests only.
Calm(w) ==
    /\ \A i \in DOMAIN w.invitations : Follows(invitations[i], w.invitations[i])
    /\ Seats(w)

\* A transaction whose coupon writes reallocate rows and that checks nobody
\* in: every transaction but that of a check-in.
LEMMA ReallocatingSound ==
    ASSUME IInv, NEW p \in Requests, NEW w \in Writes,
           Reallocates(coupons, w.coupons), DOMAIN w.checkIns = {}, Calm(w),
           Transaction(p, w)
    PROVE  Sound
BY TransactionSound DEF Legal, Admits, Calm

\* The commit installs a write set that is still legal.
LEMMA CommitSound ==
    ASSUME IInv, NEW p \in Requests, Commit(p)
    PROVE  Sound
<1>1. req[p].w \in Writes /\ Legal(req[p].w) /\ Admits(req[p].w) /\ Seats(req[p].w)
  BY GuestRequestShapes DEF IInv, TypeOK, PendingLegal, Commit, Pending, EInv, Holds
<1>2. QED
  BY <1>1, WriteSound, RequestKinds DEF Commit, Idle, Bound

\* A request that ends leaves the documents alone.
LEMMA AbortSound ==
    ASSUME IInv, NEW p \in Requests, Abort(p)
    PROVE  Sound
BY ReadSound DEF Abort, Idle, Bound

-----------------------------------------------------------------------------
(* Statements of a transaction that works on a partial write set.          *)

\* A write set in the making: typed, it reallocates rows and checks nobody in.
Partial(w) ==
    w \in Writes /\ Reallocates(coupons, w.coupons) /\ DOMAIN w.checkIns = {}

\* Nothing is written at the start.
LEMMA EmptyPartial == Partial(NoWrites)
BY WritesParts, NothingReallocates DEF Partial, NoWrites, Nothing

\* A finished transaction takes the step.
LEMMA PartialSound ==
    ASSUME IInv, NEW p \in Requests, NEW w, Partial(w), Calm(w), Transaction(p, w)
    PROVE  Sound
BY ReallocatingSound DEF Partial

\* A statement on the coupon rows that the write set so far has left.
LEMMA PartialCoupons ==
    ASSUME TypeOK, NEW w, Partial(w), NEW v, Reallocates(CouponsSeen(w), v)
    PROVE  Partial([w EXCEPT !.coupons = Then(@, v)])
<1>1. Reallocates(coupons, Then(w.coupons, v))
  BY ThenReallocates DEF TypeOK, Rows, Partial, CouponsSeen
<1>2. QED
  BY <1>1, WritesParts DEF Partial, Reallocates, Writes

\* The other collections do not matter to the ledger.
LEMMA PartialOthers ==
    ASSUME NEW w, Partial(w)
    PROVE  /\ \A x \in WriteSets(Guests, GuestDocument) :
                Partial([w EXCEPT !.guests = x])
           /\ \A x \in WriteSets(Places, Guests \cup {NoGuest}) :
                Partial([w EXCEPT !.seats = x])
           /\ \A x \in WriteSets(Invitations, InvitationDocument) :
                Partial([w EXCEPT !.invitations = x])
           /\ \A x \in WriteSets({"guestQuota"}, Quotas) :
                Partial([w EXCEPT !.couple = x])
BY WritesParts DEF Partial, Writes

\* The rows seen within a transaction are rows.
LEMMA SeenType ==
    ASSUME TypeOK, NEW w, Partial(w)
    PROVE  CouponsSeen(w) \in Rows
BY InstallType DEF TypeOK, Partial, Writes, CouponsSeen, Rows

\* ensurePool at the head of a transaction.
LEMMA EnsuringPartial ==
    ASSUME TypeOK, NEW w, Partial(w), NEW quota
    PROVE  Partial(EnsuringPool(w, quota))
BY SeenType, EnsurePoolReallocates, PartialCoupons DEF EnsuringPool

\* assignNumbers or assignLowest for a new guest.
LEMMA AllocationReallocates ==
    ASSUME NEW c \in Rows, NEW g \in Guests, NEW row \in GuestRow,
           AllocationAble(c, g, row)
    PROVE  Reallocates(c, Allocation(c, g, row))
BY AssignNumbersReallocates, AssignLowestReallocates, BoundsAssumption
   DEF AllocationAble, Allocation, GuestRow

\* Creating a guest with its coupons.
LEMMA AddingPartial ==
    ASSUME TypeOK, NEW w, Partial(w), NEW g \in Guests, NEW row \in GuestRow,
           AddingAble(w, g, row)
    PROVE  Partial(Adding(w, g, row))
<1> DEFINE v == [w EXCEPT !.coupons = Then(@, Allocation(CouponsSeen(w), g, row))]
<1>1. Partial(v)
  <2>1. Reallocates(CouponsSeen(w), Allocation(CouponsSeen(w), g, row))
    BY SeenType, AllocationReallocates DEF AddingAble
  <2>2. QED
    BY <2>1, PartialCoupons
<1>2. Then(w.guests, Put(g, NewGuest(row))) \in WriteSets(Guests, GuestDocument)
  <2>1. NewGuest(row) \in GuestDocument
    BY BoundsAssumption DEF NewGuest, GuestDocument, GuestRow, Counts
  <2>2. Put(g, NewGuest(row)) \in WriteSets(Guests, GuestDocument)
    BY <2>1, PutType
  <2>3. QED
    BY <2>2, ThenType DEF Partial, Writes
<1>3. Adding(w, g, row) = [v EXCEPT !.guests = Then(w.guests, Put(g, NewGuest(row)))]
  BY DEF Adding, Partial, Writes
<1>4. QED
  <2> HIDE DEF v
  <2>1. QED
    BY <1>1, <1>2, <1>3, PartialOthers

\* A replace releases ASSIGNED coupons and never a used one.
LEMMA PurgingPartial ==
    ASSUME TypeOK, NEW w, Partial(w)
    PROVE  Partial(Purging(w))
<1> DEFINE rows == Then(w.coupons, Release(CouponsSeen(w), Guests))
           invs == PutAll({i \in Invitations : Issued(i)}, Purged)
           left == PutAll({place \in Places : seats[place] # NoGuest}, NoGuest)
           gone == PutAll({g \in Guests : Stored(g)}, NoGuestDocument("gone"))
           v    == [w EXCEPT !.coupons = rows]
<1>1. Partial(v)
  BY SeenType, ReleaseReallocates, PartialCoupons
<1>2. invs \in WriteSets(Invitations, InvitationDocument)
  <2>1. Purged \in InvitationDocument
    BY DEF Purged, InvitationDocument
  <2>2. {i \in Invitations : Issued(i)} \in SUBSET Invitations
    OBVIOUS
  <2>3. QED
    BY <2>1, <2>2, PutType
<1>3. left \in WriteSets(Places, Guests \cup {NoGuest})
  <2>1. {place \in Places : seats[place] # NoGuest} \in SUBSET Places
    OBVIOUS
  <2>2. QED
    BY <2>1, PutType
<1>4. gone \in WriteSets(Guests, GuestDocument)
  <2>1. NoGuestDocument("gone") \in GuestDocument
    BY BoundsAssumption DEF NoGuestDocument, GuestDocument
  <2>2. {g \in Guests : Stored(g)} \in SUBSET Guests
    OBVIOUS
  <2>3. QED
    BY <2>1, <2>2, PutType
<1>5. Purging(w) = [w EXCEPT !.invitations = invs, !.coupons = rows,
                             !.seats = left, !.guests = gone]
  BY DEF Purging
<1>6. QED
  <2> HIDE DEF invs, rows, left, gone
  <2> DEFINE one == [v EXCEPT !.invitations = invs]
             two == [one EXCEPT !.seats = left]
  <2>1. Purging(w) = [two EXCEPT !.guests = gone]
    BY <1>5 DEF Partial, Writes
  <2>2. Partial(one)
    BY <1>1, <1>2, PartialOthers
  <2>3. Partial(two)
    <3> HIDE DEF one
    <3>1. QED
      BY <1>3, <2>2, PartialOthers
  <2>4. QED
    <3> HIDE DEF two
    <3>1. QED
      BY <1>4, <2>1, <2>3, PartialOthers

-----------------------------------------------------------------------------
(* The same statements, for the entrance and the seats.                    *)

\* Coupons and quotas are neither.
LEMMA PoolCalm ==
    ASSUME NEW w, w.invitations = Nothing, w.seats = Nothing, w.guests = Nothing
    PROVE  Calm(w)
BY DEF Calm, Seats, Nothing

\* A guest is saved who is live, or who was not live before and has no seat.
LEMMA SavingCalm ==
    ASSUME IInv, NEW w, NEW g \in Guests, NEW document,
           w.invitations = Nothing, w.seats = Nothing, w.guests = Put(g, document),
           document.phase = "live" \/ ~Live(g)
    PROVE  Calm(w)
<1>1. DOMAIN w.invitations = {} /\ DOMAIN w.seats = {} /\ DOMAIN w.guests = {g}
      /\ w.guests[g] = document
  BY DEF Nothing, Put
<1>2. ~Live(g) => \A place \in Places : seats[place] # g
  BY NoGuestAssumption DEF IInv, EInv, SeatsOfLiveGuests
<1>3. QED
  BY <1>1, <1>2 DEF Calm, Seats

\* A transaction starts with the pool at most.
LEMMA EnsuringCalm ==
    ASSUME NEW quota
    PROVE  Calm(NoWrites) /\ Calm(EnsuringPool(NoWrites, quota))
BY PoolCalm DEF EnsuringPool, NoWrites

\* A guest who is created is live.
LEMMA AddingCalm ==
    ASSUME NEW w, Partial(w), Calm(w), NEW g \in Guests, NEW row
    PROVE  Calm(Adding(w, g, row))
<1> DEFINE v == Adding(w, g, row)
<1>1. v.invitations = w.invitations /\ v.seats = w.seats
      /\ v.guests = Then(w.guests, Put(g, NewGuest(row)))
  BY DEF Adding, Partial, Writes
<1>2. /\ DOMAIN v.guests = DOMAIN w.guests \cup {g}
      /\ v.guests[g].phase = "live"
      /\ \A h \in DOMAIN w.guests : h # g => v.guests[h] = w.guests[h]
  BY <1>1 DEF Then, Put, NewGuest
<1> HIDE DEF v
<1>3. Seats(v)
  BY <1>1, <1>2 DEF Calm, Seats
<1>4. QED
  BY <1>1, <1>3 DEF Calm, v

\* A replace takes every seat, and no invitation that is used: nobody is in.
LEMMA PurgingCalm ==
    ASSUME IInv, NEW w, Partial(w), \A g \in Guests : checkIns[g] = NoInvitation
    PROVE  Calm(Purging(w))
<1> DEFINE v == Purging(w)
<1>1. /\ v.invitations = PutAll({i \in Invitations : Issued(i)}, Purged)
      /\ v.seats = PutAll({place \in Places : seats[place] # NoGuest}, NoGuest)
      /\ v.guests = PutAll({g \in Guests : Stored(g)}, NoGuestDocument("gone"))
  BY DEF Purging, Partial, Writes
<1>2. \A i \in Invitations : invitations[i].used = FALSE
  <2> TAKE i \in Invitations
  <2>1. invitations[i] \in InvitationDocument /\ (invitations[i].used => checkIns[invitations[i].guest] = i)
    BY DEF IInv, TypeOK, EInv, EntriesMatch
  <2>2. invitations[i].used \in BOOLEAN /\ (invitations[i].used => invitations[i].guest \in Guests)
    BY <2>1, InvitationShape
  <2>3. QED
    BY <2>1, <2>2, NoInvitationAssumption
<1> HIDE DEF v
<1>3. \A i \in DOMAIN v.invitations : Follows(invitations[i], v.invitations[i])
  <2>1. DOMAIN v.invitations \subseteq Invitations
    BY <1>1 DEF PutAll
  <2>2. \A i \in DOMAIN v.invitations : v.invitations[i] = Purged
    BY <1>1 DEF PutAll
  <2>3. Purged.used = FALSE /\ Purged.status = "PURGED" /\ "PURGED" # "NONE"
    BY DEF Purged
  <2>4. QED
    BY ONLY <1>2, <2>1, <2>2, <2>3, Zenon DEF Follows
<1>4. Seats(v)
  BY <1>1, NoGuestAssumption DEF PutAll, Seats
<1>5. QED
  BY <1>3, <1>4 DEF Calm, v

-----------------------------------------------------------------------------
(* Guests.                                                                 *)

\* create
LEMMA CreateSound ==
    ASSUME IInv, NEW p \in Requests,
           CreateReadCouple(p) \/ CreateCheckQuota(p) \/ CreateTransaction(p)
    PROVE  Sound
<1>1. CASE CreateReadCouple(p)
  <2>1. PICK k \in Counts, numbers \in Asks :
            Continue(p, [op |-> "createCheck", quota |-> couple.guestQuota,
                         row |-> [coupons |-> k, numbers |-> numbers, table |-> NoTable]])
    BY <1>1 DEF CreateReadCouple
  <2>2. couple.guestQuota \in Quotas
    BY DEF IInv, TypeOK
  <2>3. QED
    BY <2>1, <2>2, ReadSound DEF Bound, GuestRequest, GuestRow
<1>2. CASE CreateCheckQuota(p)
  <2>1. req[p] \in [op : {"createCheck", "createTx"}, quota : Quotas, row : GuestRow]
    BY <1>2, GuestRequestShapes DEF CreateCheckQuota, At, IInv, TypeOK
  <2> DEFINE next == [req[p] EXCEPT !.op = "createTx"]
  <2>2. next \in GuestRequest /\ next.op \notin Bound
    BY <2>1 DEF GuestRequest, Bound
  <2>3. Continue(p, next)
    BY <1>2 DEF CreateCheckQuota
  <2> HIDE DEF next
  <2>4. QED
    BY <2>2, <2>3, ReadSound
<1>3. CASE CreateTransaction(p)
  <2>1. req[p] \in [op : {"createCheck", "createTx"}, quota : Quotas, row : GuestRow]
    BY <1>3, GuestRequestShapes DEF CreateTransaction, At, IInv, TypeOK
  <2>2. Partial(EnsuringPool(NoWrites, req[p].quota))
    BY EmptyPartial, EnsuringPartial DEF IInv
  <2>3. PICK g \in Guests :
            /\ AddingAble(EnsuringPool(NoWrites, req[p].quota), g, req[p].row)
            /\ Transaction(p, Adding(EnsuringPool(NoWrites, req[p].quota), g, req[p].row))
    BY <1>3 DEF CreateTransaction
  <2>4. Partial(Adding(EnsuringPool(NoWrites, req[p].quota), g, req[p].row))
    BY <2>1, <2>2, <2>3, AddingPartial DEF IInv
  <2>5. Calm(Adding(EnsuringPool(NoWrites, req[p].quota), g, req[p].row))
    BY <2>2, EnsuringCalm, AddingCalm
  <2>6. QED
    BY <2>3, <2>4, <2>5, PartialSound
<1>4. QED
  BY <1>1, <1>2, <1>3

\* The rows of a bulk request are guest rows.
LEMMA BulkRowTypes ==
    ASSUME NEW rows \in BulkRows
    PROVE  \A n \in 1 .. Len(rows) : rows[n] \in GuestRow
BY DEF BulkRows

\* bulk, append and replace
LEMMA BulkSound ==
    ASSUME IInv, NEW p \in Requests,
           BulkReadCouple(p) \/ BulkCheckQuota(p) \/ BulkTransaction(p)
    PROVE  Sound
<1> DEFINE Shape == [op : {"bulkCheck", "bulkTx"}, quota : Quotas,
                     mode : {"append", "replace"}, rows : BulkRows]
<1>1. CASE BulkReadCouple(p)
  <2>1. PICK mode \in {"append", "replace"}, rows \in BulkRows :
            Continue(p, [op |-> "bulkCheck", quota |-> couple.guestQuota,
                         mode |-> mode, rows |-> rows])
    BY <1>1 DEF BulkReadCouple
  <2>2. couple.guestQuota \in Quotas
    BY DEF IInv, TypeOK
  <2>3. QED
    BY <2>1, <2>2, ReadSound DEF Bound, GuestRequest
<1>2. CASE BulkCheckQuota(p)
  <2>1. req[p] \in Shape
    BY <1>2, GuestRequestShapes DEF BulkCheckQuota, At, IInv, TypeOK
  <2> DEFINE next == [req[p] EXCEPT !.op = "bulkTx"]
  <2>2. next \in GuestRequest /\ next.op \notin Bound
    BY <2>1 DEF GuestRequest, Bound
  <2>3. Continue(p, next)
    BY <1>2 DEF BulkCheckQuota
  <2> HIDE DEF next
  <2>4. QED
    BY <2>2, <2>3, ReadSound
<1>3. CASE BulkTransaction(p)
  <2> DEFINE pool  == EnsuringPool(NoWrites, req[p].quota)
             start == IF req[p].mode = "replace" THEN Purging(pool) ELSE pool
             rows  == req[p].rows
  <2>1. req[p] \in Shape
    BY <1>3, GuestRequestShapes DEF BulkTransaction, At, IInv, TypeOK
  <2>2. Partial(start)
    BY EmptyPartial, EnsuringPartial, PurgingPartial DEF IInv
  <2>9. Calm(start)
    BY <1>3, EmptyPartial, EnsuringPartial, EnsuringCalm, PurgingCalm
       DEF IInv, BulkTransaction, ReplaceAble
  <2>3. \A n \in 1 .. Len(rows) : rows[n] \in GuestRow
    BY <2>1, BulkRowTypes
  <2>4. \/ Transaction(p, start)
        \/ /\ Len(rows) = 1
           /\ \E g \in Guests :
                AddingAble(start, g, rows[1]) /\ Transaction(p, Adding(start, g, rows[1]))
        \/ /\ Len(rows) = 2
           /\ \E g, h \in Guests :
                /\ AddingAble(start, g, rows[1])
                /\ AddingAble(Adding(start, g, rows[1]), h, rows[2])
                /\ Transaction(p, Adding(Adding(start, g, rows[1]), h, rows[2]))
    BY <1>3 DEF BulkTransaction
  <2> HIDE DEF pool, start, rows
  <2>5. CASE Transaction(p, start)
    BY <2>2, <2>9, <2>5, PartialSound
  <2>6. CASE /\ Len(rows) = 1
             /\ \E g \in Guests :
                  AddingAble(start, g, rows[1]) /\ Transaction(p, Adding(start, g, rows[1]))
    <3>1. PICK g \in Guests :
            AddingAble(start, g, rows[1]) /\ Transaction(p, Adding(start, g, rows[1]))
      BY <2>6
    <3>2. Partial(Adding(start, g, rows[1]))
      BY <2>2, <2>3, <2>6, <3>1, AddingPartial DEF IInv
    <3>3. Calm(Adding(start, g, rows[1]))
      BY <2>2, <2>9, AddingCalm
    <3>4. QED
      BY <3>1, <3>2, <3>3, PartialSound
  <2>7. CASE /\ Len(rows) = 2
             /\ \E g, h \in Guests :
                  /\ AddingAble(start, g, rows[1])
                  /\ AddingAble(Adding(start, g, rows[1]), h, rows[2])
                  /\ Transaction(p, Adding(Adding(start, g, rows[1]), h, rows[2]))
    <3>1. PICK g \in Guests, h \in Guests :
            /\ AddingAble(start, g, rows[1])
            /\ AddingAble(Adding(start, g, rows[1]), h, rows[2])
            /\ Transaction(p, Adding(Adding(start, g, rows[1]), h, rows[2]))
      BY <2>7
    <3>2. rows[1] \in GuestRow /\ rows[2] \in GuestRow
      BY <2>3, <2>7
    <3>3. Partial(Adding(start, g, rows[1]))
      BY <2>2, <3>1, <3>2, AddingPartial DEF IInv
    <3>4. Partial(Adding(Adding(start, g, rows[1]), h, rows[2]))
      BY <3>1, <3>2, <3>3, AddingPartial DEF IInv
    <3>5. Calm(Adding(Adding(start, g, rows[1]), h, rows[2]))
      BY <2>2, <2>9, <3>3, AddingCalm
    <3>6. QED
      BY <3>1, <3>4, <3>5, PartialSound
  <2>8. QED
    BY <2>4, <2>5, <2>6, <2>7
<1>4. QED
  BY <1>1, <1>2, <1>3

\* A transaction that saves one guest and the rows of its coupons.
LEMMA SavingPartial ==
    ASSUME NEW g \in Guests, NEW document \in GuestDocument, NEW rows,
           Reallocates(coupons, rows)
    PROVE  Partial([NoWrites EXCEPT !.guests = Put(g, document), !.coupons = rows])
<1> DEFINE v == [NoWrites EXCEPT !.coupons = rows]
<1>1. Partial(v)
  BY WritesParts DEF Partial, Reallocates, NoWrites, Nothing
<1>2. [NoWrites EXCEPT !.guests = Put(g, document), !.coupons = rows]
        = [v EXCEPT !.guests = Put(g, document)]
  BY DEF NoWrites
<1>3. Put(g, document) \in WriteSets(Guests, GuestDocument)
  BY PutType
<1>4. QED
  <2> HIDE DEF v
  <2>1. QED
    BY <1>1, <1>2, <1>3, PartialOthers

\* update
LEMMA UpdateSound ==
    ASSUME IInv, NEW p \in Requests,
           UpdateReadGuest(p) \/ UpdateReadCouple(p) \/ UpdateCheckQuota(p)
             \/ UpdateTransaction(p)
    PROVE  Sound
<1> DEFINE Shape == [op : {"updateCouple", "updateCheck", "updateTx"}, guest : Guests,
                     coupons : 0 .. MaxCoupons, numbers : Asks,
                     seen : 0 .. MaxCoupons, quota : Quotas \cup {0}]
<1>1. CASE UpdateReadGuest(p)
  <2>1. PICK g \in Guests, k \in {0} \cup Counts, numbers \in Asks :
            Continue(p, [op |-> IF k = 0 THEN "updateTx" ELSE "updateCouple",
                         guest |-> g, coupons |-> k, numbers |-> numbers,
                         seen |-> guests[g].coupons, quota |-> 0])
    BY <1>1 DEF UpdateReadGuest
  <2>2. guests[g].coupons \in 0 .. MaxCoupons /\ k \in 0 .. MaxCoupons
    BY BoundsAssumption DEF IInv, TypeOK, GuestDocument, Counts
  <2>3. QED
    BY <2>1, <2>2, ReadSound DEF Bound, GuestRequest
<1>2. CASE UpdateReadCouple(p)
  <2>1. req[p] \in Shape /\ couple.guestQuota \in Quotas
    BY <1>2, GuestRequestShapes DEF UpdateReadCouple, At, IInv, TypeOK
  <2> DEFINE next == [req[p] EXCEPT !.op = "updateCheck", !.quota = couple.guestQuota]
  <2>2. next \in GuestRequest /\ next.op \notin Bound
    BY <2>1 DEF GuestRequest, Bound
  <2>3. Continue(p, next)
    BY <1>2 DEF UpdateReadCouple
  <2> HIDE DEF next
  <2>4. QED
    BY <2>2, <2>3, ReadSound
<1>3. CASE UpdateCheckQuota(p)
  <2>1. req[p] \in Shape
    BY <1>3, GuestRequestShapes DEF UpdateCheckQuota, At, IInv, TypeOK
  <2> DEFINE next == [req[p] EXCEPT !.op = "updateTx"]
  <2>2. next \in GuestRequest /\ next.op \notin Bound
    BY <2>1 DEF GuestRequest, Bound
  <2>3. Continue(p, next)
    BY <1>3 DEF UpdateCheckQuota
  <2> HIDE DEF next
  <2>4. QED
    BY <2>2, <2>3, ReadSound
<1>4. CASE UpdateTransaction(p)
  <2> DEFINE g == req[p].guest
             wanted == IF req[p].coupons = 0 THEN guests[g].coupons ELSE req[p].coupons
             document == [guests[g] EXCEPT !.coupons = wanted]
             Save(rows) == Transaction(p, [NoWrites EXCEPT !.guests = Put(g, document),
                                                           !.coupons = rows])
  <2>1. req[p] \in Shape
    BY <1>4, GuestRequestShapes DEF UpdateTransaction, At, IInv, TypeOK
  <2>2. coupons \in Rows /\ g \in Guests /\ req[p].numbers \in SUBSET Numbers
    BY <2>1, BoundsAssumption DEF IInv, TypeOK, Rows
  <2>3. document \in GuestDocument
    BY <2>1 DEF IInv, TypeOK, GuestDocument
  <2>4. \/ /\ AssignNumbersAble(coupons, g, wanted, req[p].numbers)
           /\ Save(AssignNumbers(coupons, g, req[p].numbers))
        \/ Save(SyncCount(coupons, g, wanted))
        \/ Save(Nothing)
    BY <1>4 DEF UpdateTransaction
  <2>5. ASSUME NEW rows, Reallocates(coupons, rows), Save(rows) PROVE Sound
    <3> DEFINE w == [NoWrites EXCEPT !.guests = Put(g, document), !.coupons = rows]
    <3>1. Calm(w)
      <4>1. document.phase = guests[g].phase
        BY <2>2 DEF IInv, TypeOK, GuestDocument
      <4>2. w.invitations = Nothing /\ w.seats = Nothing /\ w.guests = Put(g, document)
        BY DEF NoWrites
      <4> HIDE DEF w, document, g
      <4>3. QED
        BY <2>2, <4>1, <4>2, SavingCalm DEF Live
    <3>2. QED
      BY <2>2, <2>3, <2>5, <3>1, SavingPartial, PartialSound
  <2> HIDE DEF Save, document, wanted, g
  <2>6. QED
    BY <2>2, <2>4, <2>5, AssignNumbersReallocates, SyncCountReallocates,
       NothingReallocates
<1>5. QED
  BY <1>1, <1>2, <1>3, <1>4

\* A removal or a reissue revokes invitations of the guest.
LEMMA RevokingType ==
    ASSUME TypeOK, NEW g
    PROVE  RevokingActive(g) \in WriteSets(Invitations, InvitationDocument)
<1> DEFINE S == {j \in Invitations : invitations[j].guest = g
                                     /\ invitations[j].status = "ACTIVE"}
<1>1. \A j \in S : [invitations[j] EXCEPT !.status = "REVOKED", !.revoked = TRUE]
                      \in InvitationDocument
  <2>1. SUFFICES ASSUME NEW j \in S
                 PROVE  [invitations[j] EXCEPT !.status = "REVOKED", !.revoked = TRUE]
                            \in InvitationDocument
    OBVIOUS
  <2>2. PICK x : x = invitations[j] /\ x \in InvitationDocument /\ x.status = "ACTIVE"
    BY DEF TypeOK
  <2>3. [x EXCEPT !.status = "REVOKED", !.revoked = TRUE] \in InvitationDocument
    BY <2>2 DEF InvitationDocument
  <2>4. QED
    BY <2>2, <2>3
<1>2. RevokingActive(g) \in [S -> InvitationDocument]
  BY <1>1 DEF RevokingActive
<1>3. QED
  BY <1>2, WriteSetIntro

\* remove
LEMMA RemoveSound ==
    ASSUME IInv, NEW p \in Requests, RemoveReadGuest(p) \/ RemoveTransaction(p)
    PROVE  Sound
<1>1. CASE RemoveReadGuest(p)
  BY <1>1, ReadSound DEF Bound, RemoveReadGuest, GuestRequest
<1>2. CASE RemoveTransaction(p)
  <2> DEFINE g    == req[p].guest
             left == PutAll(SeatsOf(g), NoGuest)
             rows == Release(coupons, {g})
             docs == Put(g, [guests[g] EXCEPT !.phase = "deleted"])
             invs == RevokingActive(g)
             one  == [NoWrites EXCEPT !.coupons = rows]
             two  == [one EXCEPT !.seats = left]
             three == [two EXCEPT !.guests = docs]
             w    == [three EXCEPT !.invitations = invs]
  <2>1. g \in Guests
    BY <1>2, GuestRequestShapes DEF RemoveTransaction, At, IInv, TypeOK
  <2>2. left \in WriteSets(Places, Guests \cup {NoGuest})
    <3>1. SeatsOf(g) \in SUBSET Places
      BY DEF SeatsOf
    <3>2. QED
      BY <3>1, PutType
  <2>3. docs \in WriteSets(Guests, GuestDocument)
    <3>1. [guests[g] EXCEPT !.phase = "deleted"] \in GuestDocument
      <4>1. guests[g] \in GuestDocument
        BY <2>1 DEF IInv, TypeOK
      <4>2. QED
        BY <4>1 DEF GuestDocument
    <3>2. QED
      BY <2>1, <3>1, PutType
  <2>4. invs \in WriteSets(Invitations, InvitationDocument)
    BY RevokingType DEF IInv
  <2>5. Reallocates(coupons, rows)
    BY ReleaseReallocates DEF IInv, TypeOK, Rows
  <2>6. Transaction(p, w)
    BY <1>2 DEF RemoveTransaction, NoWrites
  <2> HIDE DEF g, left, rows, docs, invs
  <2>7. Partial(one)
    BY <2>5, WritesParts DEF Partial, Reallocates, NoWrites, Nothing
  <2> HIDE DEF one
  <2>8. Partial(two)
    BY <2>2, <2>7, PartialOthers
  <2> HIDE DEF two
  <2>9. Partial(three)
    BY <2>3, <2>8, PartialOthers
  <2> HIDE DEF three
  <2>10. Partial(w)
    BY <2>4, <2>9, PartialOthers
  <2>11. Calm(w)
    <3>1. w.seats = left /\ w.guests = docs /\ w.invitations = invs
      BY DEF w, three, two, one, NoWrites
    <3> HIDE DEF w
    <3>2. \A i \in DOMAIN invs : Follows(invitations[i], invs[i])
      BY DEF invs, RevokingActive, Follows, IInv, TypeOK, InvitationDocument
    <3>3. Seats(w)
      BY <2>1, <3>1, NoGuestAssumption DEF Seats, left, docs, PutAll, Put, SeatsOf
    <3>4. QED
      BY <3>1, <3>2, <3>3 DEF Calm
  <2>12. QED
    BY <2>6, <2>10, <2>11, PartialSound
<1>3. QED
  BY <1>1, <1>2

\* Every step of a guest handler.
LEMMA GuestStepSound ==
    ASSUME IInv, NEW p \in Requests, GuestStep(p)
    PROVE  Sound
BY CreateSound, BulkSound, UpdateSound, RemoveSound DEF GuestStep

-----------------------------------------------------------------------------
(* The coupon pool and the quota.                                          *)

\* A transaction that writes coupon rows only.
LEMMA RowsPartial ==
    ASSUME NEW rows, Reallocates(coupons, rows)
    PROVE  /\ Partial([NoWrites EXCEPT !.coupons = rows])
           /\ Calm([NoWrites EXCEPT !.coupons = rows])
BY WritesParts, PoolCalm DEF Partial, Reallocates, NoWrites, Nothing

\* manuallyAssign
LEMMA ManualSound ==
    ASSUME IInv, NEW p \in Requests, ManualReadGuest(p) \/ ManualTransaction(p)
    PROVE  Sound
<1>1. CASE ManualReadGuest(p)
  BY <1>1, ReadSound DEF Bound, ManualReadGuest, CouponRequest
<1>2. CASE ManualTransaction(p)
  <2> DEFINE g    == req[p].guest
             rows == AssignNumbers(coupons, g, req[p].numbers)
  <2>1. req[p] \in [op : {"manualTx"}, guest : Guests, numbers : Asks]
    BY <1>2, CouponRequestShapes DEF ManualTransaction, At, IInv, TypeOK
  <2>2. coupons \in Rows /\ g \in Guests /\ req[p].numbers \in SUBSET Numbers
    BY <2>1, BoundsAssumption DEF IInv, TypeOK, Rows
  <2>3. Reallocates(coupons, rows)
    BY <1>2, <2>2, AssignNumbersReallocates DEF ManualTransaction
  <2>4. Transaction(p, [NoWrites EXCEPT !.coupons = rows])
    BY <1>2 DEF ManualTransaction
  <2> HIDE DEF rows
  <2>5. QED
    BY <2>3, <2>4, RowsPartial, PartialSound
<1>3. QED
  BY <1>1, <1>2

\* The step after ensurePool.
LEMMA AfterPoolType ==
    ASSUME NEW caller PROVE AfterPool(caller) \in CouponRequest \cup {Idle}
BY DEF AfterPool, CouponRequest

\* ensurePool outside a transaction inserts rows where there is none.
LEMMA PoolSound ==
    ASSUME IInv, NEW p \in Requests,
           SummaryReadCouple(p) \/ ImportReadCouple(p) \/ PoolRead(p) \/ PoolInsert(p)
    PROVE  Sound
<1>1. CASE SummaryReadCouple(p) \/ ImportReadCouple(p)
  <2>1. couple.guestQuota \in Quotas
    BY DEF IInv, TypeOK
  <2>2. PICK caller \in {"summary", "import"} :
            Continue(p, [op |-> "poolRead", quota |-> couple.guestQuota, caller |-> caller])
    BY <1>1 DEF SummaryReadCouple, ImportReadCouple
  <2>3. QED
    BY <2>1, <2>2, ReadSound DEF Bound, CouponRequest
<1>2. CASE PoolRead(p)
  <2> DEFINE missing == DOMAIN EnsurePool(coupons, req[p].quota)
  <2>1. req[p] \in [op : {"poolRead"}, quota : Quotas, caller : {"summary", "import"}]
    BY <1>2, CouponRequestShapes DEF PoolRead, At, IInv, TypeOK
  <2>2. missing \in SUBSET Numbers
    BY DEF EnsurePool, PutAll
  <2>3. Continue(p, IF missing = {} THEN AfterPool(req[p].caller)
                    ELSE [op |-> "poolInsert", missing |-> missing, caller |-> req[p].caller])
    BY <1>2 DEF PoolRead
  <2> HIDE DEF missing
  <2>4. QED
    BY <2>1, <2>2, <2>3, AfterPoolType, ReadSound DEF Bound, CouponRequest, AfterPool, Idle
<1>3. CASE PoolInsert(p)
  <2>1. req[p] \in [op : {"poolInsert"}, missing : SUBSET Numbers,
                    caller : {"summary", "import"}]
    BY <1>3, CouponRequestShapes DEF PoolInsert, At, IInv, TypeOK
  <2>2. PICK n \in Lowest(req[p].missing, 1) :
            /\ coupons[n] = Absent
            /\ Write(p, [NoWrites EXCEPT !.coupons = Put(n, Available)],
                     IF req[p].missing \ {n} = {} THEN AfterPool(req[p].caller)
                     ELSE [req[p] EXCEPT !.missing = req[p].missing \ {n}])
    BY <1>3 DEF PoolInsert
  <2> DEFINE rows == Put(n, Available)
             next == IF req[p].missing \ {n} = {} THEN AfterPool(req[p].caller)
                     ELSE [req[p] EXCEPT !.missing = req[p].missing \ {n}]
  <2>3. n \in Numbers
    BY <2>1, <2>2 DEF Lowest
  <2>4. Reallocates(coupons, rows)
    <3>1. rows \in RowWrites
      BY <2>3, RowShapes, PutType DEF RowWrites
    <3>2. QED
      BY <2>2, <3>1, RowShapes DEF Reallocates, Put
  <2>5. next \in CouponRequest \cup {Idle}
    BY <2>1, AfterPoolType DEF CouponRequest
  <2>6. next \in Request /\ next.op \notin Bound
    <3>1. next.op \in {"importRead", "idle", "poolInsert"}
      BY <2>1 DEF AfterPool, Idle
    <3> HIDE DEF next
    <3>2. QED
      BY <2>5, <3>1, RequestKinds DEF Bound
  <2>7. Write(p, [NoWrites EXCEPT !.coupons = rows], next)
    BY <2>2
  <2>8. Partial([NoWrites EXCEPT !.coupons = rows]) /\ Calm([NoWrites EXCEPT !.coupons = rows])
    BY <2>4, RowsPartial
  <2> HIDE DEF next, rows
  <2>9. QED
    BY <2>6, <2>7, <2>8, WriteSound DEF Partial, Legal, Admits, Calm
<1>4. QED
  BY <1>1, <1>2, <1>3

\* reconcile
LEMMA ReconcileSound ==
    ASSUME IInv, NEW p \in Requests, ReconcileReadCouple(p) \/ ReconcileTransaction(p)
    PROVE  Sound
<1>1. CASE ReconcileReadCouple(p)
  <2>1. couple.guestQuota \in Quotas
    BY DEF IInv, TypeOK
  <2>2. QED
    BY <1>1, <2>1, ReadSound DEF Bound, ReconcileReadCouple, CouponRequest
<1>2. CASE ReconcileTransaction(p)
  <2> DEFINE pool == EnsurePool(coupons, req[p].quota)
             c    == Install(coupons, pool)
  <2>1. Reallocates(coupons, pool) /\ coupons \in Rows
    BY EnsurePoolReallocates DEF IInv, TypeOK, Rows
  <2>2. \/ Transaction(p, [NoWrites EXCEPT !.coupons = Then(pool, Nothing)])
        \/ \E given \in Fillings(c) :
             Transaction(p, [NoWrites EXCEPT !.coupons =
                Then(pool, Then([n \in DOMAIN given |-> Assigned(given[n])],
                                PutAll(Excess(c), Available)))])
    BY <1>2 DEF ReconcileTransaction
  <2> HIDE DEF pool
  <2>3. c \in Rows
    BY <2>1, InstallType DEF Rows, Reallocates, RowWrites
  <2> HIDE DEF c
  <2>4. ASSUME NEW rows, Reallocates(c, rows),
               Transaction(p, [NoWrites EXCEPT !.coupons = Then(pool, rows)])
        PROVE  Sound
    <3>1. Reallocates(coupons, Then(pool, rows))
      BY <2>1, <2>4, ThenReallocates DEF c
    <3>2. QED
      BY <2>4, <3>1, RowsPartial, PartialSound
  <2>5. ASSUME NEW given \in Fillings(c)
        PROVE  Reallocates(c, Then([n \in DOMAIN given |-> Assigned(given[n])],
                                   PutAll(Excess(c), Available)))
    <3> DEFINE filled == [n \in DOMAIN given |-> Assigned(given[n])]
    <3>1. /\ DOMAIN given \in SUBSET Free(c)
          /\ \A n \in DOMAIN given : given[n] \in Guests
      BY Selections DEF Fillings, Short, Adjustable
    <3>2. Reallocates(c, filled)
      <4>1. filled \in [DOMAIN given -> CouponRow]
        BY <3>1, RowShapes
      <4>2. filled \in RowWrites
        BY <3>1, <4>1, Selections, WriteSetIntro DEF RowWrites
      <4>3. QED
        BY <3>1, <4>2, Selections, RowShapes DEF Reallocates
    <3>3. Excess(c) \in SUBSET Numbers /\ \A n \in Excess(c) : ~IsUsed(c[n])
      BY SurplusAssigned, Selections DEF Excess
    <3>4. \A n \in Excess(c) : ~IsUsed(Install(c, filled)[n])
      <4>1. \A n \in Numbers : ~IsUsed(c[n]) => ~IsUsed(Install(c, filled)[n])
        <5> HIDE DEF filled
        <5>1. QED
          BY <2>3, <3>2 DEF Install, Reallocates, Rows
      <4>2. QED
        BY <3>3, <4>1
    <3>5. Reallocates(Install(c, filled), PutAll(Excess(c), Available))
      BY <3>3, <3>4, RowShapes, PutAllReallocates
    <3> HIDE DEF filled
    <3>6. Reallocates(c, Then(filled, PutAll(Excess(c), Available)))
      BY <2>3, <3>2, <3>5, ThenReallocates
    <3>7. QED
      BY <3>6 DEF filled
  <2>6. QED
    BY <2>2, <2>4, <2>5, NothingReallocates
<1>3. QED
  BY <1>1, <1>2

\* The quota change: only available rows are deleted.
LEMMA PatchSound ==
    ASSUME IInv, NEW p \in Requests, PatchReadCouple(p) \/ PatchTransaction(p)
    PROVE  Sound
<1>1. CASE PatchReadCouple(p)
  <2>1. couple.guestQuota \in Quotas
    BY DEF IInv, TypeOK
  <2>2. QED
    BY <1>1, <2>1, ReadSound DEF Bound, PatchReadCouple, CouponRequest
<1>2. CASE PatchTransaction(p)
  <2> DEFINE rows  == Resize(coupons, req[p].old, req[p].quota)
             quota == Put("guestQuota", req[p].quota)
             one   == [NoWrites EXCEPT !.coupons = rows]
             w     == [one EXCEPT !.couple = quota]
  <2>1. req[p] \in [op : {"patchTx"}, old : Quotas, quota : Quotas]
    BY <1>2, CouponRequestShapes DEF PatchTransaction, At, IInv, TypeOK
  <2>2. quota \in WriteSets({"guestQuota"}, Quotas)
    BY <2>1, PutType
  <2>3. Reallocates(coupons, rows)
    BY ResizeReallocates DEF IInv, TypeOK, Rows
  <2>4. Transaction(p, w)
    BY <1>2 DEF PatchTransaction, NoWrites
  <2> HIDE DEF quota, rows
  <2>5. Partial(one)
    BY <2>3, RowsPartial
  <2>6. Calm(w)
    BY PoolCalm DEF NoWrites
  <2> HIDE DEF one
  <2>7. Partial(w)
    BY <2>2, <2>5, PartialOthers
  <2>8. QED
    BY <2>4, <2>6, <2>7, PartialSound
<1>3. QED
  BY <1>1, <1>2

-----------------------------------------------------------------------------
(* The merge import.                                                       *)

\* The guest row of an imported plan: as many coupons as it says or names.
LEMMA ImportedRowType ==
    ASSUME NEW plan \in ImportPlan
    PROVE  ImportedRow(plan) \in GuestRow
<1>1. plan.numbers \in Asks /\ plan.coupons \in {0} \cup Counts
      /\ plan.table \in Tables \cup {NoTable}
  BY DEF ImportPlan
<1>2. Cardinality(plan.numbers) \in 0 .. MaxCoupons
  <2>1. plan.numbers \in SUBSET Numbers /\ Cardinality(plan.numbers) <= MaxCoupons
    BY <1>1, BoundsAssumption
  <2>2. IsFiniteSet(plan.numbers)
    <3>1. IsFiniteSet(Numbers)
      BY MaxQuotaAssumption, FS_Interval DEF Numbers
    <3>2. QED
      BY <2>1, <3>1, FS_Subset
  <2>3. Cardinality(plan.numbers) \in Nat
    BY <2>2, FS_CardinalityType
  <2>4. QED
    BY <2>1, <2>3, BoundsAssumption
<1>3. Larger(Cardinality(plan.numbers), 1) \in Counts
  BY <1>2, BoundsAssumption DEF Larger, Counts
<1>4. QED
  BY <1>1, <1>3 DEF ImportedRow, GuestRow

\* Matching and planning read only.
LEMMA ImportReadSound ==
    ASSUME IInv, NEW p \in Requests, ImportReadGuests(p)
    PROVE  Sound
<1>1. PICK plan \in ImportPlan : Continue(p, plan)
  BY DEF ImportReadGuests
<1>2. plan.op \notin Bound
  BY DEF ImportPlan, Bound
<1>3. QED
  BY <1>1, <1>2, ReadSound DEF CouponRequest

\* A row that matches no guest creates one.
LEMMA ImportCreateSound ==
    ASSUME IInv, NEW p \in Requests, ImportCreate(p)
    PROVE  Sound
<1> DEFINE row == ImportedRow(req[p])
<1>1. req[p] \in ImportPlan
  BY CouponRequestShapes DEF ImportCreate, At, IInv, TypeOK
<1>2. row \in GuestRow
  BY <1>1, ImportedRowType
<1>3. PICK g \in Guests :
        \/ /\ AddingAble(NoWrites, g, row)
           /\ Transaction(p, Adding(NoWrites, g, row))
        \/ Transaction(p, [NoWrites EXCEPT !.guests = Put(g, NewGuest(row))])
  BY DEF ImportCreate
<1> HIDE DEF row
<1>4. Partial([NoWrites EXCEPT !.guests = Put(g, NewGuest(row))])
  <2>1. NewGuest(row) \in GuestDocument
    BY <1>2, BoundsAssumption DEF NewGuest, GuestDocument, GuestRow, Counts
  <2>2. Put(g, NewGuest(row)) \in WriteSets(Guests, GuestDocument)
    BY <2>1, PutType
  <2>3. QED
    BY <2>2, EmptyPartial, PartialOthers
<1>5. Calm([NoWrites EXCEPT !.guests = Put(g, NewGuest(row))])
  <2> DEFINE w == [NoWrites EXCEPT !.guests = Put(g, NewGuest(row))]
  <2>1. w.invitations = Nothing /\ w.seats = Nothing /\ w.guests = Put(g, NewGuest(row))
    BY DEF NoWrites
  <2>2. NewGuest(row).phase = "live"
    BY DEF NewGuest
  <2> HIDE DEF w
  <2>3. Calm(w)
    BY <2>1, <2>2, SavingCalm
  <2>4. QED
    BY <2>3 DEF w
<1>6. CASE Transaction(p, [NoWrites EXCEPT !.guests = Put(g, NewGuest(row))])
  BY <1>4, <1>5, <1>6, PartialSound
<1>7. CASE AddingAble(NoWrites, g, row) /\ Transaction(p, Adding(NoWrites, g, row))
  <2>1. Partial(Adding(NoWrites, g, row))
    BY <1>2, <1>7, EmptyPartial, AddingPartial DEF IInv
  <2>2. Calm(Adding(NoWrites, g, row))
    BY EmptyPartial, EnsuringCalm, AddingCalm
  <2>3. QED
    BY <1>7, <2>1, <2>2, PartialSound
<1>8. QED
  BY <1>3, <1>6, <1>7

\* A row that matches a guest updates it and its coupons.
LEMMA ImportUpdateSound ==
    ASSUME IInv, NEW p \in Requests, ImportUpdate(p)
    PROVE  Sound
<1> DEFINE g        == req[p].guest
           count    == IF req[p].coupons = 0 THEN guests[g].coupons ELSE req[p].coupons
           moved    == IF req[p].moves THEN req[p].table ELSE guests[g].table
           document == [guests[g] EXCEPT !.coupons = count, !.table = moved]
           Save(rows) == Transaction(p, [NoWrites EXCEPT !.guests = Put(g, document),
                                                         !.coupons = rows])
<1>1. req[p] \in ImportPlan
  BY CouponRequestShapes DEF ImportUpdate, At, IInv, TypeOK
<1>2. coupons \in Rows /\ g \in Guests /\ req[p].numbers \in SUBSET Numbers
  BY <1>1, BoundsAssumption DEF ImportUpdate, ImportPlan, IInv, TypeOK, Rows
<1>3. document \in GuestDocument
  <2>1. count \in 0 .. MaxCoupons /\ moved \in Tables \cup {NoTable}
    BY <1>1, <1>2, BoundsAssumption DEF ImportPlan, Counts, IInv, TypeOK, GuestDocument
  <2>2. guests[g] \in GuestDocument
    BY <1>2 DEF IInv, TypeOK
  <2> HIDE DEF count, moved, g
  <2>3. QED
    BY <2>1, <2>2 DEF GuestDocument
<1>4. \/ /\ AssignNumbersAble(coupons, g, count, req[p].numbers)
         /\ Save(AssignNumbers(coupons, g, req[p].numbers))
      \/ Save(SyncCount(coupons, g, count))
      \/ Save(Nothing)
  BY DEF ImportUpdate
<1>5. ASSUME NEW rows, Reallocates(coupons, rows), Save(rows) PROVE Sound
  <2> DEFINE w == [NoWrites EXCEPT !.guests = Put(g, document), !.coupons = rows]
  <2>1. document.phase = guests[g].phase
    BY <1>2 DEF IInv, TypeOK, GuestDocument
  <2>2. w.invitations = Nothing /\ w.seats = Nothing /\ w.guests = Put(g, document)
    BY DEF NoWrites
  <2>3. Calm(w)
    <3> HIDE DEF w, document, g
    <3>1. QED
      BY <1>2, <2>1, <2>2, SavingCalm DEF Live
  <2>4. QED
    BY <1>2, <1>3, <1>5, <2>3, SavingPartial, PartialSound
<1> HIDE DEF Save, document, moved, count, g
<1>6. QED
  BY <1>2, <1>4, <1>5, AssignNumbersReallocates, SyncCountReallocates,
     NothingReallocates

\* Every step of a pool handler, of the merge import and of the quota change.
LEMMA CouponStepSound ==
    ASSUME IInv, NEW p \in Requests, CouponStep(p)
    PROVE  Sound
BY ManualSound, PoolSound, ReconcileSound, PatchSound, ImportReadSound,
   ImportCreateSound, ImportUpdateSound DEF CouponStep

-----------------------------------------------------------------------------
(* Invitations and check-ins.                                              *)

\* A transaction or a write on invitations only.
LEMMA InvitationsPartial ==
    ASSUME NEW invs \in WriteSets(Invitations, InvitationDocument),
           \A i \in DOMAIN invs : Follows(invitations[i], invs[i])
    PROVE  /\ Partial([NoWrites EXCEPT !.invitations = invs])
           /\ Calm([NoWrites EXCEPT !.invitations = invs])
<1> DEFINE w == [NoWrites EXCEPT !.invitations = invs]
<1>1. Partial(w)
  BY EmptyPartial, PartialOthers
<1>2. w.invitations = invs /\ DOMAIN w.seats = {} /\ DOMAIN w.guests = {}
  BY DEF NoWrites, Nothing
<1> HIDE DEF w
<1>3. Calm(w)
  BY <1>2 DEF Calm, Seats
<1>4. QED
  BY <1>1, <1>3 DEF w

\* A write on invitations outside a transaction.
LEMMA InvitationWriteSound ==
    ASSUME IInv, NEW p \in Requests,
           NEW invs \in WriteSets(Invitations, InvitationDocument),
           \A i \in DOMAIN invs : Follows(invitations[i], invs[i]),
           Write(p, [NoWrites EXCEPT !.invitations = invs], Idle)
    PROVE  Sound
<1>1. Idle \in Request /\ Idle.op \notin Bound
  BY RequestKinds DEF Idle, Bound
<1>2. QED
  BY <1>1, InvitationsPartial, WriteSound DEF Partial, Legal, Admits, Calm

\* generate
LEMMA GenerateSound ==
    ASSUME IInv, NEW p \in Requests, GenerateReadGuest(p) \/ GenerateTransaction(p)
    PROVE  Sound
<1>1. CASE GenerateReadGuest(p)
  BY <1>1, ReadSound DEF Bound, GenerateReadGuest, EntranceRequest
<1>2. CASE GenerateTransaction(p)
  <2> DEFINE g       == req[p].guest
             revoked == IF req[p].revokePrevious THEN RevokingActive(g) ELSE Nothing
  <2>1. req[p] \in [op : {"generateTx"}, guest : Guests, revokePrevious : BOOLEAN]
    BY <1>2, EntranceRequestShapes DEF GenerateTransaction, At, IInv, TypeOK
  <2>2. PICK i \in Invitations :
            /\ invitations[i].status = "NONE"
            /\ Transaction(p, [NoWrites EXCEPT
                 !.invitations = Then(revoked, Put(i, NewInvitation(g)))])
    BY <1>2 DEF GenerateTransaction, Unissued
  <2> DEFINE invs == Then(revoked, Put(i, NewInvitation(g)))
  <2>3. revoked \in WriteSets(Invitations, InvitationDocument)
    BY RevokingType, PutType DEF IInv
  <2>4. Put(i, NewInvitation(g)) \in WriteSets(Invitations, InvitationDocument)
    <3>1. NewInvitation(g) \in InvitationDocument
      BY <2>1 DEF NewInvitation, InvitationDocument
    <3>2. QED
      BY <3>1, PutType
  <2>5. invs \in WriteSets(Invitations, InvitationDocument)
    BY <2>3, <2>4, ThenType
  <2>6. Transaction(p, [NoWrites EXCEPT !.invitations = invs])
    BY <2>2
  <2>7. \A j \in DOMAIN invs : Follows(invitations[j], invs[j])
    <3>1. \A j \in DOMAIN revoked : Follows(invitations[j], revoked[j])
      BY DEF RevokingActive, Nothing, Follows, IInv, TypeOK, InvitationDocument
    <3>2. Follows(invitations[i], NewInvitation(g))
      <4>1. invitations[i].used = FALSE
        BY <2>2 DEF IInv, TypeOK, InvitationDocument
      <4>2. QED
        BY <2>2, <4>1 DEF NewInvitation, Follows
    <3> HIDE DEF revoked, g
    <3>3. QED
      BY <3>1, <3>2 DEF Then, Put
  <2> HIDE DEF invs
  <2>8. QED
    BY <2>5, <2>6, <2>7, InvitationsPartial, PartialSound
<1>3. QED
  BY <1>1, <1>2

\* revoke, and the EXPIRED mark of a scan
LEMMA RevokeSound ==
    ASSUME IInv, NEW p \in Requests, Revoke(p) \/ MarkExpired(p)
    PROVE  Sound
<1>1. PICK i \in Invitations, document \in InvitationDocument :
          /\ Follows(invitations[i], document)
          /\ Write(p, [NoWrites EXCEPT !.invitations = Put(i, document)], Idle)
  <2>1. CASE Revoke(p)
    <3>1. PICK i \in Invitations :
            /\ Issued(i)
            /\ Write(p, [NoWrites EXCEPT !.invitations =
                           Put(i, [invitations[i] EXCEPT !.status = "REVOKED",
                                                         !.revoked = TRUE])], Idle)
      BY <2>1 DEF Revoke
    <3>2. [invitations[i] EXCEPT !.status = "REVOKED", !.revoked = TRUE]
            \in InvitationDocument
      <4>1. PICK x : x = invitations[i] /\ x \in InvitationDocument
        BY <3>1 DEF IInv, TypeOK
      <4>2. x.status \notin {"NONE", "PURGED"}
        BY <3>1, <4>1 DEF Issued
      <4>3. [x EXCEPT !.status = "REVOKED", !.revoked = TRUE] \in InvitationDocument
        BY <4>1, <4>2 DEF InvitationDocument
      <4>4. QED
        BY <4>1, <4>3
    <3>3. Follows(invitations[i], [invitations[i] EXCEPT !.status = "REVOKED",
                                                         !.revoked = TRUE])
      <4>1. invitations[i] \in InvitationDocument
        BY <3>1 DEF IInv, TypeOK
      <4>2. QED
        BY <4>1 DEF Follows, InvitationDocument
    <3>4. QED
      BY <3>1, <3>2, <3>3
  <2>2. CASE MarkExpired(p)
    <3>1. req[p].invitation \in Invitations
      BY <2>2, EntranceRequestShapes DEF MarkExpired, At, IInv, TypeOK
    <3>2. [invitations[req[p].invitation] EXCEPT !.status = "EXPIRED"]
            \in InvitationDocument
      <4>1. PICK x : x = invitations[req[p].invitation] /\ x \in InvitationDocument
        BY <3>1 DEF IInv, TypeOK
      <4>2. x.status \notin {"NONE", "PURGED"}
        BY <2>2, <4>1 DEF MarkExpired, Issued
      <4>3. [x EXCEPT !.status = "EXPIRED"] \in InvitationDocument
        BY <4>1, <4>2 DEF InvitationDocument
      <4>4. QED
        BY <4>1, <4>3
    <3>3. Follows(invitations[req[p].invitation],
                  [invitations[req[p].invitation] EXCEPT !.status = "EXPIRED"])
      <4>1. invitations[req[p].invitation] \in InvitationDocument
        BY <3>1 DEF IInv, TypeOK
      <4>2. QED
        BY <4>1 DEF Follows, InvitationDocument
    <3>4. QED
      BY <2>2, <3>1, <3>2, <3>3 DEF MarkExpired
  <2>3. QED
    BY <2>1, <2>2
<1>2. Put(i, document) \in WriteSets(Invitations, InvitationDocument)
  BY PutType
<1>3. \A j \in DOMAIN Put(i, document) : Follows(invitations[j], Put(i, document)[j])
  BY <1>1 DEF Put
<1>4. QED
  BY <1>1, <1>2, <1>3, InvitationWriteSound

\* A scan and the read of the check-in.
LEMMA ScanSound ==
    ASSUME IInv, NEW p \in Requests, Scan(p) \/ CheckInRead(p)
    PROVE  Sound
<1>1. CASE Scan(p)
  <2>1. PICK i \in Invitations :
            /\ Issued(i)
            /\ \/ Continue(p, [op |-> "expire", invitation |-> i])
               \/ Continue(p, [op |-> "checkinRead", invitation |-> i,
                               guest |-> invitations[i].guest,
                               used |-> invitations[i].used])
    BY <1>1 DEF Scan, Resolvable
  <2>2. CASE Continue(p, [op |-> "expire", invitation |-> i])
    BY <2>2, ReadSound DEF Bound, EntranceRequest
  <2>3. CASE Continue(p, [op |-> "checkinRead", invitation |-> i,
                          guest |-> invitations[i].guest,
                          used |-> invitations[i].used])
    <3>1. invitations[i].guest \in Guests /\ invitations[i].used \in BOOLEAN
      BY <2>1 DEF IInv, TypeOK, InvitationDocument, Issued
    <3> DEFINE next == [op |-> "checkinRead", invitation |-> i,
                        guest |-> invitations[i].guest, used |-> invitations[i].used]
    <3>2. next \in EntranceRequest /\ Holds(next) /\ next.op # "commit"
      BY <2>1, <3>1 DEF EntranceRequest, Holds, Issued
    <3>3. Continue(p, next)
      BY <2>3
    <3> HIDE DEF next
    <3>4. QED
      BY <3>2, <3>3, RequestKinds, ContinueSound
  <2>4. QED
    BY <2>1, <2>2, <2>3
<1>2. CASE CheckInRead(p)
  <2>1. req[p] \in [op : {"checkinRead"}, invitation : Invitations, guest : Guests,
                    used : BOOLEAN]
    BY <1>2, EntranceRequestShapes DEF CheckInRead, At, IInv, TypeOK
  <2> DEFINE next == [op |-> "checkinTx", invitation |-> req[p].invitation,
                      guest |-> req[p].guest]
  <2>2. Holds(req[p]) /\ req[p].op = "checkinRead" /\ Continue(p, next)
    BY <1>2 DEF CheckInRead, At, IInv, EInv
  <2>3. next \in EntranceRequest /\ Holds(next) /\ next.op # "commit"
    BY <2>1, <2>2 DEF EntranceRequest, Holds
  <2> HIDE DEF next
  <2>4. QED
    BY <2>2, <2>3, RequestKinds, ContinueSound
<1>3. QED
  BY <1>1, <1>2

\* The transaction of a check-in: the one entry of the guest with the rows
\* assigned to it.
LEMMA CheckInSound ==
    ASSUME IInv, NEW p \in Requests, CheckInTransaction(p)
    PROVE  Sound
<1> DEFINE g == req[p].guest
           i == req[p].invitation
           document == [invitations[i] EXCEPT !.used = TRUE]
           w == [NoWrites EXCEPT !.checkIns    = Put(g, i),
                                 !.invitations = Put(i, document),
                                 !.coupons     = UseAll(coupons, g)]
<1>1. g \in Guests /\ i \in Invitations
  BY EntranceRequestShapes DEF CheckInTransaction, At, IInv, TypeOK
<1>2. Transaction(p, w) /\ checkIns[g] = NoInvitation /\ Issued(i)
  BY DEF CheckInTransaction, Insertable
<1>3. w \in Writes
  <2>1. document \in InvitationDocument
    <3>1. invitations[i] \in InvitationDocument /\ Issued(i)
      BY <1>1, <1>2 DEF IInv, TypeOK
    <3> HIDE DEF i
    <3>2. QED
      BY <3>1 DEF InvitationDocument, Issued
  <2>2. Put(i, document) \in WriteSets(Invitations, InvitationDocument)
    BY <1>1, <2>1, PutType
  <2>3. Put(g, i) \in WriteSets(Guests, Invitations)
    BY <1>1, PutType
  <2>4. UseAll(coupons, g) \in WriteSets(Numbers, CouponRow)
    BY <1>1, Selections, RowShapes, PutType DEF UseAll
  <2> HIDE DEF document, g, i
  <2>5. QED
    BY <2>2, <2>3, <2>4, PutType DEF Writes, NoWrites
<1>4. Enters(w)
  <2>1. DOMAIN w.checkIns = {g}
    BY DEF NoWrites, Put
  <2>2. w.coupons = PutAll(AssignedTo(coupons, g), Used(g))
    BY DEF NoWrites, UseAll
  <2> HIDE DEF w, g
  <2>3. QED
    BY <1>1, <1>2, <2>1, <2>2 DEF Enters
<1>5. Admits(w)
  <2>1. invitations[i].guest = g
    BY <1>2 DEF CheckInTransaction, At, IInv, EInv, Holds
  <2>2. ~invitations[i].used
    BY <1>1, <1>2, <2>1, NoInvitationAssumption DEF IInv, EInv, EntriesMatch
  <2>3. /\ DOMAIN w.checkIns = {g} /\ w.checkIns[g] = i
        /\ DOMAIN w.invitations = {i} /\ w.invitations[i] = document
    BY DEF NoWrites, Put
  <2> HIDE DEF w, g, i
  <2>4. QED
    BY <1>1, <1>2, <2>1, <2>2, <2>3 DEF Admits
<1>6. Seats(w)
  BY DEF Seats, NoWrites, Nothing
<1>7. QED
  <2> HIDE DEF w
  <2>1. QED
    BY <1>2, <1>3, <1>4, <1>5, <1>6, TransactionSound DEF Legal

\* Every step of an invitation or check-in handler.
LEMMA EntranceStepSound ==
    ASSUME IInv, NEW p \in Requests, EntranceStep(p)
    PROVE  Sound
BY GenerateSound, RevokeSound, ScanSound, CheckInSound DEF EntranceStep

\* Without a step of a request, what is in flight stays.
LEMMA DocumentsStay ==
    ASSUME EInv, UNCHANGED <<guests, seats, invitations, checkIns, req>>
    PROVE  EInv'
<1>1. ASSUME NEW q \in Requests
      PROVE  Holds(req[q])'
  <2>1. PICK r : r = req[q]
    OBVIOUS
  <2>2. Holds(r)'
    BY <2>1, HoldsStays DEF EInv
  <2>3. QED
    BY <2>1, <2>2
<1>2. EntriesMatch' /\ SeatsOfLiveGuests'
  BY DEF EInv, EntriesMatch, SeatsOfLiveGuests, Live
<1>3. QED
  BY <1>1, <1>2 DEF EInv

\* Time passing.
LEMMA ExpiresSound ==
    ASSUME IInv, NEW i \in Invitations, Expires(i)
    PROVE  Sound
<1>1. TypeOK'
  BY DEF IInv, TypeOK, Expires, documents
<1>2. PendingLegal'
  BY DEF IInv, PendingLegal, Pending, Legal, Enters, Reallocates, AssignedTo,
     Expires, documents
<1>3. EInv'
  <2>1. UNCHANGED <<guests, seats, invitations, checkIns, req>>
    BY DEF Expires, documents
  <2>2. QED
    BY <2>1, DocumentsStay DEF IInv
<1>4. QED
  BY <1>1, <1>2, <1>3 DEF Sound, IInv, Expires, documents

-----------------------------------------------------------------------------
(* Seating writes no coupon and no check-in, and guests who are live.      *)

\* The write set of a seating is typed.
LEMMA SeatingPartial ==
    ASSUME TypeOK, NEW G \in SUBSET Guests, \A g \in G : Live(g), NEW t \in Tables,
           NEW chosen \in Choices(G, t)
    PROVE  Partial(Seating(G, t, chosen)) /\ Calm(Seating(G, t, chosen))
<1> DEFINE left  == UNION {SeatsOf(g) : g \in G}
           taken == {<<t, s>> : s \in DOMAIN chosen}
           sits  == [place \in taken |-> chosen[place[2]]]
           rows  == Then(PutAll(left, NoGuest), sits)
           docs  == [g \in G |-> [guests[g] EXCEPT
                        !.table = t, !.mirror = {s \in DOMAIN chosen : chosen[s] = g}]]
           one   == [NoWrites EXCEPT !.seats = rows]
<1>1. DOMAIN chosen \in SUBSET SeatNumbers /\ \A s \in DOMAIN chosen : chosen[s] \in G
  BY DEF Choices, Open
<1>2. rows \in WriteSets(Places, Guests \cup {NoGuest})
  <2>1. left \in SUBSET Places
    BY DEF SeatsOf
  <2>2. PutAll(left, NoGuest) \in WriteSets(Places, Guests \cup {NoGuest})
    <3> HIDE DEF left
    <3>1. QED
      BY <2>1, PutType
  <2>3. taken \in SUBSET Places
    BY <1>1 DEF Places
  <2>4. sits \in [taken -> Guests \cup {NoGuest}]
    BY <1>1
  <2>5. sits \in WriteSets(Places, Guests \cup {NoGuest})
    <3> HIDE DEF taken, sits
    <3>1. QED
      BY <2>3, <2>4, WriteSetIntro
  <2>6. QED
    <3> HIDE DEF sits, left
    <3>1. QED
      BY <2>2, <2>5, ThenType
<1>3. docs \in WriteSets(Guests, GuestDocument)
  <2>1. docs \in [G -> GuestDocument]
    BY <1>1 DEF TypeOK, GuestDocument
  <2>2. QED
    <3> HIDE DEF docs
    <3>1. QED
      BY <2>1, WriteSetIntro
<1>4. Seating(G, t, chosen) = [one EXCEPT !.guests = docs]
  BY DEF Seating, NoWrites
<1>5. \A place \in DOMAIN rows : rows[place] \in G \cup {NoGuest}
  BY <1>1 DEF Then, PutAll
<1>6. DOMAIN docs = G /\ \A g \in G : docs[g].phase = "live"
  BY DEF TypeOK, GuestDocument, Live
<1> HIDE DEF rows, docs
<1>7. Calm([one EXCEPT !.guests = docs])
  <2> DEFINE w == [one EXCEPT !.guests = docs]
  <2>1. w.seats = rows /\ w.guests = docs /\ DOMAIN w.invitations = {}
    BY DEF NoWrites, Nothing
  <2> HIDE DEF w
  <2>2. Calm(w)
    BY <1>5, <1>6, <2>1 DEF Calm, Seats
  <2>3. QED
    BY <2>2 DEF w
<1>8. Partial(one)
  BY <1>2, EmptyPartial, PartialOthers
<1> HIDE DEF one
<1>9. QED
  BY <1>3, <1>4, <1>7, <1>8, PartialOthers

\* assign, unassign and bulk
LEMMA SeatingStepSound ==
    ASSUME IInv, NEW p \in Requests, SeatingStep(p)
    PROVE  Sound
<1>1. CASE AssignSeats(p)
  <2>1. PICK g \in Guests, t \in Tables :
            Live(g) /\ \E chosen \in Choices({g}, t) : Transaction(p, Seating({g}, t, chosen))
    BY <1>1 DEF AssignSeats
  <2>2. QED
    BY <2>1, SeatingPartial, PartialSound DEF IInv
<1>2. CASE BulkSeats(p)
  <2>1. PICK g \in Guests, h \in Guests, t \in Tables :
            Live(g) /\ Live(h) /\ \E chosen \in Choices({g, h}, t) : Transaction(p, Seating({g, h}, t, chosen))
    BY <1>2 DEF BulkSeats
  <2>2. QED
    BY <2>1, SeatingPartial, PartialSound DEF IInv
<1>3. CASE UnassignSeats(p)
  <2>1. PICK g \in Guests :
            /\ Live(g)
            /\ Transaction(p, [NoWrites EXCEPT
                 !.seats  = PutAll(SeatsOf(g), NoGuest),
                 !.guests = Put(g, [guests[g] EXCEPT !.table = NoTable, !.mirror = {}])])
    BY <1>3 DEF UnassignSeats
  <2> DEFINE left == PutAll(SeatsOf(g), NoGuest)
             docs == Put(g, [guests[g] EXCEPT !.table = NoTable, !.mirror = {}])
             one  == [NoWrites EXCEPT !.seats = left]
  <2>2. left \in WriteSets(Places, Guests \cup {NoGuest})
    <3>1. SeatsOf(g) \in SUBSET Places
      BY DEF SeatsOf
    <3>2. QED
      BY <3>1, PutType
  <2>3. docs \in WriteSets(Guests, GuestDocument)
    <3>1. [guests[g] EXCEPT !.table = NoTable, !.mirror = {}] \in GuestDocument
      BY DEF IInv, TypeOK, GuestDocument
    <3>2. QED
      BY <3>1, PutType
  <2>4. Transaction(p, [one EXCEPT !.guests = docs])
    BY <2>1 DEF NoWrites
  <2>5. Calm([one EXCEPT !.guests = docs])
    <3> DEFINE w == [one EXCEPT !.guests = docs]
    <3>1. w.seats = left /\ w.guests = docs /\ DOMAIN w.invitations = {}
      BY DEF NoWrites, Nothing
    <3>2. docs[g].phase = "live"
      BY <2>1 DEF Put, Live, IInv, TypeOK, GuestDocument
    <3> HIDE DEF w
    <3>3. Calm(w)
      BY <3>1, <3>2 DEF Calm, Seats, PutAll, Put
    <3>4. QED
      BY <3>3 DEF w
  <2> HIDE DEF left, docs
  <2>6. Partial(one)
    BY <2>2, EmptyPartial, PartialOthers
  <2> HIDE DEF one
  <2>7. QED
    BY <2>3, <2>4, <2>5, <2>6, PartialOthers, PartialSound
<1>4. QED
  BY <1>1, <1>2, <1>3 DEF SeatingStep

-----------------------------------------------------------------------------
(* The inductive invariant.                                                *)

\* It holds when the couple is created.
LEMMA InitIInv == Init => IInv
<1> SUFFICES ASSUME Init PROVE IInv
  OBVIOUS
<1>1. TypeOK
  <2>1. coupons \in [Numbers -> CouponRow]
    BY RowShapes DEF Init
  <2>2. guests \in [Guests -> GuestDocument]
    BY BoundsAssumption DEF Init, NoGuestDocument, GuestDocument
  <2>3. invitations \in [Invitations -> InvitationDocument]
    BY DEF Init, InvitationDocument
  <2>4. req \in [Requests -> Request]
    BY RequestKinds DEF Init
  <2>5. QED
    BY <2>1, <2>2, <2>3, <2>4 DEF Init, TypeOK
<1>2. PendingLegal
  BY DEF Init, PendingLegal, Pending, Idle
<1>3. EInv
  BY DEF Init, EInv, EntriesMatch, SeatsOfLiveGuests, Holds, Idle
<1>4. QED
  BY <1>1, <1>2, <1>3 DEF IInv

\* Every step keeps it, and is a step of the ledger or leaves it alone.
LEMMA StepSound ==
    ASSUME IInv, [Next]_vars
    PROVE  Sound
<1>1. CASE Next
  BY <1>1, GuestStepSound, CouponStepSound, EntranceStepSound, SeatingStepSound,
     CommitSound, AbortSound, ExpiresSound DEF Next
<1>2. CASE UNCHANGED vars
  <2>1. TypeOK'
    BY <1>2 DEF IInv, TypeOK, vars
  <2>2. PendingLegal'
    BY <1>2 DEF IInv, PendingLegal, Pending, Legal, Enters, Reallocates,
       AssignedTo, vars
  <2>3. EInv'
    BY <1>2, DocumentsStay DEF IInv, vars
  <2>4. QED
    BY <1>2, <2>1, <2>2, <2>3 DEF Sound, IInv, vars
<1>3. QED
  BY <1>1, <1>2

\* The invariant of the specification.
LEMMA Invariance == Spec => []IInv
<1>1. IInv /\ [Next]_vars => IInv'
  BY StepSound DEF Sound
<1>2. QED
  BY InitIInv, <1>1, PTL DEF Spec

-----------------------------------------------------------------------------
(* Theorems.                                                               *)

\* Every document and every request in flight keeps its type, whatever the
\* order in which requests run.
THEOREM TypeCorrect == Spec => []TypeOK
<1>1. IInv => TypeOK
  BY DEF IInv
<1>2. QED
  BY Invariance, <1>1, PTL

\* A transaction that no conflict dooms is legal when it commits, although
\* its guards ran on an old snapshot: write conflicts protect the coupons.
THEOREM PendingStaysLegal == Spec => []PendingLegal
<1>1. IInv => PendingLegal
  BY DEF IInv
<1>2. QED
  BY Invariance, <1>1, PTL

\* What a step of the ledger does to the rows used for each guest.
LEMMA LedgerStepUses ==
    ASSUME IInv, IInv', NEW g \in Guests,
           \/ UNCHANGED <<coupons, checkIns>>
           \/ Ledger!Reallocate
           \/ \E h \in Guests : Ledger!Enter(h)
    PROVE  /\ UsedBy(coupons, g) \subseteq UsedBy(coupons', g)
           /\ checkIns[g] # NoInvitation => checkIns'[g] # NoInvitation
           /\ UsedBy(coupons', g) # UsedBy(coupons, g)
                => checkIns[g] = NoInvitation /\ checkIns'[g] # NoInvitation
<1>1. CASE UNCHANGED <<coupons, checkIns>>
  BY <1>1
<1>2. CASE Ledger!Reallocate
  <2>1. /\ \A n \in Numbers : IsUsed(coupons[n]) \/ IsUsed(coupons'[n])
                                => coupons'[n] = coupons[n]
        /\ entered' = entered
    BY <1>2 DEF Ledger!Reallocate, Ledger!IsUsed, IsUsed, Ledger!Numbers, Numbers,
        entered
  <2>2. IsUsed(Used(g))
    BY RowShapes
  <2>3. UsedBy(coupons', g) = UsedBy(coupons, g)
    BY <2>1, <2>2 DEF UsedBy
  <2>4. checkIns[g] # NoInvitation => checkIns'[g] # NoInvitation
    BY <2>1 DEF entered
  <2>5. QED
    BY <2>3, <2>4
<1>3. CASE \E h \in Guests : Ledger!Enter(h)
  <2>1. PICK h \in Guests :
            /\ h \notin entered
            /\ entered' = entered \cup {h}
            /\ \E S \in SUBSET AssignedTo(coupons, h) :
                coupons' = Install(coupons, PutAll(S, Used(h)))
    BY <1>3 DEF Ledger!Enter, Ledger!EnterWith, Ledger!AssignedTo, AssignedTo,
        Ledger!Assigned, Assigned, Ledger!Numbers, Numbers, Ledger!Install, Install,
        Ledger!PutAll, PutAll, Ledger!Used, Used, entered
  <2> PICK S \in SUBSET AssignedTo(coupons, h) :
            coupons' = Install(coupons, PutAll(S, Used(h)))
    BY <2>1
  <2>2. \A n \in Numbers : coupons'[n] = IF n \in S THEN Used(h) ELSE coupons[n]
    BY DEF IInv, TypeOK, Install, PutAll
  <2>3. \A n \in S : coupons[n] # Used(g)
    BY DEF AssignedTo, Assigned, Used
  <2>4. UsedBy(coupons, g) \subseteq UsedBy(coupons', g)
    BY <2>2, <2>3 DEF UsedBy
  <2>5. g # h => UsedBy(coupons', g) = UsedBy(coupons, g)
    <3>1. g # h => Used(g) # Used(h)
      BY DEF Used
    <3>2. QED
      BY <2>2, <2>3, <3>1 DEF UsedBy
  <2>6. /\ checkIns[g] # NoInvitation => checkIns'[g] # NoInvitation
        /\ g = h => checkIns[g] = NoInvitation /\ checkIns'[g] # NoInvitation
    BY <2>1 DEF entered
  <2>7. QED
    BY <2>4, <2>5, <2>6
<1>4. QED
  BY <1>1, <1>2, <1>3

\* The used rows of a guest only grow, and no longer once it is checked in,
\* in every interleaving of every handler.
THEOREM UsesFinal == Spec => UsesAreFinal
<1> DEFINE Final ==
        \A g \in Guests :
            /\ UsedBy(coupons, g) \subseteq UsedBy(coupons', g)
            /\ checkIns[g] # NoInvitation => UsedBy(coupons', g) = UsedBy(coupons, g)
<1>1. IInv /\ [Next]_vars => Final
  BY StepSound, LedgerStepUses DEF Sound
<1>2. IInv /\ [Next]_vars => [Final]_vars
  BY <1>1
<1>3. QED
  BY Invariance, <1>2, PTL DEF Spec, UsesAreFinal

\* No coupon is used without the check-in of its guest.
THEOREM UsedOnlyByCheckIn == Spec => []UsedHasCheckIn
<1>1. Init => UsedHasCheckIn
  BY DEF Init, UsedHasCheckIn, UsedBy, Available, Absent, Used
<1>2. IInv /\ UsedHasCheckIn /\ [Next]_vars => UsedHasCheckIn'
  <2> SUFFICES ASSUME IInv, UsedHasCheckIn, [Next]_vars, NEW g \in Guests,
                      UsedBy(coupons', g) # {}
               PROVE  checkIns'[g] # NoInvitation
    BY DEF UsedHasCheckIn, UsedBy
  <2>1. /\ checkIns[g] # NoInvitation => checkIns'[g] # NoInvitation
        /\ UsedBy(coupons', g) # UsedBy(coupons, g) => checkIns'[g] # NoInvitation
    BY StepSound, LedgerStepUses DEF Sound
  <2>2. QED
    BY <2>1 DEF UsedHasCheckIn
<1>3. QED
  BY Invariance, <1>1, <1>2, PTL DEF Spec

\* Two doors, two invitations of one guest, a revocation, a removal or a replace
\* between the steps of a check-in: an invitation is used exactly when its guest
\* entered with it.
THEOREM OneEntry == Spec => []OneEntryPerGuest
<1>1. IInv => OneEntryPerGuest
  <2> SUFFICES ASSUME IInv, NEW i \in Invitations
               PROVE  invitations[i].used <=>
                        \E g \in Guests : invitations[i].guest = g /\ checkIns[g] = i
    BY DEF OneEntryPerGuest
  <2>1. invitations[i].used => invitations[i].guest \in Guests
    BY InvitationShape DEF IInv, TypeOK
  <2>2. QED
    BY <2>1, NoInvitationAssumption DEF IInv, EInv, EntriesMatch
<1>2. QED
  BY Invariance, <1>1, PTL

\* Whatever seating, removal and replace overlap, no seat is left to a guest who
\* is not live: each of them writes the guest whose seats it counts on.
THEOREM SeatsStayLive == Spec => []SeatsOfLiveGuests
<1>1. IInv => SeatsOfLiveGuests
  BY DEF IInv, EInv
<1>2. QED
  BY Invariance, <1>1, PTL

\* The interleaved handlers implement the coupon ledger.
THEOREM ImplementsLedger == Spec => LedgerSpec
<1>1. Init => Ledger!Init
  <2> SUFFICES ASSUME Init PROVE Ledger!Init
    OBVIOUS
  <2>1. coupons \in [Numbers -> {Absent, Available}]
    BY DEF Init
  <2>2. {g \in Guests : checkIns[g] # NoInvitation} = {}
    BY DEF Init
  <2>3. QED
    BY <2>1, <2>2 DEF Ledger!Init, Ledger!Numbers, Numbers, Ledger!Absent, Absent,
        Ledger!Available, Available
<1>2. IInv /\ [Next]_vars
        => [Ledger!Reallocate \/ \E g \in Guests : Ledger!Enter(g)]_<<coupons,
                {g \in Guests : checkIns[g] # NoInvitation}>>
  BY StepSound DEF Sound
<1>3. QED
  BY Invariance, <1>1, <1>2, PTL DEF Spec, LedgerSpec, Ledger!Spec
=============================================================================
