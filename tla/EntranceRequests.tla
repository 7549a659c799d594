--------------------------- MODULE EntranceRequests ---------------------------
(***************************************************************************)
(* InvitationsService and CheckInsService: QR invitations are issued,      *)
(* revoked and expire; a scan resolves one and checks its guest in.  An    *)
(* invitation stands for its token: the hash names one document.           *)
(***************************************************************************)
EXTENDS WeddingDb

(* generate; regenerate is the same for the guest of an invitation.        *)

GenerateReadGuest(p) ==
    /\ Arrives(p, "generate")
    /\ \E g \in Guests, revokePrevious \in BOOLEAN :
        /\ Live(g)
        /\ Continue(p, [op |-> "generateTx", guest |-> g,
                        revokePrevious |-> revokePrevious])

NewInvitation(g) ==
    [status |-> "ACTIVE", guest |-> g, revoked |-> FALSE, used |-> FALSE]

Unissued(i) ==
    /\ invitations[i].status = "NONE"
    /\ \A q \in Requests : Pending(q) => i \notin DOMAIN req[q].w.invitations

GenerateTransaction(p) ==
    LET g == req[p].guest
        revoked == IF req[p].revokePrevious THEN RevokingActive(g) ELSE Nothing
    IN  /\ At(p, "generateTx")
        /\ \E i \in Invitations :
            /\ Unissued(i)
            /\ Transaction(p, [NoWrites EXCEPT
                 !.invitations = Then(revoked, Put(i, NewInvitation(g)))])

-----------------------------------------------------------------------------
(* revoke: the write itself checks that the document exists.               *)

Revoke(p) ==
    \E i \in Invitations :
        /\ Arrives(p, "revoke")
        /\ Issued(i)
        /\ Write(p, [NoWrites EXCEPT
             !.invitations = Put(i, [invitations[i] EXCEPT !.status = "REVOKED",
                                                           !.revoked = TRUE])],
                 Idle)

\* The expiresAt of an invitation passes.
Expires(i) ==
    /\ Issued(i) /\ i \notin due
    /\ due' = due \cup {i}
    /\ UNCHANGED <<documents, req>>

-----------------------------------------------------------------------------
(* resolve, validate and create                                            *)

\* Mutant: a revoked invitation is accepted.
ResolvableRevoked(i) == Issued(i) /\ Live(invitations[i].guest)

\* resolve reads the invitation with its guest; a missing guest makes the
\* query throw.  It accepts, or marks an invitation past its expiry.
Resolvable(i) ==
    /\ Issued(i)
    /\ Live(invitations[i].guest)
    /\ invitations[i].status # "REVOKED" /\ ~invitations[i].revoked

Scan(p) ==
    \E i \in Invitations :
        /\ Arrives(p, "checkin")
        /\ Resolvable(i)
        /\ IF i \in due
           THEN Continue(p, [op |-> "expire", invitation |-> i])
           ELSE /\ invitations[i].status # "EXPIRED"
                /\ Continue(p, [op |-> "checkinRead", invitation |-> i,
                                guest |-> invitations[i].guest,
                                used |-> invitations[i].used])

MarkExpired(p) ==
    LET i == req[p].invitation
    IN  /\ At(p, "expire")
        /\ Issued(i)
        /\ Write(p, [NoWrites EXCEPT
             !.invitations = Put(i, [invitations[i] EXCEPT !.status = "EXPIRED"])],
                 Idle)

\* create: the guest must not be in and the invitation, as it was resolved,
\* must not be used.
CheckInRead(p) ==
    /\ At(p, "checkinRead")
    /\ checkIns[req[p].guest] = NoInvitation
    /\ ~req[p].used
    /\ Continue(p, [op |-> "checkinTx", invitation |-> req[p].invitation,
                    guest |-> req[p].guest])

\* Mutant: the check-in is upserted.
InsertableAlways(g) == TRUE

\* The unique index on guestId admits the check-in.
Insertable(g) == checkIns[g] = NoInvitation

\* The check-in is inserted and returned with its guest, the invitation is
\* updated, and the ASSIGNED rows become USED.
CheckInTransaction(p) ==
    LET g == req[p].guest
        i == req[p].invitation
    IN  /\ At(p, "checkinTx")
        /\ Insertable(g)
        /\ Stored(g)
        /\ Issued(i)
        /\ Transaction(p, [NoWrites EXCEPT
             !.checkIns    = Put(g, i),
             !.invitations = Put(i, [invitations[i] EXCEPT !.used = TRUE]),
             !.coupons     = UseAll(coupons, g)])
=============================================================================
