---------------------------- MODULE InvitationCards ----------------------------
(***************************************************************************)
(* What becomes of the card of one guest: the artifacts that are uploaded  *)
(* for its invitations (InvitationArtifactsService), whether one is stale, *)
(* the links that share an artifact, and the date at which the invitation  *)
(* was sent (GuestsService).  The files are in InvitationDesigns.          *)
(***************************************************************************)
EXTENDS Integers, Documents

CONSTANTS
    MaxInvitations,  \* bound on the invitations of the guest
    MaxCards,        \* bound on its artifacts
    Links,           \* InvitationShareLink ids
    Requests,        \* request slots of the API processes
    MaxWrites,       \* bound on the writes of a source of the card
    MaxEdits,        \* bound on those that change what a card shows
    MaxShares,       \* bound on the shares that are tried
    Mixes            \* bound: the sets of endpoints that are called together

ASSUME CardBoundsAssumption == {MaxInvitations, MaxCards, MaxWrites, MaxEdits, MaxShares} \subseteq Nat

VARIABLES
    writes,       \* updatedAt of each source, as its number of writes
    edits,        \* history: the writes of each source that a card can show
    sent,         \* invitationSentDate, by the write of the guest that set it
    invitations,  \* how many Invitations the guest has
    cards,        \* InvitationArtifact, numbered as generatedAt orders them
    links,        \* InvitationShareLink, by id
    shares,       \* the dates that a share has taken, in order
    req,          \* what each request slot is doing
    ops           \* the endpoints that are called, one of Mixes

sources == <<writes, edits, sent, invitations>>
vars == <<writes, edits, sent, invitations, cards, links, shares, req, ops>>

CardIds == 1 .. MaxCards
Sources == {"guest", "design", "couple"}
Unset == 0

\* invitation = 0: not created yet.  stamps is guestUpdatedAt and its like,
\* shared is lastShareAt, and two fields are history: drawn, the edits that the
\* files show, and outdated, the sources that had been edited since the drawing
\* when their stamps were read.
Card(i, drawn) ==
    [invitation |-> i, stamps |-> [s \in Sources |-> 0], drawn |-> drawn,
     outdated |-> {}, shared |-> Unset]

NoCard == Card(0, [s \in Sources |-> 0])

\* card = 0: not created yet.
Link(c, created, revoked, expired) ==
    [card |-> c, created |-> created, revoked |-> revoked, expired |-> expired]

NoLink == Link(0, Unset, FALSE, FALSE)

Created(c) == cards[c].invitation # 0

-----------------------------------------------------------------------------
(* Requests and transactions, as in WeddingDb.                             *)

NoWrites == [guest |-> Nothing, cards |-> Nothing, links |-> Nothing]

At(p, step) == req[p].op = step

Arrives(p, endpoint) == endpoint \in ops /\ req[p] = Idle

Write(p, w, next) ==
    /\ cards' = Install(cards, w.cards)
    /\ links' = Install(links, w.links)
    /\ req'   = Spared(req, p, w, next)

Continue(p, next) ==
    /\ req' = [req EXCEPT ![p] = next]
    /\ UNCHANGED <<sources, cards, links>>

Commit(p) ==
    /\ At(p, "commit")
    /\ Write(p, req[p].w, Idle)
    /\ UNCHANGED <<sources, shares>>

Abort(p) ==
    /\ req[p] # Idle
    /\ Continue(p, Idle)
    /\ UNCHANGED shares

-----------------------------------------------------------------------------
(* The sources of a card, and the delivery of the invitation               *)

\* Every write of a document sets its updatedAt.
Writing(s) == writes[s] < MaxWrites /\ writes' = [writes EXCEPT ![s] = @ + 1]

\* A handler of guests, designs or couples writes what a card shows.
Edit(s) ==
    /\ s \in ops /\ edits[s] < MaxEdits
    /\ Writing(s)
    /\ edits' = [edits EXCEPT ![s] = @ + 1]
    /\ UNCHANGED <<sent, invitations, cards, links, shares, req>>

Generate(p) ==
    /\ Arrives(p, "generate") /\ invitations < MaxInvitations
    /\ invitations' = invitations + 1
    /\ UNCHANGED <<writes, edits, sent, cards, links, shares, req>>

\* The guest with the date, by request p, which ends.
SaveDelivery(p, date) ==
    /\ Writing("guest")
    /\ sent' = date
    /\ req' = [req EXCEPT ![p] = Idle]
    /\ UNCHANGED <<edits, invitations, cards, links, shares>>

Now == writes["guest"] + 1

\* markInvitationSent writes nothing when the date is set.
MarkRead(p) ==
    /\ Arrives(p, "mark") /\ sent = Unset
    /\ Continue(p, [op |-> "deliver", date |-> sent])
    /\ UNCHANGED shares

\* updateInvitationDelivery with sent: true.
DeliveryRead(p) ==
    /\ Arrives(p, "delivery")
    /\ Continue(p, [op |-> "deliver", date |-> sent])
    /\ UNCHANGED shares

\* Mutant: the date that was read is not kept.
DatedNow(date) == Now

DateToSave(date) == IF date = Unset THEN Now ELSE date

DeliveryWrite(p) ==
    /\ At(p, "deliver")
    /\ SaveDelivery(p, DateToSave(req[p].date))

\* With sent: false; what was read plays no part.
DeliveryReset(p) == Arrives(p, "delivery") /\ SaveDelivery(p, Unset)

\* markInvitationsSent: the update takes only guests without a date.
MarkMany(p) == Arrives(p, "markMany") /\ sent = Unset /\ SaveDelivery(p, Now)

-----------------------------------------------------------------------------
(* Artifacts                                                               *)

\* present and invitationStatus.
Stale(c) == \E s \in Sources : writes[s] > cards[c].stamps[s]

\* The newest artifact of the newest invitation.
CardStatus ==
    LET ready == {c \in CardIds : Created(c) /\ cards[c].invitation = invitations}
    IN  IF ready = {} THEN "NOT_GENERATED"
        ELSE IF Stale(CHOOSE c \in ready : \A d \in ready : d <= c) THEN "STALE"
        ELSE "GENERATED"

\* What the files of an upload may show: the browser that drew them loaded each
\* source at some earlier moment.
Drawings == {d \in [Sources -> 1 .. MaxEdits] : \A s \in Sources : d[s] <= edits[s]}

\* The stamps of the sources S, as they are now.
Stamped(S, card) ==
    [card EXCEPT
        !.stamps = [s \in Sources |-> IF s \in S THEN writes[s] ELSE @[s]],
        !.outdated = @ \cup {s \in S : card.drawn[s] # edits[s]}]

\* Mutant: the invitation is not looked up.
AnyInvitation == 1 .. MaxInvitations

KnownInvitation == 1 .. invitations

\* An upload of finished files arrives; the invitation is read, with its guest
\* and its couple.
CreateRead(p) ==
    /\ Arrives(p, "artifact")
    /\ \E i \in KnownInvitation, drawn \in Drawings :
        Continue(p, [op |-> "findDesign",
                     drawing |-> Stamped({"guest", "couple"}, Card(i, drawn))])
    /\ UNCHANGED shares

CreateReadDesign(p) ==
    /\ At(p, "findDesign")
    /\ Continue(p, [op |-> "saveCard", drawing |-> Stamped({"design"}, req[p].drawing)])
    /\ UNCHANGED shares

\* Mutant: the dates are those of the moment at which the row is written.
StampsAtSave(card) == [card EXCEPT !.stamps = writes]

StampsAtRead(card) == card

\* After the files are stored.
CreateSave(p) ==
    /\ At(p, "saveCard")
    /\ \E c \in CardIds :
        /\ ~Created(c) /\ \A d \in 1 .. (c - 1) : Created(d)
        /\ Write(p, [NoWrites EXCEPT !.cards = Put(c, StampsAtRead(req[p].drawing))], Idle)
    /\ UNCHANGED <<sources, shares>>

DownloadRead(p) ==
    /\ Arrives(p, "download")
    /\ \E c \in CardIds : Created(c) /\ Continue(p, [op |-> "downloaded", card |-> c])
    /\ UNCHANGED shares

\* lastDownloadedAt; a share of the artifact that is to commit is in conflict.
DownloadWrite(p) ==
    /\ At(p, "downloaded")
    /\ Write(p, [NoWrites EXCEPT !.cards = Put(req[p].card, cards[req[p].card])], Idle)
    /\ UNCHANGED <<sources, shares>>

-----------------------------------------------------------------------------
(* Share links                                                             *)

ShareRead(p) ==
    /\ Arrives(p, "share")
    /\ \E c \in CardIds : Created(c) /\ Continue(p, [op |-> "share", card |-> c])
    /\ UNCHANGED shares

\* Mutant: the share writes no artifact.
SharingLinkOnly(c, l) ==
    [NoWrites EXCEPT !.links = Put(l, Link(c, shares + 1, FALSE, FALSE))]

Sharing(c, l) ==
    [NoWrites EXCEPT !.links = Put(l, Link(c, shares + 1, FALSE, FALSE)),
                     !.cards = Put(c, [cards[c] EXCEPT !.shared = shares + 1])]

ShareTransaction(p) ==
    /\ At(p, "share") /\ shares < MaxShares
    /\ \E l \in Links :
        /\ links[l] = NoLink
        /\ \A q \in Requests : At(q, "commit") => l \notin DOMAIN req[q].w.links
        /\ Continue(p, Committing(Sharing(req[p].card, l)))
    /\ shares' = shares + 1

Opens(l) == links[l].card # 0 /\ ~links[l].revoked /\ ~links[l].expired

\* publicOpen; the answer is the file, whatever became of the link meanwhile.
OpenRead(p) ==
    /\ Arrives(p, "open")
    /\ \E l \in Links : Opens(l) /\ Continue(p, [op |-> "opened", link |-> l, row |-> links[l]])
    /\ UNCHANGED shares

\* Mutant: the row is written as it was read.
OpenedAsRead(p) == req[p].row

\* openedAt only.
Opened(p) == links[req[p].link]

OpenWrite(p) ==
    /\ At(p, "opened")
    /\ Write(p, [NoWrites EXCEPT !.links = Put(req[p].link, Opened(p))], Idle)
    /\ UNCHANGED <<sources, shares>>

RevokeRead(p) ==
    /\ Arrives(p, "revoke")
    /\ \E l \in Links :
        links[l].card # 0 /\ Continue(p, [op |-> "revoke", link |-> l])
    /\ UNCHANGED shares

RevokeWrite(p) ==
    /\ At(p, "revoke")
    /\ LET l == req[p].link
       IN  Write(p, [NoWrites EXCEPT !.links = Put(l, [links[l] EXCEPT !.revoked = TRUE])], Idle)
    /\ UNCHANGED <<sources, shares>>

\* The date expiresAt passes.
Expires(l) ==
    /\ links[l].card # 0 /\ ~links[l].expired
    /\ links' = [links EXCEPT ![l].expired = TRUE]
    /\ UNCHANGED <<sources, cards, shares, req>>

-----------------------------------------------------------------------------
\* A guest without an invitation; its documents have been written once.
Init ==
    /\ writes = [s \in Sources |-> 1]
    /\ edits = [s \in Sources |-> 1]
    /\ sent = Unset
    /\ invitations = 0
    /\ cards = [c \in CardIds |-> NoCard]
    /\ links = [l \in Links |-> NoLink]
    /\ shares = 0
    /\ req = [p \in Requests |-> Idle]
    /\ ops \in Mixes

Delivery(p) ==
    MarkRead(p) \/ DeliveryRead(p) \/ DeliveryWrite(p) \/ DeliveryReset(p) \/ MarkMany(p)

Artifact(p) ==
    \/ Generate(p) \/ CreateRead(p) \/ CreateReadDesign(p) \/ CreateSave(p)
    \/ DownloadRead(p) \/ DownloadWrite(p)

Sharings(p) ==
    \/ ShareRead(p) \/ ShareTransaction(p)
    \/ OpenRead(p) \/ OpenWrite(p) \/ RevokeRead(p) \/ RevokeWrite(p)

Next ==
    /\ \/ \E p \in Requests : Delivery(p) \/ Artifact(p) \/ Sharings(p) \/ Commit(p) \/ Abort(p)
       \/ \E s \in Sources : Edit(s)
       \/ \E l \in Links : Expires(l)
    /\ UNCHANGED ops

Spec == Init /\ [][Next]_vars

-----------------------------------------------------------------------------
CardDocument ==
    [invitation : Nat, stamps : [Sources -> Nat], drawn : [Sources -> Nat],
     outdated : SUBSET Sources, shared : Nat]

LinkDocument ==
    [card : 0 .. MaxCards, created : Nat, revoked : BOOLEAN, expired : BOOLEAN]

CardRequest ==
    {Idle}
    \cup [op : {"deliver"}, date : Nat]
    \cup [op : {"findDesign", "saveCard"}, drawing : CardDocument]
    \cup [op : {"downloaded", "share"}, card : CardIds]
    \cup [op : {"opened"}, link : Links, row : LinkDocument]
    \cup [op : {"revoke"}, link : Links]

\* Documents and requests have their types; a card is for an invitation, and a
\* link for a card, that is there.
CardsTypeOK ==
    /\ writes \in [Sources -> Nat] /\ edits \in [Sources -> Nat]
    /\ sent \in Nat /\ invitations \in Nat /\ shares \in Nat
    /\ cards \in [CardIds -> CardDocument]
    /\ \A c \in CardIds : cards[c].invitation <= invitations
    /\ links \in [Links -> LinkDocument]
    /\ \A l \in Links : links[l].card # 0 => Created(links[l].card)
    /\ \A p \in Requests : At(p, "commit") \/ req[p] \in CardRequest

\* The sources that were edited after what the files of the card show of them.
Missed(c) == {s \in Sources : cards[c].drawn[s] # edits[s]}

\* A card that is presented as fresh has missed no edit since its stamps were
\* read, also when one came between the reads and the row: what it shows of a
\* source is old only if the files came with it old.  So for the card of the
\* newest invitation when the status of the guest is GENERATED.
FreshIsCurrent ==
    /\ \A c \in CardIds : Created(c) /\ ~Stale(c) => Missed(c) = cards[c].outdated
    /\ CardStatus = "GENERATED" =>
        \E c \in CardIds :
            cards[c].invitation = invitations /\ Missed(c) = cards[c].outdated

\* lastShareAt is the date of the newest link, whatever shares and downloads of
\* the artifact overlap: a link is never newer.
LastShareIsLast ==
    \A c \in CardIds, l \in Links : links[l].card = c => links[l].created <= cards[c].shared

\* A link that is revoked stays so, although an open that has passed the check
\* writes it afterwards.
RevokedForGood == [][\A l \in Links : links[l].revoked => links'[l].revoked]_vars

\* The date at which the invitation was sent is kept until it is reset: only a
\* request that read the guest before that date was set puts another.
MarksKeepTheFirstDate ==
    [][sent # Unset /\ sent' \notin {Unset, sent} =>
        \E p \in Requests : At(p, "deliver") /\ req'[p] = Idle /\ req[p].date # sent]_vars
=============================================================================
