------------------------- MODULE InvitationCardsProofs -------------------------
(***************************************************************************)
(* A fresh card has missed no edit since it was stamped, no link is newer  *)
(* than the last share and none is opened again after its revocation,      *)
(* proved for any number of invitations, artifacts, links and requests.    *)
(***************************************************************************)
EXTENDS InvitationCards, WellFoundedInduction, TLAPS

\* The sources in S have been read for the card; what has not been written since
\* is old on it only if it was so then.
StampedAt(card, S) ==
    /\ card.outdated \subseteq S
    /\ \A s \in S :
        /\ card.stamps[s] <= writes[s]
        /\ card.stamps[s] = writes[s] =>
              (card.drawn[s] # edits[s] <=> s \in card.outdated)

\* A share that waits to commit: neither its link nor its artifact has changed
\* since, and no later share has been seen.
Pending(w) ==
    \E c \in CardIds, l \in Links, n \in Nat :
        /\ w = [NoWrites EXCEPT !.links = Put(l, Link(c, n, FALSE, FALSE)),
                                !.cards = Put(c, [cards[c] EXCEPT !.shared = n])]
        /\ Created(c) /\ links[l] = NoLink
        /\ cards[c].shared <= n /\ n <= shares

\* What a request knows at each step.
Knows(p) ==
    /\ req[p].op \in {"findDesign", "saveCard"} =>
          req[p].drawing.invitation \in 1 .. invitations /\ req[p].drawing.shared = Unset
    /\ At(p, "findDesign") => StampedAt(req[p].drawing, {"guest", "couple"})
    /\ At(p, "saveCard") => StampedAt(req[p].drawing, Sources)
    /\ req[p].op \in {"downloaded", "share"} => Created(req[p].card)
    /\ req[p].op \in {"opened", "revoke"} => links[req[p].link].card # 0
    /\ At(p, "commit") => Pending(req[p].w)

\* The inductive invariant.
IInv ==
    /\ CardsTypeOK
    /\ req = [p \in Requests |-> req[p]]
    /\ \A p \in Requests : Knows(p)
    /\ \A c \in CardIds : Created(c) => StampedAt(cards[c], Sources)
    /\ \A c \in CardIds : cards[c].shared <= shares
    /\ LastShareIsLast

LEMMA IInvParts ==
    ASSUME IInv
    PROVE  /\ writes \in [Sources -> Nat] /\ edits \in [Sources -> Nat]
           /\ sent \in Nat /\ invitations \in Nat /\ shares \in Nat
           /\ cards \in [CardIds -> CardDocument]
           /\ links \in [Links -> LinkDocument]
           /\ \A c \in CardIds : cards[c].invitation <= invitations
           /\ \A l \in Links : links[l].card # 0 => Created(links[l].card)
           /\ \A p \in Requests : At(p, "commit") \/ req[p] \in CardRequest
           /\ req = [p \in Requests |-> req[p]]
           /\ \A p \in Requests : Knows(p)
           /\ \A c \in CardIds : Created(c) => StampedAt(cards[c], Sources)
           /\ \A c \in CardIds : cards[c].shared <= shares
           /\ LastShareIsLast
BY DEF IInv, CardsTypeOK

LEMMA IdleKnowsNothing ==
    ASSUME NEW p \in Requests, req'[p] = Idle
    PROVE  Knows(p)' /\ req'[p] \in CardRequest
BY DEF Knows, At, Idle, CardRequest

-----------------------------------------------------------------------------
(* Steps that write no artifact and no link                                *)

\* A request goes on, and the sources of the cards may have been written.
LEMMA SourcesKeep ==
    ASSUME IInv,
           UNCHANGED <<cards, links>>,
           writes' \in [Sources -> Nat], edits' \in [Sources -> Nat],
           \A s \in Sources : /\ writes[s] <= writes'[s]
                              /\ writes'[s] = writes[s] => edits'[s] = edits[s],
           sent' \in Nat, invitations' \in Nat, invitations <= invitations',
           shares' \in Nat, shares <= shares',
           req' = [q \in Requests |-> req'[q]],
           \A q \in Requests :
              req'[q] = req[q] \/ (Knows(q)' /\ (At(q, "commit")' \/ req'[q] \in CardRequest))
    PROVE  IInv'
<1>1. CardsTypeOK'
  <2>1. \A q \in Requests : At(q, "commit")' \/ req'[q] \in CardRequest
    BY IInvParts DEF At
  <2>2. \A c \in CardIds : cards[c].invitation \in Nat
    BY IInvParts DEF CardDocument
  <2>3. QED
    BY <2>1, <2>2, IInvParts DEF CardsTypeOK, Created
<1>2. ASSUME NEW card \in CardDocument, NEW S \in SUBSET Sources, StampedAt(card, S)
      PROVE  StampedAt(card, S)'
  <2>1. \A s \in S : card.stamps[s] \in Nat /\ writes[s] \in Nat /\ writes'[s] \in Nat
    BY IInvParts DEF CardDocument
  <2>2. QED
    BY <1>2, <2>1 DEF StampedAt
<1>3. ASSUME NEW q \in Requests, req'[q] = req[q]
      PROVE  Knows(q)'
  <2>1. Knows(q)
    BY IInvParts
  <2>2. CASE req[q].op \in {"findDesign", "saveCard"}
    <3>1. req[q].drawing \in CardDocument
      BY <2>2, IInvParts DEF CardRequest, At, Idle
    <3>2. req[q].drawing.invitation \in 1 .. invitations' /\ req[q].drawing.shared = Unset
      BY <2>1, <2>2, IInvParts DEF Knows
    <3>3. {"guest", "couple"} \in SUBSET Sources
      BY DEF Sources
    <3>4. QED
      BY <1>2, <1>3, <2>1, <2>2, <3>1, <3>2, <3>3 DEF Knows, At
  <2>3. CASE At(q, "commit")
    <3>1. PICK c \in CardIds, l \in Links, n \in Nat :
            /\ req[q].w = [NoWrites EXCEPT !.links = Put(l, Link(c, n, FALSE, FALSE)),
                                           !.cards = Put(c, [cards[c] EXCEPT !.shared = n])]
            /\ Created(c) /\ links[l] = NoLink
            /\ cards[c].shared <= n /\ n <= shares
      BY <2>1, <2>3 DEF Knows, Pending
    <3>2. n <= shares'
      BY <3>1, IInvParts
    <3>3. Pending(req[q].w)'
      BY <1>3, <3>1, <3>2 DEF Pending, Created
    <3>4. QED
      BY <1>3, <2>3, <3>3 DEF Knows, At
  <2>4. CASE req[q].op \notin {"findDesign", "saveCard", "commit"}
    BY <1>3, <2>1, <2>4 DEF Knows, At, Created
  <2>5. QED
    BY <2>2, <2>3, <2>4 DEF At
<1>4. \A c \in CardIds : Created(c)' => StampedAt(cards[c], Sources)'
  BY <1>2, IInvParts DEF Created
<1>5. \A c \in CardIds : cards'[c].shared <= shares'
  <2>1. \A c \in CardIds : cards[c].shared \in Nat
    BY IInvParts DEF CardDocument
  <2>2. QED
    BY <2>1, IInvParts
<1>6. LastShareIsLast'
  BY IInvParts DEF LastShareIsLast
<1>7. QED
  BY <1>1, <1>3, <1>4, <1>5, <1>6 DEF IInv

LEMMA ContinueKeeps ==
    ASSUME IInv, NEW p \in Requests, NEW next, Continue(p, next),
           shares' \in Nat, shares <= shares',
           Knows(p)' /\ (next.op = "commit" \/ next \in CardRequest)
    PROVE  IInv'
<1>1. /\ UNCHANGED <<writes, edits, sent, invitations, cards, links>>
      /\ req' = [req EXCEPT ![p] = next]
  BY DEF Continue, sources
<1>2. /\ req' = [q \in Requests |-> req'[q]]
      /\ req'[p] = next /\ \A q \in Requests : q # p => req'[q] = req[q]
  BY <1>1, IInvParts
<1>3. \A q \in Requests :
        req'[q] = req[q] \/ (Knows(q)' /\ (At(q, "commit")' \/ req'[q] \in CardRequest))
  BY <1>2 DEF At
<1>4. \A s \in Sources : /\ writes[s] <= writes'[s]
                         /\ writes'[s] = writes[s] => edits'[s] = edits[s]
  BY <1>1, IInvParts
<1>5. /\ writes' \in [Sources -> Nat] /\ edits' \in [Sources -> Nat] /\ sent' \in Nat
      /\ invitations' \in Nat /\ invitations <= invitations'
  BY <1>1, IInvParts
<1>6. QED
  BY <1>1, <1>2, <1>3, <1>4, <1>5, SourcesKeep

LEMMA EditKeeps ==
    ASSUME IInv, NEW s \in Sources, Edit(s)
    PROVE  IInv'
<1>1. /\ writes' = [writes EXCEPT ![s] = @ + 1] /\ edits' = [edits EXCEPT ![s] = @ + 1]
      /\ UNCHANGED <<sent, invitations, cards, links, shares, req>>
  BY DEF Edit, Writing
<1>2. /\ writes' \in [Sources -> Nat] /\ edits' \in [Sources -> Nat]
      /\ \A t \in Sources : /\ writes[t] <= writes'[t]
                            /\ writes'[t] = writes[t] => edits'[t] = edits[t]
  BY <1>1, IInvParts
<1>3. invitations <= invitations' /\ shares <= shares'
  BY <1>1, IInvParts
<1>4. \A q \in Requests : req'[q] = req[q]
  BY <1>1
<1>5. QED
  BY <1>1, <1>2, <1>3, <1>4, SourcesKeep, IInvParts

\* A date for the guest: what a card shows does not change.
LEMMA SaveDeliveryKeeps ==
    ASSUME IInv, NEW p \in Requests, NEW date \in Nat, SaveDelivery(p, date)
    PROVE  IInv'
<1>1. /\ writes' = [writes EXCEPT !["guest"] = @ + 1] /\ sent' = date
      /\ req' = [req EXCEPT ![p] = Idle]
      /\ UNCHANGED <<edits, invitations, cards, links, shares>>
  BY DEF SaveDelivery, Writing
<1>2. /\ writes' \in [Sources -> Nat]
      /\ \A t \in Sources : writes[t] <= writes'[t]
  <2>1. \A t \in Sources : writes'[t] = IF t = "guest" THEN writes[t] + 1 ELSE writes[t]
    BY <1>1, IInvParts
  <2>2. \A t \in Sources : writes[t] \in Nat
    BY IInvParts
  <2>3. DOMAIN writes' = Sources /\ writes' = [t \in Sources |-> writes'[t]]
    BY <1>1, IInvParts
  <2>4. QED
    BY <2>1, <2>2, <2>3
<1>3. invitations <= invitations' /\ shares <= shares'
  BY <1>1, IInvParts
<1>4. req' = [q \in Requests |-> req'[q]] /\ req'[p] = Idle
  BY <1>1, IInvParts
<1>5. \A q \in Requests : req'[q] = req[q] \/ (Knows(q)' /\ req'[q] \in CardRequest)
  BY <1>1, <1>4, IdleKnowsNothing
<1>6. QED
  BY <1>1, <1>2, <1>3, <1>4, <1>5, SourcesKeep, IInvParts

LEMMA GenerateKeeps ==
    ASSUME IInv, NEW p \in Requests, Generate(p)
    PROVE  IInv'
<1>1. invitations' = invitations + 1 /\ UNCHANGED <<writes, edits, sent, cards, links, shares, req>>
  BY DEF Generate
<1>2. /\ invitations <= invitations' /\ invitations' \in Nat /\ shares <= shares'
      /\ \A s \in Sources : writes[s] <= writes'[s]
  BY <1>1, IInvParts
<1>3. \A q \in Requests : req'[q] = req[q]
  BY <1>1
<1>4. QED
  BY <1>1, <1>2, <1>3, SourcesKeep, IInvParts

LEMMA DeliveryKeeps ==
    ASSUME IInv, NEW p \in Requests, Delivery(p)
    PROVE  IInv'
<1>1. /\ sent \in Nat /\ writes["guest"] + 1 \in Nat /\ 0 \in Nat
      /\ shares \in Nat /\ shares <= shares
  BY IInvParts DEF Sources
<1>2. CASE MarkRead(p) \/ DeliveryRead(p)
  <2> DEFINE next == [op |-> "deliver", date |-> sent]
  <2>1. Continue(p, next) /\ shares' = shares
    BY <1>2 DEF MarkRead, DeliveryRead
  <2>2. req'[p] = next
    BY <2>1, IInvParts DEF Continue
  <2>3. Knows(p)' /\ next \in CardRequest
    BY <1>1, <2>2 DEF Knows, At, CardRequest
  <2> HIDE DEF next
  <2>4. QED
    BY <1>1, <2>1, <2>3, ContinueKeeps
<1>3. CASE DeliveryWrite(p)
  <2>1. req[p].date \in Nat
    BY <1>3, IInvParts DEF DeliveryWrite, At, CardRequest, Idle
  <2>2. DateToSave(req[p].date) \in Nat
    BY <1>1, <2>1 DEF DateToSave, Now
  <2>3. QED
    BY <1>3, <2>2, SaveDeliveryKeeps DEF DeliveryWrite
<1>4. CASE DeliveryReset(p)
  BY <1>1, <1>4, SaveDeliveryKeeps DEF DeliveryReset, Unset
<1>5. CASE MarkMany(p)
  BY <1>1, <1>5, SaveDeliveryKeeps DEF MarkMany, Now
<1>6. QED
  BY <1>2, <1>3, <1>4, <1>5 DEF Delivery

\* The stamps of further sources are taken.
LEMMA StampedIsRight ==
    ASSUME IInv, NEW card \in CardDocument, NEW S \in SUBSET Sources,
           NEW T \in SUBSET Sources, S \cap T = {}, StampedAt(card, T)
    PROVE  /\ Stamped(S, card) \in CardDocument
           /\ Stamped(S, card).invitation = card.invitation
           /\ Stamped(S, card).shared = card.shared
           /\ StampedAt(Stamped(S, card), S \cup T)
<1> DEFINE stamped == Stamped(S, card)
           newStamps == [s \in Sources |-> IF s \in S THEN writes[s] ELSE card.stamps[s]]
           old == {s \in S : card.drawn[s] # edits[s]}
<1>1. /\ writes \in [Sources -> Nat] /\ edits \in [Sources -> Nat]
      /\ card.stamps \in [Sources -> Nat] /\ card.drawn \in [Sources -> Nat]
      /\ card.outdated \in SUBSET Sources /\ card.shared \in Nat /\ card.invitation \in Nat
  BY IInvParts DEF CardDocument
<1>2. newStamps \in [Sources -> Nat]
  BY <1>1
<1>3. \A s \in Sources : newStamps[s] = IF s \in S THEN writes[s] ELSE card.stamps[s]
  OBVIOUS
<1>4. old \in SUBSET S /\ \A s \in S : s \in old <=> card.drawn[s] # edits[s]
  OBVIOUS
<1>5. stamped = [card EXCEPT !.stamps = newStamps, !.outdated = card.outdated \cup old]
  BY DEF Stamped, CardDocument
<1> HIDE DEF stamped, newStamps, old
<1>6. /\ stamped \in CardDocument
      /\ stamped.invitation = card.invitation /\ stamped.shared = card.shared
      /\ stamped.stamps = newStamps /\ stamped.drawn = card.drawn
      /\ stamped.outdated = card.outdated \cup old
  BY <1>1, <1>2, <1>4, <1>5 DEF CardDocument
<1>7. StampedAt(stamped, S \cup T)
  <2>1. stamped.outdated \subseteq S \cup T
    BY <1>4, <1>6 DEF StampedAt
  <2>2. ASSUME NEW s \in S \cup T
        PROVE  /\ stamped.stamps[s] <= writes[s]
               /\ stamped.stamps[s] = writes[s] =>
                     (stamped.drawn[s] # edits[s] <=> s \in stamped.outdated)
    <3>1. CASE s \in S
      <4>1. s \notin card.outdated
        BY <3>1 DEF StampedAt
      <4>2. QED
        BY <1>1, <1>3, <1>4, <1>6, <3>1, <4>1
    <3>2. CASE s \in T /\ s \notin S
      BY <1>1, <1>3, <1>4, <1>6, <3>2 DEF StampedAt
    <3>3. QED
      BY <3>1, <3>2
  <2>3. QED
    BY <2>1, <2>2 DEF StampedAt
<1>8. QED
  BY <1>6, <1>7 DEF stamped

LEMMA CreateReadsKeep ==
    ASSUME IInv, NEW p \in Requests, CreateRead(p) \/ CreateReadDesign(p)
    PROVE  IInv'
<1>1. shares' = shares /\ shares \in Nat /\ shares <= shares /\ invitations \in Nat
  BY IInvParts DEF CreateRead, CreateReadDesign
<1>2. CASE CreateRead(p)
  <2> DEFINE S == {"guest", "couple"}
             next(i, drawn) ==
                 [op |-> "findDesign", drawing |-> Stamped(S, Card(i, drawn))]
  <2>1. PICK i \in KnownInvitation, drawn \in Drawings : Continue(p, next(i, drawn))
    BY <1>2 DEF CreateRead
  <2> DEFINE card == Card(i, drawn)
  <2>2. i \in 1 .. invitations /\ i \in Nat /\ drawn \in [Sources -> Nat]
    BY <1>1, <2>1, CardBoundsAssumption DEF KnownInvitation, Drawings
  <2>3. card \in CardDocument /\ card.invitation = i /\ card.shared = Unset
    BY <2>2 DEF Card, CardDocument, Unset
  <2>4. S \in SUBSET Sources
    BY DEF Sources
  <2>5. StampedAt(card, {})
    BY DEF StampedAt, Card
  <2>6. /\ Stamped(S, card) \in CardDocument
        /\ Stamped(S, card).invitation = i /\ Stamped(S, card).shared = Unset
        /\ StampedAt(Stamped(S, card), S \cup {})
    <3> HIDE DEF S, card
    <3>1. QED
      BY <2>3, <2>4, <2>5, StampedIsRight
  <2>7. req'[p] = next(i, drawn) /\ UNCHANGED <<writes, edits, invitations>>
    BY <2>1, IInvParts DEF Continue, sources
  <2>8. Knows(p)'
    <3>1. S \cup {} = S /\ StampedAt(Stamped(S, card), S)
      BY <2>6
    <3>2. req'[p].drawing = Stamped(S, card)
      BY <2>7
    <3>3. StampedAt(req[p].drawing, S)'
      BY <2>7, <3>1, <3>2 DEF StampedAt
    <3>4. /\ req'[p].op = "findDesign" /\ req'[p].drawing.invitation \in 1 .. invitations'
          /\ req'[p].drawing.shared = Unset
      BY <2>2, <2>6, <2>7
    <3>5. QED
      BY <3>3, <3>4 DEF Knows, At
  <2>9. next(i, drawn) \in CardRequest
    BY <2>6 DEF CardRequest
  <2> HIDE DEF next
  <2>10. QED
    BY <1>1, <2>1, <2>8, <2>9, ContinueKeeps
<1>3. CASE CreateReadDesign(p)
  <2> DEFINE next == [op |-> "saveCard", drawing |-> Stamped({"design"}, req[p].drawing)]
  <2>1. Continue(p, next) /\ At(p, "findDesign")
    BY <1>3 DEF CreateReadDesign
  <2>2. /\ req[p].drawing \in CardDocument
        /\ req[p].drawing.invitation \in 1 .. invitations /\ req[p].drawing.shared = Unset
        /\ StampedAt(req[p].drawing, {"guest", "couple"})
    BY <2>1, IInvParts DEF Knows, At, CardRequest, Idle
  <2>3. {"design"} \in SUBSET Sources /\ {"guest", "couple"} \in SUBSET Sources
        /\ {"design"} \cup {"guest", "couple"} = Sources
        /\ {"design"} \cap {"guest", "couple"} = {}
    BY DEF Sources
  <2>4. /\ Stamped({"design"}, req[p].drawing) \in CardDocument
        /\ Stamped({"design"}, req[p].drawing).invitation = req[p].drawing.invitation
        /\ Stamped({"design"}, req[p].drawing).shared = req[p].drawing.shared
        /\ StampedAt(Stamped({"design"}, req[p].drawing), Sources)
    BY <2>2, <2>3, StampedIsRight
  <2>5. req'[p] = next /\ UNCHANGED <<writes, edits, invitations>>
    BY <2>1, IInvParts DEF Continue, sources
  <2>6. Knows(p)'
    <3>1. StampedAt(req[p].drawing, Sources)'
      BY <2>4, <2>5 DEF StampedAt
    <3>2. /\ req'[p].op = "saveCard" /\ req'[p].drawing.invitation \in 1 .. invitations'
          /\ req'[p].drawing.shared = Unset
      BY <2>2, <2>4, <2>5
    <3>3. QED
      BY <3>1, <3>2 DEF Knows, At
  <2>7. next \in CardRequest
    BY <2>4 DEF CardRequest
  <2> HIDE DEF next
  <2>8. QED
    BY <1>1, <2>1, <2>6, <2>7, ContinueKeeps
<1>4. QED
  BY <1>2, <1>3

\* Requests that have found an artifact or a link, and a share that is
\* evaluated: its date is later than those of all shares before.
LEMMA ReadsKeep ==
    ASSUME IInv, NEW p \in Requests,
           \/ DownloadRead(p) \/ ShareRead(p) \/ OpenRead(p) \/ RevokeRead(p)
           \/ ShareTransaction(p) \/ Abort(p)
    PROVE  IInv'
<1>1. shares \in Nat /\ shares <= shares
  BY IInvParts
<1>2. CASE DownloadRead(p) \/ ShareRead(p)
  <2>1. PICK c \in CardIds, op \in {"downloaded", "share"} :
            Created(c) /\ Continue(p, [op |-> op, card |-> c])
    BY <1>2 DEF DownloadRead, ShareRead
  <2>2. shares' = shares
    BY <1>2 DEF DownloadRead, ShareRead
  <2>3. req'[p] = [op |-> op, card |-> c] /\ cards' = cards
    BY <2>1, IInvParts DEF Continue
  <2>4. Knows(p)' /\ [op |-> op, card |-> c] \in CardRequest
    BY <2>1, <2>3 DEF Knows, At, CardRequest, Created
  <2>5. QED
    BY <1>1, <2>1, <2>2, <2>4, ContinueKeeps
<1>3. CASE OpenRead(p)
  <2>1. PICK l \in Links :
            Opens(l) /\ Continue(p, [op |-> "opened", link |-> l, row |-> links[l]])
    BY <1>3 DEF OpenRead
  <2>2. shares' = shares
    BY <1>3 DEF OpenRead
  <2>3. req'[p] = [op |-> "opened", link |-> l, row |-> links[l]] /\ links' = links
    BY <2>1, IInvParts DEF Continue
  <2>4. Knows(p)' /\ [op |-> "opened", link |-> l, row |-> links[l]] \in CardRequest
    BY <2>1, <2>3, IInvParts DEF Knows, At, CardRequest, Opens
  <2>5. QED
    BY <1>1, <2>1, <2>2, <2>4, ContinueKeeps
<1>4. CASE RevokeRead(p)
  <2>1. PICK l \in Links :
            links[l].card # 0 /\ Continue(p, [op |-> "revoke", link |-> l])
    BY <1>4 DEF RevokeRead
  <2>2. shares' = shares
    BY <1>4 DEF RevokeRead
  <2>3. req'[p] = [op |-> "revoke", link |-> l] /\ links' = links
    BY <2>1, IInvParts DEF Continue
  <2>4. Knows(p)' /\ [op |-> "revoke", link |-> l] \in CardRequest
    BY <2>1, <2>3 DEF Knows, At, CardRequest
  <2>5. QED
    BY <1>1, <2>1, <2>2, <2>4, ContinueKeeps
<1>5. CASE ShareTransaction(p)
  <2> DEFINE c == req[p].card
             next(l) == Committing(Sharing(c, l))
  <2>1. PICK l \in Links : links[l] = NoLink /\ Continue(p, next(l))
    BY <1>5 DEF ShareTransaction
  <2>2. shares' = shares + 1 /\ shares' \in Nat /\ shares <= shares'
    BY <1>1, <1>5 DEF ShareTransaction
  <2>3. c \in CardIds /\ Created(c)
    BY <1>5, IInvParts DEF ShareTransaction, At, Knows, CardRequest, Idle
  <2>4. /\ req'[p] = [op |-> "commit", w |-> Sharing(c, l)]
        /\ cards' = cards /\ links' = links
    BY <2>1, IInvParts DEF Continue, Committing
  <2>5. cards[c].shared \in Nat /\ cards[c].shared <= shares
    BY <2>3, IInvParts DEF CardDocument
  <2>6. Knows(p)'
    <3>1. /\ Sharing(c, l) =
                [NoWrites EXCEPT !.links = Put(l, Link(c, shares + 1, FALSE, FALSE)),
                                 !.cards = Put(c, [cards[c] EXCEPT !.shared = shares + 1])]
          /\ Created(c) /\ links[l] = NoLink
          /\ cards[c].shared <= shares + 1 /\ shares + 1 <= shares'
      BY <1>1, <2>1, <2>2, <2>3, <2>5 DEF Sharing
    <3>2. shares + 1 \in Nat
      BY <1>1
    <3>3. \E b \in CardIds, k \in Links, n \in Nat :
            /\ Sharing(c, l) = [NoWrites EXCEPT !.links = Put(k, Link(b, n, FALSE, FALSE)),
                                                !.cards = Put(b, [cards[b] EXCEPT !.shared = n])]
            /\ Created(b) /\ links[k] = NoLink
            /\ cards[b].shared <= n /\ n <= shares'
      BY <2>1, <2>3, <3>1, <3>2
    <3>4. req'[p].w = Sharing(c, l)
      BY <2>4
    <3>5. Pending(req[p].w)'
      BY <2>4, <3>3, <3>4 DEF Pending, Created
    <3>6. QED
      BY <2>4, <3>5 DEF Knows, At
  <2>7. next(l).op = "commit"
    BY DEF Committing
  <2> HIDE DEF next
  <2>8. QED
    BY <2>1, <2>2, <2>6, <2>7, ContinueKeeps
<1>6. CASE Abort(p)
  <2>1. Continue(p, Idle) /\ shares' = shares
    BY <1>6 DEF Abort
  <2>2. Knows(p)' /\ Idle \in CardRequest
    BY <2>1, IInvParts, IdleKnowsNothing DEF Continue, CardRequest
  <2>3. QED
    BY <1>1, <2>1, <2>2, ContinueKeeps
<1>7. QED
  BY <1>2, <1>3, <1>4, <1>5, <1>6

-----------------------------------------------------------------------------
(* Steps that write artifacts or links                                     *)

\* What is written, and that the shares which still wait have seen it.
LEMMA WriteSpares ==
    ASSUME IInv, NEW p \in Requests, NEW w, Write(p, w, Idle), UNCHANGED <<sources, shares>>
    PROVE  /\ cards' = [c \in CardIds |-> IF c \in DOMAIN w.cards THEN w.cards[c] ELSE cards[c]]
           /\ links' = [l \in Links |-> IF l \in DOMAIN w.links THEN w.links[l] ELSE links[l]]
           /\ req' = [q \in Requests |-> req'[q]] /\ req'[p] = Idle
           /\ \A q \in Requests :
                req'[q] # Idle =>
                    req'[q] = req[q] /\ (At(q, "commit") => Pending(req[q].w)')
<1>1. cards' = [c \in CardIds |-> IF c \in DOMAIN w.cards THEN w.cards[c] ELSE cards[c]]
  BY IInvParts DEF Write, Install
<1>2. links' = [l \in Links |-> IF l \in DOMAIN w.links THEN w.links[l] ELSE links[l]]
  BY IInvParts DEF Write, Install
<1>3. req' = [q \in Requests |->
                IF q = p THEN Idle
                ELSE IF req[q].op = "commit" /\ Conflict(req[q].w, w) THEN Idle
                ELSE req[q]]
  BY IInvParts DEF Write, Spared
<1>4. ASSUME NEW q \in Requests, req'[q] # Idle
      PROVE  req'[q] = req[q] /\ (At(q, "commit") => Pending(req[q].w)')
  <2>1. req'[q] = req[q] /\ ~(req[q].op = "commit" /\ Conflict(req[q].w, w))
    BY <1>3, <1>4
  <2>2. SUFFICES ASSUME At(q, "commit")
                 PROVE  Pending(req[q].w)'
    BY <2>1
  <2> DEFINE v == req[q].w
  <2>3. PICK c \in CardIds, l \in Links, n \in Nat :
            /\ v = [NoWrites EXCEPT !.links = Put(l, Link(c, n, FALSE, FALSE)),
                                    !.cards = Put(c, [cards[c] EXCEPT !.shared = n])]
            /\ Created(c) /\ links[l] = NoLink
            /\ cards[c].shared <= n /\ n <= shares
    BY <2>2, IInvParts DEF Knows, Pending
  <2>4. /\ "cards" \in DOMAIN v /\ "links" \in DOMAIN v
        /\ DOMAIN v.cards = {c} /\ DOMAIN v.links = {l}
    BY <2>3 DEF NoWrites, Put
  <2>5. ~Conflict(v, w)
    BY <2>1, <2>2 DEF At
  <2> HIDE DEF v
  <2>6. c \notin DOMAIN w.cards /\ l \notin DOMAIN w.links
    BY <2>4, <2>5 DEF Conflict
  <2>7. cards'[c] = cards[c] /\ links'[l] = links[l]
    BY <1>1, <1>2, <2>6
  <2>8. Pending(v)'
    <3>1. v' = v
      BY <2>1 DEF v
    <3>2. /\ v = [NoWrites EXCEPT !.links = Put(l, Link(c, n, FALSE, FALSE)),
                                  !.cards = Put(c, [cards'[c] EXCEPT !.shared = n])]
          /\ cards'[c].invitation # 0 /\ links'[l] = NoLink
          /\ cards'[c].shared <= n /\ n <= shares'
      BY <2>3, <2>7 DEF Created
    <3>3. QED
      BY <3>1, <3>2 DEF Pending, Created
  <2>9. QED
    BY <2>8 DEF v
<1>5. req' = [q \in Requests |-> req'[q]] /\ req'[p] = Idle
  BY <1>3
<1>6. QED
  BY <1>1, <1>2, <1>4, <1>5

\* A write keeps the invariant when it leaves what was created, and what it
\* leaves is right by itself.
LEMMA WriteKeeps ==
    ASSUME IInv, NEW p \in Requests, NEW w, Write(p, w, Idle), UNCHANGED <<sources, shares>>,
           \A c \in CardIds :
              /\ cards'[c] \in CardDocument
              /\ Created(c) => Created(c)'
              /\ cards'[c].invitation <= invitations /\ cards'[c].shared <= shares
              /\ Created(c)' => StampedAt(cards'[c], Sources),
           \A l \in Links :
              /\ links'[l] \in LinkDocument
              /\ links[l].card # 0 => links'[l].card # 0
              /\ links'[l].card # 0 =>
                    /\ cards'[links'[l].card].invitation # 0
                    /\ links'[l].created <= cards'[links'[l].card].shared
    PROVE  IInv'
<1>1. /\ UNCHANGED <<writes, edits, sent, invitations, shares>>
      /\ writes \in [Sources -> Nat] /\ edits \in [Sources -> Nat]
      /\ sent \in Nat /\ invitations \in Nat /\ shares \in Nat
  BY IInvParts DEF sources
<1>2. cards' \in [CardIds -> CardDocument] /\ links' \in [Links -> LinkDocument]
  BY WriteSpares
<1>3. \A q \in Requests : req'[q] = Idle \/ req'[q] = req[q]
  BY WriteSpares
<1>4. \A q \in Requests : At(q, "commit")' \/ req'[q] \in CardRequest
  BY <1>3, IInvParts DEF At, CardRequest
<1>5. CardsTypeOK'
  BY <1>1, <1>2, <1>4 DEF CardsTypeOK, Created
<1>6. ASSUME NEW q \in Requests
      PROVE  Knows(q)'
  <2>1. CASE req'[q] = Idle
    BY <2>1, IdleKnowsNothing
  <2>2. CASE req'[q] # Idle
    <3>1. /\ req'[q] = req[q] /\ Knows(q)
          /\ At(q, "commit") => Pending(req[q].w)'
      BY <2>2, WriteSpares, IInvParts
    <3>2. CASE req[q].op \in {"findDesign", "saveCard"}
      BY <1>1, <3>1, <3>2 DEF Knows, At, StampedAt
    <3>3. CASE req[q].op \in {"downloaded", "share"}
      <4>1. req[q].card \in CardIds
        BY <3>3, IInvParts DEF CardRequest, At, Idle
      <4>2. QED
        BY <3>1, <3>3, <4>1 DEF Knows, At
    <3>4. CASE req[q].op \in {"opened", "revoke"}
      <4>1. req[q].link \in Links
        BY <3>4, IInvParts DEF CardRequest, At, Idle
      <4>2. QED
        BY <3>1, <3>4, <4>1 DEF Knows, At
    <3>5. CASE At(q, "commit")
      BY <3>1, <3>5 DEF Knows, At
    <3>6. CASE req[q].op \notin {"findDesign", "saveCard", "downloaded", "share",
                                 "opened", "revoke", "commit"}
      BY <3>1, <3>6 DEF Knows, At
    <3>7. QED
      BY <3>2, <3>3, <3>4, <3>5, <3>6 DEF At
  <2>3. QED
    BY <2>1, <2>2
<1>7. \A c \in CardIds : Created(c)' => StampedAt(cards[c], Sources)'
  BY <1>1 DEF StampedAt
<1>8. LastShareIsLast'
  <2>1. \A c \in CardIds : c # 0
    BY DEF CardIds
  <2>2. QED
    BY <2>1 DEF LastShareIsLast
<1>9. \A c \in CardIds : cards'[c].shared <= shares'
  BY <1>1
<1>10. QED
  BY <1>5, <1>6, <1>7, <1>8, <1>9, WriteSpares DEF IInv

\* What the invariant says of each artifact and of each link.
LEMMA RowsAreRight ==
    ASSUME IInv
    PROVE  /\ \A c \in CardIds :
                /\ cards[c] \in CardDocument
                /\ cards[c].invitation <= invitations /\ cards[c].shared <= shares
                /\ Created(c) => StampedAt(cards[c], Sources)
           /\ \A l \in Links :
                /\ links[l] \in LinkDocument
                /\ links[l].card # 0 =>
                      /\ links[l].card \in CardIds /\ Created(links[l].card)
                      /\ links[l].created <= cards[links[l].card].shared
<1>1. \A l \in Links : links[l].card # 0 => links[l].card \in CardIds
  BY IInvParts, CardBoundsAssumption DEF CardIds, LinkDocument
<1>2. QED
  BY <1>1, IInvParts DEF LastShareIsLast

\* No link that is revoked is open afterwards.
LinksStay == \A l \in Links : links[l].revoked => links'[l].revoked

LEMMA CreateSaveKeeps ==
    ASSUME IInv, NEW p \in Requests, CreateSave(p)
    PROVE  IInv' /\ LinksStay
<1> DEFINE card == req[p].drawing
           w(c) == [NoWrites EXCEPT !.cards = Put(c, card)]
<1>1. PICK c \in CardIds : ~Created(c) /\ Write(p, w(c), Idle)
  BY DEF CreateSave, StampsAtRead
<1>2. UNCHANGED <<sources, shares>> /\ At(p, "saveCard")
  BY DEF CreateSave
<1>3. /\ card \in CardDocument /\ card.invitation \in 1 .. invitations
      /\ card.shared = 0 /\ StampedAt(card, Sources)
  BY <1>2, IInvParts DEF Knows, At, CardRequest, Idle, Unset
<1>4. /\ w(c).cards = [x \in {c} |-> card] /\ DOMAIN w(c).cards = {c}
      /\ DOMAIN w(c).links = {}
  BY DEF NoWrites, Put, Nothing
<1> HIDE DEF w, card
<1>5. /\ \A d \in CardIds : cards'[d] = IF d = c THEN card ELSE cards[d]
      /\ \A l \in Links : links'[l] = links[l]
  BY <1>1, <1>2, <1>4, WriteSpares
<1>6. \A d \in CardIds :
        /\ cards'[d] \in CardDocument
        /\ Created(d) => Created(d)'
        /\ cards'[d].invitation <= invitations /\ cards'[d].shared <= shares
        /\ Created(d)' => StampedAt(cards'[d], Sources)
  BY <1>1, <1>3, <1>5, RowsAreRight, IInvParts DEF Created
<1>7. \A l \in Links :
        /\ links'[l] \in LinkDocument
        /\ links[l].card # 0 => links'[l].card # 0
        /\ links'[l].card # 0 =>
              /\ cards'[links'[l].card].invitation # 0
              /\ links'[l].created <= cards'[links'[l].card].shared
  BY <1>1, <1>5, RowsAreRight DEF Created
<1>8. IInv'
  BY <1>1, <1>2, <1>6, <1>7, WriteKeeps
<1>9. QED
  BY <1>5, <1>8 DEF LinksStay

\* The update of one date of an artifact or of a link.
LEMMA TouchKeeps ==
    ASSUME IInv, NEW p \in Requests, DownloadWrite(p) \/ OpenWrite(p)
    PROVE  IInv' /\ LinksStay
<1>1. PICK w : /\ Write(p, w, Idle) /\ UNCHANGED <<sources, shares>>
               /\ \A c \in CardIds : c \in DOMAIN w.cards => w.cards[c] = cards[c]
               /\ \A l \in Links : l \in DOMAIN w.links => w.links[l] = links[l]
  <2>1. CASE DownloadWrite(p)
    <3> DEFINE w == [NoWrites EXCEPT !.cards = Put(req[p].card, cards[req[p].card])]
    <3>1. /\ \A c \in CardIds : c \in DOMAIN w.cards => w.cards[c] = cards[c]
          /\ \A l \in Links : l \in DOMAIN w.links => w.links[l] = links[l]
      BY DEF NoWrites, Put, Nothing
    <3>2. Write(p, w, Idle) /\ UNCHANGED <<sources, shares>>
      BY <2>1 DEF DownloadWrite
    <3> HIDE DEF w
    <3>3. QED
      BY <3>1, <3>2
  <2>2. CASE OpenWrite(p)
    <3> DEFINE w == [NoWrites EXCEPT !.links = Put(req[p].link, links[req[p].link])]
    <3>1. /\ \A c \in CardIds : c \in DOMAIN w.cards => w.cards[c] = cards[c]
          /\ \A l \in Links : l \in DOMAIN w.links => w.links[l] = links[l]
      BY DEF NoWrites, Put, Nothing
    <3>2. Write(p, w, Idle) /\ UNCHANGED <<sources, shares>>
      BY <2>2 DEF OpenWrite, Opened
    <3> HIDE DEF w
    <3>3. QED
      BY <3>1, <3>2
  <2>3. QED
    BY <2>1, <2>2
<1>2. /\ \A c \in CardIds : cards'[c] = cards[c]
      /\ \A l \in Links : links'[l] = links[l]
  BY <1>1, WriteSpares
<1>3. \A c \in CardIds :
        /\ cards'[c] \in CardDocument
        /\ Created(c) => Created(c)'
        /\ cards'[c].invitation <= invitations /\ cards'[c].shared <= shares
        /\ Created(c)' => StampedAt(cards'[c], Sources)
  BY <1>2, RowsAreRight DEF Created
<1>4. \A l \in Links :
        /\ links'[l] \in LinkDocument
        /\ links[l].card # 0 => links'[l].card # 0
        /\ links'[l].card # 0 =>
              /\ cards'[links'[l].card].invitation # 0
              /\ links'[l].created <= cards'[links'[l].card].shared
  BY <1>2, RowsAreRight DEF Created
<1>5. IInv'
  BY <1>1, <1>3, <1>4, WriteKeeps
<1>6. QED
  BY <1>2, <1>5 DEF LinksStay

LEMMA RevokeWriteKeeps ==
    ASSUME IInv, NEW p \in Requests, RevokeWrite(p)
    PROVE  IInv' /\ LinksStay
<1> DEFINE l == req[p].link
           row == [links[l] EXCEPT !.revoked = TRUE]
           w == [NoWrites EXCEPT !.links = Put(l, row)]
<1>1. Write(p, w, Idle) /\ UNCHANGED <<sources, shares>> /\ At(p, "revoke")
  BY DEF RevokeWrite
<1>2. l \in Links /\ links[l].card # 0
  BY <1>1, IInvParts DEF Knows, At, CardRequest, Idle
<1>3. /\ w.links = [x \in {l} |-> row] /\ DOMAIN w.links = {l}
      /\ DOMAIN w.cards = {}
  BY DEF NoWrites, Put, Nothing
<1>4. /\ row \in LinkDocument /\ row.card = links[l].card
      /\ row.created = links[l].created /\ row.revoked = TRUE
  BY <1>2, IInvParts DEF LinkDocument
<1> HIDE DEF w, row, l
<1>5. /\ \A c \in CardIds : cards'[c] = cards[c]
      /\ \A k \in Links : links'[k] = IF k = l THEN row ELSE links[k]
  BY <1>1, <1>3, WriteSpares
<1>6. \A c \in CardIds :
        /\ cards'[c] \in CardDocument
        /\ Created(c) => Created(c)'
        /\ cards'[c].invitation <= invitations /\ cards'[c].shared <= shares
        /\ Created(c)' => StampedAt(cards'[c], Sources)
  BY <1>5, RowsAreRight DEF Created
<1>7. \A k \in Links :
        /\ links'[k] \in LinkDocument
        /\ links[k].card # 0 => links'[k].card # 0
        /\ links'[k].card # 0 =>
              /\ cards'[links'[k].card].invitation # 0
              /\ links'[k].created <= cards'[links'[k].card].shared
  BY <1>2, <1>4, <1>5, RowsAreRight DEF Created
<1>8. IInv'
  BY <1>1, <1>6, <1>7, WriteKeeps
<1>9. QED
  BY <1>4, <1>5, <1>8 DEF LinksStay

\* A share that commits: neither its link nor its artifact has changed since.
LEMMA CommitKeeps ==
    ASSUME IInv, NEW p \in Requests, Commit(p)
    PROVE  IInv' /\ LinksStay
<1> DEFINE w == req[p].w
<1>1. Write(p, w, Idle) /\ UNCHANGED <<sources, shares>> /\ At(p, "commit")
  BY DEF Commit
<1>2. PICK c \in CardIds, l \in Links, n \in Nat :
        /\ w = [NoWrites EXCEPT !.links = Put(l, Link(c, n, FALSE, FALSE)),
                                !.cards = Put(c, [cards[c] EXCEPT !.shared = n])]
        /\ Created(c) /\ links[l] = NoLink
        /\ cards[c].shared <= n /\ n <= shares
  BY <1>1, IInvParts DEF Knows, Pending
<1> DEFINE card == [cards[c] EXCEPT !.shared = n]
           link == Link(c, n, FALSE, FALSE)
<1>3. /\ w.links = [x \in {l} |-> link] /\ DOMAIN w.links = {l}
      /\ w.cards = [x \in {c} |-> card] /\ DOMAIN w.cards = {c}
  BY <1>2 DEF NoWrites, Put
<1>4. /\ card \in CardDocument /\ card.shared = n
      /\ card.invitation = cards[c].invitation
      /\ card.stamps = cards[c].stamps /\ card.drawn = cards[c].drawn
      /\ card.outdated = cards[c].outdated
  <2>1. cards[c] \in CardDocument
    BY IInvParts
  <2>2. QED
    BY <2>1 DEF CardDocument
<1>5. link \in LinkDocument /\ link.card = c /\ link.created = n
  BY CardBoundsAssumption DEF Link, LinkDocument, CardIds
<1>6. links[l].revoked = FALSE /\ links[l].card = 0
  BY <1>2 DEF NoLink, Link
<1> HIDE DEF w, card, link
<1>7. /\ \A d \in CardIds : cards'[d] = IF d = c THEN card ELSE cards[d]
      /\ \A k \in Links : links'[k] = IF k = l THEN link ELSE links[k]
  BY <1>1, <1>3, WriteSpares
<1>8. \A d \in CardIds :
        /\ cards'[d] \in CardDocument
        /\ Created(d) => Created(d)'
        /\ cards'[d].invitation <= invitations /\ cards'[d].shared <= shares
        /\ Created(d)' => StampedAt(cards'[d], Sources)
  <2>1. StampedAt(card, Sources)
    BY <1>2, <1>4, RowsAreRight DEF StampedAt
  <2>2. QED
    BY <1>2, <1>4, <1>7, <2>1, RowsAreRight DEF Created
<1>9. ASSUME NEW k \in Links
      PROVE  /\ links'[k] \in LinkDocument
             /\ links[k].card # 0 => links'[k].card # 0
             /\ links'[k].card # 0 =>
                   /\ cards'[links'[k].card].invitation # 0
                   /\ links'[k].created <= cards'[links'[k].card].shared
  <2>1. CASE k = l
    <3>1. c # 0
      BY DEF CardIds
    <3>2. QED
      BY <1>2, <1>4, <1>5, <1>6, <1>7, <2>1, <3>1 DEF Created
  <2>2. CASE k # l /\ links[k].card = c
    <3>1. cards[c].shared \in Nat /\ links[k].created \in Nat /\ links[k].created <= cards[c].shared
      BY <2>2, RowsAreRight DEF CardDocument, LinkDocument, CardIds
    <3>2. QED
      BY <1>2, <1>4, <1>7, <2>2, <3>1, RowsAreRight DEF Created
  <2>3. CASE k # l /\ links[k].card # c
    BY <1>7, <2>3, RowsAreRight DEF Created
  <2>4. QED
    BY <2>1, <2>2, <2>3
<1>10. IInv'
  BY <1>1, <1>8, <1>9, WriteKeeps
<1>11. QED
  BY <1>6, <1>7, <1>10 DEF LinksStay

\* The link of a share that waits is not there yet, so it is not this one.
LEMMA ExpiresKeeps ==
    ASSUME IInv, NEW l \in Links, Expires(l)
    PROVE  IInv' /\ LinksStay
<1>1. /\ links[l].card # 0 /\ links' = [links EXCEPT ![l].expired = TRUE]
      /\ UNCHANGED <<writes, edits, sent, invitations, cards, shares, req>>
  BY DEF Expires, sources
<1> DEFINE row == [links[l] EXCEPT !.expired = TRUE]
<1>2. /\ row \in LinkDocument /\ row.card = links[l].card
      /\ row.created = links[l].created /\ row.revoked = links[l].revoked
  <2>1. links[l] \in LinkDocument
    BY IInvParts
  <2>2. QED
    BY <2>1 DEF LinkDocument
<1> HIDE DEF row
<1>3. links' = [k \in Links |-> IF k = l THEN row ELSE links[k]]
  BY <1>1, IInvParts DEF row
<1>4. \A k \in Links : links'[k].card = links[k].card /\ links'[k].created = links[k].created
  BY <1>2, <1>3
<1>5. links' \in [Links -> LinkDocument]
  BY <1>2, <1>3, IInvParts
<1>6. CardsTypeOK'
  <2>1. \A k \in Links : links'[k].card # 0 => cards[links'[k].card].invitation # 0
    BY <1>1, <1>4, IInvParts DEF Created
  <2>2. \A q \in Requests : At(q, "commit")' \/ req'[q] \in CardRequest
    BY <1>1, IInvParts DEF At
  <2>3. QED
    BY <1>1, <1>5, <2>1, <2>2, IInvParts DEF CardsTypeOK, Created
<1>7. ASSUME NEW q \in Requests
      PROVE  Knows(q)'
  <2>1. Knows(q) /\ req'[q] = req[q]
    BY <1>1, IInvParts
  <2>2. CASE At(q, "commit")
    <3>1. PICK c \in CardIds, k \in Links, n \in Nat :
            /\ req[q].w = [NoWrites EXCEPT !.links = Put(k, Link(c, n, FALSE, FALSE)),
                                           !.cards = Put(c, [cards[c] EXCEPT !.shared = n])]
            /\ Created(c) /\ links[k] = NoLink
            /\ cards[c].shared <= n /\ n <= shares
      BY <2>1, <2>2 DEF Knows, Pending
    <3>2. k # l
      BY <1>1, <3>1 DEF NoLink, Link
    <3>3. links'[k] = NoLink
      BY <1>3, <3>1, <3>2
    <3>4. Pending(req[q].w)'
      BY <1>1, <2>1, <3>1, <3>3 DEF Pending, Created
    <3>5. QED
      BY <2>1, <2>2, <3>4 DEF Knows, At
  <2>3. CASE req[q].op \in {"opened", "revoke"}
    <3>1. req[q].link \in Links
      BY <2>3, IInvParts DEF CardRequest, At, Idle
    <3>2. QED
      BY <1>4, <2>1, <2>3, <3>1 DEF Knows, At
  <2>4. CASE req[q].op \notin {"opened", "revoke", "commit"}
    BY <1>1, <2>1, <2>4 DEF Knows, At, StampedAt, Created
  <2>5. QED
    BY <2>2, <2>3, <2>4 DEF At
<1>8. \A c \in CardIds : Created(c)' => StampedAt(cards[c], Sources)'
  BY <1>1, IInvParts DEF StampedAt, Created
<1>9. LastShareIsLast'
  BY <1>1, <1>4, IInvParts DEF LastShareIsLast
<1>10. LinksStay
  BY <1>2, <1>3 DEF LinksStay
<1>11. QED
  BY <1>1, <1>6, <1>7, <1>8, <1>9, <1>10, IInvParts DEF IInv

-----------------------------------------------------------------------------
LEMMA InitHolds == Init => IInv
<1>1. SUFFICES ASSUME Init PROVE IInv
  OBVIOUS
<1>2. /\ NoCard \in CardDocument /\ NoCard.invitation = 0 /\ NoCard.shared = 0
      /\ NoLink \in LinkDocument /\ NoLink.card = 0
  BY CardBoundsAssumption DEF NoCard, Card, CardDocument, NoLink, Link, LinkDocument, Unset
<1>3. /\ writes \in [Sources -> Nat] /\ edits \in [Sources -> Nat]
      /\ sent = 0 /\ invitations = 0 /\ shares = 0
      /\ cards = [c \in CardIds |-> NoCard] /\ links = [l \in Links |-> NoLink]
      /\ req = [p \in Requests |-> Idle]
  BY <1>1 DEF Init, Unset
<1>4. \A p \in Requests : req[p] = Idle
  BY <1>3
<1>5. CardsTypeOK
  BY <1>2, <1>3, <1>4 DEF CardsTypeOK, CardRequest
<1>6. \A p \in Requests : Knows(p)
  BY <1>4 DEF Knows, At, Idle
<1>7. /\ \A c \in CardIds : ~Created(c) /\ cards[c].shared <= shares
      /\ \A l \in Links : links[l].card = 0
  BY <1>2, <1>3 DEF Created
<1>8. LastShareIsLast
  BY <1>7 DEF LastShareIsLast, CardIds
<1>9. QED
  BY <1>3, <1>4, <1>5, <1>6, <1>7, <1>8 DEF IInv

LEMMA NextKeeps == IInv /\ [Next]_vars => IInv' /\ LinksStay
<1>1. SUFFICES ASSUME IInv, [Next]_vars PROVE IInv' /\ LinksStay
  OBVIOUS
<1>2. CASE UNCHANGED vars
  <2>1. /\ UNCHANGED <<writes, edits, sent, invitations, cards, links, shares, req>>
        /\ \A s \in Sources : writes[s] <= writes[s]
        /\ invitations <= invitations /\ shares <= shares
    BY <1>1, <1>2, IInvParts DEF vars
  <2>2. \A q \in Requests : req'[q] = req[q]
    BY <2>1
  <2>3. IInv'
    BY <1>1, <2>1, <2>2, SourcesKeep, IInvParts
  <2>4. QED
    BY <2>1, <2>3 DEF LinksStay
<1>3. ASSUME NEW p \in Requests, Delivery(p)
      PROVE  IInv' /\ LinksStay
  <2>1. UNCHANGED links
    BY <1>3 DEF Delivery, MarkRead, DeliveryRead, DeliveryWrite, DeliveryReset, MarkMany,
                Continue, SaveDelivery
  <2>2. QED
    BY <1>1, <1>3, <2>1, DeliveryKeeps DEF LinksStay
<1>4. ASSUME NEW p \in Requests, Generate(p) \/ CreateRead(p) \/ CreateReadDesign(p)
      PROVE  IInv' /\ LinksStay
  <2>1. UNCHANGED links
    BY <1>4 DEF Generate, CreateRead, CreateReadDesign, Continue
  <2>2. QED
    BY <1>1, <1>4, <2>1, GenerateKeeps, CreateReadsKeep DEF LinksStay
<1>5. ASSUME NEW p \in Requests,
             \/ DownloadRead(p) \/ ShareRead(p) \/ OpenRead(p) \/ RevokeRead(p)
             \/ ShareTransaction(p) \/ Abort(p)
      PROVE  IInv' /\ LinksStay
  <2>1. UNCHANGED links
    BY <1>5 DEF DownloadRead, ShareRead, OpenRead, RevokeRead, ShareTransaction, Abort, Continue
  <2>2. QED
    BY <1>1, <1>5, <2>1, ReadsKeep DEF LinksStay
<1>6. ASSUME NEW p \in Requests,
             CreateSave(p) \/ DownloadWrite(p) \/ OpenWrite(p) \/ RevokeWrite(p) \/ Commit(p)
      PROVE  IInv' /\ LinksStay
  BY <1>1, <1>6, CreateSaveKeeps, TouchKeeps, RevokeWriteKeeps, CommitKeeps
<1>7. ASSUME NEW s \in Sources, Edit(s)
      PROVE  IInv' /\ LinksStay
  <2>1. UNCHANGED links
    BY <1>7 DEF Edit
  <2>2. QED
    BY <1>1, <1>7, <2>1, EditKeeps DEF LinksStay
<1>8. ASSUME NEW l \in Links, Expires(l)
      PROVE  IInv' /\ LinksStay
  BY <1>1, <1>8, ExpiresKeeps
<1>9. QED
  BY <1>1, <1>2, <1>3, <1>4, <1>5, <1>6, <1>7, <1>8 DEF Next, Artifact, Sharings

LEMMA AlwaysIInv == Spec => []IInv
<1>1. IInv /\ [Next]_vars => IInv'
  BY NextKeeps
<1>2. QED
  BY <1>1, InitHolds, PTL DEF Spec

-----------------------------------------------------------------------------
(* The theorems                                                            *)

\* A set of numbers below a bound has a greatest one: CHOOSE in CardStatus
\* names an artifact.
LEMMA Greatest ==
    ASSUME NEW n \in Nat, NEW T \in SUBSET (1 .. n), T # {}
    PROVE  \E x \in T : \A y \in T : y <= x
<1> DEFINE below == {n - x : x \in T}
<1>1. below \in SUBSET Nat /\ below # {}
  <2>1. \A x \in T : n - x \in Nat
    OBVIOUS
  <2>2. PICK x \in T : TRUE
    OBVIOUS
  <2>3. n - x \in below
    BY <2>2
  <2>4. QED
    BY <2>1, <2>3
<1>2. PICK R : IsWellFoundedOn(R, Nat) /\ \A x \in Nat, y \in Nat : y < x => <<y, x>> \in R
  <2>1. \A x \in Nat, y \in Nat : y < x => <<y, x>> \in OpToRel(<, Nat)
    BY DEF OpToRel
  <2>2. \E R : IsWellFoundedOn(R, Nat) /\ \A x \in Nat, y \in Nat : y < x => <<y, x>> \in R
    BY <2>1, NatLessThanWellFounded
  <2>3. QED
    BY <2>2
<1> HIDE DEF below
<1>3. \E z \in below : \A y \in below : ~(<<y, z>> \in R)
  BY <1>1, <1>2, WFMin
<1>4. PICK z \in below : \A y \in below : ~(<<y, z>> \in R)
  BY <1>3
<1>5. \A y \in below : ~(y < z) /\ y \in Nat /\ z \in Nat
  BY <1>1, <1>2, <1>4
<1>6. PICK x \in T : z = n - x
  BY <1>4 DEF below
<1>7. \A y \in T : n - y \in below
  BY DEF below
<1>8. ASSUME NEW y \in T
      PROVE  y <= x
  BY <1>5, <1>6, <1>7
<1>9. QED
  BY <1>8

\* Each document and each request has its type; a card is for an invitation
\* that is there (create of InvitationArtifactsService looks it up), and a link
\* for a card that is there.
THEOREM CardTypes == Spec => []CardsTypeOK
<1>1. IInv => CardsTypeOK
  BY DEF IInv
<1>2. QED
  BY <1>1, AlwaysIInv, PTL

\* A card that invitationStatus or present shows as fresh has missed no edit of
\* the guest, the design or the couple since create read them: whatever is old
\* on it came with the files that the browser had drawn before.
THEOREM FreshStays == Spec => []FreshIsCurrent
<1>1. ASSUME IInv PROVE FreshIsCurrent
  <2>1. ASSUME NEW c \in CardIds, Created(c), ~Stale(c)
        PROVE  Missed(c) = cards[c].outdated
    <3>1. StampedAt(cards[c], Sources)
      BY <1>1, <2>1, IInvParts
    <3>2. \A s \in Sources : cards[c].stamps[s] = writes[s]
      <4>1. \A s \in Sources : writes[s] \in Nat /\ cards[c].stamps[s] \in Nat
        BY <1>1, IInvParts DEF CardDocument
      <4>2. QED
        BY <2>1, <3>1, <4>1 DEF Stale, StampedAt
    <3>3. QED
      BY <3>1, <3>2 DEF StampedAt, Missed
  <2>2. ASSUME CardStatus = "GENERATED"
        PROVE  \E c \in CardIds :
                  cards[c].invitation = invitations /\ Missed(c) = cards[c].outdated
    <3> DEFINE ready == {c \in CardIds : Created(c) /\ cards[c].invitation = invitations}
               newest == CHOOSE c \in ready : \A d \in ready : d <= c
    <3>1. ready # {} /\ ~Stale(newest)
      BY <2>2 DEF CardStatus
    <3>2. ready \in SUBSET (1 .. MaxCards) /\ MaxCards \in Nat
      BY CardBoundsAssumption DEF CardIds
    <3> HIDE DEF ready
    <3>3. \E c \in ready : \A d \in ready : d <= c
      BY <3>1, <3>2, Greatest
    <3>4. newest \in ready
      BY <3>3
    <3>5. QED
      BY <2>1, <3>1, <3>4 DEF ready
  <2>3. QED
    BY <2>1, <2>2 DEF FreshIsCurrent
<1>2. QED
  BY <1>1, AlwaysIInv, PTL

\* lastShareAt of an artifact is the date of its newest link, for any number of
\* shares, downloads and opens of it at the same time.
THEOREM SharesStay == Spec => []LastShareIsLast
<1>1. IInv => LastShareIsLast
  BY DEF IInv
<1>2. QED
  BY <1>1, AlwaysIInv, PTL

\* No step of any request opens a link that was revoked.
THEOREM RevocationsStay == Spec => RevokedForGood
<1>1. IInv /\ [Next]_vars => [\A l \in Links : links[l].revoked => links'[l].revoked]_vars
  BY NextKeeps DEF LinksStay
<1>2. QED
  BY <1>1, AlwaysIInv, PTL DEF Spec, RevokedForGood

\* The date of the delivery is replaced by another only by a request that read
\* the guest before it was set.
THEOREM MarksStay == Spec => MarksKeepTheFirstDate
<1> DEFINE Kept == sent # Unset /\ sent' \notin {Unset, sent} =>
                      \E p \in Requests : At(p, "deliver") /\ req'[p] = Idle /\ req[p].date # sent
<1>1. ASSUME IInv, Next, sent # Unset, sent' \notin {Unset, sent}
      PROVE  \E p \in Requests : At(p, "deliver") /\ req'[p] = Idle /\ req[p].date # sent
  <2>1. PICK p \in Requests : Delivery(p)
    BY <1>1 DEF Next, Artifact, Sharings, Generate, CreateRead, CreateReadDesign, CreateSave,
                DownloadRead, DownloadWrite, ShareRead, ShareTransaction, OpenRead, OpenWrite,
                RevokeRead, RevokeWrite, Commit, Abort, Continue, Edit, Expires, sources
  <2>2. DeliveryWrite(p)
    BY <1>1, <2>1 DEF Delivery, MarkRead, DeliveryRead, DeliveryReset, MarkMany,
                      Continue, SaveDelivery, sources
  <2>3. req'[p] = Idle /\ req[p].date # sent
    <3>1. req' = [req EXCEPT ![p] = Idle] /\ sent' = DateToSave(req[p].date)
      BY <2>2 DEF DeliveryWrite, SaveDelivery
    <3>2. req'[p] = Idle
      BY <1>1, <3>1, IInvParts
    <3>3. QED
      BY <1>1, <3>1, <3>2 DEF DateToSave
  <2>4. QED
    BY <2>2, <2>3 DEF DeliveryWrite
<1>2. IInv /\ [Next]_vars => [Kept]_vars
  BY <1>1
<1> HIDE DEF Kept
<1>3. Spec => [][Kept]_vars
  BY <1>2, AlwaysIInv, PTL DEF Spec
<1>4. QED
  BY <1>3 DEF Kept, MarksKeepTheFirstDate
=============================================================================
