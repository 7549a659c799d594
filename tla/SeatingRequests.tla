--------------------------- MODULE SeatingRequests ---------------------------
(***************************************************************************)
(* SeatingService over the standard tables: assign (also reached through   *)
(* TablesService.assign), unassign and bulk, each one transaction that     *)
(* reads the guests and the seats in its snapshot.  A seat is inserted     *)
(* under its unique (tableId, seatNumber).                                 *)
(***************************************************************************)
EXTENDS WeddingDb

\* The seats of table t that nobody outside G holds.
Open(t, G) == {s \in SeatNumbers : seats[<<t, s>>] \in G \cup {NoGuest}}

\* Mutant: the earlier seats are kept.
SeatingKeepsOld(G, t, chosen) ==
    [NoWrites EXCEPT
        !.seats = [place \in {<<t, s>> : s \in DOMAIN chosen} |-> chosen[place[2]]],
        !.guests = [g \in G |->
                      [guests[g] EXCEPT
                          !.table = t,
                          !.mirror = {s \in DOMAIN chosen : chosen[s] = g}]]]

\* apply: the guests of G leave every seat they hold, each takes its seats
\* of chosen, from seat numbers to guests, at t, and tableId and
\* assignedSeats mirror them.
Seating(G, t, chosen) ==
    LET taken == {<<t, s>> : s \in DOMAIN chosen}
        left  == UNION {SeatsOf(g) : g \in G}
    IN  [NoWrites EXCEPT
            !.seats = Then(PutAll(left, NoGuest),
                           [place \in taken |-> chosen[place[2]]]),
            !.guests = [g \in G |->
                          [guests[g] EXCEPT
                              !.table = t,
                              !.mirror = {s \in DOMAIN chosen : chosen[s] = g}]]]

\* The choices of open seats that give each guest of G as many as it asked.
Choices(G, t) ==
    {chosen \in UNION {[S -> G] : S \in SUBSET Open(t, G)} :
        \A g \in G :
            Cardinality({s \in DOMAIN chosen : chosen[s] = g}) = guests[g].coupons}

\* assign with autoAssign takes the lowest seats that are free for g; with
\* seatNumbers it takes these, and an occupied one violates the unique index.
AssignSeats(p) ==
    \E g \in Guests, t \in Tables :
        /\ Arrives(p, "seat")
        /\ Live(g)
        /\ \E chosen \in Choices({g}, t) : Transaction(p, Seating({g}, t, chosen))

UnassignSeats(p) ==
    \E g \in Guests :
        /\ Arrives(p, "unseat")
        /\ Live(g)
        /\ Transaction(p, [NoWrites EXCEPT
             !.seats  = PutAll(SeatsOf(g), NoGuest),
             !.guests = Put(g, [guests[g] EXCEPT !.table = NoTable, !.mirror = {}])])

\* bulk, bounded to two guests; the seats it chooses, by itself or as listed,
\* are disjoint and open to the two.
BulkSeats(p) ==
    \E g, h \in Guests, t \in Tables :
        /\ Arrives(p, "seatBulk")
        /\ g # h /\ Live(g) /\ Live(h)
        /\ \E chosen \in Choices({g, h}, t) :
            Transaction(p, Seating({g, h}, t, chosen))
=============================================================================
