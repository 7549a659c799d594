----------------------------- MODULE CouponLedger -----------------------------
(***************************************************************************)
(* What the coupon pool promises: a ledger of numbered rows.  Unused rows  *)
(* are created, deleted, assigned and released freely; a row is used only  *)
(* by the one entry of its guest, together with the others of that guest,  *)
(* and is then final.                                                      *)
(***************************************************************************)
EXTENDS CouponRows

VARIABLES
    ledger,   \* the row of each number
    entered   \* the guests who are in

Init ==
    /\ ledger \in [Numbers -> {Absent, Available}]
    /\ entered = {}

\* Any change of the rows that are not used, to rows that are not used.
Reallocate ==
    /\ ledger' \in [Numbers -> CouponRow]
    /\ \A n \in Numbers :
        IsUsed(ledger[n]) \/ IsUsed(ledger'[n]) => ledger'[n] = ledger[n]
    /\ UNCHANGED entered

\* g enters, once, with the rows of S.
EnterWith(g, S) ==
    /\ g \notin entered
    /\ entered' = entered \cup {g}
    /\ ledger' = Install(ledger, PutAll(S, Used(g)))

\* The entry uses coupons that are assigned to its guest, and no other.
Enter(g) == \E S \in SUBSET AssignedTo(ledger, g) : EnterWith(g, S)

\* The entry uses all the coupons of its guest.
EnterWithAll(g) == EnterWith(g, AssignedTo(ledger, g))

Spec == Init /\ [][Reallocate \/ \E g \in Guests : Enter(g)]_<<ledger, entered>>

\* The ledger of a wedding where no request grows the count of a guest.
StrictSpec ==
    Init /\ [][Reallocate \/ \E g \in Guests : EnterWithAll(g)]_<<ledger, entered>>
=============================================================================
