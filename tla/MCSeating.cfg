SPECIFICATION Spec
SYMMETRY Symmetry
CONSTANTS
    Guests = {g1, g2}
    NoGuest = NoGuest
    Requests = {p1, p2}
    Tables = {t1, t2}
    NoTable = NoTable
    TableCapacity = 2
    Invitations = {i1}
    NoInvitation = NoInvitation
    MaxQuota = 3
    MaxCoupons = 2
    Quotas = {3}
    Asks = {{}}
    Ops = {"create", "update", "remove", "replace", "seat", "unseat", "seatBulk"}
INVARIANTS
    SeatsMirrored
    WithinQuota
    SeatsOfLiveGuests
