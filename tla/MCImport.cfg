SPECIFICATION Spec
SYMMETRY Symmetry
CONSTANTS
    Guests = {g1, g2}
    NoGuest = NoGuest
    Requests = {p1, p2}
    Tables = {t1}
    NoTable = NoTable
    TableCapacity = 1
    Invitations = {i1}
    NoInvitation = NoInvitation
    MaxQuota = 2
    MaxCoupons = 1
    Quotas = {2}
    Asks = {{}, {2}}
    Ops = {"import", "generate", "checkin", "reconcile"}
INVARIANTS
    TypeOK
    PendingLegal
    UsedHasCheckIn
PROPERTIES
    LedgerSpec
