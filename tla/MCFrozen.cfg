SPECIFICATION Spec
SYMMETRY Symmetry
CONSTANTS
    Guests = {g1}
    NoGuest = NoGuest
    Requests = {p1, p2}
    Tables = {t1}
    NoTable = NoTable
    TableCapacity = 1
    Invitations = {i1}
    NoInvitation = NoInvitation
    MaxQuota = 2
    MaxCoupons = 2
    Quotas = {2}
    Asks = {{}}
    Ops = {"create", "update", "generate", "checkin"}
INVARIANTS
    AllocationFrozen
