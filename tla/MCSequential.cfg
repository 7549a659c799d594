SPECIFICATION Spec
SYMMETRY Symmetry
CONSTANTS
    Guests = {g1, g2}
    NoGuest = NoGuest
    Requests = {p1}
    Tables = {t1}
    NoTable = NoTable
    TableCapacity = 2
    Invitations = {i1}
    NoInvitation = NoInvitation
    MaxQuota = 3
    MaxCoupons = 2
    Quotas = {2, 3}
    Asks = {{}, {1}, {2, 3}}
    Ops = {"create", "append", "replace", "update", "remove", "manual", "summary", "reconcile", "patch", "generate", "revoke", "checkin", "seat", "unseat", "seatBulk"}
INVARIANTS
    SeatCount
    AllocationFrozen
    PoolIsQuota
    RemovalReleases
PROPERTIES
    UsesAreFinal
    AdmitsOnlyInvited
