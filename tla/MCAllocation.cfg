SPECIFICATION Spec
SYMMETRY Symmetry
CONSTANTS
    Guests = {g1, g2}
    NoGuest = NoGuest
    Requests = {p1, p2}
    Tables = {t1}
    NoTable = NoTable
    TableCapacity = 1
    Invitations = {i1}
    NoInvitation = NoInvitation
    MaxQuota = 3
    MaxCoupons = 2
    Quotas = {2, 3}
    Asks = {{}, {2}}
    Ops = {"create", "append", "update", "remove", "manual", "reconcile", "patch", "summary"}
INVARIANTS
    ExactAllocation
    PoolCoversQuota
