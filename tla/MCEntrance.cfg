SPECIFICATION Spec
SYMMETRY Symmetry
CONSTANTS
    Guests = {g1, g2}
    NoGuest = NoGuest
    Requests = {p1, p2}
    Tables = {t1}
    NoTable = NoTable
    TableCapacity = 1
    Invitations = {i1, i2}
    NoInvitation = NoInvitation
    MaxQuota = 2
    MaxCoupons = 1
    Quotas = {2}
    Asks = {{}}
    Ops = {"create", "replace", "remove", "generate", "revoke", "checkin"}
INVARIANTS
    OneEntryPerGuest
    EntrySurvivesReplace
PROPERTIES
    StrictLedgerSpec
