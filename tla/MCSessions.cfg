SPECIFICATION Spec
SYMMETRY Symmetry
\* A couple that is removed may leave no request that writes anything.
CHECK_DEADLOCK FALSE
CONSTANTS
    Users = {u1, u2, u3}
    NoUser = NoUser
    Owner = u1
    Emails = {e1, e2, e3}
    OwnerEmail = e1
    AdminEmail = e2
    SessionIds = {s1, s2, s3}
    NoSession = NoSession
    Requests = {p1, p2}
    MaxEnds = 1
    Mixes = {
        {"login", "refresh", "logout", "status", "reset"},
        {"login", "refresh", "createAgent", "updateAgent"},
        {"login", "refresh", "bootstrap", "rename"},
        {"login", "refresh", "status", "removeCouple"},
        {"status", "removeCouple", "createAgent", "updateAgent", "rename", "bootstrap"}}
INVARIANTS
    SessionsTypeOK
    RevocationHolds
    RotationOrder
    RemovalLocksOut
    OneAdmin
PROPERTIES
    RolesFixed
