SPECIFICATION Spec
SYMMETRY Symmetry
\* The bounds may leave nothing to do.
CHECK_DEADLOCK FALSE
CONSTANTS
    Guests = {g1, g2}
    NoGuest = NoGuest
    Requests = {p1, p2}
    TableIds = {t1, t2, t3}
    NoTable = NoTable
    MaxNumber = 2
    StandardCount = 1
    StandardCapacity = 2
    Capacities = {1}
    NoCapacity = NoCapacity
    Omitted = Omitted
    Mixes = {
        {"replace", "seat", "unseat"},
        {"generate", "seat"},
        {"initialize", "remove", "seat", "removeGuest"},
        {"create", "update", "remove"},
        {"bulk", "update"}}
INVARIANTS
    PlanTypeOK
    PlacementStands
    NumbersUnique
