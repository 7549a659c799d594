SPECIFICATION Spec
SYMMETRY Symmetry
CONSTANTS
    MediaIds = {m1, m2, m3}
    NoMedia = NoMedia
    Keys = {k1, k2, k3, k4}
    NoKey = NoKey
    SlotCount = 2
    Requests = {p1, p2}
    Ops = {"upload", "update", "remove"}
INVARIANTS
    MediaTypeOK
    RowsHaveFiles
    OneCardPerSlot
