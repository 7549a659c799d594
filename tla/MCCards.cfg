SPECIFICATION Spec
SYMMETRY Symmetry
\* The bounds may leave nothing to do.
CHECK_DEADLOCK FALSE
CONSTANTS
    MaxInvitations = 2
    MaxCards = 2
    Links = {l1, l2}
    Requests = {p1, p2}
    MaxWrites = 3
    MaxEdits = 2
    MaxShares = 3
    Mixes = {
        {"generate", "artifact", "guest", "design"},
        {"generate", "artifact", "couple", "design", "markMany"},
        {"mark", "delivery", "markMany"},
        {"generate", "artifact", "download", "share"},
        {"generate", "artifact", "share", "open", "revoke"}}
INVARIANTS
    CardsTypeOK
    FreshIsCurrent
    LastShareIsLast
PROPERTIES
    RevokedForGood
    MarksKeepTheFirstDate
