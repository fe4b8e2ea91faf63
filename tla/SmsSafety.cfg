SPECIFICATION Spec
CONSTANTS
    Sms = {s1, s2}
    Drainer = {d1, d2}
    Batch = 2
    SlowDrainers = TRUE
SYMMETRY Symmetry
CHECK_DEADLOCK FALSE
INVARIANTS
    TypeOK
    ClaimsDisjoint
    OutgoingIsUndispatched
    DeliveredIsTrue
    BadgeCoversRow
PROPERTIES
    BadgeSpec
    LedgerSpec
