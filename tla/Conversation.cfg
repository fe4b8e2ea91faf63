SPECIFICATION Spec
CONSTANTS
    Worker = {w1, w2}
    Partner = {ann, ben}
    MaxCalls = 4
    Channel = {c1, c2}
    MaxMessage = 2
    Mark = {thumb}
    Subtype = {note}
SYMMETRY Symmetric
INVARIANTS
    TypeOK
    PointerIsNewestRead
    EntersByRight
    ForksWereRaced
    UpsertsAreKept
PROPERTY MarksSpec
CHECK_DEADLOCK FALSE
