SPECIFICATION Spec
CONSTANTS
    Event = {1, 2, 3}
    Window = 2
    CommitLag = 1
    PollGap = 1
    MaxClock = 0
    MaxRestarts = 1
    Client = {c1}
    Stream = {t1, t2}
    Permitted = {1, 3}
    Capacity = 2
    MaxStreams = 2
CHECK_DEADLOCK FALSE
INVARIANTS
    TypeOK
    SlotsAreHonest
PROPERTY ReadersSpec
