SPECIFICATION Spec
CONSTANTS
    Event = {1, 2}
    Window = 2
    CommitLag = 1
    PollGap = 1
    MaxClock = 0
    MaxRestarts = 0
    Client = {c1}
    Stream = {t1}
    Permitted = {1, 2}
    Capacity = 4
    MaxStreams = 2
CHECK_DEADLOCK FALSE
INVARIANT HandoverIsExact
