SPECIFICATION FairSpec
CONSTANTS
    Event = {1, 2, 3}
    Window = 3
    CommitLag = 1
    PollGap = 1
    MaxClock = 5
    MaxRestarts = 1
CHECK_DEADLOCK FALSE
INVARIANTS
    TypeOK
    NoneSkipped
PROPERTIES
    LogSpec
    CommittedIsPublished
