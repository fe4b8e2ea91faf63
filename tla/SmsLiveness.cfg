SPECIFICATION FairSpec
CONSTANTS
    Sms = {s1, s2}
    Drainer = {d1}
    Batch = 2
    SlowDrainers = FALSE
CHECK_DEADLOCK FALSE
PROPERTIES
    EveryRowIsClaimed
    OrphansAreRequeued
