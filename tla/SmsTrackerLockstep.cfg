SPECIFICATION Spec
CONSTANTS
    Sms = {s1}
    Drainer = {d1}
    Batch = 2
    SlowDrainers = FALSE
CHECK_DEADLOCK FALSE
INVARIANT TrackerInLockstep
