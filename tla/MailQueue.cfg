SPECIFICATION FairSpec
CONSTANTS
    Mail = {m1, m2}
    Malformed = {m2}
    Recipient = {p1, p2}
    Drainer = {d1, d2}
    Batch = 2
    MaxRequeues = 1

CHECK_DEADLOCK FALSE
INVARIANTS
    TypeOK
    ClaimableIsOwed
    FailureIsDiagnosable
    BadgesFollowVerdict
    SentIsTrue
    VerdictNeverRefused
PROPERTIES
    BadgeSpec
    LedgerSpec
    EveryMailIsClaimed
