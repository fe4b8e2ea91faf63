SPECIFICATION FairSpec
CONSTANTS
    Worker = {w1, w2}
    Partner = {author, reader}
    Author = author
    Followers = {author, reader}
    MaxWork = 3
    MaxFaults = 1
    Scheduled = {post1, post2, post3}
    ToWall = {post2}
    Recipients = {reader}
    Extra = {post3}
    Held = {hold1, hold2}
    question = question
    answer = answer
    stranger = stranger
    Mail <- MCMail
    Identified <- MCKnown
    Trusted <- MCKnown
    Aliased = {answer}
    Defaulted = {question}
    Parent <- MCParent
    Activity = {call}
    Chaining = {call}
INVARIANTS
    TypeOK
    
    FiredReachesFollowers
    RoutedAsKnown
    DoneIsWhole
PROPERTIES
    ShotSpec
    IntakeSpec
    HeldIsSettled
    DeliveredIsAnswered
CHECK_DEADLOCK FALSE
