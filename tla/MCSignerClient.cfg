SPECIFICATION FairSpec
CONSTANTS
    Loads = {l1, l2}
    Submits = {s1, s2}
    Reviews = {v1, v2}
    MaxInk = 2
    MaxFaults = 1
INVARIANTS
    OutcomeIsTrue
    DeadEndIsDead
    StoredIsReviewed
    WipedAtTheEnd
PROPERTIES
    SpinnerEnds
CHECK_DEADLOCK FALSE
