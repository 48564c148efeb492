SPECIFICATION FairSpec
CONSTANTS
    Loads = {l1, l2}
    Submits = {s1}
    Reviews = {v1}
    MaxInk = 1
    MaxFaults = 1
INVARIANTS
    UrlsRevoked
CHECK_DEADLOCK FALSE
