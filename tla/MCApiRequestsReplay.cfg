SPECIFICATION FairSpec
CONSTANTS
    Requests = {r1, r2}
    Keys = {k1}
    Bodies = {b1}
    Cookie = Cookie
    Flaws = {"none"}
    Roles = {"owner", None}
    Limit = 2
    RateMax = 2
    None = None
    MaxFaults = 1
PROPERTIES
    ReplayIsStored
CHECK_DEADLOCK FALSE
