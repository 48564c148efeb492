SPECIFICATION FairSpec
CONSTANTS
    Requests = {r1, r2}
    Keys = {k1, k2}
    Bodies = {b1, b2}
    Cookie = Cookie
    Flaws = {"none", "csrf"}
    Roles = {"owner", "member", None}
    Limit = 1
    RateMax = 1
    None = None
    MaxFaults = 1
INVARIANTS
    SlotsExact
    EffectOnce
    SuccessHasEffect
    RevokedStaysOut
PROPERTIES
    SlotsComeBack
CHECK_DEADLOCK FALSE
