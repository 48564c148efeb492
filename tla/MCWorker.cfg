SPECIFICATION WorkerSpec
CONSTANTS
    Events = {e1, e2}
    Workers = {w1, w2}
    None = None
    MaxAttempts = 2
    LeaseTicks = 1
    BackoffBase = 2
    BackoffMax = 3
    MaxFaults = 2
    Keys = {k1}
    SweptKeys = {k1}
    Writers = {p1, p2}
    Cleaners = {c1, c2}
    Grace = 2
    NoKey = NoKey
    MaxStoreFaults = 1
INVARIANTS
    RowsAgree
    LeaseExclusive
    RetryHasBudget
    NeverOrphanIsServed
PROPERTIES
    OnlyLatestAttemptSettles
    DeliverySpec
    EventuallySettled
    OrphansAreCollected
