SPECIFICATION ReadySpec
CONSTANTS
    Signers = {a, b}
    Mode = "parallel"
    Order <- MCOrder
    Requests = {r1, r2}
    MaxSessions <- MCOneSession
    None = None
    Workers = {w1, w2}
    Dead = Dead
    MaxAttempts = 2
    MaxFaults = 1
INVARIANTS
    RevisionShowsFlattened
PROPERTIES
    FinalizedIsFinal
SYMMETRY Symmetry
CHECK_DEADLOCK FALSE
