SPECIFICATION ReadySpec
CONSTANTS
    Signers = {a, b}
    Mode = "parallel"
    Order <- MCOrder
    Requests = {r1}
    MaxSessions <- MCOneSession
    None = None
    Workers = {w1}
    Dead = Dead
    MaxAttempts = 2
    MaxFaults = 0
INVARIANTS
    FinalizedShowsEverySignature
SYMMETRY Symmetry
CHECK_DEADLOCK FALSE
