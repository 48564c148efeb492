SPECIFICATION SigningSpec
CONSTANTS
    a = a
    b = b
    c = c
    Signers = {a, b, c}
    Mode = "parallel"
    Order <- MCOrder
    Requests = {r1, r2}
    MaxSessions <- MCOneSession
    None = None
INVARIANTS
    LastSignatureCompletes
SYMMETRY ParallelSymmetry
CHECK_DEADLOCK FALSE
