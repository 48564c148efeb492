SPECIFICATION FairReadySpec
CONSTANTS
    Signers = {a}
    Mode = "parallel"
    Order <- MCOrder
    Requests = {r1}
    MaxSessions <- MCOneSession
    None = None
    Workers = {w1}
    Dead = Dead
    MaxAttempts = 2
    MaxFaults = 2
PROPERTIES
    ExhaustedIsFailed
CHECK_DEADLOCK FALSE
