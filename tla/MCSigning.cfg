SPECIFICATION SigningSpec
CONSTANTS
    a = a
    b = b
    c = c
    Signers = {a, b, c}
    Mode = "ordered"
    Order <- MCOrder
    Requests = {r1, r2}
    MaxSessions <- MCSessions
    None = None
INVARIANTS
    SignedThroughOneSession
    RoutingRespected
    OneSessionToken
    OutcomeMatchesRoster
PROPERTIES
    LegalTransitions
    ClosedDocumentFreezesRoster
    LifecycleSpec
SYMMETRY Symmetry
CHECK_DEADLOCK FALSE
