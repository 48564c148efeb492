SPECIFICATION PersistenceSpec
CONSTANTS
    Requests = {r1, r2}
    MaxSigners = 3
    MaxLayouts = 2
    MaxVersion = 7
    None = None
    Writers = {w1, w2}
    Verifiers = {v1, v2}
    Contents = {c1, c2}
    Genesis = Genesis
    NoHolder = NoHolder
    MaxEvents = 4
    Owners = {o1, o2}
    Signers = {s1, s2}
    Sessions = {i1, i2}
    Appenders = {a1, a2, a3}
    Queued = 2
    Null = Null
    MaxRowVersion = 5
SYMMETRY Symmetry
INVARIANTS
    TypeOK
    ReadyIsInspected
    ChainIntact
    AppendsNeverCollide
    CheckpointsMatchChain
    AlarmOnlyWhenOvertaken
    AlterationsAreSeen
    AdaptersAgree
PROPERTY
    RosterFrozen
CHECK_DEADLOCK FALSE
