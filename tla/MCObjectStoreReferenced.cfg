SPECIFICATION StoreFairSpec
CONSTANTS
    Keys = {k1}
    SweptKeys = {k1}
    Writers = {w1}
    Cleaners = {c1}
    Grace = 1
    NoKey = NoKey
    MaxStoreFaults = 0
PROPERTIES
    DeletedIsUnreferenced
