SPECIFICATION Spec
CONSTANTS
    k1 = k1
    k2 = k2
    Key = {k1, k2}
    NoKey = NoKey
    NoParam = NoParam
    NotString = NotString
    Bodies <- MCBodies
    Entries <- MCEntries
INVARIANTS
    TypeOK
    PathDecides
    BatchReachesListed
CHECK_DEADLOCK FALSE
