SPECIFICATION Spec
CONSTANTS
    Path = {p1, p2}
    Workflow = w
    Manual = {m}
    MaxAttempts = 2
    MaxCommit = 3
INVARIANTS
    TypeOK
    LocksAreWhole
    LocksAdvance
PROPERTY
    RunsEnd
