SPECIFICATION SafetySpec
CONSTANTS
    Key = {k1, k2, k3}
    Token = {t1}
    Absent = Absent
    Cleared = Cleared
    Registrant = {r1, r2}
    NoKey = NoKey
    MaxGenerationAttempts = 2
    Policies <- MCPolicies
    Pusher = {}
SYMMETRY MCSymmetry
INVARIANTS
    WorkerTypeOK
    DeviceLimit
    RefusalIsJustified
PROPERTIES
    RowsChangeByTheirKey
