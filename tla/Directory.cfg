SPECIFICATION Spec
CONSTANTS
    Key = {k1, k2}
    Token = {t1, t2}
    Absent = Absent
    Cleared = Cleared
    Registrant = {r1}
    NoKey = NoKey
    MaxGenerationAttempts = 2
    Policies <- MCPolicies
    Pusher = {p1}
INVARIANTS
    StoredOrRetired
    KnownKeyIsServed
PROPERTIES
    ImplementsDirectory
    RequestsSettle
