SPECIFICATION Spec
CONSTANTS
    k1 = k1
    k2 = k2
    Key = {k1, k2}
    NoKey = NoKey
    NotString = NotString
    Arguments <- MCArguments
    Request = {r1}
    Secret = {s1, s2}
    NoSecret = NoSecret
    Version = {v1, v2}
    ServerVersion = v1
    Dated = Dated
    Odd = Odd
    Null = Null
    None = None
    Garbled = Garbled
    Empty = Empty
    SessionTtl = 1
    MaxTime = 1
    MaxSessions = 1
INVARIANTS
    TypeOK
    VersionsAgree
    SessionVerdicts
    OnlyCallsPush
    PushReachesEndpoint
PROPERTY
    McpRequestsSettle
