SPECIFICATION Spec
CONSTANTS
    Sender = {s1, s2}
    JwtReuse = 1
    MaxTime = 1
    NoJwt = NoJwt
INVARIANTS
    TypeOK
PROPERTIES
    RejectedJwtIsNotReused
    ImplementsSender
    SendsSettle
