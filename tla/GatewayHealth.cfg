SPECIFICATION Spec
CONSTANTS
    Unset = Unset
    NoLength = NoLength
    NoCredentials = NoCredentials
    MaxChunk = 2
    HardMax = 3
    DefaultMax = 2
    Env <- MCEnv
    Path <- MCHealthPaths
    Credentials <- MCCredentials
    Method = {"GET", "HEAD", "POST", "DELETE"}
    PrefixedNames = {"barkping", "barkregister"}
    Escapes <- MCEscapes
INVARIANT
    HealthStaysAvailable
