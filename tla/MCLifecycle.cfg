SPECIFICATION Spec
CONSTANTS
    Durations <- ParseDuration
    DefaultLifetime = 1
    Minute = 2
    MaxDuration = 127
    RSAKeys = {"pem"}
    Sources <- AllSources
    Credentials <- Typed
    Directories <- AliceInEach
    MaxStarts = 2
    MaxInvalidations = 1
INVARIANTS
    TypeOK
    PanicsOnlyOnOverflow
PROPERTIES
    SessionsHoldTheirTerm
    SessionsEndWithTheProcess
    SessionsAreEarned
    ShutdownCompletes
    LoginIsSynced
