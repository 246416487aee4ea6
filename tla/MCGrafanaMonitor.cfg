SPECIFICATION Spec
CONSTANTS
    Loops = {l1, l2, l3}
    NoLoop = NoLoop
    BaseInterval = 1
    MaxInterval = 10
INVARIANTS
    TypeOK
    SingleProber
    BlockedIffProbing
    ResumesOnFreshProbe
    BackoffBounded
PROPERTIES
    StopReachesProbers
    ImplementsGate
    UnblocksWhenServing
    OutageDetected
