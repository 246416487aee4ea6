SPECIFICATION Spec
CONSTANTS
    Loops = {l1, l2}
    NoLoop = NoLoop
    BaseInterval = 1
    MaxInterval = 2
INVARIANT
    RecoveryBeforeTraffic
